------------------------- MODULE FlagDetectionProofs -------------------------
(* extract_color_bands and get_flag find the bands and the flag of every   *)
(* line, of every length, for every choice of the widths; and a pixel has  *)
(* the hue of its strongest component, in every light.                     *)
EXTENDS FlagDetection, ColorBandsProofs, FiniteSetTheorems

(* at lists the n elements of a set of numbers in their order.             *)
Lists(at, n, S) ==
  /\ \A k \in 0 .. n - 1 : at[k] \in S
  /\ \A j, k \in 0 .. n - 1 : j < k => at[j] < at[k]
  /\ \A x \in S : \E k \in 0 .. n - 1 : x = at[k]

(* The elements of a set of numbers that are smaller than b.               *)
Below(S, b) == {x \in S : x < b}

(* The place of an element in the list is the number of smaller elements.  *)
LEMMA ListedRank ==
  ASSUME NEW S \in SUBSET Nat, NEW n \in Nat, NEW at, Lists(at, n, S)
  PROVE  /\ IsFiniteSet(S) /\ Cardinality(S) = n
         /\ \A k \in 0 .. n - 1 : Cardinality(Below(S, at[k])) = k
<1>1. \A j, k \in 0 .. n - 1 : at[j] = at[k] => j = k
  <2> SUFFICES ASSUME NEW j \in 0 .. n - 1, NEW k \in 0 .. n - 1, at[j] = at[k]
      PROVE  j = k
    OBVIOUS
  <2>0. at[j] \in S /\ at[k] \in S
    BY DEF Lists
  <2>1. PICK x \in Nat : x = at[j] /\ x = at[k]
    BY <2>0
  <2>2. ~(j < k) /\ ~(k < j)
    BY <2>1 DEF Lists
  <2>3. QED
    BY <2>2
<1>2. ASSUME NEW m \in 0 .. n, NEW T, T = {at[k] : k \in 0 .. m - 1}
      PROVE  IsFiniteSet(T) /\ Cardinality(T) = m
  <2> DEFINE f == [k \in 0 .. m - 1 |-> at[k]]
  <2>1. f \in Bijection(0 .. m - 1, T)
    <3>1. f \in [0 .. m - 1 -> T]
      BY <1>2
    <3>2. \A t \in T : \E k \in 0 .. m - 1 : f[k] = t
      BY <1>2
    <3>3. \A j, k \in 0 .. m - 1 : f[j] = f[k] => j = k
      BY <1>1
    <3>4. QED
      BY <3>1, <3>2, <3>3 DEF Bijection, Injection, Surjection, IsInjective
  <2>2. IsFiniteSet(0 .. m - 1) /\ Cardinality(0 .. m - 1) = m
    BY FS_Interval
  <2>3. ExistsBijection(0 .. m - 1, T)
    BY <2>1 DEF ExistsBijection
  <2>4. QED
    BY <2>2, <2>3, FS_Bijection
<1>3. S = {at[k] : k \in 0 .. n - 1}
  BY DEF Lists
<1>4. ASSUME NEW m \in 0 .. n - 1
      PROVE  Below(S, at[m]) = {at[k] : k \in 0 .. m - 1}
  <2>1. ASSUME NEW x \in Below(S, at[m]) PROVE x \in {at[k] : k \in 0 .. m - 1}
    <3>1. PICK k \in 0 .. n - 1 : x = at[k]
      BY <2>1 DEF Lists, Below
    <3>2. at[k] < at[m] /\ at[k] \in Nat /\ at[m] \in Nat
      BY <2>1, <3>1 DEF Lists, Below
    <3>3. k < m
      BY <3>2 DEF Lists
    <3>4. QED
      BY <3>1, <3>3
  <2>2. ASSUME NEW k \in 0 .. m - 1 PROVE at[k] \in Below(S, at[m])
    BY DEF Lists, Below
  <2>3. QED
    BY <2>1, <2>2
<1>5. IsFiniteSet(S) /\ Cardinality(S) = n
  BY <1>2, <1>3
<1>6. ASSUME NEW k \in 0 .. n - 1 PROVE Cardinality(Below(S, at[k])) = k
  BY <1>2, <1>4
<1>7. QED
  BY <1>5, <1>6

(* One more element, the only one from b up to c.                          *)
LEMMA ListNext ==
  ASSUME NEW S \in SUBSET Nat, NEW n \in Nat, NEW at, NEW new,
         NEW b \in Nat, NEW c \in Nat, NEW v \in S, Lists(at, n, Below(S, b)),
         b <= v, v < c, \A x \in S : b <= x /\ x < c => x = v,
         new[n] = v, \A k \in 0 .. n - 1 : new[k] = at[k]
  PROVE  Lists(new, n + 1, Below(S, c))
<1>1. new[n] = v /\ \A k \in 0 .. n - 1 : new[k] = at[k]
  OBVIOUS
<1>2. ASSUME NEW k \in 0 .. n - 1
      PROVE  new[k] \in S /\ new[k] \in Nat /\ new[k] < b /\ new[k] < v
  <2>1. new[k] \in Below(S, b)
    BY <1>1 DEF Lists
  <2>2. new[k] \in S /\ new[k] < b
    BY <2>1 DEF Below
  <2>3. PICK x \in Nat, y \in Nat : x = new[k] /\ y = v
    BY <2>2
  <2>4. QED
    BY <2>2, <2>3
<1>3. ASSUME NEW k \in 0 .. n PROVE new[k] \in Below(S, c)
  <2>1. CASE k = n
    BY <1>1, <2>1 DEF Below
  <2>2. CASE k # n
    <3>1. new[k] \in S /\ new[k] \in Nat /\ new[k] < v
      BY <1>2, <2>2
    <3>2. QED
      BY <3>1 DEF Below
  <2>3. QED
    BY <2>1, <2>2
<1>4. \A j, k \in 0 .. n : j < k => new[j] < new[k]
  <2> SUFFICES ASSUME NEW j \in 0 .. n, NEW k \in 0 .. n, j < k PROVE new[j] < new[k]
    OBVIOUS
  <2>1. CASE k = n
    <3>1. new[j] < v
      BY <1>2, <2>1
    <3>2. QED
      BY <1>1, <2>1, <3>1
  <2>2. CASE k < n
    BY <1>1, <2>2 DEF Lists
  <2>3. QED
    BY <2>1, <2>2
<1>5. ASSUME NEW x \in Below(S, c) PROVE \E k \in 0 .. n : x = new[k]
  <2>1. CASE x < b
    <3>1. PICK k \in 0 .. n - 1 : x = at[k]
      BY <2>1 DEF Lists, Below
    <3>2. QED
      BY <1>1, <3>1
  <2>2. CASE x >= b
    BY <1>1, <2>2 DEF Below
  <2>3. QED
    BY <2>1, <2>2 DEF Below
<1>6. n + 1 - 1 = n
  OBVIOUS
<1>7. QED
  BY <1>3, <1>4, <1>5, <1>6 DEF Lists

(* In a list, the position before another is the one listed before it.     *)
LEMMA ListedChanges ==
  ASSUME NEW S \in SUBSET Nat, NEW n \in Nat, NEW at, Lists(at, n, S), NEW f,
         NEW k \in 0 .. n - 1
  PROVE  at[k] \in Changes(S, f) <=> (k = 0 \/ f[at[k - 1]] # f[at[k]])
<1>1. at[k] \in S /\ at[k] \in Nat
  BY DEF Lists
<1>2. CASE k = 0
  <2>1. ASSUME NEW q \in S PROVE ~(q < at[k])
    <3>1. PICK j \in 0 .. n - 1 : q = at[j]
      BY DEF Lists
    <3>2. j = k \/ k < j
      BY <1>2
    <3>3. q \in Nat /\ (q = at[k] \/ at[k] < q)
      BY <3>1, <3>2 DEF Lists
    <3>4. QED
      BY <1>1, <3>3
  <2>2. QED
    BY <1>1, <1>2, <2>1 DEF Changes
<1>3. CASE k > 0
  <2> DEFINE p == at[k - 1]
  <2>0. k - 1 \in 0 .. n - 1 /\ k - 1 < k
    BY <1>3
  <2>1. p \in S /\ p < at[k] /\ p \in Nat
    BY <2>0 DEF Lists
  <2>2. \A x \in S : x <= p \/ x >= at[k]
    <3> SUFFICES ASSUME NEW x \in S PROVE x <= p \/ x >= at[k]
      OBVIOUS
    <3>1. PICK j \in 0 .. n - 1 : x = at[j]
      BY DEF Lists
    <3>2. j < k - 1 \/ j = k - 1 \/ j = k \/ j > k
      OBVIOUS
    <3>3. QED
      BY <1>1, <2>0, <2>1, <3>1, <3>2 DEF Lists
  <2>3. \A q \in S : q < at[k] /\ (\A x \in S : x <= q \/ x >= at[k]) => q = p
    BY <1>1, <2>1, <2>2
  <2>4. QED
    BY <1>1, <1>3, <2>1, <2>2, <2>3 DEF Changes
<1>4. QED
  BY <1>2, <1>3
-----------------------------------------------------------------------------
(* What the proofs need to know of the length of the buffer.               *)
LEMMA BufferSize == IMAGE_BUFFER_SIZE \in Nat /\ IMAGE_BUFFER_SIZE > 1
BY BandsAssumption

(* Runs do not overlap.                                                    *)
LEMMA RunsApart ==
  ASSUME NEW line, NEW a \in Pixel, NEW b \in Pixel, NEW c \in Pixel, NEW d \in Pixel,
         RunAt(line, a, b), RunAt(line, c, d), a <= c, c <= b
  PROVE  c = a /\ d = b
<1> USE BandsAssumption DEF Pixel
<1>1. c = a
  <2>1. CASE c > a
    <3>1. c - 1 \in a .. b /\ c \in a .. b /\ c # 0
      BY <2>1
    <3>2. line[c - 1] = line[a] /\ line[c] = line[a]
      BY <3>1 DEF RunAt
    <3>3. line[c - 1] # line[c]
      BY <3>1 DEF RunAt
    <3>4. QED
      BY <3>2, <3>3
  <2>2. QED
    BY <2>1
<1>2. ASSUME NEW x \in Pixel, NEW y \in Pixel, RunAt(line, a, x), RunAt(line, a, y)
      PROVE  ~(x < y)
  <2> SUFFICES ASSUME x < y PROVE FALSE
    OBVIOUS
  <2>1. x + 1 \in a .. y /\ x # IMAGE_BUFFER_SIZE - 1
    BY <1>2 DEF RunAt
  <2>2. line[x + 1] = line[a] /\ line[x + 1] # line[a]
    BY <1>2, <2>1 DEF RunAt
  <2>3. QED
    BY <2>2
<1>3. QED
  BY <1>1, <1>2

(* The only head in a run is that of the run.                              *)
LEMMA HeadOfRun ==
  ASSUME NEW line, NEW a \in Pixel, NEW b \in Pixel, RunAt(line, a, b)
  PROVE  /\ \A x \in Heads(line) : a <= x /\ x <= b => x = a
         /\ a \in Heads(line) <=> Counts(line, a, b)
<1>1. ASSUME NEW x \in Heads(line), a <= x, x <= b PROVE x = a /\ Counts(line, a, b)
  <2>1. PICK y \in Pixel : Counts(line, x, y)
    BY DEF Heads
  <2>2. x \in Pixel /\ RunAt(line, x, y)
    BY <2>1 DEF Heads, Counts
  <2>3. x = a /\ y = b
    BY <1>1, <2>2, RunsApart
  <2>4. QED
    BY <2>1, <2>3
<1>2. Counts(line, a, b) => a \in Heads(line)
  BY DEF Heads
<1>3. a <= b /\ a <= a
  BY DEF RunAt, Pixel
<1>4. QED
  BY <1>1, <1>2, <1>3

-----------------------------------------------------------------------------
(* Step 1.  Group k is the run of the line from pos[k] to pos[k + 1].      *)
Pos == [Nat -> 0 .. IMAGE_BUFFER_SIZE]

(* Group k is the k-th run, with its colour and its length.               *)
RunGroup(pos, k) ==
  /\ RunAt(color_line, pos[k], pos[k + 1] - 1)
  /\ color_groups[k] = color_line[pos[k]]
  /\ size_of_groups[k] = pos[k + 1] - pos[k]

(* The run that goes on began at a.                                        *)
OpenRun(a) ==
  /\ a < i /\ current_group_size = i - a
  /\ \A x \in a .. i - 1 : color_line[x] = current_color
  /\ a = 0 \/ color_line[a - 1] # current_color

(* The loop of split_colors at pixel i: the groups are the runs before it. *)
SplitAt(pos) ==
  /\ 1 <= i /\ pos[0] = 0
  /\ \A k \in 0 .. color_group_index - 1 : RunGroup(pos, k)
  /\ IF i < IMAGE_BUFFER_SIZE THEN OpenRun(pos[color_group_index])
                              ELSE pos[color_group_index] = IMAGE_BUFFER_SIZE

(* What Gather leaves where: a group that ended, and the last one, z.       *)
Gathers(color, size, z) == Gather(color, size, i = z)

(* One call of Gather: the group that ended, if any, the last one if this  *)
(* is the end, and nothing else.                                           *)
LEMMA GatherAt ==
  ASSUME BandsTypeOK, NEW color \in Color, NEW size \in Nat, NEW z,
         Gathers(color, size, z), NEW g, g = color_group_index, NEW h, h = color_group_index'
  PROVE  /\ h = g + (IF color # current_color THEN 1 ELSE 0) + (IF i = z THEN 1 ELSE 0)
         /\ current_color' = color
         /\ current_group_size' = IF color # current_color THEN size
                                                           ELSE current_group_size + size
         /\ \A k \in Pixel : k < g \/ k >= h =>
              color_groups'[k] = color_groups[k] /\ size_of_groups'[k] = size_of_groups[k]
         /\ color # current_color /\ g \in Pixel =>
              color_groups'[g] = current_color /\ size_of_groups'[g] = current_group_size
         /\ i = z /\ h - 1 \in Pixel =>
              color_groups'[h - 1] = color /\ size_of_groups'[h - 1] = current_group_size'
<1> DEFINE last  == i = z
           ended == color # current_color
           total == IF ended THEN size ELSE current_group_size + size
<1>1. /\ color_groups' = Store(color_groups, current_color, color, ended, last)
      /\ size_of_groups' = Store(size_of_groups, current_group_size, total, ended, last)
      /\ current_color' = color /\ current_group_size' = total
  BY DEF Gathers, Gather
<1>2. h = color_group_index + (IF ended THEN 1 ELSE 0) + (IF last THEN 1 ELSE 0)
  BY DEF Gathers, Gather, Advance
<1>3. total \in Nat /\ color_group_index \in Nat /\ ended \in BOOLEAN
  BY DEF BandsTypeOK
<1>4. /\ color_groups \in [Pixel -> Color] /\ current_color \in Color
      /\ size_of_groups \in [Pixel -> Nat] /\ current_group_size \in Nat
  BY DEF BandsTypeOK
<1> DEFINE next == IF ended THEN color_group_index + 1 ELSE color_group_index
<1>5. ended <=> color # current_color
  OBVIOUS
<1> HIDE DEF total, ended
<1>6. ASSUME NEW k \in Pixel
      PROVE  /\ color_groups'[k] = IF last /\ k = next THEN color
                                   ELSE IF ended /\ k = color_group_index THEN current_color
                                   ELSE color_groups[k]
             /\ size_of_groups'[k] = IF last /\ k = next THEN total
                                     ELSE IF ended /\ k = color_group_index THEN current_group_size
                                     ELSE size_of_groups[k]
  <2> DEFINE colors == IF ended THEN [color_groups EXCEPT ![color_group_index] = current_color]
                                ELSE color_groups
             sizes == IF ended
                      THEN [size_of_groups EXCEPT ![color_group_index] = current_group_size]
                               ELSE size_of_groups
  <2>1. colors \in [Pixel -> Color] /\ sizes \in [Pixel -> Nat]
    BY <1>4
  <2>2. /\ colors[k] = IF ended /\ k = color_group_index THEN current_color ELSE color_groups[k]
        /\ sizes[k] = IF ended /\ k = color_group_index THEN current_group_size
                                                        ELSE size_of_groups[k]
    BY <1>4
  <2>3. /\ color_groups' = IF last THEN [colors EXCEPT ![next] = color] ELSE colors
        /\ size_of_groups' = IF last THEN [sizes EXCEPT ![next] = total] ELSE sizes
    BY <1>1 DEF Store
  <2> HIDE DEF colors, sizes, next
  <2>4. /\ color_groups'[k] = IF last /\ k = next THEN color ELSE colors[k]
        /\ size_of_groups'[k] = IF last /\ k = next THEN total ELSE sizes[k]
    BY <2>1, <2>3
  <2>5. QED
    BY <2>2, <2>4
<1>7. next = h - (IF last THEN 1 ELSE 0) /\ \A k \in Pixel : k \in Int
  BY <1>2, <1>3 DEF Pixel
<1>8. total = IF color # current_color THEN size ELSE current_group_size + size
  BY DEF total, ended
<1>9. \A k \in Pixel : k < g \/ k >= h =>
        color_groups'[k] = color_groups[k] /\ size_of_groups'[k] = size_of_groups[k]
  BY <1>2, <1>3, <1>6, <1>7
<1>10. QED
  BY <1>5, <1>1, <1>2, <1>3, <1>6, <1>7, <1>8, <1>9

(* The first iteration starts from the first pixel.                        *)
LEMMA CallRuns ==
  ASSUME BandsInv, Call
  PROVE  \E pos \in Pos : SplitAt(pos)'
<1> DEFINE zero == [k \in Nat |-> 0]
<1>1. zero \in Pos /\ zero[0] = 0
  BY BandsAssumption DEF Pos
<1>2. /\ i' = 1 /\ color_group_index' = 0 /\ current_group_size' = 1
      /\ current_color' = color_line'[0]
  BY DEF Call, BandsInv
<1>3. SplitAt(zero)'
  BY <1>1, <1>2, BandsAssumption DEF SplitAt, OpenRun
<1>4. QED
  BY <1>1, <1>3
(* One iteration of the loop of split_colors.                              *)
LEMMA SplitRuns ==
  ASSUME BandsInv, Split, NEW pos \in Pos, SplitAt(pos)
  PROVE  \E new \in Pos : SplitAt(new)'
<1> DEFINE last == i = IMAGE_BUFFER_SIZE - 1
<1>1. /\ step = "split" /\ i \in 1 .. IMAGE_BUFFER_SIZE - 1 /\ i \in Pixel
      /\ color_group_index < i /\ color_group_index \in Nat
      /\ current_group_size \in Nat /\ IMAGE_BUFFER_SIZE \in Nat
  BY BandsAssumption DEF Split, SplitAt, BandsInv, BandsTypeOK, CompactsBehind, Pixel
<1>2. color_line[i] \in Color /\ BandsTypeOK
  BY <1>1 DEF BandsInv, BandsTypeOK
<1>3. PICK g : g = color_group_index
  OBVIOUS
<1>4. PICK h : h = color_group_index'
  OBVIOUS
<1>5. PICK new : new = [k \in Nat |-> IF k <= g THEN pos[k]
                                     ELSE IF color_line[i] # current_color /\ k = g + 1 THEN i
                                     ELSE IMAGE_BUFFER_SIZE]
  OBVIOUS
<1>6. /\ g \in Nat /\ pos[g] \in Nat /\ \A k \in 0 .. g : new[k] = pos[k]
      /\ new \in Pos
  BY <1>1, <1>3, <1>5 DEF Pos
<1>7. i' = i + 1 /\ color_line' = color_line
  BY DEF Split, Gather
<1>8. /\ h = g + (IF color_line[i] # current_color THEN 1 ELSE 0) + (IF last THEN 1 ELSE 0)
      /\ current_color' = color_line[i]
      /\ current_group_size' = IF color_line[i] # current_color THEN 1
                                                                 ELSE current_group_size + 1
      /\ \A k \in Pixel : k < g \/ k >= h =>
           color_groups'[k] = color_groups[k] /\ size_of_groups'[k] = size_of_groups[k]
      /\ color_line[i] # current_color /\ g \in Pixel =>
           color_groups'[g] = current_color /\ size_of_groups'[g] = current_group_size
      /\ last /\ h - 1 \in Pixel =>
           color_groups'[h - 1] = color_line[i] /\ size_of_groups'[h - 1] = current_group_size'
  <2>1. Gathers(color_line[i], 1, IMAGE_BUFFER_SIZE - 1)
    BY DEF Split, Gathers
  <2>2. QED
    BY <1>2, <1>3, <1>4, <2>1, GatherAt DEF last
<1> HIDE DEF last
<1>9. h - 1 <= i /\ h \in Nat /\ g \in Pixel
  BY <1>1, <1>3, <1>6, <1>8 DEF Pixel
<1>10. OpenRun(pos[g])
  BY <1>1, <1>3 DEF SplitAt
<1>11. ASSUME NEW k \in 0 .. g - 1 PROVE RunGroup(new, k)'
  <2>1. RunGroup(pos, k) /\ new[k] = pos[k] /\ new[k + 1] = pos[k + 1] /\ k \in Pixel /\ k < g
    BY <1>1, <1>3, <1>6 DEF SplitAt, Pixel
  <2>2. color_groups'[k] = color_groups[k] /\ size_of_groups'[k] = size_of_groups[k]
    BY <1>8, <2>1
  <2>3. QED
    BY <1>7, <2>1, <2>2 DEF RunGroup
<1>12. pos[g] \in Pixel /\ color_line[pos[g]] = current_color
  BY <1>1, <1>6, <1>10 DEF OpenRun, Pixel
<1>13. CASE color_line[i] # current_color
  <2>1. new[g + 1] = i /\ new[g + 2] = IMAGE_BUFFER_SIZE
    BY <1>5, <1>6, <1>13
  <2>2. RunGroup(new, g)'
    <3>1. RunAt(color_line, pos[g], i - 1)
      BY <1>1, <1>6, <1>10, <1>12, <1>13 DEF OpenRun, RunAt
    <3>2. color_groups'[g] = color_line[pos[g]] /\ size_of_groups'[g] = i - pos[g]
      BY <1>8, <1>9, <1>10, <1>12, <1>13 DEF OpenRun
    <3>3. new[g] = pos[g]
      BY <1>6
    <3>4. QED
      BY <1>7, <2>1, <3>1, <3>2, <3>3 DEF RunGroup
  <2>3. color_line[i - 1] = current_color
    BY <1>1, <1>6, <1>10 DEF OpenRun
  <2>4. CASE last
    <3>1. h = g + 2 /\ i = IMAGE_BUFFER_SIZE - 1 /\ g + 1 \in Pixel
      BY <1>1, <1>6, <1>8, <1>9, <1>13, <2>4 DEF last, Pixel
    <3>2. color_groups'[g + 1] = color_line[i] /\ size_of_groups'[g + 1] = 1
      <4>1. h - 1 = g + 1
        BY <1>6, <3>1
      <4>2. QED
        BY <1>8, <1>13, <2>4, <3>1, <4>1
    <3>3. RunAt(color_line, i, IMAGE_BUFFER_SIZE - 1)
      BY <1>1, <1>13, <2>3, <3>1 DEF RunAt
    <3>4. RunGroup(new, g + 1)'
      BY <1>1, <1>6, <1>7, <2>1, <3>1, <3>2, <3>3 DEF RunGroup
    <3>5. \A k \in 0 .. h - 1 : RunGroup(new, k)'
      <4>1. ASSUME NEW k \in 0 .. h - 1 PROVE k \in 0 .. g - 1 \/ k = g \/ k = g + 1
        BY <1>6, <3>1
      <4>2. QED
        BY <1>11, <2>2, <3>4, <4>1
    <3>6. new[0] = 0 /\ new[h] = IMAGE_BUFFER_SIZE
      BY <1>6, <2>1, <3>1 DEF SplitAt
    <3>7. SplitAt(new)'
      BY <1>1, <1>4, <1>7, <3>1, <3>5, <3>6 DEF SplitAt
    <3>8. QED
      BY <1>6, <3>7
  <2>5. CASE ~last
    <3>1. h = g + 1 /\ i + 1 < IMAGE_BUFFER_SIZE
      BY <1>1, <1>6, <1>8, <1>13, <2>5 DEF last
    <3>2. \A k \in 0 .. h - 1 : RunGroup(new, k)'
      <4>1. ASSUME NEW k \in 0 .. h - 1 PROVE k \in 0 .. g - 1 \/ k = g
        BY <1>6, <3>1
      <4>2. QED
        BY <1>11, <2>2, <4>1
    <3>3. OpenRun(new[h])'
      BY <1>1, <1>6, <1>7, <1>8, <1>13, <2>1, <2>3, <3>1 DEF OpenRun
    <3>4. new[0] = 0
      BY <1>6 DEF SplitAt
    <3>5. SplitAt(new)'
      BY <1>1, <1>4, <1>7, <3>1, <3>2, <3>3, <3>4 DEF SplitAt
    <3>6. QED
      BY <1>6, <3>5
  <2>6. QED
    BY <2>4, <2>5
<1>14. CASE color_line[i] = current_color
  <2>1. new[g + 1] = IMAGE_BUFFER_SIZE /\ new[g] = pos[g] /\ new[0] = 0
    BY <1>5, <1>6, <1>14 DEF SplitAt
  <2>2. \A x \in pos[g] .. i : color_line[x] = current_color
    BY <1>1, <1>6, <1>10, <1>14 DEF OpenRun
  <2>3. CASE last
    <3>1. h = g + 1 /\ i = IMAGE_BUFFER_SIZE - 1
      BY <1>1, <1>6, <1>8, <1>14, <2>3 DEF last
    <3>2. color_groups'[g] = color_line[i] /\ size_of_groups'[g] = i + 1 - pos[g]
      <4>1. h - 1 = g
        BY <1>6, <3>1
      <4>2. QED
        BY <1>1, <1>6, <1>8, <1>9, <1>10, <1>14, <2>3, <4>1 DEF OpenRun
    <3>3. RunAt(color_line, pos[g], IMAGE_BUFFER_SIZE - 1)
      BY <1>1, <1>6, <1>10, <1>12, <1>14, <2>2, <3>1 DEF RunAt, OpenRun
    <3>4. RunGroup(new, g)'
      BY <1>1, <1>6, <1>7, <1>12, <1>14, <2>1, <3>1, <3>2, <3>3 DEF RunGroup
    <3>5. \A k \in 0 .. h - 1 : RunGroup(new, k)'
      <4>1. ASSUME NEW k \in 0 .. h - 1 PROVE k \in 0 .. g - 1 \/ k = g
        BY <1>6, <3>1
      <4>2. QED
        BY <1>11, <3>4, <4>1
    <3>6. SplitAt(new)'
      BY <1>1, <1>4, <1>7, <2>1, <3>1, <3>5 DEF SplitAt
    <3>7. QED
      BY <1>6, <3>6
  <2>4. CASE ~last
    <3>1. h = g /\ i + 1 < IMAGE_BUFFER_SIZE
      BY <1>1, <1>6, <1>8, <1>14, <2>4 DEF last
    <3>2. \A k \in 0 .. h - 1 : RunGroup(new, k)'
      BY <1>11, <3>1
    <3>3. OpenRun(new[h])'
      BY <1>1, <1>6, <1>7, <1>8, <1>10, <1>14, <2>1, <2>2, <3>1 DEF OpenRun
    <3>4. SplitAt(new)'
      BY <1>1, <1>4, <1>7, <2>1, <3>1, <3>2, <3>3 DEF SplitAt
    <3>5. QED
      BY <1>6, <3>4
  <2>5. QED
    BY <2>3, <2>4
<1>15. QED
  BY <1>13, <1>14
-----------------------------------------------------------------------------
(* Step 2.  From i on the groups are the runs still; before i only those   *)
(* that count are left, at their heads.                                    *)
Counted(at, k) ==
  /\ at[k] + size_of_groups[k] - 1 \in Pixel
  /\ Counts(color_line, at[k], at[k] + size_of_groups[k] - 1)
  /\ color_groups[k] = color_line[at[k]]

CleanAt(pos, at) ==
  /\ pos[number_of_groups] = IMAGE_BUFFER_SIZE
  /\ \A k \in i .. number_of_groups - 1 : RunGroup(pos, k)
  /\ Lists(at, color_group_index, Below(Heads(color_line), pos[i]))
  /\ \A k \in 0 .. color_group_index - 1 : Counted(at, k)

(* When split_colors ends, the groups are the runs of the whole line.      *)
LEMMA BeginCleanRuns ==
  ASSUME BandsInv, BeginClean, NEW pos \in Pos, SplitAt(pos)
  PROVE  \E at \in [Nat -> Nat] : CleanAt(pos, at)'
<1> DEFINE zero == [k \in Nat |-> 0]
<1>1. zero \in [Nat -> Nat]
  OBVIOUS
<1>2. Below(Heads(color_line), pos[0]) = {}
  BY DEF SplitAt, Below, Heads, Pixel
<1>3. Lists(zero, 0, Below(Heads(color_line), pos[0]))
  BY <1>2 DEF Lists
<1>4. /\ i' = 0 /\ number_of_groups' = color_group_index /\ color_group_index' = 0
      /\ UNCHANGED <<color_line, color_groups, size_of_groups>>
  BY DEF BeginClean, groups
<1>5. CleanAt(pos, zero)'
  <2>1. pos[color_group_index] = IMAGE_BUFFER_SIZE
    BY BandsAssumption DEF BeginClean, SplitAt
  <2>2. \A k \in 0 .. color_group_index - 1 : RunGroup(pos, k)'
    BY <1>4 DEF SplitAt, RunGroup
  <2>3. QED
    BY <1>3, <1>4, <2>1, <2>2 DEF CleanAt
<1>6. QED
  BY <1>1, <1>5

(* One iteration of the loop that drops the short groups.                 *)
LEMMA CleanRuns ==
  ASSUME BandsInv, Clean, NEW pos \in Pos, NEW at \in [Nat -> Nat], CleanAt(pos, at)
  PROVE  \E new \in [Nat -> Nat] : CleanAt(pos, new)'
<1>1. /\ i \in Nat /\ number_of_groups \in Nat /\ i < number_of_groups
      /\ i \in Pixel /\ color_group_index \in Pixel /\ color_group_index <= i
      /\ i' = i + 1 /\ UNCHANGED <<color_line, number_of_groups>>
      /\ color_groups \in [Pixel -> Color] /\ size_of_groups \in [Pixel -> Nat]
      /\ number_of_groups <= IMAGE_BUFFER_SIZE
  <2>1. /\ i \in 0 .. IMAGE_BUFFER_SIZE /\ number_of_groups \in 0 .. IMAGE_BUFFER_SIZE
        /\ color_groups \in [Pixel -> Color] /\ size_of_groups \in [Pixel -> Nat]
        /\ color_group_index \in 0 .. IMAGE_BUFFER_SIZE
    BY DEF BandsInv, BandsTypeOK
  <2>2. i < number_of_groups /\ color_group_index <= i
    BY DEF Clean, BandsInv, CompactsBehind
  <2>3. i' = i + 1 /\ UNCHANGED <<color_line, number_of_groups>>
    BY DEF Clean
  <2>4. /\ i \in Nat /\ number_of_groups \in Nat /\ i \in Pixel /\ color_group_index \in Pixel
        /\ number_of_groups <= IMAGE_BUFFER_SIZE
    <3>1. /\ i \in 0 .. IMAGE_BUFFER_SIZE /\ number_of_groups \in 0 .. IMAGE_BUFFER_SIZE
          /\ color_group_index \in 0 .. IMAGE_BUFFER_SIZE
      BY <2>1
    <3>2. QED
      BY <3>1, <2>2, BufferSize DEF Pixel
  <2>5. QED
    BY <2>1, <2>2, <2>3, <2>4
<1>2. PICK a, b : a = pos[i] /\ b = pos[i + 1] - 1
  OBVIOUS
<1>3. /\ RunAt(color_line, a, b)
      /\ color_groups[i] = color_line[a] /\ size_of_groups[i] = b + 1 - a
  <2>1. RunGroup(pos, i)
    BY <1>1 DEF CleanAt
  <2>2. pos[i + 1] \in Nat /\ b + 1 = pos[i + 1]
    BY <1>1, <1>2, BufferSize DEF Pos
  <2>3. RunAt(color_line, a, b) /\ color_groups[i] = color_line[a]
    BY <1>2, <2>1, Zenon DEF RunGroup
  <2>4. a \in Nat
    BY <1>1, <1>2, BufferSize DEF Pos
  <2>5. size_of_groups[i] = b + 1 - a
    BY <1>2, <2>1, <2>2, <2>4 DEF RunGroup
  <2>6. QED
    BY <2>3, <2>5
<1>4. a \in Pixel /\ b \in Pixel /\ a <= b /\ b + 1 = pos[i + 1] /\ b + 1 \in Nat /\ a \in Nat
  <2>1. pos[i] \in 0 .. IMAGE_BUFFER_SIZE /\ pos[i + 1] \in 0 .. IMAGE_BUFFER_SIZE
    BY <1>1 DEF Pos
  <2>2. a <= b
    BY <1>3 DEF RunAt
  <2>3. QED
    BY <1>2, <2>1, <2>2, BufferSize DEF Pixel
<1>5. Heads(color_line) \in SUBSET Nat
  BY DEF Heads, Pixel
<1>6. /\ \A x \in Heads(color_line) : a <= x /\ x < b + 1 => x = a
      /\ a \in Heads(color_line) <=> Counts(color_line, a, b)
  <2>1. \A x \in Heads(color_line) : x < b + 1 => x <= b
    BY <1>4, <1>5
  <2>2. QED
    BY <1>3, <1>4, <2>1, HeadOfRun
<1>7. Counts(color_line, a, b) <=> size_of_groups[i] >= MIN_GROUP_SIZE
  <2>1. b - a + 1 = b + 1 - a
    BY <1>4
  <2>2. QED
    BY <1>3, <2>1 DEF Counts
<1>8. pos[number_of_groups] = IMAGE_BUFFER_SIZE
  BY DEF CleanAt
<1>9. Lists(at, color_group_index, Below(Heads(color_line), a))
  BY <1>2 DEF CleanAt
<1>10. CASE size_of_groups[i] >= MIN_GROUP_SIZE
  <2>1. /\ color_groups' = [color_groups EXCEPT ![color_group_index] = color_groups[i]]
        /\ size_of_groups' = [size_of_groups EXCEPT ![color_group_index] = size_of_groups[i]]
        /\ color_group_index' = color_group_index + 1
    BY <1>10 DEF Clean
  <2>2. PICK g : g = color_group_index
    OBVIOUS
  <2>3. PICK new : new = [at EXCEPT ![g] = a]
    OBVIOUS
  <2>4. g \in Nat /\ g \in Pixel /\ g <= i
    BY <1>1, <2>2 DEF Pixel
  <2>5. new \in [Nat -> Nat] /\ new[g] = a /\ \A k \in 0 .. g - 1 : new[k] = at[k]
    BY <1>4, <2>3, <2>4
  <2>6. Lists(new, g + 1, Below(Heads(color_line), b + 1))
    <3>1. a \in Heads(color_line) /\ a <= a /\ a < b + 1
      BY <1>4, <1>6, <1>7, <1>10
    <3>2. QED
      BY <1>4, <1>5, <1>6, <1>9, <2>2, <2>4, <2>5, <3>1, ListNext
  <2>7. \A k \in Pixel : k # g => color_groups'[k] = color_groups[k]
                                /\ size_of_groups'[k] = size_of_groups[k]
    BY <1>1, <2>1, <2>2
  <2>8. color_groups'[g] = color_groups[i] /\ size_of_groups'[g] = size_of_groups[i]
    BY <1>1, <2>1, <2>2, <2>4
  <2>9. \A k \in 0 .. g : Counted(new, k)'
    <3>1. ASSUME NEW k \in 0 .. g - 1 PROVE Counted(new, k)'
      <4>1. Counted(at, k)
        BY <2>2 DEF CleanAt
      <4>2. k \in Pixel /\ k # g
        BY <2>4, BufferSize DEF Pixel
      <4>3. QED
        BY <1>1, <2>5, <2>7, <4>1, <4>2 DEF Counted
    <3>2. Counted(new, g)'
      <4>1. a + (b + 1 - a) - 1 = b
        BY <1>4
      <4>2. QED
        BY <1>1, <1>3, <1>4, <1>7, <1>10, <2>5, <2>8, <4>1 DEF Counted
    <3>3. \A k \in 0 .. g : k \in 0 .. g - 1 \/ k = g
      BY <2>4
    <3>4. QED
      BY <3>1, <3>2, <3>3
  <2>10. \A k \in i + 1 .. number_of_groups - 1 : RunGroup(pos, k)'
    <3> SUFFICES ASSUME NEW k \in i + 1 .. number_of_groups - 1 PROVE RunGroup(pos, k)'
      OBVIOUS
    <3>1. RunGroup(pos, k)
      BY <1>1 DEF CleanAt
    <3>2. k \in Pixel /\ k # g
      BY <1>1, <2>4, BufferSize DEF Pixel
    <3>3. QED
      BY <1>1, <2>7, <3>1, <3>2 DEF RunGroup
  <2>11. g + 1 - 1 = g
    BY <2>4
  <2>12. CleanAt(pos, new)'
    BY <1>1, <1>4, <1>8, <2>1, <2>2, <2>6, <2>9, <2>10, <2>11 DEF CleanAt
  <2>13. QED
    BY <2>5, <2>12
<1>11. CASE ~(size_of_groups[i] >= MIN_GROUP_SIZE)
  <2>1. UNCHANGED <<color_groups, size_of_groups, color_group_index>>
    BY <1>11 DEF Clean, groups
  <2>2. Below(Heads(color_line), b + 1) = Below(Heads(color_line), a)
    <3>1. \A x \in Heads(color_line) : x < b + 1 <=> x < a
      <4>1. a \notin Heads(color_line)
        BY <1>6, <1>7, <1>11
      <4>2. QED
        BY <1>4, <1>5, <1>6, <4>1
    <3>2. QED
      BY <3>1 DEF Below
  <2>3. \A k \in i + 1 .. number_of_groups - 1 : RunGroup(pos, k)'
    <3> SUFFICES ASSUME NEW k \in i + 1 .. number_of_groups - 1 PROVE RunGroup(pos, k)'
      OBVIOUS
    <3>1. RunGroup(pos, k)
      BY <1>1 DEF CleanAt
    <3>2. QED
      BY <1>1, <2>1, <3>1 DEF RunGroup
  <2>4. \A k \in 0 .. color_group_index - 1 : Counted(at, k)'
    BY <1>1, <2>1 DEF CleanAt, Counted
  <2>5. CleanAt(pos, at)'
    BY <1>1, <1>4, <1>8, <1>9, <2>1, <2>2, <2>3, <2>4 DEF CleanAt
  <2>6. QED
    BY <2>5
<1>12. QED
  BY <1>10, <1>11
-----------------------------------------------------------------------------
(* Step 3.  The solid pixels from a up to b.                               *)
Between(line, a, b) == {x \in Solid(line) : a <= x /\ x < b}
Width(line, a, b) == Cardinality(Between(line, a, b))
Starts(line) == Changes(Heads(line), line)

(* A stretch of the line has finitely many solid pixels.                   *)
LEMMA BetweenFinite ==
  ASSUME NEW line, NEW a, NEW b
  PROVE  IsFiniteSet(Between(line, a, b)) /\ Width(line, a, b) \in Nat
<1>1. IsFiniteSet(Pixel)
  BY FS_Interval, BufferSize DEF Pixel
<1>2. Between(line, a, b) \in SUBSET Pixel
  BY DEF Between, Solid
<1>3. IsFiniteSet(Between(line, a, b))
  BY <1>1, <1>2, FS_Subset
<1>4. QED
  BY <1>3, FS_CardinalityType DEF Width

(* The widths of neighbouring stretches add up.                            *)
LEMMA WidthAdds ==
  ASSUME NEW line, NEW a \in Nat, NEW b \in Nat, NEW c \in Nat, a <= b, b <= c
  PROVE  Width(line, a, c) = Width(line, a, b) + Width(line, b, c)
<1> DEFINE S == Between(line, a, b)
           T == Between(line, b, c)
<1>1. Solid(line) \subseteq Nat
  BY DEF Solid, Pixel
<1>2. Between(line, a, c) = S \cup T /\ S \cap T = {}
  BY <1>1 DEF Between
<1>3. IsFiniteSet(S) /\ IsFiniteSet(T) /\ Cardinality(S) \in Nat /\ Cardinality(T) \in Nat
  BY BetweenFinite DEF Width
<1> HIDE DEF S, T
<1>4. Cardinality(S \cup T) = Cardinality(S) + Cardinality(T) - Cardinality(S \cap T)
  BY <1>3, FS_Union
<1>5. Cardinality(S \cap T) = 0
  BY <1>2, FS_EmptySet
<1>6. Cardinality(S \cup T) = Cardinality(S) + Cardinality(T)
  BY <1>3, <1>4, <1>5
<1>7. QED
  BY <1>2, <1>6 DEF Width, S, T

(* From one head up to the next there is one run that counts.              *)
LEMMA RunWidth ==
  ASSUME NEW line, NEW n \in Nat, NEW at \in [Nat -> Nat], Lists(at, n, Heads(line)),
         at[n] = IMAGE_BUFFER_SIZE, NEW k \in 0 .. n - 1, NEW b \in Pixel,
         Counts(line, at[k], b)
  PROVE  Width(line, at[k], at[k + 1]) = b + 1 - at[k]
<1>1. /\ k \in Nat /\ k + 1 \in 0 .. n /\ at[k] \in Nat /\ at[k + 1] \in Nat
      /\ b \in Nat /\ b < IMAGE_BUFFER_SIZE
  BY BufferSize DEF Pixel
<1>2. at[k] \in Heads(line) /\ at[k] \in Pixel /\ at[k] <= b /\ RunAt(line, at[k], b)
  BY DEF Lists, Heads, Counts, RunAt
<1>3. b < at[k + 1]
  <2>1. CASE k + 1 = n
    BY <1>1, <2>1
  <2>2. CASE k + 1 < n
    <3>1. k + 1 \in 0 .. n - 1 /\ k < k + 1
      BY <1>1, <2>2
    <3>2. at[k + 1] \in Heads(line) /\ at[k] < at[k + 1]
      BY <3>1 DEF Lists
    <3>3. SUFFICES ASSUME at[k + 1] <= b PROVE FALSE
      BY <1>1
    <3>4. at[k + 1] = at[k]
      BY <1>1, <1>2, <3>2, <3>3, HeadOfRun
    <3>5. QED
      BY <1>1, <3>2, <3>4
  <2>3. QED
    BY <1>1, <2>1, <2>2
<1>4. ASSUME NEW x \in Between(line, at[k], at[k + 1]) PROVE x \in at[k] .. b
  <2>1. PICK c \in Pixel, d \in Pixel : Counts(line, c, d) /\ c <= x /\ x <= d
    BY DEF Between, Solid
  <2>2. x \in Nat /\ at[k] <= x /\ x < at[k + 1] /\ c \in Nat /\ d \in Nat
    BY DEF Between, Solid, Pixel
  <2>3. c \in Heads(line) /\ RunAt(line, c, d)
    BY <2>1 DEF Heads, Counts
  <2>4. PICK j \in 0 .. n - 1 : c = at[j]
    BY <2>3 DEF Lists
  <2>5. ~(k + 1 <= j)
    <3> SUFFICES ASSUME k + 1 <= j PROVE FALSE
      OBVIOUS
    <3>1. k + 1 = j \/ (k + 1 \in 0 .. n - 1 /\ k + 1 < j)
      BY <1>1
    <3>2. at[k + 1] <= c
      BY <1>1, <2>2, <2>4, <3>1 DEF Lists
    <3>3. QED
      BY <1>1, <2>1, <2>2, <3>2
  <2>6. j <= k
    BY <1>1, <2>5
  <2>7. c <= at[k]
    BY <1>1, <2>2, <2>4, <2>6 DEF Lists
  <2>8. at[k] <= d
    BY <1>1, <2>1, <2>2
  <2>9. at[k] = c /\ b = d
    BY <1>2, <2>3, <2>7, <2>8, RunsApart
  <2>10. QED
    BY <1>1, <2>1, <2>2, <2>9
<1>5. ASSUME NEW x \in at[k] .. b PROVE x \in Between(line, at[k], at[k + 1])
  <2>1. x \in Pixel /\ at[k] <= x /\ x <= b /\ x < at[k + 1]
    BY <1>1, <1>3, BufferSize DEF Pixel
  <2>2. x \in Solid(line)
    BY <1>2, <2>1 DEF Solid
  <2>3. QED
    BY <2>1, <2>2 DEF Between
<1>6. Between(line, at[k], at[k + 1]) = at[k] .. b
  BY <1>4, <1>5
<1>7. Cardinality(at[k] .. b) = b - at[k] + 1
  BY <1>1, <1>2, FS_Interval
<1>8. QED
  BY <1>1, <1>6, <1>7 DEF Width
(* Group k holds colour and width of what lies from f[k] to f[k + 1].      *)
Piece(f, k) ==
  /\ color_groups[k] = color_line[f[k]]
  /\ size_of_groups[k] = Width(color_line, f[k], f[k + 1])

(* Neighbours among the first m positions differ in colour.                *)
Apart(line, f, m) == \A k \in 1 .. m - 1 : line[f[k - 1]] # line[f[k]]

(* From i on the groups are the runs that count, at the positions at; the  *)
(* stripes begin at the positions sp, the last of them goes on.            *)
FusionAt(at, sp) ==
  /\ 1 <= i
  /\ Lists(at, number_of_groups, Heads(color_line))
  /\ at[number_of_groups] = IMAGE_BUFFER_SIZE
  /\ \A k \in i .. number_of_groups - 1 : Piece(at, k)
  /\ number_of_groups < 2 => color_group_index = 0
  /\ number_of_groups >= 2 =>
       /\ i <= number_of_groups
       /\ \A k \in 0 .. color_group_index - 1 : Piece(sp, k)
       /\ IF i < number_of_groups
          THEN /\ Lists(sp, color_group_index + 1, Below(Starts(color_line), at[i]))
               /\ Apart(color_line, sp, color_group_index + 1)
               /\ current_color = color_line[at[i - 1]]
               /\ current_color = color_line[sp[color_group_index]]
               /\ current_group_size = Width(color_line, sp[color_group_index], at[i])
          ELSE /\ Lists(sp, color_group_index, Starts(color_line))
               /\ Apart(color_line, sp, color_group_index)
               /\ sp[color_group_index] = IMAGE_BUFFER_SIZE

(* The groups that are left are what the fusion begins with.              *)
LEMMA BeginFusionRuns ==
  ASSUME BandsInv, BeginFusion, NEW pos \in Pos, NEW at \in [Nat -> Nat], CleanAt(pos, at)
  PROVE  \E new, sp \in [Nat -> Nat] : FusionAt(new, sp)'
<1>1. PICK n : n = color_group_index
  OBVIOUS
<1>2. /\ i' = 1 /\ number_of_groups' = n /\ color_group_index' = 0
      /\ current_color' = color_groups[0] /\ current_group_size' = size_of_groups[0]
      /\ UNCHANGED <<color_line, color_groups, size_of_groups>>
  BY <1>1 DEF BeginFusion, groups
<1>3. n \in Nat
  BY <1>1 DEF BandsInv, BandsTypeOK
<1>4. PICK new : new = [at EXCEPT ![n] = IMAGE_BUFFER_SIZE]
  OBVIOUS
<1>5. /\ new \in [Nat -> Nat] /\ new[n] = IMAGE_BUFFER_SIZE
      /\ \A k \in 0 .. n - 1 : new[k] = at[k]
  BY <1>3, <1>4, BufferSize
<1>6. Lists(new, n, Heads(color_line))
  <2>1. pos[i] = IMAGE_BUFFER_SIZE
    BY DEF BeginFusion, CleanAt
  <2>2. Below(Heads(color_line), IMAGE_BUFFER_SIZE) = Heads(color_line)
    BY BufferSize DEF Below, Heads, Pixel
  <2>3. Lists(at, n, Heads(color_line))
    BY <1>1, <2>1, <2>2 DEF CleanAt
  <2>4. QED
    BY <1>5, <2>3 DEF Lists
<1>7. ASSUME NEW k \in 0 .. n - 1 PROVE Piece(new, k)
  <2>1. Counted(at, k) /\ new[k] = at[k]
    BY <1>1, <1>5 DEF CleanAt
  <2>2. PICK b \in Pixel : b = new[k] + size_of_groups[k] - 1
    BY <2>1 DEF Counted
  <2>3. Width(color_line, new[k], new[k + 1]) = b + 1 - new[k]
    BY <1>3, <1>5, <1>6, <2>1, <2>2, RunWidth DEF Counted
  <2>4. new[k] \in Nat /\ k \in Pixel
    <3>1. color_group_index \in 0 .. IMAGE_BUFFER_SIZE
      BY DEF BandsInv, BandsTypeOK
    <3>2. QED
      BY <1>1, <1>3, <1>5, <3>1, BufferSize DEF Pixel
  <2>5. size_of_groups[k] \in Nat
    BY <2>4 DEF BandsInv, BandsTypeOK
  <2>6. size_of_groups[k] = b + 1 - new[k]
    BY <2>2, <2>4, <2>5
  <2>7. QED
    BY <2>1, <2>3, <2>6 DEF Piece, Counted
<1>8. PICK sp : sp = [k \in Nat |-> new[0]]
  OBVIOUS
<1>9. sp \in [Nat -> Nat] /\ sp[0] = new[0]
  BY <1>5, <1>8
<1>10. ASSUME n >= 2
       PROVE  Lists(sp, 1, Below(Starts(color_line), new[1]))
  <2>1. Heads(color_line) \in SUBSET Nat
    BY DEF Heads, Pixel
  <2>2. 0 \in 0 .. n - 1 /\ 1 \in 0 .. n - 1
    BY <1>3, <1>10
  <2>3. new[0] \in Starts(color_line)
    BY <1>3, <1>6, <2>1, <2>2, ListedChanges DEF Starts
  <2>4. new[0] < new[1]
    BY <1>6, <2>2 DEF Lists
  <2>5. ASSUME NEW x \in Below(Starts(color_line), new[1]) PROVE x = new[0]
    <3>1. x \in Heads(color_line) /\ x < new[1]
      BY DEF Below, Starts, Changes
    <3>2. PICK k \in 0 .. n - 1 : x = new[k]
      BY <1>6, <3>1 DEF Lists
    <3>3. ~(1 <= k)
      <4> SUFFICES ASSUME 1 <= k PROVE FALSE
        OBVIOUS
      <4>1. 1 = k \/ 1 < k
        OBVIOUS
      <4>2. new[1] <= new[k] /\ new[1] \in Nat /\ new[k] \in Nat
        BY <1>5, <1>6, <2>2, <4>1 DEF Lists
      <4>3. QED
        BY <3>1, <3>2, <4>2
    <3>4. QED
      BY <3>2, <3>3
  <2>6. QED
    BY <1>9, <2>3, <2>4, <2>5 DEF Lists, Below
<1>11. ASSUME n >= 2
       PROVE  /\ color_groups[0] = color_line[new[0]]
              /\ size_of_groups[0] = Width(color_line, new[0], new[1])
  BY <1>3, <1>7, <1>11 DEF Piece
<1>12. /\ \A k \in 1 .. n - 1 : Piece(new, k)'
       /\ Apart(color_line, sp, 1)
  BY <1>2, <1>3, <1>7 DEF Piece, Apart
<1>13. FusionAt(new, sp)'
  BY <1>2, <1>3, <1>5, <1>6, <1>9, <1>10, <1>11, <1>12 DEF FusionAt
<1>14. QED
  BY <1>5, <1>9, <1>13

(* One iteration of the fusion of neighbours of one colour.                *)
LEMMA FusionRuns ==
  ASSUME BandsInv, Fusion, NEW at \in [Nat -> Nat], NEW sp \in [Nat -> Nat], FusionAt(at, sp)
  PROVE  \E new \in [Nat -> Nat] : FusionAt(at, new)'
<1>1. PICK n, g, h : n = number_of_groups /\ g = color_group_index /\ h = color_group_index'
  OBVIOUS
<1>2. /\ n \in 0 .. IMAGE_BUFFER_SIZE /\ g \in 0 .. IMAGE_BUFFER_SIZE /\ i \in Nat
      /\ current_group_size \in Nat /\ BandsTypeOK
  BY <1>1 DEF BandsInv, BandsTypeOK
<1>3. i < n /\ 1 <= i /\ g < i
  BY <1>1 DEF Fusion, FusionAt, BandsInv, CompactsBehind
<1>4. i \in Pixel /\ g \in Pixel /\ n \in Nat /\ n >= 2 /\ g \in Nat /\ g + 1 \in Nat
  BY <1>2, <1>3, BufferSize DEF Pixel
<1>5. /\ i' = i + 1 /\ UNCHANGED <<color_line, number_of_groups>>
  BY DEF Fusion, Gather
<1>6. color_groups[i] \in Color /\ size_of_groups[i] \in Nat
  BY <1>2, <1>4 DEF BandsTypeOK
<1>7. /\ h = g + (IF color_groups[i] # current_color THEN 1 ELSE 0)
              + (IF i = number_of_groups - 1 THEN 1 ELSE 0)
      /\ current_color' = color_groups[i]
      /\ current_group_size' = IF color_groups[i] # current_color THEN size_of_groups[i]
                              ELSE current_group_size + size_of_groups[i]
      /\ \A k \in Pixel : k < g \/ k >= h =>
           color_groups'[k] = color_groups[k] /\ size_of_groups'[k] = size_of_groups[k]
      /\ color_groups[i] # current_color /\ g \in Pixel =>
           color_groups'[g] = current_color /\ size_of_groups'[g] = current_group_size
      /\ i = number_of_groups - 1 /\ h - 1 \in Pixel =>
           color_groups'[h - 1] = color_groups[i] /\ size_of_groups'[h - 1] = current_group_size'
  <2>1. Gathers(color_groups[i], size_of_groups[i], number_of_groups - 1)
    BY DEF Fusion, Gathers
  <2>2. QED
    BY <1>1, <1>2, <1>6, <2>1, GatherAt
<1>8. PICK color \in Color, size \in Nat, z \in Int :
       color = color_groups[i] /\ size = size_of_groups[i] /\ z = number_of_groups - 1
  BY <1>1, <1>4, <1>6
<1>9. /\ h = g + (IF color # current_color THEN 1 ELSE 0) + (IF i = z THEN 1 ELSE 0)
      /\ current_color' = color
      /\ current_group_size' = IF color # current_color THEN size ELSE current_group_size + size
      /\ \A k \in Pixel : k < g \/ k >= h =>
           color_groups'[k] = color_groups[k] /\ size_of_groups'[k] = size_of_groups[k]
      /\ color # current_color /\ g \in Pixel =>
           color_groups'[g] = current_color /\ size_of_groups'[g] = current_group_size
      /\ i = z /\ h - 1 \in Pixel =>
           color_groups'[h - 1] = color /\ size_of_groups'[h - 1] = current_group_size'
  BY <1>7, <1>8
<1>10. /\ Lists(at, n, Heads(color_line)) /\ at[n] = IMAGE_BUFFER_SIZE
       /\ \A k \in i .. n - 1 : Piece(at, k)
       /\ \A k \in 0 .. g - 1 : Piece(sp, k)
       /\ Lists(sp, g + 1, Below(Starts(color_line), at[i])) /\ Apart(color_line, sp, g + 1)
       /\ current_color = color_line[at[i - 1]] /\ current_color = color_line[sp[g]]
       /\ current_group_size = Width(color_line, sp[g], at[i])
  BY <1>1, <1>3, <1>4 DEF FusionAt
<1>11. color = color_line[at[i]] /\ size = Width(color_line, at[i], at[i + 1])
  <2>1. Piece(at, i)
    BY <1>2, <1>3, <1>4, <1>10
  <2>2. QED
    BY <1>8, <2>1 DEF Piece
<1>12. /\ at[i] \in Heads(color_line) /\ at[i] \in Nat /\ at[i + 1] \in Nat /\ sp[g] \in Nat
       /\ at[i] < at[i + 1]
  <2>1. i \in 0 .. n - 1 /\ i + 1 \in Nat
    BY <1>2, <1>3, <1>4
  <2>2. at[i] \in Heads(color_line)
    BY <1>10, <2>1 DEF Lists
  <2>3. at[i] \in Nat /\ at[i + 1] \in Nat /\ sp[g] \in Nat /\ at[i] < IMAGE_BUFFER_SIZE
    BY <1>4, <2>1, <2>2, BufferSize DEF Heads, Pixel
  <2>4. CASE i + 1 = n
    BY <1>10, <2>2, <2>3, <2>4
  <2>5. CASE i + 1 < n
    <3>1. i + 1 \in 0 .. n - 1 /\ i < i + 1
      BY <1>4, <2>1, <2>5
    <3>2. at[i] < at[i + 1]
      BY <1>10, <2>1, <3>1 DEF Lists
    <3>3. QED
      BY <2>2, <2>3, <3>2
  <2>6. QED
    BY <1>2, <1>3, <1>4, <2>4, <2>5
<1>13. sp[g] < at[i]
  BY <1>4, <1>10 DEF Lists, Below
<1>14. Starts(color_line) \in SUBSET Nat /\ Heads(color_line) \in SUBSET Nat
       /\ Starts(color_line) \subseteq Heads(color_line)
  BY DEF Starts, Changes, Heads, Pixel
<1>15. at[i] \in Starts(color_line) <=> color # current_color
  <2>1. i \in 0 .. n - 1 /\ i # 0
    BY <1>2, <1>3, <1>4
  <2>2. QED
    BY <1>4, <1>10, <1>11, <1>14, <2>1, ListedChanges DEF Starts
<1>16. \A x \in Starts(color_line) : at[i] <= x /\ x < at[i + 1] => x = at[i]
  <2> SUFFICES ASSUME NEW x \in Heads(color_line), at[i] <= x, x < at[i + 1] PROVE x = at[i]
    BY <1>14
  <2>1. PICK k \in 0 .. n - 1 : x = at[k]
    BY <1>10 DEF Lists
  <2>2. i \in 0 .. n - 1 /\ x \in Nat
    BY <1>2, <1>3, <1>4, <1>14
  <2>3. ~(k < i)
    <3> SUFFICES ASSUME k < i PROVE FALSE
      OBVIOUS
    <3>1. at[k] < at[i]
      BY <1>10, <2>2 DEF Lists
    <3>2. QED
      BY <1>12, <2>1, <2>2, <3>1
  <2>4. ~(i + 1 <= k)
    <3> SUFFICES ASSUME i + 1 <= k PROVE FALSE
      OBVIOUS
    <3>1. i + 1 = k \/ (i + 1 \in 0 .. n - 1 /\ i + 1 < k)
      BY <1>2, <1>4
    <3>2. at[i + 1] <= x
      BY <1>10, <1>12, <2>1, <2>2, <3>1 DEF Lists
    <3>3. QED
      BY <1>12, <2>2, <3>2
  <2>5. QED
    BY <1>2, <2>1, <2>2, <2>3, <2>4
<1>17. PICK m : m = IF color # current_color THEN g + 1 ELSE g
  OBVIOUS
<1>18. PICK new : new = [k \in Nat |-> IF k <= g THEN sp[k]
                                      ELSE IF k = m THEN at[i] ELSE IMAGE_BUFFER_SIZE]
  OBVIOUS
<1>19. /\ m \in Nat /\ g <= m /\ m <= i
       /\ new \in [Nat -> Nat] /\ \A k \in 0 .. g : new[k] = sp[k]
       /\ m > g => new[m] = at[i]
       /\ new[m + 1] = IMAGE_BUFFER_SIZE
  BY <1>3, <1>4, <1>12, <1>17, <1>18, BufferSize
<1>20. z = n - 1
  BY <1>1, <1>8
<1>21. /\ Lists(new, m + 1, Below(Starts(color_line), at[i + 1]))
       /\ color = color_line[new[m]]
       /\ current_group_size' = Width(color_line, new[m], at[i + 1])
  <2>1. CASE color # current_color
    <3>1. m = g + 1 /\ new[m] = at[i]
      BY <1>4, <1>17, <1>19, <2>1
    <3>2. Lists(new, (g + 1) + 1, Below(Starts(color_line), at[i + 1]))
      <4>1. new[g + 1] = at[i] /\ \A k \in 0 .. (g + 1) - 1 : new[k] = sp[k]
        BY <1>4, <1>19, <3>1
      <4>2. at[i] <= at[i] /\ at[i] \in Starts(color_line)
        BY <1>12, <1>15, <2>1
      <4>3. /\ Lists(sp, g + 1, Below(Starts(color_line), at[i]))
            /\ Starts(color_line) \in SUBSET Nat /\ at[i] < at[i + 1]
            /\ at[i] \in Nat /\ at[i + 1] \in Nat /\ g + 1 \in Nat
        BY <1>4, <1>10, <1>12, <1>14
      <4>4. QED
        BY <1>16, <4>1, <4>2, <4>3, ListNext
    <3>3. QED
      BY <1>9, <1>11, <2>1, <3>1, <3>2
  <2>2. CASE color = current_color
    <3>1. m = g /\ new[m] = sp[g]
      BY <1>4, <1>17, <1>19, <2>2
    <3>2. Below(Starts(color_line), at[i + 1]) = Below(Starts(color_line), at[i])
      BY <1>12, <1>14, <1>15, <1>16, <2>2 DEF Below
    <3>3. Lists(new, g + 1, Below(Starts(color_line), at[i]))
      <4>1. \A k \in 0 .. (g + 1) - 1 : new[k] = sp[k]
        BY <1>4, <1>19
      <4>2. QED
        BY <1>10, <4>1 DEF Lists
    <3>4. Width(color_line, sp[g], at[i + 1]) = current_group_size + size
      BY <1>10, <1>11, <1>12, <1>13, WidthAdds
    <3>5. QED
      BY <1>9, <1>10, <2>2, <3>1, <3>2, <3>3, <3>4
  <2>3. QED
    BY <2>1, <2>2
<1>22. Apart(color_line, new, m + 1)
  <2> SUFFICES ASSUME NEW k \in 1 .. m PROVE color_line[new[k - 1]] # color_line[new[k]]
    BY <1>19 DEF Apart
  <2>1. CASE k <= g
    <3>1. new[k - 1] = sp[k - 1] /\ new[k] = sp[k] /\ k \in 1 .. (g + 1) - 1
      BY <1>4, <1>19, <2>1
    <3>2. QED
      BY <1>10, <3>1 DEF Apart
  <2>2. CASE k > g
    <3>1. k = m /\ k = g + 1 /\ color # current_color
      BY <1>4, <1>17, <2>2
    <3>2. k - 1 = g /\ new[g] = sp[g]
      BY <1>4, <1>19, <3>1
    <3>3. QED
      BY <1>10, <1>21, <3>1, <3>2
  <2>3. QED
    BY <1>4, <2>1, <2>2
<1>23. \A k \in Pixel : k < g =>
         color_groups'[k] = color_groups[k] /\ size_of_groups'[k] = size_of_groups[k]
  BY <1>9
<1>24. ASSUME NEW k \in 0 .. m - 1 PROVE Piece(new, k)'
  <2>1. CASE k < g
    <3>1. /\ Piece(sp, k) /\ new[k] = sp[k] /\ new[k + 1] = sp[k + 1] /\ k \in Pixel
      BY <1>4, <1>10, <1>19, <2>1, BufferSize DEF Pixel
    <3>2. QED
      BY <1>5, <1>23, <2>1, <3>1 DEF Piece
  <2>2. CASE ~(k < g)
    <3>1. k = g /\ m = g + 1 /\ color # current_color
      BY <1>4, <1>17, <2>2
    <3>2. new[g] = sp[g] /\ new[g + 1] = at[i]
      BY <1>4, <1>19, <3>1
    <3>3. QED
      BY <1>4, <1>5, <1>9, <1>10, <3>1, <3>2 DEF Piece
  <2>3. QED
    BY <2>1, <2>2
<1>25. \A k \in i + 1 .. n - 1 : Piece(at, k)'
  <2> SUFFICES ASSUME NEW k \in i + 1 .. n - 1 PROVE Piece(at, k)'
    OBVIOUS
  <2>1. Piece(at, k) /\ k \in Pixel /\ k >= h
    <3>1. k \in i .. n - 1
      BY <1>2
    <3>2. k >= h /\ k \in Pixel
      BY <1>20, <1>2, <1>3, <1>4, <1>9, BufferSize DEF Pixel
    <3>3. QED
      BY <1>10, <3>1, <3>2
  <2>2. QED
    BY <1>5, <1>9, <2>1 DEF Piece
<1>26. CASE i = z
  <2>1. h = m + 1 /\ h - 1 = m /\ m \in Pixel /\ i + 1 = n
    BY <1>20, <1>2, <1>4, <1>9, <1>17, <1>19, <1>26, BufferSize DEF Pixel
  <2>2. Piece(new, m)'
    <3>1. at[i + 1] = new[m + 1]
      BY <1>10, <1>19, <2>1
    <3>2. color_groups'[m] = color /\ size_of_groups'[m] = current_group_size'
      BY <1>9, <1>26, <2>1
    <3>3. QED
      BY <1>5, <1>21, <3>1, <3>2 DEF Piece
  <2>3. \A k \in 0 .. h - 1 : Piece(new, k)'
    <3>1. \A k \in 0 .. h - 1 : k \in 0 .. m - 1 \/ k = m
      BY <1>19, <2>1
    <3>2. QED
      BY <1>24, <2>2, <3>1
  <2>4. Lists(new, h, Starts(color_line)) /\ new[h] = IMAGE_BUFFER_SIZE
    <3>1. at[i + 1] = IMAGE_BUFFER_SIZE
      BY <1>10, <2>1
    <3>2. Below(Starts(color_line), IMAGE_BUFFER_SIZE) = Starts(color_line)
      BY BufferSize DEF Below, Starts, Changes, Heads, Pixel
    <3>3. QED
      BY <1>19, <1>21, <2>1, <3>1, <3>2
  <2>5. FusionAt(at, new)'
    BY <1>1, <1>2, <1>3, <1>4, <1>5, <1>10, <1>25, <1>22, <2>1, <2>3, <2>4 DEF FusionAt
  <2>6. QED
    BY <1>19, <2>5
<1>27. CASE i # z
  <2>1. h = m /\ i + 1 < n /\ (i + 1) - 1 = i
    BY <1>20, <1>2, <1>3, <1>4, <1>9, <1>17, <1>27
  <2>2. current_color' = color_line[at[(i + 1) - 1]]
    BY <1>9, <1>11, <2>1
  <2>3. FusionAt(at, new)'
    BY <1>1, <1>2, <1>3, <1>4, <1>5, <1>9, <1>10, <1>21, <1>22, <1>24, <1>25, <2>1, <2>2
       DEF FusionAt
  <2>4. QED
    BY <1>19, <2>3
<1>28. QED
  BY <1>26, <1>27
-----------------------------------------------------------------------------
(* Step 4.  A stripe of a list of them reaches up to the next.             *)
LEMMA StripeListed ==
  ASSUME NEW line, NEW m \in Nat, NEW sp \in [Nat -> Nat], Lists(sp, m, Starts(line)),
         sp[m] = IMAGE_BUFFER_SIZE, NEW k \in 0 .. m - 1
  PROVE  /\ Stripes(line)[sp[k]].color = line[sp[k]]
         /\ Stripes(line)[sp[k]].width = Width(line, sp[k], sp[k + 1])
<1> DEFINE of(p) == {x \in Solid(line) : p <= x /\ \A q \in Starts(line) : q <= p \/ x < q}
<1>1. Stripes(line) = [p \in Starts(line) |-> [color |-> line[p], width |-> Cardinality(of(p))]]
  BY DEF Stripes, Starts
<1>2. /\ sp[k] \in Starts(line) /\ sp[k] \in Nat /\ sp[k + 1] \in Nat /\ k + 1 \in Nat
      /\ Starts(line) \subseteq Nat /\ Solid(line) \subseteq Nat
      /\ \A x \in Solid(line) : x < IMAGE_BUFFER_SIZE
  BY BufferSize DEF Lists, Starts, Changes, Heads, Solid, Pixel
<1>3. ASSUME NEW x \in of(sp[k]) PROVE x \in Between(line, sp[k], sp[k + 1])
  <2>1. x \in Solid(line) /\ sp[k] <= x /\ \A q \in Starts(line) : q <= sp[k] \/ x < q
    OBVIOUS
  <2>2. CASE k + 1 = m
    BY <1>2, <2>1, <2>2 DEF Between
  <2>3. CASE k + 1 < m
    <3>1. k + 1 \in 0 .. m - 1 /\ k < k + 1
      BY <1>2, <2>3
    <3>2. sp[k + 1] \in Starts(line) /\ sp[k] < sp[k + 1]
      BY <3>1 DEF Lists
    <3>3. x < sp[k + 1]
      BY <1>2, <2>1, <3>2
    <3>4. QED
      BY <2>1, <3>3 DEF Between
  <2>4. QED
    BY <1>2, <2>2, <2>3
<1>4. ASSUME NEW x \in Between(line, sp[k], sp[k + 1]) PROVE x \in of(sp[k])
  <2>1. x \in Solid(line) /\ sp[k] <= x /\ x < sp[k + 1] /\ x \in Nat
    BY <1>2 DEF Between
  <2>2. ASSUME NEW q \in Starts(line) PROVE q <= sp[k] \/ x < q
    <3>1. PICK j \in 0 .. m - 1 : q = sp[j]
      BY DEF Lists
    <3>2. CASE j <= k
      <4>1. sp[j] <= sp[k]
        BY <1>2, <3>1, <3>2 DEF Lists
      <4>2. QED
        BY <3>1, <4>1
    <3>3. CASE k + 1 <= j
      <4>1. k + 1 \in 0 .. m - 1 /\ (k + 1 = j \/ k + 1 < j)
        BY <1>2, <3>3
      <4>2. sp[k + 1] <= q
        BY <1>2, <3>1, <4>1 DEF Lists
      <4>3. q \in Nat
        BY <1>2
      <4>4. QED
        BY <1>2, <2>1, <4>2, <4>3
    <3>4. QED
      BY <1>2, <3>2, <3>3
  <2>3. QED
    BY <2>1, <2>2
<1>5. of(sp[k]) = Between(line, sp[k], sp[k + 1])
  BY <1>3, <1>4
<1>6. Stripes(line)[sp[k]] = [color |-> line[sp[k]], width |-> Cardinality(of(sp[k]))]
  BY <1>1, <1>2
<1>7. /\ Stripes(line)[sp[k]].color = line[sp[k]]
      /\ Stripes(line)[sp[k]].width = Cardinality(of(sp[k]))
  BY <1>6
<1>8. Cardinality(of(sp[k])) = Width(line, sp[k], sp[k + 1])
  BY <1>5 DEF Width
<1>9. QED
  BY <1>7, <1>8

(* What is left of the colour of a stripe.                                 *)
LEMMA ShadeOf ==
  ASSUME NEW line, NEW p \in Starts(line)
  PROVE  Shade(line)[p] = IF Stripes(line)[p].width >= MIN_COLOR_BAND_WIDTH
                          THEN Stripes(line)[p].color ELSE "UNDEFINED_COLOR"
<1>1. DOMAIN Stripes(line) = Starts(line)
  BY DEF Stripes, Starts
<1>2. QED
  BY <1>1 DEF Shade

(* The groups are the stripes, those before i in the colours that are left. *)
EraseAt(sp) ==
  /\ number_of_groups < 2 => Cardinality(Starts(color_line)) < 2
  /\ number_of_groups >= 2 =>
       /\ Lists(sp, number_of_groups, Starts(color_line))
       /\ Apart(color_line, sp, number_of_groups)
       /\ \A k \in 0 .. number_of_groups - 1 :
            color_groups[k] = IF k < i THEN Shade(color_line)[sp[k]] ELSE color_line[sp[k]]
       /\ \A k \in 0 .. number_of_groups - 1 :
            /\ Stripes(color_line)[sp[k]].color = color_line[sp[k]]
            /\ Stripes(color_line)[sp[k]].width = size_of_groups[k]

(* There are finitely many runs, and each stripe begins with one.          *)
LEMMA HeadsFinite ==
  ASSUME NEW line
  PROVE  /\ IsFiniteSet(Heads(line)) /\ Heads(line) \in SUBSET Nat
         /\ Starts(line) \in SUBSET Heads(line)
<1>1. IsFiniteSet(Pixel) /\ Heads(line) \in SUBSET Pixel /\ Pixel \in SUBSET Nat
  BY FS_Interval, BufferSize DEF Pixel, Heads
<1>2. IsFiniteSet(Heads(line))
  BY <1>1, FS_Subset
<1>3. QED
  BY <1>1, <1>2 DEF Starts, Changes

(* After the fusion the groups are the stripes, in all their width.        *)
LEMMA BeginEraseRuns ==
  ASSUME BandsInv, BeginErase, NEW at \in [Nat -> Nat], NEW sp \in [Nat -> Nat], FusionAt(at, sp)
  PROVE  EraseAt(sp)'
<1>1. /\ number_of_groups \in Nat /\ color_group_index \in Nat /\ i \in Nat
      /\ number_of_groups <= i
  BY DEF BandsInv, BandsTypeOK, BeginErase
<1>2. /\ i' = 0 /\ number_of_groups' = color_group_index
      /\ UNCHANGED <<color_line, color_groups, size_of_groups>>
  BY DEF BeginErase, groups
<1>3. CASE number_of_groups < 2
  <2>1. color_group_index = 0 /\ Lists(at, number_of_groups, Heads(color_line))
    BY <1>3 DEF FusionAt
  <2>2. Cardinality(Heads(color_line)) = number_of_groups
    BY <1>1, <2>1, HeadsFinite, ListedRank
  <2>3. Cardinality(Starts(color_line)) <= number_of_groups
    BY <2>2, HeadsFinite, FS_Subset
  <2>4. IsFiniteSet(Starts(color_line))
    BY HeadsFinite, FS_Subset
  <2>5. Cardinality(Starts(color_line)) \in Nat
    BY <2>4, FS_CardinalityType
  <2>6. Cardinality(Starts(color_line)) < 2
    BY <1>1, <1>3, <2>3, <2>5
  <2>7. QED
    BY <1>2, <2>1, <2>6 DEF EraseAt
<1>4. CASE number_of_groups >= 2
  <2>1. /\ Lists(sp, color_group_index, Starts(color_line))
        /\ Apart(color_line, sp, color_group_index)
        /\ sp[color_group_index] = IMAGE_BUFFER_SIZE
        /\ \A k \in 0 .. color_group_index - 1 : Piece(sp, k)
    BY <1>1, <1>4 DEF FusionAt
  <2>2. Starts(color_line) \in SUBSET Nat
    BY HeadsFinite
  <2>3. Cardinality(Starts(color_line)) = color_group_index
    BY <1>1, <2>1, <2>2, ListedRank
  <2>4. ASSUME NEW k \in 0 .. color_group_index - 1
        PROVE  /\ color_groups[k] = color_line[sp[k]]
               /\ Stripes(color_line)[sp[k]].color = color_line[sp[k]]
               /\ Stripes(color_line)[sp[k]].width = size_of_groups[k]
    <3>1. Piece(sp, k)
      BY <2>1
    <3>2. /\ Stripes(color_line)[sp[k]].color = color_line[sp[k]]
          /\ Stripes(color_line)[sp[k]].width = Width(color_line, sp[k], sp[k + 1])
      BY <1>1, <2>1, StripeListed
    <3>3. QED
      BY <3>1, <3>2 DEF Piece
  <2>5. \A k \in 0 .. color_group_index - 1 : ~(k < 0)
    OBVIOUS
  <2>6. QED
    BY <1>2, <2>1, <2>3, <2>4, <2>5 DEF EraseAt
<1>5. QED
  BY <1>1, <1>3, <1>4

(* One iteration of the loop that erases the colour of narrow stripes.     *)
LEMMA EraseRuns ==
  ASSUME BandsInv, Erase, NEW sp \in [Nat -> Nat], EraseAt(sp)
  PROVE  EraseAt(sp)'
<1>1. /\ number_of_groups \in Nat /\ i \in Nat /\ i < number_of_groups
      /\ number_of_groups <= IMAGE_BUFFER_SIZE
      /\ color_groups \in [Pixel -> Color] /\ i' = i + 1
      /\ UNCHANGED <<color_line, number_of_groups, size_of_groups>>
  BY DEF BandsInv, BandsTypeOK, Erase
<1>2. CASE number_of_groups < 2
  BY <1>1, <1>2 DEF EraseAt
<1>3. CASE number_of_groups >= 2
  <2>1. /\ Lists(sp, number_of_groups, Starts(color_line))
        /\ Apart(color_line, sp, number_of_groups)
        /\ \A k \in 0 .. number_of_groups - 1 :
             color_groups[k] = IF k < i THEN Shade(color_line)[sp[k]] ELSE color_line[sp[k]]
        /\ \A k \in 0 .. number_of_groups - 1 :
             /\ Stripes(color_line)[sp[k]].color = color_line[sp[k]]
             /\ Stripes(color_line)[sp[k]].width = size_of_groups[k]
    BY <1>3 DEF EraseAt
  <2>2. i \in 0 .. number_of_groups - 1 /\ i \in Pixel
    BY <1>1, BufferSize DEF Pixel
  <2>3. color_groups' = IF size_of_groups[i] < MIN_COLOR_BAND_WIDTH
                        THEN [color_groups EXCEPT ![i] = "UNDEFINED_COLOR"] ELSE color_groups
    BY DEF Erase
  <2>4. color_groups'[i] = Shade(color_line)[sp[i]]
    <3>1. sp[i] \in Starts(color_line)
      BY <2>1, <2>2 DEF Lists
    <3>2. Shade(color_line)[sp[i]] = IF size_of_groups[i] >= MIN_COLOR_BAND_WIDTH
                                     THEN color_line[sp[i]] ELSE "UNDEFINED_COLOR"
      BY <2>1, <2>2, <3>1, ShadeOf
    <3>3. color_groups[i] = color_line[sp[i]]
      BY <1>1, <2>1, <2>2
    <3>4. size_of_groups[i] \in Nat /\ MIN_COLOR_BAND_WIDTH \in Nat
      BY <2>2, BandsAssumption DEF BandsInv, BandsTypeOK
    <3>5. CASE size_of_groups[i] < MIN_COLOR_BAND_WIDTH
      BY <1>1, <2>2, <2>3, <3>2, <3>4, <3>5
    <3>6. CASE size_of_groups[i] >= MIN_COLOR_BAND_WIDTH
      BY <2>3, <3>2, <3>3, <3>4, <3>6
    <3>7. QED
      BY <3>4, <3>5, <3>6
  <2>5. \A k \in Pixel : k # i => color_groups'[k] = color_groups[k]
    BY <1>1, <2>3
  <2>6. ASSUME NEW k \in 0 .. number_of_groups - 1
        PROVE  color_groups'[k] = IF k < i + 1 THEN Shade(color_line)[sp[k]] ELSE color_line[sp[k]]
    <3>1. k \in Pixel /\ (k # i => (k < i + 1 <=> k < i))
      BY <1>1, BufferSize DEF Pixel
    <3>2. CASE k = i
      BY <1>1, <2>4, <3>2
    <3>3. CASE k # i
      BY <2>1, <2>5, <3>1, <3>3
    <3>4. QED
      BY <3>2, <3>3
  <2>7. QED
    BY <1>1, <1>3, <2>1, <2>6 DEF EraseAt
<1>4. QED
  BY <1>1, <1>2, <1>3
-----------------------------------------------------------------------------
(* Step 5.  The marks are at the positions mk, the last of them goes on.   *)
BandsAt(sp, mk) ==
  /\ number_of_groups < 2 =>
       /\ Cardinality(Starts(color_line)) < 2
       /\ \A k \in Pixel : color_bands[k] = "UNDEFINED_COLOR"
  /\ number_of_groups >= 2 =>
       /\ 1 <= i /\ i <= number_of_groups
       /\ Lists(sp, number_of_groups, Starts(color_line))
       /\ Apart(color_line, sp, number_of_groups)
       /\ \A k \in 0 .. number_of_groups - 1 : color_groups[k] = Shade(color_line)[sp[k]]
       /\ current_color = Shade(color_line)[sp[i - 1]]
       /\ current_color = Shade(color_line)[mk[color_group_index]]
       /\ \A k \in 0 .. color_group_index - 1 : color_bands[k] = Shade(color_line)[mk[k]]
       /\ \A k \in Pixel : k > color_group_index => color_bands[k] = "UNDEFINED_COLOR"
       /\ IF i < number_of_groups
          THEN /\ Lists(mk, color_group_index + 1, Below(Marks(color_line), sp[i]))
               /\ color_bands[color_group_index] = "UNDEFINED_COLOR"
          ELSE /\ Lists(mk, color_group_index + 1, Marks(color_line))
               /\ color_bands[color_group_index] = current_color

(* The marks of a line of two stripes or more are some of the stripes.     *)
LEMMA MarksOfStripes ==
  ASSUME NEW line, NEW n \in Nat, n >= 2, NEW sp, Lists(sp, n, Starts(line))
  PROVE  /\ Marks(line) = Changes(Starts(line), Shade(line))
         /\ Marks(line) \in SUBSET Nat
         /\ \A k \in 0 .. n - 1 : sp[k] \in Marks(line) <=>
              (k = 0 \/ Shade(line)[sp[k - 1]] # Shade(line)[sp[k]])
<1>1. DOMAIN Shade(line) = Starts(line)
  BY DEF Shade, Stripes, Starts
<1>2. Starts(line) \in SUBSET Nat
  BY HeadsFinite
<1>3. Cardinality(Starts(line)) = n
  BY <1>2, ListedRank
<1>4. Marks(line) = Changes(Starts(line), Shade(line))
  BY <1>1, <1>3 DEF Marks
<1>5. Marks(line) \in SUBSET Nat
  BY <1>2, <1>4 DEF Changes
<1>6. \A k \in 0 .. n - 1 : sp[k] \in Changes(Starts(line), Shade(line)) <=>
        (k = 0 \/ Shade(line)[sp[k - 1]] # Shade(line)[sp[k]])
  BY <1>2, ListedChanges
<1>7. QED
  BY <1>4, <1>5, <1>6

(* The first mark is the first stripe.                                     *)
LEMMA BeginBandsRuns ==
  ASSUME BandsInv, BeginBands, color_bands = NoColor, NEW sp \in [Nat -> Nat], EraseAt(sp)
  PROVE  \E mk \in [Nat -> Nat] : BandsAt(sp, mk)'
<1>1. /\ number_of_groups \in Nat /\ i = number_of_groups /\ i' = 1 /\ color_group_index' = 0
      /\ current_color' = color_groups[0]
      /\ UNCHANGED <<color_line, number_of_groups, color_groups, color_bands>>
  BY DEF BandsInv, BandsTypeOK, BeginBands, groups
<1>2. \A k \in Pixel : color_bands[k] = "UNDEFINED_COLOR"
  BY DEF NoColor
<1>3. PICK mk : mk = [k \in Nat |-> sp[0]]
  OBVIOUS
<1>4. mk \in [Nat -> Nat] /\ mk[0] = sp[0]
  BY <1>3
<1>5. CASE number_of_groups < 2
  <2>1. BandsAt(sp, mk)'
    BY <1>1, <1>2, <1>5 DEF BandsAt, EraseAt
  <2>2. QED
    BY <1>4, <2>1
<1>6. CASE number_of_groups >= 2
  <2>1. /\ Lists(sp, number_of_groups, Starts(color_line))
        /\ Apart(color_line, sp, number_of_groups)
        /\ \A k \in 0 .. number_of_groups - 1 : color_groups[k] = Shade(color_line)[sp[k]]
    BY <1>1, <1>6 DEF EraseAt
  <2>2. 0 \in 0 .. number_of_groups - 1 /\ 1 \in 0 .. number_of_groups - 1 /\ 0 \in Pixel
    BY <1>1, <1>6, BufferSize DEF Pixel
  <2>3. sp[0] \in Marks(color_line)
    BY <1>1, <1>6, <2>1, <2>2, MarksOfStripes
  <2>4. sp[0] < sp[1]
    BY <2>1, <2>2 DEF Lists
  <2>5. ASSUME NEW x \in Below(Marks(color_line), sp[1]) PROVE x = sp[0]
    <3>1. x \in Starts(color_line) /\ x < sp[1]
      BY <1>1, <1>6, <2>1, MarksOfStripes DEF Below, Changes
    <3>2. PICK k \in 0 .. number_of_groups - 1 : x = sp[k]
      BY <2>1, <3>1 DEF Lists
    <3>3. ~(1 <= k)
      <4> SUFFICES ASSUME 1 <= k PROVE FALSE
        OBVIOUS
      <4>1. 1 = k \/ 1 < k
        OBVIOUS
      <4>2. sp[1] <= sp[k] /\ sp[1] \in Nat /\ sp[k] \in Nat
        BY <2>1, <2>2, <4>1 DEF Lists
      <4>3. QED
        BY <3>1, <3>2, <4>2
    <3>4. QED
      BY <3>2, <3>3
  <2>6. Lists(mk, 1, Below(Marks(color_line), sp[1]))
    BY <1>4, <2>3, <2>4, <2>5 DEF Lists, Below
  <2>7. color_groups[0] = Shade(color_line)[sp[0]] /\ color_bands[0] = "UNDEFINED_COLOR"
    BY <1>2, <2>1, <2>2
  <2>8. BandsAt(sp, mk)'
    BY <1>1, <1>2, <1>4, <1>6, <2>1, <2>6, <2>7 DEF BandsAt
  <2>9. QED
    BY <1>4, <2>8
<1>7. QED
  BY <1>1, <1>5, <1>6

(* One iteration of the loop that stores the bands.                        *)
LEMMA BandRuns ==
  ASSUME BandsInv, Band, NEW sp \in [Nat -> Nat], NEW mk \in [Nat -> Nat], BandsAt(sp, mk)
  PROVE  \E new \in [Nat -> Nat] : BandsAt(sp, new)'
<1>1. PICK n, g, color : n = number_of_groups /\ g = color_group_index /\ color = color_groups[i]
  OBVIOUS
<1>2. n \in 0 .. IMAGE_BUFFER_SIZE /\ g \in 0 .. IMAGE_BUFFER_SIZE /\ i \in Nat
  BY <1>1 DEF BandsInv, BandsTypeOK
<1>3. i < n /\ g < i
  BY <1>1 DEF Band, BandsInv, CompactsBehind
<1>4. /\ i \in Pixel /\ g \in Pixel /\ n \in Nat /\ n >= 2 /\ g \in Nat /\ g + 1 \in Nat
      /\ i \in 0 .. n - 1 /\ i # 0 /\ g + 1 \in Pixel
  BY <1>2, <1>3, BufferSize DEF Pixel
<1>5. /\ i' = i + 1 /\ UNCHANGED <<color_line, number_of_groups, color_groups>>
      /\ current_color' = color
      /\ color_group_index' = IF color # current_color THEN g + 1 ELSE g
  BY <1>1, <1>4 DEF Band, Advance, groups
<1>6. /\ Lists(sp, n, Starts(color_line)) /\ Apart(color_line, sp, n)
      /\ \A k \in 0 .. n - 1 : color_groups[k] = Shade(color_line)[sp[k]]
      /\ current_color = Shade(color_line)[sp[i - 1]]
      /\ current_color = Shade(color_line)[mk[g]]
      /\ \A k \in 0 .. g - 1 : color_bands[k] = Shade(color_line)[mk[k]]
      /\ \A k \in Pixel : k >= g => color_bands[k] = "UNDEFINED_COLOR"
      /\ Lists(mk, g + 1, Below(Marks(color_line), sp[i]))
  <2>1. \A k \in Pixel : k >= g => k > g \/ k = g
    BY <1>4 DEF Pixel
  <2>2. QED
    BY <1>1, <1>3, <1>4, <2>1 DEF BandsAt
<1>7. color = Shade(color_line)[sp[i]] /\ color \in Color /\ current_color \in Color
      /\ color_bands \in [Pixel -> Color]
  BY <1>1, <1>4, <1>6 DEF BandsInv, BandsTypeOK
<1>8. Marks(color_line) \in SUBSET Nat /\ Marks(color_line) \subseteq Starts(color_line)
  BY <1>4, <1>6, MarksOfStripes DEF Changes
<1>9. sp[i] \in Marks(color_line) <=> color # current_color
  <2>1. \A k \in 0 .. n - 1 : sp[k] \in Marks(color_line) <=>
          (k = 0 \/ Shade(color_line)[sp[k - 1]] # Shade(color_line)[sp[k]])
    BY <1>4, <1>6, MarksOfStripes
  <2>2. QED
    BY <1>4, <1>6, <1>7, <2>1
<1>10. PICK c \in Nat : c = IF i + 1 < n THEN sp[i + 1] ELSE IMAGE_BUFFER_SIZE
  BY <1>2, BufferSize
<1>11. sp[i] \in Nat /\ sp[i] < c
  <2>1. sp[i] \in Starts(color_line) /\ sp[i] \in Nat
    BY <1>2, <1>4, <1>6 DEF Lists
  <2>2. CASE i + 1 < n
    <3>1. i + 1 \in 0 .. n - 1 /\ i < i + 1
      BY <1>2, <1>4, <2>2
    <3>2. QED
      BY <1>4, <1>6, <1>10, <2>1, <2>2, <3>1 DEF Lists
  <2>3. CASE ~(i + 1 < n)
    BY <1>10, <2>1, <2>3, BufferSize DEF Starts, Changes, Heads, Pixel
  <2>4. QED
    BY <2>2, <2>3
<1>12. \A x \in Marks(color_line) : sp[i] <= x /\ x < c => x = sp[i]
  <2> SUFFICES ASSUME NEW x \in Starts(color_line), sp[i] <= x, x < c PROVE x = sp[i]
    BY <1>8
  <2>1. PICK k \in 0 .. n - 1 : x = sp[k]
    BY <1>6 DEF Lists
  <2>2. x \in Nat
    BY <2>1
  <2>3. ~(k < i)
    <3> SUFFICES ASSUME k < i PROVE FALSE
      OBVIOUS
    <3>1. sp[k] < sp[i]
      BY <1>4, <1>6 DEF Lists
    <3>2. QED
      BY <1>11, <2>1, <2>2, <3>1
  <2>4. ~(i + 1 <= k)
    <3> SUFFICES ASSUME i + 1 <= k PROVE FALSE
      OBVIOUS
    <3>1. i + 1 < n /\ i + 1 \in 0 .. n - 1 /\ (i + 1 = k \/ i + 1 < k)
      BY <1>2, <1>4
    <3>2. c <= x
      BY <1>6, <1>10, <2>1, <2>2, <3>1 DEF Lists
    <3>3. QED
      BY <2>2, <3>2
  <2>5. QED
    BY <1>2, <2>1, <2>2, <2>3, <2>4
<1>13. PICK m : m = IF color # current_color THEN g + 1 ELSE g
  OBVIOUS
<1>14. PICK new : new = [k \in Nat |-> IF k <= g THEN mk[k] ELSE sp[i]]
  OBVIOUS
<1>15. /\ m \in Nat /\ g <= m /\ m <= i /\ m \in Pixel /\ color_group_index' = m
       /\ new \in [Nat -> Nat] /\ (\A k \in 0 .. g : new[k] = mk[k]) /\ new[g + 1] = sp[i]
  BY <1>3, <1>4, <1>5, <1>11, <1>13, <1>14
<1>16. /\ Lists(new, m + 1, Below(Marks(color_line), c))
       /\ color = Shade(color_line)[new[m]]
  <2>1. CASE color # current_color
    <3>1. m = g + 1
      BY <1>13, <2>1
    <3>2. Lists(new, (g + 1) + 1, Below(Marks(color_line), c))
      <4>1. new[g + 1] = sp[i] /\ \A k \in 0 .. (g + 1) - 1 : new[k] = mk[k]
        BY <1>4, <1>15
      <4>2. sp[i] <= sp[i] /\ sp[i] \in Marks(color_line)
        BY <1>9, <1>11, <2>1
      <4>3. /\ Lists(mk, g + 1, Below(Marks(color_line), sp[i]))
            /\ Marks(color_line) \in SUBSET Nat /\ sp[i] < c /\ sp[i] \in Nat /\ g + 1 \in Nat
        BY <1>4, <1>6, <1>8, <1>11
      <4>4. QED
        BY <1>12, <4>1, <4>2, <4>3, ListNext
    <3>3. QED
      BY <1>7, <1>15, <3>1, <3>2
  <2>2. CASE color = current_color
    <3>1. m = g /\ new[m] = mk[g]
      BY <1>4, <1>13, <1>15, <2>2
    <3>2. Below(Marks(color_line), c) = Below(Marks(color_line), sp[i])
      BY <1>8, <1>9, <1>11, <1>12, <2>2 DEF Below
    <3>3. Lists(new, g + 1, Below(Marks(color_line), sp[i]))
      <4>1. \A k \in 0 .. (g + 1) - 1 : new[k] = mk[k]
        BY <1>4, <1>15
      <4>2. QED
        BY <1>6, <4>1 DEF Lists
    <3>4. QED
      BY <1>6, <2>2, <3>1, <3>2, <3>3
  <2>3. QED
    BY <2>1, <2>2
<1>17. ASSUME NEW k \in Pixel
       PROVE  color_bands'[k] = IF i = n - 1 /\ k = m THEN color
                                ELSE IF color # current_color /\ k = g THEN current_color
                                ELSE color_bands[k]
  <2> DEFINE closed == IF color # current_color THEN [color_bands EXCEPT ![g] = current_color]
                                                ELSE color_bands
  <2>1. color_bands' = IF i = n - 1 THEN [closed EXCEPT ![m] = color] ELSE closed
    BY <1>1, <1>13 DEF Band, Store
  <2>2. closed \in [Pixel -> Color]
    BY <1>7
  <2>3. closed[k] = IF color # current_color /\ k = g THEN current_color ELSE color_bands[k]
    BY <1>7
  <2> HIDE DEF closed
  <2>4. color_bands'[k] = IF i = n - 1 /\ k = m THEN color ELSE closed[k]
    BY <2>1, <2>2
  <2>5. QED
    BY <2>3, <2>4
<1>18. ASSUME NEW k \in 0 .. m - 1
       PROVE  color_bands'[k] = Shade(color_line)[new[k]]
  <2>1. k \in Pixel /\ k # m /\ k \in 0 .. g /\ new[k] = mk[k]
    BY <1>4, <1>13, <1>15, BufferSize DEF Pixel
  <2>2. CASE k < g
    <3>1. k # g /\ k \in 0 .. g - 1
      BY <1>4, <2>2
    <3>2. QED
      BY <1>6, <1>17, <2>1, <3>1
  <2>3. CASE k = g
    <3>1. color # current_color
      BY <1>4, <1>13, <2>3
    <3>2. QED
      BY <1>6, <1>17, <2>1, <2>3, <3>1
  <2>4. QED
    BY <1>4, <2>1, <2>2, <2>3
<1>19. ASSUME NEW k \in Pixel, k > m
       PROVE  color_bands'[k] = "UNDEFINED_COLOR"
  <2>1. k # m /\ k # g /\ k >= g
    BY <1>4, <1>15, <1>19 DEF Pixel
  <2>2. QED
    BY <1>6, <1>17, <2>1
<1>20. /\ i = n - 1 => color_bands'[m] = color
       /\ i # n - 1 => color_bands'[m] = "UNDEFINED_COLOR"
  <2>1. (m = g + 1 /\ color # current_color) \/ (m = g /\ color = current_color)
    BY <1>13
  <2>2. m # g \/ color = current_color
    BY <1>4, <2>1
  <2>3. m >= g
    BY <1>15
  <2>4. QED
    BY <1>6, <1>15, <1>17, <2>2, <2>3
<1>21. (i + 1) - 1 = i
  BY <1>2
<1>22. /\ i + 1 < n => i # n - 1 /\ c = sp[i + 1]
       /\ ~(i + 1 < n) => i = n - 1 /\ Below(Marks(color_line), c) = Marks(color_line)
  <2>1. CASE i + 1 < n
    BY <1>2, <1>10, <2>1
  <2>2. CASE ~(i + 1 < n)
    <3>1. c = IMAGE_BUFFER_SIZE /\ i = n - 1
      BY <1>2, <1>3, <1>10, <2>2
    <3>2. \A x \in Marks(color_line) : x < IMAGE_BUFFER_SIZE
      BY <1>8, BufferSize DEF Starts, Changes, Heads, Pixel
    <3>3. QED
      BY <2>2, <3>1, <3>2 DEF Below
  <2>3. QED
    BY <2>1, <2>2
<1>23. /\ current_color' = Shade(color_line)[sp[(i + 1) - 1]]
       /\ current_color' = Shade(color_line)[new[m]]
  BY <1>5, <1>7, <1>16, <1>21
<1>24. IF i + 1 < n
       THEN /\ Lists(new, m + 1, Below(Marks(color_line), sp[i + 1]))
            /\ color_bands'[m] = "UNDEFINED_COLOR"
       ELSE /\ Lists(new, m + 1, Marks(color_line))
            /\ color_bands'[m] = color
  BY <1>16, <1>20, <1>22
<1>25. 1 <= i + 1 /\ i + 1 <= n /\ ~(n < 2)
  BY <1>2, <1>3, <1>4
<1>26. BandsAt(sp, new)'
  BY <1>1, <1>5, <1>6, <1>15, <1>18, <1>19, <1>23, <1>24, <1>25 DEF BandsAt
<1>27. QED
  BY <1>15, <1>26
-----------------------------------------------------------------------------
(* The inductive invariant: what the arrays hold in each loop.             *)
BandsTrace ==
  /\ BandsInv
  /\ step \notin {"bands", "done"} => color_bands = NoColor
  /\ step = "split"  => \E pos \in Pos : SplitAt(pos)
  /\ step = "clean"  => \E pos \in Pos, at \in [Nat -> Nat] : CleanAt(pos, at)
  /\ step = "fusion" => \E at, sp \in [Nat -> Nat] : FusionAt(at, sp)
  /\ step = "erase"  => \E sp \in [Nat -> Nat] : EraseAt(sp)
  /\ step \in {"bands", "done"} => \E sp, mk \in [Nat -> Nat] : BandsAt(sp, mk)
  /\ step = "done" => i >= number_of_groups

(* The invariant holds before the first line.                              *)
LEMMA TraceInit == BandsInit => BandsTrace
BY BandsInitInv DEF BandsInit, BandsTrace

(* A step that changes nothing keeps it.                                   *)
LEMMA TraceStays ==
  ASSUME BandsTrace, UNCHANGED bvars
  PROVE  BandsTrace'
<1>1. /\ UNCHANGED <<color_line, step, i, number_of_groups, color_groups, size_of_groups>>
      /\ UNCHANGED <<color_group_index, current_color, current_group_size, color_bands>>
  BY DEF bvars, groups
<1>2. BandsInv'
  BY BandsStepInv DEF BandsTrace
<1>3. \A pos \in Pos : SplitAt(pos) => SplitAt(pos)'
  BY <1>1 DEF SplitAt, RunGroup, OpenRun
<1>4. \A pos \in Pos, at \in [Nat -> Nat] : CleanAt(pos, at) => CleanAt(pos, at)'
  BY <1>1 DEF CleanAt, RunGroup, Counted
<1>5. \A at, sp \in [Nat -> Nat] : FusionAt(at, sp) => FusionAt(at, sp)'
  BY <1>1 DEF FusionAt, Piece
<1>6. \A sp \in [Nat -> Nat] : EraseAt(sp) => EraseAt(sp)'
  BY <1>1 DEF EraseAt
<1>7. \A sp, mk \in [Nat -> Nat] : BandsAt(sp, mk) => BandsAt(sp, mk)'
  BY <1>1 DEF BandsAt
<1>8. QED
  BY <1>1, <1>2, <1>3, <1>4, <1>5, <1>6, <1>7 DEF BandsTrace

(* And every step of the pipeline does.                                    *)
LEMMA TraceStep ==
  ASSUME BandsTrace, [BandsNext]_bvars
  PROVE  BandsTrace'
<1>1. BandsInv /\ BandsInv'
  BY BandsStepInv DEF BandsTrace
<1>2. CASE Call
  <2>1. step' = "split" /\ color_bands' = NoColor
    BY <1>2 DEF Call, BandsTrace
  <2>2. QED
    BY <1>1, <1>2, <2>1, CallRuns DEF BandsTrace
<1>3. CASE Leave
  BY <1>1, <1>3 DEF Leave, BandsTrace
<1>4. CASE Split
  <2>1. step = "split" /\ step' = "split" /\ color_bands' = NoColor
    BY <1>4 DEF Split, Gather, BandsTrace
  <2>2. PICK pos \in Pos : SplitAt(pos)
    BY <2>1 DEF BandsTrace
  <2>3. QED
    BY <1>1, <1>4, <2>1, <2>2, SplitRuns DEF BandsTrace
<1>5. CASE BeginClean
  <2>1. step = "split" /\ step' = "clean" /\ color_bands' = NoColor
    BY <1>5 DEF BeginClean, BandsTrace
  <2>2. PICK pos \in Pos : SplitAt(pos)
    BY <2>1 DEF BandsTrace
  <2>3. QED
    BY <1>1, <1>5, <2>1, <2>2, BeginCleanRuns DEF BandsTrace
<1>6. CASE Clean
  <2>1. step = "clean" /\ step' = "clean" /\ color_bands' = NoColor
    BY <1>6 DEF Clean, BandsTrace
  <2>2. PICK pos \in Pos, at \in [Nat -> Nat] : CleanAt(pos, at)
    BY <2>1 DEF BandsTrace
  <2>3. QED
    BY <1>1, <1>6, <2>1, <2>2, CleanRuns DEF BandsTrace
<1>7. CASE BeginFusion
  <2>1. step = "clean" /\ step' = "fusion" /\ color_bands' = NoColor
    BY <1>7 DEF BeginFusion, BandsTrace
  <2>2. PICK pos \in Pos, at \in [Nat -> Nat] : CleanAt(pos, at)
    BY <2>1 DEF BandsTrace
  <2>3. QED
    BY <1>1, <1>7, <2>1, <2>2, BeginFusionRuns DEF BandsTrace
<1>8. CASE Fusion
  <2>1. step = "fusion" /\ step' = "fusion" /\ color_bands' = NoColor
    BY <1>8 DEF Fusion, Gather, BandsTrace
  <2>2. PICK at \in [Nat -> Nat], sp \in [Nat -> Nat] : FusionAt(at, sp)
    BY <2>1 DEF BandsTrace
  <2>3. QED
    BY <1>1, <1>8, <2>1, <2>2, FusionRuns DEF BandsTrace
<1>9. CASE BeginErase
  <2>1. step = "fusion" /\ step' = "erase" /\ color_bands' = NoColor
    BY <1>9 DEF BeginErase, BandsTrace
  <2>2. PICK at \in [Nat -> Nat], sp \in [Nat -> Nat] : FusionAt(at, sp)
    BY <2>1 DEF BandsTrace
  <2>3. QED
    BY <1>1, <1>9, <2>1, <2>2, BeginEraseRuns DEF BandsTrace
<1>10. CASE Erase
  <2>1. step = "erase" /\ step' = "erase" /\ color_bands' = NoColor
    BY <1>10 DEF Erase, BandsTrace
  <2>2. PICK sp \in [Nat -> Nat] : EraseAt(sp)
    BY <2>1 DEF BandsTrace
  <2>3. QED
    BY <1>1, <1>10, <2>1, <2>2, EraseRuns DEF BandsTrace
<1>11. CASE BeginBands
  <2>1. step = "erase" /\ step' = "bands" /\ color_bands = NoColor
    BY <1>11 DEF BeginBands, BandsTrace
  <2>2. PICK sp \in [Nat -> Nat] : EraseAt(sp)
    BY <2>1 DEF BandsTrace
  <2>3. QED
    BY <1>1, <1>11, <2>1, <2>2, BeginBandsRuns DEF BandsTrace
<1>12. CASE Band
  <2>1. step = "bands" /\ step' = "bands"
    BY <1>12 DEF Band
  <2>2. PICK sp \in [Nat -> Nat], mk \in [Nat -> Nat] : BandsAt(sp, mk)
    BY <2>1 DEF BandsTrace
  <2>3. QED
    BY <1>1, <1>12, <2>1, <2>2, BandRuns DEF BandsTrace
<1>13. CASE Return
  <2>1. step = "bands" /\ step' = "done" /\ i' = i /\ number_of_groups' = number_of_groups
        /\ i >= number_of_groups
    BY <1>13 DEF Return
  <2>2. PICK sp \in [Nat -> Nat], mk \in [Nat -> Nat] : BandsAt(sp, mk)
    BY <2>1 DEF BandsTrace
  <2>3. BandsAt(sp, mk)'
    BY <1>13, <2>2 DEF Return, BandsAt, groups
  <2>4. QED
    BY <1>1, <2>1, <2>3 DEF BandsTrace
<1>14. CASE UNCHANGED bvars
  BY <1>14, TraceStays
<1>15. QED
  BY <1>2, <1>3, <1>4, <1>5, <1>6, <1>7, <1>8, <1>9, <1>10, <1>11, <1>12, <1>13, <1>14 DEF BandsNext

(* In every loop the arrays hold what the line has up to where the loop    *)
(* is: the runs, those that count, the stripes, their shades, the marks.   *)
THEOREM BandsTraced == BandsSpec => []BandsTrace
BY TraceInit, TraceStep, PTL DEF BandsSpec

(* What the arrays hold in the end: sp lists the stripes, mk the marks.    *)
LEMMA TraceDone ==
  ASSUME BandsTrace, step = "done", number_of_groups >= 2
  PROVE  \E sp, mk \in [Nat -> Nat] :
           /\ Lists(sp, number_of_groups, Starts(color_line))
           /\ Apart(color_line, sp, number_of_groups)
           /\ Lists(mk, color_group_index + 1, Marks(color_line))
           /\ \A k \in 0 .. color_group_index : color_bands[k] = Shade(color_line)[mk[k]]
           /\ \A k \in Pixel : k > color_group_index => color_bands[k] = "UNDEFINED_COLOR"
<1>1. PICK sp \in [Nat -> Nat], mk \in [Nat -> Nat] : BandsAt(sp, mk)
  BY DEF BandsTrace
<1>2. i \in Nat /\ number_of_groups \in Nat /\ color_group_index \in Nat /\ i >= number_of_groups
  BY DEF BandsTrace, BandsInv, BandsTypeOK
<1>3. /\ Lists(sp, number_of_groups, Starts(color_line))
      /\ Apart(color_line, sp, number_of_groups)
      /\ Lists(mk, color_group_index + 1, Marks(color_line))
      /\ current_color = Shade(color_line)[mk[color_group_index]]
      /\ color_bands[color_group_index] = current_color
      /\ \A k \in 0 .. color_group_index - 1 : color_bands[k] = Shade(color_line)[mk[k]]
      /\ \A k \in Pixel : k > color_group_index => color_bands[k] = "UNDEFINED_COLOR"
  BY <1>1, <1>2 DEF BandsAt
<1>4. \A k \in 0 .. color_group_index : k \in 0 .. color_group_index - 1 \/ k = color_group_index
  BY <1>2
<1>5. QED
  BY <1>3, <1>4

(* In the end the bands are the marks, one after the other.                *)
LEMMA TraceRight ==
  ASSUME BandsTrace
  PROVE  BandsRight
<1> SUFFICES ASSUME step = "done"
             PROVE  /\ \A p \in Marks(color_line) :
                         color_bands[Cardinality({q \in Marks(color_line) : q < p})] =
                           Shade(color_line)[p]
                    /\ \A k \in Pixel : k >= Cardinality(Marks(color_line)) =>
                         color_bands[k] = "UNDEFINED_COLOR"
  BY DEF BandsRight
<1>1. number_of_groups \in Nat /\ color_group_index \in Nat
  BY DEF BandsTrace, BandsInv, BandsTypeOK
<1>2. CASE number_of_groups < 2
  <2>1. Cardinality(Starts(color_line)) < 2 /\ \A k \in Pixel : color_bands[k] = "UNDEFINED_COLOR"
    BY <1>2 DEF BandsTrace, BandsAt
  <2>2. DOMAIN Shade(color_line) = Starts(color_line)
    BY DEF Shade, Stripes, Starts
  <2>3. Marks(color_line) = {}
    BY <2>1, <2>2 DEF Marks
  <2>4. QED
    BY <2>1, <2>3
<1>3. CASE number_of_groups >= 2
  <2>1. PICK sp \in [Nat -> Nat], mk \in [Nat -> Nat] :
          /\ Lists(sp, number_of_groups, Starts(color_line))
          /\ Lists(mk, color_group_index + 1, Marks(color_line))
          /\ \A k \in 0 .. color_group_index : color_bands[k] = Shade(color_line)[mk[k]]
          /\ \A k \in Pixel : k > color_group_index => color_bands[k] = "UNDEFINED_COLOR"
    BY <1>3, TraceDone
  <2>2. Marks(color_line) \in SUBSET Nat
    BY <1>1, <1>3, <2>1, MarksOfStripes
  <2>3. /\ Cardinality(Marks(color_line)) = color_group_index + 1
        /\ \A k \in 0 .. (color_group_index + 1) - 1 :
             Cardinality(Below(Marks(color_line), mk[k])) = k
    <3>1. PICK n \in Nat : n = color_group_index + 1
      BY <1>1
    <3>2. Lists(mk, n, Marks(color_line))
      BY <2>1, <3>1
    <3>3. /\ Cardinality(Marks(color_line)) = n
          /\ \A k \in 0 .. n - 1 : Cardinality(Below(Marks(color_line), mk[k])) = k
      BY <2>2, <3>2, ListedRank
    <3>4. QED
      BY <3>1, <3>3
  <2>4. (color_group_index + 1) - 1 = color_group_index
    BY <1>1
  <2>5. ASSUME NEW p \in Marks(color_line)
        PROVE  color_bands[Cardinality({q \in Marks(color_line) : q < p})] = Shade(color_line)[p]
    <3>1. PICK k \in 0 .. color_group_index : p = mk[k]
      BY <2>1, <2>4 DEF Lists
    <3>2. Cardinality({q \in Marks(color_line) : q < p}) = k
      BY <2>3, <2>4, <3>1 DEF Below
    <3>3. QED
      BY <2>1, <3>1, <3>2
  <2>6. \A k \in Pixel : k >= color_group_index + 1 => k > color_group_index
    BY <1>1 DEF Pixel
  <2>7. QED
    BY <2>1, <2>3, <2>5, <2>6
<1>4. QED
  BY <1>1, <1>2, <1>3

(* For every line and all widths, the bands are those of the line.         *)
THEOREM LineGivesBands == BandsSpec => []BandsRight
BY TraceRight, BandsTraced, PTL
-----------------------------------------------------------------------------
(* The order of a list is that of its elements.                            *)
LEMMA ListedOrder ==
  ASSUME NEW S \in SUBSET Nat, NEW n \in Nat, NEW at, Lists(at, n, S),
         NEW j \in 0 .. n - 1, NEW k \in 0 .. n - 1
  PROVE  /\ at[j] < at[k] <=> j < k
         /\ at[j] = at[k] <=> j = k
<1>1. PICK x \in Nat, y \in Nat : x = at[j] /\ y = at[k]
  BY DEF Lists
<1>2. /\ j < k => x < y
      /\ k < j => y < x
  BY <1>1 DEF Lists
<1>3. j < k \/ j = k \/ k < j
  OBVIOUS
<1>4. QED
  BY <1>1, <1>2, <1>3

(* A stripe keeps its colour if and only if it is wide enough.             *)
LEMMA ShadeWide ==
  ASSUME NEW line, NEW p \in Starts(line)
  PROVE  /\ Stripes(line)[p].color = line[p]
         /\ Shade(line)[p] = IF Stripes(line)[p].width >= MIN_COLOR_BAND_WIDTH
                             THEN line[p] ELSE "UNDEFINED_COLOR"
<1>1. Stripes(line)[p].color = line[p]
  BY DEF Stripes, Starts
<1>2. QED
  BY <1>1, ShadeOf

(* A stripe that is wide enough is a mark, and so is the stripe after it.  *)
LEMMA WideIsMark ==
  ASSUME NEW line, NEW n \in Nat, n >= 2, NEW sp \in [Nat -> Nat], Lists(sp, n, Starts(line)),
         Apart(line, sp, n), NEW a \in 0 .. n - 1, Shade(line)[sp[a]] # "UNDEFINED_COLOR"
  PROVE  /\ sp[a] \in Marks(line)
         /\ a + 1 < n => sp[a + 1] \in Marks(line)
<1>1. \A k \in 0 .. n - 1 : sp[k] \in Starts(line)
  BY DEF Lists
<1>2. \A k \in 0 .. n - 1 : sp[k] \in Marks(line) <=>
        (k = 0 \/ Shade(line)[sp[k - 1]] # Shade(line)[sp[k]])
  BY MarksOfStripes
<1>3. \A k \in 0 .. n - 1 : Shade(line)[sp[k]] # "UNDEFINED_COLOR"
                             => Shade(line)[sp[k]] = line[sp[k]]
  BY <1>1, ShadeWide
<1>4. ASSUME a # 0 PROVE Shade(line)[sp[a - 1]] # Shade(line)[sp[a]]
  <2>1. a - 1 \in 0 .. n - 1 /\ a \in 1 .. n - 1
    BY <1>4
  <2>2. line[sp[a - 1]] # line[sp[a]]
    BY <2>1 DEF Apart
  <2>3. QED
    BY <1>3, <2>1, <2>2
<1>5. ASSUME a + 1 < n PROVE Shade(line)[sp[a]] # Shade(line)[sp[a + 1]]
  <2>1. a + 1 \in 0 .. n - 1 /\ a + 1 \in 1 .. n - 1 /\ (a + 1) - 1 = a
    BY <1>5
  <2>2. line[sp[(a + 1) - 1]] # line[sp[a + 1]]
    BY <2>1 DEF Apart
  <2>3. QED
    BY <1>3, <2>1, <2>2
<1>6. sp[a] \in Marks(line)
  BY <1>2, <1>4
<1>7. ASSUME a + 1 < n PROVE sp[a + 1] \in Marks(line)
  <2>1. a + 1 \in 0 .. n - 1 /\ (a + 1) - 1 = a
    BY <1>7
  <2>2. QED
    BY <1>2, <1>5, <1>7, <2>1
<1>8. QED
  BY <1>6, <1>7

(* After a wide stripe the next mark is the next stripe.                   *)
LEMMA NextMark ==
  ASSUME NEW line, NEW n \in Nat, n >= 2, NEW sp \in [Nat -> Nat], Lists(sp, n, Starts(line)),
         Apart(line, sp, n), NEW m \in Nat, NEW mk \in [Nat -> Nat], Lists(mk, m, Marks(line)),
         NEW a \in 0 .. n - 1, NEW k \in 0 .. m - 1, mk[k] = sp[a],
         Shade(line)[sp[a]] # "UNDEFINED_COLOR"
  PROVE  /\ k + 1 < m <=> a + 1 < n
         /\ k + 1 < m => mk[k + 1] = sp[a + 1]
<1>1. /\ Marks(line) \in SUBSET Nat /\ Starts(line) \in SUBSET Nat
      /\ \A x \in Marks(line) : x \in Starts(line)
  BY MarksOfStripes, HeadsFinite DEF Changes
<1>2. ASSUME a + 1 < n PROVE k + 1 < m /\ mk[k + 1] = sp[a + 1]
  <2>1. a + 1 \in 0 .. n - 1 /\ a < a + 1
    BY <1>2
  <2>2. sp[a + 1] \in Marks(line) /\ sp[a] < sp[a + 1]
    BY <1>2, <2>1, WideIsMark DEF Lists
  <2>3. PICK j \in 0 .. m - 1 : sp[a + 1] = mk[j]
    BY <2>2 DEF Lists
  <2>4. k < j
    BY <1>1, <2>2, <2>3, ListedOrder
  <2>5. k + 1 < m /\ k + 1 \in 0 .. m - 1 /\ (k + 1 = j \/ k + 1 < j)
    BY <2>4
  <2>6. ~(k + 1 < j)
    <3> SUFFICES ASSUME k + 1 < j PROVE FALSE
      OBVIOUS
    <3>1. mk[k] < mk[k + 1] /\ mk[k + 1] < mk[j] /\ mk[k + 1] \in Marks(line)
      BY <2>5 DEF Lists
    <3>2. PICK b \in 0 .. n - 1 : mk[k + 1] = sp[b]
      BY <1>1, <3>1 DEF Lists
    <3>3. a < b /\ b < a + 1
      BY <1>1, <2>1, <2>3, <3>1, <3>2, ListedOrder
    <3>4. QED
      BY <3>3
  <2>7. QED
    BY <2>3, <2>5, <2>6
<1>3. ASSUME k + 1 < m PROVE a + 1 < n
  <2>1. k + 1 \in 0 .. m - 1 /\ k < k + 1
    BY <1>3
  <2>2. mk[k] < mk[k + 1] /\ mk[k + 1] \in Starts(line)
    BY <1>1, <2>1 DEF Lists
  <2>3. PICK b \in 0 .. n - 1 : mk[k + 1] = sp[b]
    BY <2>2 DEF Lists
  <2>4. a < b
    BY <1>1, <2>2, <2>3, ListedOrder
  <2>5. QED
    BY <2>4
<1>4. QED
  BY <1>2, <1>3
(* Of two elements that are next to each other, one is listed after the    *)
(* other.                                                                  *)
LEMMA ListedNext ==
  ASSUME NEW S \in SUBSET Nat, NEW n \in Nat, NEW at, Lists(at, n, S),
         NEW j \in 0 .. n - 1, NEW k \in 0 .. n - 1
  PROVE  at[j] < at[k] /\ (\A x \in S : x <= at[j] \/ x >= at[k]) <=> k = j + 1
<1>1. \A l \in 0 .. n - 1 : at[l] \in S /\ at[l] \in Nat
  BY DEF Lists
<1>2. ASSUME at[j] < at[k], \A x \in S : x <= at[j] \/ x >= at[k] PROVE k = j + 1
  <2>1. j < k
    BY <1>2, ListedOrder
  <2>2. j + 1 \in 0 .. n - 1 /\ j < j + 1
    BY <2>1
  <2>3. ~(j + 1 < k)
    <3> SUFFICES ASSUME j + 1 < k PROVE FALSE
      OBVIOUS
    <3>1. at[j] < at[j + 1] /\ at[j + 1] < at[k]
      BY <2>2 DEF Lists
    <3>2. at[j + 1] <= at[j] \/ at[j + 1] >= at[k]
      BY <1>1, <1>2, <2>2
    <3>3. QED
      BY <1>1, <2>2, <3>1, <3>2
  <2>4. QED
    BY <2>1, <2>3
<1>3. ASSUME k = j + 1 PROVE at[j] < at[k] /\ \A x \in S : x <= at[j] \/ x >= at[k]
  <2>1. at[j] < at[k]
    BY <1>3 DEF Lists
  <2>2. ASSUME NEW x \in S PROVE x <= at[j] \/ x >= at[k]
    <3>1. PICK l \in 0 .. n - 1 : x = at[l]
      BY DEF Lists
    <3>2. CASE l <= j
      <4>1. l < j \/ l = j
        BY <3>2
      <4>2. QED
        BY <1>1, <3>1, <4>1 DEF Lists
    <3>3. CASE k <= l
      <4>1. k < l \/ l = k
        BY <3>3
      <4>2. QED
        BY <1>1, <3>1, <4>1 DEF Lists
    <3>4. QED
      BY <1>3, <3>2, <3>3
  <2>3. QED
    BY <2>1, <2>2
<1>4. QED
  BY <1>2, <1>3

(* Three bands next to each other are three wide stripes next to each      *)
(* other, where all bands fit in color_bands.                              *)
LEMMA ColorsShown ==
  ASSUME BandsTrace, BandsFit, step = "done",
         NEW colors, \A l \in 1 .. 3 : colors[l] # "UNDEFINED_COLOR"
  PROVE  InBands(color_bands, colors) <=> InStripes(color_line, colors)
<1> DEFINE stripes == Stripes(color_line)
           wide(p, c) == stripes[p].color = c /\ stripes[p].width >= MIN_COLOR_BAND_WIDTH
           next(p, q) == p < q /\ \A x \in Starts(color_line) : x <= p \/ x >= q
           run(p, q, r) == /\ next(p, q) /\ next(q, r)
                           /\ wide(p, colors[1]) /\ wide(q, colors[2]) /\ wide(r, colors[3])
<1>1. DOMAIN stripes = Starts(color_line)
  BY DEF Stripes, Starts
<1>2. InStripes(color_line, colors) <=> \E p, q, r \in Starts(color_line) : run(p, q, r)
  BY <1>1 DEF InStripes
<1>3. /\ number_of_groups \in Nat /\ color_group_index \in Nat
      /\ MAX_NUM_COLOR_BANDS \in Nat /\ MAX_NUM_COLOR_BANDS <= IMAGE_BUFFER_SIZE
      /\ Starts(color_line) \in SUBSET Nat
  BY BandsAssumption, HeadsFinite DEF BandsTrace, BandsInv, BandsTypeOK
<1>4. InBands(color_bands, colors) <=>
        \E k \in 0 .. MAX_NUM_COLOR_BANDS - 3 :
          /\ color_bands[k] = colors[1] /\ color_bands[k + 1] = colors[2]
          /\ color_bands[k + 2] = colors[3]
  <2>1. \A k \in 0 .. MAX_NUM_COLOR_BANDS - 3 :
          k + 1 - 1 = k /\ k + 2 - 1 = k + 1 /\ k + 3 - 1 = k + 2
    BY <1>3
  <2>2. \A k \in 0 .. MAX_NUM_COLOR_BANDS - 3 :
          (\A l \in 1 .. 3 : color_bands[k + l - 1] = colors[l]) <=>
            /\ color_bands[k + 1 - 1] = colors[1] /\ color_bands[k + 2 - 1] = colors[2]
            /\ color_bands[k + 3 - 1] = colors[3]
    OBVIOUS
  <2>3. QED
    BY <2>1, <2>2 DEF InBands
<1>5. \A k \in 0 .. MAX_NUM_COLOR_BANDS - 3 : k \in Pixel /\ k + 1 \in Pixel /\ k + 2 \in Pixel
  BY <1>3, BufferSize DEF Pixel
<1>6. CASE number_of_groups < 2
  <2>1. Cardinality(Starts(color_line)) < 2 /\ \A k \in Pixel : color_bands[k] = "UNDEFINED_COLOR"
    BY <1>6 DEF BandsTrace, BandsAt
  <2>2. ~InBands(color_bands, colors)
    BY <1>4, <1>5, <2>1
  <2>3. ~InStripes(color_line, colors)
    <3> SUFFICES ASSUME NEW p \in Starts(color_line), NEW q \in Starts(color_line), p < q
        PROVE FALSE
      BY <1>2
    <3>1. p \in Nat /\ q \in Nat /\ p # q
      BY <1>3
    <3>2. IsFiniteSet({p}) /\ Cardinality({p}) = 1
      BY FS_Singleton
    <3>3. Cardinality({p} \cup {q}) = 2
      BY <3>1, <3>2, FS_AddElement
    <3>4. {p} \cup {q} \in SUBSET Starts(color_line)
      OBVIOUS
    <3>5. IsFiniteSet(Starts(color_line))
      BY HeadsFinite, FS_Subset
    <3>6. 2 <= Cardinality(Starts(color_line)) /\ Cardinality(Starts(color_line)) \in Nat
      BY <3>3, <3>4, <3>5, FS_Subset, FS_CardinalityType
    <3>7. QED
      BY <2>1, <3>6
  <2>4. QED
    BY <2>2, <2>3
<1>7. CASE number_of_groups >= 2
  <2>1. PICK n \in Nat, m \in Nat, g \in Nat :
          n = number_of_groups /\ m = color_group_index + 1 /\ g = color_group_index
    BY <1>3
  <2>2. n >= 2 /\ m = g + 1 /\ g < MAX_NUM_COLOR_BANDS
    BY <1>3, <1>7, <2>1 DEF BandsFit
  <2>3. PICK sp \in [Nat -> Nat], mk \in [Nat -> Nat] :
          /\ Lists(sp, n, Starts(color_line)) /\ Apart(color_line, sp, n)
          /\ Lists(mk, m, Marks(color_line))
          /\ \A k \in 0 .. g : color_bands[k] = Shade(color_line)[mk[k]]
          /\ \A k \in Pixel : k > g => color_bands[k] = "UNDEFINED_COLOR"
    BY <1>7, <2>1, TraceDone
  <2>4. \A a \in 0 .. n - 1 : sp[a] \in Starts(color_line)
    BY <2>3 DEF Lists
  <2>5. ASSUME NEW a \in 0 .. n - 1, NEW c, c # "UNDEFINED_COLOR"
        PROVE  wide(sp[a], c) <=> Shade(color_line)[sp[a]] = c
    BY <2>4, <2>5, ShadeWide
  <2>6. \A k \in 0 .. m - 1 : \A a \in 0 .. n - 1 :
          mk[k] = sp[a] /\ Shade(color_line)[sp[a]] # "UNDEFINED_COLOR" =>
            (k + 1 < m <=> a + 1 < n) /\ (k + 1 < m => mk[k + 1] = sp[a + 1])
    <3> SUFFICES ASSUME NEW k \in 0 .. m - 1, NEW a \in 0 .. n - 1, mk[k] = sp[a],
                        Shade(color_line)[sp[a]] # "UNDEFINED_COLOR"
                 PROVE  /\ k + 1 < m <=> a + 1 < n
                        /\ k + 1 < m => mk[k + 1] = sp[a + 1]
      OBVIOUS
    <3>1. /\ Lists(sp, n, Starts(color_line)) /\ Apart(color_line, sp, n)
          /\ Lists(mk, m, Marks(color_line)) /\ n >= 2
      BY <2>2, <2>3
    <3>2. QED
      BY <3>1, NextMark
  <2>7. \A a, b \in 0 .. n - 1 : next(sp[a], sp[b]) <=> b = a + 1
    BY <1>3, <2>3, ListedNext
  <2>8. ASSUME InBands(color_bands, colors) PROVE InStripes(color_line, colors)
    <3>1. PICK k \in 0 .. MAX_NUM_COLOR_BANDS - 3 :
            /\ color_bands[k] = colors[1] /\ color_bands[k + 1] = colors[2]
            /\ color_bands[k + 2] = colors[3]
      BY <1>4, <2>8
    <3>2. k + 2 <= g
      BY <1>5, <2>3, <3>1
    <3>3. /\ k \in 0 .. m - 1 /\ k + 1 \in 0 .. m - 1 /\ k + 1 < m /\ (k + 1) + 1 < m
          /\ (k + 1) + 1 = k + 2
      BY <2>2, <3>2
    <3>4. /\ Shade(color_line)[mk[k]] = colors[1] /\ Shade(color_line)[mk[k + 1]] = colors[2]
          /\ Shade(color_line)[mk[k + 2]] = colors[3]
      <4>1. k \in 0 .. g /\ k + 1 \in 0 .. g /\ k + 2 \in 0 .. g
        BY <3>2
      <4>2. QED
        BY <2>3, <3>1, <4>1
    <3>5. PICK a \in 0 .. n - 1 : mk[k] = sp[a]
      <4>1. mk[k] \in Marks(color_line)
        BY <2>3, <3>3 DEF Lists
      <4>2. mk[k] \in Starts(color_line)
        BY <2>2, <2>3, <4>1, MarksOfStripes DEF Changes
      <4>3. QED
        BY <2>3, <4>2 DEF Lists
    <3>6. a + 1 < n /\ mk[k + 1] = sp[a + 1]
      BY <2>6, <3>3, <3>4, <3>5
    <3>7. a + 1 \in 0 .. n - 1
      BY <3>6
    <3>8. (a + 1) + 1 < n /\ mk[k + 2] = sp[(a + 1) + 1]
      BY <2>6, <3>3, <3>4, <3>6, <3>7
    <3>9. (a + 1) + 1 \in 0 .. n - 1
      BY <3>8
    <3>10. wide(sp[a], colors[1]) /\ wide(sp[a + 1], colors[2]) /\ wide(sp[(a + 1) + 1], colors[3])
      BY <2>5, <3>4, <3>5, <3>6, <3>7, <3>8, <3>9
    <3>11. next(sp[a], sp[a + 1]) /\ next(sp[a + 1], sp[(a + 1) + 1])
      BY <2>7, <3>7, <3>9
    <3>12. run(sp[a], sp[a + 1], sp[(a + 1) + 1])
      BY <3>10, <3>11
    <3>13. QED
      BY <1>2, <2>4, <3>7, <3>9, <3>12
  <2>9. ASSUME InStripes(color_line, colors) PROVE InBands(color_bands, colors)
    <3>1. PICK p \in Starts(color_line), q \in Starts(color_line), r \in Starts(color_line) :
            run(p, q, r)
      BY <1>2, <2>9
    <3>2. PICK a \in 0 .. n - 1, b \in 0 .. n - 1, d \in 0 .. n - 1 :
            p = sp[a] /\ q = sp[b] /\ r = sp[d]
      BY <2>3 DEF Lists
    <3>3. b = a + 1 /\ d = b + 1 /\ a + 1 < n /\ b + 1 < n
      BY <2>7, <3>1, <3>2
    <3>4. /\ Shade(color_line)[sp[a]] = colors[1] /\ Shade(color_line)[sp[b]] = colors[2]
          /\ Shade(color_line)[sp[d]] = colors[3]
      BY <2>5, <3>1, <3>2
    <3>5. sp[a] \in Marks(color_line)
      BY <2>2, <2>3, <3>4, WideIsMark
    <3>6. PICK k \in 0 .. m - 1 : mk[k] = sp[a]
      BY <2>3, <3>5 DEF Lists
    <3>7. k + 1 < m /\ mk[k + 1] = sp[b]
      BY <2>6, <3>3, <3>4, <3>6
    <3>8. k + 1 \in 0 .. m - 1 /\ (k + 1) + 1 = k + 2
      BY <3>7
    <3>9. (k + 1) + 1 < m /\ mk[k + 2] = sp[d]
      BY <2>6, <3>3, <3>4, <3>7, <3>8
    <3>10. /\ k \in 0 .. g /\ k + 1 \in 0 .. g /\ k + 2 \in 0 .. g
           /\ k \in 0 .. MAX_NUM_COLOR_BANDS - 3
      BY <1>3, <2>2, <3>9
    <3>11. /\ color_bands[k] = colors[1] /\ color_bands[k + 1] = colors[2]
           /\ color_bands[k + 2] = colors[3]
      BY <2>3, <3>4, <3>6, <3>7, <3>9, <3>10
    <3>12. QED
      BY <1>4, <3>10, <3>11
  <2>10. QED
    BY <2>8, <2>9
<1>8. QED
  BY <1>3, <1>6, <1>7

(* So the first flag among the bands is the first one of the line.         *)
LEMMA TraceShown ==
  ASSUME BandsTrace, BandsFit
  PROVE  FlagShown
<1> SUFFICES ASSUME step = "done"
             PROVE  extract_flag(color_bands) =
                      FirstOf({f \in DOMAIN Flags : InStripes(color_line, Flags[f].bands)})
  BY DEF FlagShown
<1>1. \A f \in DOMAIN Flags : \A l \in 1 .. 3 : Flags[f].bands[l] # "UNDEFINED_COLOR"
  BY DEF Flags
<1>2. \A f \in DOMAIN Flags :
        InBands(color_bands, Flags[f].bands) <=> InStripes(color_line, Flags[f].bands)
  BY <1>1, ColorsShown
<1>3. {f \in DOMAIN Flags : InBands(color_bands, Flags[f].bands)} =
        {f \in DOMAIN Flags : InStripes(color_line, Flags[f].bands)}
  BY <1>2
<1>4. QED
  BY <1>3 DEF extract_flag

(* For every line and all widths, the flag is the first one that the line  *)
(* shows, as long as the bands fit in the array that is there for them.    *)
THEOREM LineGivesFlag == BandsSpec => [](BandsFit => FlagShown)
BY TraceShown, BandsTraced, PTL
-----------------------------------------------------------------------------
(* The classification of pixels, from the bytes the camera delivers.       *)
(* The two bytes put together hold the three components. *)
LEMMA AssembledBits ==
  ASSUME NEW r \in 0 .. 31, NEW g \in 0 .. 63, NEW b \in 0 .. 31,
         NEW pixel, pixel = 256 * (8 * r + g \div 8) + 32 * (g % 8) + b
  PROVE  pixel = 2048 * r + 32 * g + b
<1>1. g = 8 * (g \div 8) + (g % 8) /\ g \div 8 \in Int /\ g % 8 \in Int
  OBVIOUS
<1>2. QED
  BY <1>1

(* Masks and shifts take them apart again. *)
LEMMA PixelComponents ==
  ASSUME NEW r \in 0 .. 31, NEW g \in 0 .. 63, NEW b \in 0 .. 31
  PROVE  LET pixel == 2048 * r + 32 * g + b
         IN  pixel \div 2048 = r /\ (pixel \div 32) % 64 = g /\ pixel % 32 = b
<1> DEFINE pixel == 2048 * r + 32 * g + b
<1>1. pixel \div 2048 = r
  OBVIOUS
<1>2. pixel \div 32 = 64 * r + g
  OBVIOUS
<1>3. (64 * r + g) % 64 = g
  OBVIOUS
<1>4. pixel % 32 = b
  OBVIOUS
<1>5. QED
  BY <1>1, <1>2, <1>3, <1>4

(* What get_color makes of the bytes of a pixel. *)
LEMMA SeenClassified ==
  ASSUME NEW r \in 0 .. 31, NEW g \in 0 .. 63, NEW b \in 0 .. 31
  PROVE  Seen(Rgb565(r, g, b)) = Classify(8 * r, 4 * g, 8 * b)
<1> DEFINE high  == 8 * r + g \div 8
           low   == 32 * (g % 8) + b
           pixel == high * 2^8 + low
           plain == 2048 * r + 32 * g + b
<1>1. 2^8 = 256 /\ 2^11 = 2048 /\ 2^5 = 32 /\ 2^6 = 64
  OBVIOUS
<1>2. pixel = plain
  <2>1. pixel = 256 * high + low
    BY <1>1
  <2>2. QED
    BY <2>1, AssembledBits
<1>3. Assemble(high, low) = plain
  BY <1>2 DEF Assemble
<1>4. plain \div 2048 = r /\ (plain \div 32) % 64 = g /\ plain % 32 = b
  BY PixelComponents
<1>5. red(plain) = Narrow(r * 8) /\ green(plain) = Narrow(g * 4) /\ blue(plain) = Narrow(b * 8)
  BY <1>1, <1>4 DEF red, green, blue, RED_CORRECTION, GREEN_CORRECTION, BLUE_CORRECTION
<1>6. Narrow(r * 8) = 8 * r /\ Narrow(g * 4) = 4 * g /\ Narrow(b * 8) = 8 * b
  <2>1. \A n \in 0 .. 255 : Narrow(n) = n
    BY <1>1 DEF Narrow
  <2>2. QED
    BY <2>1
<1>7. Rgb565(r, g, b)[1] = high /\ Rgb565(r, g, b)[2] = low
  BY DEF Rgb565
<1>8. QED
  BY <1>3, <1>5, <1>6, <1>7 DEF Seen, get_color

(* A component loses less than a step of the camera. *)
LEMMA CameraSteps ==
  ASSUME NEW x \in 0 .. 255
  PROVE  /\ x \div 8 \in 0 .. 31 /\ 8 * (x \div 8) <= x /\ x <= 8 * (x \div 8) + 7
         /\ x \div 4 \in 0 .. 63 /\ 4 * (x \div 4) <= x /\ x <= 4 * (x \div 4) + 3
<1>1. x = 8 * (x \div 8) + (x % 8) /\ x \div 8 \in Int /\ x % 8 \in 0 .. 7
  OBVIOUS
<1>2. x = 4 * (x \div 4) + (x % 4) /\ x \div 4 \in Int /\ x % 4 \in 0 .. 3
  OBVIOUS
<1>3. QED
  BY <1>1, <1>2

(* What get_color sees of some light. *)
LEMMA LightSeen ==
  ASSUME NEW r \in 0 .. 255, NEW g \in 0 .. 255, NEW b \in 0 .. 255
  PROVE  Seen(Camera(r, g, b)) = Classify(8 * (r \div 8), 4 * (g \div 4), 8 * (b \div 8))
<1>1. r \div 8 \in 0 .. 31 /\ g \div 4 \in 0 .. 63 /\ b \div 8 \in 0 .. 31
  BY CameraSteps
<1>2. QED
  BY <1>1, SeenClassified DEF Camera

(* The comparisons see every component up to the dropped bits. *)
LEMMA HueOfLight ==
  ASSUME NEW r \in 0 .. 255, NEW g \in 0 .. 255, NEW b \in 0 .. 255,
         NEW seen, seen = Seen(Camera(r, g, b))
  PROVE  /\ Beats(r, g, b, RED_MARGIN + Dropped) => seen = "RED"
         /\ seen = "RED" => Beats(r, g, b, RED_MARGIN - Dropped)
         /\ Beats(g, r, b, GREEN_MARGIN + Dropped) => seen = "GREEN"
         /\ seen = "GREEN" => Beats(g, r, b, GREEN_MARGIN - Dropped)
         /\ Beats(b, r, g, BLUE_MARGIN + Dropped) => seen = "BLUE"
         /\ seen = "BLUE" => Beats(b, r, g, BLUE_MARGIN - Dropped)
<1> DEFINE x == 8 * (r \div 8)
           y == 4 * (g \div 4)
           z == 8 * (b \div 8)
<1>1. x \in Nat /\ x <= r /\ r <= x + 7
  BY CameraSteps
<1>2. y \in Nat /\ y <= g /\ g <= y + 7
  BY CameraSteps
<1>3. z \in Nat /\ z <= b /\ b <= z + 7
  BY CameraSteps
<1>4. seen = Classify(x, y, z)
  BY LightSeen
<1> HIDE DEF x, y, z
<1>5. QED
  BY <1>1, <1>2, <1>3, <1>4
  DEF Classify, Exceeds, Beats, Dropped, RED_MARGIN, GREEN_MARGIN, BLUE_MARGIN

(* Every pixel has the hue of its strongest component, where the margin    *)
(* makes it clear, and never that of another one.                          *)
THEOREM LineHasItsHues == BandsSpec => []HueIsStrongest
<1>1. SeesStrongest
  <2> SUFFICES ASSUME NEW r \in Intensity, NEW g \in Intensity, NEW b \in Intensity
      PROVE  LET seen == Seen(Camera(r, g, b))
             IN  /\ Beats(r, g, b, RED_MARGIN + Dropped) => seen = "RED"
                 /\ seen = "RED" => Beats(r, g, b, RED_MARGIN - Dropped)
                 /\ Beats(g, r, b, GREEN_MARGIN + Dropped) => seen = "GREEN"
                 /\ seen = "GREEN" => Beats(g, r, b, GREEN_MARGIN - Dropped)
                 /\ Beats(b, r, g, BLUE_MARGIN + Dropped) => seen = "BLUE"
                 /\ seen = "BLUE" => Beats(b, r, g, BLUE_MARGIN - Dropped)
    BY DEF SeesStrongest
  <2>1. r \in 0 .. 255 /\ g \in 0 .. 255 /\ b \in 0 .. 255
    BY IntensityAssumption
  <2>2. QED
    BY <2>1, HueOfLight
<1>2. HueIsStrongest
  BY <1>1 DEF HueIsStrongest
<1>3. QED
  BY <1>2, PTL

Hue == {"RED", "GREEN", "BLUE"}

LEMMA StrongestOnly ==
  ASSUME NEW r \in 0 .. 255, NEW g \in 0 .. 255, NEW b \in 0 .. 255,
         NEW seen, seen = Seen(Camera(r, g, b))
  PROVE  /\ seen = "RED" => r > g /\ r > b
         /\ seen = "GREEN" => g > r /\ g > b
         /\ seen = "BLUE" => b > r /\ b > g
<1>1. RED_MARGIN - Dropped = 8 /\ GREEN_MARGIN - Dropped = 13 /\ BLUE_MARGIN - Dropped = 13
  BY DEF Dropped, RED_MARGIN, GREEN_MARGIN, BLUE_MARGIN
<1>2. /\ seen = "RED" => Beats(r, g, b, RED_MARGIN - Dropped)
      /\ seen = "GREEN" => Beats(g, r, b, GREEN_MARGIN - Dropped)
      /\ seen = "BLUE" => Beats(b, r, g, BLUE_MARGIN - Dropped)
  BY HueOfLight
<1>3. QED
  BY <1>1, <1>2 DEF Beats

(* What a brighter, a dimmer or a dazzling light does to two components,   *)
(* if the sensor treats them alike: it need not keep their difference.     *)
KeepsOrder(x, y, lit_x, lit_y) == (x <= y => lit_x <= lit_y) /\ (y <= x => lit_y <= lit_x)

(* In such a light a pixel may lose its hue, as it does in reflections,    *)
(* but it never takes on another one.                                     *)
THEOREM LightKeepsHuesApart ==
  ASSUME NEW r \in 0 .. 255, NEW g \in 0 .. 255, NEW b \in 0 .. 255,
         NEW lit_r \in 0 .. 255, NEW lit_g \in 0 .. 255, NEW lit_b \in 0 .. 255,
         KeepsOrder(r, g, lit_r, lit_g),
         KeepsOrder(r, b, lit_r, lit_b),
         KeepsOrder(g, b, lit_g, lit_b),
         Seen(Camera(r, g, b)) \in Hue, Seen(Camera(lit_r, lit_g, lit_b)) \in Hue
  PROVE  Seen(Camera(lit_r, lit_g, lit_b)) = Seen(Camera(r, g, b))
<1> DEFINE before == Seen(Camera(r, g, b))
           after  == Seen(Camera(lit_r, lit_g, lit_b))
<1>1. /\ before = "RED" => r > g /\ r > b
      /\ before = "GREEN" => g > r /\ g > b
      /\ before = "BLUE" => b > r /\ b > g
  BY StrongestOnly
<1>2. /\ after = "RED" => lit_r > lit_g /\ lit_r > lit_b
      /\ after = "GREEN" => lit_g > lit_r /\ lit_g > lit_b
      /\ after = "BLUE" => lit_b > lit_r /\ lit_b > lit_g
  BY StrongestOnly
<1>3. before \in Hue /\ after \in Hue
  OBVIOUS
<1> HIDE DEF before, after
<1>4. after = before
  BY <1>1, <1>2, <1>3 DEF Hue, KeepsOrder
<1>5. QED
  BY <1>4 DEF before, after
=============================================================================

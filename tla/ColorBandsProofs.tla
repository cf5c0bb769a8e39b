-------------------------- MODULE ColorBandsProofs --------------------------
(* The arrays of extract_color_bands, for every line of every length and   *)
(* every choice of the widths of groups and bands.                         *)
EXTENDS ColorBands, TLAPS

(* Store keeps the type of an array. *)
LEMMA StoreType ==
  ASSUME NEW S, NEW f \in [Pixel -> S], NEW old \in S, NEW new \in S, NEW ended, NEW last
  PROVE  Store(f, old, new, ended, last) \in [Pixel -> S]
<1> DEFINE closed == IF ended THEN [f EXCEPT ![color_group_index] = old] ELSE f
           next   == IF ended THEN color_group_index + 1 ELSE color_group_index
<1>1. closed \in [Pixel -> S]
  OBVIOUS
<1>2. [closed EXCEPT ![next] = new] \in [Pixel -> S]
  BY <1>1
<1>3. QED
  BY <1>1, <1>2 DEF Store

(* The two loops that gather: their index stays behind their counter.      *)
LEMMA GatherType ==
  ASSUME BandsTypeOK, NEW color \in Color, NEW size \in Nat, NEW last \in BOOLEAN,
         i < IMAGE_BUFFER_SIZE, color_group_index < i, Gather(color, size, last)
  PROVE  /\ color_groups' \in [Pixel -> Color]
         /\ size_of_groups' \in [Pixel -> Nat]
         /\ current_color' \in Color
         /\ current_group_size' \in Nat
         /\ i' = i + 1
         /\ color_group_index' \in 0 .. i + 1
         /\ ~last => color_group_index' < i'
         /\ UNCHANGED <<color_line, step, number_of_groups, color_bands>>
<1> DEFINE ended == color # current_color
           total == IF ended THEN size ELSE current_group_size + size
<1>1. total \in Nat
  BY DEF BandsTypeOK
<1>2. color_groups' \in [Pixel -> Color]
  BY StoreType DEF Gather, BandsTypeOK
<1>3. size_of_groups' = Store(size_of_groups, current_group_size, total, ended, last)
  BY DEF Gather
<1>4. size_of_groups' \in [Pixel -> Nat]
  BY <1>1, <1>3, StoreType DEF BandsTypeOK
<1>5. color_group_index' \in 0 .. i + 1 /\ (~last => color_group_index' < i + 1)
  BY BandsAssumption DEF Gather, Advance, BandsTypeOK
<1>6. current_group_size' = total /\ current_color' = color /\ i' = i + 1
  BY DEF Gather
<1>7. UNCHANGED <<color_line, step, number_of_groups, color_bands>>
  BY DEF Gather
<1>8. QED
  BY <1>1, <1>2, <1>4, <1>5, <1>6, <1>7

LEMMA BandsInitInv == BandsInit => BandsInv
<1>1. NoColor \in [Pixel -> Color] /\ NoSize \in [Pixel -> Nat]
  BY DEF NoColor, NoSize, Color
<1>2. QED
  BY <1>1, BandsAssumption DEF BandsInit, BandsInv, BandsTypeOK, CompactsBehind, Color

(* Every step of extract_color_bands, and its call and return. *)
LEMMA BandsStepInv == BandsInv /\ [BandsNext]_bvars => BandsInv'
<1> SUFFICES ASSUME BandsInv, [BandsNext]_bvars PROVE BandsInv'
  OBVIOUS
<1> USE BandsAssumption
<1>0. /\ BandsTypeOK /\ CompactsBehind
      /\ step = "start" => color_group_index = 0
      /\ step \in {"clean", "erase"} => i <= number_of_groups
  BY DEF BandsInv
<1>1. CASE Call
  <2>1. color_line' \in [Pixel -> Color] /\ 0 \in Pixel
    BY <1>1 DEF Call, Pixel
  <2>2. current_color' \in Color
    BY <1>1, <2>1 DEF Call
  <2>3. QED
    BY <1>0, <1>1, <2>1, <2>2 DEF Call, groups, BandsInv, BandsTypeOK, CompactsBehind
<1>2. CASE Leave
  <2>1. NoColor \in [Pixel -> Color] /\ NoSize \in [Pixel -> Nat]
    BY DEF NoColor, NoSize, Color
  <2>2. QED
    BY <1>2, <2>1 DEF Leave, BandsInv, BandsTypeOK, CompactsBehind, Color
<1>3. CASE Split
  <2> DEFINE last == i = IMAGE_BUFFER_SIZE - 1
  <2>1. /\ step = "split" /\ i < IMAGE_BUFFER_SIZE /\ i \in Pixel /\ color_group_index < i
        /\ Gather(color_line[i], 1, last)
    BY <1>0, <1>3 DEF Split, BandsTypeOK, CompactsBehind, Pixel
  <2>2. color_line[i] \in Color /\ last \in BOOLEAN
    BY <1>0, <2>1 DEF BandsTypeOK
  <2> HIDE DEF last
  <2>3. /\ color_groups' \in [Pixel -> Color] /\ size_of_groups' \in [Pixel -> Nat]
        /\ current_color' \in Color /\ current_group_size' \in Nat
        /\ i' = i + 1 /\ color_group_index' \in 0 .. i + 1
        /\ ~last => color_group_index' < i'
        /\ UNCHANGED <<color_line, step, number_of_groups, color_bands>>
    BY <1>0, <2>1, <2>2, GatherType
  <2>4. i' < IMAGE_BUFFER_SIZE => color_group_index' < i'
    BY <2>1, <2>3 DEF last, Pixel
  <2>5. QED
    BY <1>0, <2>1, <2>3, <2>4 DEF BandsInv, BandsTypeOK, CompactsBehind, Pixel
<1>4. CASE BeginClean
  BY <1>0, <1>4 DEF BeginClean, groups, BandsInv, BandsTypeOK, CompactsBehind
<1>5. CASE Clean
  <2>1. i \in Pixel /\ color_group_index \in Pixel /\ color_group_index <= i
    BY <1>0, <1>5 DEF Clean, BandsTypeOK, CompactsBehind, Pixel
  <2>2. color_groups' \in [Pixel -> Color] /\ size_of_groups' \in [Pixel -> Nat]
    BY <1>0, <1>5, <2>1 DEF Clean, groups, BandsTypeOK
  <2>3. color_group_index' \in 0 .. i + 1
    BY <1>0, <1>5, <2>1 DEF Clean, BandsTypeOK
  <2>4. QED
    BY <1>0, <1>5, <2>1, <2>2, <2>3 DEF Clean, BandsInv, BandsTypeOK, CompactsBehind, Pixel
<1>6. CASE BeginFusion
  <2>1. 0 \in Pixel
    BY DEF Pixel
  <2>2. current_color' \in Color /\ current_group_size' \in Nat
    BY <1>0, <1>6, <2>1 DEF BeginFusion, BandsTypeOK
  <2>3. QED
    BY <1>0, <1>6, <2>2 DEF BeginFusion, groups, BandsInv, BandsTypeOK, CompactsBehind
<1>7. CASE Fusion
  <2> DEFINE last == i = number_of_groups - 1
  <2>1. /\ step = "fusion" /\ i < number_of_groups /\ i \in Pixel /\ color_group_index < i
        /\ i < IMAGE_BUFFER_SIZE
        /\ Gather(color_groups[i], size_of_groups[i], last)
    BY <1>0, <1>7 DEF Fusion, BandsTypeOK, CompactsBehind, Pixel
  <2>2. color_groups[i] \in Color /\ size_of_groups[i] \in Nat /\ last \in BOOLEAN
    BY <1>0, <2>1 DEF BandsTypeOK
  <2> HIDE DEF last
  <2>3. /\ color_groups' \in [Pixel -> Color] /\ size_of_groups' \in [Pixel -> Nat]
        /\ current_color' \in Color /\ current_group_size' \in Nat
        /\ i' = i + 1 /\ color_group_index' \in 0 .. i + 1
        /\ ~last => color_group_index' < i'
        /\ UNCHANGED <<color_line, step, number_of_groups, color_bands>>
    BY <1>0, <2>1, <2>2, GatherType
  <2>4. i' < number_of_groups => color_group_index' < i'
    BY <1>0, <2>1, <2>3 DEF last, BandsTypeOK
  <2>5. QED
    BY <1>0, <2>1, <2>3, <2>4 DEF BandsInv, BandsTypeOK, CompactsBehind, Pixel
<1>8. CASE BeginErase
  BY <1>0, <1>8 DEF BeginErase, groups, BandsInv, BandsTypeOK, CompactsBehind
<1>9. CASE Erase
  <2>1. color_groups' \in [Pixel -> Color]
    BY <1>0, <1>9 DEF Erase, BandsTypeOK, Color
  <2>2. QED
    BY <1>0, <1>9, <2>1 DEF Erase, BandsInv, BandsTypeOK, CompactsBehind
<1>10. CASE BeginBands
  <2>1. 0 \in Pixel
    BY DEF Pixel
  <2>2. current_color' \in Color
    BY <1>0, <1>10, <2>1 DEF BeginBands, BandsTypeOK
  <2>3. QED
    BY <1>0, <1>10, <2>2 DEF BeginBands, groups, BandsInv, BandsTypeOK, CompactsBehind
<1>11. CASE Band
  <2> DEFINE ended == color_groups[i] # current_color
             last  == i = number_of_groups - 1
  <2>1. i \in Pixel /\ color_group_index < i /\ i < number_of_groups
    BY <1>0, <1>11 DEF Band, BandsTypeOK, CompactsBehind, Pixel
  <2>2. color_groups[i] \in Color /\ current_color \in Color
    BY <1>0, <2>1 DEF BandsTypeOK
  <2>3. color_bands' = Store(color_bands, current_color, color_groups[i], ended, last)
    BY <1>11 DEF Band
  <2>4. color_bands' \in [Pixel -> Color]
    BY <1>0, <2>2, <2>3, StoreType DEF BandsTypeOK
  <2>5. color_group_index' \in 0 .. i
    BY <1>0, <1>11, <2>1 DEF Band, Advance, BandsTypeOK
  <2>6. current_color' \in Color /\ i' = i + 1
    BY <1>11, <2>2 DEF Band
  <2>7. UNCHANGED <<color_line, step, number_of_groups, color_groups, size_of_groups,
                    current_group_size>> /\ step = "bands"
    BY <1>11 DEF Band, groups
  <2>8. QED
    BY <1>0, <2>1, <2>4, <2>5, <2>6, <2>7 DEF BandsInv, BandsTypeOK, CompactsBehind, Pixel
<1>12. CASE Return
  BY <1>0, <1>12 DEF Return, groups, BandsInv, BandsTypeOK, CompactsBehind
<1>13. CASE UNCHANGED bvars
  BY <1>0, <1>13 DEF bvars, groups, BandsInv, BandsTypeOK, CompactsBehind
<1>14. QED
  BY <1>1, <1>2, <1>3, <1>4, <1>5, <1>6, <1>7, <1>8, <1>9, <1>10, <1>11, <1>12, <1>13
  DEF BandsNext

(* BandsInv is inductive.                                                  *)
THEOREM BandsInvariant == BandsSpec => []BandsInv
  BY BandsInitInv, BandsStepInv, PTL DEF BandsSpec

(* No loop of extract_color_bands overwrites a group it has still to read, *)
(* and all indices of its arrays stay inside them.                         *)
THEOREM GroupsCompactBehind == BandsSpec => []CompactsBehind
<1>1. BandsInv => CompactsBehind
  BY DEF BandsInv
<1>2. QED
  BY <1>1, BandsInvariant, PTL
=============================================================================

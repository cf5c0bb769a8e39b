------------------------- MODULE NotePlaybackProofs --------------------------
(* The tempo of a dance, for every range of systime_t, every song whose    *)
(* notes fit in it, and whenever and however long ManageStates holds the   *)
(* core, as long as the clock does not turn once in a single note.         *)
EXTENDS NotePlayback, TLAPS

(* Adding ticks to a system time, and the ticks between two of them.       *)
LEMMA TimeArithmetic ==
  ASSUME NEW t \in SysTime, NEW d \in SysTime
  PROVE  /\ Plus(t, d) \in SysTime /\ Minus(t, d) \in SysTime
         /\ Minus(Plus(t, d), t) = d
BY RangeAssumption DEF Plus, Minus, SysTime

LEMMA PlusPlus ==
  ASSUME NEW t \in SysTime, NEW d \in Nat, NEW e \in Nat, d + e < Range
  PROVE  Plus(Plus(t, d), e) = Plus(t, d + e)
BY RangeAssumption DEF Plus, SysTime

(* The rest of an interval, once a part of it is over.                     *)
LEMMA MinusPlus ==
  ASSUME NEW t \in SysTime, NEW d \in Nat, NEW e \in Nat, e <= d, d < Range
  PROVE  Minus(Plus(t, d), Plus(t, e)) = d - e
BY RangeAssumption DEF Plus, Minus, SysTime

(* Every note, and the time Dance is held, fits in the range of the clock. *)
LEMMA NoteInRange ==
  ASSUME PlaybackTypeOK, place # "over"
  PROVE  /\ position \in Position
         /\ rythm[position] \in Nat /\ rythm[position] + MaxHeld < Range
         /\ note_offset \in Nat /\ note_offset < Range /\ MaxHeld \in Nat /\ Range \in Nat
<1>1. position \in Position
  BY PlaybackAssumption DEF PlaybackTypeOK, Position
<1>2. rythm \in Rythms /\ rythm \in [Position -> Nat]
  BY PlaybackAssumption DEF PlaybackTypeOK
<1>3. QED
  BY <1>1, <1>2, PlaybackAssumption, RangeAssumption

LEMMA PlaybackInitInv == PlaybackInit => PlaybackInv
BY PlaybackAssumption, RangeAssumption
DEF PlaybackInit, PlaybackInv, PlaybackTypeOK, TempoKept, NeverOversleeps, SysTime

LEMMA PlaybackStepInv ==
  ASSUME PlaybackInv, PlaybackNext
  PROVE  PlaybackInv'
<1>1. CASE place = "over"
  BY <1>1 DEF PlaybackNext, BeginNote, TestRythm, SleepUntilWindowed, Wake, Detach, NextNote,
     Hold, Pause, Rest, PlaybackInv, PlaybackTypeOK, TempoKept, NeverOversleeps, Spent, pvars,
     history
<1>2. CASE place # "over"
  <2> DEFINE note == rythm[position] - note_offset
  <2>1. /\ position \in Position /\ position < MUSIC_SIZE /\ MUSIC_SIZE \in Nat
        /\ rythm[position] \in Nat /\ rythm[position] + MaxHeld < Range
        /\ note_offset \in Nat /\ note_offset < Range /\ MaxHeld \in Nat /\ Range \in Nat
        /\ IDLE \in Nat /\ Holds \subseteq Nat
    BY <1>2, NoteInRange, PlaybackAssumption DEF PlaybackInv, PlaybackTypeOK
  <2>2. /\ now \in SysTime /\ time \in SysTime /\ until \in SysTime
        /\ score \in Nat /\ elapsed \in Nat /\ lag \in Nat /\ held \in Nat
        /\ held + lag <= MaxHeld
    BY DEF PlaybackInv, PlaybackTypeOK
  <2> USE <1>2, <2>1, <2>2 DEF PlaybackInv, PlaybackTypeOK, TempoKept, NeverOversleeps, Spent,
                               history
  <2>3. CASE BeginNote
    BY <2>3 DEF BeginNote, Plus, SysTime
  <2>4. CASE TestRythm
    <3>1. note \in SysTime => Plus(time, note) \in SysTime
      BY TimeArithmetic
    <3>2. /\ place = "rythm" /\ UNCHANGED <<now, rythm, position, time, score, elapsed, lag, held>>
          /\ IF rythm[position] > note_offset
             THEN place' = "window" /\ until' = Plus(time, note)
             ELSE place' = "next" /\ until' = until
      BY <2>4 DEF TestRythm
    <3>3. rythm[position] > note_offset => note \in SysTime
      BY DEF SysTime
    <3>4. PlaybackTypeOK'
      BY <3>1, <3>2, <3>3
    <3>5. QED
      BY <3>2, <3>4
  <2>5. CASE SleepUntilWindowed
    <3>1. /\ place = "window" /\ lag' = 0
          /\ UNCHANGED <<now, rythm, position, time, until, score, elapsed>>
          /\ IF Within(now, time, until) THEN place' = "note_sleep" /\ held' = held
                                         ELSE place' = "detach" /\ held' = held + lag
      BY <2>5 DEF SleepUntilWindowed
    <3>2. now = Plus(time, lag) /\ until = Plus(time, note) /\ note \in Nat /\ note < Range
          /\ lag < Range /\ lag \in SysTime /\ note \in SysTime
      BY <3>1 DEF SysTime
    <3>3. Within(now, time, until) <=> lag < note
      BY <3>2, TimeArithmetic DEF Within
    <3>4. lag < note => Minus(until, now) = note - lag
      BY <3>2, MinusPlus
    <3>5. CASE lag < note
      BY <3>1, <3>2, <3>3, <3>4, <3>5
    <3>6. CASE lag >= note
      BY <3>1, <3>2, <3>3, <3>6
    <3>7. QED
      BY <3>2, <3>5, <3>6
  <2>6. CASE Wake
    <3>1. /\ place = "note_sleep" /\ place' = "detach" /\ now' = until
          /\ elapsed' = elapsed + Minus(until, now)
          /\ UNCHANGED <<rythm, position, time, until, score, lag, held>>
      BY <2>6 DEF Wake
    <3>2. Minus(until, now) \in Nat /\ note \in Nat
      BY <3>1, RangeAssumption DEF Minus, SysTime
    <3>3. QED
      BY <3>1, <3>2
  <2>7. CASE Detach
    <3>1. /\ place = "detach" /\ place' = "next" /\ now' = Plus(now, note_offset)
          /\ elapsed' = elapsed + note_offset
          /\ UNCHANGED <<rythm, position, time, until, score, lag, held>>
      BY <2>7 DEF Detach
    <3>2. now' \in SysTime
      BY <3>1, TimeArithmetic DEF SysTime
    <3>3. QED
      BY <3>1, <3>2
  <2>8. CASE NextNote
    BY <2>8 DEF NextNote, Position
  <2>9. ASSUME NEW d \in Holds, Hold(d)
        PROVE  PlaybackInv'
    <3>1. d \in Nat /\ d < Range /\ held + lag + d <= MaxHeld
      BY <2>9 DEF Hold
    <3>2. now' = Plus(now, d) /\ now' \in SysTime
      BY <2>9, <3>1, TimeArithmetic DEF Hold, SysTime
    <3>3. now = Plus(time, lag) => now' = Plus(time, lag + d)
      BY <3>1, <3>2, PlusPlus
    <3>4. place # "note_sleep" /\ elapsed' = elapsed + d
          /\ UNCHANGED <<rythm, place, position, time, until, score>>
          /\ IF place \in {"rythm", "window"} THEN lag' = lag + d /\ held' = held
                                              ELSE held' = held + d /\ lag' = lag
      BY <2>9 DEF Hold
    <3>5. CASE place \in {"rythm", "window"}
      BY <3>1, <3>2, <3>3, <3>4, <3>5
    <3>6. CASE place \notin {"rythm", "window"}
      <4>1. PlaybackTypeOK'
        BY <3>1, <3>2, <3>4, <3>6
      <4>2. CASE place = "next"
        BY <3>1, <3>4, <4>1, <4>2
      <4>3. CASE place = "test"
        BY <3>1, <3>4, <4>1, <4>3
      <4>4. CASE place = "detach"
        BY <3>1, <3>4, <4>1, <4>4
      <4>5. QED
        BY <3>4, <3>6, <4>2, <4>3, <4>4
    <3>7. QED
      BY <3>5, <3>6
  <2>10. CASE Pause
    <3>1. /\ place = "test" /\ held + IDLE <= MaxHeld
          /\ now' = Plus(now, IDLE) /\ elapsed' = elapsed + IDLE /\ held' = held + IDLE
          /\ UNCHANGED <<rythm, place, position, time, until, score, lag>>
      BY <2>10 DEF Pause
    <3>2. IDLE \in SysTime
      BY <3>1 DEF SysTime
    <3>3. now' \in SysTime
      BY <3>1, <3>2, TimeArithmetic
    <3>4. QED
      BY <3>1, <3>3
  <2>11. QED
    BY <2>3, <2>4, <2>5, <2>6, <2>7, <2>8, <2>9, <2>10 DEF PlaybackNext, Rest
<1>3. QED
  BY <1>1, <1>2

(* PlaybackInv is inductive. *)
THEOREM PlaybackInvariant == PlaybackSpec => []PlaybackInv
<1>1. ASSUME PlaybackInv, UNCHANGED pvars
      PROVE  PlaybackInv'
  BY <1>1 DEF PlaybackInv, PlaybackTypeOK, TempoKept, NeverOversleeps, Spent, pvars, history
<1>2. PlaybackInv /\ [PlaybackNext]_pvars => PlaybackInv'
  BY <1>1, PlaybackStepInv
<1>3. QED
  BY <1>2, PlaybackInitInv, PTL DEF PlaybackSpec

(* Dance keeps the tempo, whenever it is held and the clock wraps around.  *)
THEOREM DanceKeepsTempo == PlaybackSpec => []TempoKept
<1>1. PlaybackInv => TempoKept
  BY DEF PlaybackInv
<1>2. QED
  BY <1>1, PlaybackInvariant, PTL

(* No deadline of a note lies behind the clock.                            *)
THEOREM DanceNeverOversleeps == PlaybackSpec => []NeverOversleeps
<1>1. PlaybackInv => NeverOversleeps
  BY DEF PlaybackInv
<1>2. QED
  BY <1>1, PlaybackInvariant, PTL
-----------------------------------------------------------------------------
(* Integer division, and products with a factor that is not negative.      *)
LEMMA Quotient ==
  ASSUME NEW n \in Nat, NEW t \in Nat \ {0}
  PROVE  /\ n \div t \in Nat
         /\ (n \div t) * t <= n /\ n - t < (n \div t) * t
OBVIOUS

LEMMA ProductOrder ==
  ASSUME NEW d \in Nat \ {0}, NEW a \in Int, NEW b \in Int
  PROVE  (a <= b => d * a <= d * b) /\ (a < b => d * a < d * b)
OBVIOUS

LEMMA SumProduct ==
  ASSUME NEW a \in Int, NEW b \in Int, NEW c \in Int
  PROVE  (a + b) * c = a * c + b * c /\ a * c \in Int /\ b * c \in Int
OBVIOUS

(* What song.rythm[i] *= NOTE_TO_MS / tempo makes of a duration: less than *)
(* a millisecond per sixteenth is lost.                                    *)
LEMMA MillisecondsLost ==
  ASSUME NEW tempo \in 1 .. NOTE_TO_MS, NEW d \in Nat \ {0},
         d * (NOTE_TO_MS \div tempo) < 2^16
  PROVE  /\ Milliseconds(d, tempo) = d * (NOTE_TO_MS \div tempo)
         /\ Milliseconds(d, tempo) \in Nat
         /\ Milliseconds(d, tempo) * tempo <= d * NOTE_TO_MS
         /\ d * (NOTE_TO_MS - tempo) < Milliseconds(d, tempo) * tempo
<1>1. NOTE_TO_MS \in Nat /\ tempo \in Nat \ {0} /\ NOTE_TO_MS - tempo \in Int
  BY DEF NOTE_TO_MS
<1>2. PICK q \in Nat : /\ q = NOTE_TO_MS \div tempo
                       /\ q * tempo <= NOTE_TO_MS /\ NOTE_TO_MS - tempo < q * tempo
  BY <1>1, Quotient
<1>3. d * q \in Nat /\ 2^16 = 65536
  BY <1>2
<1>4. Milliseconds(d, tempo) = d * q
  BY <1>2, <1>3 DEF Milliseconds
<1>5. (d * q) * tempo = d * (q * tempo) /\ q * tempo \in Int
  BY <1>1, <1>2
<1>6. d * (q * tempo) <= d * NOTE_TO_MS /\ d * (NOTE_TO_MS - tempo) < d * (q * tempo)
  BY <1>1, <1>2, <1>5, ProductOrder
<1>7. QED
  BY <1>2, <1>3, <1>4, <1>5, <1>6

(* The array of a song: its notes, and then zeros.                         *)
LEMMA RythmOfSong ==
  ASSUME NEW w, IsSong(w), NEW p \in Position
  PROVE  LET r == Music(w).rythm[p]
             d == w.durations[p + 1]
         IN  IF p < Len(w.durations)
             THEN /\ d \in Nat /\ r \in Nat /\ r > note_offset
                  /\ r * w.tempo <= d * NOTE_TO_MS
                  /\ d * (NOTE_TO_MS - w.tempo) < r * w.tempo
             ELSE r = 0
<1>1. /\ w.durations \in Seq(Nat \ {0}) /\ Len(w.durations) \in Nat
      /\ w.tempo \in 1 .. NOTE_TO_MS /\ p \in Nat
  BY PlaybackAssumption DEF IsSong, Position
<1>2. Music(w).rythm[p] = IF p \in 0 .. Len(w.durations) - 1
                          THEN Milliseconds(w.durations[p + 1], w.tempo) ELSE 0
  BY DEF Music, Position
<1>3. CASE p < Len(w.durations)
  <2>1. p + 1 \in 1 .. Len(w.durations) /\ p \in 0 .. Len(w.durations) - 1
    BY <1>1, <1>3
  <2>2. PICK d \in Nat \ {0} : d = w.durations[p + 1]
    BY <1>1, <2>1
  <2>3. note_offset < d * (NOTE_TO_MS \div w.tempo) /\ d * (NOTE_TO_MS \div w.tempo) < 2^16
    BY <2>1, <2>2 DEF IsSong
  <2>4. Music(w).rythm[p] = Milliseconds(d, w.tempo)
    BY <1>2, <2>1, <2>2
  <2>5. /\ Milliseconds(d, w.tempo) = d * (NOTE_TO_MS \div w.tempo)
        /\ Milliseconds(d, w.tempo) \in Nat
        /\ Milliseconds(d, w.tempo) * w.tempo <= d * NOTE_TO_MS
        /\ d * (NOTE_TO_MS - w.tempo) < Milliseconds(d, w.tempo) * w.tempo
    BY <1>1, <2>3, MillisecondsLost
  <2>6. Milliseconds(d, w.tempo) > note_offset
    BY <2>3, <2>5, PlaybackAssumption
  <2>7. QED
    BY <1>3, <2>2, <2>4, <2>5, <2>6
<1>4. CASE ~(p < Len(w.durations))
  BY <1>1, <1>2, <1>4
<1>5. QED
  BY <1>3, <1>4

(* The score of a song so far is what its notes so far are written for.    *)
Scored(w, sum) ==
  rythm = Music(w).rythm =>
    /\ place = "over" => position = MUSIC_SIZE
    /\ position = 0 => score = 0
    /\ position # 0 => sum[position] * (NOTE_TO_MS - w.tempo) < score * w.tempo
    /\ score * w.tempo <= sum[position] * NOTE_TO_MS

(* One more note: the place of NextNote in the invariant.                  *)
LEMMA NextNoteScored ==
  ASSUME NEW w, IsSong(w), NEW sum, Sums(w, sum),
         PlaybackTypeOK, Scored(w, sum), NextNote, rythm = Music(w).rythm
  PROVE  Scored(w, sum)'
<1>1. /\ position \in Position /\ score \in Nat /\ note_offset \in Nat
      /\ rythm' = rythm /\ position' = position + 1
      /\ score' = score + (IF rythm[position] > note_offset THEN rythm[position] ELSE 0)
      /\ place' = IF position + 1 >= MUSIC_SIZE THEN "over" ELSE "test"
  BY NoteInRange, PlaybackAssumption DEF NextNote, PlaybackTypeOK
<1>2. PICK t \in Nat, l \in Nat, c \in Int :
        t = w.tempo /\ l = Len(w.durations) /\ l > 0 /\ c = NOTE_TO_MS - t
  <2>1. w.tempo \in 1 .. NOTE_TO_MS /\ Len(w.durations) \in 1 .. MUSIC_SIZE
    BY DEF IsSong
  <2>2. w.tempo \in Nat /\ Len(w.durations) \in Nat /\ Len(w.durations) > 0
        /\ NOTE_TO_MS - w.tempo \in Int
    <3>1. \A x \in 1 .. NOTE_TO_MS : x \in Nat /\ NOTE_TO_MS - x \in Int
      BY DEF NOTE_TO_MS
    <3>2. \A x \in 1 .. MUSIC_SIZE : x \in Nat /\ x > 0
      OBVIOUS
    <3>3. QED
      BY <2>1, <3>1, <3>2
  <2>3. QED
    BY <2>2
<1>3. PICK p \in Nat, a \in Nat, b \in Nat, s \in Nat, N \in Nat :
        /\ p = position /\ a = sum[p] /\ b = sum[p + 1] /\ s = score /\ N = NOTE_TO_MS
        /\ p < MUSIC_SIZE
  <2>1. position \in 0 .. MUSIC_SIZE /\ position + 1 \in 0 .. MUSIC_SIZE
        /\ position < MUSIC_SIZE
    BY <1>1, PlaybackAssumption DEF Position
  <2>2. sum[position] \in Nat /\ sum[position + 1] \in Nat
    BY <2>1 DEF Sums
  <2>3. NOTE_TO_MS \in Nat /\ position \in Nat
    BY <2>1 DEF NOTE_TO_MS
  <2>4. QED
    BY <1>1, <2>1, <2>2, <2>3
<1>4. /\ p = 0 => s = 0 /\ a = 0
      /\ p # 0 => a * c < s * t
      /\ s * t <= a * N
  BY <1>2, <1>3 DEF Scored, Sums
<1>5. (p + 1 < MUSIC_SIZE \/ p + 1 = MUSIC_SIZE) /\ p + 1 # 0
  BY <1>3, PlaybackAssumption
<1>6. \E z \in Nat : /\ z = score' /\ b * c < z * t /\ z * t <= b * N
  <2>1. CASE p < l
    <3>1. PICK d \in Nat, r \in Nat :
            /\ d = w.durations[p + 1] /\ r = Music(w).rythm[p] /\ r > note_offset
            /\ r * t <= d * N /\ d * c < r * t
      BY <1>1, <1>2, <1>3, <2>1, RythmOfSong
    <3>2. b = a + d
      BY <1>1, <1>2, <1>3, <2>1, <3>1 DEF Sums
    <3>3. score' = s + r
      BY <1>1, <1>3, <3>1
    <3>4. a * c <= s * t
      BY <1>4
    <3>5. /\ (a + d) * c = a * c + d * c /\ (a + d) * N = a * N + d * N
          /\ (s + r) * t = s * t + r * t
          /\ a * c \in Int /\ d * c \in Int /\ a * N \in Int /\ d * N \in Int
          /\ s * t \in Int /\ r * t \in Int
      BY SumProduct
    <3>6. b * c < (s + r) * t /\ (s + r) * t <= b * N
      BY <1>4, <3>1, <3>2, <3>4, <3>5
    <3>7. s + r \in Nat
      OBVIOUS
    <3>8. QED
      BY <3>3, <3>6, <3>7
  <2>2. CASE ~(p < l)
    <3>1. p # 0
      BY <1>2, <2>2
    <3>2. rythm[position] = 0
      BY <1>1, <1>2, <1>3, <2>2, RythmOfSong
    <3>3. score' = s /\ b = a
      BY <1>1, <1>2, <1>3, <2>2, <3>2 DEF Sums
    <3>4. QED
      BY <1>4, <3>1, <3>3
  <2>3. QED
    BY <2>1, <2>2
<1>7. position' = p + 1 /\ position' # 0 /\ (place' = "over" => position' = MUSIC_SIZE)
  BY <1>1, <1>3, <1>5, PlaybackAssumption
<1>8. sum[position'] = b /\ w.tempo = t /\ NOTE_TO_MS - w.tempo = c /\ NOTE_TO_MS = N
  BY <1>2, <1>3, <1>7
<1>9. QED
  BY <1>6, <1>7, <1>8 DEF Scored

(* Before the first note nothing is played.                                *)
LEMMA InitScored ==
  ASSUME NEW w, IsSong(w), NEW sum, Sums(w, sum), PlaybackInit
  PROVE  Scored(w, sum)
<1>1. position = 0 /\ score = 0 /\ place = "test" /\ sum[0] = 0
  BY DEF PlaybackInit, Sums
<1>2. w.tempo \in 1 .. NOTE_TO_MS
  BY DEF IsSong
<1>3. NOTE_TO_MS \in Int /\ \A x \in 1 .. NOTE_TO_MS : x \in Int
  BY DEF NOTE_TO_MS
<1>4. w.tempo \in Int
  BY <1>2, <1>3
<1>5. QED
  BY <1>1, <1>3, <1>4 DEF Scored

(* No other step plays a note, or is the end of the song.                  *)
LEMMA StepScored ==
  ASSUME NEW w, IsSong(w), NEW sum, Sums(w, sum),
         PlaybackInv, Scored(w, sum), [PlaybackNext]_pvars
  PROVE  Scored(w, sum)'
<1>1. CASE NextNote
  <2>1. rythm' = rythm /\ PlaybackTypeOK
    BY <1>1 DEF NextNote, PlaybackInv
  <2>2. CASE rythm = Music(w).rythm
    BY <1>1, <2>1, <2>2, NextNoteScored
  <2>3. CASE rythm # Music(w).rythm
    BY <2>1, <2>3 DEF Scored
  <2>4. QED
    BY <2>2, <2>3
<1>2. CASE ~NextNote
  <2>1. UNCHANGED <<rythm, position, score>> /\ (place' = "over" => place = "over")
    BY <1>2 DEF PlaybackNext, BeginNote, TestRythm, SleepUntilWindowed, Wake, Detach,
                Hold, Pause, Rest, pvars, history
  <2>2. QED
    BY <2>1 DEF Scored
<1>3. QED
  BY <1>1, <1>2

(* At the end of the song that is the whole of it.                         *)
LEMMA ScoredInFull ==
  ASSUME NEW w, IsSong(w), NEW sum, Scored(w, sum), place = "over", rythm = Music(w).rythm
  PROVE  InFull(w, sum[MUSIC_SIZE])
<1>1. position = MUSIC_SIZE /\ position # 0
  BY PlaybackAssumption DEF Scored
<1>2. Len(w.durations) \in Nat /\ Len(w.durations) <= MUSIC_SIZE
  BY DEF IsSong
<1>3. 0 .. Len(w.durations) - 1 \subseteq Position
  BY <1>2, PlaybackAssumption DEF Position
<1>4. \A p \in Position : rythm[p] > note_offset <=> p < Len(w.durations)
  BY RythmOfSong, PlaybackAssumption
<1>5. \A p \in Position : p < Len(w.durations) <=> p \in 0 .. Len(w.durations) - 1
  BY <1>2 DEF Position
<1>6. {p \in Position : rythm[p] > note_offset} = 0 .. Len(w.durations) - 1
  BY <1>3, <1>4, <1>5
<1>7. QED
  BY <1>1, <1>6 DEF Scored, InFull

(* Every song that can be played is played in full, whenever Dance is held *)
(* and for every MUSIC_SIZE, note_offset and range of the clock.           *)
THEOREM DancePlaysInFull == PlaybackSpec => []PlayedInFull
<1> DEFINE AllScored == \A w \in Written : Scored(w, Sixteenths[w])
<1>1. PlaybackInit => AllScored
  BY InitScored, SongAssumption
<1>2. PlaybackInv /\ AllScored /\ [PlaybackNext]_pvars => AllScored'
  BY StepScored, SongAssumption
<1>3. AllScored => PlayedInFull
  BY ScoredInFull, SongAssumption DEF PlayedInFull
<1> HIDE DEF AllScored
<1>4. QED
  BY <1>1, <1>2, <1>3, PlaybackInvariant, PTL DEF PlaybackSpec
=============================================================================

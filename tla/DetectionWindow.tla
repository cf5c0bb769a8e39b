--------------------------- MODULE DetectionWindow ---------------------------
(***************************************************************************)
(* The clock of one flag detection: the loop of src/src/state.c that calls *)
(* get_flag until a flag is recognised or FLAG_DETECTION_DURATION ticks    *)
(* have passed.  systime_t is unsigned, so the system time and the         *)
(* deadline are taken modulo the size of its range, and the loop compares  *)
(* the two with <.                                                         *)
(***************************************************************************)
EXTENDS SystemTime

CONSTANTS
  FLAG_DETECTION_DURATION,
  MaxFrame,                 \* longest time one get_flag takes
  Patience                  \* bound: elapsed counts no further

ASSUME WindowAssumption ==
  /\ Range \in Nat /\ FLAG_DETECTION_DURATION \in Nat \ {0} /\ MaxFrame \in Nat \ {0}
  /\ FLAG_DETECTION_DURATION < Range /\ MaxFrame < Range
  /\ Patience \in Nat /\ Patience > FLAG_DETECTION_DURATION + MaxFrame

VARIABLES
  now,         \* chVTGetSystemTime()
  start_time,
  window,      \* "closed", "test", "capture" or "over"
  recognised,  \* country # UNDEFINED_FLAG
  elapsed      \* history: ticks since the detection began, up to Patience

wvars == <<now, start_time, window, recognised, elapsed>>

Count(t) == IF t < Patience THEN t ELSE Patience

deadline == Plus(start_time, FLAG_DETECTION_DURATION)

-----------------------------------------------------------------------------
(* Outside a detection the clock ticks. *)
Tick ==
  /\ window \in {"closed", "over"}
  /\ now' = Plus(now, 1)
  /\ window' = "closed"
  /\ UNCHANGED <<start_time, recognised, elapsed>>

(* Mutant: start_time is static, and set before the first detection only. *)
BeginWindowOnce ==
  /\ window = "closed"
  /\ recognised' = FALSE
  /\ elapsed' = 0
  /\ window' = "test"
  /\ UNCHANGED <<now, start_time>>

BeginWindow ==
  /\ window = "closed"
  /\ start_time' = now
  /\ recognised' = FALSE
  /\ elapsed' = 0
  /\ window' = "test"
  /\ UNCHANGED now

(* Mutant: the last tick is included. *)
TestWindowInclusive ==
  /\ window = "test"
  /\ window' = IF now <= deadline /\ ~recognised THEN "capture" ELSE "over"
  /\ UNCHANGED <<now, start_time, recognised, elapsed>>

(* The condition of the loop, `(now < deadline) & (country == UNDEFINED)`. *)
TestWindow ==
  /\ window = "test"
  /\ window' = IF now < deadline /\ ~recognised THEN "capture" ELSE "over"
  /\ UNCHANGED <<now, start_time, recognised, elapsed>>

(* get_flag: waits for an image, then analyses it. *)
Frame ==
  /\ window = "capture"
  /\ \E d \in 1 .. MaxFrame : now' = Plus(now, d) /\ elapsed' = Count(elapsed + d)
  /\ recognised' \in BOOLEAN
  /\ window' = "test"
  /\ UNCHANGED start_time

WindowInit ==
  /\ now \in 0 .. Range - 1
  /\ start_time = 0
  /\ window = "closed"
  /\ recognised = FALSE
  /\ elapsed = 0

WindowNext == Tick \/ BeginWindow \/ TestWindow \/ Frame

WindowSpec == WindowInit /\ [][WindowNext]_wvars

-----------------------------------------------------------------------------
WindowTypeOK ==
  /\ now \in 0 .. Range - 1
  /\ start_time \in 0 .. Range - 1
  /\ window \in {"closed", "test", "capture", "over"}
  /\ recognised \in BOOLEAN
  /\ elapsed \in 0 .. Patience

(* The clock does not wrap around during the detection. *)
FarFromWrap == start_time + FLAG_DETECTION_DURATION + MaxFrame <= Range

(* A detection that begins far from the wrap-around lasts at most the ten  *)
(* seconds and the image it is waiting for, and gives up no earlier.       *)
WindowKept ==
  FarFromWrap =>
    /\ elapsed < FLAG_DETECTION_DURATION + MaxFrame
    /\ window = "over" /\ ~recognised => elapsed >= FLAG_DETECTION_DURATION

(* WindowKept made inductive: during the detection the clock is ahead of   *)
(* start_time by what has elapsed, and get_flag is only called in time.    *)
WindowInv ==
  /\ WindowTypeOK
  /\ WindowKept
  /\ FarFromWrap /\ window \in {"test", "capture"} => now = start_time + elapsed
  /\ FarFromWrap /\ window = "capture" => elapsed < FLAG_DETECTION_DURATION

-----------------------------------------------------------------------------
(* The same promise without the restriction, as the report makes it:       *)
(* get_flag runs "en boucle [...] pendant au maximum 10 secondes"          *)
(* (docs/rapport/rapport.tex:110).  Near the wrap-around it fails, and so  *)
(* does the other half of WindowKept: a deadline that wraps around is over *)
(* at once.                                                                *)
AtMostTenSeconds == elapsed < FLAG_DETECTION_DURATION + MaxFrame
=============================================================================

------------------------ MODULE DetectionWindowProofs ------------------------
(* The window of a detection, for every range of systime_t, every duration *)
(* and every time an image takes.                                          *)
EXTENDS DetectionWindow, TLAPS

(* The system time stays in the range of systime_t. *)
LEMMA PlusType ==
  ASSUME NEW t \in 0 .. Range - 1, NEW d \in 0 .. Range - 1
  PROVE  Plus(t, d) \in 0 .. Range - 1
BY WindowAssumption DEF Plus

LEMMA WindowInitInv == WindowInit => WindowInv
<1> SUFFICES ASSUME WindowInit PROVE WindowInv
  OBVIOUS
<1>1. recognised \in BOOLEAN /\ window = "closed" /\ elapsed = 0
  BY DEF WindowInit
<1>2. now \in 0 .. Range - 1 /\ start_time \in 0 .. Range - 1
  BY WindowAssumption DEF WindowInit
<1>3. QED
  BY <1>1, <1>2, WindowAssumption DEF WindowInv, WindowTypeOK, WindowKept

LEMMA WindowStepInv ==
  ASSUME WindowInv, WindowNext
  PROVE  WindowInv'
<1> USE WindowAssumption
<1> USE DEF WindowInv, WindowTypeOK, WindowKept, FarFromWrap
<1>1. CASE Tick
  <2>1. now' \in 0 .. Range - 1
    BY <1>1, PlusType DEF Tick
  <2>2. QED
    BY <1>1, <2>1 DEF Tick
<1>2. CASE BeginWindow
  <2>1. recognised' \in BOOLEAN /\ window' = "test"
    BY <1>2 DEF BeginWindow
  <2>2. start_time' = now /\ now' = now /\ elapsed' = 0
    BY <1>2 DEF BeginWindow
  <2>3. QED
    BY <2>1, <2>2
<1>3. CASE TestWindow
  BY <1>3 DEF TestWindow, deadline, Plus
<1>4. CASE Frame
  <2>1. PICK d \in 1 .. MaxFrame : now' = Plus(now, d) /\ elapsed' = Count(elapsed + d)
    BY <1>4 DEF Frame
  <2>2. WindowTypeOK'
    BY <1>4, <2>1, PlusType DEF Frame, Count
  <2>3. ASSUME FarFromWrap
        PROVE  /\ now' = start_time + elapsed'
               /\ elapsed' < FLAG_DETECTION_DURATION + MaxFrame
    BY <1>4, <2>1, <2>3 DEF Frame, Plus, Count
  <2>4. QED
    BY <1>4, <2>2, <2>3 DEF Frame
<1>5. QED
  BY <1>1, <1>2, <1>3, <1>4 DEF WindowNext

(* WindowInv is inductive. *)
THEOREM WindowInvariant == WindowSpec => []WindowInv
<1>1. ASSUME WindowInv, UNCHANGED wvars
      PROVE  WindowInv'
  BY <1>1 DEF WindowInv, WindowTypeOK, WindowKept, FarFromWrap, wvars
<1>2. WindowInv /\ [WindowNext]_wvars => WindowInv'
  BY <1>1, WindowStepInv
<1>3. QED
  BY <1>2, WindowInitInv, PTL DEF WindowSpec

(* A detection that begins far from the wrap-around of the clock lasts the *)
(* ten seconds and at most one image more.                                 *)
THEOREM DetectionKeepsItsWindow == WindowSpec => []WindowKept
<1>1. WindowInv => WindowKept
  BY DEF WindowInv
<1>2. QED
  BY <1>1, WindowInvariant, PTL
=============================================================================

------------------------- MODULE ObstacleScanProofs --------------------------
(* The scan of the proximity sensors, for every number of sensors, every   *)
(* threshold and every set of readings.                                    *)
EXTENDS ObstacleScan, TLAPS

(* What panic asks of the wheels. *)
LEMMA StoppedType == Poll!Stopped \in Poll!Wheels
<1>1. 0 \in Poll!Speed
  BY DEF Poll!Speed
<1>2. QED
  BY <1>1 DEF Poll!Stopped, Poll!Wheels

(* Before the first scan nothing is known of the sensors. *)
LEMMA ScanInitInv == ScanInit => ScanInv
<1> SUFFICES ASSUME ScanInit PROVE ScanInv
  OBVIOUS
<1>1. ScanTypeOK
  <2>1. 0 \in 0 .. Sensors /\ Near(calibrated_prox) \subseteq Sensor
    BY ScanAssumption DEF Near
  <2>2. calibrated_prox \in [Sensor -> Proximity] /\ motor \in Poll!Wheels
    BY StoppedType DEF ScanInit
  <2>3. i \in 0 .. Sensors /\ max_proximity \in Int
    BY <2>1 DEF ScanInit
  <2>4. leds \in BOOLEAN /\ sound \in BOOLEAN
    BY DEF ScanInit
  <2>5. near_throughout \subseteq Sensor /\ near_sometime \subseteq Sensor
    BY <2>1 DEF ScanInit
  <2>6. scan \in {"off", "read", "done"}
    BY DEF ScanInit
  <2>7. QED
    BY <2>2, <2>3, <2>4, <2>5, <2>6 DEF ScanTypeOK
<1>2. QED
  BY <1>1 DEF ScanInit, ScanInv, ObstacleSeen, NoFalseAlarm, Near

(* What the end of the scan does to LEDs and wheels. *)
LEMMA DecideEffect ==
  ASSUME ScanTypeOK, Decide
  PROVE  /\ max_proximity > OBSTACLE_THRESHOLD => leds' = TRUE /\ motor' = Poll!Stopped
         /\ ~(max_proximity > OBSTACLE_THRESHOLD) => leds' = FALSE /\ motor' = motor
<1>1. PICK result \in BOOLEAN : Poll!obstacle_detected(result)
  BY DEF Decide
<1>2. result = (max_proximity > OBSTACLE_THRESHOLD)
  BY <1>1 DEF Poll!obstacle_detected
<1>3. IF result THEN Poll!panic ELSE Poll!unpanic
  BY <1>1 DEF Poll!obstacle_detected
<1>4. CASE result
  BY <1>2, <1>3, <1>4 DEF Poll!panic
<1>5. CASE ~result
  BY <1>2, <1>3, <1>5 DEF Poll!unpanic
<1>6. QED
  BY <1>4, <1>5

(* Every step of a scan, and everything that happens around it. *)
LEMMA ScanStepInv == ScanInv /\ [ScanNext]_svars => ScanInv'
<1> SUFFICES ASSUME ScanInv, [ScanNext]_svars PROVE ScanInv'
  OBVIOUS
<1> USE ScanAssumption
<1>1. CASE Move
  <2>1. PICK s \in Sensor, p \in Proximity :
          calibrated_prox' = [calibrated_prox EXCEPT ![s] = p]
    BY <1>1 DEF Move
  <2>2. calibrated_prox' \in [Sensor -> Proximity]
    BY <2>1 DEF ScanInv, ScanTypeOK
  <2>3. /\ near_throughout' = near_throughout \cap Near(calibrated_prox')
        /\ near_sometime' = near_sometime \cup Near(calibrated_prox')
        /\ UNCHANGED <<scan, i, max_proximity, leds, motor, sound>>
    BY <1>1 DEF Move
  <2>4. Near(calibrated_prox') \subseteq Sensor
    BY DEF Near
  <2>5. ScanTypeOK'
    BY <2>2, <2>3, <2>4 DEF ScanInv, ScanTypeOK
  <2>6. Near(calibrated_prox)' = Near(calibrated_prox')
    BY DEF Near, Sensor
  <2>7. QED
    BY <2>3, <2>5, <2>6 DEF ScanInv, ScanTypeOK, ObstacleSeen, NoFalseAlarm
<1>2. CASE DanceMoves
  <2>1. ScanTypeOK'
    BY <1>2 DEF DanceMoves, history, ScanInv, ScanTypeOK
  <2>2. QED
    BY <1>2, <2>1 DEF DanceMoves, history, ScanInv, ObstacleSeen, NoFalseAlarm, Near
<1>3. CASE BeginScan
  <2>1. Near(calibrated_prox) \subseteq Sensor
    BY DEF Near
  <2>2. ScanTypeOK'
    BY <1>3, <2>1 DEF BeginScan, ScanInv, ScanTypeOK
  <2>3. QED
    BY <1>3, <2>1, <2>2 DEF BeginScan, ScanInv, ObstacleSeen, NoFalseAlarm, Near, Sensor
<1>4. CASE ReadSensor
  <2>1. i \in Sensor /\ i' = i + 1 /\ scan = "read"
    BY <1>4 DEF ReadSensor, ScanInv, ScanTypeOK, Sensor
  <2>2. calibrated_prox[i] \in Int
    BY <2>1 DEF ScanInv, ScanTypeOK
  <2>3. /\ max_proximity' = IF calibrated_prox[i] > max_proximity
                            THEN calibrated_prox[i] ELSE max_proximity
        /\ UNCHANGED <<calibrated_prox, scan, leds, motor, sound, near_throughout, near_sometime>>
    BY <1>4 DEF ReadSensor, history
  <2>4. ScanTypeOK'
    BY <2>1, <2>2, <2>3 DEF ScanInv, ScanTypeOK, Sensor
  <2>5. max_proximity' >= max_proximity /\ max_proximity' >= calibrated_prox[i]
    BY <2>2, <2>3 DEF ScanInv, ScanTypeOK
  <2>6. \A s \in near_throughout : s < i' => max_proximity' > OBSTACLE_THRESHOLD
    <3> TAKE s \in near_throughout
    <3> HAVE s < i'
    <3>1. s \in Sensor /\ calibrated_prox[s] > OBSTACLE_THRESHOLD
      BY DEF ScanInv, Near
    <3>2. CASE s < i
      BY <2>1, <2>4, <2>5, <3>2 DEF ScanInv, ScanTypeOK
    <3>3. CASE s = i
      BY <2>2, <2>4, <2>5, <3>1, <3>3 DEF ScanTypeOK
    <3>4. QED
      BY <2>1, <3>1, <3>2, <3>3 DEF Sensor
  <2>7. ASSUME max_proximity' > OBSTACLE_THRESHOLD PROVE near_sometime # {}
    <3>1. CASE calibrated_prox[i] > max_proximity
      <4>1. i \in Near(calibrated_prox)
        BY <2>1, <2>3, <2>7, <3>1 DEF Near
      <4>2. QED
        BY <4>1 DEF ScanInv
    <3>2. CASE ~(calibrated_prox[i] > max_proximity)
      BY <2>1, <2>3, <2>7, <3>2 DEF ScanInv
    <3>3. QED
      BY <3>1, <3>2
  <2>8. Near(calibrated_prox)' = Near(calibrated_prox)
    BY <2>3 DEF Near
  <2>9. QED
    BY <2>1, <2>3, <2>4, <2>6, <2>7, <2>8 DEF ScanInv, ObstacleSeen, NoFalseAlarm
<1>5. CASE Decide
  <2>1. /\ scan = "read" /\ i = Sensors /\ scan' = "done"
        /\ UNCHANGED <<calibrated_prox, i, max_proximity, sound, near_throughout, near_sometime>>
    BY <1>5 DEF Decide, history
  <2>2. /\ max_proximity > OBSTACLE_THRESHOLD => leds' = TRUE /\ motor' = Poll!Stopped
        /\ ~(max_proximity > OBSTACLE_THRESHOLD) => leds' = FALSE /\ motor' = motor
    BY <1>5, DecideEffect DEF ScanInv
  <2>3. leds' \in BOOLEAN /\ motor' \in Poll!Wheels
    <3>1. CASE max_proximity > OBSTACLE_THRESHOLD
      BY <2>2, <3>1, StoppedType
    <3>2. CASE ~(max_proximity > OBSTACLE_THRESHOLD)
      BY <2>2, <3>2 DEF ScanInv, ScanTypeOK
    <3>3. QED
      BY <3>1, <3>2
  <2>4. ScanTypeOK'
    BY <2>1, <2>3 DEF ScanInv, ScanTypeOK
  <2>5. ObstacleSeen'
    <3>1. \A s \in near_throughout : s < i
      BY <2>1 DEF ScanInv, ScanTypeOK, Sensor
    <3>2. near_throughout # {} => max_proximity > OBSTACLE_THRESHOLD
      BY <2>1, <3>1 DEF ScanInv
    <3>3. QED
      BY <2>1, <2>2, <3>2 DEF ObstacleSeen, Poll!Stopped
  <2>6. NoFalseAlarm'
    BY <2>1, <2>2 DEF ScanInv, NoFalseAlarm
  <2>7. Near(calibrated_prox)' = Near(calibrated_prox)
    BY <2>1 DEF Near
  <2>8. QED
    BY <2>1, <2>4, <2>5, <2>6, <2>7 DEF ScanInv
<1>6. CASE Return
  <2>1. ScanTypeOK'
    BY <1>6 DEF Return, history, ScanInv, ScanTypeOK
  <2>2. QED
    BY <1>6, <2>1 DEF Return, history, ScanInv, ObstacleSeen, NoFalseAlarm, Near
<1>7. CASE UNCHANGED svars
  BY <1>7 DEF svars, history, ScanInv, ScanTypeOK, ObstacleSeen, NoFalseAlarm, Near
<1>8. QED
  BY <1>1, <1>2, <1>3, <1>4, <1>5, <1>6, <1>7 DEF ScanNext

(* Throughout a scan the maximum knows of the sensors already read. *)
THEOREM ScanInvariant == ScanSpec => []ScanInv
<1>1. ScanInit => ScanInv
  BY ScanInitInv
<1>2. ScanInv /\ [ScanNext]_svars => ScanInv'
  BY ScanStepInv
<1>3. QED
  BY <1>1, <1>2, PTL DEF ScanSpec

(* What stays before a sensor during the whole of obstacle_detected stops  *)
(* the robot and lights its LEDs.                                          *)
THEOREM ScanSeesObstacle == ScanSpec => []ObstacleSeen
<1>1. ScanInv => ObstacleSeen
  BY DEF ScanInv
<1>2. QED
  BY <1>1, ScanInvariant, PTL

(* With nothing near at any moment of obstacle_detected the LEDs are off.  *)
THEOREM ScanNoFalseAlarm == ScanSpec => []NoFalseAlarm
<1>1. ScanInv => NoFalseAlarm
  BY DEF ScanInv
<1>2. QED
  BY <1>1, ScanInvariant, PTL
=============================================================================

---------------------------- MODULE ObstacleScan -----------------------------
(***************************************************************************)
(* obstacle_detected of src/src/obstacle_detection.c, one sensor after the *)
(* other, while the surroundings of the robot go on moving.  JeanBot takes *)
(* the whole call for one step and asks for its result only: its input     *)
(* obstacle is what a scan sees, and this module says what that is.        *)
(***************************************************************************)
EXTENDS Integers

CONSTANTS
  Sensors,             \* number of proximity sensors
  OBSTACLE_THRESHOLD,
  Proximity            \* the calibrated readings, negative ones included

Sensor == 0 .. Sensors - 1

ASSUME ScanAssumption ==
  /\ Sensors \in Nat \ {0}
  /\ OBSTACLE_THRESHOLD \in Nat
  /\ Proximity \subseteq Int

VARIABLES
  calibrated_prox,  \* input: the reading of each sensor at this moment
  scan,             \* "off", "read" or "done"
  i,                \* the sensor to be read next
  max_proximity,
  leds, motor, sound,
  near_throughout,  \* history: sensors that were near since the scan began
  near_sometime     \* history: sensors that were near at some moment of it

history == <<near_throughout, near_sometime>>
svars   == <<calibrated_prox, scan, i, max_proximity, leds, motor, sound, history>>

(* The poll that JeanBot knows, its input being what this scan has found.  *)
Poll == INSTANCE ObstacleDetection WITH obstacle <- max_proximity > OBSTACLE_THRESHOLD

Near(prox) == {s \in Sensor : prox[s] > OBSTACLE_THRESHOLD}

-----------------------------------------------------------------------------
(* Something moves before one of the sensors. *)
Move ==
  /\ \E s \in Sensor, p \in Proximity :
       calibrated_prox' = [calibrated_prox EXCEPT ![s] = p]
  /\ near_throughout' = near_throughout \cap Near(calibrated_prox')
  /\ near_sometime' = near_sometime \cup Near(calibrated_prox')
  /\ UNCHANGED <<scan, i, max_proximity, leds, motor, sound>>

(* Between two scans Dance moves the wheels. *)
DanceMoves ==
  /\ scan = "off"
  /\ motor' \in {m \in Poll!Wheels : m # Poll!Stopped}
  /\ UNCHANGED <<calibrated_prox, scan, i, max_proximity, leds, sound, history>>

(* Mutant: the maximum is not reset between two scans. *)
BeginScanKeepingMaximum ==
  /\ scan = "off" /\ scan' = "read"
  /\ i' = 0
  /\ near_throughout' = Near(calibrated_prox)
  /\ near_sometime' = Near(calibrated_prox)
  /\ UNCHANGED <<calibrated_prox, max_proximity, leds, motor, sound>>

BeginScan ==
  /\ scan = "off" /\ scan' = "read"
  /\ i' = 0 /\ max_proximity' = 0
  /\ near_throughout' = Near(calibrated_prox)
  /\ near_sometime' = Near(calibrated_prox)
  /\ UNCHANGED <<calibrated_prox, leds, motor, sound>>

(* Mutant: the last sensor read decides. *)
ReadLastSensor ==
  /\ scan = "read" /\ i < Sensors
  /\ max_proximity' = calibrated_prox[i]
  /\ i' = i + 1
  /\ UNCHANGED <<calibrated_prox, scan, leds, motor, sound, history>>

(* One iteration of the loop. *)
ReadSensor ==
  /\ scan = "read" /\ i < Sensors
  /\ max_proximity' = IF calibrated_prox[i] > max_proximity
                      THEN calibrated_prox[i] ELSE max_proximity
  /\ i' = i + 1
  /\ UNCHANGED <<calibrated_prox, scan, leds, motor, sound, history>>

(* The test of the maximum, with panic or unpanic. *)
Decide ==
  /\ scan = "read" /\ i = Sensors /\ scan' = "done"
  /\ \E result \in BOOLEAN : Poll!obstacle_detected(result)
  /\ UNCHANGED <<calibrated_prox, i, max_proximity, sound, history>>

Return ==
  /\ scan = "done" /\ scan' = "off"
  /\ UNCHANGED <<calibrated_prox, i, max_proximity, leds, motor, sound, history>>

ScanInit ==
  /\ calibrated_prox \in [Sensor -> Proximity]
  /\ scan = "off" /\ i = 0 /\ max_proximity = 0
  /\ leds = FALSE /\ motor = Poll!Stopped /\ sound = FALSE
  /\ near_throughout = {} /\ near_sometime = Near(calibrated_prox)

ScanNext == Move \/ DanceMoves \/ BeginScan \/ ReadSensor \/ Decide \/ Return

ScanSpec == ScanInit /\ [][ScanNext]_svars

-----------------------------------------------------------------------------
ScanTypeOK ==
  /\ calibrated_prox \in [Sensor -> Proximity]
  /\ scan \in {"off", "read", "done"}
  /\ i \in 0 .. Sensors
  /\ max_proximity \in Int
  /\ leds \in BOOLEAN /\ motor \in Poll!Wheels /\ sound \in BOOLEAN
  /\ near_throughout \subseteq Sensor /\ near_sometime \subseteq Sensor

(* Whatever moves during the scan, what stays before one sensor is seen:   *)
(* the call returns with the wheels stopped and the LEDs lit.              *)
ObstacleSeen == scan = "done" /\ near_throughout # {} => leds /\ motor = Poll!Stopped

(* And with nothing near at any moment of the scan there is no alarm, nor  *)
(* one left over from the scan before.                                     *)
NoFalseAlarm == scan = "done" /\ near_sometime = {} => ~leds

(* Inductive: the maximum knows of the sensors already read.               *)
ScanInv ==
  /\ ScanTypeOK
  /\ ObstacleSeen
  /\ NoFalseAlarm
  /\ near_throughout \subseteq Near(calibrated_prox)
  /\ Near(calibrated_prox) \subseteq near_sometime
  /\ scan = "read" =>
       /\ \A s \in near_throughout : s < i => max_proximity > OBSTACLE_THRESHOLD
       /\ max_proximity > OBSTACLE_THRESHOLD => near_sometime # {}
=============================================================================

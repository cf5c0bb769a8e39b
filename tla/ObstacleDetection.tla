-------------------------- MODULE ObstacleDetection --------------------------
(***************************************************************************)
(* The poll of src/src/obstacle_detection.c as its caller sees it.  Here   *)
(* the readings of the eight sensors are one input, obstacle: whether the  *)
(* highest calibrated proximity exceeds OBSTACLE_THRESHOLD.                *)
(***************************************************************************)
EXTENDS Peripherals

VARIABLES
  obstacle,  \* input: something is nearer than the threshold
  leds       \* LED1, LED3, LED5, LED7 and the front LED, which switch together

(* Mutant: one wheel is forgotten. *)
panicOneWheel ==
  /\ leds' = TRUE
  /\ left_motor_set_speed(0)

panic ==
  /\ leds' = TRUE
  /\ motor' = Stopped

unpanic ==
  /\ leds' = FALSE
  /\ UNCHANGED motor

(* One call of obstacle_detected, returning result. *)
obstacle_detected(result) ==
  /\ result = obstacle
  /\ IF result THEN panic ELSE unpanic

ObstacleInit == obstacle \in BOOLEAN /\ leds = FALSE

ObstacleTypeOK == obstacle \in BOOLEAN /\ leds \in BOOLEAN
=============================================================================

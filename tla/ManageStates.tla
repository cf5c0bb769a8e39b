---------------------------- MODULE ManageStates -----------------------------
(***************************************************************************)
(* The thread ManageStates of src/src/state.c.  It runs above Dance, so    *)
(* between the points where it blocks Dance sees nothing of it; a step     *)
(* ends where the thread blocks or reads an input that may have changed    *)
(* since it was last read.                                                 *)
(*                                                                         *)
(* The clock is left out: the detection loop may find its ten seconds over *)
(* at any of its tests.  DetectionWindow models that test.                 *)
(***************************************************************************)
EXTENDS Dance, ObstacleDetection

CONSTANT Selector   \* the positions of the rotary selector

ASSUME SelectorAssumption == Selector # {}

VARIABLES
  manage,         \* where the thread ManageStates is
  country,        \* its static variable
  last_selector,  \* its local variable
  body_led,
  selector        \* input: the position of the selector

mvars == <<ROBOT_STATE, manage, country, last_selector, leds, body_led>>

inputs == <<selector, obstacle>>

(* The variables of Dance that ManageStates changes by calls only. *)
UNCHANGED_dance == UNCHANGED <<dance, regs>>

-----------------------------------------------------------------------------
(* int last_selector = get_selector(); *)
ReadSelector ==
  /\ manage = "start"
  /\ manage' = "poll"
  /\ last_selector' = selector
  /\ UNCHANGED <<actuators, song, last_note, ROBOT_STATE, country, leds, body_led>>

(* Mutant: the motors are only stopped on entering PAUSE. *)
PollBlockedOnce ==
  /\ manage = "poll"
  /\ obstacle
  /\ IF ROBOT_STATE = "PAUSE" THEN UNCHANGED <<motor, leds>> ELSE panic
  /\ ROBOT_STATE' = "PAUSE"
  /\ manage' = "sleep"
  /\ UNCHANGED <<sound, song, last_note, country, last_selector, body_led>>

PollBlocked ==
  /\ manage = "poll"
  /\ obstacle_detected(TRUE)
  /\ ROBOT_STATE' = "PAUSE"
  /\ manage' = "sleep"
  /\ UNCHANGED <<sound, song, last_note, country, last_selector, body_led>>

PollFree ==
  /\ manage = "poll"
  /\ obstacle_detected(FALSE)
  /\ ROBOT_STATE' = "WAIT"
  /\ manage' = "compare"
  /\ UNCHANGED <<sound, song, last_note, country, last_selector, body_led>>

(* get_selector() == last_selector: neither of the following ifs is taken. *)
NotTurned ==
  /\ manage = "compare"
  /\ selector = last_selector
  /\ manage' = "sleep"
  /\ UNCHANGED <<actuators, song, last_note, ROBOT_STATE, country, last_selector, leds, body_led>>

(* Mutant: the old dance is not stopped before the detection. *)
TurnedDancing ==
  /\ manage = "compare"
  /\ selector # last_selector
  /\ manage' = "turned"
  /\ UNCHANGED <<actuators, song, last_note, ROBOT_STATE, country, last_selector, leds, body_led>>

Turned ==
  /\ manage = "compare"
  /\ selector # last_selector
  /\ stop_dancing
  /\ manage' = "turned"
  /\ UNCHANGED <<ROBOT_STATE, country, last_selector, leds, body_led>>

(* The second read of the selector, and the start of the detection. *)
BeginDetection ==
  /\ manage = "turned"
  /\ last_selector' = selector
  /\ ROBOT_STATE' = "FLAG_DETECTION"
  /\ body_led' = TRUE
  /\ manage' = "detect"
  /\ UNCHANGED <<actuators, song, last_note, country, leds>>

(* get_flag up to wait_image_ready *)
Capture ==
  /\ manage = "detect"
  /\ country = UNDEFINED_FLAG
  /\ manage' = "capture"
  /\ UNCHANGED <<actuators, song, last_note, ROBOT_STATE, country, last_selector, leds, body_led>>

(* The image is ready; whatever it shows, get_flag returns some Flag. *)
GetFlag ==
  /\ manage = "capture"
  /\ country' \in Flag
  /\ manage' = "detect"
  /\ UNCHANGED <<actuators, song, last_note, ROBOT_STATE, last_selector, leds, body_led>>

(* The ten seconds are over and no flag was recognised. *)
GiveUp ==
  /\ manage = "detect"
  /\ country = UNDEFINED_FLAG
  /\ ROBOT_STATE' = "WAIT"
  /\ last_selector' = selector
  /\ body_led' = FALSE
  /\ manage' = "sleep"
  /\ UNCHANGED <<actuators, song, last_note, country, leds>>

(* Mutant: the dance starts whether a flag was recognised or not. *)
RecogniseAnything ==
  /\ manage = "detect"
  /\ ROBOT_STATE' = "DANCE"
  /\ last_selector' = selector
  /\ body_led' = FALSE
  /\ restart_dance(country)
  /\ country' = UNDEFINED_FLAG
  /\ manage' = "sleep"
  /\ UNCHANGED leds

(* Mutant: the static variable country keeps the flag. *)
RecogniseKeepingFlag ==
  /\ manage = "detect"
  /\ country # UNDEFINED_FLAG
  /\ ROBOT_STATE' = "DANCE"
  /\ last_selector' = selector
  /\ body_led' = FALSE
  /\ restart_dance(country)
  /\ manage' = "sleep"
  /\ UNCHANGED <<country, leds>>

Recognise ==
  /\ manage = "detect"
  /\ country # UNDEFINED_FLAG
  /\ ROBOT_STATE' = "DANCE"
  /\ last_selector' = selector
  /\ body_led' = FALSE
  /\ restart_dance(country)
  /\ country' = UNDEFINED_FLAG
  /\ manage' = "sleep"
  /\ UNCHANGED leds

(* The end of chThdSleep(100). *)
Wake ==
  /\ manage = "sleep"
  /\ manage' = "poll"
  /\ UNCHANGED <<actuators, song, last_note, ROBOT_STATE, country, last_selector, leds, body_led>>

ManageStep ==
  /\ \/ ReadSelector \/ PollBlocked \/ PollFree \/ NotTurned \/ Turned
     \/ BeginDetection \/ Capture \/ GetFlag \/ GiveUp \/ Recognise \/ Wake
  /\ UNCHANGED_dance
  /\ UNCHANGED inputs

ManageInit ==
  /\ ObstacleInit
  /\ manage = "start"
  /\ country = UNDEFINED_FLAG
  /\ body_led = FALSE
  /\ selector \in Selector
  /\ last_selector = selector     \* not assigned before ReadSelector

ManageTypeOK ==
  /\ manage \in {"start", "poll", "compare", "turned", "detect", "capture", "sleep"}
  /\ country \in Flag
  /\ last_selector \in Selector
  /\ body_led \in BOOLEAN
  /\ selector \in Selector
=============================================================================

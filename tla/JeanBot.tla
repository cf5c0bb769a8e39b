------------------------------- MODULE JeanBot -------------------------------
(***************************************************************************)
(* The program of src/src/main.c: main starts the threads Dance and        *)
(* ManageStates, which then share one core under the scheduler of ChibiOS, *)
(* while the user turns the selector and obstacles come and go.            *)
(***************************************************************************)
EXTENDS ManageStates

CONSTANTS
  CameraYields,   \* whether wait_image_ready blocks or spins
  Prompt          \* whether Dance reaches a sleep in every wait of ManageStates

ASSUME SchedulingAssumption == CameraYields \in BOOLEAN /\ Prompt \in BOOLEAN

VARIABLES
  main,      \* the next call of main
  caught_up, \* history: Dance was asleep since ManageStates last ran
  strays     \* history: the wheels Dance has set since the state was WAIT

vars == <<dvars, mvars, inputs, main, caught_up, strays>>

(* Dance gets the core only while the thread of higher priority does not   *)
(* exist yet, sleeps, or waits for an image.                               *)
ManageWaits == manage = "sleep" \/ (manage = "capture" /\ CameraYields)
DanceRuns   == main = "start_state" \/ ManageWaits

Asleep == dance \in {"idle", "note_sleep", "offset_sleep"}

(* Up to start_dance, where Dance is created; at equal priority it may run *)
(* before main goes on.                                                    *)
StartDance ==
  /\ main = "start_dance" /\ main' = "start_state"
  /\ UNCHANGED <<dvars, mvars, inputs, caught_up, strays>>

StartState ==
  /\ main = "start_state" /\ main' = "loop"
  /\ UNCHANGED <<dvars, mvars, inputs, caught_up, strays>>

RunDance ==
  /\ DanceRuns
  /\ DanceStep
  /\ caught_up' = (caught_up \/ Asleep')
  /\ strays' = IF ROBOT_STATE = "WAIT" THEN {}
               ELSE IF SetWheels THEN strays \cup {dance} ELSE strays
  /\ UNCHANGED <<manage, country, last_selector, leds, body_led, inputs, main>>

(* A wait of ManageStates lasts 100 ms or an exposure, the code of Dance   *)
(* between two sleeps some microseconds: with Prompt, a Dance that could   *)
(* run during the wait has come to a sleep before the wait is over.        *)
RunManage ==
  /\ main = "loop"
  /\ Prompt /\ ManageWaits => caught_up
  /\ ManageStep
  /\ caught_up' = Asleep
  /\ strays' = IF ROBOT_STATE' = "WAIT" THEN {} ELSE strays
  /\ UNCHANGED main

TurnSelector ==
  /\ selector' \in Selector \ {selector}
  /\ UNCHANGED <<dvars, mvars, obstacle, main, caught_up, strays>>

MoveObstacle ==
  /\ obstacle' = ~obstacle
  /\ UNCHANGED <<dvars, mvars, selector, main, caught_up, strays>>

EndDetection == RunManage /\ manage = "detect" /\ manage' = "sleep"

Init == DanceInit /\ ManageInit /\ main = "start_dance" /\ caught_up = FALSE /\ strays = {}

Next ==
  \/ StartDance \/ StartState
  \/ RunDance \/ RunManage
  \/ TurnSelector \/ MoveObstacle

Spec == Init /\ [][Next]_vars

(* main runs; ManageStates has the highest priority of the program, its    *)
(* sleeps end and images arrive; the clock ends every detection; and each  *)
(* time ManageStates blocks, the scheduler has Dance run.                  *)
Fairness ==
  /\ WF_vars(StartDance) /\ WF_vars(StartState)
  /\ WF_vars(RunManage)
  /\ SF_vars(EndDetection)
  /\ SF_vars(RunDance)

FairSpec == Spec /\ Fairness

-----------------------------------------------------------------------------
(* Safety.                                                                 *)

(* The variables of both threads and of main hold values of their types.   *)
TypeOK ==
  /\ DanceTypeOK /\ ManageTypeOK /\ ObstacleTypeOK
  /\ main \in {"start_dance", "start_state", "loop"}
  /\ caught_up \in BOOLEAN
  /\ strays \subseteq {"left", "right"}

(* Dance only ever dances to the song of a country: restart_dance is never *)
(* reached with UNDEFINED_FLAG, nor is_dancing set before a first song.    *)
DancesToASong == is_dancing => \E c \in Country : current_song = Songs[c]

(* A flag recognised for one dance is gone before the next detection: the  *)
(* static variable country never satisfies the loop of a later one.        *)
NoStaleFlag == manage \notin {"detect", "capture"} => country = UNDEFINED_FLAG

(* From the turn of the selector to the end of its detection.              *)
Choosing == manage \in {"turned", "detect", "capture"}

(* No dance is on from the turn of the selector until its flag is known:   *)
(* Dance, which may run while the camera takes an image, starts none.      *)
QuietDetection == Choosing => ~is_dancing

(* The song under Dance is only exchanged when no dance is on: whatever    *)
(* the two threads do in between, stop_dancing comes before restart_dance. *)
SongKeptWhileDancing == [][is_dancing => UNCHANGED current_song]_vars

(* The recital behind the two threads: the selector asks for a piece, its  *)
(* flag begins it, and Dance performs it.                                  *)
Reached  == IF is_dancing THEN last_note + 1 ELSE 0

R == INSTANCE Recital WITH
  Piece      <- {Songs[c] : c \in Country},
  choosing   <- Choosing,
  performing <- is_dancing,
  piece      <- current_song,
  reached    <- Reached

(* Every dance is a recital: however the unlocked music_position++ and     *)
(* stop_dancing of Dance fall among the calls of ManageStates, a dance     *)
(* that has begun a note goes through all those that follow it, and only   *)
(* another detection breaks it off.  The notes before are lost, and        *)
(* DanceNotLost shows how that can be all of them.                         *)
GivesRecitals == R!RecitalSpec

(* No note is played twice, either: each is followed by the next one.      *)
NotesInOrder ==
  [][TestNote /\ last_note # NoNote => last_note' = last_note + 1]_vars

(* Why this is so.  Once a dance has begun a note, its position is that of *)
(* its last note while Dance is in that note and of the next one before    *)
(* and after.                                                              *)
Beginning == {"test", "test_state", "test_dancing", "idle", "load_note"}
InNote    == {"load_play", "play", "left", "right", "mute", "halt_left", "halt_right",
              "load_rythm", "rythm", "load_deadline", "deadline", "note_sleep", "detach",
              "offset_sleep", "load_inc"}

OnBeat ==
  /\ dance \in Beginning \cup {"note", "load_end", "end"} => music_position = last_note + 1
  /\ dance \in InNote \cup {"inc"} => music_position = last_note
  /\ dance \in {"note", "rythm", "inc", "end"} => index = music_position
  /\ dance = "stop_flag" => last_note + 1 = MUSIC_SIZE
  /\ dance \notin {"stop_position", "stop_left", "stop_right", "stop_dac"}

(* The inductive invariant behind GivesRecitals, NotesInOrder and          *)
(* SecondReads: every dance that has begun a note is on the beat, the note *)
(* that a stop or a restart overtook has its position reset, and no note   *)
(* is ahead of Dance when no dance is on.                                  *)
RecitalInv ==
  /\ is_dancing /\ last_note # NoNote => OnBeat
  /\ dance = "note" => music_position \in {0, index}
  /\ dance \in InNote => music_position = NoteInHand
  /\ ~is_dancing /\ dance \in {"test_state", "load_note", "note"} => last_note = NoNote
  /\ SecondReads

(* The test of the state is not repeated before the motors, so Dance may   *)
(* set wheels when the state is WAIT no longer.  But each of them only     *)
(* once, in whichever order it evaluates the condition of its if and       *)
(* however often ManageStates goes on from one such state to another.      *)
StraysOnce == [][SetWheels => ROBOT_STATE = "WAIT" \/ dance \notin strays]_vars

(* Its inductive form: a Dance that has set a wheel cannot come to set it  *)
(* again without testing the state anew.                                   *)
StrayInv ==
  /\ ROBOT_STATE = "WAIT" => strays = {}
  /\ strays # {} => dance \notin {"test_dancing", "load_note", "note", "load_play", "play", "left"}
  /\ dance = "right" => "right" \notin strays

-----------------------------------------------------------------------------
(* Liveness.                                                               *)

(* An obstacle that stays stops the wheels for good, even the figure that  *)
(* Dance sets after the first panic(), and also if it appears during a     *)
(* detection, which does not look for obstacles.                           *)
ObstacleStopsRobot == <>[]obstacle => <>[]Still

(* With a free way and nobody turning the selector, its last turn leads to *)
(* a detection or falls into one, and the dance that follows ends.         *)
LeftAlone == <>[]~obstacle /\ <>[][UNCHANGED selector]_vars
Settles == LeftAlone => <>[](last_selector = selector /\ ~is_dancing)

(* No tone outlives the dance, although Dance may start one after          *)
(* ManageStates has called dac_stop.                                       *)
SoundEnds == <>[]~is_dancing => <>[]~sound

-----------------------------------------------------------------------------
(* What the comments and the report say, and the code does not do.         *)

(* dance.c:131-132, "we don't want him to dance when he's in               *)
(* FLAG_DETECTION or PAUSE state": the wheels stand still in those states. *)
NoDanceWhenHeld == ROBOT_STATE \in {"PAUSE", "FLAG_DETECTION"} => Still

(* When is_dancing is FALSE for good, Dance is inhibited and the wheels    *)
(* come to rest.                                                           *)
MotionEnds == <>[]~is_dancing => <>[]Still

(* rapport.tex:116, when is_dancing becomes true Dance begins to play: the *)
(* dance that Dance ends is one of which it has begun a note, and not one  *)
(* that ManageStates began after Dance had tested for the end of the last. *)
DanceNotLost == [][StopFlag /\ is_dancing => last_note # NoNote]_vars

(* A dance begins with the first note of its song.                         *)
AboutToBegin == dance = "load_note" /\ is_dancing /\ last_note = NoNote
StartsAtFirstNote == AboutToBegin => music_position = 0
=============================================================================

---------------------------- MODULE JeanBotProofs ----------------------------
(* Proofs about the whole program, for every MUSIC_SIZE, every set of      *)
(* songs, every selector, and whatever the camera driver and the timing    *)
(* of the threads do (CameraYields, Prompt).                               *)
EXTENDS JeanBot, DanceProofs

(* The inductive invariant: the conjuncts that TLC checks one by one.       *)
JeanBotInv ==
  /\ TypeOK
  /\ DanceInv
  /\ NoStaleFlag
  /\ QuietDetection
  /\ DancesToASong

-----------------------------------------------------------------------------
(* Every step of the program is a step of Dance, a call Dance allows its   *)
(* environment, or changes nothing Dance uses.                             *)
LEMMA ManageIsCaller ==
  ASSUME TypeOK, ManageStep
  PROVE  Caller
<1> USE DEF UNCHANGED_dance, Caller, actuators, song
<1>1. UNCHANGED <<dance, regs>> /\ country \in Flag /\ ROBOT_STATE \in State
  BY DEF ManageStep, TypeOK, ManageTypeOK, DanceTypeOK
<1>2. CASE ReadSelector \/ NotTurned \/ Capture \/ GetFlag \/ Wake
  BY <1>1, <1>2 DEF ReadSelector, NotTurned, Capture, GetFlag, Wake
<1>3. CASE PollBlocked \/ PollFree
  BY <1>1, <1>3 DEF PollBlocked, PollFree, obstacle_detected, panic, unpanic, State
<1>4. CASE Turned
  BY <1>1, <1>4 DEF Turned
<1>5. CASE BeginDetection \/ GiveUp
  BY <1>1, <1>5 DEF BeginDetection, GiveUp, State
<1>6. CASE Recognise
  BY <1>1, <1>6 DEF Recognise, State
<1>7. QED
  BY <1>2, <1>3, <1>4, <1>5, <1>6 DEF ManageStep

LEMMA StepIsDanceStep ==
  ASSUME TypeOK, [Next]_vars
  PROVE  [DanceNext]_dvars
<1>1. CASE RunDance
  BY <1>1 DEF RunDance, DanceNext
<1>2. CASE RunManage
  BY <1>2, ManageIsCaller DEF RunManage, DanceNext
<1>3. CASE StartDance \/ StartState \/ TurnSelector \/ MoveObstacle \/ UNCHANGED vars
  BY <1>3 DEF StartDance, StartState, TurnSelector, MoveObstacle, vars
<1>4. QED
  BY <1>1, <1>2, <1>3 DEF Next

-----------------------------------------------------------------------------
(* Only restart_dance starts a dance or changes the song.                  *)
LEMMA DanceStartsNothing ==
  ASSUME DanceStep
  PROVE  (is_dancing' => is_dancing) /\ current_song' = current_song
BY DEF DanceStep, TestIsDancing, TestState, WakeUp, LoadPosition, TestNote, Play, SetWheels,
       HaltWheels, Mute, TestRythm, Deadline, StorePosition, TestEnd, StopFlag, StopPosition, song

LEMMA JeanBotInitInv == Init => JeanBotInv
<1> SUFFICES ASSUME Init PROVE JeanBotInv
  OBVIOUS
<1>1. DanceInv
  BY DanceInitInv DEF Init
<1>2. is_dancing = FALSE /\ country = UNDEFINED_FLAG /\ manage = "start"
  BY DEF Init, DanceInit, ManageInit
<1>3. ManageTypeOK
  BY <1>2 DEF Init, ManageInit, ManageTypeOK, Flag
<1>4. ObstacleTypeOK /\ caught_up \in BOOLEAN /\ strays = {}
  BY DEF Init, ManageInit, ObstacleInit, ObstacleTypeOK
<1>5. TypeOK
  BY <1>1, <1>3, <1>4 DEF Init, TypeOK, DanceInv
<1>6. QED
  BY <1>1, <1>2, <1>5 DEF JeanBotInv, NoStaleFlag, QuietDetection, Choosing, DancesToASong

(* A step of ManageStates keeps its own variables within their types.      *)
LEMMA ManageStepType ==
  ASSUME ManageTypeOK, ObstacleTypeOK, ManageStep
  PROVE  ManageTypeOK' /\ ObstacleTypeOK'
<1> USE DEF ManageTypeOK, ObstacleTypeOK, inputs
<1>1. CASE ReadSelector \/ NotTurned \/ Turned \/ Wake \/ Capture \/ GetFlag
  BY <1>1 DEF ReadSelector, NotTurned, Turned, Wake, Capture, GetFlag, ManageStep
<1>2. CASE PollBlocked \/ PollFree
  BY <1>2 DEF PollBlocked, PollFree, obstacle_detected, panic, unpanic, ManageStep
<1>3. CASE BeginDetection \/ GiveUp
  BY <1>3 DEF BeginDetection, GiveUp, ManageStep
<1>4. CASE Recognise
  BY <1>4 DEF Recognise, ManageStep, Flag
<1>5. QED
  BY <1>1, <1>2, <1>3, <1>4 DEF ManageStep

(* The order of the calls of ManageStates: stop_dancing, detection, and    *)
(* restart_dance with the flag the detection found.                        *)
LEMMA ManageStepOrder ==
  ASSUME TypeOK, NoStaleFlag, QuietDetection, DancesToASong, ManageStep
  PROVE  NoStaleFlag' /\ QuietDetection' /\ DancesToASong'
<1> USE DEF NoStaleFlag, QuietDetection, Choosing, DancesToASong, song
<1>1. CASE ReadSelector \/ PollBlocked \/ PollFree \/ NotTurned \/ Wake
  <2>1. /\ is_dancing' = is_dancing /\ current_song' = current_song /\ country' = country
        /\ manage' \in {"poll", "compare", "sleep"} /\ manage \notin {"detect", "capture"}
    BY <1>1 DEF ReadSelector, PollBlocked, PollFree, NotTurned, Wake
  <2>2. QED
    BY <2>1
<1>2. CASE Turned
  BY <1>2 DEF Turned, stop_dancing
<1>3. CASE BeginDetection \/ Capture \/ GetFlag \/ GiveUp
  BY <1>3 DEF BeginDetection, Capture, GetFlag, GiveUp
<1>4. CASE Recognise
  <2>1. country \in Country /\ current_song' = Songs[country]
    BY <1>4 DEF Recognise, restart_dance, LUT_flag_to_music, TypeOK, ManageTypeOK, Flag
  <2>2. manage' = "sleep" /\ country' = UNDEFINED_FLAG
    BY <1>4 DEF Recognise
  <2>3. QED
    BY <2>1, <2>2
<1>5. QED
  BY <1>1, <1>2, <1>3, <1>4 DEF ManageStep

LEMMA JeanBotStepInv ==
  ASSUME JeanBotInv, [Next]_vars
  PROVE  JeanBotInv'
<1>1. TypeOK /\ DanceInv /\ NoStaleFlag /\ QuietDetection /\ DancesToASong
  BY DEF JeanBotInv
<1>2. DanceInv'
  <2>1. CASE DanceStep \/ Caller
    BY <1>1, <2>1, DanceStepInv, CallerInv
  <2>2. CASE UNCHANGED dvars
    BY <1>1, <2>2 DEF DanceInv, DanceTypeOK, PeripheralsTypeOK, Closing, Indexing, dvars, song,
                      regs, actuators
  <2>3. QED
    BY <1>1, <2>1, <2>2, StepIsDanceStep DEF DanceNext
<1>3. DanceTypeOK'
  BY <1>2 DEF DanceInv
<1>4. CASE RunDance
  <2>1. TypeOK'
    <3>1. SetWheels => dance \in {"left", "right"}
      BY DEF SetWheels, Goto
    <3>2. strays' \subseteq {"left", "right"}
      BY <1>1, <1>4, <3>1 DEF RunDance, TypeOK
    <3>3. QED
      BY <1>1, <1>3, <1>4, <3>2
      DEF RunDance, TypeOK, ManageTypeOK, ObstacleTypeOK, inputs, Asleep
  <2>2. NoStaleFlag' /\ QuietDetection' /\ DancesToASong'
    BY <1>1, <1>4, DanceStartsNothing
    DEF RunDance, NoStaleFlag, QuietDetection, Choosing, DancesToASong
  <2>3. QED
    BY <1>2, <2>1, <2>2 DEF JeanBotInv
<1>5. CASE RunManage
  <2>1. TypeOK'
    <3>1. main' = "loop" /\ caught_up' \in BOOLEAN /\ strays' \subseteq strays
      BY <1>5 DEF RunManage, Asleep
    <3>2. ManageTypeOK' /\ ObstacleTypeOK'
      BY <1>1, <1>5, ManageStepType DEF RunManage, TypeOK
    <3>3. QED
      BY <1>1, <1>3, <3>1, <3>2 DEF TypeOK
  <2>2. NoStaleFlag' /\ QuietDetection' /\ DancesToASong'
    BY <1>1, <1>5, ManageStepOrder DEF RunManage
  <2>3. QED
    BY <1>2, <2>1, <2>2 DEF JeanBotInv
<1>6. CASE StartDance \/ StartState \/ UNCHANGED vars
  <2>1. TypeOK'
    BY <1>1, <1>3, <1>6
    DEF StartDance, StartState, vars, TypeOK, ManageTypeOK, ObstacleTypeOK, mvars, inputs
  <2>2. NoStaleFlag' /\ QuietDetection' /\ DancesToASong'
    BY <1>1, <1>6 DEF StartDance, StartState, vars, dvars, song, mvars, NoStaleFlag,
                      QuietDetection, Choosing, DancesToASong
  <2>3. QED
    BY <1>2, <2>1, <2>2 DEF JeanBotInv
<1>7. CASE TurnSelector \/ MoveObstacle
  <2>1. TypeOK'
    BY <1>1, <1>3, <1>7
    DEF TurnSelector, MoveObstacle, TypeOK, ManageTypeOK, ObstacleTypeOK, mvars
  <2>2. NoStaleFlag' /\ QuietDetection' /\ DancesToASong'
    BY <1>1, <1>7 DEF TurnSelector, MoveObstacle, dvars, song, mvars, NoStaleFlag,
                      QuietDetection, Choosing, DancesToASong
  <2>3. QED
    BY <1>2, <2>1, <2>2 DEF JeanBotInv
<1>8. QED
  BY <1>4, <1>5, <1>6, <1>7 DEF Next

-----------------------------------------------------------------------------
(* JeanBotInv is inductive. *)
THEOREM JeanBotInvariant == Spec => []JeanBotInv
BY JeanBotInitInv, JeanBotStepInv, PTL DEF Spec

(* The variables of the program hold values of their types.                *)
THEOREM JeanBotTyped == Spec => []TypeOK
<1>1. JeanBotInv => TypeOK
  BY DEF JeanBotInv
<1>2. QED
  BY <1>1, JeanBotInvariant, PTL

(* Dance and the rest of the program keep to the interface of Dance:       *)
(* ManageStates does nothing to a dance that DanceSpec does not allow.     *)
THEOREM JeanBotImplementsDance == Spec => DanceSpec
<1>1. JeanBotInv /\ [Next]_vars => [DanceNext]_dvars
  BY StepIsDanceStep DEF JeanBotInv
<1>2. Init => DanceInit
  BY DEF Init
<1>3. QED
  BY <1>1, <1>2, JeanBotInvariant, PTL DEF Spec, DanceSpec

(* Hence Dance stays inside the arrays of a song in the whole program.     *)
THEOREM JeanBotStaysInSong == Spec => []IndexInSong
BY JeanBotImplementsDance, DanceStaysInSong, PTL

(* The static variable country never satisfies the loop of a later         *)
(* detection: no flag outlives the detection that found it.                *)
THEOREM JeanBotForgetsFlag == Spec => []NoStaleFlag
<1>1. JeanBotInv => NoStaleFlag
  BY DEF JeanBotInv
<1>2. QED
  BY <1>1, JeanBotInvariant, PTL

(* Whatever the threads do while the camera takes an image, no dance is on *)
(* from the turn of the selector until the flag is known.                  *)
THEOREM JeanBotDetectsInOrder == Spec => []QuietDetection
<1>1. JeanBotInv => QuietDetection
  BY DEF JeanBotInv
<1>2. QED
  BY <1>1, JeanBotInvariant, PTL

(* restart_dance always has the flag of a country: Dance only ever dances  *)
(* to one of the songs.                                                    *)
THEOREM JeanBotDancesToASong == Spec => []DancesToASong
<1>1. JeanBotInv => DancesToASong
  BY DEF JeanBotInv
<1>2. QED
  BY <1>1, JeanBotInvariant, PTL

(* The song of a dance is not exchanged while the dance is on.             *)
THEOREM JeanBotKeepsSong == Spec => SongKeptWhileDancing
<1>1. ASSUME JeanBotInv, [Next]_vars
      PROVE  [is_dancing => UNCHANGED current_song]_vars
  <2>1. CASE RunDance
    BY <2>1, DanceStartsNothing DEF RunDance
  <2>2. CASE RunManage
    <3>1. QuietDetection
      BY <1>1 DEF JeanBotInv
    <3>2. QED
      BY <2>2, <3>1
      DEF RunManage, ManageStep, ReadSelector, PollBlocked, PollFree, NotTurned, Turned,
          BeginDetection, Capture, GetFlag, GiveUp, Recognise, Wake, QuietDetection, Choosing, song,
          stop_dancing
  <2>3. CASE StartDance \/ StartState \/ TurnSelector \/ MoveObstacle \/ UNCHANGED vars
    BY <2>3 DEF StartDance, StartState, TurnSelector, MoveObstacle, vars, dvars, song
  <2>4. QED
    BY <1>1, <2>1, <2>2, <2>3 DEF Next
<1>2. QED
  BY <1>1, JeanBotInvariant, PTL DEF Spec, SongKeptWhileDancing

-----------------------------------------------------------------------------
(* What Dance may still do once the state is not WAIT.                     *)

LEMMA StrayStepInv ==
  ASSUME JeanBotInv, StrayInv, [Next]_vars
  PROVE  StrayInv'
<1>1. strays \subseteq {"left", "right"}
  BY DEF JeanBotInv, TypeOK
<1>2. CASE RunDance /\ ROBOT_STATE = "WAIT"
  <2>1. strays' = {} /\ ROBOT_STATE' = ROBOT_STATE
    BY <1>2 DEF RunDance, DanceStep, TestIsDancing, TestState, WakeUp, LoadPosition, TestNote,
       Play, SetWheels, HaltWheels, Mute, TestRythm, Deadline, StorePosition, TestEnd, StopFlag,
       StopPosition
  <2>2. QED
    BY <2>1 DEF StrayInv
<1>3. CASE RunDance /\ ROBOT_STATE # "WAIT"
  <2>1. /\ strays' = IF SetWheels THEN strays \cup {dance} ELSE strays
        /\ ROBOT_STATE' = ROBOT_STATE
    BY <1>3 DEF RunDance, DanceStep, TestIsDancing, TestState, WakeUp, LoadPosition, TestNote,
       Play, SetWheels, HaltWheels, Mute, TestRythm, Deadline, StorePosition, TestEnd, StopFlag,
       StopPosition
  <2>2. CASE SetWheels
    <3>1. \/ dance = "left" /\ dance' = "right"
          \/ dance = "right" /\ dance' = "load_rythm"
      BY <2>2 DEF SetWheels, Goto
    <3>2. dance = "left" => strays' = {"left"}
      BY <1>1, <2>1, <2>2 DEF StrayInv
    <3>3. QED
      BY <1>3, <2>1, <3>1, <3>2 DEF StrayInv
  <2>3. CASE ~SetWheels
    <3>1. dance' # "right"
      BY <1>3, <2>3 DEF RunDance, DanceStep, TestIsDancing, TestState, WakeUp, LoadPosition,
         TestNote, Play, HaltWheels, Mute, TestRythm, Deadline, StorePosition, TestEnd,
         StopFlag, StopPosition, Goto, SetWheels
    <3>2. strays # {} => dance' \notin {"test_dancing", "load_note", "note", "load_play", "play",
                                       "left"}
      BY <1>3 DEF RunDance, StrayInv, DanceStep, TestIsDancing, TestState, WakeUp, LoadPosition,
         TestNote, Play, SetWheels, HaltWheels, Mute, TestRythm, Deadline, StorePosition,
         TestEnd, StopFlag, StopPosition, Goto
    <3>3. QED
      BY <1>3, <2>1, <2>3, <3>1, <3>2 DEF StrayInv
  <2>4. QED
    BY <2>2, <2>3
<1>4. CASE RunManage
  <2>1. dance' = dance /\ strays' = IF ROBOT_STATE' = "WAIT" THEN {} ELSE strays
    BY <1>4 DEF RunManage, ManageStep, UNCHANGED_dance
  <2>2. QED
    BY <2>1 DEF StrayInv
<1>5. CASE StartDance \/ StartState \/ TurnSelector \/ MoveObstacle \/ UNCHANGED vars
  BY <1>5 DEF StartDance, StartState, TurnSelector, MoveObstacle, vars, dvars, StrayInv
<1>6. QED
  BY <1>2, <1>3, <1>4, <1>5 DEF Next

(* A figure tested for in WAIT reaches the motors at most once after the   *)
(* state has changed: no wheel is set twice outside WAIT.                  *)
THEOREM JeanBotStraysOnce == Spec => StraysOnce
<1>1. Init => StrayInv
  BY DEF Init, DanceInit, StrayInv
<1>2. JeanBotInv /\ StrayInv /\ [Next]_vars => StrayInv'
  BY StrayStepInv
<1>3. StrayInv => [SetWheels => ROBOT_STATE = "WAIT" \/ dance \notin strays]_vars
  BY DEF StrayInv, SetWheels, Goto
<1>4. QED
  BY <1>1, <1>2, <1>3, JeanBotInvariant, PTL DEF Spec, StraysOnce
=============================================================================

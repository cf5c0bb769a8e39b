---------------------------- MODULE RecitalProofs ----------------------------
(* Proofs that the program gives recitals, for every number of notes,      *)
(* every set of songs and every selector, and whatever the camera driver   *)
(* and the timing of the threads do (CameraYields, Prompt).                *)
EXTENDS JeanBotProofs

-----------------------------------------------------------------------------
(* The inductive invariant.                                                *)

LEMMA RecitalInitInv == Init => RecitalInv
BY DEF Init, DanceInit, RecitalInv, SecondReads, InNote

(* A step of Dance.  It moves the position only at the end of a note.      *)
LEMMA RunDanceRecital ==
  ASSUME JeanBotInv, RecitalInv, DanceStep
  PROVE  RecitalInv'
<1>1. /\ MUSIC_SIZE \in Nat \ {0}
      /\ music_position \in 0 .. MUSIC_SIZE /\ index \in 0 .. MUSIC_SIZE
      /\ last_note \in Position \cup {NoNote} /\ dance \in Places /\ is_dancing \in BOOLEAN
      /\ dance = "note" => index < MUSIC_SIZE
  BY DanceAssumption DEF JeanBotInv, DanceInv, DanceTypeOK, Indexing
<1> USE <1>1 DEF RecitalInv, OnBeat, SecondReads, NoteInHand, Beginning, InNote, Goto, song, regs,
        NoNote, Position
<1>4. CASE TestIsDancing
  BY <1>4 DEF TestIsDancing
<1>5. CASE TestState
  BY <1>5 DEF TestState
<1>6. CASE WakeUp
  BY <1>6 DEF WakeUp
<1>7. CASE LoadPosition
  BY <1>7 DEF LoadPosition
<1>8. CASE TestNote
  BY <1>8 DEF TestNote
<1>9. CASE Play
  BY <1>9 DEF Play
<1>10. CASE SetWheels
  BY <1>10 DEF SetWheels
<1>11. CASE HaltWheels
  BY <1>11 DEF HaltWheels
<1>12. CASE Mute
  BY <1>12 DEF Mute
<1>13. CASE TestRythm \/ Deadline
  BY <1>13 DEF TestRythm, Deadline
<1>14. CASE StorePosition
  BY <1>14 DEF StorePosition
<1>15. CASE TestEnd
  BY <1>15 DEF TestEnd
<1>16. CASE StopFlag
  BY <1>16 DEF StopFlag
<1>17. CASE StopPosition
  BY <1>17 DEF StopPosition
<1>18. QED
  BY <1>4, <1>5, <1>6, <1>7, <1>8, <1>9, <1>10, <1>11, <1>12, <1>13, <1>14, <1>15, <1>16,
     <1>17 DEF DanceStep

(* A step of ManageStates.  Both of its calls reset the position, and      *)
(* leave a dance that has begun no note.                                   *)
LEMMA RunManageRecital ==
  ASSUME RecitalInv, ManageStep
  PROVE  RecitalInv'
<1>1. dance' = dance /\ index' = index
  BY DEF ManageStep, UNCHANGED_dance, regs
<1>2. CASE UNCHANGED <<song, last_note>>
  BY <1>1, <1>2 DEF RecitalInv, OnBeat, SecondReads, NoteInHand, song
<1>3. CASE Turned \/ Recognise
  <2>1. music_position' = 0 /\ last_note' = NoNote
    BY <1>3 DEF Turned, Recognise, stop_dancing, restart_dance
  <2>2. QED
    BY <1>1, <2>1 DEF RecitalInv, SecondReads, NoteInHand
<1>4. Turned \/ Recognise \/ UNCHANGED <<song, last_note>>
  BY DEF ManageStep, ReadSelector, PollBlocked, PollFree, NotTurned, BeginDetection, Capture,
         GetFlag, GiveUp, Wake
<1>5. QED
  BY <1>2, <1>3, <1>4

LEMMA RecitalStepInv ==
  ASSUME JeanBotInv, RecitalInv, [Next]_vars
  PROVE  RecitalInv'
<1>1. CASE StartDance \/ StartState \/ TurnSelector \/ MoveObstacle \/ UNCHANGED vars
  BY <1>1 DEF StartDance, StartState, TurnSelector, MoveObstacle, vars, dvars, song, regs,
              RecitalInv, OnBeat, SecondReads, NoteInHand
<1>2. QED
  BY <1>1, RunDanceRecital, RunManageRecital DEF Next, RunDance, RunManage

(* RecitalInv holds throughout the program. *)
THEOREM RecitalInvariant == Spec => []RecitalInv
<1>1. JeanBotInv /\ RecitalInv /\ [Next]_vars => RecitalInv'
  BY RecitalStepInv
<1>2. QED
  BY <1>1, RecitalInitInv, JeanBotInvariant, PTL DEF Spec

(* Dance plays, and sleeps through, the note it has tested, or note 0 if   *)
(* its dance was stopped or restarted since.                               *)
THEOREM JeanBotRereadsTheSame == Spec => []SecondReads
<1>1. RecitalInv => SecondReads
  BY DEF RecitalInv
<1>2. QED
  BY <1>1, RecitalInvariant, PTL

-----------------------------------------------------------------------------
(* The refinement: each step of the program is a step of the recital or    *)
(* changes nothing the audience sees.                                      *)

(* The notes are begun in order. *)
LEMMA NextNoteIsDue ==
  ASSUME JeanBotInv, RecitalInv, TestNote
  PROVE  /\ last_note' = last_note \/ last_note' \in Position
         /\ last_note # NoNote => is_dancing /\ last_note' = last_note + 1
<1>1. dance = "note" /\ last_note' = IF index = music_position THEN index ELSE last_note
  BY DEF TestNote
<1>2. index \in Position
  BY <1>1, DanceAssumption DEF JeanBotInv, DanceInv, DanceTypeOK, Indexing, Position
<1>3. last_note # NoNote => is_dancing /\ OnBeat
  BY <1>1 DEF RecitalInv, JeanBotInv, DanceInv, DanceTypeOK
<1>4. QED
  BY <1>1, <1>2, <1>3 DEF OnBeat

(* No note is played twice. *)
THEOREM JeanBotPlaysInOrder == Spec => NotesInOrder
<1> DEFINE InOrder == TestNote /\ last_note # NoNote => last_note' = last_note + 1
<1>1. JeanBotInv /\ RecitalInv => [InOrder]_vars
  BY NextNoteIsDue
<1>2. QED
  BY <1>1, JeanBotInvariant, RecitalInvariant, PTL DEF NotesInOrder

LEMMA DanceStepRecites ==
  ASSUME JeanBotInv, RecitalInv, RunDance
  PROVE  [R!RecitalNext]_R!recital
<1>1. Choosing' = Choosing /\ current_song' = current_song /\ (is_dancing' => is_dancing)
  BY DanceStartsNothing DEF RunDance, Choosing
<1>2. MUSIC_SIZE \in Nat /\ last_note \in Position \cup {NoNote} /\ is_dancing \in BOOLEAN
  BY DanceAssumption DEF JeanBotInv, DanceInv, DanceTypeOK
<1>3. is_dancing' \in BOOLEAN /\ (is_dancing => ~Choosing)
  BY JeanBotStepInv DEF JeanBotInv, TypeOK, DanceTypeOK, QuietDetection, Next
<1>4. last_note + 1 \in Nat /\ (last_note' \in Position => last_note' + 1 \in 1 .. MUSIC_SIZE)
  BY <1>2 DEF Position, NoNote
<1> USE DEF R!recital, R!RecitalNext, Reached, NoNote, Position
<1>5. CASE TestNote
  <2>1. UNCHANGED is_dancing
    BY <1>5 DEF TestNote, song
  <2>2. CASE ~is_dancing
    BY <1>1, <2>1, <2>2
  <2>3. CASE is_dancing
    <3>1. CASE last_note' = last_note
      BY <1>1, <2>1, <3>1
    <3>2. CASE last_note' \in Position /\ last_note' # last_note
      <4>1. Reached' \in 1 .. MUSIC_SIZE /\ Reached \in Nat
        <5>1. Reached = last_note + 1 /\ Reached' = last_note' + 1
          BY <2>1, <2>3
        <5>2. QED
          BY <1>4, <3>2, <5>1
      <4>2. Reached' = Reached + 1 \/ (Reached = 0 /\ Reached' \in 2 .. MUSIC_SIZE)
        BY <1>2, <1>5, <2>1, <2>3, <4>1, NextNoteIsDue
      <4>3. R!NextNote
        BY <1>1, <1>2, <2>1, <2>3, <4>1, <4>2 DEF R!NextNote
      <4>4. QED
        BY <4>3
    <3>3. QED
      BY <1>5, <3>1, <3>2, NextNoteIsDue
  <2>4. QED
    BY <1>2, <2>2, <2>3
<1>6. CASE StopFlag
  <2>1. dance = "stop_flag" /\ ~is_dancing'
    BY <1>6 DEF StopFlag, Goto
  <2>2. is_dancing => Reached \in {0, MUSIC_SIZE}
    BY <1>2, <2>1 DEF RecitalInv, OnBeat
  <2>3. is_dancing => R!Finish
    BY <1>1, <1>2, <1>3, <2>1, <2>2 DEF R!Finish
  <2>4. QED
    BY <1>1, <1>2, <1>3, <2>1, <2>3
<1>7. CASE DanceStep /\ ~TestNote /\ ~StopFlag
  <2>1. UNCHANGED <<is_dancing, last_note>>
    BY <1>7 DEF DanceStep, TestIsDancing, TestState, WakeUp, LoadPosition, Play, SetWheels,
                HaltWheels, Mute, TestRythm, Deadline, StorePosition, TestEnd, StopPosition,
                song
  <2>2. QED
    BY <1>1, <2>1
<1>8. QED
  BY <1>5, <1>6, <1>7 DEF RunDance

LEMMA ManageStepRecites ==
  ASSUME JeanBotInv, RunManage
  PROVE  [R!RecitalNext]_R!recital
<1>1. Choosing => ~is_dancing
  BY DEF JeanBotInv, QuietDetection
<1> USE <1>1 DEF R!recital, R!RecitalNext, Reached, NoNote, Choosing, song
<1>2. CASE ReadSelector \/ NotTurned \/ Wake \/ PollBlocked \/ PollFree \/ BeginDetection
           \/ Capture \/ GetFlag
  <2>1. UNCHANGED <<song, last_note>>
    BY <1>2 DEF ReadSelector, NotTurned, Wake, PollBlocked, PollFree, BeginDetection, Capture,
                GetFlag
  <2>2. manage' \in {"turned", "detect", "capture"} <=> manage \in {"turned", "detect", "capture"}
    BY <1>2 DEF ReadSelector, NotTurned, Wake, PollBlocked, PollFree, BeginDetection, Capture,
                GetFlag
  <2>3. UNCHANGED <<Choosing, Reached>>
    BY <2>1, <2>2
  <2>4. QED
    BY <2>1, <2>3
<1>3. CASE Turned
  <2>1. R!Choose
    BY <1>3 DEF Turned, stop_dancing, R!Choose
  <2>2. QED
    BY <2>1
<1>4. CASE GiveUp
  <2>1. R!GiveUpChoosing
    BY <1>4 DEF GiveUp, R!GiveUpChoosing
  <2>2. QED
    BY <2>1
<1>5. CASE Recognise
  <2>1. country \in Country /\ current_song' = Songs[country]
    BY <1>5 DEF Recognise, restart_dance, LUT_flag_to_music, JeanBotInv, TypeOK, ManageTypeOK,
                Flag
  <2>2. R!Begin
    BY <1>5, <2>1 DEF Recognise, restart_dance, R!Begin
  <2>3. QED
    BY <2>2
<1>6. QED
  BY <1>2, <1>3, <1>4, <1>5 DEF RunManage, ManageStep

(* The program implements Recital. *)
THEOREM JeanBotGivesRecitals == Spec => GivesRecitals
<1>1. Init => R!RecitalInit
  BY DEF Init, DanceInit, ManageInit, R!RecitalInit, Reached, Choosing
<1>2. JeanBotInv /\ RecitalInv /\ [Next]_vars => [R!RecitalNext]_R!recital
  <2> SUFFICES ASSUME JeanBotInv, RecitalInv, [Next]_vars
               PROVE  [R!RecitalNext]_R!recital
    OBVIOUS
  <2>1. CASE StartDance \/ StartState \/ TurnSelector \/ MoveObstacle \/ UNCHANGED vars
    BY <2>1 DEF StartDance, StartState, TurnSelector, MoveObstacle, vars, dvars, mvars, song,
                R!recital, Reached, Choosing
  <2>2. QED
    BY <2>1, DanceStepRecites, ManageStepRecites DEF Next
<1>3. QED
  BY <1>1, <1>2, JeanBotInvariant, RecitalInvariant, PTL DEF Spec, GivesRecitals, R!RecitalSpec
=============================================================================

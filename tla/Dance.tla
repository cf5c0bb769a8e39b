-------------------------------- MODULE Dance --------------------------------
(***************************************************************************)
(* The thread Dance of src/src/dance.c, and the two functions by which     *)
(* another thread drives it, stop_dancing and restart_dance.               *)
(*                                                                         *)
(* is_dancing, music_position and current_song are plain static variables  *)
(* without a lock.  Dance runs at NORMALPRIO and is preempted by           *)
(* ManageStates (NORMALPRIO+1), so every access Dance makes to a variable  *)
(* another thread also uses, and every driver call, is a step of its own.  *)
(* music_position++ is a load into a register, index, and a store; the     *)
(* note played and the deadline of its sleep are read a second time, after *)
(* the tests.  A compiler that keeps a value it already loaded adds        *)
(* nothing: that is the behaviour in which no other thread runs between    *)
(* the two loads.                                                          *)
(*                                                                         *)
(* Left open: which frequency is played and how long a sleep lasts (see    *)
(* NotePlayback for the clock).                                            *)
(***************************************************************************)
EXTENDS Peripherals

CONSTANTS
  MUSIC_SIZE,      \* number of notes of a Music
  Country,         \* the flags that have a song
  UNDEFINED_FLAG,  \* the remaining value of the enum Flag
  Songs,           \* the song functions of music.c, by country
  note_offset      \* silence that detaches two notes

Flag     == Country \cup {UNDEFINED_FLAG}
State    == {"WAIT", "PAUSE", "FLAG_DETECTION", "DANCE"}
Position == 0 .. MUSIC_SIZE - 1
NoNote   == -1
Music    == [rythm : [Position -> Nat], notes : [Position -> Nat]]

SILENCE  == 0
NO_MUSIC == [rythm |-> [p \in Position |-> 0], notes |-> [p \in Position |-> SILENCE]]

ASSUME DanceAssumption ==
  /\ MUSIC_SIZE \in Nat \ {0}
  /\ UNDEFINED_FLAG \notin Country
  /\ Songs \in [Country -> Music]
  /\ note_offset \in Nat

VARIABLES
  is_dancing, music_position, current_song,  \* statics of dance.c
  ROBOT_STATE,   \* static of state.c, read through get_robot_state()
  dance,         \* where the thread Dance is
  index,         \* its register copy of music_position
  figure,        \* wheel speeds of the figure it is setting
  last_note      \* history: the last note of this dance that was begun, or NoNote

song  == <<is_dancing, music_position, current_song>>
regs  == <<index, figure>>
dvars == <<actuators, song, ROBOT_STATE, dance, regs, last_note>>

LUT_flag_to_music(country) == IF country = UNDEFINED_FLAG THEN NO_MUSIC ELSE Songs[country]

(* advance, reverse, rotate_left and rotate_right *)
Figures == {[left |->  1, right |->  1], [left |-> -1, right |-> -1],
            [left |-> -1, right |->  1], [left |->  1, right |-> -1]}

-----------------------------------------------------------------------------
(* stop_dancing and restart_dance as the thread of higher priority runs    *)
(* them: Dance cannot observe the middle of the call.                      *)

stop_dancing ==
  /\ is_dancing' = FALSE
  /\ music_position' = 0
  /\ motor' = Stopped
  /\ dac_stop
  /\ last_note' = NoNote
  /\ UNCHANGED current_song

restart_dance(country) ==
  /\ music_position' = 0
  /\ current_song' = LUT_flag_to_music(country)
  /\ is_dancing' = TRUE
  /\ last_note' = NoNote
  /\ UNCHANGED actuators

-----------------------------------------------------------------------------
(* The steps of the thread.                                                *)

Goto(from, to) == dance = from /\ dance' = to

(* Mutant: of the states without dance, only PAUSE is looked for. *)
TestStateForPause ==
  /\ \/ dance = "test" /\ dance' = IF ROBOT_STATE # "PAUSE" THEN "test_dancing" ELSE "idle"
     \/ dance = "test_state" /\ dance' = IF ROBOT_STATE # "PAUSE" THEN "load_note" ELSE "idle"
  /\ UNCHANGED <<actuators, song, ROBOT_STATE, regs, last_note>>

(* `is_dancing & (get_robot_state() == WAIT)` evaluates both operands, in  *)
(* an order the language leaves open.                                      *)
TestIsDancing ==
  /\ \/ dance = "test" /\ dance' = IF is_dancing THEN "test_state" ELSE "idle"
     \/ dance = "test_dancing" /\ dance' = IF is_dancing THEN "load_note" ELSE "idle"
  /\ UNCHANGED <<actuators, song, ROBOT_STATE, regs, last_note>>

TestState ==
  /\ \/ dance = "test" /\ dance' = IF ROBOT_STATE = "WAIT" THEN "test_dancing" ELSE "idle"
     \/ dance = "test_state" /\ dance' = IF ROBOT_STATE = "WAIT" THEN "load_note" ELSE "idle"
  /\ UNCHANGED <<actuators, song, ROBOT_STATE, regs, last_note>>

(* chThdSleep(100) of the else branch, and the two sleeps of a note. *)
WakeUp ==
  /\ \/ Goto("idle", "test")
     \/ Goto("note_sleep", "detach")
     \/ Goto("offset_sleep", "load_inc")
  /\ UNCHANGED <<actuators, song, ROBOT_STATE, regs, last_note>>

LoadPosition ==
  /\ \/ Goto("load_note", "note")
     \/ Goto("load_play", "play")
     \/ Goto("load_rythm", "rythm")
     \/ Goto("load_deadline", "deadline")
     \/ Goto("load_inc", "inc")
     \/ Goto("load_end", "end")
  /\ index' = music_position
  /\ UNCHANGED <<actuators, song, ROBOT_STATE, figure, last_note>>

(* if (current_song.notes[music_position] != 0).  A note loaded before     *)
(* music_position was reset is none of the dance that goes on.             *)
TestNote ==
  /\ dance = "note"
  /\ dance' = IF current_song.notes[index] # SILENCE THEN "load_play" ELSE "mute"
  /\ last_note' = IF index = music_position THEN index ELSE last_note
  /\ UNCHANGED <<actuators, song, ROBOT_STATE, regs>>

(* dac_play(current_song.notes[music_position]), and the draw of           *)
(* change_figure                                                           *)
Play ==
  /\ Goto("play", "left")
  /\ dac_play
  /\ figure' \in Figures
  /\ UNCHANGED <<motor, song, ROBOT_STATE, index, last_note>>

SetWheels ==
  /\ \/ Goto("left", "right") /\ left_motor_set_speed(figure.left)
     \/ Goto("right", "load_rythm") /\ right_motor_set_speed(figure.right)
  /\ UNCHANGED <<sound, song, ROBOT_STATE, regs, last_note>>

(* stop_motors, called for a silence and by stop_dancing *)
HaltWheels ==
  /\ \/ /\ Goto("halt_left", "halt_right") \/ Goto("stop_left", "stop_right")
        /\ left_motor_set_speed(0)
     \/ /\ Goto("halt_right", "load_rythm") \/ Goto("stop_right", "stop_dac")
        /\ right_motor_set_speed(0)
  /\ UNCHANGED <<sound, song, ROBOT_STATE, regs, last_note>>

(* Mutant: the tone goes on through the silence that detaches the notes. *)
MuteNotDetaching ==
  /\ \/ Goto("mute", "halt_left") /\ dac_stop
     \/ Goto("detach", "offset_sleep") /\ UNCHANGED sound
     \/ Goto("stop_dac", "test") /\ dac_stop
  /\ UNCHANGED <<motor, song, ROBOT_STATE, regs, last_note>>

(* dac_stop: before a silence, at the end of a note, and in stop_dancing *)
Mute ==
  /\ \/ Goto("mute", "halt_left")
     \/ Goto("detach", "offset_sleep")
     \/ Goto("stop_dac", "test")
  /\ dac_stop
  /\ UNCHANGED <<motor, song, ROBOT_STATE, regs, last_note>>

(* Mutant: music_position++ is inside the if of the note duration. *)
TestRythmBeforeIncrement ==
  /\ dance = "rythm"
  /\ dance' = IF current_song.rythm[index] > note_offset THEN "load_deadline" ELSE "load_end"
  /\ UNCHANGED <<actuators, song, ROBOT_STATE, regs, last_note>>

(* Mutant: music_position++ is inside the index of this if. *)
TestRythmPostIncrement ==
  /\ dance = "rythm"
  /\ dance' = IF current_song.rythm[index] > note_offset THEN "load_deadline" ELSE "load_end"
  /\ music_position' = index + 1
  /\ UNCHANGED <<actuators, is_dancing, current_song, ROBOT_STATE, regs, last_note>>

(* if (current_song.rythm[music_position] > note_offset) *)
TestRythm ==
  /\ dance = "rythm"
  /\ dance' = IF current_song.rythm[index] > note_offset THEN "load_deadline" ELSE "load_inc"
  /\ UNCHANGED <<actuators, song, ROBOT_STATE, regs, last_note>>

(* chThdSleepUntilWindowed, given the second read of the duration: it      *)
(* sleeps, or returns at once when the thread is late.                     *)
Deadline ==
  /\ Goto("deadline", "note_sleep") \/ Goto("deadline", "detach")
  /\ UNCHANGED <<actuators, song, ROBOT_STATE, regs, last_note>>

(* Mutant: the position is incremented once more than it was read. *)
StorePositionTwice ==
  /\ Goto("inc", "load_end")
  /\ music_position' = index + 2
  /\ UNCHANGED <<actuators, is_dancing, current_song, ROBOT_STATE, regs, last_note>>

(* the store of music_position++ *)
StorePosition ==
  /\ Goto("inc", "load_end")
  /\ music_position' = index + 1
  /\ UNCHANGED <<actuators, is_dancing, current_song, ROBOT_STATE, regs, last_note>>

(* Mutants: the comparison with MUSIC_SIZE is off by one. *)
TestEndLate ==
  /\ dance = "end"
  /\ dance' = IF index > MUSIC_SIZE THEN "stop_flag" ELSE "test"
  /\ UNCHANGED <<actuators, song, ROBOT_STATE, regs, last_note>>

TestEndEarly ==
  /\ dance = "end"
  /\ dance' = IF index >= MUSIC_SIZE - 1 THEN "stop_flag" ELSE "test"
  /\ UNCHANGED <<actuators, song, ROBOT_STATE, regs, last_note>>

(* if (music_position >= MUSIC_SIZE) *)
TestEnd ==
  /\ dance = "end"
  /\ dance' = IF index >= MUSIC_SIZE THEN "stop_flag" ELSE "test"
  /\ UNCHANGED <<actuators, song, ROBOT_STATE, regs, last_note>>

(* Mutants: stop_dancing forgets one of its variables. *)
StopFlagForgotten ==
  /\ Goto("stop_flag", "stop_position")
  /\ UNCHANGED <<actuators, song, ROBOT_STATE, regs, last_note>>

StopPositionForgotten ==
  /\ Goto("stop_position", "stop_left")
  /\ UNCHANGED <<actuators, song, ROBOT_STATE, regs, last_note>>

(* The two stores with which stop_dancing begins, run by Dance itself. *)
StopFlag ==
  /\ Goto("stop_flag", "stop_position")
  /\ is_dancing' = FALSE
  /\ last_note' = NoNote
  /\ UNCHANGED <<actuators, music_position, current_song, ROBOT_STATE, regs>>

StopPosition ==
  /\ Goto("stop_position", "stop_left")
  /\ music_position' = 0
  /\ UNCHANGED <<actuators, is_dancing, current_song, ROBOT_STATE, regs, last_note>>

DanceStep ==
  \/ TestIsDancing \/ TestState \/ WakeUp
  \/ LoadPosition \/ TestNote \/ Play \/ SetWheels
  \/ Mute \/ HaltWheels \/ TestRythm \/ Deadline
  \/ StorePosition \/ TestEnd \/ StopFlag \/ StopPosition

-----------------------------------------------------------------------------
(* Dance among arbitrary callers: between two of its steps another thread  *)
(* may change the state of the robot, stop the motors, and call            *)
(* stop_dancing or restart_dance.                                          *)

Caller ==
  /\ ROBOT_STATE' \in State
  /\ \/ stop_dancing
     \/ \E country \in Flag : restart_dance(country)
     \/ motor' \in {motor, Stopped} /\ UNCHANGED <<sound, song, last_note>>
  /\ UNCHANGED <<dance, regs>>

DanceInit ==
  /\ PeripheralsInit
  /\ is_dancing = FALSE
  /\ music_position = 0
  /\ current_song = NO_MUSIC
  /\ ROBOT_STATE = "WAIT"
  /\ dance = "test"
  /\ index = 0
  /\ figure = Stopped
  /\ last_note = NoNote

DanceNext == DanceStep \/ Caller

DanceSpec == DanceInit /\ [][DanceNext]_dvars

-----------------------------------------------------------------------------
Places == {"test", "test_state", "test_dancing", "idle", "load_note", "note",
           "load_play", "play", "left", "right", "mute", "halt_left",
           "halt_right", "load_rythm", "rythm", "load_deadline", "deadline",
           "note_sleep", "detach", "offset_sleep", "load_inc", "inc", "load_end",
           "end", "stop_flag", "stop_position", "stop_left", "stop_right",
           "stop_dac"}

(* The variables of dance.c hold values of their types; music_position     *)
(* reaches MUSIC_SIZE but never exceeds it.                                *)
DanceTypeOK ==
  /\ PeripheralsTypeOK
  /\ is_dancing \in BOOLEAN
  /\ music_position \in 0 .. MUSIC_SIZE
  /\ current_song \in Music
  /\ ROBOT_STATE \in State
  /\ dance \in Places
  /\ index \in 0 .. MUSIC_SIZE
  /\ figure \in Wheels
  /\ last_note \in Position \cup {NoNote}

(* Dance reads current_song.notes and current_song.rythm only inside the   *)
(* arrays, although music_position is MUSIC_SIZE for a while at the end of *)
(* a song and other threads reset it at any moment of music_position++.    *)
Indexing == {"note", "play", "rythm", "deadline"}
IndexInSong == dance \in Indexing => index < MUSIC_SIZE

(* What makes it so, and is inductive: music_position is MUSIC_SIZE only   *)
(* from its increment to the reset in stop_dancing, with Dance on its way  *)
(* to that reset and its copy of the position up to date.                  *)
Closing ==
  \/ dance \in {"load_end", "stop_flag", "stop_position"}
  \/ dance = "end" /\ index = MUSIC_SIZE

DanceInv ==
  /\ DanceTypeOK
  /\ dance \in Indexing \cup {"inc"} => index < MUSIC_SIZE
  /\ music_position = MUSIC_SIZE => Closing

(* A note is read up to four times, each time at music_position.  The      *)
(* later reads, of the tone that is played and of the duration that is     *)
(* slept, are of the note that the tests saw, in the song where they saw   *)
(* it.  Only if its dance was stopped or restarted in between may they be  *)
(* of another note, and the position is that of the first one then.        *)
NoteInHand == IF last_note = NoNote THEN 0 ELSE last_note
SecondReads ==
  /\ dance \in {"load_play", "load_rythm", "load_deadline"} => music_position = NoteInHand
  /\ last_note # NoNote =>
       /\ dance \in {"play", "rythm", "deadline"} => index = last_note
       /\ dance \in {"load_play", "play"} => current_song.notes[last_note] # SILENCE
       /\ dance \in {"load_deadline", "deadline"} => current_song.rythm[last_note] > note_offset
=============================================================================

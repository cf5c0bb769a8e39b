----------------------------- MODULE DanceProofs -----------------------------
(* Proofs about the thread Dance among arbitrary callers, for every        *)
(* MUSIC_SIZE, every set of songs and every note_offset.                   *)
EXTENDS Dance, TLAPS

(* Every flag has a song: LUT_flag_to_music returns a Music. *)
LEMMA LookUpType ==
  ASSUME NEW country \in Flag
  PROVE  LUT_flag_to_music(country) \in Music
<1>1. NO_MUSIC \in Music
  BY DEF NO_MUSIC, Music, SILENCE
<1>2. QED
  BY <1>1, DanceAssumption DEF LUT_flag_to_music, Flag

(* The initial state satisfies the inductive invariant. *)
LEMMA DanceInitInv == DanceInit => DanceInv
<1>1. NO_MUSIC \in Music
  BY DEF NO_MUSIC, Music, SILENCE
<1>2. Stopped \in Wheels
  BY DEF Stopped, Wheels, Speed
<1>3. ASSUME DanceInit
      PROVE  music_position # MUSIC_SIZE
  BY <1>3, DanceAssumption DEF DanceInit
<1>4. ASSUME DanceInit
      PROVE  DanceTypeOK
  <2>1. is_dancing \in BOOLEAN /\ PeripheralsTypeOK
    BY <1>2, <1>4 DEF DanceInit, PeripheralsInit, PeripheralsTypeOK
  <2>2. music_position \in 0 .. MUSIC_SIZE /\ index \in 0 .. MUSIC_SIZE
    BY <1>4, DanceAssumption DEF DanceInit
  <2>3. ROBOT_STATE \in State /\ dance \in Places
    BY <1>4 DEF DanceInit, State, Places
  <2>4. current_song \in Music /\ figure \in Wheels /\ last_note \in Position \cup {NoNote}
    BY <1>1, <1>2, <1>4 DEF DanceInit
  <2>5. QED
    BY <2>1, <2>2, <2>3, <2>4 DEF DanceTypeOK
<1>5. QED
  BY <1>3, <1>4 DEF DanceInit, DanceInv, Indexing

(* A step of the thread preserves the inductive invariant. *)
LEMMA DanceStepInv ==
  ASSUME DanceInv, DanceStep
  PROVE  DanceInv'
<1> USE DanceAssumption
<1> USE DEF DanceInv, DanceTypeOK, PeripheralsTypeOK, Closing, Places, Goto,
            Indexing, actuators, song, regs
<1>1. CASE TestIsDancing
  BY <1>1 DEF TestIsDancing
<1>2. CASE TestState
  BY <1>2 DEF TestState
<1>3. CASE WakeUp
  BY <1>3 DEF WakeUp
<1>4. CASE LoadPosition
  BY <1>4 DEF LoadPosition
<1>5. CASE TestNote
  BY <1>5 DEF TestNote, Position
<1>6. CASE Play
  BY <1>6 DEF Play, dac_play, Figures, Wheels, Speed
<1>7. CASE SetWheels
  BY <1>7 DEF SetWheels, left_motor_set_speed, right_motor_set_speed, Wheels, Speed
<1>8. CASE HaltWheels
  BY <1>8 DEF HaltWheels, left_motor_set_speed, right_motor_set_speed, Wheels, Speed
<1>9. CASE Mute
  BY <1>9 DEF Mute, dac_stop
<1>10. CASE TestRythm
  BY <1>10 DEF TestRythm
<1>11. CASE StorePosition
  BY <1>11 DEF StorePosition
<1>12. CASE TestEnd
  BY <1>12 DEF TestEnd
<1>13. CASE StopFlag
  BY <1>13 DEF StopFlag
<1>14. CASE StopPosition
  BY <1>14 DEF StopPosition
<1>15. CASE Deadline
  BY <1>15 DEF Deadline
<1>16. QED
  BY <1>1, <1>2, <1>3, <1>4, <1>5, <1>6, <1>7, <1>8, <1>9, <1>10, <1>11, <1>12,
     <1>13, <1>14, <1>15 DEF DanceStep

(* Whatever another thread does between two steps preserves it too. *)
LEMMA CallerInv ==
  ASSUME DanceInv, Caller
  PROVE  DanceInv'
<1> USE DanceAssumption
<1> USE DEF DanceInv, DanceTypeOK, PeripheralsTypeOK, Closing, Indexing, Caller, song, regs, actuators
<1>1. CASE stop_dancing
  <2>1. is_dancing' \in BOOLEAN /\ sound' \in BOOLEAN
    BY <1>1 DEF stop_dancing, dac_stop
  <2>2. music_position' \in 0 .. MUSIC_SIZE /\ music_position' # MUSIC_SIZE
    BY <1>1 DEF stop_dancing
  <2>3. motor' \in Wheels /\ current_song' = current_song /\ last_note' = NoNote
    BY <1>1 DEF stop_dancing, Stopped, Wheels, Speed
  <2>4. QED
    BY <2>1, <2>2, <2>3
<1>2. ASSUME NEW country \in Flag, restart_dance(country)
      PROVE  DanceInv'
  <2>1. is_dancing' \in BOOLEAN /\ current_song' \in Music
    BY <1>2, LookUpType DEF restart_dance
  <2>2. music_position' \in 0 .. MUSIC_SIZE /\ music_position' # MUSIC_SIZE
    BY <1>2 DEF restart_dance
  <2>3. motor' = motor /\ sound' = sound /\ last_note' = NoNote
    BY <1>2 DEF restart_dance
  <2>4. QED
    BY <2>1, <2>2, <2>3
<1>3. CASE motor' \in {motor, Stopped} /\ UNCHANGED <<sound, song, last_note>>
  BY <1>3 DEF Stopped, Wheels, Speed
<1>4. QED
  BY <1>1, <1>2, <1>3

(* DanceInv is inductive. *)
THEOREM DanceInvariant == DanceSpec => []DanceInv
<1>1. DanceInv /\ [DanceNext]_dvars => DanceInv'
  <2> SUFFICES ASSUME DanceInv, [DanceNext]_dvars
               PROVE  DanceInv'
    OBVIOUS
  <2>1. CASE DanceStep
    BY <2>1, DanceStepInv
  <2>2. CASE Caller
    BY <2>2, CallerInv
  <2>3. CASE UNCHANGED dvars
    BY <2>3 DEF DanceInv, DanceTypeOK, PeripheralsTypeOK, Closing, Indexing, dvars, song, regs,
                actuators
  <2>4. QED
    BY <2>1, <2>2, <2>3 DEF DanceNext
<1>2. QED
  BY <1>1, DanceInitInv, PTL DEF DanceSpec

(* Dance never reads beyond the end of a song, whenever another thread     *)
(* resets music_position.                                                  *)
THEOREM DanceStaysInSong == DanceSpec => []IndexInSong
<1>1. DanceInv => IndexInSong
  BY DanceAssumption DEF DanceInv, IndexInSong
<1>2. QED
  BY <1>1, DanceInvariant, PTL
=============================================================================

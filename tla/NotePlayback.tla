---------------------------- MODULE NotePlayback -----------------------------
(***************************************************************************)
(* One dance in time: the notes of a song, the sleeps of src/src/dance.c   *)
(* that give each its duration, and the clock.  The code of Dance itself   *)
(* takes no time; ManageStates, of higher priority, may hold the core for  *)
(* some ticks at any moment, and an obstacle makes Dance idle before a     *)
(* note.  That nobody stops the dance or exchanges the song is what        *)
(* SecondReads and GivesRecitals of JeanBot say.                           *)
(***************************************************************************)
EXTENDS SystemTime, SongBook

CONSTANTS
  note_offset,  \* silence that detaches two notes, in ticks
  IDLE,         \* the chThdSleep of a Dance that is not to dance
  Rythms,       \* the durations of the songs, in ticks
  Starts,       \* when the dance may begin
  Holds,        \* how long ManageStates may hold the core
  MaxHeld,      \* bound: what the holds and pauses of a dance add up to
  Written,      \* songs as music.c writes them
  Sixteenths    \* of each of them, what its first notes are written for

Position == 0 .. MUSIC_SIZE - 1

ASSUME PlaybackAssumption ==
  /\ MUSIC_SIZE \in Nat \ {0}
  /\ note_offset \in Nat /\ IDLE \in Nat /\ MaxHeld \in Nat
  /\ Holds \subseteq Nat /\ Starts \subseteq SysTime
  /\ Rythms \subseteq [Position -> Nat]
  /\ \A r \in Rythms : \A p \in Position : r[p] + MaxHeld < Range
  /\ note_offset < Range

(* A song that can be played: no duration overflows 16 bits or is as short *)
(* as note_offset.                                                         *)
IsSong(w) ==
  /\ w.tempo \in 1 .. NOTE_TO_MS
  /\ w.durations \in Seq(Nat \ {0})
  /\ Len(w.durations) \in 1 .. MUSIC_SIZE
  /\ \A p \in 1 .. Len(w.durations) :
       LET ms == w.durations[p] * (NOTE_TO_MS \div w.tempo)
       IN  note_offset < ms /\ ms < 2^16

(* sum[p] is what the first p notes are written for.                       *)
Sums(w, sum) ==
  /\ sum \in [0 .. MUSIC_SIZE -> Nat]
  /\ sum[0] = 0
  /\ \A p \in Position :
       sum[p + 1] = sum[p] + (IF p < Len(w.durations) THEN w.durations[p + 1] ELSE 0)

ASSUME SongAssumption == \A w \in Written : IsSong(w) /\ Sums(w, Sixteenths[w])

VARIABLES
  now,       \* chVTGetSystemTime()
  rythm,     \* current_song.rythm
  place,     \* of Dance
  position,  \* music_position
  time,      \* its local variable: when the note began
  until,     \* deadline of the note's first sleep
  score,     \* history: the durations of the notes played
  elapsed,   \* history: ticks since the dance began
  lag,       \* history: ticks Dance was held in the note so far
  held       \* history: ticks Dance was held and could not catch up with

history == <<score, elapsed, lag, held>>
pvars   == <<now, rythm, place, position, time, until, history>>

-----------------------------------------------------------------------------
(* time = chVTGetSystemTime(), and the tone and the figure of the note. *)
BeginNote ==
  /\ place = "test" /\ place' = "rythm"
  /\ time' = now
  /\ UNCHANGED <<now, rythm, position, until, history>>

(* Mutant: every note is slept, as if no note were short. *)
TestRythmAlways ==
  /\ place = "rythm"
  /\ place' = "window"
  /\ until' = Plus(time, Minus(rythm[position], note_offset))
  /\ UNCHANGED <<now, rythm, position, time, history>>

(* Mutant: the silence that detaches the notes makes them longer. *)
TestRythmWithoutOffset ==
  /\ place = "rythm"
  /\ IF rythm[position] > note_offset
     THEN /\ place' = "window"
          /\ until' = Plus(time, rythm[position])
     ELSE place' = "next" /\ UNCHANGED until
  /\ UNCHANGED <<now, rythm, position, time, history>>

(* if (rythm > note_offset), and time + rythm - note_offset *)
TestRythm ==
  /\ place = "rythm"
  /\ IF rythm[position] > note_offset
     THEN /\ place' = "window"
          /\ until' = Plus(time, rythm[position] - note_offset)
     ELSE place' = "next" /\ UNCHANGED until
  /\ UNCHANGED <<now, rythm, position, time, history>>

(* Mutant: a sleep of a given length, which a late thread begins late. *)
SleepForDuration ==
  /\ place = "window" /\ place' = "note_sleep"
  /\ until' = Plus(now, rythm[position] - note_offset)
  /\ lag' = 0
  /\ UNCHANGED <<now, rythm, position, time, score, elapsed, held>>

(* chThdSleepUntilWindowed(time, until): a thread that comes too late does *)
(* not sleep; one in time wakes up as if it had not been held.             *)
SleepUntilWindowed ==
  /\ place = "window"
  /\ IF Within(now, time, until)
     THEN place' = "note_sleep" /\ held' = held
     ELSE place' = "detach"     /\ held' = held + lag
  /\ lag' = 0
  /\ UNCHANGED <<now, rythm, position, time, until, score, elapsed>>

Wake ==
  /\ place = "note_sleep" /\ place' = "detach"
  /\ now' = until
  /\ elapsed' = elapsed + Minus(until, now)
  /\ UNCHANGED <<rythm, position, time, until, score, lag, held>>

(* dac_stop and the whole of chThdSleep(note_offset) *)
Detach ==
  /\ place = "detach" /\ place' = "next"
  /\ now' = Plus(now, note_offset)
  /\ elapsed' = elapsed + note_offset
  /\ UNCHANGED <<rythm, position, time, until, score, lag, held>>

(* music_position++, and the test for the end of the song *)
NextNote ==
  /\ place = "next"
  /\ place' = IF position + 1 >= MUSIC_SIZE THEN "over" ELSE "test"
  /\ position' = position + 1
  /\ score' = score + (IF rythm[position] > note_offset THEN rythm[position] ELSE 0)
  /\ lag' = 0 /\ held' = held + lag
  /\ UNCHANGED <<now, rythm, time, until, elapsed>>

-----------------------------------------------------------------------------
(* ManageStates holds the core while Dance is ready. *)
Hold(d) ==
  /\ place \notin {"note_sleep", "over"}
  /\ held + lag + d <= MaxHeld
  /\ now' = Plus(now, d)
  /\ elapsed' = elapsed + d
  /\ IF place \in {"rythm", "window"} THEN lag' = lag + d /\ held' = held
                                      ELSE held' = held + d /\ lag' = lag
  /\ UNCHANGED <<rythm, place, position, time, until, score>>

(* The state is PAUSE when Dance is about to begin a note: chThdSleep(100). *)
Pause ==
  /\ place = "test"
  /\ held + IDLE <= MaxHeld
  /\ now' = Plus(now, IDLE)
  /\ elapsed' = elapsed + IDLE
  /\ held' = held + IDLE
  /\ UNCHANGED <<rythm, place, position, time, until, score, lag>>

(* After the last note Dance idles until the next dance. *)
Rest == place = "over" /\ UNCHANGED pvars

PlaybackInit ==
  /\ now \in Starts
  /\ rythm \in Rythms
  /\ place = "test" /\ position = 0
  /\ time = 0 /\ until = 0
  /\ score = 0 /\ elapsed = 0 /\ lag = 0 /\ held = 0

PlaybackNext ==
  \/ BeginNote \/ TestRythm \/ SleepUntilWindowed \/ Wake \/ Detach \/ NextNote
  \/ (\E d \in Holds : Hold(d)) \/ Pause \/ Rest

PlaybackSpec == PlaybackInit /\ [][PlaybackNext]_pvars

-----------------------------------------------------------------------------
PlaybackTypeOK ==
  /\ now \in SysTime /\ time \in SysTime /\ until \in SysTime
  /\ rythm \in Rythms
  /\ place \in {"test", "rythm", "window", "note_sleep", "detach", "next", "over"}
  /\ position \in 0 .. MUSIC_SIZE
  /\ place # "over" => position < MUSIC_SIZE
  /\ score \in Nat /\ elapsed \in Nat /\ lag \in Nat /\ held \in Nat

(* Dance keeps the tempo: before each note and at the end of the song the  *)
(* time since the song began is that of its notes, plus what Dance was     *)
(* held outside the first sleep of a note or beyond its deadline.  A hold  *)
(* at the beginning of a note is caught up, wherever the clock wraps.      *)
TempoKept == place \in {"test", "over"} => score <= elapsed /\ elapsed <= score + held

(* No sleep is longer than the note it is for: the deadline is never       *)
(* behind the clock, from where it would be a turn of the clock away.      *)
NeverOversleeps ==
  place = "note_sleep" => Minus(until, now) <= rythm[position] - note_offset

(* What makes it so: at every place the time since the song began is the   *)
(* duration of its notes, the part of this note that is over or about to   *)
(* be, and no more than what Dance was held.                               *)
Spent(from, to) == score + from <= elapsed /\ elapsed <= score + held + to

PlaybackInv ==
  /\ PlaybackTypeOK
  /\ TempoKept
  /\ NeverOversleeps
  /\ held + lag <= MaxHeld
  /\ place \in {"test", "note_sleep", "detach", "over"} => lag = 0
  /\ place \in {"rythm", "window"} => now = Plus(time, lag) /\ Spent(lag, lag)
  /\ place \in {"window", "note_sleep", "detach"} => rythm[position] > note_offset
  /\ place = "window" => until = Plus(time, rythm[position] - note_offset)
  /\ place = "note_sleep" => LET left == Minus(until, now)
                                 note == rythm[position] - note_offset
                             IN  Spent(note - left, note - left)
  /\ place = "detach" => Spent(rythm[position] - note_offset, rythm[position] - note_offset)
  /\ place = "next" => IF rythm[position] > note_offset
                       THEN lag = 0 /\ Spent(rythm[position], rythm[position])
                       ELSE Spent(0, lag)

(* A song that is over has been played in full: every note written lasts   *)
(* longer than note_offset, so that its end can be told, nothing is slept  *)
(* behind the last one, and the integer division costs less than a         *)
(* millisecond per sixteenth.                                              *)
InFull(w, sixteenths) ==
  /\ {p \in Position : rythm[p] > note_offset} = 0 .. Len(w.durations) - 1
  /\ sixteenths * (NOTE_TO_MS - w.tempo) < score * w.tempo
  /\ score * w.tempo <= sixteenths * NOTE_TO_MS

PlayedInFull ==
  place = "over" =>
    \A w \in Written : rythm = Music(w).rythm => InFull(w, Sixteenths[w][MUSIC_SIZE])
=============================================================================

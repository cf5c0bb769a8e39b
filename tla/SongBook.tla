------------------------------ MODULE SongBook -------------------------------
(***************************************************************************)
(* The four songs of src/src/music.c.  A song is written as its durations, *)
(* in sixteenths of a whole note, and the positions of its silences; which *)
(* tones it has is left out.  Music makes the arrays of dance.c of it.     *)
(***************************************************************************)
EXTENDS Integers, Sequences

CONSTANT MUSIC_SIZE   \* number of notes of a Music

NOTE_TO_MS == 15000
SILENCE    == 0
TONE       == 1    \* some frequency of play_melody.h

MARSEILLAISE ==
  [tempo     |-> 110,
   durations |-> << 1, 3, 1, 4, 4, 4, 4, 6, 2, 2, 1, 1, 3, 1, 4, 8, 3, 1, 8, 4,
                    3, 1, 4, 4, 4, 3, 1, 4, 4, 4, 3, 1, 4, 4, 4, 3, 1, 8, 4,
                    3, 1, 4, 3, 1, 4, 3, 1, 2, 1, 1, 2, 2, 2, 2, 2 >>,
   silences  |-> {10, 19, 29, 38, 52}]

BELLA_CIAO ==
  [tempo     |-> 136,
   durations |-> << 2, 2, 2, 2, 4, 4, 2, 2, 2, 2, 4, 4, 2, 2, 2, 4, 2, 2, 4,
                    2, 2, 4, 4, 4, 2, 2, 2, 4, 4, 2, 2, 2, 2, 4, 4, 2, 2, 2,
                    4, 4, 4, 4, 8 >>,
   silences  |-> {5, 11, 28, 34}]

WII_THEME ==
  [tempo     |-> 114,
   durations |-> << 2, 2, 2, 2, 2, 2, 2, 2, 2, 2, 2, 8, 2, 2, 2, 2, 2, 2, 2,
                    2, 2, 6, 2, 2, 6, 2, 2, 2, 2, 2, 2, 2, 2, 2, 2, 2, 2, 2,
                    2, 2, 2, 2, 2, 2, 6, 2, 2, 2, 8, 2, 2, 2, 2, 2, 2 >>,
   silences  |-> {1, 4, 6, 11, 17, 19, 24, 26, 29, 31, 33, 35, 38, 40, 44, 48}]

LA_DANSE_DES_CANARDS ==
  [tempo     |-> 192,
   durations |-> << 2, 2, 2, 2, 2, 2, 4, 2, 2, 2, 2, 2, 2, 4, 2, 2, 2, 2, 2,
                    2, 4, 4, 4, 4, 4, 2, 2, 2, 2, 2, 2, 4, 2, 2, 2, 2, 2, 2,
                    4, 2, 2, 2, 2, 2, 2, 4, 4, 4, 4, 4 >>,
   silences  |-> {}]

Book == {MARSEILLAISE, BELLA_CIAO, WII_THEME, LA_DANSE_DES_CANARDS}

(* Mutant: the product with NOTE_TO_MS comes first, and is cut to 16 bits. *)
MillisecondsOverflowing(duration, tempo) == ((duration * NOTE_TO_MS) % 2^16) \div tempo

(* song.rythm[i] *= NOTE_TO_MS / tempo, in 16 bits and after an integer    *)
(* division                                                                *)
Milliseconds(duration, tempo) == (duration * (NOTE_TO_MS \div tempo)) % 2^16

(* The initialiser leaves zeros behind the last note of a short song. *)
Music(w) ==
  LET note == 0 .. Len(w.durations) - 1
      pos  == 0 .. MUSIC_SIZE - 1
  IN  [rythm |-> [p \in pos |-> IF p \in note
                                THEN Milliseconds(w.durations[p + 1], w.tempo) ELSE 0],
       notes |-> [p \in pos |-> IF p \in note \ w.silences THEN TONE ELSE SILENCE]]
=============================================================================

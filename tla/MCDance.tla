------------------------------- MODULE MCDance -------------------------------
(* Songs for TLC, in place of those of music.c: the first has a silence in *)
(* its middle, the second is shorter than MUSIC_SIZE and padded with zeros *)
(* the way a C initialiser is, and has a note too short to be detached.    *)
EXTENDS Dance

(* A song written as for each note <<frequency, duration>>. *)
Score(notes) == [notes |-> [p \in Position |-> notes[p + 1][1]],
                 rythm |-> [p \in Position |-> notes[p + 1][2]]]

MCSongs == [c \in Country |->
  IF c = "FRANCE" THEN Score(<< <<1, 2>>, <<0, 2>>, <<1, 2>> >>)
                  ELSE Score(<< <<1, 2>>, <<1, 1>>, <<0, 0>> >>)]
=============================================================================

--------------------------- MODULE MCNotePlayback ----------------------------
(* NotePlayback with the songs of music.c. *)
EXTENDS NotePlayback

Sets == INSTANCE FiniteSetsExt

BookRythms == {Music(w).rythm : w \in Book}

(* What Dance reads again after a reset of the position is no silence and  *)
(* no note too short to be slept.                                          *)
ASSUME BookFirstNotes ==
  \A w \in Book : Music(w).notes[0] = TONE /\ Music(w).rythm[0] > note_offset

BookSixteenths ==
  [w \in Book |->
    [n \in 0 .. MUSIC_SIZE |->
      Sets!MapThenSumSet(LAMBDA p : w.durations[p], {p \in DOMAIN w.durations : p <= n})]]
=============================================================================

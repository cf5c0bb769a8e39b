------------------------------- MODULE Recital -------------------------------
(***************************************************************************)
(* What the robot gives its audience, without threads: it chooses a piece  *)
(* and performs it note after note to its last one, and breaks off only to *)
(* choose again.  It may come late, and misses the notes until then.       *)
(***************************************************************************)
EXTENDS Integers

CONSTANTS
  MUSIC_SIZE,  \* number of notes of a piece
  Piece        \* what may be performed

VARIABLES
  choosing,    \* the audience has asked for another piece
  performing,
  piece,
  reached      \* how far it has come: the number of the note it is in

recital == <<choosing, performing, piece, reached>>

Choose ==
  /\ ~choosing /\ choosing' = TRUE
  /\ performing' = FALSE /\ reached' = 0
  /\ UNCHANGED piece

GiveUpChoosing ==
  /\ choosing /\ choosing' = FALSE
  /\ ~performing
  /\ UNCHANGED <<performing, piece, reached>>

Begin ==
  /\ choosing /\ choosing' = FALSE
  /\ ~performing /\ performing' = TRUE
  /\ piece' \in Piece
  /\ reached' = 0

(* The robot may be late, and begin with a later note than the first; then *)
(* it misses no other.                                                     *)
NextNote ==
  /\ performing
  /\ reached' = reached + 1 \/ (reached = 0 /\ reached' \in 2 .. MUSIC_SIZE)
  /\ reached' <= MUSIC_SIZE
  /\ UNCHANGED <<choosing, performing, piece>>

(* After its last note, or too late for all of them. *)
Finish ==
  /\ performing /\ performing' = FALSE
  /\ reached \in {0, MUSIC_SIZE} /\ reached' = 0
  /\ UNCHANGED <<choosing, piece>>

RecitalInit == choosing = FALSE /\ performing = FALSE /\ reached = 0

RecitalNext == Choose \/ GiveUpChoosing \/ Begin \/ NextNote \/ Finish

RecitalSpec == RecitalInit /\ [][RecitalNext]_recital
=============================================================================

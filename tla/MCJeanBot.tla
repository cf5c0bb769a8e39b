------------------------------ MODULE MCJeanBot ------------------------------
(* JeanBot with the songs of MCDance. *)
EXTENDS JeanBot, MCDance
=============================================================================

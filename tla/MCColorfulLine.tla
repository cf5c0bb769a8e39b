--------------------------- MODULE MCColorfulLine ----------------------------
(* One line for TLC, at the size of the camera: six objects of 80 pixels   *)
(* with narrow ones, of 20 pixels, around them.                            *)
EXTENDS ColorBands

ColorfulLine ==
  [p \in Pixel |-> IF p % 100 < 20 \/ p >= 600 THEN "GREEN"
                   ELSE IF (p \div 100) % 2 = 0 THEN "WHITE" ELSE "RED"]
ColorfulLines == {ColorfulLine}
=============================================================================

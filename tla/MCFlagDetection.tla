--------------------------- MODULE MCFlagDetection ---------------------------
(* Lines for TLC. *)
EXTENDS FlagDetection, TLC

(* Every line over some colours that ends with a stripe of three pixels    *)
(* and begins with one, perhaps after a pixel of something else.           *)
LinesOver(colors) ==
  LET stripe(l, p) == l[p] = l[p + 1] /\ l[p + 1] = l[p + 2]
      begins == {l \in [0 .. 3 -> colors] : stripe(l, 0) \/ stripe(l, 1)}
      ends   == {l \in [IMAGE_BUFFER_SIZE - 3 .. IMAGE_BUFFER_SIZE - 1 -> colors] :
                   stripe(l, IMAGE_BUFFER_SIZE - 3)}
      middles == [4 .. IMAGE_BUFFER_SIZE - 4 -> colors]
  IN  {b @@ m @@ e : b \in begins, m \in middles, e \in ends}

(* The camera's pixels of an object of some colour, in dim and bright      *)
(* light: next to the margins and next to the ends of the scale.           *)
Dim == [RED |-> Rgb565(2, 0, 0), GREEN |-> Rgb565(0, 6, 0), BLUE |-> Rgb565(0, 0, 3),
        WHITE |-> Rgb565(11, 21, 11), UNDEFINED_COLOR |-> Rgb565(10, 20, 12)]
Bright == [RED |-> Rgb565(31, 58, 29), GREEN |-> Rgb565(28, 62, 28), BLUE |-> Rgb565(28, 56, 31),
           WHITE |-> Rgb565(30, 63, 31), UNDEFINED_COLOR |-> Rgb565(10, 63, 29)]

(* A line over some colours as the camera delivers it, dim on the left. *)
Image(line) ==
  [p \in Pixel |-> IF p < IMAGE_BUFFER_SIZE \div 2 THEN Dim[line[p]] ELSE Bright[line[p]]]

(* The least and the greatest of the intensities that the camera delivers  *)
(* alike, of every level of red and blue.                                  *)
Extremes == {x \in 0 .. 255 : x % 8 \in {0, 7}}

ShortLines ==
  {ColorLine(Image(l)) : l \in LinesOver({"BLUE", "WHITE", "RED"})
                               \cup LinesOver({"UNDEFINED_COLOR", "WHITE", "RED"})}
=============================================================================

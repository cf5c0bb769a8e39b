----------------------------- MODULE PixelColor -----------------------------
(***************************************************************************)
(* How get_flag of src/src/flag_detection.c puts the two bytes of a pixel  *)
(* together, and how get_color classifies it.                              *)
(***************************************************************************)
EXTENDS Integers

CONSTANT Intensity   \* the intensities of light, in one component of a pixel

ASSUME IntensityAssumption == Intensity \subseteq 0 .. 255

RED_CORRECTION   == 8
GREEN_CORRECTION == 4
BLUE_CORRECTION  == 8

WHITE_THRESHOLD == 80
RED_MARGIN      == 15
GREEN_MARGIN    == 20
BLUE_MARGIN     == 20

(* What a variable of type uint8_t keeps of a number. *)
Narrow(n) == n % 2^8

(* The components of a pixel: 5, 6 and 5 bits of it on a scale to 255. *)
red(pixel)   == Narrow((pixel \div 2^11) * RED_CORRECTION)
green(pixel) == Narrow(((pixel \div 2^5) % 2^6) * GREEN_CORRECTION)
blue(pixel)  == Narrow((pixel % 2^5) * BLUE_CORRECTION)

(* Mutant: the sum is as narrow as its operands. *)
ExceedsNarrow(component, other, margin) == component > Narrow(other + margin)

(* The sum is an int. *)
Exceeds(component, other, margin) == component > other + margin

Classify(r, g, b) ==
  IF Exceeds(r, b, RED_MARGIN) /\ Exceeds(r, g, RED_MARGIN) THEN "RED"
  ELSE IF Exceeds(b, r, BLUE_MARGIN) /\ Exceeds(b, g, BLUE_MARGIN) THEN "BLUE"
  ELSE IF Exceeds(g, r, GREEN_MARGIN) /\ Exceeds(g, b, GREEN_MARGIN) THEN "GREEN"
  ELSE IF r > WHITE_THRESHOLD /\ b > WHITE_THRESHOLD /\ g > WHITE_THRESHOLD THEN "WHITE"
  ELSE "UNDEFINED_COLOR"

get_color(pixel) == Classify(red(pixel), green(pixel), blue(pixel))

(* The first byte of a pixel is its high one. *)
Assemble(high, low) == high * 2^8 + low

(* The pair of bytes the camera delivers, configured for FORMAT_RGB565. *)
Rgb565(r, g, b) == <<8 * r + g \div 8, 32 * (g % 8) + b>>

(* The colour of a pixel of such an image. *)
Seen(bytes) == get_color(Assemble(bytes[1], bytes[2]))

(* Light as the camera delivers it: the high bits of each component. *)
Camera(r, g, b) == Rgb565(r \div 8, g \div 4, b \div 8)

(* The first component is stronger than the two others by a margin. *)
Beats(x, y, z, margin) == x > y + margin /\ x > z + margin

(* What the low bits that the camera drops may change in a comparison. *)
Dropped == 7

(* Light has the hue of its strongest component, if that is stronger by    *)
(* the margin of this hue; the dropped bits are all that may be missing.   *)
SeesStrongest ==
  \A r, g, b \in Intensity :
    LET seen == Seen(Camera(r, g, b))
    IN  /\ Beats(r, g, b, RED_MARGIN + Dropped) => seen = "RED"
        /\ seen = "RED" => Beats(r, g, b, RED_MARGIN - Dropped)
        /\ Beats(g, r, b, GREEN_MARGIN + Dropped) => seen = "GREEN"
        /\ seen = "GREEN" => Beats(g, r, b, GREEN_MARGIN - Dropped)
        /\ Beats(b, r, g, BLUE_MARGIN + Dropped) => seen = "BLUE"
        /\ seen = "BLUE" => Beats(b, r, g, BLUE_MARGIN - Dropped)
=============================================================================

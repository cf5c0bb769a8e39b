---------------------------- MODULE FlagDetection ----------------------------
(***************************************************************************)
(* get_flag of src/src/flag_detection.c: the line of pixels it hands to    *)
(* extract_color_bands, extract_flag, and what the whole promises: a       *)
(* definition, on the line itself, of its bands and flags.                 *)
(***************************************************************************)
EXTENDS ColorBands, PixelColor, FiniteSetsExt

(* An image gives the pair of bytes of every pixel. *)
ColorLine(image) == [p \in Pixel |-> Seen(image[p])]

(* The flags in the order in which extract_flag looks for them. *)
Flags == << [name |-> "FRANCE",      bands |-> <<"BLUE", "WHITE", "RED">>],
            [name |-> "ITALY",       bands |-> <<"GREEN", "WHITE", "RED">>],
            [name |-> "JAPAN",       bands |-> <<"WHITE", "RED", "WHITE">>],
            [name |-> "SWITZERLAND", bands |-> <<"RED", "WHITE", "RED">>] >>

(* The first of some flags, or UNDEFINED_FLAG. *)
FirstOf(found) == IF found = {} THEN "UNDEFINED_FLAG" ELSE Flags[Min(found)].name

(* Three colours are next to each other in color_bands. *)
InBands(bands, colors) ==
  \E k \in 0 .. MAX_NUM_COLOR_BANDS - 3 : \A n \in 1 .. 3 : bands[k + n - 1] = colors[n]

extract_flag(bands) == FirstOf({f \in DOMAIN Flags : InBands(bands, Flags[f].bands)})

-----------------------------------------------------------------------------
(* The bands of a line, without arrays.  A run is a maximal interval of    *)
(* one colour; those of at least MIN_GROUP_SIZE pixels count, and their    *)
(* pixels are solid.                                                       *)
RunAt(line, a, b) ==
  /\ a <= b
  /\ \A p \in a .. b : line[p] = line[a]
  /\ a = 0 \/ line[a - 1] # line[a]
  /\ b = IMAGE_BUFFER_SIZE - 1 \/ line[b + 1] # line[a]

Counts(line, a, b) == RunAt(line, a, b) /\ b - a + 1 >= MIN_GROUP_SIZE

Heads(line) == {a \in Pixel : \E b \in Pixel : Counts(line, a, b)}

Solid(line) == {x \in Pixel : \E a, b \in Pixel : Counts(line, a, b) /\ a <= x /\ x <= b}

(* Of a set of positions, those at which the value of f is not that of the *)
(* position before.                                                        *)
Changes(S, f) ==
  {p \in S : \A q \in S : q < p /\ (\A x \in S : x <= q \/ x >= p) => f[q] # f[p]}

(* The stripes of a line: for the first pixel of each, its colour, and how *)
(* many solid pixels it has up to the next stripe.                         *)
Stripes(line) ==
  LET starts == Changes(Heads(line), line)
      solid  == Solid(line)
      of(p)  == {x \in solid : p <= x /\ \A q \in starts : q <= p \/ x < q}
  IN  [p \in starts |-> [color |-> line[p], width |-> Cardinality(of(p))]]

(* What is left of the colours of the stripes, and the stripes at which it *)
(* changes.  A line of one stripe has no bands.                            *)
Shade(line) ==
  LET stripes == Stripes(line)
  IN  [p \in DOMAIN stripes |-> IF stripes[p].width >= MIN_COLOR_BAND_WIDTH
                                THEN stripes[p].color ELSE "UNDEFINED_COLOR"]

Marks(line) ==
  LET shade == Shade(line)
  IN  IF Cardinality(DOMAIN shade) < 2 THEN {} ELSE Changes(DOMAIN shade, shade)

(* Exactly the stripes wide enough are bands, in their order, and all that *)
(* lies between two of them is one UNDEFINED_COLOR.                        *)
BandsRight ==
  step = "done" =>
    LET shade   == Shade(color_line)
        marks   == Marks(color_line)
        rank(p) == Cardinality({q \in marks : q < p})
    IN  /\ \A p \in marks : color_bands[rank(p)] = shade[p]
        /\ \A k \in Pixel : k >= Cardinality(marks) => color_bands[k] = "UNDEFINED_COLOR"

(* Before the first line comes: a pixel is given a hue where the light has *)
(* it, up to the bits that the camera drops, over the whole scale of the   *)
(* components.                                                             *)
HueIsStrongest == step = "start" => SeesStrongest

(* Three colours are three stripes of the line, next to each other and     *)
(* each wide enough.                                                       *)
InStripes(line, colors) ==
  LET stripes    == Stripes(line)
      wide(p, c) == stripes[p].color = c /\ stripes[p].width >= MIN_COLOR_BAND_WIDTH
      next(p, q) == p < q /\ \A x \in DOMAIN stripes : x <= p \/ x >= q
  IN  \E p, q, r \in DOMAIN stripes :
        /\ next(p, q) /\ next(q, r)
        /\ wide(p, colors[1]) /\ wide(q, colors[2]) /\ wide(r, colors[3])

(* get_flag returns a flag if and only if its three colours are in the     *)
(* stripes of the line, whatever noise is in and between them; the first   *)
(* of several in the order of extract_flag.                                *)
FlagShown ==
  step = "done" =>
    extract_flag(color_bands) =
      FirstOf({f \in DOMAIN Flags : InStripes(color_line, Flags[f].bands)})
=============================================================================

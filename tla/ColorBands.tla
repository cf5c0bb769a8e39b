----------------------------- MODULE ColorBands -----------------------------
(***************************************************************************)
(* extract_color_bands of src/src/flag_detection.c, which reduces a line   *)
(* of classified pixels to its bands of colour.  Its five steps are loops  *)
(* over two arrays, color_groups and size_of_groups, that are compacted in *)
(* place; one iteration of a loop is one action.                           *)
(***************************************************************************)
EXTENDS Integers

CONSTANTS
  IMAGE_BUFFER_SIZE,     \* pixels of a line
  MIN_GROUP_SIZE,        \* smaller groups are noise
  MIN_COLOR_BAND_WIDTH,  \* smaller groups are no band of a flag
  MAX_NUM_COLOR_BANDS,   \* size of the array color_bands
  Lines                  \* input: the classified lines the camera may deliver

Color == {"UNDEFINED_COLOR", "WHITE", "RED", "GREEN", "BLUE"}
Pixel == 0 .. IMAGE_BUFFER_SIZE - 1

ASSUME BandsAssumption ==
  /\ IMAGE_BUFFER_SIZE \in Nat /\ IMAGE_BUFFER_SIZE > 1
  /\ MIN_GROUP_SIZE \in Nat /\ MIN_COLOR_BAND_WIDTH \in Nat
  /\ MAX_NUM_COLOR_BANDS \in Nat /\ MAX_NUM_COLOR_BANDS <= IMAGE_BUFFER_SIZE
  /\ Lines \subseteq [Pixel -> Color]

VARIABLES
  color_line,
  step,               \* the loop that is running, "start" or "done"
  i,                  \* its counter
  number_of_groups,
  color_groups, size_of_groups, color_group_index,
  current_color, current_group_size,
  color_bands         \* as far as memory goes: not only MAX_NUM_COLOR_BANDS

groups == <<color_groups, size_of_groups>>
bvars  == <<color_line, step, i, number_of_groups, groups, color_group_index,
            current_color, current_group_size, color_bands>>

-----------------------------------------------------------------------------
(* Mutant: the last group is stored only if the colour changes there. *)
StoreWithoutLast(f, old, new, ended, last) ==
  IF ended THEN [f EXCEPT ![color_group_index] = old] ELSE f

(* The body the loops of steps 1, 3 and 5 share.  When the current run     *)
(* ends, its value, old, is stored; in the last iteration the value of the *)
(* run that goes on, new, is stored too.                                   *)
Store(f, old, new, ended, last) ==
  LET closed == IF ended THEN [f EXCEPT ![color_group_index] = old] ELSE f
      next   == IF ended THEN color_group_index + 1 ELSE color_group_index
  IN  IF last THEN [closed EXCEPT ![next] = new] ELSE closed

Advance(ended, last) ==
  color_group_index' = color_group_index + (IF ended THEN 1 ELSE 0)
                                         + (IF last THEN 1 ELSE 0)

(* A pixel, or a group of pixels, joins the current group or begins one. *)
Gather(color, size, last) ==
  LET ended == color # current_color
      total == IF ended THEN size ELSE current_group_size + size
  IN  /\ color_groups' = Store(color_groups, current_color, color, ended, last)
      /\ size_of_groups' = Store(size_of_groups, current_group_size, total, ended, last)
      /\ Advance(ended, last)
      /\ current_color' = color
      /\ current_group_size' = total
      /\ i' = i + 1
      /\ UNCHANGED <<color_line, step, number_of_groups, color_bands>>

NoColor == [p \in Pixel |-> "UNDEFINED_COLOR"]
NoSize  == [p \in Pixel |-> 0]

(* get_flag calls extract_color_bands for a new line, with all arrays zero. *)
Call ==
  /\ step = "start"
  /\ color_line' \in Lines
  /\ step' = "split" /\ i' = 1
  /\ current_color' = color_line'[0]
  /\ current_group_size' = 1
  /\ UNCHANGED <<number_of_groups, groups, color_group_index, color_bands>>

(* Step 1: the line as groups of pixels of one colour. *)
Split ==
  /\ step = "split" /\ i < IMAGE_BUFFER_SIZE
  /\ Gather(color_line[i], 1, i = IMAGE_BUFFER_SIZE - 1)

(* Mutant: the index goes on where the first loop left it. *)
BeginCleanKeepingIndex ==
  /\ step = "split" /\ i = IMAGE_BUFFER_SIZE
  /\ step' = "clean" /\ i' = 0
  /\ number_of_groups' = color_group_index
  /\ UNCHANGED <<color_line, groups, color_group_index, current_color, current_group_size,
                 color_bands>>

BeginClean ==
  /\ step = "split" /\ i = IMAGE_BUFFER_SIZE
  /\ step' = "clean" /\ i' = 0
  /\ number_of_groups' = color_group_index
  /\ color_group_index' = 0
  /\ UNCHANGED <<color_line, groups, current_color, current_group_size, color_bands>>

(* Step 2: only the groups that are big enough stay. *)
Clean ==
  /\ step = "clean" /\ i < number_of_groups
  /\ IF size_of_groups[i] >= MIN_GROUP_SIZE
     THEN /\ color_groups' = [color_groups EXCEPT ![color_group_index] = color_groups[i]]
          /\ size_of_groups' = [size_of_groups EXCEPT ![color_group_index] = size_of_groups[i]]
          /\ color_group_index' = color_group_index + 1
     ELSE UNCHANGED <<groups, color_group_index>>
  /\ i' = i + 1
  /\ UNCHANGED <<color_line, step, number_of_groups, current_color, current_group_size,
                 color_bands>>

(* Mutant: the index goes on where the second loop left it. *)
BeginFusionKeepingIndex ==
  /\ step = "clean" /\ i = number_of_groups
  /\ step' = "fusion" /\ i' = 1
  /\ number_of_groups' = color_group_index
  /\ current_color' = color_groups[0]
  /\ current_group_size' = size_of_groups[0]
  /\ UNCHANGED <<color_line, groups, color_group_index, color_bands>>

BeginFusion ==
  /\ step = "clean" /\ i = number_of_groups
  /\ step' = "fusion" /\ i' = 1
  /\ number_of_groups' = color_group_index
  /\ color_group_index' = 0
  /\ current_color' = color_groups[0]
  /\ current_group_size' = size_of_groups[0]
  /\ UNCHANGED <<color_line, groups, color_bands>>

(* Step 3: consecutive groups of one colour become one group. *)
Fusion ==
  /\ step = "fusion" /\ i < number_of_groups
  /\ Gather(color_groups[i], size_of_groups[i], i = number_of_groups - 1)

(* With fewer than two groups the loop of step 3 has not run, and none are left. *)
BeginErase ==
  /\ step = "fusion" /\ i >= number_of_groups
  /\ step' = "erase" /\ i' = 0
  /\ number_of_groups' = color_group_index
  /\ UNCHANGED <<color_line, groups, color_group_index, current_color, current_group_size,
                 color_bands>>

(* Mutant: a group exactly as wide as a band loses its colour. *)
EraseInclusive ==
  /\ step = "erase" /\ i < number_of_groups
  /\ color_groups' = IF size_of_groups[i] <= MIN_COLOR_BAND_WIDTH
                     THEN [color_groups EXCEPT ![i] = "UNDEFINED_COLOR"] ELSE color_groups
  /\ i' = i + 1
  /\ UNCHANGED <<color_line, step, number_of_groups, size_of_groups, color_group_index,
                 current_color, current_group_size, color_bands>>

(* Step 4: groups too narrow for a band lose their colour. *)
Erase ==
  /\ step = "erase" /\ i < number_of_groups
  /\ color_groups' = IF size_of_groups[i] < MIN_COLOR_BAND_WIDTH
                     THEN [color_groups EXCEPT ![i] = "UNDEFINED_COLOR"] ELSE color_groups
  /\ i' = i + 1
  /\ UNCHANGED <<color_line, step, number_of_groups, size_of_groups, color_group_index,
                 current_color, current_group_size, color_bands>>

BeginBands ==
  /\ step = "erase" /\ i = number_of_groups
  /\ step' = "bands" /\ i' = 1
  /\ color_group_index' = 0
  /\ current_color' = color_groups[0]
  /\ UNCHANGED <<color_line, number_of_groups, groups, current_group_size, color_bands>>

(* Step 5: what is left, without repetitions. *)
Band ==
  /\ step = "bands" /\ i < number_of_groups
  /\ LET ended == color_groups[i] # current_color
     IN  /\ color_bands' = Store(color_bands, current_color, color_groups[i], ended,
                                 i = number_of_groups - 1)
         /\ Advance(ended, FALSE)
  /\ current_color' = color_groups[i]
  /\ i' = i + 1
  /\ UNCHANGED <<color_line, step, number_of_groups, groups, current_group_size>>

Return ==
  /\ step = "bands" /\ i >= number_of_groups
  /\ step' = "done"
  /\ UNCHANGED <<color_line, i, number_of_groups, groups, color_group_index, current_color,
                 current_group_size, color_bands>>

BandsInit ==
  /\ color_line = NoColor
  /\ step = "start" /\ i = 0
  /\ number_of_groups = 0
  /\ color_groups = NoColor /\ size_of_groups = NoSize
  /\ color_group_index = 0
  /\ current_color = "UNDEFINED_COLOR" /\ current_group_size = 0
  /\ color_bands = NoColor

(* get_flag returns, and its variables are gone. *)
Leave ==
  /\ step = "done"
  /\ color_line' = NoColor
  /\ step' = "start" /\ i' = 0
  /\ number_of_groups' = 0
  /\ color_groups' = NoColor /\ size_of_groups' = NoSize
  /\ color_group_index' = 0
  /\ current_color' = "UNDEFINED_COLOR" /\ current_group_size' = 0
  /\ color_bands' = NoColor

BandsNext ==
  \/ Call \/ Leave
  \/ Split \/ BeginClean \/ Clean \/ BeginFusion \/ Fusion
  \/ BeginErase \/ Erase \/ BeginBands \/ Band \/ Return

BandsSpec == BandsInit /\ [][BandsNext]_bvars

-----------------------------------------------------------------------------
(* The arrays hold values of their types, and every index is inside them.  *)
BandsTypeOK ==
  /\ color_line \in [Pixel -> Color]
  /\ step \in {"start", "split", "clean", "fusion", "erase", "bands", "done"}
  /\ i \in 0 .. IMAGE_BUFFER_SIZE
  /\ number_of_groups \in 0 .. IMAGE_BUFFER_SIZE
  /\ color_groups \in [Pixel -> Color]
  /\ size_of_groups \in [Pixel -> Nat]
  /\ color_group_index \in 0 .. IMAGE_BUFFER_SIZE
  /\ current_color \in Color
  /\ current_group_size \in Nat
  /\ color_bands \in [Pixel -> Color]

(* The loops that compact an array in place write behind what they read:   *)
(* no group is overwritten before it has been looked at.                   *)
CompactsBehind ==
  /\ step = "split" /\ i < IMAGE_BUFFER_SIZE => color_group_index < i
  /\ step = "clean" => color_group_index <= i
  /\ step \in {"fusion", "bands"} /\ i < number_of_groups => color_group_index < i

(* Both, with where the first loop begins and how far the counters of the  *)
(* others go: inductive.                                                   *)
BandsInv ==
  /\ BandsTypeOK
  /\ CompactsBehind
  /\ step = "start" => color_group_index = 0
  /\ step \in {"clean", "erase"} => i <= number_of_groups

(* The last band fits in color_bands, which get_flag declares, as does the *)
(* parameter of extract_flag, with MAX_NUM_COLOR_BANDS elements.           *)
BandsFit ==
  step = "done" /\ number_of_groups > 1 => color_group_index < MAX_NUM_COLOR_BANDS
=============================================================================

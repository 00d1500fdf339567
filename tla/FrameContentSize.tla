-------------------------- MODULE FrameContentSize --------------------------
(***************************************************************************)
(* The Frame_Content_Size field of a Zstandard frame header.               *)
(*                                                                         *)
(* W1, W2, W4 and W8 are how many values fit in 1, 2, 4 and 8 bytes: 2^8,  *)
(* 2^16, 2^32 and 2^64 in the code, smaller for TLC.  Only their order and *)
(* that a 2-byte field reaches W1 + W2 - 1 matter.                         *)
(***************************************************************************)
EXTENDS Naturals

CONSTANTS W1, W2, W4, W8

ASSUME WidthsAssumption ==
  /\ W1 \in Nat /\ W2 \in Nat /\ W4 \in Nat /\ W8 \in Nat
  /\ 0 < W1 /\ W1 < W2 /\ W1 + W2 <= W4 /\ W4 <= W8

Sizes == 0..(W8 - 1)

\* Wrong variant: the bound of the 2-byte field is one too high.
choose_fcs_field_size_high(size) ==
  IF size <= W1 - 1 THEN 1
  ELSE IF size <= W1 + W2 THEN 2
  ELSE IF size <= W4 - 1 THEN 4
  ELSE 8

\* The narrowest field that can hold size; 65791 is W1 + W2 - 1.
choose_fcs_field_size(size) ==
  IF size <= W1 - 1 THEN 1
  ELSE IF size <= W1 + W2 - 1 THEN 2
  ELSE IF size <= W4 - 1 THEN 4
  ELSE 8

\* The header says the width in two bits; without the single-segment bit,
\* flag 0 means there is no field.
choose_fcs_flag(field_size) ==
  CASE field_size = 2 -> 1
    [] field_size = 4 -> 2
    [] field_size = 8 -> 3
    [] OTHER          -> 0

fcs_field_size(flag, single_segment) ==
  CASE flag = 0 -> IF single_segment THEN 1 ELSE 0
    [] flag = 1 -> 2
    [] flag = 2 -> 4
    [] OTHER    -> 8

\* What the field holds: the narrowing casts keep the low bytes, and a 2-byte
\* field is biased by W1, the sizes a 1-byte field has already.
write_fcs(value, field_size) ==
  CASE field_size = 1 -> value % W1
    [] field_size = 2 -> (value - W1) % W2
    [] field_size = 4 -> value % W4
    [] OTHER          -> value

read_fcs(field, field_size) ==
  IF field_size = 0 THEN 0
  ELSE IF field_size = 2 THEN field + W1
  ELSE field

\* What a reader makes of the size a writer puts in a header.
ReadBack(size) ==
  LET width == choose_fcs_field_size(size)
  IN  read_fcs(write_fcs(size, width),
               fcs_field_size(choose_fcs_flag(width), TRUE))

\* Every content size survives the header: at each change of width, and with
\* the bias of the 2-byte field, which the writer must undo without wrapping.
SizeSurvives(size) == ReadBack(size) = size

=============================================================================

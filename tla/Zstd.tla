-------------------------------- MODULE Zstd --------------------------------
(***************************************************************************)
(* The Zstandard backend of MiniZIP (minizip::backend::zstd_engine).       *)
(*                                                                         *)
(* The encoder writes one single-segment frame of raw blocks.  The decoder *)
(* reads any concatenation of frames, skippable ones among them, one block *)
(* per step.  An input is the sequence of its frames; the last may be cut, *)
(* that is the input ends inside it, where the bounds-checked reader       *)
(* throws.  Header fields the decoder reads past without using (window     *)
(* descriptor, whose 5-bit exponent is never out of range, dictionary id,  *)
(* checksum) are left out, as are the byte values of the fields.           *)
(***************************************************************************)
EXTENDS FrameContentSize, Sequences, SequencesExt

CONSTANTS
  Bytes,         \* values of a payload byte
  Payloads,      \* what the encoder is given
  Inputs,        \* other inputs of the decoder: sequences of frames
  BlockMax,      \* zstd_block_max_size
  NoSize         \* the header has no Frame_Content_Size field

ASSUME BlockMaxAssumption == BlockMax \in Nat \ {0}

ASSUME PayloadsAssumption ==
  \A p \in Payloads : p \in Seq(Bytes) /\ Len(p) \in Sizes

VARIABLES
  input,    \* the frames given to the decoder
  at,       \* the frame being decoded
  block,    \* the block of that frame to decode next, 0 before its header
  output,   \* the bytes decoded so far
  status    \* "running", or how the call ended

vars == <<input, at, block, output, status>>

-----------------------------------------------------------------------------
(* Frames *)

RawBlock(bytes)   == [type |-> "raw", bytes |-> bytes]
RleBlock(byte, n) == [type |-> "rle", byte |-> byte, size |-> n]
CompressedBlock   == [type |-> "compressed"]
ReservedBlock     == [type |-> "reserved"]

\* reserved is the reserved bit of the descriptor.
Frame(size, blocks, reserved, cut) ==
  [magic |-> "zstd", size |-> size, blocks |-> blocks,
   reserved |-> reserved, cut |-> cut]

SkippableFrame(cut) == [magic |-> "skippable", cut |-> cut]

UnknownFrame == [magic |-> "other"]

IsSequence(s) == s \in Seq({s[i] : i \in DOMAIN s})

IsBlock(b) ==
  \/ b.type = "raw" /\ b.bytes \in Seq(Bytes)
  \/ b.type = "rle" /\ b.byte \in Bytes /\ b.size \in Nat
  \/ b.type \in {"compressed", "reserved"}

IsFrame(f) ==
  /\ f.magic \in {"zstd", "skippable", "other"}
  /\ f.magic = "zstd" =>
       /\ f.size \in Nat \cup {NoSize}
       /\ IsSequence(f.blocks)
       /\ \A j \in DOMAIN f.blocks : IsBlock(f.blocks[j])

ASSUME InputsAssumption ==
  \A frames \in Inputs :
    IsSequence(frames) /\ \A i \in DOMAIN frames : IsFrame(frames[i])

\* Wrong variant: the number of blocks is rounded down.
ChunksRoundedDown(payload) ==
  [k \in 1..(Len(payload) \div BlockMax) |->
     RawBlock(SubSeq(payload, (k - 1) * BlockMax + 1, k * BlockMax))]

\* The encoder cuts its input into blocks of BlockMax bytes, the last one
\* shorter; an empty input is one empty block.
Chunks(payload) ==
  IF payload = <<>> THEN <<RawBlock(<<>>)>>
  ELSE [k \in 1..((Len(payload) + BlockMax - 1) \div BlockMax) |->
          RawBlock(SubSeq(payload, (k - 1) * BlockMax + 1,
                          IF k * BlockMax < Len(payload)
                          THEN k * BlockMax ELSE Len(payload)))]

compress(payload) ==
  <<Frame(ReadBack(Len(payload)), Chunks(payload), FALSE, FALSE)>>

-----------------------------------------------------------------------------
(* decompress *)

Init ==
  /\ input \in Inputs \cup {compress(p) : p \in Payloads}
  /\ at = 1
  /\ block = 0
  /\ output = <<>>
  /\ status = "running"

Reading == status = "running" /\ at <= Len(input)

frame == input[at]

\* A failed call returns no bytes.
Fail ==
  /\ status' = "failed"
  /\ output' = <<>>
  /\ UNCHANGED <<input, at, block>>

NextFrame ==
  /\ at' = at + 1
  /\ block' = 0
  /\ UNCHANGED <<input, output, status>>

\* Wrong variant: the contents of a skippable frame are not skipped.
SkipNothing ==
  /\ Reading
  /\ block = 0
  /\ frame.magic = "skippable"
  /\ IF frame.cut THEN Fail ELSE UNCHANGED vars

Skip ==
  /\ Reading
  /\ block = 0
  /\ frame.magic = "skippable"
  /\ IF frame.cut THEN Fail ELSE NextFrame

\* Wrong variant: the reserved bit is not looked at.
ReadHeaderLoosely ==
  /\ Reading
  /\ block = 0
  /\ frame.magic = "zstd"
  /\ block' = 1
  /\ UNCHANGED <<input, at, output, status>>

ReadHeader ==
  /\ Reading
  /\ block = 0
  /\ frame.magic = "zstd"
  /\ IF frame.reserved THEN Fail
     ELSE block' = 1 /\ UNCHANGED <<input, at, output, status>>

RejectMagic ==
  /\ Reading
  /\ block = 0
  /\ frame.magic = "other"
  /\ Fail

BlockBytes(b) ==
  IF b.type = "raw" THEN b.bytes ELSE [i \in 1..b.size |-> b.byte]

DecodeBlock ==
  /\ Reading
  /\ block > 0
  /\ block <= Len(frame.blocks)
  /\ frame.blocks[block].type \in {"raw", "rle"}
  /\ output' = output \o BlockBytes(frame.blocks[block])
  /\ block' = block + 1
  /\ UNCHANGED <<input, at, status>>

RejectBlock ==
  /\ Reading
  /\ block > 0
  /\ block <= Len(frame.blocks)
  /\ frame.blocks[block].type \in {"compressed", "reserved"}
  /\ Fail

\* Wrong variant: a frame of exactly the declared size is refused.
EndFrameStrict ==
  /\ Reading
  /\ block > 0
  /\ block = Len(frame.blocks) + 1
  /\ IF \/ frame.cut
        \/ frame.size # NoSize /\ frame.size >= Len(output)
     THEN Fail
     ELSE NextFrame

\* The size of the header is compared with everything decoded so far.
EndFrame ==
  /\ Reading
  /\ block > 0
  /\ block = Len(frame.blocks) + 1
  /\ IF \/ frame.cut
        \/ frame.size # NoSize /\ frame.size > Len(output)
     THEN Fail
     ELSE NextFrame

EndInput ==
  /\ status = "running"
  /\ at = Len(input) + 1
  /\ status' = "ok"
  /\ UNCHANGED <<input, at, block, output>>

Next ==
  \/ Skip
  \/ ReadHeader
  \/ RejectMagic
  \/ DecodeBlock
  \/ RejectBlock
  \/ EndFrame
  \/ EndInput

Spec == Init /\ [][Next]_vars

\* One call of one thread: it runs to its end.
FairSpec == Spec /\ WF_vars(Next)

-----------------------------------------------------------------------------
(* inspect_frame *)

\* The size and the blocks of the first frame, or nothing when the input does
\* not begin with a whole frame; the scan stops at a reserved block.
NoFrame == [valid |-> FALSE]

\* Wrong variant: only the first block is looked at.
inspect_first_block(frames) ==
  IF frames = <<>> \/ frames[1].magic = "other" THEN NoFrame
  ELSE IF frames[1].magic = "skippable"
  THEN IF frames[1].cut THEN NoFrame ELSE [valid |-> TRUE, skippable |-> TRUE]
  ELSE IF frames[1].cut THEN NoFrame
  ELSE [valid |-> TRUE, skippable |-> FALSE, content_size |-> frames[1].size,
        reserved_bit_set |-> frames[1].reserved,
        uses_unsupported_compressed_blocks |->
          frames[1].blocks[1].type = "compressed",
        blocks |-> frames[1].blocks]

inspect_frame(frames) ==
  IF frames = <<>> \/ frames[1].magic = "other" THEN NoFrame
  ELSE IF frames[1].magic = "skippable"
  THEN IF frames[1].cut THEN NoFrame ELSE [valid |-> TRUE, skippable |-> TRUE]
  ELSE LET f    == frames[1]
           stop == SelectInSeq(f.blocks, LAMBDA b : b.type = "reserved")
       IN  IF f.cut /\ stop = 0 THEN NoFrame
           ELSE [valid |-> TRUE, skippable |-> FALSE, content_size |-> f.size,
                 reserved_bit_set |-> f.reserved,
                 uses_unsupported_compressed_blocks |->
                   \E i \in DOMAIN f.blocks :
                     f.blocks[i].type = "compressed" /\ (stop = 0 \/ i < stop),
                 blocks |-> IF stop = 0 THEN f.blocks
                            ELSE SubSeq(f.blocks, 1, stop)]

-----------------------------------------------------------------------------
(* Properties *)

TypeOK ==
  /\ at \in 1..(Len(input) + 1)
  /\ block \in Nat
  /\ output \in Seq(Bytes)
  /\ status \in {"running", "ok", "failed"}

Content(f) ==
  IF f.magic = "zstd"
  THEN FlattenSeq([i \in DOMAIN f.blocks |-> BlockBytes(f.blocks[i])])
  ELSE <<>>

\* The header of a frame the encoder writes declares the size of its payload,
\* at each width of the size field.
HeaderTellsSize ==
  \A p \in Payloads : input = compress(p) => input[1].size = Len(p)

\* What the encoder produces the decoder gives back, at every block boundary
\* and every width of the size field; and a call that succeeds returns the
\* contents of all its frames, in order, with nothing from skippable ones.
DecodesContent ==
  /\ status = "ok" => output = FlattenSeq([i \in DOMAIN input |-> Content(input[i])])
  /\ status # "running" =>
       \A p \in Payloads : input = compress(p) => status = "ok" /\ output = p

Sound(f) ==
  \/ f.magic = "skippable" /\ ~f.cut
  \/ /\ f.magic = "zstd"
     /\ ~f.cut /\ ~f.reserved
     /\ \A i \in DOMAIN f.blocks : f.blocks[i].type \in {"raw", "rle"}

\* A damaged or unsupported frame anywhere makes the whole call fail.
SuccessMeansSound == status = "ok" => \A i \in DOMAIN input : Sound(input[i])

\* A call fails for a reason only: an input of sound frames fails when one of
\* them declares more than it holds, and in no other case.
FailsForCause ==
  status = "failed" =>
    \/ \E i \in DOMAIN input : ~Sound(input[i])
    \/ \E i \in DOMAIN input :
         /\ input[i].magic = "zstd"
         /\ input[i].size # NoSize
         /\ input[i].size > Len(Content(input[i]))

\* Inspection and decoding agree: a first frame that decodes is reported as
\* valid and free of unsupported blocks, and one reported so fails to decode
\* only when it is shorter than the size reported.
InspectAgrees ==
  LET info == inspect_frame(input)
  IN  /\ status = "ok" /\ input # <<>> =>
           /\ info.valid
           /\ ~info.skippable =>
                /\ ~info.reserved_bit_set
                /\ ~info.uses_unsupported_compressed_blocks
                /\ info.blocks = input[1].blocks
      /\ status = "failed" /\ at = 1 /\ info.valid =>
           \/ info.reserved_bit_set
           \/ info.uses_unsupported_compressed_blocks
           \/ \E i \in DOMAIN info.blocks : info.blocks[i].type = "reserved"
           \/ info.content_size # NoSize
                /\ info.content_size > Len(Content(input[1]))

\* Every call returns.
DecodeReturns == <>(status # "running")

\* Truncated frame content is an error: a call that succeeds has decoded, from
\* each frame, at least the size its header declares.
TruncationDetected ==
  status = "ok" =>
    \A i \in DOMAIN input :
      input[i].magic = "zstd" /\ input[i].size # NoSize =>
        Len(Content(input[i])) >= input[i].size

=============================================================================

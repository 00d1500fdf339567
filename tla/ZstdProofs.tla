----------------------------- MODULE ZstdProofs -----------------------------
(***************************************************************************)
(* The decoder, for every input, block size and width of the size field:   *)
(* what a call that succeeds has seen, what the encoder declares, and that *)
(* the header of a frame gives back every content size.                    *)
(***************************************************************************)
EXTENDS Zstd, Integers, FiniteRecursion, SequenceTheorems, TLAPS

-----------------------------------------------------------------------------
(* The size field *)

\* A value that fits in the field is not changed by the narrowing cast.
LEMMA SmallMod ==
  ASSUME NEW a \in Nat, NEW b \in Nat, a < b
  PROVE  a % b = a
OBVIOUS

\* write_fcs and read_fcs undo each other for each of the widths
\* choose_fcs_field_size picks, and the flag in the header names that width.
THEOREM SizesSurvive == \A s \in Sizes : SizeSurvives(s)
<1> SUFFICES ASSUME NEW s \in Sizes PROVE SizeSurvives(s)
  OBVIOUS
<1> USE WidthsAssumption
<1>1. s \in Nat /\ s < W8
  BY DEF Sizes
<1>2. CASE s <= W1 - 1
  <2>1. choose_fcs_field_size(s) = 1
    BY <1>2 DEF choose_fcs_field_size
  <2>2. fcs_field_size(choose_fcs_flag(1), TRUE) = 1
    BY DEF fcs_field_size, choose_fcs_flag
  <2>3. write_fcs(s, 1) = s
    BY <1>1, <1>2, SmallMod DEF write_fcs
  <2>4. ReadBack(s) = read_fcs(s, 1)
    BY <2>1, <2>2, <2>3 DEF ReadBack
  <2>5. read_fcs(s, 1) = s
    BY <1>1 DEF read_fcs
  <2> QED BY <2>4, <2>5 DEF SizeSurvives
<1>3. CASE W1 - 1 < s /\ s <= W1 + W2 - 1
  <2>1. choose_fcs_field_size(s) = 2
    BY <1>1, <1>3 DEF choose_fcs_field_size
  <2>2. fcs_field_size(choose_fcs_flag(2), TRUE) = 2
    BY DEF fcs_field_size, choose_fcs_flag
  <2>3. write_fcs(s, 2) = s - W1
    <3>1. s - W1 \in Nat /\ s - W1 < W2
      BY <1>1, <1>3
    <3>2. (s - W1) % W2 = s - W1
      BY <3>1, SmallMod
    <3> QED BY <3>2 DEF write_fcs
  <2>4. ReadBack(s) = read_fcs(s - W1, 2)
    BY <2>1, <2>2, <2>3 DEF ReadBack
  <2>5. read_fcs(s - W1, 2) = s
    BY <1>1 DEF read_fcs
  <2> QED BY <2>4, <2>5 DEF SizeSurvives
<1>4. CASE W1 + W2 - 1 < s /\ s <= W4 - 1
  <2>1. choose_fcs_field_size(s) = 4
    BY <1>1, <1>4 DEF choose_fcs_field_size
  <2>2. fcs_field_size(choose_fcs_flag(4), TRUE) = 4
    BY DEF fcs_field_size, choose_fcs_flag
  <2>3. write_fcs(s, 4) = s
    BY <1>1, <1>4, SmallMod DEF write_fcs
  <2>4. ReadBack(s) = read_fcs(s, 4)
    BY <2>1, <2>2, <2>3 DEF ReadBack
  <2>5. read_fcs(s, 4) = s
    BY <1>1 DEF read_fcs
  <2> QED BY <2>4, <2>5 DEF SizeSurvives
<1>5. CASE W4 - 1 < s
  <2>1. choose_fcs_field_size(s) = 8
    BY <1>1, <1>5 DEF choose_fcs_field_size
  <2>2. fcs_field_size(choose_fcs_flag(8), TRUE) = 8
    BY DEF fcs_field_size, choose_fcs_flag
  <2>3. write_fcs(s, 8) = s
    BY <1>1, SmallMod DEF write_fcs
  <2>4. ReadBack(s) = read_fcs(s, 8)
    BY <2>1, <2>2, <2>3 DEF ReadBack
  <2>5. read_fcs(s, 8) = s
    BY <1>1 DEF read_fcs
  <2> QED BY <2>4, <2>5 DEF SizeSurvives
<1> QED BY <1>1, <1>2, <1>3, <1>4, <1>5

-----------------------------------------------------------------------------
(* The encoder *)

\* Every block of the encoder begins inside the payload.
LEMMA BlockStarts ==
  ASSUME NEW n \in Nat, NEW k \in 1..((n + BlockMax - 1) \div BlockMax)
  PROVE  (k - 1) * BlockMax + 1 \in 1..n
<1> USE BlockMaxAssumption
<1> DEFINE q == (n + BlockMax - 1) \div BlockMax
<1>1. q \in Int /\ q * BlockMax <= n + BlockMax - 1
  OBVIOUS
<1>2. k \in Int /\ 1 <= k /\ k <= q
  BY <1>1
<1> HIDE DEF q
<1>3. k * BlockMax <= q * BlockMax
  BY <1>1, <1>2
<1>4. (k - 1) * BlockMax = k * BlockMax - BlockMax /\ k * BlockMax \in Int
  BY <1>2
<1>5. 0 <= (k - 1) * BlockMax
  BY <1>2
<1> QED BY <1>1, <1>3, <1>4, <1>5

LEMMA ChunksAreBlocks ==
  ASSUME NEW p \in Payloads
  PROVE  IsSequence(Chunks(p)) /\ \A j \in DOMAIN Chunks(p) : IsBlock(Chunks(p)[j])
<1>1. p \in Seq(Bytes)
  BY PayloadsAssumption
<1>2. CASE p = <<>>
  <2>1. Chunks(p) = <<RawBlock(<<>>)>>
    BY <1>2 DEF Chunks
  <2>2. IsBlock(RawBlock(<<>>))
    BY DEF IsBlock, RawBlock
  <2> DEFINE b == RawBlock(<<>>)
  <2> HIDE DEF b
  <2>3. IsSequence(<<b>>) /\ \A j \in DOMAIN <<b>> : <<b>>[j] = b
    BY DEF IsSequence
  <2> QED BY <2>1, <2>2, <2>3 DEF b
<1>3. CASE p # <<>>
  <2> DEFINE n == (Len(p) + BlockMax - 1) \div BlockMax
             End(k) == IF k * BlockMax < Len(p) THEN k * BlockMax ELSE Len(p)
             Bits(k) == SubSeq(p, (k - 1) * BlockMax + 1, End(k))
  <2>1. Chunks(p) = [k \in 1..n |-> RawBlock(Bits(k))]
    BY <1>3 DEF Chunks
  <2>2. n \in Nat
    BY <1>1, BlockMaxAssumption
  <2>3. ASSUME NEW k \in 1..n PROVE Bits(k) \in Seq(Bytes)
    <3> DEFINE first == (k - 1) * BlockMax + 1
    <3>1. first \in 1..Len(p)
      BY <1>1, BlockStarts
    <3>2. End(k) \in (first - 1)..Len(p)
      <4>1. k * BlockMax = (k - 1) * BlockMax + BlockMax /\ k * BlockMax \in Int
        BY <2>2, BlockMaxAssumption
      <4> QED BY <1>1, <3>1, <4>1, BlockMaxAssumption
    <3> HIDE DEF first, End
    <3>3. SubSeq(p, first, End(k)) \in Seq(Bytes)
      <4>1. first \in 1..(Len(p) + 1)
        BY <1>1, <3>1
      <4> QED BY <1>1, <3>2, <4>1, SubSeqProperties
    <3> QED BY <3>3 DEF first
  <2> HIDE DEF n, Bits
  <2>4. \A k \in 1..n : IsBlock(RawBlock(Bits(k)))
    BY <2>3 DEF IsBlock, RawBlock
  <2> DEFINE c == [k \in 1..n |-> RawBlock(Bits(k))]
  <2>5. c \in Seq({c[k] : k \in DOMAIN c}) /\ DOMAIN c = 1..n
    BY <2>2
  <2> QED BY <2>1, <2>4, <2>5 DEF IsSequence
<1> QED BY <1>2, <1>3

IsInput(frames) ==
  IsSequence(frames) /\ \A i \in DOMAIN frames : IsFrame(frames[i])

LEMMA EncodedIsInput ==
  ASSUME NEW p \in Payloads
  PROVE  IsInput(compress(p)) /\ Len(compress(p)) = 1
<1> DEFINE f == Frame(ReadBack(Len(p)), Chunks(p), FALSE, FALSE)
<1>1. compress(p) = <<f>>
  BY DEF compress
<1>2. IsFrame(f)
  <2>1. ReadBack(Len(p)) \in Nat
    BY PayloadsAssumption, SizesSurvive DEF SizeSurvives
  <2> QED BY <2>1, ChunksAreBlocks DEF IsFrame, Frame
<1> HIDE DEF f
<1> QED BY <1>1, <1>2 DEF IsInput, IsSequence

-----------------------------------------------------------------------------
(* The decoder *)

\* The header of the frame in hand was accepted, and so was every block before
\* the next one.
FrameInHand ==
  block > 0 =>
    /\ at <= Len(input)
    /\ frame.magic = "zstd"
    /\ ~frame.reserved
    /\ block <= Len(frame.blocks) + 1
    /\ \A j \in 1..(block - 1) : frame.blocks[j].type \in {"raw", "rle"}

Inv ==
  /\ IsInput(input)
  /\ TypeOK
  /\ FrameInHand
  /\ \A i \in 1..(at - 1) : Sound(input[i])
  /\ status = "ok" => at = Len(input) + 1

LEMMA InitInv == Init => Inv
<1> SUFFICES ASSUME Init PROVE Inv
  OBVIOUS
<1>1. IsInput(input)
  BY InputsAssumption, EncodedIsInput DEF Init, IsInput
<1>2. Len(input) \in Nat
  BY <1>1 DEF IsInput, IsSequence
<1>3. TypeOK
  BY <1>2 DEF Init, TypeOK
<1> QED BY <1>1, <1>3 DEF Init, Inv, FrameInHand

\* The decoder stays in the input and its output is bytes.
LEMMA BlockBytesType ==
  ASSUME NEW b, IsBlock(b), b.type \in {"raw", "rle"}
  PROVE  BlockBytes(b) \in Seq(Bytes)
BY DEF BlockBytes, IsBlock

LEMMA NextInv == Inv /\ [Next]_vars => Inv'
<1> SUFFICES ASSUME Inv, [Next]_vars PROVE Inv'
  OBVIOUS
<1> USE DEF Inv
<1>0. /\ Len(input) \in Nat /\ DOMAIN input = 1..Len(input)
      /\ at \in 1..(Len(input) + 1) /\ block \in Nat
      /\ output \in Seq(Bytes) /\ status \in {"running", "ok", "failed"}
  BY DEF IsInput, IsSequence, TypeOK
<1>1. ASSUME Fail PROVE Inv'
  BY <1>0, <1>1 DEF Fail, TypeOK, FrameInHand, frame
<1>2. ASSUME NextFrame, Reading, Sound(frame) PROVE Inv'
  <2>1. at \in 1..Len(input) /\ at' = at + 1 /\ block' = 0 /\ input' = input
        /\ output' = output /\ status' = status /\ status = "running"
    BY <1>0, <1>2 DEF NextFrame, Reading
  <2>2. \A i \in 1..(at' - 1) : Sound(input[i])
    BY <1>0, <1>2, <2>1 DEF frame
  <2> QED BY <1>0, <2>1, <2>2 DEF TypeOK, FrameInHand
<1>3. CASE Skip
  <2>1. CASE frame.cut
    BY <1>1, <1>3, <2>1 DEF Skip
  <2>2. CASE ~frame.cut
    BY <1>2, <1>3, <2>2 DEF Skip, Sound
  <2> QED BY <2>1, <2>2
<1>4. CASE ReadHeader
  <2>1. CASE frame.reserved
    BY <1>1, <1>4, <2>1 DEF ReadHeader
  <2>2. CASE ~frame.reserved
    <3>1. /\ block' = 1 /\ input' = input /\ at' = at
          /\ output' = output /\ status' = status
          /\ at \in 1..Len(input) /\ frame.magic = "zstd"
      BY <1>0, <1>4, <2>2 DEF ReadHeader, Reading
    <3>2. Len(frame.blocks) \in Nat
      BY <1>0, <3>1 DEF IsInput, IsFrame, IsSequence, frame
    <3> QED BY <1>0, <2>2, <3>1, <3>2 DEF TypeOK, FrameInHand, frame
  <2> QED BY <2>1, <2>2
<1>5. CASE RejectMagic
  BY <1>1, <1>5 DEF RejectMagic
<1>6. CASE DecodeBlock
  <2> DEFINE b == frame.blocks[block]
  <2>1. /\ block' = block + 1 /\ input' = input /\ at' = at /\ status' = status
        /\ output' = output \o BlockBytes(b)
        /\ at \in 1..Len(input) /\ block \in 1..Len(frame.blocks)
        /\ b.type \in {"raw", "rle"} /\ frame.magic = "zstd" /\ ~frame.reserved
    BY <1>0, <1>6 DEF DecodeBlock, Reading, FrameInHand
  <2>2. IsFrame(frame)
    BY <1>0, <2>1 DEF IsInput, frame
  <2>3. Len(frame.blocks) \in Nat /\ IsBlock(b)
    BY <2>1, <2>2 DEF IsFrame, IsSequence
  <2>4. output' \in Seq(Bytes)
    <3> HIDE DEF b
    <3>1. BlockBytes(b) \in Seq(Bytes)
      BY <2>1, <2>3, BlockBytesType
    <3> QED BY <1>0, <2>1, <3>1
  <2>5. \A j \in 1..block : frame.blocks[j].type \in {"raw", "rle"}
    BY <1>0, <2>1 DEF FrameInHand
  <2>6. frame' = frame
    BY <2>1 DEF frame
  <2>7. FrameInHand'
    BY <1>0, <2>1, <2>3, <2>5, <2>6 DEF FrameInHand
  <2>8. TypeOK'
    BY <1>0, <2>1, <2>4 DEF TypeOK
  <2> QED BY <1>0, <2>1, <2>7, <2>8
<1>7. CASE RejectBlock
  BY <1>1, <1>7 DEF RejectBlock
<1>8. CASE EndFrame
  <2> DEFINE short == frame.size # NoSize /\ frame.size > Len(output)
  <2>1. CASE frame.cut \/ short
    BY <1>1, <1>8, <2>1 DEF EndFrame
  <2>2. CASE ~(frame.cut \/ short)
    <3>1. NextFrame /\ Reading /\ ~frame.cut /\ block > 0
          /\ block = Len(frame.blocks) + 1
      BY <1>8, <2>2 DEF EndFrame
    <3>2. frame.magic = "zstd" /\ ~frame.reserved /\ at \in 1..Len(input)
      BY <1>0, <3>1 DEF FrameInHand
    <3>3. IsFrame(frame)
      BY <1>0, <3>2 DEF IsInput, frame
    <3>4. DOMAIN frame.blocks = 1..(block - 1)
      BY <1>0, <3>1, <3>2, <3>3 DEF IsFrame, IsSequence
    <3>5. Sound(frame)
      BY <3>1, <3>2, <3>4 DEF FrameInHand, Sound
    <3> QED BY <1>2, <3>1, <3>5
  <2> QED BY <2>1, <2>2
<1>9. CASE EndInput
  BY <1>0, <1>9 DEF EndInput, TypeOK, FrameInHand, frame
<1>10. CASE UNCHANGED vars
  BY <1>10 DEF vars, TypeOK, FrameInHand, frame
<1> QED
  BY <1>3, <1>4, <1>5, <1>6, <1>7, <1>8, <1>9, <1>10 DEF Next

-----------------------------------------------------------------------------
(* What is decoded *)

\* The bytes of the first k blocks of a frame, and the contents of the first k
\* frames.
Parts(f, k) == [j \in 1..k |-> BlockBytes(f.blocks[j])]
Contents(k) == [i \in 1..k |-> Content(input[i])]

Decoded ==
  FlattenSeq(Contents(at - 1))
    \o (IF block = 0 THEN <<>> ELSE FlattenSeq(Parts(frame, block - 1)))

IsDecodable(f, k) ==
  /\ IsFrame(f) /\ f.magic = "zstd" /\ k \in 0..Len(f.blocks)
  /\ \A j \in 1..k : f.blocks[j].type \in {"raw", "rle"}

LEMMA PartsType ==
  ASSUME NEW f, NEW k, IsDecodable(f, k)
  PROVE  k \in Nat /\ Parts(f, k) \in [1..k -> Seq(Bytes)]
<1>1. Len(f.blocks) \in Nat /\ DOMAIN f.blocks = 1..Len(f.blocks)
  BY DEF IsDecodable, IsFrame, IsSequence
<1>2. k \in Nat
  BY <1>1 DEF IsDecodable
<1>3. ASSUME NEW j \in 1..k PROVE BlockBytes(f.blocks[j]) \in Seq(Bytes)
  <2>1. j \in DOMAIN f.blocks
    BY <1>1 DEF IsDecodable
  <2>2. IsBlock(f.blocks[j]) /\ f.blocks[j].type \in {"raw", "rle"}
    BY <2>1 DEF IsDecodable, IsFrame
  <2> QED BY <2>2, BlockBytesType
<1> QED BY <1>2, <1>3 DEF Parts

\* One block more.
LEMMA PartsStep ==
  ASSUME NEW f, NEW k, IsDecodable(f, k), k # 0
  PROVE  /\ FlattenSeq(Parts(f, k - 1)) \in Seq(Bytes)
         /\ BlockBytes(f.blocks[k]) \in Seq(Bytes)
         /\ FlattenSeq(Parts(f, k))
              = FlattenSeq(Parts(f, k - 1)) \o BlockBytes(f.blocks[k])
<1> DEFINE m == k - 1
           g == Parts(f, k)
           h == Parts(f, m)
<1>1. k \in Nat /\ g \in [1..k -> Seq(Bytes)]
  BY PartsType
<1>2. m \in Nat /\ k = m + 1
  BY <1>1
<1>3. IsDecodable(f, m)
  BY <1>1, <1>2 DEF IsDecodable
<1>4. h \in [1..m -> Seq(Bytes)]
  BY <1>3, PartsType
<1>5. \A i \in 1..m : h[i] = g[i]
  BY <1>1, <1>2 DEF Parts
<1>6. g[m + 1] = BlockBytes(f.blocks[k])
  BY <1>1, <1>2 DEF Parts
<1>7. g[m + 1] \in Seq(Bytes)
  BY <1>1, <1>2
<1> HIDE DEF g, h, m
<1>8. g \in [1..(m + 1) -> Seq(Bytes)]
  BY <1>1, <1>2
<1>9. FlattenSeq(g) = FlattenSeq(h) \o g[m + 1]
  BY <1>2, <1>4, <1>5, <1>8, FlattenStep
<1>10. FlattenSeq(h) \in Seq(Bytes)
  BY <1>2, <1>4, FlattenType
<1> QED BY <1>6, <1>7, <1>9, <1>10 DEF g, h, m

\* The content of a sound frame.
LEMMA ContentFacts ==
  ASSUME NEW f, IsFrame(f), Sound(f)
  PROVE  /\ Content(f) \in Seq(Bytes)
         /\ f.magic = "zstd" => /\ IsDecodable(f, Len(f.blocks))
                                /\ Content(f) = FlattenSeq(Parts(f, Len(f.blocks)))
         /\ f.magic = "skippable" => Content(f) = <<>>
<1>1. CASE f.magic # "zstd"
  <2>1. Content(f) = <<>>
    BY <1>1 DEF Content
  <2> QED BY <1>1, <2>1
<1>2. CASE f.magic = "zstd"
  <2>1. Len(f.blocks) \in Nat /\ DOMAIN f.blocks = 1..Len(f.blocks)
    BY <1>2 DEF IsFrame, IsSequence
  <2>2. IsDecodable(f, Len(f.blocks))
    BY <1>2, <2>1 DEF IsDecodable, Sound
  <2>3. Content(f) = FlattenSeq(Parts(f, Len(f.blocks)))
    BY <1>2, <2>1 DEF Content, Parts
  <2>4. Content(f) \in Seq(Bytes)
    <3> DEFINE n == Len(f.blocks)
               g == Parts(f, n)
    <3>1. n \in Nat /\ g \in [1..n -> Seq(Bytes)]
      BY <2>2, PartsType
    <3> HIDE DEF n, g
    <3>2. FlattenSeq(g) \in Seq(Bytes)
      BY <3>1, FlattenType
    <3> QED BY <2>3, <3>2 DEF n, g
  <2> QED BY <1>2, <2>2, <2>3, <2>4
<1> QED BY <1>1, <1>2

\* The contents of frames that are all sound.
LEMMA ContentsStep ==
  ASSUME IsInput(input), NEW k \in 0..Len(input), \A i \in 1..k : Sound(input[i])
  PROVE  /\ FlattenSeq(Contents(k)) \in Seq(Bytes)
         /\ k # 0 => FlattenSeq(Contents(k))
                       = FlattenSeq(Contents(k - 1)) \o Content(input[k])
<1>1. Len(input) \in Nat /\ DOMAIN input = 1..Len(input)
  BY DEF IsInput, IsSequence
<1>2. \A i \in 1..k : Content(input[i]) \in Seq(Bytes)
  BY <1>1, ContentFacts DEF IsInput
<1> DEFINE g == Contents(k)
<1>3. g \in [1..k -> Seq(Bytes)] /\ k \in Nat
  BY <1>1, <1>2 DEF Contents
<1>4. FlattenSeq(g) \in Seq(Bytes)
  <2> HIDE DEF g
  <2> QED BY <1>3, FlattenType
<1>5. ASSUME k # 0
      PROVE  FlattenSeq(g) = FlattenSeq(Contents(k - 1)) \o Content(input[k])
  <2> DEFINE m == k - 1
             h == Contents(m)
  <2>1. m \in Nat /\ k = m + 1
    BY <1>3, <1>5
  <2>2. h \in [1..m -> Seq(Bytes)]
    BY <1>2, <2>1 DEF Contents
  <2>3. \A i \in 1..m : h[i] = g[i]
    BY <2>1 DEF Contents
  <2>4. g[m + 1] = Content(input[k])
    BY <2>1 DEF Contents
  <2> HIDE DEF g, h, m
  <2>5. FlattenSeq(g) = FlattenSeq(h) \o g[m + 1]
    BY <1>3, <2>1, <2>2, <2>3, FlattenStep
  <2> QED BY <2>4, <2>5 DEF h, m
<1> QED BY <1>4, <1>5

LEMMA NothingDecoded == Contents(0) = <<>> /\ \A f : Parts(f, 0) = <<>>
BY DEF Contents, Parts

-----------------------------------------------------------------------------
(* Inspection *)

LEMMA LeastExists ==
  ASSUME NEW T, T \subseteq Nat, T # {}
  PROVE  \E x \in T : \A y \in T : x =< y
<1>1. PICK b \in T : \A y \in T : ~(<<y, b>> \in OpToRel(<, Nat))
  BY WFMin, NatLessThanWellFounded
<1>2. \A y \in T : ~(y < b)
  BY <1>1 DEF OpToRel
<1> QED BY <1>2

Reserved(f) == {i \in 1..Len(f.blocks) : f.blocks[i].type = "reserved"}

Stop(f) == IF Reserved(f) # {} THEN Min(Reserved(f)) ELSE 0

LEMMA StopFacts ==
  ASSUME NEW f, IsFrame(f), f.magic = "zstd"
  PROVE  /\ Stop(f) = 0 <=> Reserved(f) = {}
         /\ Stop(f) # 0 => Stop(f) \in Reserved(f)
<1>1. Len(f.blocks) \in Nat
  BY DEF IsFrame, IsSequence
<1>2. Reserved(f) \subseteq Nat /\ 0 \notin Reserved(f)
  BY <1>1 DEF Reserved
<1>3. ASSUME Reserved(f) # {} PROVE Min(Reserved(f)) \in Reserved(f)
  <2> DEFINE T == Reserved(f)
  <2> HIDE DEF T
  <2>1. \E x \in T : \A y \in T : x =< y
    BY <1>2, <1>3, LeastExists DEF T
  <2>2. Min(T) \in T
    BY <2>1 DEF Min
  <2> QED BY <2>2 DEF T
<1> QED BY <1>2, <1>3 DEF Stop

\* The information about a frame of blocks.
Info(f) ==
  [valid |-> TRUE, skippable |-> FALSE, content_size |-> f.size,
   reserved_bit_set |-> f.reserved,
   uses_unsupported_compressed_blocks |->
     \E i \in DOMAIN f.blocks :
       f.blocks[i].type = "compressed" /\ (Stop(f) = 0 \/ i < Stop(f)),
   blocks |-> IF Stop(f) = 0 THEN f.blocks ELSE SubSeq(f.blocks, 1, Stop(f))]

LEMMA Inspected ==
  ASSUME input # <<>>
  PROVE  inspect_frame(input) =
           IF input[1].magic = "other" THEN NoFrame
           ELSE IF input[1].magic = "skippable"
           THEN IF input[1].cut THEN NoFrame
                ELSE [valid |-> TRUE, skippable |-> TRUE]
           ELSE IF input[1].cut /\ Stop(input[1]) = 0 THEN NoFrame
           ELSE Info(input[1])
BY DEF inspect_frame, SelectInSeq, Stop, Reserved, Info

-----------------------------------------------------------------------------
(* What the output is, and why a call fails *)

Plain(f, k) == \A j \in 1..k : f.blocks[j].type \in {"raw", "rle"}

\* What the decoder refuses in the frame in hand.
Unread ==
  \/ frame.magic = "other"
  \/ frame.magic = "skippable" /\ frame.cut

Unsupported ==
  \E j \in 1..Len(frame.blocks) :
    frame.blocks[j].type \in {"compressed", "reserved"}

Truncated == frame.cut /\ Plain(frame, Len(frame.blocks))

Short ==
  /\ Sound(frame)
  /\ frame.size # NoSize
  /\ frame.size > Len(FlattenSeq(Contents(at - 1)) \o Content(frame))

Cause ==
  \/ Unread
  \/ frame.magic = "zstd" /\ (frame.reserved \/ Unsupported \/ Truncated \/ Short)

OutputInv ==
  /\ status # "failed" => output = Decoded
  /\ status = "failed" => at <= Len(input) /\ Cause

LEMMA InitOutput == Init => OutputInv
<1> SUFFICES ASSUME Init PROVE OutputInv
  OBVIOUS
<1>1. at - 1 = 0 /\ block = 0 /\ output = <<>> /\ status = "running"
  BY DEF Init
<1>2. Decoded = <<>> \o <<>>
  BY <1>1, NothingDecoded, FlattenEmpty DEF Decoded
<1>3. <<>> \o <<>> = <<>>
  OBVIOUS
<1> QED BY <1>1, <1>2, <1>3 DEF OutputInv

LEMMA FailOutput ==
  ASSUME Fail, Reading, Cause
  PROVE  OutputInv'
<1>1. /\ status' = "failed" /\ input' = input /\ at' = at
      /\ at <= Len(input)
  BY DEF Fail, Reading
<1>2. Cause'
  BY <1>1 DEF Cause, Unread, Unsupported, Truncated, Short, frame, Contents
<1> QED BY <1>1, <1>2 DEF OutputInv

\* What is decoded of a frame between its blocks and at its end.
LEMMA DecodedType ==
  ASSUME Inv
  PROVE  /\ FlattenSeq(Contents(at - 1)) \in Seq(Bytes)
         /\ block > 0 => FlattenSeq(Parts(frame, block - 1)) \in Seq(Bytes)
<1>1. /\ IsInput(input) /\ at \in 1..(Len(input) + 1) /\ block \in Nat
      /\ Len(input) \in Nat /\ DOMAIN input = 1..Len(input)
      /\ \A i \in 1..(at - 1) : Sound(input[i])
  BY DEF Inv, TypeOK, IsInput, IsSequence
<1>2. at - 1 \in 0..Len(input)
  BY <1>1
<1>3. FlattenSeq(Contents(at - 1)) \in Seq(Bytes)
  BY <1>1, <1>2, ContentsStep
<1>4. ASSUME block > 0 PROVE FlattenSeq(Parts(frame, block - 1)) \in Seq(Bytes)
  <2>1. IsFrame(frame) /\ frame.magic = "zstd"
    BY <1>1, <1>4 DEF Inv, FrameInHand, IsInput, frame
  <2>2. Len(frame.blocks) \in Nat
    BY <2>1 DEF IsFrame, IsSequence
  <2>3. IsDecodable(frame, block - 1)
    BY <1>1, <1>4, <2>1, <2>2 DEF Inv, FrameInHand, IsDecodable
  <2> DEFINE k == block - 1
             g == Parts(frame, k)
  <2>4. k \in Nat /\ g \in [1..k -> Seq(Bytes)]
    BY <2>3, PartsType
  <2> HIDE DEF k, g
  <2>5. FlattenSeq(g) \in Seq(Bytes)
    BY <2>4, FlattenType
  <2> QED BY <2>5 DEF g, k
<1> QED BY <1>3, <1>4

LEMMA FrameDone ==
  ASSUME Inv, OutputInv, status = "running", at <= Len(input),
         Sound(frame),
         \/ block = 0 /\ frame.magic = "skippable"
         \/ block > 0 /\ block = Len(frame.blocks) + 1
  PROVE  /\ output = FlattenSeq(Contents(at - 1)) \o Content(frame)
         /\ output = FlattenSeq(Contents(at))
<1>1. /\ IsInput(input) /\ at \in 1..Len(input) /\ block \in Nat
      /\ Len(input) \in Nat /\ DOMAIN input = 1..Len(input)
      /\ \A i \in 1..(at - 1) : Sound(input[i])
  BY DEF Inv, TypeOK, IsInput, IsSequence
<1>2. IsFrame(frame)
  BY <1>1 DEF IsInput, frame
<1>3. output = FlattenSeq(Contents(at - 1)) \o Content(frame)
  <2>1. CASE block = 0 /\ frame.magic = "skippable"
    <3>1. Content(frame) = <<>>
      BY <1>2, <2>1, ContentFacts
    <3>2. output = Decoded
      BY DEF OutputInv
    <3>3. Decoded = FlattenSeq(Contents(at - 1)) \o <<>>
      BY <2>1 DEF Decoded
    <3> QED BY <3>1, <3>2, <3>3
  <2>2. CASE block > 0 /\ block = Len(frame.blocks) + 1
    <3>1. frame.magic = "zstd"
      BY <2>2 DEF Inv, FrameInHand
    <3>2. Len(frame.blocks) \in Nat
      BY <1>2, <3>1 DEF IsFrame, IsSequence
    <3>3. block - 1 = Len(frame.blocks)
      BY <2>2, <3>2
    <3>4. Content(frame) = FlattenSeq(Parts(frame, block - 1))
      BY <1>2, <3>1, <3>3, ContentFacts
    <3>5. output = Decoded
      BY DEF OutputInv
    <3>6. Decoded = FlattenSeq(Contents(at - 1)) \o FlattenSeq(Parts(frame, block - 1))
      <4>1. block # 0
        BY <1>1, <2>2
      <4> QED BY <4>1 DEF Decoded
    <3> QED BY <3>4, <3>5, <3>6
  <2> QED BY <2>1, <2>2
<1>4. at \in 0..Len(input) /\ at # 0 /\ \A i \in 1..at : Sound(input[i])
  BY <1>1 DEF frame
<1>5. FlattenSeq(Contents(at)) = FlattenSeq(Contents(at - 1)) \o Content(input[at])
  BY <1>1, <1>4, ContentsStep
<1> QED BY <1>3, <1>5 DEF frame

LEMMA NextFrameOutput ==
  ASSUME Inv, OutputInv, status = "running", at <= Len(input),
         Sound(frame), NextFrame,
         \/ block = 0 /\ frame.magic = "skippable"
         \/ block > 0 /\ block = Len(frame.blocks) + 1
  PROVE  OutputInv'
<1>1. /\ at' = at + 1 /\ block' = 0 /\ input' = input
      /\ output' = output /\ status' = status
  BY DEF NextFrame
<1>2. at \in Nat
  BY DEF Inv, TypeOK
<1>3. Decoded' = FlattenSeq(Contents(at)) \o <<>>
  BY <1>1, <1>2 DEF Decoded, Contents
<1>4. output = FlattenSeq(Contents(at))
  BY FrameDone
<1>5. output \in Seq(Bytes)
  BY DEF Inv, TypeOK
<1>6. output \o <<>> = output
  BY <1>5, ConcatEmptySeq
<1> QED BY <1>1, <1>3, <1>4, <1>6 DEF OutputInv

LEMMA BytesAssociate ==
  \A s, t, u \in Seq(Bytes) : (s \o t) \o u = s \o (t \o u)
BY ConcatAssociative

LEMMA NextOutput == Inv /\ OutputInv /\ [Next]_vars => OutputInv'
<1> SUFFICES ASSUME Inv, OutputInv, [Next]_vars PROVE OutputInv'
  OBVIOUS
<1>0. /\ IsInput(input) /\ Len(input) \in Nat /\ DOMAIN input = 1..Len(input)
      /\ at \in 1..(Len(input) + 1) /\ block \in Nat /\ output \in Seq(Bytes)
  BY DEF Inv, IsInput, IsSequence, TypeOK
<1>1. CASE Skip
  <2>1. CASE frame.cut
    BY <1>1, <2>1, FailOutput DEF Skip, Cause, Unread
  <2>2. CASE ~frame.cut
    BY <1>1, <2>2, NextFrameOutput DEF Skip, Sound, Reading
  <2> QED BY <2>1, <2>2
<1>2. CASE ReadHeader
  <2>1. CASE frame.reserved
    BY <1>2, <2>1, FailOutput DEF ReadHeader, Cause
  <2>2. CASE ~frame.reserved
    <3>1. /\ block = 0 /\ block' = 1 /\ input' = input /\ at' = at
          /\ output' = output /\ status' = status /\ status = "running"
      BY <1>2, <2>2 DEF ReadHeader, Reading
    <3>2. Decoded' = FlattenSeq(Contents(at - 1)) \o <<>>
      <4>1. Decoded' = FlattenSeq(Contents(at - 1)) \o FlattenSeq(Parts(frame, 0))
        BY <3>1 DEF Decoded, Contents, frame, Parts
      <4>2. FlattenSeq(Parts(frame, 0)) = <<>>
        BY NothingDecoded, FlattenEmpty
      <4> QED BY <4>1, <4>2
    <3>3. Decoded = FlattenSeq(Contents(at - 1)) \o <<>>
      BY <3>1 DEF Decoded
    <3> QED BY <3>1, <3>2, <3>3 DEF OutputInv
  <2> QED BY <2>1, <2>2
<1>3. CASE RejectMagic
  BY <1>3, FailOutput DEF RejectMagic, Cause, Unread
<1>4. CASE DecodeBlock
  <2>1. /\ block' = block + 1 /\ input' = input /\ at' = at /\ status' = status
        /\ output' = output \o BlockBytes(frame.blocks[block])
        /\ at \in 1..Len(input) /\ block \in 1..Len(frame.blocks)
        /\ frame.blocks[block].type \in {"raw", "rle"}
        /\ status = "running" /\ frame.magic = "zstd"
    BY <1>0, <1>4 DEF DecodeBlock, Reading, Inv, FrameInHand
  <2>2. IsDecodable(frame, block)
    <3>1. IsFrame(frame)
      BY <1>0, <2>1 DEF IsInput, frame
    <3>2. block \in 0..Len(frame.blocks)
      BY <1>0, <2>1
    <3>3. \A j \in 1..block : frame.blocks[j].type \in {"raw", "rle"}
      <4>1. block > 0
        BY <1>0, <2>1
      <4>2. \A j \in 1..(block - 1) : frame.blocks[j].type \in {"raw", "rle"}
        BY <4>1 DEF Inv, FrameInHand
      <4>3. \A j \in 1..block : j \in 1..(block - 1) \/ j = block
        BY <1>0
      <4> QED BY <2>1, <4>2, <4>3
    <3> QED BY <2>1, <3>1, <3>2, <3>3 DEF IsDecodable
  <2> DEFINE old == FlattenSeq(Contents(at - 1))
             parts == FlattenSeq(Parts(frame, block - 1))
             bytes == BlockBytes(frame.blocks[block])
  <2>3. block # 0 /\ block > 0 /\ block + 1 # 0 /\ (block + 1) - 1 = block
    BY <1>0, <2>1
  <2>4. /\ parts \in Seq(Bytes) /\ bytes \in Seq(Bytes)
        /\ FlattenSeq(Parts(frame, block)) = parts \o bytes
    BY <2>2, <2>3, PartsStep
  <2>5. old \in Seq(Bytes)
    BY DecodedType
  <2>6. output = old \o parts
    BY <2>1, <2>3 DEF OutputInv, Decoded
  <2>7. Decoded' = old \o FlattenSeq(Parts(frame, block))
    BY <2>1, <2>3 DEF Decoded, Contents, frame, Parts
  <2> HIDE DEF old, parts, bytes
  <2>8. (old \o parts) \o bytes = old \o (parts \o bytes)
    BY <2>4, <2>5, BytesAssociate
  <2>9. output' = Decoded'
    BY <2>1, <2>4, <2>6, <2>7, <2>8 DEF bytes
  <2> QED BY <2>1, <2>9 DEF OutputInv
<1>5. CASE RejectBlock
  <2>1. /\ Reading /\ Fail /\ block \in 1..Len(frame.blocks)
        /\ frame.blocks[block].type \in {"compressed", "reserved"}
        /\ frame.magic = "zstd"
    BY <1>0, <1>5 DEF RejectBlock, Inv, FrameInHand
  <2>2. Cause
    BY <2>1 DEF Cause, Unsupported
  <2> QED BY <2>1, <2>2, FailOutput
<1>6. CASE EndFrame
  <2> DEFINE short == frame.size # NoSize /\ frame.size > Len(output)
  <2>1. /\ Reading /\ at \in 1..Len(input) /\ status = "running"
        /\ block > 0 /\ block = Len(frame.blocks) + 1
        /\ frame.magic = "zstd" /\ ~frame.reserved
        /\ \A j \in 1..(block - 1) : frame.blocks[j].type \in {"raw", "rle"}
    BY <1>0, <1>6 DEF EndFrame, Reading, Inv, FrameInHand
  <2>2. Len(frame.blocks) \in Nat /\ DOMAIN frame.blocks = 1..Len(frame.blocks)
    BY <1>0, <2>1 DEF IsInput, IsFrame, IsSequence, frame
  <2>3. Plain(frame, Len(frame.blocks))
    BY <2>1, <2>2 DEF Plain
  <2>4. CASE frame.cut
    <3>1. Fail /\ Cause
      BY <1>6, <2>1, <2>3, <2>4 DEF EndFrame, Cause, Truncated
    <3> QED BY <2>1, <3>1, FailOutput
  <2>5. CASE ~frame.cut
    <3>1. Sound(frame)
      BY <2>1, <2>2, <2>3, <2>5 DEF Sound, Plain
    <3>2. CASE short
      <4>1. output = FlattenSeq(Contents(at - 1)) \o Content(frame)
        BY <2>1, <3>1, FrameDone
      <4>2. Fail /\ Cause
        BY <1>6, <2>1, <3>1, <3>2, <4>1 DEF EndFrame, Cause, Short
      <4> QED BY <2>1, <4>2, FailOutput
    <3>3. CASE ~short
      <4>1. NextFrame
        BY <1>6, <2>5, <3>3 DEF EndFrame
      <4> QED BY <2>1, <3>1, <4>1, NextFrameOutput
    <3> QED BY <3>2, <3>3
  <2> QED BY <2>4, <2>5
<1>7. CASE EndInput
  <2>1. /\ status = "running" /\ status' = "ok" /\ at' = at /\ block' = block
        /\ input' = input /\ output' = output
    BY <1>7 DEF EndInput
  <2>2. Decoded' = Decoded
    BY <2>1 DEF Decoded, Contents, frame, Parts
  <2> QED BY <2>1, <2>2 DEF OutputInv
<1>8. CASE UNCHANGED vars
  <2>1. /\ status' = status /\ at' = at /\ block' = block
        /\ input' = input /\ output' = output
    BY <1>8 DEF vars
  <2>2. Decoded' = Decoded
    BY <2>1 DEF Decoded, Contents, frame, Parts
  <2>3. Cause' = Cause
    BY <2>1 DEF Cause, Unread, Unsupported, Truncated, Short, frame, Contents
  <2> QED BY <2>1, <2>2, <2>3 DEF OutputInv
<1> QED BY <1>1, <1>2, <1>3, <1>4, <1>5, <1>6, <1>7, <1>8 DEF Next

-----------------------------------------------------------------------------
(* The round trip *)

\* Where the k-th block of the encoder ends.
End(p, k) == IF k * BlockMax < Len(p) THEN k * BlockMax ELSE Len(p)

LEMMA BlockEnds ==
  ASSUME NEW p \in Seq(Bytes), p # <<>>,
         NEW n, n = (Len(p) + BlockMax - 1) \div BlockMax
  PROVE  /\ n \in Nat /\ End(p, 0) = 0 /\ End(p, n) = Len(p)
         /\ \A k \in 1..n : /\ End(p, k - 1) = (k - 1) * BlockMax
                            /\ End(p, k - 1) \in 0..Len(p)
                            /\ End(p, k) \in End(p, k - 1)..Len(p)
<1> USE BlockMaxAssumption
<1>1. Len(p) \in Nat /\ Len(p) > 0
  OBVIOUS
<1>2. n \in Nat /\ n * BlockMax \in Int /\ n * BlockMax >= Len(p)
  BY <1>1
<1>3. End(p, 0) = 0
  <2>1. 0 * BlockMax = 0
    OBVIOUS
  <2> QED BY <1>1, <2>1 DEF End
<1>4. End(p, n) = Len(p)
  BY <1>1, <1>2 DEF End
<1>5. ASSUME NEW k \in 1..n
      PROVE  /\ End(p, k - 1) = (k - 1) * BlockMax
             /\ End(p, k - 1) \in 0..Len(p)
             /\ End(p, k) \in End(p, k - 1)..Len(p)
  <2> DEFINE before == (k - 1) * BlockMax
  <2>1. before + 1 \in 1..Len(p)
    BY <1>1, BlockStarts
  <2>2. k * BlockMax = before + BlockMax /\ before \in Int
    BY <1>2
  <2> HIDE DEF before
  <2>3. End(p, k - 1) = IF before < Len(p) THEN before ELSE Len(p)
    BY DEF End, before
  <2>4. End(p, k) = IF before + BlockMax < Len(p) THEN before + BlockMax ELSE Len(p)
    BY <2>2 DEF End
  <2>5. before \in 0..Len(p) /\ before < Len(p)
    BY <1>1, <2>1, <2>2
  <2>6. End(p, k - 1) = before
    BY <2>3, <2>5
  <2>7. End(p, k) \in before..Len(p)
    BY <1>1, <2>4, <2>5
  <2> QED BY <2>5, <2>6, <2>7 DEF before
<1> QED BY <1>2, <1>3, <1>4, <1>5

\* The frame of a payload is sound, declares the payload's length and holds
\* the payload.
LEMMA EncodedFacts ==
  ASSUME NEW p \in Payloads, NEW f, f = compress(p)[1]
  PROVE  /\ f.magic = "zstd" /\ IsFrame(f) /\ Sound(f)
         /\ f.size = Len(p) /\ Content(f) = p
<1>1. /\ f.magic = "zstd" /\ f.blocks = Chunks(p) /\ f.size = ReadBack(Len(p))
      /\ f.cut = FALSE /\ f.reserved = FALSE
  BY DEF compress, Frame
<1>2. p \in Seq(Bytes) /\ Len(p) \in Nat
  BY PayloadsAssumption
<1>3. f.size = Len(p)
  BY <1>1, PayloadsAssumption, SizesSurvive DEF SizeSurvives
<1>4. IsFrame(f)
  BY <1>1, <1>2, <1>3, ChunksAreBlocks DEF IsFrame
<1>5. CASE p = <<>>
  <2>1. f.blocks = <<RawBlock(<<>>)>>
    BY <1>1, <1>5 DEF Chunks
  <2>2. Len(f.blocks) = 1 /\ f.blocks[1].type = "raw" /\ f.blocks[1].bytes = <<>>
        /\ DOMAIN f.blocks = 1..1
    BY <2>1 DEF RawBlock
  <2>3. Sound(f)
    BY <1>1, <2>2 DEF Sound
  <2>4. IsDecodable(f, 1) /\ Content(f) = FlattenSeq(Parts(f, 1))
    BY <1>1, <1>4, <2>2, <2>3, ContentFacts
  <2>5. FlattenSeq(Parts(f, 1)) = FlattenSeq(Parts(f, 0)) \o BlockBytes(f.blocks[1])
    <3> DEFINE k == 1
    <3>1. IsDecodable(f, k) /\ k # 0 /\ k - 1 = 0
      BY <2>4
    <3> HIDE DEF k
    <3>2. FlattenSeq(Parts(f, k))
            = FlattenSeq(Parts(f, k - 1)) \o BlockBytes(f.blocks[k])
      BY <3>1, PartsStep
    <3> QED BY <3>1, <3>2 DEF k
  <2>6. BlockBytes(f.blocks[1]) = <<>>
    BY <2>2 DEF BlockBytes
  <2>7. FlattenSeq(Parts(f, 0)) = <<>>
    BY NothingDecoded, FlattenEmpty
  <2> QED BY <1>1, <1>3, <1>4, <1>5, <2>3, <2>4, <2>5, <2>6, <2>7
<1>6. CASE p # <<>>
  <2> DEFINE n == (Len(p) + BlockMax - 1) \div BlockMax
             Bits(k) == SubSeq(p, (k - 1) * BlockMax + 1, End(p, k))
  <2>1. f.blocks = [k \in 1..n |-> RawBlock(Bits(k))]
    BY <1>1, <1>6 DEF Chunks, End
  <2>2. /\ n \in Nat /\ End(p, 0) = 0 /\ End(p, n) = Len(p)
        /\ \A k \in 1..n : /\ End(p, k - 1) = (k - 1) * BlockMax
                           /\ End(p, k - 1) \in 0..Len(p)
                           /\ End(p, k) \in End(p, k - 1)..Len(p)
    BY <1>2, <1>6, BlockEnds
  <2> HIDE DEF n
  <2>3. Len(f.blocks) = n /\ DOMAIN f.blocks = 1..n
    <3> HIDE DEF Bits
    <3> QED BY <2>1, <2>2
  <2>4. \A k \in 1..n : /\ f.blocks[k].type = "raw"
                        /\ BlockBytes(f.blocks[k]) = Bits(k)
    <3> HIDE DEF Bits
    <3> QED BY <2>1 DEF RawBlock, BlockBytes
  <2>5. Sound(f)
    BY <1>1, <2>3, <2>4 DEF Sound
  <2>6. IsDecodable(f, n) /\ Content(f) = FlattenSeq(Parts(f, n))
    BY <1>1, <1>4, <2>3, <2>5, ContentFacts
  <2> DEFINE T == {k \in 0..n : FlattenSeq(Parts(f, k)) = SubSeq(p, 1, End(p, k))}
  <2>7. 0 \in T
    <3>1. SubSeq(p, 1, 0) = <<>>
      BY <1>2
    <3>2. FlattenSeq(Parts(f, 0)) = <<>>
      BY NothingDecoded, FlattenEmpty
    <3>3. FlattenSeq(Parts(f, 0)) = SubSeq(p, 1, End(p, 0))
      BY <2>2, <3>1, <3>2
    <3>4. 0 \in 0..n
      BY <2>2
    <3> QED BY <3>3, <3>4
  <2>8. ASSUME NEW k \in 1..n, k - 1 \in T PROVE k \in T
    <3>1. k \in 0..n /\ k # 0
      BY <2>2
    <3>2. IsDecodable(f, k)
      BY <2>2, <2>3, <2>6 DEF IsDecodable
    <3>3. FlattenSeq(Parts(f, k)) = FlattenSeq(Parts(f, k - 1)) \o Bits(k)
      BY <2>4, <3>1, <3>2, PartsStep
    <3>4. FlattenSeq(Parts(f, k - 1)) = SubSeq(p, 1, End(p, k - 1))
      BY <2>8
    <3> DEFINE from == End(p, k - 1)
               to == End(p, k)
    <3>5. from \in 0..Len(p) /\ to \in from..Len(p) /\ Bits(k) = SubSeq(p, from + 1, to)
      BY <2>2
    <3> HIDE DEF from, to, Bits
    <3>6. 1 \in 1..Len(p) + 1 /\ from \in (1 - 1)..Len(p)
      BY <1>2, <3>5
    <3>7. SubSeq(p, 1, from) \o SubSeq(p, from + 1, to) = SubSeq(p, 1, to)
      BY <1>2, <3>5, <3>6, ConcatAdjacentSubSeq
    <3> QED BY <3>1, <3>3, <3>4, <3>5, <3>7 DEF from, to
  <2> HIDE DEF T
  <2>9. n \in T
    <3>1. 0..n \subseteq T
      BY <2>2, <2>7, <2>8, BoundedInduction
    <3> QED BY <2>2, <3>1
  <2>10. SubSeq(p, 1, Len(p)) = p
    BY <1>2, SubSeqFull
  <2> QED BY <1>1, <1>3, <1>4, <2>2, <2>5, <2>6, <2>9, <2>10 DEF T
<1> QED BY <1>5, <1>6

-----------------------------------------------------------------------------
(* Theorems *)

\* The inductive invariant of the decoder.
THEOREM InvIsInvariant == Spec => []Inv
BY InitInv, NextInv, PTL DEF Spec

LEMMA OutputIsInvariant == Spec => [](Inv /\ OutputInv)
<1> DEFINE IInv == Inv /\ OutputInv
<1>1. Init => IInv
  BY InitInv, InitOutput
<1>2. IInv /\ [Next]_vars => IInv'
  BY NextInv, NextOutput
<1> HIDE DEF IInv
<1>3. Spec => []IInv
  BY <1>1, <1>2, PTL DEF Spec
<1> QED BY <1>3 DEF IInv

\* The decoder never leaves its input and returns nothing but bytes.
THEOREM TypeCorrectness == Spec => []TypeOK
<1>1. Inv => TypeOK
  BY DEF Inv
<1> QED BY <1>1, InvIsInvariant, PTL

\* A call succeeds only on an input of whole, supported frames.
THEOREM SuccessIsSound == Spec => []SuccessMeansSound
<1>1. Inv => SuccessMeansSound
  BY DEF Inv, SuccessMeansSound, IsInput, IsSequence
<1> QED BY <1>1, InvIsInvariant, PTL

\* The encoder's header declares the payload's size, for every payload.
THEOREM HeadersTellSizes == Spec => []HeaderTellsSize
<1>1. HeaderTellsSize
  <2> SUFFICES ASSUME NEW p \in Payloads, input = compress(p)
               PROVE  input[1].size = Len(p)
    BY DEF HeaderTellsSize
  <2>1. SizeSurvives(Len(p))
    BY PayloadsAssumption, SizesSurvive
  <2> QED BY <2>1 DEF compress, Frame, SizeSurvives
<1> QED BY <1>1, PTL

LEMMA ContentsOfAll ==
  ASSUME Inv, OutputInv, status = "ok"
  PROVE  /\ output = FlattenSeq(Contents(Len(input)))
         /\ \A i \in 1..Len(input) : Sound(input[i])
<1>1. /\ IsInput(input) /\ Len(input) \in Nat /\ at = Len(input) + 1
      /\ \A i \in 1..(at - 1) : Sound(input[i])
      /\ block \in Nat /\ output \in Seq(Bytes)
  BY DEF Inv, IsInput, IsSequence, TypeOK
<1>2. at - 1 = Len(input) /\ ~(at <= Len(input))
  BY <1>1
<1>3. block = 0
  BY <1>1, <1>2 DEF Inv, FrameInHand
<1>4. output = FlattenSeq(Contents(at - 1)) \o <<>>
  BY <1>3 DEF OutputInv, Decoded
<1>5. FlattenSeq(Contents(at - 1)) \in Seq(Bytes)
  BY DecodedType
<1>6. FlattenSeq(Contents(at - 1)) \o <<>> = FlattenSeq(Contents(at - 1))
  BY <1>5, ConcatEmptySeq
<1> QED BY <1>1, <1>2, <1>4, <1>6

LEMMA Content1 ==
  ASSUME IsInput(input), Len(input) > 0, Sound(input[1])
  PROVE  /\ FlattenSeq(Contents(0)) \o Content(input[1]) = Content(input[1])
         /\ FlattenSeq(Contents(1)) = Content(input[1])
<1>1. Len(input) \in Nat /\ DOMAIN input = 1..Len(input) /\ IsFrame(input[1])
  BY DEF IsInput, IsSequence
<1>2. Content(input[1]) \in Seq(Bytes)
  BY <1>1, ContentFacts
<1>3. FlattenSeq(Contents(0)) = <<>>
  BY NothingDecoded, FlattenEmpty
<1>4. <<>> \o Content(input[1]) = Content(input[1])
  BY <1>2, ConcatEmptySeq
<1> DEFINE k == 1
<1>5. k \in 0..Len(input) /\ k # 0 /\ k - 1 = 0 /\ \A i \in 1..k : Sound(input[i])
  BY <1>1
<1> HIDE DEF k
<1>6. FlattenSeq(Contents(k)) = FlattenSeq(Contents(k - 1)) \o Content(input[k])
  BY <1>5, ContentsStep
<1> QED BY <1>3, <1>4, <1>5, <1>6 DEF k

\* The decoder gives back every payload the encoder is given, whatever the
\* size of its blocks and the width of its size field, and a call that succeeds
\* returns the contents of all its frames in order.
THEOREM RoundTrip == Spec => []DecodesContent
<1>1. ASSUME Inv, OutputInv PROVE DecodesContent
  <2>0. Len(input) \in Nat /\ DOMAIN input = 1..Len(input) /\ at \in 1..(Len(input) + 1)
        /\ status \in {"running", "ok", "failed"} /\ IsInput(input)
    BY <1>1 DEF Inv, IsInput, IsSequence, TypeOK
  <2>1. ASSUME status = "ok"
        PROVE  output = FlattenSeq([i \in DOMAIN input |-> Content(input[i])])
    <3>1. output = FlattenSeq(Contents(Len(input)))
      BY <1>1, <2>1, ContentsOfAll
    <3> QED BY <2>0, <3>1 DEF Contents
  <2>2. ASSUME status # "running", NEW p \in Payloads, input = compress(p)
        PROVE  status = "ok" /\ output = p
    <3>1. Len(input) = 1
      BY <2>2, EncodedIsInput
    <3> DEFINE f == input[1]
    <3>2. /\ f.magic = "zstd" /\ IsFrame(f) /\ Sound(f)
          /\ f.size = Len(p) /\ Content(f) = p
      BY <2>2, EncodedFacts
    <3>3. Len(p) \in Nat
      BY PayloadsAssumption
    <3>4. /\ FlattenSeq(Contents(0)) \o Content(f) = p
          /\ FlattenSeq(Contents(1)) = p
      BY <2>0, <3>1, <3>2, Content1
    <3>5. ASSUME status = "failed" PROVE FALSE
      <4>1. at = 1 /\ at - 1 = 0 /\ Cause
        BY <1>1, <2>0, <3>1, <3>5 DEF OutputInv
      <4>2. frame = f
        BY <4>1 DEF frame
      <4> HIDE DEF f
      <4>3. Len(f.blocks) \in Nat /\ DOMAIN f.blocks = 1..Len(f.blocks)
        BY <3>2 DEF IsFrame, IsSequence
      <4>4. ~f.cut /\ ~f.reserved
            /\ \A i \in 1..Len(f.blocks) : f.blocks[i].type \in {"raw", "rle"}
        BY <3>2, <4>3 DEF Sound
      <4>5. ~Short
        BY <3>2, <3>3, <3>4, <4>1, <4>2 DEF Short
      <4> QED BY <3>2, <4>1, <4>2, <4>4, <4>5 DEF Cause, Unread, Unsupported, Truncated
    <3>6. status = "ok"
      BY <2>0, <2>2, <3>5
    <3>7. output = FlattenSeq(Contents(1))
      BY <1>1, <3>1, <3>6, ContentsOfAll
    <3> QED BY <3>4, <3>6, <3>7
  <2> QED BY <2>1, <2>2 DEF DecodesContent
<1> QED BY <1>1, OutputIsInvariant, PTL

\* A call fails only on a damaged or unsupported frame, or on one that declares
\* more than it holds.
THEOREM FailuresHaveCause == Spec => []FailsForCause
<1>1. ASSUME Inv, OutputInv PROVE FailsForCause
  <2> SUFFICES ASSUME status = "failed",
                      \A i \in DOMAIN input : Sound(input[i])
               PROVE  /\ frame.magic = "zstd" /\ frame.size # NoSize
                      /\ frame.size > Len(Content(frame))
                      /\ at \in DOMAIN input
    BY DEF FailsForCause, frame
  <2>1. /\ Len(input) \in Nat /\ DOMAIN input = 1..Len(input) /\ IsInput(input)
        /\ at \in 1..Len(input) /\ Cause
    BY <1>1 DEF Inv, IsInput, IsSequence, TypeOK, OutputInv
  <2>2. Sound(frame) /\ IsFrame(frame)
    BY <2>1 DEF IsInput, frame
  <2>3. ~Unread
    BY <2>2 DEF Unread, Sound
  <2>4. frame.magic = "zstd" /\ (frame.reserved \/ Unsupported \/ Truncated \/ Short)
    BY <2>1, <2>3 DEF Cause
  <2>5. DOMAIN frame.blocks = 1..Len(frame.blocks)
    BY <2>2, <2>4 DEF IsFrame, IsSequence
  <2>6. ~frame.reserved /\ ~Unsupported /\ ~Truncated
    BY <2>2, <2>4, <2>5 DEF Sound, Unsupported, Truncated
  <2> DEFINE old == FlattenSeq(Contents(at - 1))
             new == Content(frame)
  <2>7. /\ frame.size # NoSize /\ frame.size \in Nat
        /\ frame.size > Len(old \o new)
    BY <2>2, <2>4, <2>6 DEF Short, IsFrame
  <2>8. old \in Seq(Bytes) /\ new \in Seq(Bytes)
    BY <1>1, <2>2, DecodedType, ContentFacts
  <2> HIDE DEF old, new
  <2>9. frame.size > Len(new)
    <3>1. Len(old \o new) = Len(old) + Len(new) /\ Len(old) \in Nat /\ Len(new) \in Nat
      BY <2>8
    <3> QED BY <2>7, <3>1
  <2> QED BY <2>1, <2>4, <2>7, <2>9 DEF new
<1> QED BY <1>1, OutputIsInvariant, PTL

\* Inspection of the first frame and its decoding agree.
THEOREM InspectionAgrees == Spec => []InspectAgrees
<1>1. ASSUME Inv, OutputInv PROVE InspectAgrees
  <2> DEFINE f == input[1]
             info == inspect_frame(input)
  <2>1. Len(input) \in Nat /\ DOMAIN input = 1..Len(input) /\ IsInput(input)
        /\ (input # <<>> => 1 \in 1..Len(input))
        /\ (Len(input) > 0 => input # <<>>)
    BY <1>1 DEF Inv, IsInput, IsSequence
  <2>2. ASSUME status = "ok", input # <<>>
        PROVE  /\ info.valid
               /\ ~info.skippable =>
                    /\ ~info.reserved_bit_set
                    /\ ~info.uses_unsupported_compressed_blocks
                    /\ info.blocks = f.blocks
    <3>1. Sound(f) /\ IsFrame(f)
      BY <1>1, <2>1, <2>2, ContentsOfAll DEF IsInput
    <3>2. CASE f.magic = "skippable"
      <4>1. info = [valid |-> TRUE, skippable |-> TRUE]
        BY <2>2, <3>1, <3>2, Inspected DEF Sound
      <4> QED BY <4>1
    <3>3. CASE f.magic = "zstd"
      <4>1. DOMAIN f.blocks = 1..Len(f.blocks)
        BY <3>1, <3>3 DEF IsFrame, IsSequence
      <4>2. Reserved(f) = {} /\ ~f.cut /\ ~f.reserved
            /\ \A i \in DOMAIN f.blocks : f.blocks[i].type # "compressed"
        BY <3>1, <3>3, <4>1 DEF Sound, Reserved
      <4>3. Stop(f) = 0
        BY <4>2 DEF Stop
      <4>4. info = Info(f)
        BY <2>2, <3>3, <4>2, Inspected
      <4> HIDE DEF f, info
      <4> QED BY <4>2, <4>3, <4>4 DEF Info
    <3> QED BY <3>1, <3>2, <3>3 DEF Sound
  <2>3. ASSUME status = "failed", at = 1, info.valid
        PROVE  \/ info.reserved_bit_set
               \/ info.uses_unsupported_compressed_blocks
               \/ \E i \in DOMAIN info.blocks : info.blocks[i].type = "reserved"
               \/ info.content_size # NoSize
                    /\ info.content_size > Len(Content(f))
    <3>1. Len(input) > 0 /\ input # <<>> /\ Cause /\ frame = f /\ at - 1 = 0
      BY <1>1, <2>1, <2>3 DEF OutputInv, frame
    <3>2. IsFrame(f)
      BY <2>1, <3>1 DEF IsInput
    <3>3. CASE Unread
      <4>1. info = NoFrame
        BY <3>1, <3>3, Inspected DEF Unread
      <4> QED BY <2>3, <4>1 DEF NoFrame
    <3>4. CASE ~Unread
      <4>1. f.magic = "zstd" /\ (f.reserved \/ Unsupported \/ Truncated \/ Short)
        BY <3>1, <3>4 DEF Cause
      <4>2. info = IF f.cut /\ Stop(f) = 0 THEN NoFrame ELSE Info(f)
        BY <3>1, <4>1, Inspected
      <4>3. info = Info(f) /\ ~(f.cut /\ Stop(f) = 0)
        <5> HIDE DEF f, info
        <5> QED BY <2>3, <4>2 DEF NoFrame, info
      <4>4. /\ Len(f.blocks) \in Nat /\ DOMAIN f.blocks = 1..Len(f.blocks)
            /\ f.blocks \in Seq({f.blocks[i] : i \in DOMAIN f.blocks})
        BY <3>2, <4>1 DEF IsFrame, IsSequence
      <4>5. /\ Stop(f) = 0 <=> Reserved(f) = {}
            /\ Stop(f) # 0 => Stop(f) \in Reserved(f)
        BY <3>2, <4>1, StopFacts
      <4> HIDE DEF f, info
      <4>6. /\ info.reserved_bit_set = f.reserved
            /\ info.content_size = f.size
            /\ info.uses_unsupported_compressed_blocks =
                 \E i \in DOMAIN f.blocks :
                   f.blocks[i].type = "compressed" /\ (Stop(f) = 0 \/ i < Stop(f))
            /\ info.blocks = IF Stop(f) = 0 THEN f.blocks
                             ELSE SubSeq(f.blocks, 1, Stop(f))
        BY <4>3 DEF Info
      <4>7. CASE f.reserved
        BY <4>6, <4>7
      <4>8. CASE Stop(f) # 0
        <5> DEFINE stop == Stop(f)
        <5>1. stop \in 1..Len(f.blocks) /\ f.blocks[stop].type = "reserved"
          BY <4>5, <4>8 DEF Reserved
        <5>2. info.blocks = SubSeq(f.blocks, 1, stop)
          BY <4>6, <4>8
        <5> HIDE DEF stop
        <5>3. stop \in DOMAIN info.blocks /\ info.blocks[stop] = f.blocks[stop]
          BY <4>4, <5>1, <5>2
        <5> QED BY <5>1, <5>3
      <4>9. CASE Unsupported /\ Stop(f) = 0
        <5>1. PICK j \in 1..Len(f.blocks) :
                     f.blocks[j].type \in {"compressed", "reserved"}
          BY <3>1, <4>9 DEF Unsupported
        <5>2. f.blocks[j].type # "reserved"
          BY <4>5, <4>9, <5>1 DEF Reserved
        <5> QED BY <4>4, <4>6, <4>9, <5>1, <5>2
      <4>10. CASE Truncated
        <5>1. f.cut /\ Reserved(f) = {}
          BY <3>1, <4>10 DEF Truncated, Plain, Reserved
        <5> QED BY <4>3, <4>5, <5>1
      <4>11. CASE Short
        <5>1. Sound(f) /\ f.size # NoSize
                /\ f.size > Len(FlattenSeq(Contents(0)) \o Content(f))
          BY <3>1, <4>11 DEF Short
        <5>2. FlattenSeq(Contents(0)) \o Content(f) = Content(f)
          BY <2>1, <3>1, <5>1, Content1 DEF f
        <5> QED BY <4>6, <5>1, <5>2
      <4> QED BY <4>1, <4>7, <4>8, <4>9, <4>10, <4>11
    <3> QED BY <3>3, <3>4
  <2> QED BY <2>2, <2>3 DEF InspectAgrees
<1> QED BY <1>1, OutputIsInvariant, PTL

-----------------------------------------------------------------------------
(* A call returns *)

\* A call cannot read for ever, whatever the input: each of its steps ends it,
\* or goes on to the next frame, or to the next block of the frame it reads.
THEOREM CallsRunOut ==
  Spec => [][/\ status = "running" /\ input' = input
             /\ \/ status' \in {"ok", "failed"}
                \/ at' = at + 1 /\ at' <= Len(input) + 1 /\ block' = 0
                \/ at' = at /\ block' = block + 1 /\ block' <= Len(frame.blocks) + 1]_vars
<1> DEFINE Advances == \/ status' \in {"ok", "failed"}
                       \/ at' = at + 1 /\ at' <= Len(input) + 1 /\ block' = 0
                       \/ /\ at' = at /\ block' = block + 1
                          /\ block' <= Len(frame.blocks) + 1
<1>1. ASSUME Inv, Next PROVE status = "running" /\ input' = input /\ Advances
  <2>0. /\ IsInput(input) /\ Len(input) \in Nat /\ DOMAIN input = 1..Len(input)
        /\ at \in 1..(Len(input) + 1) /\ block \in Nat
    BY <1>1 DEF Inv, IsInput, IsSequence, TypeOK
  <2>1. status = "running" /\ input' = input
    BY <1>1 DEF Next, Skip, ReadHeader, RejectMagic, DecodeBlock, RejectBlock, EndFrame,
                EndInput, Reading, Fail, NextFrame
  <2>2. ASSUME Fail \/ EndInput PROVE Advances
    BY <2>2 DEF Fail, EndInput
  <2>3. ASSUME NextFrame, Reading PROVE Advances
    <3>1. at' = at + 1 /\ block' = 0 /\ at <= Len(input)
      BY <2>3 DEF NextFrame, Reading
    <3>2. at + 1 <= Len(input) + 1
      BY <2>0, <3>1
    <3> QED BY <3>1, <3>2
  <2>4. ASSUME Reading, frame.magic = "zstd",
               at' = at, block' = block + 1, block <= Len(frame.blocks)
        PROVE  Advances
    <3>1. at \in DOMAIN input
      BY <2>0, <2>4 DEF Reading, IsInput, IsSequence
    <3>2. Len(frame.blocks) \in Nat
      BY <2>0, <2>4, <3>1 DEF IsInput, IsFrame, IsSequence, frame
    <3>3. block + 1 <= Len(frame.blocks) + 1
      BY <2>0, <2>4, <3>2
    <3> QED BY <2>4, <3>3
  <2> HIDE DEF Advances
  <2>5. CASE Skip \/ EndFrame
    BY <2>1, <2>2, <2>3, <2>5 DEF Skip, EndFrame
  <2>6. CASE RejectMagic \/ RejectBlock \/ EndInput
    BY <2>1, <2>2, <2>6 DEF RejectMagic, RejectBlock
  <2>7. CASE ReadHeader
    <3>1. CASE frame.reserved
      BY <2>1, <2>2, <2>7, <3>1 DEF ReadHeader
    <3>2. CASE ~frame.reserved
      <4>1. Reading /\ frame.magic = "zstd" /\ at' = at /\ block = 0 /\ block' = 1
        BY <2>7, <3>2 DEF ReadHeader
      <4>2. at \in DOMAIN input
        BY <2>0, <4>1 DEF Reading, IsInput, IsSequence
      <4>3. Len(frame.blocks) \in Nat
        BY <2>0, <4>1, <4>2 DEF IsInput, IsFrame, IsSequence, frame
      <4>4. block' = block + 1 /\ block <= Len(frame.blocks)
        BY <4>1, <4>3
      <4> QED BY <2>1, <2>4, <4>1, <4>4
    <3> QED BY <3>1, <3>2
  <2>8. CASE DecodeBlock
    <3>1. /\ Reading /\ at' = at /\ block > 0
          /\ block' = block + 1 /\ block <= Len(frame.blocks)
      BY <2>8 DEF DecodeBlock
    <3>2. frame.magic = "zstd"
      BY <1>1, <3>1 DEF Inv, FrameInHand
    <3> QED BY <2>1, <2>4, <3>1, <3>2
  <2> QED BY <1>1, <2>1, <2>5, <2>6, <2>7, <2>8 DEF Next
<1>2. Inv /\ [Next]_vars => [status = "running" /\ input' = input /\ Advances]_vars
  BY <1>1
<1> HIDE DEF Advances
<1> QED BY <1>2, InvIsInvariant, PTL DEF Spec, Advances

\* A call is never stuck: whatever is left of the input, there is a magic
\* number, a block or the end of a frame to read, and each has its step.
THEOREM CallsGoOn ==
  Spec => [](status = "running" =>
               \/ at = Len(input) + 1
               \/ Reading /\ block = 0 /\ frame.magic \in {"zstd", "skippable", "other"}
               \/ /\ Reading /\ block \in 1..Len(frame.blocks)
                  /\ frame.blocks[block].type \in {"raw", "rle", "compressed", "reserved"}
               \/ Reading /\ block = Len(frame.blocks) + 1)
<1> DEFINE GoesOn ==
      \/ at = Len(input) + 1
      \/ Reading /\ block = 0 /\ frame.magic \in {"zstd", "skippable", "other"}
      \/ /\ Reading /\ block \in 1..Len(frame.blocks)
         /\ frame.blocks[block].type \in {"raw", "rle", "compressed", "reserved"}
      \/ Reading /\ block = Len(frame.blocks) + 1
<1>1. ASSUME Inv, status = "running", at # Len(input) + 1 PROVE GoesOn
  <2>1. /\ IsInput(input) /\ Len(input) \in Nat /\ DOMAIN input = 1..Len(input)
        /\ at \in 1..Len(input) /\ block \in Nat
    BY <1>1 DEF Inv, IsInput, IsSequence, TypeOK
  <2>2. Reading /\ IsFrame(frame)
    BY <1>1, <2>1 DEF Reading, IsInput, frame
  <2>3. CASE block = 0
    BY <2>2, <2>3 DEF IsFrame
  <2>4. CASE block > 0
    <3>1. frame.magic = "zstd" /\ block <= Len(frame.blocks) + 1
      BY <1>1, <2>4 DEF Inv, FrameInHand
    <3>2. /\ Len(frame.blocks) \in Nat /\ DOMAIN frame.blocks = 1..Len(frame.blocks)
          /\ \A j \in DOMAIN frame.blocks : IsBlock(frame.blocks[j])
      BY <2>2, <3>1 DEF IsFrame, IsSequence
    <3>3. CASE block = Len(frame.blocks) + 1
      BY <2>2, <3>3
    <3>4. CASE block # Len(frame.blocks) + 1
      <4>1. block \in 1..Len(frame.blocks)
        BY <2>1, <2>4, <3>1, <3>2, <3>4
      <4>2. frame.blocks[block].type \in {"raw", "rle", "compressed", "reserved"}
        BY <3>2, <4>1 DEF IsBlock
      <4> QED BY <2>2, <4>1, <4>2
    <3> QED BY <3>3, <3>4
  <2> QED BY <2>1, <2>3, <2>4
<1>2. Inv => (status = "running" => GoesOn)
  BY <1>1
<1> HIDE DEF GoesOn
<1> QED BY <1>2, InvIsInvariant, PTL DEF GoesOn

=============================================================================

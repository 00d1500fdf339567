------------------------------- MODULE MCZstd -------------------------------
(* Small instances of Zstd for TLC. *)
EXTENDS Zstd, FiniteSets

CONSTANTS MaxPayload, MaxFrames

\* One payload per length: with distinct bytes, any misplaced byte shows.
MCPayloads == {[i \in 1..n |-> i] : n \in 0..MaxPayload}

MCBytes == 1..MaxPayload

MCBlocks == {RawBlock(<<1>>), RleBlock(2, 2)}

\* A compressed or reserved block ends what the decoder looks at.
MCBlockSeqs ==
  {<<>>} \cup {<<b>> : b \in MCBlocks} \cup (MCBlocks \X MCBlocks)

MCBadBlockSeqs ==
  {<<b>> : b \in {CompressedBlock, ReservedBlock}}
    \cup (MCBlocks \X {CompressedBlock, ReservedBlock})

MCFrames ==
  {Frame(n, bs, FALSE, FALSE) : n \in {NoSize, 0, 1, 3}, bs \in MCBlockSeqs \ {<<>>}}
    \cup {Frame(n, bs, FALSE, FALSE) : n \in {NoSize, 2}, bs \in MCBadBlockSeqs}
    \cup {Frame(1, bs, TRUE, FALSE) : bs \in {<<RawBlock(<<1>>)>>}}
    \cup {SkippableFrame(FALSE), UnknownFrame}

MCCutFrames ==
  {Frame(n, bs, FALSE, TRUE) : n \in {NoSize, 1}, bs \in MCBlockSeqs \cup MCBadBlockSeqs}
    \cup {SkippableFrame(TRUE)}

\* Whole frames, then perhaps one the input ends in.
MCInputs ==
  LET whole == UNION {[1..n -> MCFrames] : n \in 0..MaxFrames}
  IN  whole \cup {Append(fs, f) : fs \in UNION {[1..n -> MCFrames] : n \in 0..(MaxFrames - 1)},
                                  f \in MCCutFrames}

=============================================================================

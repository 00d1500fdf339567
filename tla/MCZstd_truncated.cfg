SPECIFICATION Spec
CONSTANTS
  W1 = 2
  W2 = 4
  W4 = 8
  W8 = 64
  NoSize = NoSize
  BlockMax = 3
  MaxPayload = 12
  MaxFrames = 2
  Bytes <- MCBytes
  Payloads <- MCPayloads
  Inputs <- MCInputs
INVARIANT TruncationDetected
CHECK_DEADLOCK FALSE

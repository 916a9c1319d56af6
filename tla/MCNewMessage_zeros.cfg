\* The same as MCNewMessage_content: what does NumLeadingZeros count?
CONSTANTS
  Node = {a, b, c}
  Author = a
  Text = {t}
  Everyone = Everyone
  Bits = 2
  NonceLength = 2
  HashLength = 2
  ChunkLength = 13
  HashFamily <- Affine
  Unable = Unable
SPECIFICATION Spec
INVARIANTS
  ZerosAreLeading
CHECK_DEADLOCK FALSE

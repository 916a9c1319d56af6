\* Bytes of two bits, nonces and hashes of two bytes, ciphertexts of
\* thirteen: with two more the end of the first is the most two bytes can hold.
CONSTANTS
  Node = {a, b, c}
  Author = a
  Text = {t}
  Everyone = Everyone
  Bits = 2
  NonceLength = 2
  HashLength = 2
  ChunkLength = 13
  HashFamily <- Affine
  Unable = Unable
SPECIFICATION FairSpec
INVARIANTS
  TypeOK
  ZerosArePowersOfTwo
  HashesAreOrdered
  FirstNonceIsTaken
  ReadersReadTheText
PROPERTIES
  SearchEnds
CHECK_DEADLOCK FALSE

\* Two posts at a time, two mongering goroutines, a deleted messages.db.
CONSTANTS
  a = a
  b = b
  ka = ka
  kb = kb
  x = x
  y = y
  NoTask = NoTask
  KeyBody <- PairKeys
  Digest <- Rank
  Zeros <- Enough
  PowTarget <- SameTarget
  Node <- Pair
  Body = {ka, kb, x, y}
  Recipient <- AllPublic
  WithUI = {a}
  Client = {c1, c2}
  Task = {t1, t2}
  PeerFlag <- OneWay
  Stored <- Announced
  MaxNet = 2
  MaxCopy = 1
  MaxRestart = 0
  MaxWipe = 1
  MaxToggle = 0
SPECIFICATION Spec
SYMMETRY ClientTaskSymmetry
INVARIANTS
  ExactlyOneRow
  HandlersAreRemoved
PROPERTIES
  LowestHashWins

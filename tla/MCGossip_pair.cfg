\* Two nodes, one post at a time; loss, duplication, reordering, a crash.
CONSTANTS
  a = a
  b = b
  ka = ka
  kb = kb
  x = x
  y = y
  NoTask = NoTask
  KeyBody <- PairKeys
  Digest <- Rank
  Zeros <- Enough
  PowTarget <- SameTarget
  Node <- Pair
  Body = {ka, kb, x, y}
  Recipient <- PrivateToB
  WithUI = {a}
  Client = {c1}
  Task = {t1}
  PeerFlag <- OneWay
  Stored <- Empty
  MaxNet = 2
  MaxCopy = 1
  MaxRestart = 1
  MaxWipe = 0
  MaxToggle = 1
SPECIFICATION Spec
INVARIANTS
  TypeOK
  AuthorIsAhead
  AuthorKeepsEverything
  PostedMessageIsStored
PROPERTIES
  ClockNeverGoesBack
  ImplementsLog
CHECK_DEADLOCK FALSE

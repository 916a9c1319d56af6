\* A post of a node launched without its messages.db: README.md:44.
CONSTANTS
  a = a
  b = b
  ka = ka
  kb = kb
  x = x
  y = y
  NoTask = NoTask
  KeyBody <- PairKeys
  Digest <- Rank
  Zeros <- Enough
  PowTarget <- SameTarget
  Node <- Pair
  Body = {ka, kb, x, y}
  Recipient <- AllPublic
  WithUI = {a}
  Client = {c1}
  Task = {t1}
  PeerFlag <- OneWay
  Stored <- AuthorLostIts
  MaxNet = 3
  MaxCopy = 0
  MaxRestart = 0
  MaxWipe = 0
  MaxToggle = 0
SPECIFICATION FairSpec
PROPERTIES
  Convergence

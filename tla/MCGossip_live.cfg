\* Node a was launched without its messages.db, node b posts; fairness.
CONSTANTS
  a = a
  b = b
  ka = ka
  kb = kb
  x = x
  y = y
  NoTask = NoTask
  KeyBody <- PairKeys
  Digest <- Rank
  Zeros <- Enough
  PowTarget <- SameTarget
  Node <- Pair
  Body = {ka, kb, x, y}
  Recipient <- AllPublic
  WithUI = {b}
  Client = {c1}
  Task = {t1}
  PeerFlag <- OneWay
  Stored <- AuthorLostIts
  MaxNet = 20
  MaxCopy = 0
  MaxRestart = 0
  MaxWipe = 0
  MaxToggle = 0
SPECIFICATION FairSpec
PROPERTIES
  Convergence
  PostsReturn

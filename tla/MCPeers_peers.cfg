\* Two nodes, two requests of each user, who may enter their own node.
CONSTANTS
  a = a
  b = b
  ea = ea
  wa = wa
  eb = eb
  ta = ta
  ua = ua
  tb = tb
  la = la
  lb = lb
  port = port
  Nowhere = Nowhere
  Node <- Two
  Text = {ta, ua, tb, la, lb, port}
  Endpoint = {ea, wa, eb}
  Owner <- OwnerOf
  Home <- HomeOf
  Denotes <- DenotesOf
  Written <- WrittenOf
  Self <- SelfOf
  PeerFlag <- FlagOfB
  Typed <- TypedAtA
  MaxEdit = 2
SPECIFICATION FairSpec
INVARIANTS
  TypeOK
  AnswersAreRecognised
PROPERTIES
  ClassIsKept
  Discovery

\* Two requests at a time, one mongering goroutine, room for one closure.
CONSTANTS
  Http = {h1, h2}
  Monger = {g1}
  Peer = {p, q}
  Receiver = Receiver
  Ticker = Ticker
  None = None
  Capacity = 1
SPECIFICATION Spec
SYMMETRY HttpPeerSymmetry
INVARIANTS
  TypeOK
  OneClosurePerCall

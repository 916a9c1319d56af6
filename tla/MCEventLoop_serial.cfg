\* Fairness: the loop drains its queue and implements a serial executor.
CONSTANTS
  Http = {h1}
  Monger = {g1}
  Peer = {p}
  Receiver = Receiver
  Ticker = Ticker
  None = None
  Capacity = 1
SPECIFICATION FairSpec
PROPERTIES
  SerialExecution
  LoopKeepsTurning
  RequestsEnd
  MongeringEnds

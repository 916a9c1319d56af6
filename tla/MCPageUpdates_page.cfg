\* Two rounds at a time, two failures, a change of the data; fairness.
CONSTANTS
  Resource = {nodes, messages}
  Chat = {chat}
  Round = {r1, r2}
  MaxVersion = 1
  MaxFailure = 2
SPECIFICATION FairSpec
INVARIANTS
  TypeOK
  AllOrNothing
PROPERTIES
  RoundIsRecent
  PageCatchesUp

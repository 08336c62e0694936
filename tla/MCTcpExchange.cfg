\* Two strangers, and a queue they can fill before the program connects.
CONSTANTS
  REQUEST = 3
  RESPONSE = 3
  BUFFER = 4
  BACKLOG = 2
  MaxForeign = 2
SPECIFICATION FairSpec
INVARIANTS
  NeverWaitsForItself
  SuccessMeansOwn
PROPERTIES
  Termination

\* The constants of the code.
CONSTANTS
  QUEUE_CAPACITY = 4
  ITEM_COUNT = 20
SPECIFICATION FairSpec
INVARIANTS
  InductiveInvariant
  QuietAtDestroy
PROPERTIES
  ImplementsFifo
  Termination

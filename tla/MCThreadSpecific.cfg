CONSTANTS
  THREAD_COUNT = 3
SPECIFICATION Spec
INVARIANTS
  BlocksFreedOnce
  KeyOutlivesWorkers
  SuccessIffNoFault

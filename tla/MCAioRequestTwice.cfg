\* The wait of the cleanup may fail too.
CONSTANTS
  PAYLOAD = 1
  CleanupWaitFails = TRUE
SPECIFICATION Spec
INVARIANTS
  ReclaimedOnEveryPath

\* The wait of main may fail, so that the cleanup meets every request state.
CONSTANTS
  PAYLOAD = 4
  CleanupWaitFails = FALSE
SPECIFICATION Spec
INVARIANTS
  FileOutlivesRequest
  SuccessMeansRead

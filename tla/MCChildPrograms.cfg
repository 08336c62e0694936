\* Five bytes of payload go in one to five pieces, two bytes of output and
\* three of a report in one to three, four of a message in one to four.
CONSTANTS
  PIPE_CAPACITY = 6
  PAYLOAD = 5
  OUTPUT = 2
  CAPTURE = 3
  REPORT = 3
  MESSAGE = 4
  TIMEOUT = 2
SPECIFICATION FairSpec
INVARIANTS
  PayloadSurvivesHandover
  StdoutIsPipe
  PollNeverWaits
  KillHitsChild
  SharedStateOutlivesChild
PROPERTIES
  ImplementsExchange
  Returns

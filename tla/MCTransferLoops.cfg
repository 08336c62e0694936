\* Four bytes at three places; three vectors of zero to two bytes: empty ones
\* first, last and between.
CONSTANTS
  Length = 4
  MaxStart = 2
  VectorCount = 3
  MaxLength = 2
SPECIFICATION FairSpec
INVARIANTS
  HonestPrefix
  HonestTransfer
PROPERTIES
  Termination

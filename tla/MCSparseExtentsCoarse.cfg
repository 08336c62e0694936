\* What the documentation says of coarse answers.
CONSTANTS
  tail_offset = 5
SPECIFICATION Spec
INVARIANTS
  CoarseAnswersAccepted

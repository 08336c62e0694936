\* The timer expires before, between or after the steps of the loop; four to
\* six events of the program and of others meet a queue of four; every split
\* of four bytes into early and late ones, and into reads; six blocks, up to
\* three extents of data; thirteen sequences, and any of their calls failing.
CONSTANTS
  DELAY = 2
  TIMEOUT = 3
  LIMIT = 4
  READ = 2
  MaxForeign = 2
  SIZE = 4
  tail_offset = 5
SPECIFICATION FairSpec
INVARIANTS
  LoopVerdict
  EventsVerdict
  StreamVerdict
  VerdictMatchesLayout
  UsesWhatItHas
  LeavesNothing
PROPERTIES
  Terminates

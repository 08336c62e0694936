\* Two signals of other processes, at any moments.
CONSTANTS
  MaxForeign = 2
SPECIFICATION FairSpec
INVARIANTS
  HeldUntilAsked
  NotKilledByChild
  NotKilledByItself
  HonestExit
PROPERTIES
  Termination

SPECIFICATION FairSpec
CONSTANTS
  MaxStarts = 2
  MaxEvents = 3
  BadEvents = {1}
  StreamSeqs = {0, 2}
INVARIANTS
  TypeOK
  RunningInv
  DispatchInv
PROPERTY EventsAreHandled
CHECK_DEADLOCK FALSE

SPECIFICATION FairSpec
CONSTANTS
  Keys = {k1, k2, k3}
  None = None
INVARIANTS
  TypeOK
  QueueInv
PROPERTIES
  PromotedInOrder
  AnswersNeverRegress
  IsSerial
  QueuedGetsExecuted
CHECK_DEADLOCK FALSE

SPECIFICATION Spec
CONSTANTS
  Clients = {c1, c2}
  Senders = {h1}
  Handlers = {h1}
  Evictor = evictor
  NoClient = NoClient
  SendBuffer = 1
  MaxMsgs = 2
  MaxFired = 2
INVARIANTS
  TypeOK
  NothingMissed
  PoolInv
  EmptyIsNoticed
SYMMETRY PoolSymmetry
CHECK_DEADLOCK FALSE

SPECIFICATION FairSpec
CONSTANTS
  Prompts = {p1}
  Clients = {c1, c2}
  Fingerprints = {f1}
  DefaultFp = f0
  MaxConvs = 2
  MaxStreams = 2
INVARIANTS
  TypeOK
  LifecycleInv
  AttachedIsServed
PROPERTIES
  KeptWhileInUse
  UnusedIsEvicted
CHECK_DEADLOCK FALSE

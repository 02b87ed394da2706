SPECIFICATION Spec
CONSTANTS
  Prompts = {p1, p2}
  Clients = {c1}
  Fingerprints = {f1}
  DefaultFp = f0
  MaxConvs = 2
  MaxStreams = 3
PROPERTY EvictionSkipsBusy
CHECK_DEADLOCK FALSE

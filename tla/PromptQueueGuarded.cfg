SPECIFICATION Spec
CONSTANTS
  Keys = {k1, k2}
  None = None
PROPERTY FieldsGuardedByMu
CHECK_DEADLOCK FALSE

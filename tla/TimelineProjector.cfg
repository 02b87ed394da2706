SPECIFICATION Spec
CONSTANTS
  Script <- MCScript
  MaxConsumers = 2
  MaxLag = 1
  MaxLate = 1
  Fallible = {"answer"}
INVARIANTS
  TypeOK
  Projected
  ClientsInv
PROPERTIES
  NeverReopened
CHECK_DEADLOCK FALSE

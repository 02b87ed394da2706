SPECIFICATION RuntimeSpec
CONSTANTS
  Conversations = {a}
  JSRuntimes = {r, s}
  None = None
  MaxFunctions = 2
  MaxHandlers = 1
  MaxEvents = 1
INVARIANT ProjectionInv
CHECK_DEADLOCK FALSE

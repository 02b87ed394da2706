SPECIFICATION Spec
CONSTANTS
  t1 = t1
  b1 = b1
  text = text
  spelled = spelled
  other = other
  k1 = k1
  TurnIds = {t1, turn}
  DefaultTurn = turn
  NoId = NoId
  Phases = {post_tools, final}
  Final = final
  BlockIds = {b1}
  Contents = {text, spelled, other}
  Canon <- MCCanon
  Keys = {k1}
  NoKey = NoKey
  Malformed = Malformed
  Payloads <- MCPayloads
  Files <- MCFiles
  Queries <- MCQueries
  AnyPhase = AnyPhase
  AnyTurn = AnyTurn
  MaxBlocks = 2
  MaxMs = 2
  MaxSaves = 2
  MaxCrashes = 1
INVARIANTS
  TypeOK
  StoreInv
  ListedInv
PROPERTIES
  KeysNeverForgotten
  ArchivesSnapshots
CHECK_DEADLOCK FALSE

SPECIFICATION SemSpec
CONSTANTS
  a = a
  k1 = k1
  k2 = k2
  Consumers = {k1, k2}
  Conversations <- MCConversations
  Naming <- MCConversations
  MaxEvents <- MCMaxEvents
  Pagers <- MCPagers
  MaxSessions = 2
  MaxMessages = 2
  RingSize = 2
  Limit = 1
SYMMETRY MCSymmetry
INVARIANTS SemTypeOK TranslationInv PagesInv
CHECK_DEADLOCK FALSE

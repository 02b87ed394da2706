---------------------------- MODULE MCSemTranslator ----------------------------
(* One conversation: the caches keep the engines apart, and conversations  *)
(* share nothing else.  Its engines name their messages, two consumers may *)
(* see to its topic, and a client pages through its ring for the deltas.   *)
EXTENDS SemTranslator, TLC

CONSTANT a

MCConversations == {a}
MCMaxEvents == [x \in MCConversations \X (1..2) |-> IF x[2] = 1 THEN 4 ELSE 1]
MCPagers == {<<a, "llm.delta">>}
MCSymmetry == Permutations(Consumers)
=============================================================================

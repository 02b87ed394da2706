---------------------------- MODULE MCTurnStore ----------------------------
(***************************************************************************)
(* Model checking of TurnStore: a turn whose first block changes between   *)
(* two spellings of one content, a turn without an id and with a block     *)
(* without one, and a payload with no block at all.                        *)
(***************************************************************************)
EXTENDS TurnStore, TLC

CONSTANTS t1, b1, text, spelled, other, k1

MCCanon == text :> text @@ spelled :> text @@ other :> other

B(id, content) == [id |-> id, content |-> content]
M(rt, inf, id) == [runtime |-> rt, inference |-> inf, inference_id |-> id]
P(id, bs, meta) == [id |-> id, blocks |-> bs, meta |-> meta]

MCPayloads == { P(t1, <<B(b1, text), B(NoId, other)>>, M(Malformed, NoKey, NoKey)),
                P(t1, <<B(b1, spelled)>>, M(k1, NoKey, k1)),
                P(NoId, <<B(NoId, text)>>, M(NoKey, k1, NoKey)),
                P(NoId, <<>>, M(NoKey, NoKey, NoKey)) }

\* A file of this version; one with the oldest column of dates; and one with the
\* date of creation and no other, as the migration's test has it.  The two old
\* ones hold a snapshot of t1 that is newer than the date of its turn.
Old(created, legacy, meta) == [created |-> created, updated |-> 0, meta |-> meta,
                               rt |-> NoKey, inf |-> NoKey, legacy |-> legacy]
Newer == [turn |-> t1, phase |-> Final, ms |-> 2]
OldBlock == <<b1, text>>
NoBlocks == [bk \in BlockKeys |-> 0]
MCFiles == { [turns |-> [t \in TurnIds |-> NoRow], cols |-> {"created", "updated", "keys"},
              blocks |-> NoBlocks, snapshots |-> <<>>],
             [turns |-> [t \in TurnIds |-> Old(0, 1, IF t = t1 THEN M(k1, NoKey, k1)
                                                      ELSE M(Malformed, k1, NoKey))],
              cols |-> {"legacy"},
              blocks |-> [NoBlocks EXCEPT ![OldBlock] = 1],
              snapshots |-> Newer :> <<OldBlock>>],
             [turns |-> [t \in TurnIds |-> IF t = t1 THEN Old(1, 0, M(NoKey, NoKey, NoKey))
                                                    ELSE NoRow],
              cols |-> {"created"},
              blocks |-> [NoBlocks EXCEPT ![OldBlock] = 2],
              snapshots |-> Newer :> <<OldBlock, OldBlock>>] }

MCQueries == { [phase |-> AnyPhase, since |-> 0, limit |-> 2, turn |-> AnyTurn],
               [phase |-> Final, since |-> 2, limit |-> 1, turn |-> AnyTurn],
               [phase |-> AnyPhase, since |-> 0, limit |-> 1, turn |-> t1] }
=============================================================================

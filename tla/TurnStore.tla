----------------------------- MODULE TurnStore -----------------------------
(***************************************************************************)
(* The SQLite turn store (pkg/persistence/chatstore/turn_store_sqlite.go,  *)
(* block_hash.go), its two writers (pkg/webchat/turn_persister.go and      *)
(* turn_snapshot_hook.go) and its readers (the debug routes over turns).   *)
(*                                                                         *)
(* A snapshot of a turn is not one row.  Its blocks are shared, content    *)
(* addressed rows; its order is kept in membership rows; its metadata and  *)
(* its indexed columns live in the one row all snapshots of the turn       *)
(* share.  A save writes the three tables in a transaction, a list reads   *)
(* them in one query per snapshot without one, and opening a file migrates *)
(* and backfills row by row, each statement committed on its own.          *)
(*                                                                         *)
(* One conversation with one session: the two ids only extend every key.   *)
(* A payload is the sequence of its blocks and the two keys its metadata   *)
(* may hold.  SQLite has one writer at a time and its readers see          *)
(* committed rows only.                                                    *)
(***************************************************************************)
EXTENDS Integers, Sequences, FiniteSets

CONSTANTS
  TurnIds,      \* ids of turns
  DefaultTurn,  \* "turn": the id the writers give a turn without one
  NoId,         \* the empty id, of a turn or of a block
  Phases,       \* phases the tool loop reports
  Final,        \* "final": the phase of the persister
  BlockIds,     \* ids a block may carry
  Contents,     \* contents of a block as decoded from YAML
  Canon,        \* [Contents -> canonical material]: equal values, equal hash
  Keys,         \* runtime keys and inference ids
  NoKey,        \* the empty string of either column
  Malformed,    \* a runtime in the metadata that is no map with a key in it
  Payloads,     \* the turns that are saved: [id, blocks, meta]
  Files,        \* files to open: [turns, cols, blocks, snapshots], see IsFile
  Queries,      \* the filters of readers: [phase, since, limit, turn]
  AnyPhase,     \* no filter on phases
  AnyTurn,      \* no filter on turns
  MaxBlocks,    \* bound on the blocks of a payload
  MaxMs,        \* bound on the clock, in milliseconds
  MaxSaves,     \* bound on saves
  MaxCrashes    \* bound on crashes and restarts

\* What the metadata of a turn says of runtime and inference; an inference may
\* be filed under the key of geppetto or under the plain inference_id.
Metadata == [runtime: Keys \cup {NoKey, Malformed},
             inference: Keys \cup {NoKey}, inference_id: Keys \cup {NoKey}]

ASSUME TurnStoreAssumption ==
  /\ DefaultTurn \in TurnIds /\ NoId \notin TurnIds \cup BlockIds
  /\ Final \in Phases /\ AnyPhase \notin Phases /\ AnyTurn \notin TurnIds
  /\ Keys \cap {NoKey, Malformed} = {} /\ NoKey # Malformed
  /\ BlockIds \cap (TurnIds \X (0..MaxBlocks)) = {}
  /\ MaxBlocks \in Nat /\ MaxMs \in Nat \ {0} /\ MaxSaves \in Nat /\ MaxCrashes \in Nat
  /\ Payloads \subseteq [id: TurnIds \cup {NoId},
                         blocks: Seq([id: BlockIds \cup {NoId}, content: Contents]),
                         meta: Metadata]
  /\ \A t \in Payloads : Len(t.blocks) <= MaxBlocks
  /\ Queries \subseteq [phase: Phases \cup {AnyPhase}, since: Nat, limit: Nat \ {0},
                        turn: TurnIds \cup {AnyTurn}]
  /\ DOMAIN Canon = Contents

VARIABLES
  turns,    \* committed table turns, by turn id; NoRow where there is none
  blocks,   \* committed table blocks: first_seen_at_ms by (id, hash), 0: no row
  members,  \* committed table turn_block_membership
  cols,     \* columns the file's turns table has
  tx,       \* the open transaction: its own view of the tables; NoTx
  phase,    \* of the store: "down", a step of migrate(), or "open"
  pending,  \* backfill updates read but not yet written
  reader,   \* one reader: its query, rows to visit, items so far
  used,     \* saves and crashes so far: bounds, no part of the store
  past      \* history: blocks every key was ever committed with; late, the
            \* snapshots of the file its dates do not reach and no save has
            \* replaced; interrupted says a crash separated two statements of
            \* the migration

tables == <<turns, blocks, members>>
vars == <<turns, blocks, members, cols, tx, phase, pending, reader, used, past>>

NoRow == [none |-> TRUE]
NoTx == [none |-> TRUE]
Idle == [state |-> "idle"]

TurnRow == [created: 0..MaxMs, updated: 0..MaxMs, meta: Metadata,
            rt: Keys \cup {NoKey}, inf: Keys \cup {NoKey}, legacy: 0..MaxMs]

Columns == {"legacy", "created", "updated", "keys"}
TurnsTable == [TurnIds -> TurnRow \cup {NoRow}]

Hashes == {Canon[c] : c \in Contents}
StoredIds == BlockIds \cup (TurnIds \X (0..MaxBlocks))
BlockKeys == StoredIds \X Hashes
Snapshots == [turn: TurnIds, phase: Phases, ms: 1..MaxMs]
MemberRow == [snap: Snapshots, ordinal: Nat, block: BlockKeys]

\* Of two dates the first that is there; a row has the one of its creation in
\* the new column or in the old.
Dated(a, b) == IF a # 0 THEN a ELSE b
CreatedOf(row) == Dated(row.created, row.legacy)

\* A row has the date of creation in the new column, and no later one in the
\* old, or the file has only the old column and the date there.  Whatever
\* version wrote it kept its snapshots by turn, phase and millisecond and dated
\* neither a turn nor a block later than a snapshot of it; the column with a
\* date of update, which may be missing, is not trusted.
IsFile(file) ==
  /\ file.turns \in TurnsTable /\ file.cols \subseteq Columns
  /\ file.blocks \in [BlockKeys -> 0..MaxMs]
  /\ \A t \in TurnIds : file.turns[t] # NoRow =>
       LET row == file.turns[t]
       IN  IF "created" \in file.cols
           THEN row.created > 0 /\ (row.legacy > 0 => row.created <= row.legacy)
           ELSE row.created = 0 /\ row.legacy > 0
  /\ DOMAIN file.snapshots \subseteq Snapshots /\ IsFiniteSet(DOMAIN file.snapshots)
  /\ \A key \in DOMAIN file.snapshots :
       /\ file.snapshots[key] \in Seq(BlockKeys) \ {<<>>}
       /\ file.turns[key.turn] # NoRow /\ CreatedOf(file.turns[key.turn]) <= key.ms
       /\ \A i \in DOMAIN file.snapshots[key] : file.blocks[file.snapshots[key][i]] \in 1..key.ms

ASSUME FilesAssumption == \A file \in Files : IsFile(file)

\* The membership rows of snapshots: the blocks of each in order, from 0.
SnapshotRows(key, s) == {[snap |-> key, ordinal |-> i - 1, block |-> s[i]] : i \in 1..Len(s)}
FileRows(file) ==
  UNION {SnapshotRows(key, file.snapshots[key]) : key \in DOMAIN file.snapshots}

-----------------------------------------------------------------------------
(* Helpers of the store                                                    *)

\* Mistakes that some property must catch: a block without an id keeps none, a
\* key is replaced by nothing, rows are not cleared, the dates are the last save's.
KeepsEmptyID(b, turn, i) == b.id
TakesEmpty(a, b) == a
NotCleared(ms, key) == ms
LastDates(row, meta, ms, rt, inf) ==
  [created |-> ms, updated |-> ms, meta |-> meta, legacy |-> 0,
   rt |-> IF row = NoRow \/ rt # NoKey THEN rt ELSE row.rt,
   inf |-> IF row = NoRow \/ inf # NoKey THEN inf ELSE row.inf]

\* An id of the block, else the turn's id and the ordinal.
normalizeBlockID(b, turn, i) == IF b.id = NoId THEN <<turn, i>> ELSE b.id

\* Kind, role, payload and metadata in canonical form: one value per material.
ComputeBlockContentHash(content) == Canon[content]

BlockKey(b, turn, i) == <<normalizeBlockID(b, turn, i), ComputeBlockContentHash(b.content)>>

\* The rows a snapshot of this payload consists of, in order.
StoredBlocks(t, turn) ==
  [i \in DOMAIN t.blocks |-> BlockKey(t.blocks[i], turn, i - 1)]

\* The blocks filed under a key, in the order of their ordinals.
MembersOf(ms, key) == {m \in ms : m.snap = key}
loadSnapshotBlocks(ms, key) ==
  [i \in 1..Cardinality(MembersOf(ms, key)) |->
     (CHOOSE m \in MembersOf(ms, key) :
        Cardinality({n \in MembersOf(ms, key) : n.ordinal < m.ordinal}) = i - 1).block]

\* DELETE FROM turn_block_membership: every row of one snapshot.
Cleared(ms, key) == ms \ MembersOf(ms, key)

Present(ms) == {m.snap : m \in ms}

First(a, b) == IF a # NoKey THEN a ELSE b
Lower(a, b) == IF a < b THEN a ELSE b
Higher(a, b) == IF a > b THEN a ELSE b

\* Only a map with a non-blank "runtime_key" names a runtime.
runtimeKeyFromTurnMetadata(meta) == IF meta.runtime \in Keys THEN meta.runtime ELSE NoKey

\* Of the two keys the first that is not blank.
inferenceIDFromTurnMetadata(meta) == First(meta.inference, meta.inference_id)

\* INSERT ... ON CONFLICT DO UPDATE of the turn's row: the dates widen, the
\* metadata is replaced, a key is replaced only by a key.
upsertTurn(row, meta, ms, rt, inf) ==
  IF row = NoRow
    THEN [created |-> ms, updated |-> ms, meta |-> meta, rt |-> rt, inf |-> inf, legacy |-> 0]
    ELSE [created |-> Lower(row.created, ms), updated |-> Higher(row.updated, ms),
          meta |-> meta, rt |-> First(rt, row.rt), inf |-> First(inf, row.inf),
          legacy |-> row.legacy]

-----------------------------------------------------------------------------
(* Save and its callers                                                    *)

\* persistNormalizedSnapshot up to its loop: the row of the turn is upserted
\* and the membership rows of the same snapshot are cleared.  Save falls back
\* on the metadata where the caller gives no key, and the payload's own turn id
\* wins over the caller's.
BeginSave(t, turn, ph, ms, rt, inf) ==
  LET key == [turn |-> turn, phase |-> ph, ms |-> ms]
  IN /\ phase = "open" /\ tx = NoTx
     /\ used.saves < MaxSaves
     /\ used' = [used EXCEPT !.saves = @ + 1]
     /\ tx' = [key |-> key, t |-> t, next |-> 0,
               turns |-> [turns EXCEPT ![turn] =
                            upsertTurn(@, t.meta, ms, First(rt, runtimeKeyFromTurnMetadata(t.meta)),
                                       First(inf, inferenceIDFromTurnMetadata(t.meta)))],
               blocks |-> blocks,
               members |-> Cleared(members, key)]
     /\ UNCHANGED <<tables, cols, phase, pending, reader, past>>

\* The id under which the writers save a turn.
turnIdOf(t) == IF t.id = NoId THEN DefaultTurn ELSE t.id

\* snapshotHookForConv: the key is what the conversation has at this moment.
\* The wall clock gives the millisecond, and may have been set back.
SnapshotHook(t, ph, ms, rt) == BeginSave(t, turnIdOf(t), ph, ms, rt, t.meta.inference)

\* turnStorePersister.PersistTurn: the key was read when the run was prepared.
PersistTurn(t, ms, rt) == BeginSave(t, turnIdOf(t), Final, ms, rt, t.meta.inference)

\* Mistake: a statement that runs on the database and not on the transaction.
SaveBlockOutsideTx ==
  /\ tx # NoTx /\ tx.next < Len(tx.t.blocks)
  /\ LET bk == BlockKey(tx.t.blocks[tx.next + 1], tx.key.turn, tx.next)
         row == [snap |-> tx.key, ordinal |-> tx.next, block |-> bk]
     IN /\ members' = Cleared(members, tx.key) \cup tx.members \cup {row}
        /\ blocks' = [blocks EXCEPT ![bk] = tx.key.ms]
        /\ tx' = [tx EXCEPT !.blocks = blocks', !.next = @ + 1, !.members = members']
  /\ UNCHANGED <<turns, cols, phase, pending, reader, used, past>>

\* One turn of the loop: the block row is inserted or refreshed, then named by
\* its ordinal.
SaveBlock ==
  /\ tx # NoTx /\ tx.next < Len(tx.t.blocks)
  /\ LET bk == BlockKey(tx.t.blocks[tx.next + 1], tx.key.turn, tx.next)
         seen == IF tx.blocks[bk] = 0 THEN tx.key.ms ELSE Lower(tx.blocks[bk], tx.key.ms)
     IN tx' = [tx EXCEPT !.blocks[bk] = seen, !.next = @ + 1,
                 !.members = @ \cup {[snap |-> tx.key, ordinal |-> tx.next, block |-> bk]}]
  /\ UNCHANGED <<tables, cols, phase, pending, reader, used, past>>

CommitSave ==
  /\ tx # NoTx /\ tx.next = Len(tx.t.blocks)
  /\ turns' = tx.turns /\ blocks' = tx.blocks /\ members' = tx.members
  /\ past' = [past EXCEPT !.saved[tx.key] = @ \cup {StoredBlocks(tx.t, tx.key.turn)},
                         !.late = @ \ {tx.key}]
  /\ tx' = NoTx
  /\ UNCHANGED <<cols, phase, pending, reader, used>>

\* Any statement may fail; the deferred rollback drops what was written.
AbortSave ==
  /\ tx # NoTx
  /\ tx' = NoTx
  /\ UNCHANGED <<tables, cols, phase, pending, reader, used, past>>

-----------------------------------------------------------------------------
(* Opening: migrate() and the backfill                                     *)

Rows == {t \in TurnIds : turns[t] # NoRow}

\* ALTER TABLE: every row gets the default of the new column.
AddCreated ==
  /\ phase = "down"
  /\ phase' = IF "created" \in cols THEN "columns" ELSE "copy"
  /\ cols' = cols \cup {"created"}
  /\ UNCHANGED <<tables, tx, pending, reader, used, past>>

\* Only the call that added the column copies the legacy date into it.
CopyCreated ==
  /\ phase = "copy"
  /\ turns' = [t \in TurnIds |->
                 IF t \in Rows /\ turns[t].created = 0
                   THEN [turns[t] EXCEPT !.created = turns[t].legacy] ELSE turns[t]]
  /\ phase' = "columns"
  /\ UNCHANGED <<blocks, members, cols, tx, pending, reader, used, past>>

\* The other columns, then a date of update for every row that lacks one.
AddColumns(ms) ==
  /\ phase = "columns"
  /\ cols' = cols \cup {"updated", "keys"}
  /\ turns' = [t \in TurnIds |->
                 IF t \in Rows /\ turns[t].updated = 0
                   THEN [turns[t] EXCEPT !.updated = Dated(turns[t].created, ms)]
                   ELSE turns[t]]
  /\ phase' = "select"
  /\ UNCHANGED <<blocks, members, tx, pending, reader, used, past>>

\* The SELECT of the backfill: an update for every row that can gain a key.
SelectBackfill ==
  /\ phase = "select"
  /\ pending' = {u \in [turn: Rows, rt: Keys \cup {NoKey}, inf: Keys \cup {NoKey}] :
                   LET row == turns[u.turn]
                   IN /\ u.rt = First(row.rt, runtimeKeyFromTurnMetadata(row.meta))
                      /\ u.inf = First(row.inf, inferenceIDFromTurnMetadata(row.meta))
                      /\ u.rt # row.rt \/ u.inf # row.inf}
  /\ phase' = "backfill"
  /\ UNCHANGED <<tables, cols, tx, reader, used, past>>

BackfillRow(u) ==
  /\ phase = "backfill" /\ u \in pending
  /\ turns' = [turns EXCEPT ![u.turn].rt = u.rt, ![u.turn].inf = u.inf]
  /\ pending' = pending \ {u}
  /\ UNCHANGED <<blocks, members, cols, tx, phase, reader, used, past>>

Opened ==
  /\ phase = "backfill" /\ pending = {}
  /\ phase' = "open"
  /\ UNCHANGED <<tables, cols, tx, pending, reader, used, past>>

\* The store is closed, or its process ends at any point; a new one will open it.
Crash ==
  /\ phase # "down" /\ used.crashes < MaxCrashes
  /\ used' = [used EXCEPT !.crashes = @ + 1]
  /\ past' = [past EXCEPT !.interrupted = @ \/ phase = "copy"]
  /\ phase' = "down" /\ tx' = NoTx /\ pending' = {} /\ reader' = Idle
  /\ UNCHANGED <<tables, cols>>

-----------------------------------------------------------------------------
(* List and the routes over it                                             *)

\* The keys a query selects, by its WHERE clause.
Selected(q) ==
  {key \in Present(members) : /\ q.phase \in {AnyPhase, key.phase}
                              /\ key.ms >= q.since}

\* Newest first, at most limit; SQLite orders ties as it likes.
IsPage(page, q) ==
  /\ \A i, j \in DOMAIN page : i < j => page[i] # page[j] /\ page[i].ms >= page[j].ms
  /\ \A i \in DOMAIN page : \A key \in Selected(q) \ {page[j] : j \in DOMAIN page} :
       key.ms <= page[i].ms

\* The outer query: which snapshots, with the columns of the turn's row.
ListStart(q) ==
  /\ phase = "open" /\ reader = Idle
  /\ \E page \in [1..Lower(q.limit, Cardinality(Selected(q))) -> Selected(q)] :
       /\ IsPage(page, q)
       /\ reader' = [state |-> "listing", q |-> q, full |-> Len(page) = q.limit,
                     rows |-> page, items |-> <<>>,
                     had |-> {key.turn : key \in Selected(q)}]
  /\ UNCHANGED <<tables, cols, tx, phase, pending, used, past>>

\* One row: its blocks are read by a query of their own, later than the row.
ListNext ==
  /\ reader.state = "listing" /\ reader.rows # <<>>
  /\ LET key == Head(reader.rows)
         item == [snap |-> key, blocks |-> loadSnapshotBlocks(members, key)]
     IN reader' = [reader EXCEPT !.rows = Tail(@), !.items = Append(@, item)]
  /\ UNCHANGED <<tables, cols, tx, phase, pending, used, past>>

\* GET /api/debug/turns answers the items; /api/debug/turn/ those of one turn.
Answered(q, item) == q.turn \in {AnyTurn, item.snap.turn}

ListDone ==
  /\ reader.state = "listing" /\ reader.rows = <<>>
  /\ reader' = [reader EXCEPT !.state = "answered"]
  /\ UNCHANGED <<tables, cols, tx, phase, pending, used, past>>

\* The request is answered, or ended before.
ListEnd ==
  /\ reader.state # "idle"
  /\ reader' = Idle
  /\ UNCHANGED <<tables, cols, tx, phase, pending, used, past>>

-----------------------------------------------------------------------------
\* A file that is new, or one an older version of the code wrote.
Init ==
  /\ \E file \in Files :
       /\ turns = file.turns /\ cols = file.cols
       /\ blocks = file.blocks /\ members = FileRows(file)
       /\ past = [saved |-> [key \in Snapshots |->
                               IF key \in DOMAIN file.snapshots
                                 THEN {file.snapshots[key]} ELSE {}],
                  late |-> {key \in DOMAIN file.snapshots :
                              key.ms > file.turns[key.turn].updated},
                  interrupted |-> FALSE]
  /\ tx = NoTx /\ phase = "down" /\ pending = {} /\ reader = Idle
  /\ used = [saves |-> 0, crashes |-> 0]

Saving == \/ \E t \in Payloads, ms \in 1..MaxMs, rt \in Keys \cup {NoKey} :
               \/ \E ph \in Phases \ {Final} : SnapshotHook(t, ph, ms, rt)
               \/ PersistTurn(t, ms, rt)
          \/ SaveBlock \/ CommitSave \/ AbortSave

Opening == \/ AddCreated \/ CopyCreated \/ (\E ms \in 1..MaxMs : AddColumns(ms)) \/ SelectBackfill
           \/ \E u \in pending : BackfillRow(u)
           \/ Opened

Listing == (\E q \in Queries : ListStart(q)) \/ ListNext \/ ListDone \/ ListEnd

Next == Saving \/ Opening \/ Listing \/ Crash

Spec == Init /\ [][Next]_vars

-----------------------------------------------------------------------------
(* Properties                                                              *)

\* A transaction's view of the tables, and a reader between its queries.
Transaction == [key: Snapshots, t: Payloads, next: 0..MaxBlocks, turns: TurnsTable,
                blocks: [BlockKeys -> 0..MaxMs], members: SUBSET MemberRow]
Reading == [state: {"listing", "answered"}, q: Queries, full: BOOLEAN, rows: Seq(Snapshots),
            items: Seq([snap: Snapshots, blocks: Seq(BlockKeys)]), had: SUBSET TurnIds]

\* The tables hold rows of their columns; a transaction's view does too.
TypeOK ==
  /\ turns \in TurnsTable /\ blocks \in [BlockKeys -> 0..MaxMs] /\ members \subseteq MemberRow
  /\ cols \subseteq Columns
  /\ tx # NoTx => tx \in Transaction /\ tx.next <= Len(tx.t.blocks)
  /\ phase \in {"down", "copy", "columns", "select", "backfill", "open"}
  /\ pending \subseteq [turn: TurnIds, rt: Keys \cup {NoKey}, inf: Keys \cup {NoKey}]
  /\ reader # Idle => reader \in Reading
  /\ past \in [saved: [Snapshots -> SUBSET Seq(BlockKeys)], late: SUBSET Snapshots,
               interrupted: BOOLEAN]
  /\ used \in [saves: 0..MaxSaves, crashes: 0..MaxCrashes]

\* Whatever the order of the clock, no turn's row is younger than a snapshot
\* filed under it, and none was updated before a snapshot that was saved: only
\* those of an older file, which has no date of update or has none that reaches
\* them, may be newer, until they are saved again.  A block was first seen no
\* later than the first snapshot that holds it; so no member is without its
\* turn and its block.
Encloses(row, key, late) == /\ row # NoRow
                            /\ row.created <= key.ms
                            /\ key \in late \/ key.ms <= row.updated
Dates(ts, bs, ms, late) ==
  \A m \in ms : /\ Encloses(ts[m.snap.turn], m.snap, late)
                /\ bs[m.block] \in 1..m.snap.ms
DatesEnclose == Dates(turns, blocks, members, past.late)

\* The ordinals of a snapshot are 0, 1, ... without a gap: a save under a key
\* that is taken leaves no block of the longer payload it replaces.
OrdinalsContiguous ==
  \A m \in members : \A o \in 0..m.ordinal :
    Cardinality({n \in MembersOf(members, m.snap) : n.ordinal = o}) = 1

\* Both ways to a key agree: in an open store a row whose metadata names a
\* runtime or an inference has the column, were it saved or backfilled.
HasKeys(row) == /\ row.rt = NoKey => runtimeKeyFromTurnMetadata(row.meta) = NoKey
                /\ row.inf = NoKey => inferenceIDFromTurnMetadata(row.meta) = NoKey
KeysFollowMetadata == phase = "open" => \A t \in Rows : HasKeys(turns[t])

\* An open store has dates for every row.  A turn of an older file keeps the day
\* it was created, unless a crash fell between the two statements that move it.
KeepsDates(row) == /\ row.updated > 0
                   /\ row.created = 0 => past.interrupted
                   /\ row.legacy > 0 => row.created <= row.legacy
MigrationKeepsDates == phase = "open" => \A t \in Rows : KeepsDates(turns[t])

StoreInv == /\ DatesEnclose /\ OrdinalsContiguous
            /\ KeysFollowMetadata /\ MigrationKeepsDates

\* The list reads its snapshots one query at a time while saves commit, yet the
\* blocks of an item are those of one save under its key, never a mixture; and
\* a turn that had a snapshot is reported absent only by a page that is full.
ListedInv ==
  reader # Idle =>
    /\ \A i \in DOMAIN reader.items : reader.items[i].blocks \in past.saved[reader.items[i].snap]
    /\ /\ reader.state = "answered" /\ reader.q.turn \in reader.had
       /\ \A i \in DOMAIN reader.items : ~Answered(reader.q, reader.items[i])
       => reader.full

\* A runtime key or an inference id a turn once had is never lost again: not by
\* a save that has none, not by a backfill and not by a crash.
KeysNeverForgotten ==
  [][\A t \in Rows : /\ turns'[t] # NoRow
                     /\ turns[t].rt # NoKey => turns'[t].rt # NoKey
                     /\ turns[t].inf # NoKey => turns'[t].inf # NoKey]_vars

\* The three tables behave as a map of whole snapshots: a save appears at its
\* commit and at once, and nothing else changes what is filed under any key.
Archive == INSTANCE TurnArchive WITH
             archive <- [key \in Snapshots |-> loadSnapshotBlocks(members, key)],
             saved <- past.saved
ArchivesSnapshots == Archive!Spec
=============================================================================

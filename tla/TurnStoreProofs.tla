-------------------------- MODULE TurnStoreProofs --------------------------
(***************************************************************************)
(* Proofs about TurnStore, for any turns, payloads, files, queries and     *)
(* bounds.                                                                 *)
(*                                                                         *)
(* The inductive invariant has five parts.  What is filed under a key are  *)
(* exactly the rows of one save under it, numbered from 0 (Filed): from    *)
(* this follow the contiguous ordinals, the items of a list and the        *)
(* refinement of the archive.  An open transaction is that far in its own  *)
(* rows and has left every other key alone (Underway).  The dates of the   *)
(* rows depend on the step the migration is at (Dating), and so do the     *)
(* keys: a row that lacks one waits for the backfill (Keying).  A reader's *)
(* rows and items account for every turn that had a snapshot (Reads).      *)
(***************************************************************************)
EXTENDS TurnStore, FiniteSetTheorems, SequenceTheorems, TLAPS

\* The first n rows of a snapshot whose blocks are s.
RowsOf(key, s, n) ==
  {[snap |-> key, ordinal |-> i - 1, block |-> s[i]] : i \in 1..n}

\* The history a store has.
PastType == [saved: [Snapshots -> SUBSET Seq(BlockKeys)], late: SUBSET Snapshots,
             interrupted: BOOLEAN]

\* What is filed under a key: nothing, or what one save under it wrote.
FiledUnder(key) ==
  IF past.saved[key] = {}
    THEN MembersOf(members, key) = {}
    ELSE \E s \in past.saved[key] : MembersOf(members, key) = RowsOf(key, s, Len(s))

Filed == /\ IsFiniteSet(members)
         /\ \A key \in Snapshots : FiledUnder(key)

\* A row has what it needs in an open store; a row of a save keeps its keys.
Complete(row) == HasKeys(row) /\ KeepsDates(row)
KeepsKeys(row, new) == /\ new # NoRow
                       /\ row.rt # NoKey => new.rt # NoKey
                       /\ row.inf # NoKey => new.inf # NoKey

Underway ==
  tx # NoTx =>
    /\ phase = "open"
    /\ IsFiniteSet(tx.members)
    /\ MembersOf(tx.members, tx.key) = RowsOf(tx.key, StoredBlocks(tx.t, tx.key.turn), tx.next)
    /\ \A key \in Snapshots \ {tx.key} : MembersOf(tx.members, key) = MembersOf(members, key)
    /\ Dates(tx.turns, tx.blocks, tx.members, past.late \ {tx.key})
    /\ Encloses(tx.turns[tx.key.turn], tx.key, {})
    /\ \A t \in TurnIds : tx.turns[t] # NoRow => Complete(tx.turns[t])
    /\ \A t \in Rows : KeepsKeys(turns[t], tx.turns[t])

\* A file that never was migrated has the dates of its turns in the old column,
\* none of them later than a snapshot.
Unmigrated == "created" \notin cols \/ phase = "copy"
Migrated == phase \in {"select", "backfill", "open"}

Dating ==
  /\ DatesEnclose
  /\ "created" \notin cols => phase = "down"
  /\ Unmigrated => /\ \A m \in members : turns[m.snap.turn].legacy <= m.snap.ms
                   /\ \A t \in Rows : turns[t].created = 0 /\ turns[t].legacy > 0
  /\ \A t \in Rows :
       /\ ~Unmigrated /\ turns[t].created = 0 => past.interrupted
       /\ turns[t].legacy > 0 => turns[t].created <= turns[t].legacy
       /\ Migrated => turns[t].updated > 0

Keying ==
  /\ KeysFollowMetadata
  /\ phase = "backfill" =>
       \A t \in Rows : HasKeys(turns[t]) \/ \E u \in pending : u.turn = t
  /\ \A u \in pending :
       /\ phase = "backfill" /\ u.turn \in Rows
       /\ u.rt = First(turns[u.turn].rt, runtimeKeyFromTurnMetadata(turns[u.turn].meta))
       /\ u.inf = First(turns[u.turn].inf, inferenceIDFromTurnMetadata(turns[u.turn].meta))

Reads ==
  reader # Idle =>
    /\ \A i \in DOMAIN reader.rows : past.saved[reader.rows[i]] # {}
    /\ \A i \in DOMAIN reader.items : reader.items[i].blocks \in past.saved[reader.items[i].snap]
    /\ reader.state = "answered" => reader.rows = <<>>
    /\ ~reader.full =>
         \A t \in reader.had : \/ \E i \in DOMAIN reader.rows : reader.rows[i].turn = t
                               \/ \E i \in DOMAIN reader.items : reader.items[i].snap.turn = t

IInv == TypeOK /\ Filed /\ Underway /\ Dating /\ Keying /\ Reads

-----------------------------------------------------------------------------
(* Rows, transactions, readers                                             *)

\* The null values are none of the values they stand beside.
LEMMA NullValues ==
  /\ NoRow \notin TurnRow
  /\ NoTx \notin Transaction
  /\ Idle \notin Reading
  /\ Idle.state = "idle"
<1>1. NoRow \notin TurnRow
  <2>1. ASSUME NoRow \in TurnRow PROVE FALSE
    <3>1. DOMAIN NoRow = {"created", "updated", "meta", "rt", "inf", "legacy"}
      BY <2>1 DEF TurnRow
    <3>2. DOMAIN NoRow = {"none"}
      BY DEF NoRow
    <3> QED
      BY <3>1, <3>2
  <2> QED
    BY <2>1
<1>2. NoTx \notin Transaction
  <2>1. ASSUME NoTx \in Transaction PROVE FALSE
    <3>1. DOMAIN NoTx = {"key", "t", "next", "turns", "blocks", "members"}
      BY <2>1 DEF Transaction
    <3>2. DOMAIN NoTx = {"none"}
      BY DEF NoTx
    <3> QED
      BY <3>1, <3>2
  <2> QED
    BY <2>1
<1>3. Idle \notin Reading
  <2>1. ASSUME Idle \in Reading PROVE FALSE
    <3>1. DOMAIN Idle = {"state", "q", "full", "rows", "items", "had"}
      BY <2>1 DEF Reading
    <3>2. DOMAIN Idle = {"state"}
      BY DEF Idle
    <3> QED
      BY <3>1, <3>2
  <2> QED
    BY <2>1
<1> QED
  BY <1>1, <1>2, <1>3 DEF Idle

LEMMA Defaults ==
  ASSUME NEW meta \in Metadata
  PROVE  /\ runtimeKeyFromTurnMetadata(meta) \in Keys \cup {NoKey}
         /\ inferenceIDFromTurnMetadata(meta) \in Keys \cup {NoKey}
BY DEF runtimeKeyFromTurnMetadata, inferenceIDFromTurnMetadata, First, Metadata

LEMMA PayloadType ==
  ASSUME NEW t \in Payloads
  PROVE  /\ t.id \in TurnIds \cup {NoId} /\ t.meta \in Metadata
         /\ t.blocks \in Seq([id: BlockIds \cup {NoId}, content: Contents])
         /\ Len(t.blocks) \in 0..MaxBlocks
<1>1. t \in [id: TurnIds \cup {NoId},
             blocks: Seq([id: BlockIds \cup {NoId}, content: Contents]), meta: Metadata]
  BY TurnStoreAssumption
<1>2. Len(t.blocks) <= MaxBlocks /\ MaxBlocks \in Nat
  BY TurnStoreAssumption
<1> QED
  BY <1>1, <1>2

\* A block is stored under an id that is its own or made of the turn's.
LEMMA BlockKeyType ==
  ASSUME NEW t \in Payloads, NEW turn \in TurnIds, NEW i \in 1..Len(t.blocks)
  PROVE  BlockKey(t.blocks[i], turn, i - 1) \in BlockKeys
<1>1. /\ t.blocks \in Seq([id: BlockIds \cup {NoId}, content: Contents])
      /\ Len(t.blocks) \in 0..MaxBlocks /\ MaxBlocks \in Nat
  BY PayloadType, TurnStoreAssumption
<1>2. t.blocks[i] \in [id: BlockIds \cup {NoId}, content: Contents]
  BY <1>1, ElementOfSeq
<1>3. i - 1 \in 0..MaxBlocks
  BY <1>1
<1>4. normalizeBlockID(t.blocks[i], turn, i - 1) \in StoredIds
  BY <1>2, <1>3 DEF normalizeBlockID, StoredIds
<1>5. ComputeBlockContentHash(t.blocks[i].content) \in Hashes
  BY <1>2 DEF ComputeBlockContentHash, Hashes
<1> QED
  BY <1>4, <1>5 DEF BlockKey, BlockKeys

LEMMA StoredBlocksType ==
  ASSUME NEW t \in Payloads, NEW turn \in TurnIds
  PROVE  /\ StoredBlocks(t, turn) \in Seq(BlockKeys)
         /\ Len(StoredBlocks(t, turn)) = Len(t.blocks)
         /\ \A i \in 1..Len(t.blocks) :
              StoredBlocks(t, turn)[i] = BlockKey(t.blocks[i], turn, i - 1)
<1>1. t.blocks \in Seq([id: BlockIds \cup {NoId}, content: Contents])
  BY PayloadType
<1>2. DOMAIN t.blocks = 1..Len(t.blocks) /\ Len(t.blocks) \in Nat
  BY <1>1, LenProperties
<1>3. StoredBlocks(t, turn) = [i \in 1..Len(t.blocks) |-> BlockKey(t.blocks[i], turn, i - 1)]
  BY <1>2 DEF StoredBlocks
<1>4. StoredBlocks(t, turn) \in [1..Len(t.blocks) -> BlockKeys]
  BY <1>3, BlockKeyType
<1>5. StoredBlocks(t, turn) \in Seq(BlockKeys)
  BY <1>2, <1>4
<1>6. Len(StoredBlocks(t, turn)) = Len(t.blocks)
  BY <1>2, <1>4
<1> QED
  BY <1>3, <1>5, <1>6

\* The writers give a turn an id, and the upsert makes a row of a row.
LEMMA turnIdOfType ==
  ASSUME NEW t \in Payloads
  PROVE  turnIdOf(t) \in TurnIds
BY PayloadType, TurnStoreAssumption DEF turnIdOf

LEMMA upsertTurnType ==
  ASSUME NEW row \in TurnRow \cup {NoRow}, NEW meta \in Metadata, NEW ms \in 1..MaxMs,
         NEW rt \in Keys \cup {NoKey}, NEW inf \in Keys \cup {NoKey}
  PROVE  upsertTurn(row, meta, ms, rt, inf) \in TurnRow
<1>1. MaxMs \in Nat /\ ms \in 0..MaxMs
  BY TurnStoreAssumption
<1>2. CASE row = NoRow
  BY <1>1, <1>2 DEF upsertTurn, TurnRow
<1>3. CASE row # NoRow
  <2>1. row \in TurnRow
    BY <1>3
  <2>2. Lower(row.created, ms) \in 0..MaxMs /\ Higher(row.updated, ms) \in 0..MaxMs
    BY <1>1, <2>1 DEF Lower, Higher, TurnRow
  <2>3. First(rt, row.rt) \in Keys \cup {NoKey} /\ First(inf, row.inf) \in Keys \cup {NoKey}
    BY <2>1 DEF First, TurnRow
  <2> QED
    BY <1>3, <2>1, <2>2, <2>3 DEF upsertTurn, TurnRow
<1> QED
  BY <1>2, <1>3

-----------------------------------------------------------------------------
(* Type correctness                                                        *)

\* What a file holds, as the tables and the history begin with it.
SavedIn(file) ==
  [key \in Snapshots |-> IF key \in DOMAIN file.snapshots THEN {file.snapshots[key]} ELSE {}]
LateIn(file) == {key \in DOMAIN file.snapshots : key.ms > file.turns[key.turn].updated}

LEMMA FileRowsType ==
  ASSUME NEW file \in Files
  PROVE  FileRows(file) \subseteq MemberRow
<1> SUFFICES ASSUME NEW m \in FileRows(file) PROVE m \in MemberRow
  OBVIOUS
<1>1. PICK key \in DOMAIN file.snapshots : m \in SnapshotRows(key, file.snapshots[key])
  BY DEF FileRows
<1>2. key \in Snapshots /\ file.snapshots[key] \in Seq(BlockKeys)
  BY <1>1, FilesAssumption DEF IsFile
<1>3. PICK i \in 1..Len(file.snapshots[key]) :
        m = [snap |-> key, ordinal |-> i - 1, block |-> file.snapshots[key][i]]
  BY <1>1 DEF SnapshotRows
<1>4. file.snapshots[key][i] \in BlockKeys /\ i - 1 \in Nat
  BY <1>2, <1>3, ElementOfSeq
<1> QED
  BY <1>2, <1>3, <1>4 DEF MemberRow

LEMMA FileHistoryType ==
  ASSUME NEW file \in Files
  PROVE  SavedIn(file) \in [Snapshots -> SUBSET Seq(BlockKeys)] /\ LateIn(file) \subseteq Snapshots
BY FilesAssumption DEF IsFile, SavedIn, LateIn

LEMMA InitType == Init => TypeOK
<1> SUFFICES ASSUME Init PROVE TypeOK
  OBVIOUS
<1>1. MaxMs \in Nat /\ MaxSaves \in Nat /\ MaxCrashes \in Nat
  BY TurnStoreAssumption
<1>2. PICK file \in Files :
        /\ turns = file.turns /\ cols = file.cols
        /\ blocks = file.blocks /\ members = FileRows(file)
        /\ past = [saved |-> SavedIn(file), late |-> LateIn(file), interrupted |-> FALSE]
  BY DEF Init, SavedIn, LateIn
<1>3. /\ turns \in TurnsTable /\ cols \subseteq Columns
      /\ blocks \in [BlockKeys -> 0..MaxMs] /\ members \subseteq MemberRow
  BY <1>2, FilesAssumption, FileRowsType DEF IsFile
<1>4. past \in PastType
  BY <1>2, FileHistoryType DEF PastType
<1>5. used \in [saves: 0..MaxSaves, crashes: 0..MaxCrashes]
  BY <1>1 DEF Init
<1> QED
  BY <1>3, <1>4, <1>5 DEF Init, TypeOK, PastType

(* A save begins with a well-typed view of the tables.                     *)
LEMMA BeginSaveType ==
  ASSUME TypeOK, NEW t \in Payloads, NEW turn \in TurnIds, NEW ph \in Phases, NEW ms \in 1..MaxMs,
         NEW rt \in Keys \cup {NoKey}, NEW inf \in Keys \cup {NoKey},
         BeginSave(t, turn, ph, ms, rt, inf)
  PROVE  /\ tx' \in Transaction /\ tx'.key = [turn |-> turn, phase |-> ph, ms |-> ms]
         /\ tx'.t = t /\ tx'.next = 0
         /\ TypeOK'
<1> DEFINE key == [turn |-> turn, phase |-> ph, ms |-> ms]
           rt1 == First(rt, runtimeKeyFromTurnMetadata(t.meta))
           inf1 == First(inf, inferenceIDFromTurnMetadata(t.meta))
           new == [turns EXCEPT ![turn] = upsertTurn(turns[turn], t.meta, ms, rt1, inf1)]
<1>1. tx' = [key |-> key, t |-> t, next |-> 0, turns |-> new, blocks |-> blocks,
             members |-> Cleared(members, key)]
  BY DEF BeginSave
<1>2. t.meta \in Metadata /\ Len(t.blocks) \in 0..MaxBlocks /\ MaxBlocks \in Nat
  BY PayloadType, TurnStoreAssumption
<1>3. rt1 \in Keys \cup {NoKey} /\ inf1 \in Keys \cup {NoKey}
  BY <1>2, Defaults DEF First
<1>4. turns[turn] \in TurnRow \cup {NoRow}
  BY DEF TypeOK, TurnsTable
<1>5. upsertTurn(turns[turn], t.meta, ms, rt1, inf1) \in TurnRow
  BY <1>2, <1>3, <1>4, upsertTurnType
<1>6. new \in TurnsTable
  BY <1>5 DEF TypeOK, TurnsTable
<1>7. key \in Snapshots
  BY DEF Snapshots
<1>8. Cleared(members, key) \subseteq MemberRow
  BY DEF TypeOK, Cleared
<1>9. tx' \in Transaction
  BY <1>1, <1>2, <1>6, <1>7, <1>8 DEF TypeOK, Transaction
<1>10. tx'.key = key /\ tx'.t = t /\ tx'.next = 0
  BY <1>1
<1>11. used' \in [saves: 0..MaxSaves, crashes: 0..MaxCrashes]
  <2>1. used.saves \in 0..MaxSaves /\ used.saves < MaxSaves /\ MaxSaves \in Nat
    BY TurnStoreAssumption DEF TypeOK, BeginSave
  <2>2. used.saves + 1 \in 0..MaxSaves
    BY <2>1
  <2> QED
    BY <2>2 DEF TypeOK, BeginSave
<1>12. tx'.next <= Len(tx'.t.blocks)
  BY <1>2, <1>10
<1> QED
  BY <1>9, <1>10, <1>11, <1>12 DEF TypeOK, BeginSave, tables

\* Both writers begin a save like that.
SavesAs(t, turn, ph, ms, rt, inf) ==
  /\ t \in Payloads /\ turn \in TurnIds /\ ph \in Phases /\ ms \in 1..MaxMs
  /\ rt \in Keys \cup {NoKey} /\ inf \in Keys \cup {NoKey}
  /\ BeginSave(t, turn, ph, ms, rt, inf)

LEMMA WritersBeginSave ==
  ASSUME NEW t \in Payloads, NEW ms \in 1..MaxMs, NEW rt \in Keys \cup {NoKey},
         \/ \E ph \in Phases \ {Final} : SnapshotHook(t, ph, ms, rt)
         \/ PersistTurn(t, ms, rt)
  PROVE  \E turn, ph, inf : SavesAs(t, turn, ph, ms, rt, inf)
<1>1. t.meta.inference \in Keys \cup {NoKey}
  BY PayloadType DEF Metadata
<1>2. turnIdOf(t) \in TurnIds
  BY turnIdOfType
<1>3. CASE PersistTurn(t, ms, rt)
  <2>1. SavesAs(t, turnIdOf(t), Final, ms, rt, t.meta.inference)
    BY <1>1, <1>2, <1>3, TurnStoreAssumption DEF PersistTurn, SavesAs
  <2> QED
    BY <2>1
<1>4. ASSUME NEW ph \in Phases \ {Final}, SnapshotHook(t, ph, ms, rt)
      PROVE  \E turn, p, inf : SavesAs(t, turn, p, ms, rt, inf)
  <2>1. SavesAs(t, turnIdOf(t), ph, ms, rt, t.meta.inference)
    BY <1>1, <1>2, <1>4 DEF SnapshotHook, SavesAs
  <2> QED
    BY <2>1
<1> QED
  BY <1>3, <1>4

\* The row and the block that the next turn of the loop writes.
NextBlock == BlockKey(tx.t.blocks[tx.next + 1], tx.key.turn, tx.next)
NextMember == [snap |-> tx.key, ordinal |-> tx.next, block |-> NextBlock]
NextSeen == IF tx.blocks[NextBlock] = 0 THEN tx.key.ms ELSE Lower(tx.blocks[NextBlock], tx.key.ms)

LEMMA SaveBlockStep ==
  ASSUME TypeOK, SaveBlock
  PROVE  /\ tx \in Transaction /\ tx' \in Transaction
         /\ tx.next \in 0..MaxBlocks /\ tx.next < Len(tx.t.blocks)
         /\ Len(tx.t.blocks) \in 0..MaxBlocks /\ MaxBlocks \in Nat
         /\ NextBlock \in BlockKeys /\ NextMember \in MemberRow
         /\ NextBlock = StoredBlocks(tx.t, tx.key.turn)[tx.next + 1]
         /\ NextSeen \in 1..tx.key.ms
         /\ tx.blocks[NextBlock] # 0 => NextSeen <= tx.blocks[NextBlock]
         /\ tx'.key = tx.key /\ tx'.t = tx.t /\ tx'.next = tx.next + 1 /\ tx'.turns = tx.turns
         /\ tx'.blocks = [tx.blocks EXCEPT ![NextBlock] = NextSeen]
         /\ tx'.members = tx.members \cup {NextMember}
<1>1. tx \in Transaction /\ tx.next < Len(tx.t.blocks)
  BY DEF TypeOK, SaveBlock
<1>2. /\ tx.t \in Payloads /\ tx.key \in Snapshots /\ tx.next \in 0..MaxBlocks
      /\ tx.blocks \in [BlockKeys -> 0..MaxMs] /\ tx.members \subseteq MemberRow
      /\ tx.turns \in TurnsTable
  BY <1>1 DEF Transaction
<1>3. Len(tx.t.blocks) \in 0..MaxBlocks /\ MaxBlocks \in Nat /\ MaxMs \in Nat
  BY <1>2, PayloadType, TurnStoreAssumption
<1>4. tx.next + 1 \in 1..Len(tx.t.blocks) /\ (tx.next + 1) - 1 = tx.next
      /\ tx.next + 1 \in 0..MaxBlocks /\ tx.next \in Nat
  BY <1>1, <1>2, <1>3
<1>5. tx.key.turn \in TurnIds /\ tx.key.ms \in 1..MaxMs
  BY <1>2 DEF Snapshots
<1>6. NextBlock \in BlockKeys
  BY <1>2, <1>4, <1>5, BlockKeyType DEF NextBlock
<1>7. NextBlock = StoredBlocks(tx.t, tx.key.turn)[tx.next + 1]
  BY <1>2, <1>4, <1>5, StoredBlocksType DEF NextBlock
<1>8. NextMember \in MemberRow
  BY <1>2, <1>4, <1>6 DEF NextMember, MemberRow
<1>9. tx.blocks[NextBlock] \in 0..MaxMs
  BY <1>2, <1>6
<1>10. NextSeen \in 1..tx.key.ms /\ NextSeen \in 0..MaxMs
       /\ (tx.blocks[NextBlock] # 0 => NextSeen <= tx.blocks[NextBlock])
  BY <1>3, <1>5, <1>9 DEF NextSeen, Lower
<1>11. tx' = [tx EXCEPT !.blocks[NextBlock] = NextSeen, !.next = tx.next + 1,
                !.members = tx.members \cup {NextMember}]
  BY DEF SaveBlock, NextBlock, NextSeen, NextMember
<1>12. /\ tx'.key = tx.key /\ tx'.t = tx.t /\ tx'.next = tx.next + 1 /\ tx'.turns = tx.turns
       /\ tx'.blocks = [tx.blocks EXCEPT ![NextBlock] = NextSeen]
       /\ tx'.members = tx.members \cup {NextMember}
  BY <1>1, <1>11 DEF Transaction
<1>13. tx' \in Transaction
  <2>1. [tx.blocks EXCEPT ![NextBlock] = NextSeen] \in [BlockKeys -> 0..MaxMs]
    BY <1>2, <1>10
  <2>2. tx' = [key |-> tx.key, t |-> tx.t, next |-> tx.next + 1, turns |-> tx.turns,
               blocks |-> [tx.blocks EXCEPT ![NextBlock] = NextSeen],
               members |-> tx.members \cup {NextMember}]
    BY <1>1, <1>11 DEF Transaction
  <2> QED
    BY <1>2, <1>4, <1>8, <2>1, <2>2 DEF Transaction
<1> QED
  BY <1>1, <1>3, <1>2, <1>6, <1>7, <1>8, <1>10, <1>12, <1>13

LEMMA CommitSaveStep ==
  ASSUME TypeOK, CommitSave
  PROVE  /\ tx \in Transaction /\ tx.key \in Snapshots /\ tx.key.turn \in TurnIds
         /\ tx.next = Len(StoredBlocks(tx.t, tx.key.turn))
         /\ StoredBlocks(tx.t, tx.key.turn) \in Seq(BlockKeys)
         /\ past' \in PastType
         /\ past'.saved = [past.saved EXCEPT ![tx.key] =
                             past.saved[tx.key] \cup {StoredBlocks(tx.t, tx.key.turn)}]
         /\ past'.interrupted = past.interrupted /\ past'.late = past.late \ {tx.key}
<1>1. tx \in Transaction
  BY DEF TypeOK, CommitSave
<1>2. tx.key \in Snapshots /\ tx.key.turn \in TurnIds /\ tx.t \in Payloads
  BY <1>1 DEF Transaction, Snapshots
<1>3. /\ StoredBlocks(tx.t, tx.key.turn) \in Seq(BlockKeys)
      /\ Len(StoredBlocks(tx.t, tx.key.turn)) = Len(tx.t.blocks)
  BY <1>2, StoredBlocksType
<1>4. past \in PastType
  BY DEF TypeOK, PastType
<1>5. past' = [past EXCEPT !.saved[tx.key] =
                             past.saved[tx.key] \cup {StoredBlocks(tx.t, tx.key.turn)},
                           !.late = past.late \ {tx.key}]
  BY DEF CommitSave
<1>6. /\ past'.saved = [past.saved EXCEPT ![tx.key] =
                          past.saved[tx.key] \cup {StoredBlocks(tx.t, tx.key.turn)}]
      /\ past'.interrupted = past.interrupted /\ past'.late = past.late \ {tx.key}
  BY <1>4, <1>5 DEF PastType
<1>7. past.saved[tx.key] \cup {StoredBlocks(tx.t, tx.key.turn)} \in SUBSET Seq(BlockKeys)
  BY <1>2, <1>3, <1>4 DEF PastType
<1>8. past' \in PastType
  BY <1>4, <1>5, <1>7 DEF PastType
<1> QED
  BY <1>1, <1>2, <1>3, <1>6, <1>8 DEF CommitSave

\* The statements of a migration keep the shape of a row.
LEMMA RowUpdates ==
  ASSUME TypeOK, NEW t \in Rows
  PROVE  /\ turns[t] \in TurnRow /\ t \in TurnIds
         /\ [turns[t] EXCEPT !.created = turns[t].legacy] \in TurnRow
         /\ \A ms \in 1..MaxMs :
              [turns[t] EXCEPT !.updated = Dated(turns[t].created, ms)] \in TurnRow
         /\ \A rt, inf \in Keys \cup {NoKey} :
              [[turns[t] EXCEPT !.rt = rt] EXCEPT !.inf = inf] \in TurnRow
<1>1. turns[t] \in TurnRow /\ t \in TurnIds
  BY DEF TypeOK, TurnsTable, Rows
<1>2. [turns[t] EXCEPT !.created = turns[t].legacy] \in TurnRow
  BY <1>1 DEF TurnRow
<1>3. ASSUME NEW ms \in 1..MaxMs
      PROVE  [turns[t] EXCEPT !.updated = Dated(turns[t].created, ms)] \in TurnRow
  <2>1. Dated(turns[t].created, ms) \in 0..MaxMs
    BY <1>1, TurnStoreAssumption DEF TurnRow, Dated
  <2> QED
    BY <1>1, <2>1 DEF TurnRow
<1>4. ASSUME NEW rt \in Keys \cup {NoKey}, NEW inf \in Keys \cup {NoKey}
      PROVE  [[turns[t] EXCEPT !.rt = rt] EXCEPT !.inf = inf] \in TurnRow
  BY <1>1 DEF TurnRow
<1> QED
  BY <1>1, <1>2, <1>3, <1>4

\* What a backfilled row holds.
LEMMA BackfillRowStep ==
  ASSUME TypeOK, NEW u \in pending, BackfillRow(u)
  PROVE  /\ u.turn \in TurnIds /\ u.rt \in Keys \cup {NoKey} /\ u.inf \in Keys \cup {NoKey}
         /\ turns' = [turns EXCEPT ![u.turn] =
                        [[turns[u.turn] EXCEPT !.rt = u.rt] EXCEPT !.inf = u.inf]]
<1>1. u \in [turn: TurnIds, rt: Keys \cup {NoKey}, inf: Keys \cup {NoKey}]
  BY DEF TypeOK
<1>2. turns \in [TurnIds -> TurnRow \cup {NoRow}]
  BY DEF TypeOK, TurnsTable
<1>3. turns' = [turns EXCEPT ![u.turn].rt = u.rt, ![u.turn].inf = u.inf]
  BY DEF BackfillRow
<1> QED
  BY <1>1, <1>2, <1>3

\* A query selects finitely many keys, of rows that are there.
LEMMA SelectedFinite ==
  ASSUME TypeOK, IsFiniteSet(members), NEW q \in Queries
  PROVE  /\ IsFiniteSet(Selected(q)) /\ Cardinality(Selected(q)) \in Nat
         /\ Selected(q) \subseteq Snapshots
         /\ \A key \in Selected(q) : MembersOf(members, key) # {}
         /\ q.limit \in Nat \ {0}
<1> DEFINE f == [m \in members |-> m.snap]
<1>1. f \in Surjection(members, Present(members))
  BY DEF Surjection, Present
<1>2. IsFiniteSet(Present(members))
  BY <1>1, FS_Surjection
<1>3. Selected(q) \in SUBSET Present(members)
  BY DEF Selected
<1>4. IsFiniteSet(Selected(q)) /\ Cardinality(Selected(q)) \in Nat
  BY <1>2, <1>3, FS_Subset, FS_CardinalityType
<1>5. ASSUME NEW key \in Selected(q)
      PROVE  key \in Snapshots /\ MembersOf(members, key) # {}
  <2>1. PICK m \in members : m.snap = key
    BY <1>3 DEF Present
  <2>2. m \in MemberRow
    BY DEF TypeOK
  <2> QED
    BY <2>1, <2>2 DEF MemberRow, MembersOf
<1>6. q.limit \in Nat \ {0}
  BY TurnStoreAssumption
<1> QED
  BY <1>4, <1>5, <1>6

\* The reader that an outer query leaves.
LEMMA ListStartStep ==
  ASSUME TypeOK, IsFiniteSet(members), NEW q \in Queries, ListStart(q)
  PROVE  \E n \in Nat : \E page \in [1..n -> Selected(q)] :
           /\ IsPage(page, q) /\ page \in Seq(Snapshots) /\ Len(page) = n
           /\ n = Lower(q.limit, Cardinality(Selected(q)))
           /\ reader' = [state |-> "listing", q |-> q, full |-> n = q.limit,
                         rows |-> page, items |-> <<>>, had |-> {key.turn : key \in Selected(q)}]
           /\ reader' \in Reading
<1> DEFINE n == Lower(q.limit, Cardinality(Selected(q)))
<1>1. Cardinality(Selected(q)) \in Nat /\ Selected(q) \subseteq Snapshots /\ q.limit \in Nat
  BY SelectedFinite
<1>2. n \in Nat
  BY <1>1 DEF Lower
<1>3. PICK page \in [1..n -> Selected(q)] :
        /\ IsPage(page, q)
        /\ reader' = [state |-> "listing", q |-> q, full |-> Len(page) = q.limit,
                      rows |-> page, items |-> <<>>, had |-> {key.turn : key \in Selected(q)}]
  BY DEF ListStart
<1>4. page \in Seq(Snapshots) /\ Len(page) = n
  <2>1. page \in [1..n -> Snapshots]
    BY <1>1
  <2> HIDE DEF n
  <2> QED
    BY <1>2, <2>1
<1>5. {key.turn : key \in Selected(q)} \subseteq TurnIds
  BY <1>1 DEF Snapshots
<1>6. reader' \in Reading
  <2>1. <<>> \in Seq([snap: Snapshots, blocks: Seq(BlockKeys)])
    BY EmptySeq
  <2> HIDE DEF n
  <2> QED
    BY <1>3, <1>4, <1>5, <2>1 DEF Reading
<1>7. reader' = [state |-> "listing", q |-> q, full |-> n = q.limit,
                 rows |-> page, items |-> <<>>, had |-> {key.turn : key \in Selected(q)}]
  BY <1>3, <1>4
<1> QED
  BY <1>2, <1>3, <1>4, <1>6, <1>7

-----------------------------------------------------------------------------
(* Rows of one snapshot                                                    *)

RowAt(key, s, i) == [snap |-> key, ordinal |-> i - 1, block |-> s[i]]
Below(rows, o) == {r \in rows : r.ordinal < o}
At(rows, o) == {r \in rows : r.ordinal = o}

LEMMA RowsCount ==
  ASSUME NEW key, NEW s, NEW n \in Nat
  PROVE  IsFiniteSet(RowsOf(key, s, n)) /\ Cardinality(RowsOf(key, s, n)) = n
<1> DEFINE f == [i \in 1..n |-> RowAt(key, s, i)]
<1>1. f \in [1..n -> RowsOf(key, s, n)]
  BY DEF RowsOf, RowAt
<1>2. \A row \in RowsOf(key, s, n) : \E i \in 1..n : f[i] = row
  BY DEF RowsOf, RowAt
<1>3. ASSUME NEW i \in 1..n, NEW j \in 1..n, f[i] = f[j]
      PROVE  i = j
  <2>1. RowAt(key, s, i).ordinal = RowAt(key, s, j).ordinal
    BY <1>3
  <2> QED
    BY <2>1 DEF RowAt
<1> HIDE DEF f
<1>4. f \in Bijection(1..n, RowsOf(key, s, n))
  <2>1. f \in Injection(1..n, RowsOf(key, s, n))
    BY <1>1, <1>3 DEF Injection, IsInjective
  <2>2. f \in Surjection(1..n, RowsOf(key, s, n))
    BY <1>1, <1>2 DEF Surjection
  <2> QED
    BY <2>1, <2>2 DEF Bijection
<1>5. ExistsBijection(1..n, RowsOf(key, s, n))
  BY <1>4 DEF ExistsBijection
<1>6. IsFiniteSet(RowsOf(key, s, n))
  BY <1>5, FS_NatBijection
<1> QED
  BY <1>5, <1>6, FS_CountingElements

LEMMA RowsBelow ==
  ASSUME NEW key, NEW s, NEW n \in Nat, NEW j \in 1..n
  PROVE  /\ RowAt(key, s, j) \in RowsOf(key, s, n)
         /\ RowAt(key, s, j).ordinal = j - 1 /\ RowAt(key, s, j).block = s[j]
         /\ Cardinality(Below(RowsOf(key, s, n), j - 1)) = j - 1
         /\ Cardinality(At(RowsOf(key, s, n), j - 1)) = 1
<1>1. RowAt(key, s, j) \in RowsOf(key, s, n)
  BY DEF RowAt, RowsOf
<1>2. \A i \in 1..n : RowAt(key, s, i).ordinal = i - 1 /\ RowAt(key, s, i).block = s[i]
  BY DEF RowAt
<1>3. \A r \in RowsOf(key, s, n) : \E i \in 1..n : r = RowAt(key, s, i)
  BY DEF RowsOf, RowAt
<1>4. Below(RowsOf(key, s, n), j - 1) = RowsOf(key, s, j - 1)
  <2>1. ASSUME NEW r \in RowsOf(key, s, n), r.ordinal < j - 1
        PROVE  r \in RowsOf(key, s, j - 1)
    <3>1. PICK i \in 1..n : r = RowAt(key, s, i)
      BY <1>3
    <3>2. i \in 1..(j - 1)
      BY <1>2, <2>1, <3>1
    <3> QED
      BY <3>1, <3>2 DEF RowsOf, RowAt
  <2>2. ASSUME NEW r \in RowsOf(key, s, j - 1)
        PROVE  r \in RowsOf(key, s, n) /\ r.ordinal < j - 1
    <3>1. PICK i \in 1..(j - 1) : r = RowAt(key, s, i)
      BY DEF RowsOf, RowAt
    <3>2. i \in 1..n /\ i - 1 < j - 1
      OBVIOUS
    <3> QED
      BY <1>2, <3>1, <3>2 DEF RowsOf, RowAt
  <2> QED
    BY <2>1, <2>2 DEF Below
<1>5. Cardinality(Below(RowsOf(key, s, n), j - 1)) = j - 1
  <2>1. j - 1 \in Nat
    OBVIOUS
  <2> QED
    BY <1>4, <2>1, RowsCount
<1>6. At(RowsOf(key, s, n), j - 1) = {RowAt(key, s, j)}
  <2>1. ASSUME NEW r \in RowsOf(key, s, n), r.ordinal = j - 1
        PROVE  r = RowAt(key, s, j)
    <3>1. PICK i \in 1..n : r = RowAt(key, s, i)
      BY <1>3
    <3>2. i = j
      BY <1>2, <2>1, <3>1
    <3> QED
      BY <3>1, <3>2
  <2> QED
    BY <1>1, <1>2, <2>1 DEF At
<1>7. Cardinality(At(RowsOf(key, s, n), j - 1)) = 1
  BY <1>6, FS_Singleton
<1> QED
  BY <1>1, <1>2, <1>5, <1>7

\* The row with i - 1 rows below it is the i-th that was written.
LEMMA RowsInOrder ==
  ASSUME NEW key, NEW s, NEW n \in Nat, NEW M, M = RowsOf(key, s, n), NEW i \in 1..n
  PROVE  (CHOOSE m \in M : Cardinality(Below(M, m.ordinal)) = i - 1) = RowAt(key, s, i)
<1>1. ASSUME NEW j \in 1..n
      PROVE  /\ RowAt(key, s, j) \in M /\ RowAt(key, s, j).ordinal = j - 1
             /\ Cardinality(Below(M, RowAt(key, s, j).ordinal)) = j - 1
  <2>1. /\ RowAt(key, s, j) \in RowsOf(key, s, n) /\ RowAt(key, s, j).ordinal = j - 1
        /\ Cardinality(Below(RowsOf(key, s, n), j - 1)) = j - 1
    BY RowsBelow
  <2> QED
    BY <2>1
<1>2. \A m \in M : \E j \in 1..n : m = RowAt(key, s, j)
  BY DEF RowsOf, RowAt
<1>3. ASSUME NEW m \in M, Cardinality(Below(M, m.ordinal)) = i - 1
      PROVE  m = RowAt(key, s, i)
  <2>1. PICK j \in 1..n : m = RowAt(key, s, j)
    BY <1>2
  <2>2. j - 1 = i - 1
    BY <1>1, <1>3, <2>1
  <2>3. j = i
    BY <2>2
  <2> QED
    BY <2>1, <2>3
<1> QED
  BY <1>1, <1>3

\* The rows that one save wrote read back as what it saved.
LEMMA LoadsWhatIsFiled ==
  ASSUME NEW ms, NEW key, NEW s \in Seq(BlockKeys),
         MembersOf(ms, key) = RowsOf(key, s, Len(s))
  PROVE  loadSnapshotBlocks(ms, key) = s
<1>1. Len(s) \in Nat /\ s \in [1..Len(s) -> BlockKeys]
  BY LenProperties
<1>2. Cardinality(MembersOf(ms, key)) = Len(s)
  BY <1>1, RowsCount
<1> DEFINE M == MembersOf(ms, key)
<1>3. ASSUME NEW i \in 1..Len(s)
      PROVE  (CHOOSE m \in M : Cardinality(Below(M, m.ordinal)) = i - 1).block = s[i]
  <2>1. (CHOOSE m \in M : Cardinality(Below(M, m.ordinal)) = i - 1) = RowAt(key, s, i)
    BY <1>1, RowsInOrder
  <2>2. RowAt(key, s, i).block = s[i]
    BY DEF RowAt
  <2> QED
    BY <2>1, <2>2
<1>4. loadSnapshotBlocks(ms, key) =
        [i \in 1..Cardinality(M) |->
           (CHOOSE m \in M : Cardinality(Below(M, m.ordinal)) = i - 1).block]
  BY DEF loadSnapshotBlocks, Below
<1> HIDE DEF M
<1>5. loadSnapshotBlocks(ms, key) = [i \in 1..Len(s) |-> s[i]]
  BY <1>2, <1>3, <1>4 DEF M
<1> QED
  BY <1>1, <1>5

LEMMA LoadsNothing ==
  ASSUME NEW ms, NEW key, MembersOf(ms, key) = {}
  PROVE  loadSnapshotBlocks(ms, key) = <<>>
<1>1. Cardinality(MembersOf(ms, key)) = 0
  BY FS_EmptySet
<1>2. loadSnapshotBlocks(ms, key) \in Seq({}) /\ Len(loadSnapshotBlocks(ms, key)) = 0
  BY <1>1 DEF loadSnapshotBlocks
<1> QED
  BY <1>2, EmptySeq

LEMMA LoadsSame ==
  ASSUME NEW ms, NEW key, NEW ns, MembersOf(ms, key) = MembersOf(ns, key)
  PROVE  loadSnapshotBlocks(ms, key) = loadSnapshotBlocks(ns, key)
BY DEF loadSnapshotBlocks

\* What a key of a filed snapshot reads back as was saved under it.
LEMMA FiledIsLoaded ==
  ASSUME TypeOK, Filed, NEW key \in Snapshots, past.saved[key] # {}
  PROVE  /\ loadSnapshotBlocks(members, key) \in past.saved[key]
         /\ loadSnapshotBlocks(members, key) \in Seq(BlockKeys)
<1>1. past.saved[key] \subseteq Seq(BlockKeys)
  BY DEF TypeOK
<1>2. PICK s \in past.saved[key] : MembersOf(members, key) = RowsOf(key, s, Len(s))
  BY DEF Filed, FiledUnder
<1>3. loadSnapshotBlocks(members, key) = s
  BY <1>1, <1>2, LoadsWhatIsFiled
<1> QED
  BY <1>1, <1>3

\* One more turn of the loop writes one more row.
LEMMA RowsGrow ==
  ASSUME NEW key, NEW s, NEW n \in Nat
  PROVE  RowsOf(key, s, n + 1) =
           RowsOf(key, s, n) \cup {[snap |-> key, ordinal |-> n, block |-> s[n + 1]]}
<1>1. 1..(n + 1) = (1..n) \cup {n + 1}
  OBVIOUS
<1>2. RowAt(key, s, n + 1) = [snap |-> key, ordinal |-> n, block |-> s[n + 1]]
  BY DEF RowAt
<1>3. RowsOf(key, s, n + 1) = {RowAt(key, s, i) : i \in 1..(n + 1)}
  BY DEF RowsOf, RowAt
<1>4. RowsOf(key, s, n) = {RowAt(key, s, i) : i \in 1..n}
  BY DEF RowsOf, RowAt
<1> HIDE DEF RowsOf, RowAt
<1>5. {RowAt(key, s, i) : i \in (1..n) \cup {n + 1}} =
        {RowAt(key, s, i) : i \in 1..n} \cup {RowAt(key, s, n + 1)}
  OBVIOUS
<1> QED
  BY <1>1, <1>2, <1>3, <1>4, <1>5

-----------------------------------------------------------------------------
(* A step keeps the types                                                  *)

LEMMA SavingType ==
  ASSUME TypeOK, Saving
  PROVE  TypeOK'
<1>1. ASSUME NEW t \in Payloads, NEW ms \in 1..MaxMs, NEW rt \in Keys \cup {NoKey},
             \/ \E ph \in Phases \ {Final} : SnapshotHook(t, ph, ms, rt)
             \/ PersistTurn(t, ms, rt)
      PROVE  TypeOK'
  <2>1. PICK turn, ph, inf : SavesAs(t, turn, ph, ms, rt, inf)
    BY <1>1, WritersBeginSave
  <2> QED
    BY <2>1, BeginSaveType DEF SavesAs
<1>2. CASE SaveBlock
  <2>1. tx' \in Transaction /\ tx'.next <= Len(tx'.t.blocks)
    <3>1. tx.next \in 0..MaxBlocks /\ tx.next < Len(tx.t.blocks) /\ Len(tx.t.blocks) \in 0..MaxBlocks
          /\ MaxBlocks \in Nat /\ tx'.t = tx.t /\ tx'.next = tx.next + 1 /\ tx' \in Transaction
      BY <1>2, SaveBlockStep
    <3>2. tx.next + 1 <= Len(tx.t.blocks)
      BY <3>1
    <3> QED
      BY <3>1, <3>2
  <2> QED
    BY <1>2, <2>1 DEF SaveBlock, tables, TypeOK
<1>3. CASE CommitSave
  <2>1. tx.turns \in TurnsTable /\ tx.blocks \in [BlockKeys -> 0..MaxMs] /\ tx.members \subseteq MemberRow
    BY <1>3, CommitSaveStep DEF Transaction
  <2>2. past' \in PastType
    BY <1>3, CommitSaveStep
  <2> QED
    BY <1>3, <2>1, <2>2 DEF CommitSave, TypeOK, PastType
<1>4. CASE AbortSave
  BY <1>4 DEF AbortSave, tables, TypeOK
<1> QED
  BY <1>1, <1>2, <1>3, <1>4 DEF Saving

LEMMA OpeningType ==
  ASSUME TypeOK, Opening
  PROVE  TypeOK'
<1>1. CASE AddCreated
  BY <1>1 DEF AddCreated, tables, TypeOK, Columns
<1>2. CASE CopyCreated
  <2>1. turns' \in TurnsTable
    <3>1. \A t \in TurnIds : (IF t \in Rows /\ turns[t].created = 0
                                THEN [turns[t] EXCEPT !.created = turns[t].legacy]
                                ELSE turns[t]) \in TurnRow \cup {NoRow}
      BY RowUpdates DEF TypeOK, TurnsTable
    <3> QED
      BY <1>2, <3>1 DEF CopyCreated, TurnsTable
  <2> QED
    BY <1>2, <2>1 DEF CopyCreated, TypeOK
<1>3. ASSUME NEW ms \in 1..MaxMs, AddColumns(ms)
      PROVE  TypeOK'
  <2>1. turns' \in TurnsTable
    <3>1. \A t \in TurnIds : (IF t \in Rows /\ turns[t].updated = 0
                                THEN [turns[t] EXCEPT !.updated = Dated(turns[t].created, ms)]
                                ELSE turns[t]) \in TurnRow \cup {NoRow}
      BY RowUpdates DEF TypeOK, TurnsTable
    <3> QED
      BY <1>3, <3>1 DEF AddColumns, TurnsTable
  <2>2. cols' \subseteq Columns
    BY <1>3 DEF AddColumns, TypeOK, Columns
  <2> QED
    BY <1>3, <2>1, <2>2 DEF AddColumns, TypeOK
<1>4. CASE SelectBackfill
  <2>1. pending' \subseteq [turn: TurnIds, rt: Keys \cup {NoKey}, inf: Keys \cup {NoKey}]
    BY <1>4 DEF SelectBackfill, Rows
  <2> QED
    BY <1>4, <2>1 DEF SelectBackfill, tables, TypeOK
<1>5. ASSUME NEW u \in pending, BackfillRow(u)
      PROVE  TypeOK'
  <2>1. /\ u.turn \in TurnIds /\ u.rt \in Keys \cup {NoKey} /\ u.inf \in Keys \cup {NoKey}
        /\ turns' = [turns EXCEPT ![u.turn] =
                       [[turns[u.turn] EXCEPT !.rt = u.rt] EXCEPT !.inf = u.inf]]
    BY <1>5, BackfillRowStep
  <2>2. turns' \in TurnsTable
    <3>1. turns[u.turn] \in TurnRow \cup {NoRow} /\ turns \in [TurnIds -> TurnRow \cup {NoRow}]
      BY <2>1 DEF TypeOK, TurnsTable
    <3>2. CASE turns[u.turn] \in TurnRow
      <4>1. [[turns[u.turn] EXCEPT !.rt = u.rt] EXCEPT !.inf = u.inf] \in TurnRow
        BY <2>1, <3>2 DEF TurnRow
      <4> QED
        BY <2>1, <3>1, <4>1 DEF TurnsTable
    <3>3. CASE turns[u.turn] = NoRow
      <4>1. [[NoRow EXCEPT !.rt = u.rt] EXCEPT !.inf = u.inf] = NoRow
        BY DEF NoRow
      <4> QED
        BY <2>1, <3>1, <3>3, <4>1 DEF TurnsTable
    <3> QED
      BY <3>1, <3>2, <3>3
  <2> QED
    BY <1>5, <2>2 DEF BackfillRow, TypeOK
<1>6. CASE Opened
  BY <1>6 DEF Opened, tables, TypeOK
<1> QED
  BY <1>1, <1>2, <1>3, <1>4, <1>5, <1>6 DEF Opening

\* A row that is read leaves the reader one item more and one row less.
LEMMA ListNextStep ==
  ASSUME TypeOK, Filed, Reads, ListNext
  PROVE  /\ reader \in Reading /\ reader' \in Reading /\ reader.rows # <<>>
         /\ reader.rows \in Seq(Snapshots)
         /\ Head(reader.rows) \in Snapshots /\ past.saved[Head(reader.rows)] # {}
         /\ reader.items \in Seq([snap: Snapshots, blocks: Seq(BlockKeys)])
         /\ [snap |-> Head(reader.rows),
             blocks |-> loadSnapshotBlocks(members, Head(reader.rows))]
              \in [snap: Snapshots, blocks: Seq(BlockKeys)]
         /\ reader'.rows = Tail(reader.rows)
         /\ reader'.items = Append(reader.items,
                              [snap |-> Head(reader.rows),
                               blocks |-> loadSnapshotBlocks(members, Head(reader.rows))])
         /\ reader'.state = "listing" /\ reader'.q = reader.q
         /\ reader'.full = reader.full /\ reader'.had = reader.had
<1> DEFINE key == Head(reader.rows)
           item == [snap |-> key, blocks |-> loadSnapshotBlocks(members, key)]
<1>1. reader \in Reading /\ reader.state = "listing" /\ reader.rows # <<>>
  <2>1. reader.state = "listing"
    BY DEF ListNext
  <2>2. reader # Idle
    BY <2>1, NullValues
  <2> QED
    BY <2>1, <2>2 DEF TypeOK, ListNext
<1>2. reader.rows \in Seq(Snapshots)
      /\ reader.items \in Seq([snap: Snapshots, blocks: Seq(BlockKeys)])
  BY <1>1 DEF Reading
<1>3. Head(reader.rows) \in Snapshots /\ Tail(reader.rows) \in Seq(Snapshots)
      /\ 1 \in DOMAIN reader.rows /\ Head(reader.rows) = reader.rows[1]
  BY <1>1, <1>2
<1>4. past.saved[key] # {}
  BY <1>1, <1>3, NullValues DEF Reads
<1>5. item \in [snap: Snapshots, blocks: Seq(BlockKeys)]
  BY <1>3, <1>4, FiledIsLoaded
<1> HIDE DEF item
<1>6. Append(reader.items, item) \in Seq([snap: Snapshots, blocks: Seq(BlockKeys)])
  BY <1>2, <1>5, AppendProperties
<1>7. reader' = [reader EXCEPT !.rows = Tail(reader.rows), !.items = Append(reader.items, item)]
  BY DEF ListNext, item
<1>8. /\ reader'.rows = Tail(reader.rows) /\ reader'.items = Append(reader.items, item)
      /\ reader'.state = "listing" /\ reader'.q = reader.q
      /\ reader'.full = reader.full /\ reader'.had = reader.had
  BY <1>1, <1>7 DEF Reading
<1>9. reader' = [state |-> "listing", q |-> reader.q, full |-> reader.full,
                 rows |-> Tail(reader.rows), items |-> Append(reader.items, item),
                 had |-> reader.had]
  BY <1>1, <1>7 DEF Reading
<1>10. reader' \in Reading
  <2>1. reader.q \in Queries /\ reader.full \in BOOLEAN /\ reader.had \in SUBSET TurnIds
    BY <1>1 DEF Reading
  <2> QED
    BY <1>3, <1>6, <1>9, <2>1 DEF Reading
<1> QED
  BY <1>1, <1>2, <1>3, <1>4, <1>5, <1>8, <1>10 DEF item

LEMMA ListDoneStep ==
  ASSUME TypeOK, ListDone
  PROVE  /\ reader \in Reading /\ reader' \in Reading /\ reader.rows = <<>>
         /\ reader'.rows = <<>> /\ reader'.items = reader.items /\ reader'.state = "answered"
         /\ reader'.q = reader.q /\ reader'.full = reader.full /\ reader'.had = reader.had
<1>1. reader \in Reading /\ reader.rows = <<>>
  <2>1. reader.state = "listing"
    BY DEF ListDone
  <2>2. reader # Idle
    BY <2>1, NullValues
  <2> QED
    BY <2>1, <2>2 DEF TypeOK, ListDone
<1>2. reader' = [state |-> "answered", q |-> reader.q, full |-> reader.full, rows |-> <<>>,
                 items |-> reader.items, had |-> reader.had]
  BY <1>1 DEF ListDone, Reading
<1> QED
  BY <1>1, <1>2 DEF Reading

LEMMA ListingType ==
  ASSUME TypeOK, Filed, Reads, Listing
  PROVE  TypeOK'
<1>1. ASSUME NEW q \in Queries, ListStart(q)
      PROVE  TypeOK'
  <2>1. reader' \in Reading
    BY <1>1, ListStartStep DEF Filed
  <2> QED
    BY <1>1, <2>1 DEF ListStart, tables, TypeOK
<1>2. CASE ListNext
  <2>1. reader' \in Reading
    BY <1>2, ListNextStep
  <2> QED
    BY <1>2, <2>1 DEF ListNext, tables, TypeOK
<1>3. CASE ListDone
  <2>1. reader' \in Reading
    BY <1>3, ListDoneStep
  <2> QED
    BY <1>3, <2>1 DEF ListDone, tables, TypeOK
<1>4. CASE ListEnd
  BY <1>4 DEF ListEnd, tables, TypeOK
<1> QED
  BY <1>1, <1>2, <1>3, <1>4 DEF Listing

LEMMA TypeNext ==
  ASSUME TypeOK, Filed, Reads, [Next]_vars
  PROVE  TypeOK'
<1>1. CASE Crash
  <2>1. used' \in [saves: 0..MaxSaves, crashes: 0..MaxCrashes]
    <3>1. used.crashes \in 0..MaxCrashes /\ used.crashes < MaxCrashes /\ MaxCrashes \in Nat
      BY <1>1, TurnStoreAssumption DEF TypeOK, Crash
    <3>2. used.crashes + 1 \in 0..MaxCrashes
      BY <3>1
    <3> QED
      BY <1>1, <3>2 DEF TypeOK, Crash
  <2>2. past' \in PastType
    <3>1. past \in PastType
      BY DEF TypeOK, PastType
    <3>2. past' = [past EXCEPT !.interrupted = past.interrupted \/ phase = "copy"]
      BY <1>1 DEF Crash
    <3>3. (past.interrupted \/ phase = "copy") \in BOOLEAN
      BY <3>1 DEF PastType
    <3> QED
      BY <3>1, <3>2, <3>3 DEF PastType
  <2> QED
    BY <1>1, <2>1, <2>2 DEF Crash, tables, TypeOK, PastType
<1>2. CASE UNCHANGED vars
  BY <1>2 DEF vars, TypeOK
<1> QED
  BY <1>1, <1>2, SavingType, OpeningType, ListingType DEF Next

-----------------------------------------------------------------------------
(* What is filed                                                           *)

\* Nothing but a commit changes what is filed or was saved.
LEMMA FiledFrame ==
  ASSUME Filed, members' = members, past'.saved = past.saved
  PROVE  Filed'
BY DEF Filed, FiledUnder, MembersOf

LEMMA FiledAfterCommit ==
  ASSUME TypeOK, Filed, Underway, CommitSave
  PROVE  Filed'
<1> DEFINE s == StoredBlocks(tx.t, tx.key.turn)
<1>1. /\ tx.key \in Snapshots /\ tx.next = Len(s)
      /\ past'.saved = [past.saved EXCEPT ![tx.key] = past.saved[tx.key] \cup {s}]
  BY CommitSaveStep
<1>2. tx # NoTx /\ members' = tx.members
  BY DEF CommitSave
<1>3. past.saved \in [Snapshots -> SUBSET Seq(BlockKeys)]
  BY DEF TypeOK
<1>4. IsFiniteSet(members')
  BY <1>2 DEF Underway
<1>5. MembersOf(members', tx.key) = RowsOf(tx.key, s, Len(s))
  BY <1>1, <1>2 DEF Underway
<1>6. \A key \in Snapshots \ {tx.key} : MembersOf(members', key) = MembersOf(members, key)
  BY <1>2 DEF Underway
<1> HIDE DEF s
<1>7. ASSUME NEW key \in Snapshots
      PROVE  FiledUnder(key)'
  <2>1. CASE key = tx.key
    <3>1. s \in past'.saved[key] /\ past'.saved[key] # {}
      BY <1>1, <1>3, <2>1
    <3> QED
      BY <1>5, <2>1, <3>1 DEF FiledUnder
  <2>2. CASE key # tx.key
    <3>1. past'.saved[key] = past.saved[key]
      BY <1>1, <1>3, <2>2
    <3>2. MembersOf(members', key) = MembersOf(members, key)
      BY <1>6, <2>2
    <3>3. FiledUnder(key)
      BY DEF Filed
    <3> QED
      BY <3>1, <3>2, <3>3 DEF FiledUnder
  <2> QED
    BY <2>1, <2>2
<1> QED
  BY <1>4, <1>7 DEF Filed

LEMMA FiledNext ==
  ASSUME TypeOK, Filed, Underway, [Next]_vars
  PROVE  Filed'
<1>1. CASE CommitSave
  BY <1>1, FiledAfterCommit
<1>2. ASSUME UNCHANGED <<members, past>>
      PROVE  Filed'
  BY <1>2, FiledFrame
<1>3. ASSUME NEW t \in Payloads, NEW ms \in 1..MaxMs, NEW rt \in Keys \cup {NoKey},
             \/ \E ph \in Phases \ {Final} : SnapshotHook(t, ph, ms, rt)
             \/ PersistTurn(t, ms, rt)
      PROVE  Filed'
  BY <1>2, <1>3 DEF SnapshotHook, PersistTurn, BeginSave, tables
<1>4. CASE SaveBlock
  BY <1>2, <1>4 DEF SaveBlock, tables
<1>5. CASE AbortSave
  BY <1>2, <1>5 DEF AbortSave, tables
<1>6. CASE Opening
  <2>1. CASE AddCreated
    BY <1>2, <2>1 DEF AddCreated, tables
  <2>2. CASE CopyCreated
    BY <1>2, <2>2 DEF CopyCreated
  <2>3. ASSUME NEW ms \in 1..MaxMs, AddColumns(ms)
        PROVE  Filed'
    BY <1>2, <2>3 DEF AddColumns
  <2>4. CASE SelectBackfill
    BY <1>2, <2>4 DEF SelectBackfill, tables
  <2>5. ASSUME NEW u \in pending, BackfillRow(u)
        PROVE  Filed'
    BY <1>2, <2>5 DEF BackfillRow
  <2>6. CASE Opened
    BY <1>2, <2>6 DEF Opened, tables
  <2> QED
    BY <1>6, <2>1, <2>2, <2>3, <2>4, <2>5, <2>6 DEF Opening
<1>7. CASE Listing
  BY <1>2, <1>7 DEF Listing, ListStart, ListNext, ListDone, ListEnd, tables
<1>8. CASE Crash
  <2>1. past'.saved = past.saved
    BY <1>8 DEF Crash, TypeOK
  <2> QED
    BY <1>8, <2>1, FiledFrame DEF Crash, tables
<1>9. CASE UNCHANGED vars
  BY <1>2, <1>9 DEF vars
<1> QED
  BY <1>1, <1>3, <1>4, <1>5, <1>6, <1>7, <1>8, <1>9 DEF Next, Saving

-----------------------------------------------------------------------------
(* The transaction                                                         *)

\* What an upsert makes of a row.
LEMMA upsertTurnStep ==
  ASSUME NEW row \in TurnRow \cup {NoRow}, NEW meta \in Metadata, NEW ms \in 1..MaxMs,
         NEW rt \in Keys \cup {NoKey}, NEW inf \in Keys \cup {NoKey},
         NEW new,
         new = upsertTurn(row, meta, ms, First(rt, runtimeKeyFromTurnMetadata(meta)),
                          First(inf, inferenceIDFromTurnMetadata(meta)))
  PROVE  /\ new # NoRow /\ HasKeys(new)
         /\ \A k \in Snapshots : k.ms = ms => Encloses(new, k, {})
         /\ \A k \in Snapshots : \A late : Encloses(row, k, late) => Encloses(new, k, late)
         /\ row # NoRow => KeepsKeys(row, new)
         /\ row # NoRow /\ KeepsDates(row) => KeepsDates(new)
         /\ row = NoRow => KeepsDates(new)
<1> DEFINE rt1 == First(rt, runtimeKeyFromTurnMetadata(meta))
           inf1 == First(inf, inferenceIDFromTurnMetadata(meta))
<1>1. rt1 \in Keys \cup {NoKey} /\ inf1 \in Keys \cup {NoKey}
  BY Defaults DEF First
<1>2. /\ rt1 = NoKey => runtimeKeyFromTurnMetadata(meta) = NoKey
      /\ inf1 = NoKey => inferenceIDFromTurnMetadata(meta) = NoKey
  BY DEF First
<1>3. new \in TurnRow
  BY <1>1, upsertTurnType
<1>4. new # NoRow
  BY <1>3, NullValues
<1>5. MaxMs \in Nat /\ \A k \in Snapshots : k.ms \in 1..MaxMs
  BY TurnStoreAssumption DEF Snapshots
<1> HIDE DEF rt1, inf1
<1>6. CASE row = NoRow
  <2>1. new = [created |-> ms, updated |-> ms, meta |-> meta, rt |-> rt1, inf |-> inf1, legacy |-> 0]
    BY <1>6 DEF upsertTurn, rt1, inf1
  <2>2. /\ new.created = ms /\ new.updated = ms /\ new.meta = meta
        /\ new.rt = rt1 /\ new.inf = inf1 /\ new.legacy = 0
    BY <2>1
  <2>3. KeepsDates(new) /\ \A k \in Snapshots : k.ms = ms => Encloses(new, k, {})
    BY <1>4, <1>5, <2>2 DEF Encloses, KeepsDates
  <2>4. HasKeys(new)
    BY <1>2, <2>2 DEF HasKeys
  <2>5. \A k \in Snapshots : \A late : ~Encloses(row, k, late)
    BY <1>6 DEF Encloses
  <2> QED
    BY <1>4, <1>6, <2>3, <2>4, <2>5
<1>7. CASE row # NoRow
  <2>1. new = [created |-> Lower(row.created, ms), updated |-> Higher(row.updated, ms),
               meta |-> meta, rt |-> First(rt1, row.rt), inf |-> First(inf1, row.inf),
               legacy |-> row.legacy]
    BY <1>7 DEF upsertTurn, rt1, inf1
  <2>2. /\ new.created = Lower(row.created, ms) /\ new.updated = Higher(row.updated, ms)
        /\ new.meta = meta /\ new.rt = First(rt1, row.rt) /\ new.inf = First(inf1, row.inf)
        /\ new.legacy = row.legacy
    BY <2>1
  <2>3. row.created \in 0..MaxMs /\ row.updated \in 0..MaxMs /\ row.legacy \in 0..MaxMs
    BY <1>7 DEF TurnRow
  <2>4. ASSUME NEW k \in Snapshots
        PROVE  /\ k.ms = ms => Encloses(new, k, {})
               /\ \A late : Encloses(row, k, late) => Encloses(new, k, late)
    <3>1. /\ new.created <= ms /\ ms <= new.updated
          /\ new.created <= row.created /\ row.updated <= new.updated
          /\ new.created \in Nat /\ new.updated \in Nat /\ k.ms \in Nat
      BY <1>5, <2>2, <2>3 DEF Lower, Higher
    <3> QED
      BY <1>4, <2>3, <1>5, <3>1 DEF Encloses
  <2>5. KeepsDates(row) => KeepsDates(new)
    BY <1>5, <2>2, <2>3 DEF KeepsDates, Lower, Higher
  <2>6. KeepsKeys(row, new)
    BY <1>4, <2>2 DEF KeepsKeys, First
  <2>7. HasKeys(new)
    BY <1>2, <2>2 DEF HasKeys, First
  <2> QED
    BY <1>4, <1>7, <2>4, <2>5, <2>6, <2>7
<1> QED
  BY <1>6, <1>7

LEMMA OpenRowsComplete ==
  ASSUME Dating, Keying, phase = "open"
  PROVE  \A t \in Rows : Complete(turns[t])
BY DEF Dating, Keying, KeysFollowMetadata, Unmigrated, Migrated, Complete, KeepsDates

LEMMA UnderwayAfterBegin ==
  ASSUME IInv, NEW t \in Payloads, NEW turn \in TurnIds, NEW ph \in Phases, NEW ms \in 1..MaxMs,
         NEW rt \in Keys \cup {NoKey}, NEW inf \in Keys \cup {NoKey},
         BeginSave(t, turn, ph, ms, rt, inf)
  PROVE  Underway'
<1> DEFINE key == [turn |-> turn, phase |-> ph, ms |-> ms]
           row == turns[turn]
           new == upsertTurn(row, t.meta, ms, First(rt, runtimeKeyFromTurnMetadata(t.meta)),
                             First(inf, inferenceIDFromTurnMetadata(t.meta)))
<1>1. tx' = [key |-> key, t |-> t, next |-> 0, turns |-> [turns EXCEPT ![turn] = new],
             blocks |-> blocks, members |-> Cleared(members, key)]
  BY DEF BeginSave
<1>2. /\ tx'.key = key /\ tx'.t = t /\ tx'.next = 0 /\ tx'.blocks = blocks
      /\ tx'.turns = [turns EXCEPT ![turn] = new] /\ tx'.members = Cleared(members, key)
  BY <1>1
<1>3. phase = "open" /\ UNCHANGED <<turns, blocks, members, phase, past>>
  BY DEF BeginSave, tables
<1>4. TypeOK /\ Filed /\ Dating /\ Keying
  BY DEF IInv
<1>5. turns \in [TurnIds -> TurnRow \cup {NoRow}] /\ row \in TurnRow \cup {NoRow}
      /\ members \subseteq MemberRow
  BY <1>4 DEF TypeOK, TurnsTable
<1>6. t.meta \in Metadata
  BY PayloadType
<1>7. /\ new # NoRow /\ HasKeys(new)
      /\ \A k \in Snapshots : k.ms = ms => Encloses(new, k, {})
      /\ \A k \in Snapshots : \A late : Encloses(row, k, late) => Encloses(new, k, late)
      /\ row # NoRow => KeepsKeys(row, new)
      /\ row # NoRow /\ KeepsDates(row) => KeepsDates(new)
      /\ row = NoRow => KeepsDates(new)
  BY <1>5, <1>6, upsertTurnStep
<1>8. \A u \in Rows : Complete(turns[u])
  BY <1>3, <1>4, OpenRowsComplete
<1> HIDE DEF new
<1>9. Cleared(members, key) \subseteq members
      /\ \A m \in Cleared(members, key) : m.snap # key
  BY DEF Cleared, MembersOf
<1>10. IsFiniteSet(tx'.members)
  BY <1>2, <1>4, <1>9, FS_Subset DEF Filed
<1>11. MembersOf(tx'.members, tx'.key) = RowsOf(tx'.key, StoredBlocks(tx'.t, tx'.key.turn), tx'.next)
  <2>1. MembersOf(tx'.members, tx'.key) = {}
    BY <1>2, <1>9 DEF MembersOf
  <2>2. RowsOf(tx'.key, StoredBlocks(tx'.t, tx'.key.turn), tx'.next) = {}
    BY <1>2 DEF RowsOf
  <2> QED
    BY <2>1, <2>2
<1>12. \A k \in Snapshots \ {tx'.key} : MembersOf(tx'.members, k) = MembersOf(members', k)
  <2>1. \A k \in Snapshots \ {key} : MembersOf(Cleared(members, key), k) = MembersOf(members, k)
    BY DEF MembersOf, Cleared
  <2> QED
    BY <1>2, <1>3, <2>1
<1>13. Dates(tx'.turns, tx'.blocks, tx'.members, past'.late \ {tx'.key})
  <2> DEFINE late == past.late \ {key}
  <2>1. ASSUME NEW m \in Cleared(members, key)
        PROVE  Encloses(tx'.turns[m.snap.turn], m.snap, late) /\ blocks[m.block] \in 1..m.snap.ms
    <3>1. m \in members /\ m \in MemberRow /\ m.snap # key
      BY <1>5, <1>9
    <3>2. m.snap.turn \in TurnIds /\ m.snap \in Snapshots
      BY <3>1 DEF MemberRow, Snapshots
    <3>3. Encloses(turns[m.snap.turn], m.snap, late) /\ blocks[m.block] \in 1..m.snap.ms
      BY <1>4, <3>1 DEF Dating, DatesEnclose, Dates, Encloses
    <3> HIDE DEF late
    <3>4. CASE m.snap.turn = turn
      <4>1. tx'.turns[m.snap.turn] = new
        BY <1>2, <1>5, <3>4
      <4> QED
        BY <1>7, <3>2, <3>3, <3>4, <4>1
    <3>5. CASE m.snap.turn # turn
      <4>1. tx'.turns[m.snap.turn] = turns[m.snap.turn]
        BY <1>2, <1>5, <3>2, <3>5
      <4> QED
        BY <3>3, <4>1
    <3> QED
      BY <3>4, <3>5
  <2> QED
    BY <1>2, <1>3, <2>1 DEF Dates
<1>14. tx'.turns[turn] = new /\ \A u \in TurnIds \ {turn} : tx'.turns[u] = turns[u]
  BY <1>2, <1>5
<1>15. Encloses(tx'.turns[tx'.key.turn], tx'.key, {})
  <2>1. key \in Snapshots /\ key.ms = ms /\ key.turn = turn
    BY DEF Snapshots
  <2> QED
    BY <1>2, <1>7, <1>14, <2>1
<1>16. ASSUME NEW u \in TurnIds, tx'.turns[u] # NoRow
       PROVE  Complete(tx'.turns[u])
  <2>1. CASE u = turn
    <3>1. row # NoRow => KeepsDates(row)
      BY <1>8 DEF Complete, Rows
    <3> QED
      BY <1>7, <1>14, <2>1, <3>1 DEF Complete
  <2>2. CASE u # turn
    BY <1>8, <1>14, <1>16, <2>2 DEF Rows
  <2> QED
    BY <2>1, <2>2
<1>17. ASSUME NEW u \in Rows
       PROVE  KeepsKeys(turns[u], tx'.turns[u])
  <2>1. u \in TurnIds /\ turns[u] # NoRow
    BY DEF Rows
  <2>2. CASE u = turn
    BY <1>7, <1>14, <2>1, <2>2
  <2>3. CASE u # turn
    BY <1>14, <2>1, <2>3 DEF KeepsKeys
  <2> QED
    BY <2>2, <2>3
<1>18. \A u \in TurnIds : (tx.turns[u] # NoRow => Complete(tx.turns[u]))'
  BY <1>3, <1>16 DEF Complete, HasKeys, KeepsDates
<1>19. \A u \in Rows' : KeepsKeys(turns'[u], tx'.turns[u])
  BY <1>3, <1>17 DEF Rows
<1> QED
  BY <1>3, <1>10, <1>11, <1>12, <1>13, <1>15, <1>18, <1>19 DEF Underway

LEMMA UnderwayAfterSaveBlock ==
  ASSUME IInv, SaveBlock
  PROVE  Underway'
<1>1. TypeOK /\ Underway /\ tx # NoTx
  BY DEF IInv, SaveBlock
<1>2. /\ tx \in Transaction /\ tx' \in Transaction
      /\ tx.next \in 0..MaxBlocks
      /\ NextBlock \in BlockKeys /\ NextMember \in MemberRow
      /\ NextBlock = StoredBlocks(tx.t, tx.key.turn)[tx.next + 1]
      /\ NextSeen \in 1..tx.key.ms
      /\ tx.blocks[NextBlock] # 0 => NextSeen <= tx.blocks[NextBlock]
      /\ tx'.key = tx.key /\ tx'.t = tx.t /\ tx'.next = tx.next + 1 /\ tx'.turns = tx.turns
      /\ tx'.blocks = [tx.blocks EXCEPT ![NextBlock] = NextSeen]
      /\ tx'.members = tx.members \cup {NextMember}
  BY <1>1, SaveBlockStep
<1>3. /\ tx.key \in Snapshots /\ tx.key.ms \in 1..MaxMs /\ tx.members \subseteq MemberRow
      /\ tx.blocks \in [BlockKeys -> 0..MaxMs] /\ MaxMs \in Nat
  BY <1>2, TurnStoreAssumption DEF Transaction, Snapshots
<1>4. UNCHANGED <<turns, members, phase, past>>
  BY DEF SaveBlock, tables
<1>5. /\ phase = "open" /\ IsFiniteSet(tx.members)
      /\ MembersOf(tx.members, tx.key) = RowsOf(tx.key, StoredBlocks(tx.t, tx.key.turn), tx.next)
      /\ \A key \in Snapshots \ {tx.key} : MembersOf(tx.members, key) = MembersOf(members, key)
      /\ Dates(tx.turns, tx.blocks, tx.members, past.late \ {tx.key})
      /\ Encloses(tx.turns[tx.key.turn], tx.key, {})
      /\ \A t \in TurnIds : tx.turns[t] # NoRow => Complete(tx.turns[t])
      /\ \A t \in Rows : KeepsKeys(turns[t], tx.turns[t])
  BY <1>1 DEF Underway
<1>6. NextMember.snap = tx.key /\ NextMember.ordinal = tx.next /\ NextMember.block = NextBlock
  BY DEF NextMember
<1>7. IsFiniteSet(tx'.members)
  BY <1>2, <1>5, FS_AddElement
<1>8. MembersOf(tx'.members, tx'.key) = RowsOf(tx'.key, StoredBlocks(tx'.t, tx'.key.turn), tx'.next)
  <2>1. MembersOf(tx.members \cup {NextMember}, tx.key) = MembersOf(tx.members, tx.key) \cup {NextMember}
    BY <1>6 DEF MembersOf
  <2>2. tx.next \in Nat
    BY <1>2
  <2>3. NextMember = [snap |-> tx.key, ordinal |-> tx.next,
                      block |-> StoredBlocks(tx.t, tx.key.turn)[tx.next + 1]]
    BY <1>2 DEF NextMember
  <2>4. RowsOf(tx.key, StoredBlocks(tx.t, tx.key.turn), tx.next + 1) =
          RowsOf(tx.key, StoredBlocks(tx.t, tx.key.turn), tx.next) \cup
            {[snap |-> tx.key, ordinal |-> tx.next,
              block |-> StoredBlocks(tx.t, tx.key.turn)[tx.next + 1]]}
    BY <2>2, RowsGrow
  <2>5. RowsOf(tx.key, StoredBlocks(tx.t, tx.key.turn), tx.next + 1) =
          RowsOf(tx.key, StoredBlocks(tx.t, tx.key.turn), tx.next) \cup {NextMember}
    BY <2>3, <2>4
  <2> QED
    BY <1>2, <1>5, <2>1, <2>5
<1>9. \A key \in Snapshots \ {tx'.key} : MembersOf(tx'.members, key) = MembersOf(members', key)
  <2>1. \A key \in Snapshots \ {tx.key} :
          MembersOf(tx.members \cup {NextMember}, key) = MembersOf(tx.members, key)
    BY <1>6 DEF MembersOf
  <2> QED
    BY <1>2, <1>4, <1>5, <2>1
<1>10. Dates(tx'.turns, tx'.blocks, tx'.members, past'.late \ {tx'.key})
  <2> DEFINE late == past.late \ {tx.key}
  <2>1. ASSUME NEW m \in tx.members
        PROVE  Encloses(tx.turns[m.snap.turn], m.snap, late) /\ tx'.blocks[m.block] \in 1..m.snap.ms
    <3>1. Encloses(tx.turns[m.snap.turn], m.snap, late) /\ tx.blocks[m.block] \in 1..m.snap.ms
      BY <1>5 DEF Dates
    <3>2. m.block \in BlockKeys /\ m.snap.ms \in Nat
      BY <1>3 DEF MemberRow, Snapshots
    <3>3. CASE m.block = NextBlock
      <4>1. tx'.blocks[m.block] = NextSeen
        BY <1>2, <1>3, <3>3
      <4>2. tx.blocks[NextBlock] # 0 /\ tx.blocks[NextBlock] <= m.snap.ms /\ tx.blocks[NextBlock] \in Nat
        BY <3>1, <3>2, <3>3
      <4>3. NextSeen \in Nat /\ 1 <= NextSeen /\ NextSeen <= tx.blocks[NextBlock]
        BY <1>2, <1>3, <4>2
      <4> QED
        BY <3>1, <3>2, <4>1, <4>2, <4>3
    <3>4. CASE m.block # NextBlock
      <4>1. tx'.blocks[m.block] = tx.blocks[m.block]
        BY <1>2, <1>3, <3>2, <3>4
      <4> QED
        BY <3>1, <4>1
    <3> QED
      BY <3>3, <3>4
  <2>2. tx'.blocks[NextMember.block] \in 1..NextMember.snap.ms
    BY <1>2, <1>3, <1>6
  <2>3. Encloses(tx.turns[NextMember.snap.turn], NextMember.snap, late)
    BY <1>5, <1>6 DEF Encloses
  <2> QED
    BY <1>2, <1>4, <2>1, <2>2, <2>3 DEF Dates
<1>11. \A t \in TurnIds : (tx.turns[t] # NoRow => Complete(tx.turns[t]))'
  BY <1>2, <1>4, <1>5 DEF Complete, HasKeys, KeepsDates
<1>12. \A t \in Rows' : KeepsKeys(turns'[t], tx'.turns[t])
  BY <1>2, <1>4, <1>5 DEF Rows
<1>13. Encloses(tx'.turns[tx'.key.turn], tx'.key, {})
  BY <1>2, <1>5
<1> QED
  BY <1>4, <1>5, <1>7, <1>8, <1>9, <1>10, <1>11, <1>12, <1>13 DEF Underway

LEMMA UnderwayNext ==
  ASSUME IInv, [Next]_vars
  PROVE  Underway'
<1>1. ASSUME tx' = NoTx
      PROVE  Underway'
  BY <1>1 DEF Underway
<1>2. ASSUME UNCHANGED <<turns, members, tx, phase, past>>
      PROVE  Underway'
  BY <1>2 DEF IInv, Underway, Complete, HasKeys, KeepsDates, Rows
<1>3. ASSUME NEW t \in Payloads, NEW ms \in 1..MaxMs, NEW rt \in Keys \cup {NoKey},
             \/ \E ph \in Phases \ {Final} : SnapshotHook(t, ph, ms, rt)
             \/ PersistTurn(t, ms, rt)
      PROVE  Underway'
  <2>1. PICK turn, ph, inf : SavesAs(t, turn, ph, ms, rt, inf)
    BY <1>3, WritersBeginSave
  <2> QED
    BY <2>1, UnderwayAfterBegin DEF SavesAs
<1>4. CASE SaveBlock
  BY <1>4, UnderwayAfterSaveBlock
<1>5. CASE CommitSave \/ AbortSave \/ Crash
  BY <1>1, <1>5 DEF CommitSave, AbortSave, Crash
<1>6. CASE Opening
  <2>1. phase # "open" /\ tx' = tx
    BY <1>6 DEF Opening, AddCreated, CopyCreated, AddColumns, SelectBackfill, BackfillRow, Opened
  <2>2. tx = NoTx
    BY <2>1 DEF IInv, Underway
  <2> QED
    BY <1>1, <2>1, <2>2
<1>7. CASE Listing
  BY <1>2, <1>7 DEF Listing, ListStart, ListNext, ListDone, ListEnd, tables
<1>8. CASE UNCHANGED vars
  BY <1>2, <1>8 DEF vars
<1> QED
  BY <1>3, <1>4, <1>5, <1>6, <1>7, <1>8 DEF Next, Saving

-----------------------------------------------------------------------------
(* The dates                                                               *)

LEMMA DatingFrame ==
  ASSUME Dating, UNCHANGED <<turns, blocks, members, cols, phase, past>>
  PROVE  Dating'
BY DEF Dating, DatesEnclose, Dates, Encloses, Unmigrated, Migrated, Rows

LEMMA DatingAfterCommit ==
  ASSUME TypeOK, Underway, Dating, CommitSave
  PROVE  Dating'
<1>1. /\ phase = "open" /\ Dates(tx.turns, tx.blocks, tx.members, past.late \ {tx.key})
      /\ \A t \in TurnIds : tx.turns[t] # NoRow => Complete(tx.turns[t])
  BY DEF Underway, CommitSave
<1>2. UNCHANGED <<cols, phase>> /\ turns' = tx.turns /\ blocks' = tx.blocks /\ members' = tx.members
  BY DEF CommitSave
<1>3. past'.interrupted = past.interrupted /\ past'.late = past.late \ {tx.key}
  BY CommitSaveStep
<1>4. ~Unmigrated'
  BY <1>1, <1>2 DEF Unmigrated, Dating
<1>5. DatesEnclose'
  BY <1>1, <1>2, <1>3 DEF DatesEnclose
<1>6. ASSUME NEW t \in Rows'
      PROVE  KeepsDates(turns'[t])
  BY <1>1, <1>2 DEF Rows, Complete
<1>7. \A t \in Rows' : /\ turns'[t].created = 0 => past'.interrupted
                       /\ turns'[t].legacy > 0 => turns'[t].created <= turns'[t].legacy
                       /\ turns'[t].updated > 0
  BY <1>3, <1>6 DEF KeepsDates
<1>8. "created" \in cols'
  BY <1>1, <1>2 DEF Dating
<1> QED
  BY <1>4, <1>5, <1>7, <1>8 DEF Dating

LEMMA DatingAfterCopy ==
  ASSUME TypeOK, Dating, CopyCreated
  PROVE  Dating'
<1>1. phase = "copy" /\ phase' = "columns" /\ UNCHANGED <<blocks, members, cols, past>>
  BY DEF CopyCreated
<1>2. /\ "created" \in cols /\ \A m \in members : turns[m.snap.turn].legacy <= m.snap.ms
      /\ \A t \in Rows : turns[t].created = 0 /\ turns[t].legacy > 0
  BY <1>1 DEF Dating, Unmigrated
<1>3. ASSUME NEW t \in TurnIds, t \in Rows \/ t \in Rows'
      PROVE  /\ turns'[t] # NoRow
             /\ turns'[t].created > 0 /\ turns'[t].created <= turns'[t].legacy
             /\ turns'[t].created = turns[t].legacy /\ turns'[t].updated = turns[t].updated
  <2>1. t \notin Rows => turns'[t] # NoRow
    BY <1>3 DEF Rows
  <2>2. turns'[t] = IF t \in Rows /\ turns[t].created = 0
                      THEN [turns[t] EXCEPT !.created = turns[t].legacy] ELSE turns[t]
    BY DEF CopyCreated
  <2>3. t \in Rows
    BY <2>1, <2>2 DEF Rows
  <2>4. turns[t] \in TurnRow /\ turns[t].legacy > 0 /\ turns[t].created = 0
        /\ [turns[t] EXCEPT !.created = turns[t].legacy] \in TurnRow
    BY <1>2, <2>3, RowUpdates
  <2>5. /\ turns'[t].created = turns[t].legacy /\ turns'[t].legacy = turns[t].legacy
        /\ turns'[t].updated = turns[t].updated /\ turns'[t] # NoRow
    BY <2>2, <2>3, <2>4, NullValues DEF TurnRow
  <2>6. turns[t].legacy \in Nat
    BY <2>4, TurnStoreAssumption DEF TurnRow
  <2> QED
    BY <2>4, <2>5, <2>6
<1>4. DatesEnclose'
  <2>1. ASSUME NEW m \in members
        PROVE  Encloses(turns'[m.snap.turn], m.snap, past.late) /\ blocks'[m.block] \in 1..m.snap.ms
    <3>1. Encloses(turns[m.snap.turn], m.snap, past.late) /\ blocks[m.block] \in 1..m.snap.ms
      BY DEF Dating, DatesEnclose, Dates
    <3>2. m.snap.turn \in TurnIds
      BY DEF TypeOK, MemberRow, Snapshots
    <3>3. m.snap.turn \in Rows
      BY <3>1, <3>2 DEF Encloses, Rows
    <3> QED
      BY <1>1, <1>2, <1>3, <3>1, <3>2, <3>3 DEF Encloses
  <2> QED
    BY <1>1, <2>1 DEF DatesEnclose, Dates
<1>5. ~Unmigrated' /\ ~Migrated' /\ "created" \in cols'
  BY <1>1, <1>2 DEF Unmigrated, Migrated
<1>6. \A t \in Rows' : turns'[t].created > 0 /\ turns'[t].created <= turns'[t].legacy
  BY <1>3 DEF Rows
<1>7. \A t \in Rows' : turns'[t].created # 0
  BY <1>6
<1> QED
  BY <1>4, <1>5, <1>6, <1>7 DEF Dating

LEMMA DatingAfterColumns ==
  ASSUME TypeOK, Dating, NEW ms \in 1..MaxMs, AddColumns(ms)
  PROVE  Dating'
<1>1. /\ phase = "columns" /\ phase' = "select" /\ cols' = cols \cup {"updated", "keys"}
      /\ UNCHANGED <<blocks, members, past>>
  BY DEF AddColumns
<1>2. "created" \in cols /\ ~Unmigrated /\ "created" \in cols' /\ ~Unmigrated'
  BY <1>1 DEF Dating, Unmigrated
<1>3. ASSUME NEW t \in TurnIds
      PROVE  /\ turns[t] = NoRow => turns'[t] = NoRow
             /\ turns[t] # NoRow =>
                  /\ turns'[t] # NoRow
                  /\ turns'[t].created = turns[t].created /\ turns'[t].legacy = turns[t].legacy
                  /\ turns'[t].updated > 0
                  /\ turns[t].updated # 0 => turns'[t] = turns[t]
  <2>1. turns'[t] = IF t \in Rows /\ turns[t].updated = 0
                      THEN [turns[t] EXCEPT !.updated = Dated(turns[t].created, ms)]
                      ELSE turns[t]
    BY DEF AddColumns
  <2>2. CASE turns[t] = NoRow
    BY <2>1, <2>2 DEF Rows
  <2>3. CASE turns[t] # NoRow
    <3>1. t \in Rows
      BY <2>3 DEF Rows
    <3>2. turns[t] \in TurnRow /\ [turns[t] EXCEPT !.updated = Dated(turns[t].created, ms)] \in TurnRow
      BY <3>1, RowUpdates
    <3>3. turns'[t] \in TurnRow
      BY <2>1, <3>2
    <3>4. turns'[t] # NoRow
      BY <3>3, NullValues
    <3>5. turns[t].created \in Nat /\ turns[t].updated \in Nat
      BY <3>2, TurnStoreAssumption DEF TurnRow
    <3>6. Dated(turns[t].created, ms) > 0
      BY <3>5 DEF Dated
    <3>7. CASE turns[t].updated = 0
      <4>1. turns'[t] = [turns[t] EXCEPT !.updated = Dated(turns[t].created, ms)]
        BY <2>1, <3>1, <3>7
      <4>2. /\ turns'[t].created = turns[t].created /\ turns'[t].legacy = turns[t].legacy
            /\ turns'[t].updated = Dated(turns[t].created, ms)
        BY <3>2, <4>1 DEF TurnRow
      <4> QED
        BY <2>3, <3>4, <3>6, <3>7, <4>2
    <3>8. CASE turns[t].updated # 0
      BY <2>1, <2>3, <3>4, <3>5, <3>8
    <3> QED
      BY <3>7, <3>8
  <2> QED
    BY <2>2, <2>3
<1>4. DatesEnclose'
  <2>1. ASSUME NEW m \in members
        PROVE  Encloses(turns'[m.snap.turn], m.snap, past.late) /\ blocks'[m.block] \in 1..m.snap.ms
    <3>1. Encloses(turns[m.snap.turn], m.snap, past.late) /\ blocks[m.block] \in 1..m.snap.ms
      BY DEF Dating, DatesEnclose, Dates
    <3>2. m.snap.turn \in TurnIds /\ m.snap.ms \in 1..MaxMs
      BY DEF TypeOK, MemberRow, Snapshots
    <3>3. turns[m.snap.turn] # NoRow
      BY <3>1 DEF Encloses
    <3>4. CASE m.snap \in past.late
      BY <1>1, <1>3, <3>1, <3>2, <3>3, <3>4 DEF Encloses
    <3>5. CASE m.snap \notin past.late
      <4>1. turns[m.snap.turn].updated # 0
        BY <3>1, <3>2, <3>5 DEF Encloses
      <4>2. turns'[m.snap.turn] = turns[m.snap.turn]
        BY <1>3, <3>2, <3>3, <4>1
      <4> QED
        BY <1>1, <3>1, <4>2
    <3> QED
      BY <3>4, <3>5
  <2> QED
    BY <1>1, <2>1 DEF DatesEnclose, Dates
<1>5. ASSUME NEW t \in Rows'
      PROVE  /\ turns'[t].created = 0 => past'.interrupted
             /\ turns'[t].legacy > 0 => turns'[t].created <= turns'[t].legacy
             /\ turns'[t].updated > 0
  <2>1. t \in TurnIds /\ turns'[t] # NoRow
    BY DEF Rows
  <2>2. turns[t] # NoRow
    BY <1>3, <2>1
  <2>3. t \in Rows
    BY <2>1, <2>2 DEF Rows
  <2>4. /\ turns[t].created = 0 => past.interrupted
        /\ turns[t].legacy > 0 => turns[t].created <= turns[t].legacy
    BY <1>2, <2>3 DEF Dating
  <2> QED
    BY <1>1, <1>3, <2>1, <2>2, <2>4
<1> QED
  BY <1>2, <1>4, <1>5 DEF Dating

LEMMA DatingAfterBackfill ==
  ASSUME TypeOK, Dating, NEW u \in pending, BackfillRow(u)
  PROVE  Dating'
<1>1. phase = "backfill" /\ UNCHANGED <<blocks, members, cols, phase, past>>
  BY DEF BackfillRow
<1>2. "created" \in cols /\ ~Unmigrated /\ ~Unmigrated' /\ Migrated
  BY <1>1 DEF Dating, Unmigrated, Migrated
<1>3. ASSUME NEW t \in TurnIds
      PROVE  /\ turns'[t] = NoRow <=> turns[t] = NoRow
             /\ turns[t] # NoRow =>
                  /\ turns'[t].created = turns[t].created /\ turns'[t].legacy = turns[t].legacy
                  /\ turns'[t].updated = turns[t].updated
  <2>1. /\ u.turn \in TurnIds /\ u.rt \in Keys \cup {NoKey} /\ u.inf \in Keys \cup {NoKey}
        /\ turns' = [turns EXCEPT ![u.turn] =
                       [[turns[u.turn] EXCEPT !.rt = u.rt] EXCEPT !.inf = u.inf]]
    BY BackfillRowStep
  <2>2. turns \in [TurnIds -> TurnRow \cup {NoRow}]
    BY DEF TypeOK, TurnsTable
  <2>3. CASE t # u.turn
    BY <2>1, <2>2, <2>3
  <2>4. CASE t = u.turn /\ turns[t] = NoRow
    <3>1. [[NoRow EXCEPT !.rt = u.rt] EXCEPT !.inf = u.inf] = NoRow
      BY DEF NoRow
    <3> QED
      BY <2>1, <2>2, <2>4, <3>1
  <2>5. CASE t = u.turn /\ turns[t] # NoRow
    <3>1. t \in Rows
      BY <2>5 DEF Rows
    <3>2. turns[t] \in TurnRow /\ [[turns[t] EXCEPT !.rt = u.rt] EXCEPT !.inf = u.inf] \in TurnRow
      BY <2>1, <3>1, RowUpdates
    <3>3. turns'[t] = [[turns[t] EXCEPT !.rt = u.rt] EXCEPT !.inf = u.inf]
      BY <2>1, <2>2, <2>5
    <3>4. turns'[t] # NoRow
      BY <3>2, <3>3, NullValues
    <3> QED
      BY <2>5, <3>2, <3>3, <3>4 DEF TurnRow
  <2> QED
    BY <2>3, <2>4, <2>5
<1>4. DatesEnclose'
  <2>1. ASSUME NEW m \in members
        PROVE  Encloses(turns'[m.snap.turn], m.snap, past.late) /\ blocks'[m.block] \in 1..m.snap.ms
    <3>1. Encloses(turns[m.snap.turn], m.snap, past.late) /\ blocks[m.block] \in 1..m.snap.ms
      BY DEF Dating, DatesEnclose, Dates
    <3>2. m.snap.turn \in TurnIds
      BY DEF TypeOK, MemberRow, Snapshots
    <3> QED
      BY <1>1, <1>3, <3>1, <3>2 DEF Encloses
  <2> QED
    BY <1>1, <2>1 DEF DatesEnclose, Dates
<1>5. ASSUME NEW t \in Rows'
      PROVE  /\ turns'[t].created = 0 => past'.interrupted
             /\ turns'[t].legacy > 0 => turns'[t].created <= turns'[t].legacy
             /\ turns'[t].updated > 0
  <2>1. t \in TurnIds /\ turns'[t] # NoRow
    BY DEF Rows
  <2>2. turns[t] # NoRow /\ t \in Rows
    BY <1>3, <2>1 DEF Rows
  <2>3. /\ turns[t].created = 0 => past.interrupted
        /\ turns[t].legacy > 0 => turns[t].created <= turns[t].legacy
        /\ turns[t].updated > 0
    BY <1>2, <2>2 DEF Dating
  <2> QED
    BY <1>1, <1>3, <2>1, <2>2, <2>3
<1>6. "created" \in cols'
  BY <1>1, <1>2
<1> QED
  BY <1>2, <1>4, <1>5, <1>6 DEF Dating

LEMMA DatingAfterCrash ==
  ASSUME TypeOK, Dating, Crash
  PROVE  Dating'
<1>1. phase' = "down" /\ UNCHANGED <<turns, blocks, members, cols>>
  BY DEF Crash, tables
<1>2. past'.interrupted = (past.interrupted \/ phase = "copy") /\ past'.late = past.late
  BY DEF Crash, TypeOK
<1>3. Unmigrated' => Unmigrated
  BY <1>1 DEF Unmigrated
<1>4. DatesEnclose'
  BY <1>1, <1>2 DEF Dating, DatesEnclose
<1>6. ASSUME NEW t \in Rows
      PROVE  /\ ~Unmigrated' /\ turns[t].created = 0 => past'.interrupted
             /\ turns[t].legacy > 0 => turns[t].created <= turns[t].legacy
  <2>1. ~Unmigrated' /\ turns[t].created = 0 => past'.interrupted
    <3>1. CASE ~Unmigrated
      BY <1>2, <3>1 DEF Dating
    <3>2. CASE Unmigrated /\ ~Unmigrated'
      <4>1. phase = "copy"
        BY <1>1, <3>2 DEF Unmigrated
      <4> QED
        BY <1>2, <4>1
    <3> QED
      BY <3>1, <3>2
  <2>2. turns[t].legacy > 0 => turns[t].created <= turns[t].legacy
    BY DEF Dating
  <2> QED
    BY <2>1, <2>2
<1>7. ~Migrated' /\ Rows' = Rows
  BY <1>1 DEF Migrated, Rows
<1>8. Unmigrated' => /\ \A m \in members' : turns'[m.snap.turn].legacy <= m.snap.ms
                     /\ \A t \in Rows' : turns'[t].created = 0 /\ turns'[t].legacy > 0
  BY <1>1, <1>3, <1>7 DEF Dating
<1> QED
  BY <1>1, <1>4, <1>6, <1>7, <1>8 DEF Dating

LEMMA DatingNext ==
  ASSUME TypeOK, Underway, Dating, [Next]_vars
  PROVE  Dating'
<1>1. ASSUME UNCHANGED <<turns, blocks, members, cols, phase, past>>
      PROVE  Dating'
  BY <1>1, DatingFrame
<1>2. ASSUME NEW t \in Payloads, NEW ms \in 1..MaxMs, NEW rt \in Keys \cup {NoKey},
             \/ \E ph \in Phases \ {Final} : SnapshotHook(t, ph, ms, rt)
             \/ PersistTurn(t, ms, rt)
      PROVE  Dating'
  BY <1>1, <1>2 DEF SnapshotHook, PersistTurn, BeginSave, tables
<1>3. CASE SaveBlock \/ AbortSave
  BY <1>1, <1>3 DEF SaveBlock, AbortSave, tables
<1>4. CASE CommitSave
  BY <1>4, DatingAfterCommit
<1>5. CASE AddCreated
  <2>1. phase = "down" /\ cols' = cols \cup {"created"} /\ "created" \in cols'
        /\ phase' = (IF "created" \in cols THEN "columns" ELSE "copy")
        /\ UNCHANGED <<turns, blocks, members, past>>
    BY <1>5 DEF AddCreated, tables
  <2>2. Unmigrated' <=> Unmigrated
    BY <2>1 DEF Unmigrated
  <2>3. ~Migrated'
    BY <2>1 DEF Migrated
  <2> QED
    BY <2>1, <2>2, <2>3 DEF Dating, DatesEnclose, Rows
<1>6. CASE CopyCreated
  BY <1>6, DatingAfterCopy
<1>7. ASSUME NEW ms \in 1..MaxMs, AddColumns(ms)
      PROVE  Dating'
  BY <1>7, DatingAfterColumns
<1>8. CASE SelectBackfill \/ Opened
  <2>1. Migrated /\ Migrated' /\ phase # "down" /\ phase # "copy" /\ phase' # "copy"
        /\ UNCHANGED <<turns, blocks, members, cols, past>>
    BY <1>8 DEF SelectBackfill, Opened, Migrated, tables
  <2>2. ~Unmigrated /\ ~Unmigrated' /\ "created" \in cols
    BY <2>1 DEF Unmigrated, Dating
  <2> QED
    BY <2>1, <2>2 DEF Dating, DatesEnclose, Rows
<1>9. ASSUME NEW u \in pending, BackfillRow(u)
      PROVE  Dating'
  BY <1>9, DatingAfterBackfill
<1>10. CASE Listing
  BY <1>1, <1>10 DEF Listing, ListStart, ListNext, ListDone, ListEnd, tables
<1>11. CASE Crash
  BY <1>11, DatingAfterCrash
<1>12. CASE UNCHANGED vars
  BY <1>1, <1>12 DEF vars
<1> QED
  BY <1>2, <1>3, <1>4, <1>5, <1>6, <1>7, <1>8, <1>9, <1>10, <1>11, <1>12
     DEF Next, Saving, Opening

-----------------------------------------------------------------------------
(* The keys                                                                *)

LEMMA KeyingFrame ==
  ASSUME Keying, UNCHANGED <<turns, phase, pending>>
  PROVE  Keying'
BY DEF Keying, KeysFollowMetadata, HasKeys, Rows

LEMMA KeyingAfterCommit ==
  ASSUME TypeOK, Underway, Keying, CommitSave
  PROVE  Keying'
<1>1. phase = "open" /\ \A t \in TurnIds : tx.turns[t] # NoRow => Complete(tx.turns[t])
  BY DEF Underway, CommitSave
<1>2. UNCHANGED <<phase, pending>> /\ turns' = tx.turns
  BY DEF CommitSave
<1>3. pending' = {}
  BY <1>1, <1>2 DEF Keying
<1>4. KeysFollowMetadata'
  BY <1>1, <1>2 DEF KeysFollowMetadata, Rows, Complete, HasKeys
<1> QED
  BY <1>1, <1>2, <1>3, <1>4 DEF Keying

LEMMA KeyingAfterSelect ==
  ASSUME TypeOK, SelectBackfill
  PROVE  Keying'
<1>1. phase' = "backfill" /\ UNCHANGED turns /\ Rows' = Rows
  BY DEF SelectBackfill, tables, Rows
<1>2. pending' = {u \in [turn: Rows, rt: Keys \cup {NoKey}, inf: Keys \cup {NoKey}] :
                   /\ u.rt = First(turns[u.turn].rt, runtimeKeyFromTurnMetadata(turns[u.turn].meta))
                   /\ u.inf = First(turns[u.turn].inf, inferenceIDFromTurnMetadata(turns[u.turn].meta))
                   /\ u.rt # turns[u.turn].rt \/ u.inf # turns[u.turn].inf}
  BY DEF SelectBackfill
<1>3. ASSUME NEW t \in Rows, ~HasKeys(turns[t])
      PROVE  \E u \in pending' : u.turn = t
  <2> DEFINE row == turns[t]
             u == [turn |-> t, rt |-> First(row.rt, runtimeKeyFromTurnMetadata(row.meta)),
                   inf |-> First(row.inf, inferenceIDFromTurnMetadata(row.meta))]
  <2>1. row \in TurnRow
    BY RowUpdates
  <2>2. row.meta \in Metadata /\ row.rt \in Keys \cup {NoKey} /\ row.inf \in Keys \cup {NoKey}
    BY <2>1 DEF TurnRow
  <2>3. /\ First(row.rt, runtimeKeyFromTurnMetadata(row.meta)) \in Keys \cup {NoKey}
        /\ First(row.inf, inferenceIDFromTurnMetadata(row.meta)) \in Keys \cup {NoKey}
    BY <2>2, Defaults DEF First
  <2>4. u \in [turn: Rows, rt: Keys \cup {NoKey}, inf: Keys \cup {NoKey}]
    BY <2>3
  <2>5. u.rt # row.rt \/ u.inf # row.inf
    BY <1>3 DEF HasKeys, First
  <2>6. u \in pending'
    BY <1>2, <2>4, <2>5
  <2> QED
    BY <2>6
<1>4. KeysFollowMetadata'
  BY <1>1 DEF KeysFollowMetadata
<1>5. \A t \in Rows : HasKeys(turns[t]) \/ \E u \in pending' : u.turn = t
  BY <1>3
<1>6. (\A t \in Rows : HasKeys(turns[t]) \/ \E u \in pending : u.turn = t)'
  BY <1>1, <1>5 DEF HasKeys
<1>7. \A u \in pending' :
       /\ u.turn \in Rows'
       /\ u.rt = First(turns'[u.turn].rt, runtimeKeyFromTurnMetadata(turns'[u.turn].meta))
       /\ u.inf = First(turns'[u.turn].inf, inferenceIDFromTurnMetadata(turns'[u.turn].meta))
  BY <1>1, <1>2
<1> QED
  BY <1>1, <1>4, <1>6, <1>7 DEF Keying

LEMMA KeyingAfterBackfill ==
  ASSUME TypeOK, Keying, NEW u \in pending, BackfillRow(u)
  PROVE  Keying'
<1>1. phase = "backfill" /\ phase' = phase /\ pending' = pending \ {u}
  BY DEF BackfillRow
<1>2. /\ u.turn \in Rows
      /\ u.rt = First(turns[u.turn].rt, runtimeKeyFromTurnMetadata(turns[u.turn].meta))
      /\ u.inf = First(turns[u.turn].inf, inferenceIDFromTurnMetadata(turns[u.turn].meta))
  BY DEF Keying
<1>3. /\ u.turn \in TurnIds /\ u.rt \in Keys \cup {NoKey} /\ u.inf \in Keys \cup {NoKey}
      /\ turns' = [turns EXCEPT ![u.turn] =
                     [[turns[u.turn] EXCEPT !.rt = u.rt] EXCEPT !.inf = u.inf]]
  BY BackfillRowStep
<1>4. turns \in [TurnIds -> TurnRow \cup {NoRow}]
  BY DEF TypeOK, TurnsTable
<1>5. turns[u.turn] \in TurnRow /\ turns'[u.turn] \in TurnRow
  BY <1>2, <1>3, <1>4, RowUpdates
<1>6. turns'[u.turn].rt = u.rt /\ turns'[u.turn].inf = u.inf
      /\ turns'[u.turn].meta = turns[u.turn].meta
  BY <1>3, <1>4, <1>5 DEF TurnRow
<1>7. \A t \in TurnIds \ {u.turn} : turns'[t] = turns[t]
  BY <1>3, <1>4
<1>8. Rows' = Rows
  BY <1>2, <1>5, <1>7, NullValues DEF Rows
<1>9. HasKeys(turns'[u.turn])
  BY <1>2, <1>6 DEF HasKeys, First
<1>10. ASSUME NEW t \in Rows
       PROVE  HasKeys(turns'[t]) \/ \E v \in pending' : v.turn = t
  <2>1. CASE t = u.turn
    BY <1>9, <2>1
  <2>2. CASE t # u.turn
    <3>1. turns'[t] = turns[t]
      BY <1>7, <2>2 DEF Rows
    <3>2. HasKeys(turns[t]) \/ \E v \in pending : v.turn = t
      BY <1>1 DEF Keying
    <3> QED
      BY <1>1, <2>2, <3>1, <3>2
  <2> QED
    BY <2>1, <2>2
<1>11. ASSUME NEW v \in pending'
       PROVE  /\ v.turn \in Rows
              /\ v.rt = First(turns'[v.turn].rt, runtimeKeyFromTurnMetadata(turns'[v.turn].meta))
              /\ v.inf = First(turns'[v.turn].inf, inferenceIDFromTurnMetadata(turns'[v.turn].meta))
  <2>1. /\ v.turn \in Rows
        /\ v.rt = First(turns[v.turn].rt, runtimeKeyFromTurnMetadata(turns[v.turn].meta))
        /\ v.inf = First(turns[v.turn].inf, inferenceIDFromTurnMetadata(turns[v.turn].meta))
    BY <1>1 DEF Keying
  <2>2. CASE v.turn = u.turn
    BY <1>2, <1>6, <2>1, <2>2 DEF First
  <2>3. CASE v.turn # u.turn
    BY <1>7, <2>1, <2>3 DEF Rows
  <2> QED
    BY <2>2, <2>3
<1>12. KeysFollowMetadata'
  BY <1>1 DEF KeysFollowMetadata
<1>13. (\A t \in Rows : HasKeys(turns[t]) \/ \E v \in pending : v.turn = t)'
  BY <1>8, <1>10 DEF HasKeys
<1> QED
  BY <1>1, <1>8, <1>11, <1>12, <1>13 DEF Keying

LEMMA KeyingNext ==
  ASSUME TypeOK, Underway, Keying, [Next]_vars
  PROVE  Keying'
<1>1. ASSUME UNCHANGED <<turns, phase, pending>>
      PROVE  Keying'
  BY <1>1, KeyingFrame
<1>2. ASSUME phase # "backfill", phase' \notin {"open", "backfill"}, pending' = pending
      PROVE  Keying'
  <2>1. pending' = {}
    BY <1>2 DEF Keying
  <2> QED
    BY <1>2, <2>1 DEF Keying, KeysFollowMetadata
<1>3. ASSUME NEW t \in Payloads, NEW ms \in 1..MaxMs, NEW rt \in Keys \cup {NoKey},
             \/ \E ph \in Phases \ {Final} : SnapshotHook(t, ph, ms, rt)
             \/ PersistTurn(t, ms, rt)
      PROVE  Keying'
  BY <1>1, <1>3 DEF SnapshotHook, PersistTurn, BeginSave, tables
<1>4. CASE SaveBlock \/ AbortSave
  BY <1>1, <1>4 DEF SaveBlock, AbortSave, tables
<1>5. CASE CommitSave
  BY <1>5, KeyingAfterCommit
<1>6. CASE AddCreated \/ CopyCreated
  BY <1>2, <1>6 DEF AddCreated, CopyCreated
<1>7. ASSUME NEW ms \in 1..MaxMs, AddColumns(ms)
      PROVE  Keying'
  BY <1>2, <1>7 DEF AddColumns
<1>8. CASE SelectBackfill
  BY <1>8, KeyingAfterSelect
<1>9. ASSUME NEW u \in pending, BackfillRow(u)
      PROVE  Keying'
  BY <1>9, KeyingAfterBackfill
<1>10. CASE Opened
  <2>1. phase = "backfill" /\ pending = {} /\ phase' = "open" /\ pending' = {} /\ turns' = turns
    BY <1>10 DEF Opened, tables
  <2>2. \A t \in Rows : HasKeys(turns[t])
    BY <2>1 DEF Keying
  <2> QED
    BY <2>1, <2>2 DEF Keying, KeysFollowMetadata, Rows, HasKeys
<1>11. CASE Listing
  BY <1>1, <1>11 DEF Listing, ListStart, ListNext, ListDone, ListEnd, tables
<1>12. CASE Crash
  <2>1. phase' = "down" /\ pending' = {}
    BY <1>12 DEF Crash
  <2> QED
    BY <2>1 DEF Keying, KeysFollowMetadata
<1>13. CASE UNCHANGED vars
  BY <1>1, <1>13 DEF vars
<1> QED
  BY <1>3, <1>4, <1>5, <1>6, <1>7, <1>8, <1>9, <1>10, <1>11, <1>12, <1>13
     DEF Next, Saving, Opening

-----------------------------------------------------------------------------
(* The reader                                                              *)

\* A page that is not full holds every key that was selected.
LEMMA PageCovers ==
  ASSUME TypeOK, IsFiniteSet(members), NEW q \in Queries,
         NEW n \in Nat, NEW page \in [1..n -> Selected(q)], IsPage(page, q),
         n = Lower(q.limit, Cardinality(Selected(q))), n # q.limit
  PROVE  \A key \in Selected(q) : \E i \in 1..n : page[i] = key
<1>1. IsFiniteSet(Selected(q)) /\ Cardinality(Selected(q)) \in Nat /\ q.limit \in Nat
  BY SelectedFinite
<1>2. n = Cardinality(Selected(q))
  BY <1>1 DEF Lower
<1>3. \A i, j \in 1..n : i < j => page[i] # page[j]
  BY DEF IsPage
<1>4. ASSUME NEW i \in 1..n, NEW j \in 1..n, page[i] = page[j]
      PROVE  i = j
  BY <1>3, <1>4
<1>5. page \in Injection(1..n, Selected(q))
  BY <1>4 DEF Injection, IsInjective
<1>6. Cardinality(1..n) = n
  BY FS_Interval
<1>7. page \in Surjection(1..n, Selected(q))
  BY <1>1, <1>2, <1>5, <1>6, FS_Injection
<1> QED
  BY <1>7 DEF Surjection

LEMMA ReadsFrame ==
  ASSUME Reads, TypeOK, reader' = reader, TypeOK',
         \A key \in Snapshots : past.saved[key] \subseteq past'.saved[key]
  PROVE  Reads'
<1> SUFFICES ASSUME reader # Idle PROVE Reads'
  BY DEF Reads
<1>1. reader \in Reading
  BY DEF TypeOK
<1>2. reader.rows \in Seq(Snapshots) /\ reader.items \in Seq([snap: Snapshots, blocks: Seq(BlockKeys)])
  BY <1>1 DEF Reading
<1>3. ASSUME NEW i \in DOMAIN reader.rows
      PROVE  past'.saved[reader.rows[i]] # {}
  <2>1. reader.rows[i] \in Snapshots
    BY <1>2
  <2>2. past.saved[reader.rows[i]] # {}
    BY DEF Reads
  <2> QED
    BY <2>1, <2>2
<1>4. ASSUME NEW i \in DOMAIN reader.items
      PROVE  reader.items[i].blocks \in past'.saved[reader.items[i].snap]
  <2>3. reader.items[i] \in [snap: Snapshots, blocks: Seq(BlockKeys)]
    BY <1>2, ElementOfSeq, LenProperties
  <2>1. reader.items[i].snap \in Snapshots
    BY <2>3
  <2>2. reader.items[i].blocks \in past.saved[reader.items[i].snap]
    BY DEF Reads
  <2> QED
    BY <2>1, <2>2
<1> QED
  BY <1>3, <1>4 DEF Reads

LEMMA ReadsAfterStart ==
  ASSUME TypeOK, Filed, NEW q \in Queries, ListStart(q)
  PROVE  Reads'
<1>1. IsFiniteSet(members) /\ past' = past /\ \A key \in Snapshots : FiledUnder(key)
  BY DEF Filed, ListStart
<1> DEFINE left(n, page) ==
             /\ IsPage(page, q) /\ n = Lower(q.limit, Cardinality(Selected(q)))
             /\ reader' = [state |-> "listing", q |-> q, full |-> n = q.limit,
                           rows |-> page, items |-> <<>>,
                           had |-> {key.turn : key \in Selected(q)}]
<1>8. PICK n \in Nat : \E page \in [1..n -> Selected(q)] : left(n, page)
  BY <1>1, ListStartStep
<1>2. PICK page \in [1..n -> Selected(q)] : left(n, page)
  BY <1>8
<1>3. /\ reader'.state = "listing" /\ reader'.full = (n = q.limit) /\ reader'.rows = page
      /\ reader'.items = <<>> /\ reader'.had = {key.turn : key \in Selected(q)}
  BY <1>2
<1>4. ASSUME NEW i \in DOMAIN page
      PROVE  past.saved[page[i]] # {}
  <2>1. page[i] \in Selected(q)
    OBVIOUS
  <2>2. page[i] \in Snapshots /\ MembersOf(members, page[i]) # {}
    BY <1>1, <2>1, SelectedFinite
  <2> QED
    BY <1>1, <2>2 DEF FiledUnder
<1>5. ASSUME ~reader'.full, NEW t \in reader'.had
      PROVE  \E i \in DOMAIN reader'.rows : reader'.rows[i].turn = t
  <2>1. n # q.limit
    BY <1>3, <1>5
  <2>2. PICK key \in Selected(q) : key.turn = t
    BY <1>3
  <2>3. PICK i \in 1..n : page[i] = key
    BY <1>1, <1>2, <2>1, PageCovers
  <2> QED
    BY <1>3, <2>2, <2>3
<1>6. DOMAIN reader'.items = {}
  BY <1>3
<1>7. \A i \in DOMAIN reader'.rows : past'.saved[reader'.rows[i]] # {}
  BY <1>1, <1>3, <1>4
<1> QED
  BY <1>3, <1>5, <1>6, <1>7 DEF Reads

LEMMA ReadsAfterNext ==
  ASSUME TypeOK, Filed, Reads, ListNext
  PROVE  Reads'
<1> DEFINE key == Head(reader.rows)
           item == [snap |-> key, blocks |-> loadSnapshotBlocks(members, key)]
           Item == [snap: Snapshots, blocks: Seq(BlockKeys)]
<1>1. /\ reader \in Reading /\ reader.rows # <<>> /\ reader.rows \in Seq(Snapshots)
      /\ key \in Snapshots /\ past.saved[key] # {}
      /\ reader.items \in Seq(Item) /\ item \in Item
      /\ reader'.rows = Tail(reader.rows) /\ reader'.items = Append(reader.items, item)
      /\ reader'.state = "listing" /\ reader'.full = reader.full /\ reader'.had = reader.had
  BY ListNextStep
<1>2. past' = past
  BY DEF ListNext
<1>3. reader # Idle
  BY <1>1, NullValues
<1>4. item.snap = key /\ item.blocks \in past.saved[item.snap]
  BY <1>1, FiledIsLoaded
<1> HIDE DEF item, Item
<1>5. Len(reader.rows) \in Nat /\ Len(reader.rows) >= 1
      /\ DOMAIN reader.rows = 1..Len(reader.rows) /\ key = reader.rows[1]
  BY <1>1
<1>6. /\ DOMAIN Tail(reader.rows) = 1..(Len(reader.rows) - 1)
      /\ \A i \in 1..(Len(reader.rows) - 1) : Tail(reader.rows)[i] = reader.rows[i + 1]
  BY <1>1, <1>5
<1>7. /\ Len(reader.items) \in Nat /\ DOMAIN reader.items = 1..Len(reader.items)
      /\ DOMAIN Append(reader.items, item) = 1..(Len(reader.items) + 1)
      /\ Append(reader.items, item)[Len(reader.items) + 1] = item
      /\ \A i \in 1..Len(reader.items) : Append(reader.items, item)[i] = reader.items[i]
  BY <1>1
<1>8. ASSUME NEW i \in DOMAIN reader'.rows
      PROVE  past'.saved[reader'.rows[i]] # {}
  <2>1. i \in 1..(Len(reader.rows) - 1) /\ i + 1 \in DOMAIN reader.rows
    BY <1>1, <1>5, <1>6
  <2>2. past.saved[reader.rows[i + 1]] # {}
    BY <1>3, <2>1 DEF Reads
  <2> QED
    BY <1>1, <1>2, <1>6, <2>1, <2>2
<1>9. ASSUME NEW i \in DOMAIN reader'.items
      PROVE  reader'.items[i].blocks \in past'.saved[reader'.items[i].snap]
  <2>1. CASE i = Len(reader.items) + 1
    BY <1>1, <1>2, <1>4, <1>7, <2>1
  <2>2. CASE i # Len(reader.items) + 1
    <3>1. i \in 1..Len(reader.items)
      BY <1>1, <1>7, <2>2
    <3>2. reader.items[i].blocks \in past.saved[reader.items[i].snap]
      BY <1>3, <1>7, <3>1 DEF Reads
    <3> QED
      BY <1>1, <1>2, <1>7, <3>1, <3>2
  <2> QED
    BY <2>1, <2>2
<1>10. ASSUME ~reader'.full, NEW t \in reader'.had
       PROVE  \/ \E i \in DOMAIN reader'.rows : reader'.rows[i].turn = t
              \/ \E i \in DOMAIN reader'.items : reader'.items[i].snap.turn = t
  <2>1. \/ \E i \in DOMAIN reader.rows : reader.rows[i].turn = t
        \/ \E i \in DOMAIN reader.items : reader.items[i].snap.turn = t
    BY <1>1, <1>3, <1>10 DEF Reads
  <2>2. ASSUME NEW i \in DOMAIN reader.items, reader.items[i].snap.turn = t
        PROVE  \E j \in DOMAIN reader'.items : reader'.items[j].snap.turn = t
    <3>1. i \in 1..Len(reader.items) /\ i \in 1..(Len(reader.items) + 1)
      BY <1>7
    <3> QED
      BY <1>1, <1>7, <2>2, <3>1
  <2>3. ASSUME NEW i \in DOMAIN reader.rows, reader.rows[i].turn = t, i = 1
        PROVE  \E j \in DOMAIN reader'.items : reader'.items[j].snap.turn = t
    <3>1. Len(reader.items) + 1 \in 1..(Len(reader.items) + 1)
      BY <1>7
    <3>2. item.snap.turn = t
      BY <1>4, <1>5, <2>3
    <3> QED
      BY <1>1, <1>7, <3>1, <3>2
  <2>4. ASSUME NEW i \in DOMAIN reader.rows, reader.rows[i].turn = t, i # 1
        PROVE  \E j \in DOMAIN reader'.rows : reader'.rows[j].turn = t
    <3>1. i - 1 \in 1..(Len(reader.rows) - 1) /\ (i - 1) + 1 = i
      BY <1>5, <2>4
    <3>2. Tail(reader.rows)[i - 1] = reader.rows[i]
      BY <1>6, <3>1
    <3> QED
      BY <1>1, <1>6, <2>4, <3>1, <3>2
  <2> QED
    BY <2>1, <2>2, <2>3, <2>4
<1> QED
  BY <1>1, <1>8, <1>9, <1>10 DEF Reads

LEMMA ReadsAfterDone ==
  ASSUME TypeOK, Reads, ListDone
  PROVE  Reads'
<1>1. /\ reader \in Reading /\ reader.rows = <<>> /\ reader'.rows = <<>>
      /\ reader'.items = reader.items /\ reader'.full = reader.full /\ reader'.had = reader.had
  BY ListDoneStep
<1>2. reader # Idle /\ past' = past
  BY <1>1, NullValues DEF ListDone
<1> QED
  BY <1>1, <1>2 DEF Reads

\* What was ever saved is a history: it only grows.
LEMMA SavedGrows ==
  ASSUME TypeOK, [Next]_vars
  PROVE  \A key \in Snapshots : past.saved[key] \subseteq past'.saved[key]
<1>1. past.saved \in [Snapshots -> SUBSET Seq(BlockKeys)]
  BY DEF TypeOK
<1>2. CASE CommitSave
  <2>1. past'.saved = [past.saved EXCEPT ![tx.key] =
                          past.saved[tx.key] \cup {StoredBlocks(tx.t, tx.key.turn)}]
    BY <1>2, CommitSaveStep
  <2> QED
    BY <1>1, <2>1
<1>3. CASE Crash
  BY <1>3 DEF Crash, TypeOK
<1>4. ASSUME past' = past
      PROVE  \A key \in Snapshots : past.saved[key] \subseteq past'.saved[key]
  BY <1>4
<1>5. ASSUME NEW t \in Payloads, NEW ms \in 1..MaxMs, NEW rt \in Keys \cup {NoKey},
             \/ \E ph \in Phases \ {Final} : SnapshotHook(t, ph, ms, rt)
             \/ PersistTurn(t, ms, rt)
      PROVE  past' = past
  BY <1>5 DEF SnapshotHook, PersistTurn, BeginSave
<1>6. CASE SaveBlock \/ AbortSave
  BY <1>4, <1>6 DEF SaveBlock, AbortSave
<1>7. CASE Opening
  BY <1>4, <1>7 DEF Opening, AddCreated, CopyCreated, AddColumns, SelectBackfill, BackfillRow, Opened
<1>8. CASE Listing
  BY <1>4, <1>8 DEF Listing, ListStart, ListNext, ListDone, ListEnd
<1>9. CASE UNCHANGED vars
  BY <1>4, <1>9 DEF vars
<1> QED
  BY <1>2, <1>3, <1>4, <1>5, <1>6, <1>7, <1>8, <1>9 DEF Next, Saving

LEMMA ReadsNext ==
  ASSUME TypeOK, TypeOK', Filed, Reads, [Next]_vars
  PROVE  Reads'
<1>1. ASSUME reader' = reader
      PROVE  Reads'
  BY <1>1, SavedGrows, ReadsFrame
<1>2. ASSUME reader' = Idle
      PROVE  Reads'
  BY <1>2 DEF Reads
<1>3. ASSUME NEW t \in Payloads, NEW ms \in 1..MaxMs, NEW rt \in Keys \cup {NoKey},
             \/ \E ph \in Phases \ {Final} : SnapshotHook(t, ph, ms, rt)
             \/ PersistTurn(t, ms, rt)
      PROVE  reader' = reader
  BY <1>3 DEF SnapshotHook, PersistTurn, BeginSave
<1>4. CASE SaveBlock \/ CommitSave \/ AbortSave
  BY <1>1, <1>4 DEF SaveBlock, CommitSave, AbortSave
<1>5. CASE Opening
  BY <1>1, <1>5 DEF Opening, AddCreated, CopyCreated, AddColumns, SelectBackfill, BackfillRow, Opened
<1>6. ASSUME NEW q \in Queries, ListStart(q)
      PROVE  Reads'
  BY <1>6, ReadsAfterStart
<1>7. CASE ListNext
  BY <1>7, ReadsAfterNext
<1>8. CASE ListDone
  BY <1>8, ReadsAfterDone
<1>9. CASE ListEnd \/ Crash
  BY <1>2, <1>9 DEF ListEnd, Crash
<1>10. CASE UNCHANGED vars
  BY <1>1, <1>10 DEF vars
<1> QED
  BY <1>1, <1>3, <1>4, <1>5, <1>6, <1>7, <1>8, <1>9, <1>10 DEF Next, Saving, Listing

-----------------------------------------------------------------------------
(* The theorems                                                            *)

\* The rows of a file are those of its snapshots.
LEMMA FileRowsOf ==
  ASSUME NEW file \in Files, NEW key \in Snapshots
  PROVE  MembersOf(FileRows(file), key) =
           IF key \in DOMAIN file.snapshots
             THEN RowsOf(key, file.snapshots[key], Len(file.snapshots[key])) ELSE {}
<1>1. \A k : SnapshotRows(k, file.snapshots[k]) =
               RowsOf(k, file.snapshots[k], Len(file.snapshots[k]))
  BY DEF SnapshotRows, RowsOf
<1>2. \A k : \A m \in SnapshotRows(k, file.snapshots[k]) : m.snap = k
  BY DEF SnapshotRows
<1>3. MembersOf(FileRows(file), key) \subseteq
        IF key \in DOMAIN file.snapshots THEN SnapshotRows(key, file.snapshots[key]) ELSE {}
  BY <1>2 DEF MembersOf, FileRows
<1>4. key \in DOMAIN file.snapshots =>
        SnapshotRows(key, file.snapshots[key]) \subseteq MembersOf(FileRows(file), key)
  BY <1>2 DEF MembersOf, FileRows
<1> QED
  BY <1>1, <1>3, <1>4

LEMMA FileRowsFinite ==
  ASSUME NEW file \in Files
  PROVE  IsFiniteSet(FileRows(file))
<1> DEFINE D == DOMAIN file.snapshots
           rows == [key \in D |-> SnapshotRows(key, file.snapshots[key])]
           S == {SnapshotRows(key, file.snapshots[key]) : key \in D}
<1>1. IsFiniteSet(D) /\ \A key \in D : file.snapshots[key] \in Seq(BlockKeys)
  BY FilesAssumption DEF IsFile
<1>2. rows \in Surjection(D, S)
  BY DEF Surjection
<1>3. IsFiniteSet(S)
  BY <1>1, <1>2, FS_Surjection
<1>4. ASSUME NEW T \in S
      PROVE  IsFiniteSet(T)
  <2>1. PICK key \in D : T = SnapshotRows(key, file.snapshots[key])
    OBVIOUS
  <2>2. T = RowsOf(key, file.snapshots[key], Len(file.snapshots[key]))
    BY <2>1 DEF SnapshotRows, RowsOf
  <2>3. Len(file.snapshots[key]) \in Nat
    BY <1>1, LenProperties
  <2> QED
    BY <2>2, <2>3, RowsCount
<1>5. FileRows(file) = UNION S
  BY DEF FileRows
<1> HIDE DEF S
<1> QED
  BY <1>3, <1>4, <1>5, FS_UNION

\* A snapshot of a file lies within the dates it has, but for the date of update.
LEMMA FileDates ==
  ASSUME NEW file \in Files
  PROVE  /\ Dates(file.turns, file.blocks, FileRows(file), LateIn(file))
         /\ \A m \in FileRows(file) :
              /\ file.turns[m.snap.turn] # NoRow
              /\ "created" \notin file.cols => file.turns[m.snap.turn].legacy <= m.snap.ms
<1>1. IsFile(file) /\ MaxMs \in Nat
  BY FilesAssumption, TurnStoreAssumption
<1> SUFFICES ASSUME NEW m \in FileRows(file)
             PROVE  /\ Encloses(file.turns[m.snap.turn], m.snap, LateIn(file))
                    /\ file.blocks[m.block] \in 1..m.snap.ms
                    /\ file.turns[m.snap.turn] # NoRow
                    /\ "created" \notin file.cols => file.turns[m.snap.turn].legacy <= m.snap.ms
  BY DEF Dates
<1>2. PICK key \in DOMAIN file.snapshots : m \in SnapshotRows(key, file.snapshots[key])
  BY DEF FileRows
<1>3. PICK i \in 1..Len(file.snapshots[key]) :
        m = [snap |-> key, ordinal |-> i - 1, block |-> file.snapshots[key][i]]
  BY <1>2 DEF SnapshotRows
<1>4. m.snap = key /\ m.block = file.snapshots[key][i]
  BY <1>3
<1>5. /\ key \in Snapshots /\ file.snapshots[key] \in Seq(BlockKeys)
      /\ file.turns[key.turn] # NoRow /\ CreatedOf(file.turns[key.turn]) <= key.ms
      /\ \A j \in DOMAIN file.snapshots[key] : file.blocks[file.snapshots[key][j]] \in 1..key.ms
  BY <1>1, <1>2 DEF IsFile
<1>6. i \in DOMAIN file.snapshots[key]
  BY <1>3, <1>5
<1>7. key.turn \in TurnIds /\ key.ms \in 1..MaxMs
  BY <1>5 DEF Snapshots
<1>8. /\ IF "created" \in file.cols
            THEN file.turns[key.turn].created > 0
            ELSE file.turns[key.turn].created = 0 /\ file.turns[key.turn].legacy > 0
      /\ file.turns[key.turn] \in TurnRow
  BY <1>1, <1>5, <1>7 DEF IsFile, TurnsTable
<1>9. /\ file.turns[key.turn].created \in Nat /\ file.turns[key.turn].legacy \in Nat
      /\ file.turns[key.turn].updated \in Nat
  BY <1>1, <1>8 DEF TurnRow
<1>10. /\ file.turns[key.turn].created <= key.ms
       /\ "created" \notin file.cols => file.turns[key.turn].legacy <= key.ms
  BY <1>5, <1>7, <1>8, <1>9 DEF CreatedOf, Dated
<1>11. key \in LateIn(file) \/ key.ms <= file.turns[key.turn].updated
  BY <1>2, <1>7, <1>9 DEF LateIn
<1> QED
  BY <1>4, <1>5, <1>6, <1>10, <1>11 DEF Encloses

LEMMA InitInv == Init => IInv
<1> SUFFICES ASSUME Init PROVE IInv
  OBVIOUS
<1>1. TypeOK
  BY InitType
<1>2. tx = NoTx /\ phase = "down" /\ pending = {} /\ reader = Idle
  BY DEF Init
<1> PICK file \in Files :
      /\ turns = file.turns /\ cols = file.cols
      /\ blocks = file.blocks /\ members = FileRows(file)
      /\ past = [saved |-> SavedIn(file), late |-> LateIn(file), interrupted |-> FALSE]
  BY DEF Init, SavedIn, LateIn
<1>3. Filed
  <2>1. ASSUME NEW key \in Snapshots
        PROVE  FiledUnder(key)
    <3>1. past.saved[key] = IF key \in DOMAIN file.snapshots THEN {file.snapshots[key]} ELSE {}
      BY DEF SavedIn
    <3> QED
      BY <3>1, FileRowsOf DEF FiledUnder
  <2> QED
    BY <2>1, FileRowsFinite DEF Filed
<1>4. Underway
  BY <1>2 DEF Underway
<1>5. Dating
  <2>2. ASSUME NEW t \in Rows
        PROVE  IF "created" \in cols
                 THEN /\ turns[t].created > 0
                      /\ turns[t].legacy > 0 => turns[t].created <= turns[t].legacy
                 ELSE turns[t].created = 0 /\ turns[t].legacy > 0
    BY FilesAssumption DEF Rows, IsFile
  <2>3. Unmigrated <=> "created" \notin cols
    BY <1>2 DEF Unmigrated
  <2>4. DatesEnclose
    BY FileDates DEF DatesEnclose
  <2>5. Unmigrated => /\ \A m \in members : turns[m.snap.turn].legacy <= m.snap.ms
                      /\ \A t \in Rows : turns[t].created = 0 /\ turns[t].legacy > 0
    BY <2>2, <2>3, FileDates
  <2>6. ASSUME NEW t \in Rows
        PROVE  /\ ~Unmigrated /\ turns[t].created = 0 => past.interrupted
               /\ turns[t].legacy > 0 => turns[t].created <= turns[t].legacy
    <3>1. turns[t].legacy \in Nat /\ turns[t].created \in Nat
      <4>1. turns[t] \in TurnRow /\ MaxMs \in Nat
        BY <1>1, RowUpdates, TurnStoreAssumption
      <4> QED
        BY <4>1 DEF TurnRow
    <3> QED
      BY <2>2, <2>3, <3>1
  <2>7. ~Migrated
    BY <1>2 DEF Migrated
  <2> QED
    BY <1>2, <2>4, <2>5, <2>6, <2>7 DEF Dating
<1>6. Keying
  BY <1>2 DEF Keying, KeysFollowMetadata
<1>7. Reads
  BY <1>2 DEF Reads
<1> QED
  BY <1>1, <1>3, <1>4, <1>5, <1>6, <1>7 DEF IInv

LEMMA StepInv == IInv /\ [Next]_vars => IInv'
<1> SUFFICES ASSUME IInv, [Next]_vars PROVE IInv'
  OBVIOUS
<1>1. TypeOK /\ Filed /\ Underway /\ Dating /\ Keying /\ Reads
  BY DEF IInv
<1>2. TypeOK'
  BY <1>1, TypeNext
<1>3. Filed'
  BY <1>1, FiledNext
<1>4. Underway'
  BY UnderwayNext
<1>5. Dating'
  BY <1>1, DatingNext
<1>6. Keying'
  BY <1>1, KeyingNext
<1>7. Reads'
  BY <1>1, <1>2, ReadsNext
<1> QED
  BY <1>2, <1>3, <1>4, <1>5, <1>6, <1>7 DEF IInv

\* Exactly one save's rows: so each ordinal below the last is there, once.
LEMMA FiledIsContiguous ==
  ASSUME TypeOK, Filed
  PROVE  OrdinalsContiguous
<1> SUFFICES ASSUME NEW m \in members, NEW o \in 0..m.ordinal
             PROVE  Cardinality({n \in MembersOf(members, m.snap) : n.ordinal = o}) = 1
  BY DEF OrdinalsContiguous
<1> DEFINE key == m.snap
<1>1. key \in Snapshots /\ m \in MembersOf(members, key)
  BY DEF TypeOK, MemberRow, MembersOf
<1>2. past.saved[key] # {} /\ past.saved[key] \subseteq Seq(BlockKeys)
  BY <1>1 DEF Filed, FiledUnder, TypeOK
<1>3. PICK s \in past.saved[key] : MembersOf(members, key) = RowsOf(key, s, Len(s))
  BY <1>1, <1>2 DEF Filed, FiledUnder
<1>4. Len(s) \in Nat
  BY <1>2, LenProperties
<1>5. PICK i \in 1..Len(s) : m = RowAt(key, s, i)
  BY <1>1, <1>3 DEF RowsOf, RowAt
<1>6. m.ordinal = i - 1
  BY <1>5 DEF RowAt
<1>7. o + 1 \in 1..Len(s) /\ (o + 1) - 1 = o
  BY <1>4, <1>6
<1>8. Cardinality(At(RowsOf(key, s, Len(s)), (o + 1) - 1)) = 1
  BY <1>4, <1>7, RowsBelow
<1>9. Cardinality(At(MembersOf(members, key), o)) = 1
  BY <1>3, <1>7, <1>8
<1> QED
  BY <1>9 DEF At

\* A turn that had a snapshot is among the rows or the items, and an answered
\* list has no rows left.
LEMMA ReadsIsListed ==
  ASSUME TypeOK, Reads
  PROVE  ListedInv
<1> SUFFICES ASSUME reader # Idle, reader.state = "answered", reader.q.turn \in reader.had,
                    \A i \in DOMAIN reader.items : ~Answered(reader.q, reader.items[i]),
                    ~reader.full
             PROVE  FALSE
  BY DEF Reads, ListedInv, TypeOK, Reading
<1>1. reader.rows = <<>>
  BY DEF Reads
<1>2. PICK i \in DOMAIN reader.items : reader.items[i].snap.turn = reader.q.turn
  BY <1>1 DEF Reads
<1>3. Answered(reader.q, reader.items[i])
  BY <1>2 DEF Answered
<1> QED
  BY <1>3

(* Every reachable state is well typed, whatever files are opened, whatever *)
(* payloads are saved and whatever is asked: rows of turns, blocks and      *)
(* memberships, the transaction of Save and the reader of List.             *)
THEOREM TurnTypeCorrect == Spec => []TypeOK
<1>1. IInv => TypeOK
  BY DEF IInv
<1> HIDE DEF IInv, TypeOK
<1> QED
  BY <1>1, InitInv, StepInv, PTL DEF Spec

(* In whatever order the clock dates the saves and wherever a migration is  *)
(* cut off: no turn is younger than a snapshot of it, and none was updated  *)
(* before one that was saved since the file was found; ordinals are         *)
(* contiguous, columns have what the metadata has, and an older file keeps  *)
(* its dates of creation (persistNormalizedSnapshot, ensureTurnsTableColumns and         *)
(* backfillTurnRuntimeAndInferenceColumns).                                 *)
THEOREM SnapshotsAreWhole == Spec => []StoreInv
<1>1. IInv => StoreInv
  <2>1. ASSUME IInv PROVE MigrationKeepsDates
    BY <2>1, OpenRowsComplete DEF IInv, MigrationKeepsDates, Complete
  <2> QED
    BY <2>1, FiledIsContiguous DEF IInv, StoreInv, Dating, Keying
<1> HIDE DEF IInv, StoreInv
<1> QED
  BY <1>1, InitInv, StepInv, PTL DEF Spec

(* List reads its snapshots one query at a time while saves commit, yet     *)
(* every item is one save's blocks, and a turn that had a snapshot is       *)
(* missing only from a page that is full.                                   *)
THEOREM ItemsAreWhole == Spec => []ListedInv
<1>1. IInv => ListedInv
  BY ReadsIsListed DEF IInv
<1> HIDE DEF IInv, ListedInv
<1> QED
  BY <1>1, InitInv, StepInv, PTL DEF Spec

\* No statement of a save or a migration takes a key from a row.
LEMMA RowsKeepKeys ==
  ASSUME IInv, Next, NEW t \in Rows
  PROVE  KeepsKeys(turns[t], turns'[t])
<1>1. turns[t] \in TurnRow /\ t \in TurnIds /\ turns[t] # NoRow
  BY RowUpdates DEF IInv, Rows
<1>2. ASSUME turns' = turns
      PROVE  KeepsKeys(turns[t], turns'[t])
  BY <1>1, <1>2 DEF KeepsKeys
<1>3. ASSUME NEW p \in Payloads, NEW ms \in 1..MaxMs, NEW rt \in Keys \cup {NoKey},
             \/ \E ph \in Phases \ {Final} : SnapshotHook(p, ph, ms, rt)
             \/ PersistTurn(p, ms, rt)
      PROVE  turns' = turns
  BY <1>3 DEF SnapshotHook, PersistTurn, BeginSave, tables
<1>4. CASE SaveBlock \/ AbortSave \/ AddCreated \/ SelectBackfill \/ Opened \/ Listing \/ Crash
  BY <1>2, <1>4 DEF SaveBlock, AbortSave, AddCreated, SelectBackfill, Opened, Crash,
                    Listing, ListStart, ListNext, ListDone, ListEnd, tables
<1>5. CASE CommitSave
  BY <1>5 DEF CommitSave, IInv, Underway
<1>6. CASE CopyCreated
  <2>1. turns'[t] = turns[t] \/ turns'[t] = [turns[t] EXCEPT !.created = turns[t].legacy]
    BY <1>1, <1>6 DEF CopyCreated
  <2>2. turns'[t].rt = turns[t].rt /\ turns'[t].inf = turns[t].inf /\ turns'[t] \in TurnRow
    BY <1>1, <2>1 DEF TurnRow
  <2> QED
    BY <2>2, NullValues DEF KeepsKeys
<1>7. ASSUME NEW ms \in 1..MaxMs, AddColumns(ms)
      PROVE  KeepsKeys(turns[t], turns'[t])
  <2>1. turns'[t] = turns[t]
        \/ turns'[t] = [turns[t] EXCEPT !.updated = Dated(turns[t].created, ms)]
    BY <1>1, <1>7 DEF AddColumns
  <2>2. turns'[t].rt = turns[t].rt /\ turns'[t].inf = turns[t].inf
    BY <1>1, <2>1 DEF TurnRow
  <2>3. turns'[t] \in TurnRow
    BY <1>1, <2>1, RowUpdates DEF IInv
  <2> QED
    BY <2>2, <2>3, NullValues DEF KeepsKeys
<1>8. ASSUME NEW u \in pending, BackfillRow(u)
      PROVE  KeepsKeys(turns[t], turns'[t])
  <2>1. /\ u.turn \in TurnIds /\ u.rt \in Keys \cup {NoKey} /\ u.inf \in Keys \cup {NoKey}
        /\ turns' = [turns EXCEPT ![u.turn] =
                       [[turns[u.turn] EXCEPT !.rt = u.rt] EXCEPT !.inf = u.inf]]
    BY <1>8, BackfillRowStep DEF IInv
  <2>2. turns \in [TurnIds -> TurnRow \cup {NoRow}]
    BY DEF IInv, TypeOK, TurnsTable
  <2>3. CASE t # u.turn
    <3>1. turns'[t] = turns[t]
      BY <1>1, <2>1, <2>2, <2>3
    <3> QED
      BY <1>1, <3>1 DEF KeepsKeys
  <2>4. CASE t = u.turn
    <3>1. turns'[t] = [[turns[t] EXCEPT !.rt = u.rt] EXCEPT !.inf = u.inf]
      BY <1>1, <2>1, <2>2, <2>4
    <3>2. turns'[t] \in TurnRow
      <4>1. \A rt, inf \in Keys \cup {NoKey} :
              [[turns[t] EXCEPT !.rt = rt] EXCEPT !.inf = inf] \in TurnRow
        BY RowUpdates DEF IInv
      <4> QED
        BY <2>1, <3>1, <4>1
    <3>3. turns'[t].rt = u.rt /\ turns'[t].inf = u.inf
      BY <1>1, <3>1 DEF TurnRow
    <3>4. /\ u.rt = First(turns[t].rt, runtimeKeyFromTurnMetadata(turns[t].meta))
          /\ u.inf = First(turns[t].inf, inferenceIDFromTurnMetadata(turns[t].meta))
      BY <2>4 DEF IInv, Keying
    <3> QED
      BY <3>2, <3>3, <3>4, NullValues DEF KeepsKeys, First
  <2> QED
    BY <2>3, <2>4
<1> QED
  BY <1>2, <1>3, <1>4, <1>5, <1>6, <1>7, <1>8 DEF Next, Saving, Opening

(* A key a row once had stays in it: through the COALESCE of a save, the    *)
(* statements of a migration, a late backfill and a crash.                  *)
THEOREM KeysStay == Spec => KeysNeverForgotten
<1>1. IInv /\ [Next]_vars =>
        [\A t \in Rows : /\ turns'[t] # NoRow
                         /\ turns[t].rt # NoKey => turns'[t].rt # NoKey
                         /\ turns[t].inf # NoKey => turns'[t].inf # NoKey]_vars
  BY RowsKeepKeys DEF KeepsKeys
<1> HIDE DEF IInv
<1> QED
  BY <1>1, InitInv, StepInv, PTL DEF Spec, KeysNeverForgotten

\* A commit is one Put of the archive, of the payload that was saved.
LEMMA CommitIsPut ==
  ASSUME IInv, CommitSave
  PROVE  Archive!Next
<1> DEFINE s == StoredBlocks(tx.t, tx.key.turn)
           archive == [key \in Snapshots |-> loadSnapshotBlocks(members, key)]
<1>1. TypeOK /\ Filed /\ Underway /\ tx # NoTx
  BY DEF IInv, CommitSave
<1>2. /\ tx.key \in Snapshots /\ tx.next = Len(s) /\ s \in Seq(BlockKeys)
      /\ past'.saved = [past.saved EXCEPT ![tx.key] = past.saved[tx.key] \cup {s}]
  BY <1>1, CommitSaveStep
<1>3. members' = tx.members
  BY DEF CommitSave
<1>4. MembersOf(members', tx.key) = RowsOf(tx.key, s, Len(s))
  BY <1>1, <1>2, <1>3 DEF Underway
<1> HIDE DEF s
<1>5. loadSnapshotBlocks(members', tx.key) = s
  BY <1>2, <1>4, LoadsWhatIsFiled
<1>6. \A key \in Snapshots \ {tx.key} :
        loadSnapshotBlocks(members', key) = loadSnapshotBlocks(members, key)
  BY <1>1, <1>3, LoadsSame DEF Underway
<1>7. archive' = [key \in Snapshots |-> loadSnapshotBlocks(members', key)]
  OBVIOUS
<1>8. archive'[tx.key] = s
  BY <1>2, <1>5, <1>7
<1>9. \A key \in Snapshots \ {tx.key} : archive'[key] = archive[key]
  BY <1>6, <1>7
<1>10. archive' = [archive EXCEPT ![tx.key] = archive'[tx.key]]
  <2>1. [archive EXCEPT ![tx.key] = archive'[tx.key]] =
          [key \in Snapshots |-> IF key = tx.key THEN archive'[tx.key] ELSE archive[key]]
    OBVIOUS
  <2>2. archive' = [key \in Snapshots |-> archive'[key]]
    BY <1>7
  <2> HIDE DEF archive
  <2> QED
    BY <1>9, <2>1, <2>2
<1>11. past'.saved = [past.saved EXCEPT ![tx.key] = past.saved[tx.key] \cup {archive'[tx.key]}]
  BY <1>2, <1>8
<1> QED
  BY <1>2, <1>10, <1>11 DEF Archive!Next, Archive!Put

(* The tables of SQLiteTurnStore, read back by loadSnapshotBlocks, are a    *)
(* map of whole snapshots: a commit replaces one, at once, and no other     *)
(* statement, migration or crash changes what is filed under any key.       *)
THEOREM StoreIsArchive == Spec => ArchivesSnapshots
<1>1. Init => Archive!Init
  <2> SUFFICES ASSUME Init PROVE Archive!Init
    OBVIOUS
  <2> PICK file \in Files :
        /\ members = FileRows(file)
        /\ past = [saved |-> SavedIn(file), late |-> LateIn(file), interrupted |-> FALSE]
    BY DEF Init, SavedIn, LateIn
  <2>1. members = FileRows(file) /\ past.saved = SavedIn(file)
    OBVIOUS
  <2>2. ASSUME NEW key \in Snapshots
        PROVE  /\ loadSnapshotBlocks(members, key) \in Seq(BlockKeys)
               /\ past.saved[key] = IF loadSnapshotBlocks(members, key) = <<>>
                                      THEN {} ELSE {loadSnapshotBlocks(members, key)}
    <3>1. past.saved[key] = IF key \in DOMAIN file.snapshots THEN {file.snapshots[key]} ELSE {}
      BY <2>1 DEF SavedIn
    <3>2. CASE key \in DOMAIN file.snapshots
      <4>1. file.snapshots[key] \in Seq(BlockKeys) /\ file.snapshots[key] # <<>>
        BY <3>2, FilesAssumption DEF IsFile
      <4>2. loadSnapshotBlocks(members, key) = file.snapshots[key]
        BY <2>1, <3>2, <4>1, FileRowsOf, LoadsWhatIsFiled
      <4> QED
        BY <3>1, <3>2, <4>1, <4>2
    <3>3. CASE key \notin DOMAIN file.snapshots
      <4>1. loadSnapshotBlocks(members, key) = <<>>
        BY <2>1, <3>3, FileRowsOf, LoadsNothing
      <4> QED
        BY <3>1, <3>3, <4>1
    <3> QED
      BY <3>2, <3>3
  <2> QED
    BY <2>1, <2>2 DEF Archive!Init, SavedIn
<1>2. IInv /\ [Next]_vars => [Archive!Next]_(Archive!vars)
  <2> SUFFICES ASSUME IInv, [Next]_vars PROVE [Archive!Next]_(Archive!vars)
    OBVIOUS
  <2>1. CASE CommitSave
    BY <2>1, CommitIsPut
  <2>2. ASSUME members' = members, past'.saved = past.saved
        PROVE  UNCHANGED Archive!vars
    BY <2>2 DEF Archive!vars
  <2>3. CASE \E t \in Payloads, ms \in 1..MaxMs, rt \in Keys \cup {NoKey} :
               \/ \E ph \in Phases \ {Final} : SnapshotHook(t, ph, ms, rt)
               \/ PersistTurn(t, ms, rt)
    BY <2>2, <2>3 DEF SnapshotHook, PersistTurn, BeginSave, tables
  <2>4. CASE SaveBlock \/ AbortSave
    BY <2>2, <2>4 DEF SaveBlock, AbortSave, tables
  <2>5. CASE Opening
    BY <2>2, <2>5 DEF Opening, AddCreated, CopyCreated, AddColumns, SelectBackfill, BackfillRow,
                      Opened, tables
  <2>6. CASE Listing
    BY <2>2, <2>6 DEF Listing, ListStart, ListNext, ListDone, ListEnd, tables
  <2>7. CASE Crash
    BY <2>2, <2>7 DEF Crash, tables, IInv, TypeOK
  <2>8. CASE UNCHANGED vars
    BY <2>2, <2>8 DEF vars
  <2> QED
    BY <2>1, <2>3, <2>4, <2>5, <2>6, <2>7, <2>8 DEF Next, Saving
<1> HIDE DEF IInv
<1> QED
  BY <1>1, <1>2, InitInv, StepInv, PTL DEF Spec, ArchivesSnapshots, Archive!Spec
=============================================================================

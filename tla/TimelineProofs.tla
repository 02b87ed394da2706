---------------------------- MODULE TimelineProofs ----------------------------
(***************************************************************************)
(* Proofs about TimelineStore for any entities, limits and bounds: what a  *)
(* client that polls misses, that the index does not go back, that the two *)
(* stores hold the same, and that the in-memory one drops its oldest rows  *)
(* and no more than it must.  The last rests on the cardinalities: an      *)
(* Upsert adds at most one row to a store that is not over its limit, so   *)
(* there is at most one to drop, the one with none before it.              *)
(*                                                                         *)
(* Proofs about TimelineRuntime, which stands before the projection that   *)
(* fills these stores, for any conversations, runtimes and bounds: what a  *)
(* frame's reducers are documented to mean is written first, and all of    *)
(* it.                                                                     *)
(***************************************************************************)
EXTENDS TimelineStore, TimelineRuntime, FiniteSetTheorems, SequenceTheorems,
        WellFoundedInduction, TLAPS

(* The part of TypeOK that the proofs need: it leaves out how many rows    *)
(* and records there may be.                                               *)
ShapeOK ==
  /\ DOMAIN rows = Stores
  /\ \A s \in Stores : DOMAIN rows[s] \subseteq Ids
  /\ \A s \in Stores, i \in Ids : i \in DOMAIN rows[s] => rows[s][i].version \in Nat
  /\ version \in [Stores -> Nat]
  /\ backend \in Stores
  /\ current \in Nat
  /\ ~cut => since \in Nat
  /\ querying => backend = "sqlite"

(* What OnlyLateWritesAreMissed rests on: no entity's version is above the *)
(* conversation's, and until a snapshot is truncated neither is the        *)
(* version the client goes on from, nor the one SQLite has read for it.    *)
VersionsBounded ==
  /\ \A s \in Stores, i \in Ids : i \in DOMAIN rows[s] => rows[s][i].version <= version[s]
  /\ current <= version[backend]
  /\ ~cut => since <= version[backend]

IInv == ShapeOK /\ VersionsBounded /\ OnlyLateWritesAreMissed

-----------------------------------------------------------------------------
(* Writing and dropping rows *)

(* A store that drops rows keeps the others as they are.                   *)
LEMMA CappedKeeps ==
  ASSUME NEW r
  PROVE  /\ DOMAIN Capped(r) \subseteq DOMAIN r
         /\ \A i \in DOMAIN Capped(r) : Capped(r)[i] = r[i]
BY DEF Capped

(* What an Upsert leaves in a store is the row written or one there was,   *)
(* and the version of the store is that of the write or the larger one it  *)
(* had.                                                                    *)
LEMMA UpsertRows ==
  ASSUME IInv, NEW id \in Ids, NEW v \in Versions, NEW given \in 0..clock,
         Upsert(id, v, given), NEW s \in Stores
  PROVE  /\ DOMAIN rows'[s] \subseteq DOMAIN rows[s] \cup {id}
         /\ \A i \in DOMAIN rows'[s] :
              IF i = id THEN rows'[s][i].version = v
                        ELSE rows'[s][i] = rows[s][i]
         /\ version'[s] = (IF v > version[s] THEN v ELSE version[s])
<1> DEFINE mrow == [created |-> MemoryCreated(id, given), version |-> v, content |-> writes + 1]
           srow == [created |-> SqliteCreated(id, given), version |-> v, content |-> writes + 1]
           memory == With(rows["memory"], id, mrow)
           sqlite == With(rows["sqlite"], id, srow)
<1>1. /\ rows' = [t \in Stores |-> IF t = "memory" THEN Capped(memory) ELSE sqlite]
      /\ version' = [t \in Stores |-> IF t = "memory" THEN MemoryVersion(v) ELSE SqliteVersion(v)]
  BY DEF Upsert
<1>2. version'[s] = (IF v > version[s] THEN v ELSE version[s])
  BY <1>1 DEF Stores, MemoryVersion, SqliteVersion, Larger
<1>3. mrow.version = v /\ srow.version = v
  OBVIOUS
<1> HIDE DEF mrow, srow
<1>4. /\ DOMAIN memory = DOMAIN rows["memory"] \cup {id}
      /\ \A i \in DOMAIN memory : memory[i] = IF i = id THEN mrow ELSE rows["memory"][i]
  BY DEF With
<1>5. /\ DOMAIN sqlite = DOMAIN rows["sqlite"] \cup {id}
      /\ \A i \in DOMAIN sqlite : sqlite[i] = IF i = id THEN srow ELSE rows["sqlite"][i]
  BY DEF With
<1>6. /\ DOMAIN Capped(memory) \subseteq DOMAIN memory
      /\ \A i \in DOMAIN Capped(memory) : Capped(memory)[i] = memory[i]
  BY CappedKeeps, Zenon
<1> HIDE DEF memory, sqlite
<1>7. CASE s = "memory"
  <2>1. rows'[s] = Capped(memory)
    BY <1>1, <1>7
  <2> QED
    BY <1>2, <1>3, <1>4, <1>6, <1>7, <2>1
<1>8. CASE s = "sqlite"
  <2>1. rows'[s] = sqlite
    BY <1>1, <1>8
  <2> QED
    BY <1>2, <1>3, <1>5, <1>8, <2>1
<1> QED
  BY <1>7, <1>8 DEF Stores

-----------------------------------------------------------------------------
(* The invariant *)

(* The invariant holds at first.                                           *)
LEMMA InitInv == Init => IInv
BY DEF Init, IInv, ShapeOK, VersionsBounded, OnlyLateWritesAreMissed, Stores

(* A write is missed only if its version is not above what the client has. *)
LEMMA UpsertInv ==
  ASSUME IInv, NEW id \in Ids, NEW v \in Versions, NEW given \in 0..clock,
         Upsert(id, v, given)
  PROVE  IInv'
<1>1. \A s \in Stores :
        /\ DOMAIN rows'[s] \subseteq DOMAIN rows[s] \cup {id}
        /\ \A i \in DOMAIN rows'[s] :
             IF i = id THEN rows'[s][i].version = v
                       ELSE rows'[s][i] = rows[s][i]
        /\ version'[s] = (IF v > version[s] THEN v ELSE version[s])
  BY UpsertRows
<1>2. /\ UNCHANGED <<backend, since, view, current, querying, cut>>
      /\ late' = IF v > version[backend] THEN late \ {id} ELSE late \cup {id}
      /\ DOMAIN rows' = Stores /\ DOMAIN version' = Stores
      /\ version' = [s \in Stores |-> version'[s]]
  BY DEF Upsert, client
<1>3. v \in Nat
  BY StoreAssumption DEF Versions
<1>4. ShapeOK'
  BY <1>1, <1>2, <1>3 DEF IInv, ShapeOK
<1>5. VersionsBounded'
  BY <1>1, <1>2, <1>3 DEF IInv, ShapeOK, VersionsBounded
<1>6. OnlyLateWritesAreMissed'
  BY <1>1, <1>2, <1>3 DEF IInv, ShapeOK, VersionsBounded, OnlyLateWritesAreMissed
<1> QED
  BY <1>4, <1>5, <1>6 DEF IInv

(* A snapshot that is not truncated has every changed row.                 *)
LEMMA HydrateInv ==
  ASSUME IInv, NEW limit \in Limits, NEW v,
         Hydrate(backend, limit, v), UNCHANGED <<rows, version, backend, late>>,
         ~Truncated(backend, limit) => v \in Nat /\ v <= version[backend]
  PROVE  /\ ~cut' => since' \in Nat /\ since' <= version[backend]
         /\ OnlyLateWritesAreMissed'
<1>1. ~cut' => ~cut /\ ~Truncated(backend, limit)
  BY DEF Hydrate
<1>2. since' = v
  BY DEF Hydrate
<1>3. ASSUME ~cut', NEW i \in DOMAIN rows[backend],
             rows[backend][i].version <= since', i \notin late
      PROVE  view'[i] = rows[backend][i].content
  <2>1. i \in Ids
    BY DEF IInv, ShapeOK
  <2>2. view'[i] = IF i \in Changed(backend) THEN rows[backend][i].content ELSE view[i]
    BY <1>1, <1>3, <2>1 DEF Hydrate, Truncated
  <2>3. CASE i \notin Changed(backend)
    <3>1. rows[backend][i].version <= since
      BY <1>1, <1>3, <2>1, <2>3 DEF Changed, IInv, ShapeOK
    <3> QED
      BY <1>1, <1>3, <2>2, <2>3, <3>1 DEF IInv, OnlyLateWritesAreMissed
  <2> QED
    BY <2>2, <2>3
<1> QED
  BY <1>1, <1>2, <1>3 DEF OnlyLateWritesAreMissed

(* Every step keeps it.                                                    *)
LEMMA StepInv == IInv /\ [Next]_vars => IInv'
<1> SUFFICES ASSUME IInv, [Next]_vars PROVE IInv'
  OBVIOUS
<1>1. ASSUME NEW i \in Ids, NEW v \in Versions, NEW given \in 0..clock, Upsert(i, v, given)
      PROVE  IInv'
  BY <1>1, UpsertInv
<1>2. ASSUME NEW r \in Record, UpsertConversation(r)
      PROVE  IInv'
  BY <1>2 DEF IInv, ShapeOK, VersionsBounded, OnlyLateWritesAreMissed, UpsertConversation, client
<1>3. CASE Tick
  BY <1>3 DEF IInv, ShapeOK, VersionsBounded, OnlyLateWritesAreMissed, Tick, stored, client
<1>4. ASSUME NEW limit \in Limits, MemoryGetSnapshot(limit)
      PROVE  IInv'
  <2>1. /\ Hydrate(backend, limit, version[backend])
        /\ UNCHANGED <<rows, version, backend, late, current, querying>>
    BY <1>4 DEF MemoryGetSnapshot, MemorySnapshotVersion, stored
  <2>2. version[backend] \in Nat
    BY DEF IInv, ShapeOK
  <2>3. /\ ~cut' => since' \in Nat /\ since' <= version[backend]
        /\ OnlyLateWritesAreMissed'
    BY <2>1, <2>2, HydrateInv
  <2> QED
    BY <2>1, <2>3 DEF IInv, ShapeOK, VersionsBounded
<1>5. CASE ReadVersion
  <2>1. /\ current' = version[backend] /\ backend = "sqlite"
        /\ UNCHANGED <<rows, version, backend, since, view, cut, late>>
    BY <1>5 DEF ReadVersion, stored
  <2>2. version[backend] \in Nat
    BY DEF IInv, ShapeOK
  <2> QED
    BY <2>1, <2>2 DEF IInv, ShapeOK, VersionsBounded, OnlyLateWritesAreMissed
<1>6. ASSUME NEW limit \in Limits, ReadRows(limit)
      PROVE  IInv'
  <2>1. backend = "sqlite"
    BY <1>6 DEF ReadRows, IInv, ShapeOK
  <2>2. /\ Hydrate(backend, limit, SqliteSnapshotVersion(limit))
        /\ UNCHANGED <<rows, version, backend, late>>
        /\ current' = 0 /\ querying' = FALSE
    BY <1>6, <2>1 DEF ReadRows, stored
  <2>3. ~Truncated(backend, limit)
          => SqliteSnapshotVersion(limit) \in Nat /\ SqliteSnapshotVersion(limit) <= version[backend]
    BY <2>1 DEF SqliteSnapshotVersion, IInv, ShapeOK, VersionsBounded
  <2>4. /\ ~cut' => since' \in Nat /\ since' <= version[backend]
        /\ OnlyLateWritesAreMissed'
    BY <2>2, <2>3, HydrateInv
  <2>5. version[backend] \in Nat
    BY DEF IInv, ShapeOK
  <2> QED
    BY <2>2, <2>4, <2>5 DEF IInv, ShapeOK, VersionsBounded
<1>7. CASE UNCHANGED vars
  BY <1>7 DEF IInv, ShapeOK, VersionsBounded, OnlyLateWritesAreMissed, vars, stored, client
<1> QED
  BY <1>1, <1>2, <1>3, <1>4, <1>5, <1>6, <1>7 DEF Next

(* Whatever is written between two snapshots, or between the two           *)
(* statements of one, a client that polls misses only late writes.         *)
THEOREM OnlyLateMissed == Spec => []OnlyLateWritesAreMissed
<1>1. IInv => OnlyLateWritesAreMissed
  BY DEF IInv
<1> HIDE DEF IInv
<1> QED
  BY InitInv, StepInv, <1>1, PTL DEF Spec

-----------------------------------------------------------------------------
(* The conversation index *)

IndexRecord == [created : Nat, activity : Nat, seen : Nat,
                status : {"active", "evicted"}, runtime : Runtimes \cup {Empty}]

IndexInv ==
  /\ DOMAIN index = Stores
  /\ clock \in Nat
  /\ \A s \in Stores :
       /\ index[s] \subseteq IndexRecord
       /\ \A i \in Ids : i \in DOMAIN rows[s]
            => \E r \in index[s] : r.seen >= rows[s][i].version

(* A merged record goes on from the one there was and covers the new one.  *)
LEMMA MergedGoesOn ==
  ASSUME NEW old \in IndexRecord, NEW new \in IndexRecord
  PROVE  /\ Merged(old, new) \in IndexRecord
         /\ GoesOn(old, Merged(old, new))
         /\ Merged(old, new).seen >= new.seen
BY DEF IndexRecord, Merged, GoesOn, Activity, Larger

(* So does one merged by the ON CONFLICT clause.                           *)
LEMMA SqliteMergedGoesOn ==
  ASSUME NEW old \in IndexRecord, NEW new \in IndexRecord
  PROVE  /\ SqliteMerged(old, new) \in IndexRecord
         /\ GoesOn(old, SqliteMerged(old, new))
BY DEF IndexRecord, SqliteMerged, GoesOn, SqliteActivity

(* The record Upsert itself writes covers the entity's version.            *)
LEMMA SqliteProgressGoesOn ==
  ASSUME NEW old \in IndexRecord, NEW v \in Nat, clock \in Nat
  PROVE  /\ SqliteProgress(old, v) \in IndexRecord
         /\ GoesOn(old, SqliteProgress(old, v))
         /\ SqliteProgress(old, v).seen >= v
BY DEF IndexRecord, SqliteProgress, GoesOn, Larger

(* The same of the index as a whole, whichever way a record reaches it.    *)
LEMMA MemoryIndexGoesOn ==
  ASSUME index["memory"] \subseteq IndexRecord, NEW new \in IndexRecord
  PROVE  /\ MemoryIndex(new) \subseteq IndexRecord
         /\ \A old \in index["memory"] : \E r \in MemoryIndex(new) : GoesOn(old, r)
         /\ \E r \in MemoryIndex(new) : r.seen >= new.seen
<1>1. new.seen \in Nat
  BY DEF IndexRecord
<1> QED
  BY <1>1, MergedGoesOn DEF MemoryIndex

(* The same of the persistent index.                                       *)
LEMMA SqliteIndexGoesOn ==
  ASSUME index["sqlite"] \subseteq IndexRecord, NEW new \in IndexRecord
  PROVE  /\ SqliteIndex(new) \subseteq IndexRecord
         /\ \A old \in index["sqlite"] : \E r \in SqliteIndex(new) : GoesOn(old, r)
BY SqliteMergedGoesOn DEF SqliteIndex

(* The same of the persistent index when an entity is written.             *)
LEMMA SqliteIndexProgressGoesOn ==
  ASSUME index["sqlite"] \subseteq IndexRecord, NEW v \in Nat, clock \in Nat
  PROVE  /\ SqliteIndexProgress(v) \subseteq IndexRecord
         /\ \A old \in index["sqlite"] : \E r \in SqliteIndexProgress(v) : GoesOn(old, r)
         /\ \E r \in SqliteIndexProgress(v) : r.seen >= v
<1>1. Progress(v) \in IndexRecord /\ Progress(v).seen >= v
  BY DEF Progress, IndexRecord
<1> QED
  BY <1>1, SqliteProgressGoesOn DEF SqliteIndexProgress

(* A step leaves the index valid if it leaves each store's records, each   *)
(* going on from one there was, and covers the rows.                       *)
LEMMA IndexStep ==
  ASSUME IInv, IInv', IndexInv, DOMAIN index' = Stores, clock' \in Nat,
         \A s \in Stores :
           /\ index'[s] \subseteq IndexRecord
           /\ \A old \in index[s] : \E r \in index'[s] : GoesOn(old, r)
           /\ \A i \in DOMAIN rows'[s] :
                \/ i \in DOMAIN rows[s] /\ rows'[s][i] = rows[s][i]
                \/ \E r \in index'[s] : r.seen >= rows'[s][i].version
  PROVE  IndexInv' /\ IndexGoesOn
<1>1. ASSUME NEW s \in Stores, NEW i \in DOMAIN rows'[s]
      PROVE  \E r \in index'[s] : r.seen >= rows'[s][i].version
  <2>1. CASE i \in DOMAIN rows[s] /\ rows'[s][i] = rows[s][i]
    <3>1. i \in Ids /\ rows[s][i].version \in Nat
      BY <2>1 DEF IInv, ShapeOK
    <3>2. PICK old \in index[s] : old.seen >= rows[s][i].version
      BY <2>1, <3>1 DEF IndexInv
    <3>3. PICK r \in index'[s] : GoesOn(old, r)
      OBVIOUS
    <3>4. old.seen \in Nat /\ r.seen \in Nat
      BY DEF IndexInv, IndexRecord
    <3> QED
      BY <2>1, <3>1, <3>2, <3>3, <3>4 DEF GoesOn
  <2> QED
    BY <2>1
<1>2. IndexInv'
  BY <1>1 DEF IndexInv, IInv, ShapeOK
<1>3. IndexGoesOn
  BY <1>1 DEF IndexGoesOn
<1> QED
  BY <1>2, <1>3

(* Writing an entity keeps the index valid and takes no record back.       *)
LEMMA IndexUpsert ==
  ASSUME IInv, IInv', IndexInv,
         NEW id \in Ids, NEW v \in Versions, NEW given \in 0..clock, Upsert(id, v, given)
  PROVE  IndexInv' /\ IndexGoesOn
<1>1. clock' = clock /\ DOMAIN index' = Stores
  BY DEF Upsert
<1>2. \A s \in Stores : index[s] \subseteq IndexRecord
  BY DEF IndexInv
<1>3. \A s \in Stores : version[s] \in Nat /\ version'[s] \in Nat
  BY DEF IInv, ShapeOK
<1>4. ASSUME NEW s \in Stores
      PROVE  /\ index'[s] \subseteq IndexRecord
             /\ \A old \in index[s] : \E r \in index'[s] : GoesOn(old, r)
             /\ \E r \in index'[s] : r.seen >= version'[s]
  <2>1. CASE s = "memory"
    <3>1. /\ index'["memory"] = MemoryIndex(Progress(MemoryVersion(v)))
          /\ version'["memory"] = MemoryVersion(v)
      BY DEF Upsert, Stores
    <3>2. /\ Progress(MemoryVersion(v)) \in IndexRecord
          /\ Progress(MemoryVersion(v)).seen = MemoryVersion(v)
      BY <1>3, <2>1, <3>1 DEF Progress, IndexRecord, IndexInv
    <3> QED
      BY <1>2, <2>1, <3>1, <3>2, MemoryIndexGoesOn
  <2>2. CASE s = "sqlite"
    <3>1. /\ index'["sqlite"] = SqliteIndexProgress(SqliteVersion(v))
          /\ version'["sqlite"] = SqliteVersion(v)
      BY DEF Upsert, Stores
    <3>2. SqliteVersion(v) \in Nat /\ clock \in Nat
      BY <1>3, <2>2, <3>1 DEF IndexInv
    <3> QED
      BY <1>2, <2>2, <3>1, <3>2, SqliteIndexProgressGoesOn
  <2> QED
    BY <2>1, <2>2 DEF Stores
<1>5. ASSUME NEW s \in Stores, NEW i \in DOMAIN rows'[s]
      PROVE  \E r \in index'[s] : r.seen >= rows'[s][i].version
  <2>1. PICK r \in index'[s] : r.seen >= version'[s]
    BY <1>4
  <2>2. r.seen \in Nat
    BY <1>4 DEF IndexRecord
  <2>3. i \in Ids /\ rows'[s][i].version \in Nat /\ rows'[s][i].version <= version'[s]
    BY DEF IInv, ShapeOK, VersionsBounded
  <2> QED
    BY <1>3, <2>1, <2>2, <2>3
<1> QED
  BY <1>1, <1>4, <1>5, IndexStep DEF IndexInv

(* So does storing a conversation's record.                                *)
LEMMA IndexRecordStored ==
  ASSUME IInv, IInv', IndexInv, NEW record \in Record, UpsertConversation(record)
  PROVE  IndexInv' /\ IndexGoesOn
<1>1. /\ clock' = clock /\ rows' = rows
      /\ DOMAIN index' = Stores
      /\ index'["memory"] = MemoryIndex(record)
      /\ index'["sqlite"] = SqliteIndex(record)
  BY DEF UpsertConversation, Stores
<1>2. record \in IndexRecord
  BY StoreAssumption DEF Record, IndexRecord, Times
<1>3. index["memory"] \subseteq IndexRecord /\ index["sqlite"] \subseteq IndexRecord
  BY DEF IndexInv, Stores
<1>4. \A s \in Stores :
        /\ index'[s] \subseteq IndexRecord
        /\ \A old \in index[s] : \E r \in index'[s] : GoesOn(old, r)
  BY <1>1, <1>2, <1>3, MemoryIndexGoesOn, SqliteIndexGoesOn DEF Stores
<1> QED
  BY <1>1, <1>4, IndexStep DEF IndexInv

(* The index is valid at first.                                            *)
LEMMA IndexInit == Init => IndexInv
BY DEF Init, IndexInv, Stores

(* Every step keeps the index valid and takes no record back.              *)
LEMMA IndexNext ==
  ASSUME IInv, IInv', IndexInv, [Next]_vars
  PROVE  IndexInv' /\ [IndexGoesOn]_vars
<1>1. ASSUME NEW i \in Ids, NEW v \in Versions, NEW given \in 0..clock, Upsert(i, v, given)
      PROVE  IndexInv' /\ IndexGoesOn
  BY <1>1, IndexUpsert
<1>2. ASSUME NEW r \in Record, UpsertConversation(r)
      PROVE  IndexInv' /\ IndexGoesOn
  BY <1>2, IndexRecordStored
<1>3. ASSUME rows' = rows, index' = index, clock' \in Nat
      PROVE  IndexInv' /\ IndexGoesOn
  <2>1. \A s \in Stores : \A old \in index[s] : GoesOn(old, old)
    BY DEF IndexInv, IndexRecord, GoesOn
  <2> QED
    BY <1>3, <2>1, IndexStep DEF IndexInv
<1>4. CASE Tick
  BY <1>3, <1>4 DEF Tick, stored, IndexInv
<1>5. ASSUME NEW limit \in Limits, MemoryGetSnapshot(limit) \/ ReadRows(limit)
      PROVE  IndexInv' /\ IndexGoesOn
  BY <1>3, <1>5 DEF MemoryGetSnapshot, ReadRows, stored, IndexInv
<1>6. CASE ReadVersion
  BY <1>3, <1>6 DEF ReadVersion, stored, IndexInv
<1>7. CASE UNCHANGED vars
  BY <1>3, <1>7 DEF vars, stored, IndexInv
<1> QED
  BY <1>1, <1>2, <1>4, <1>5, <1>6, <1>7 DEF Next

(* No record, however late it is written, sets the index back, and the     *)
(* index always covers the entities.                                       *)
THEOREM IndexGoesOnForever == Spec => IndexNeverRegresses
<1>1. IInv /\ IInv' /\ IndexInv /\ [Next]_vars => IndexInv' /\ [IndexGoesOn]_vars
  BY IndexNext
<1> HIDE DEF IInv, IndexInv, IndexGoesOn
<1> QED
  BY InitInv, StepInv, IndexInit, <1>1, PTL DEF Spec, IndexNeverRegresses

-----------------------------------------------------------------------------
(* The two stores *)

(* Two empty stores agree.                                                 *)
LEMMA AgreeInit == Init => StoresAgree
BY DEF Init, StoresAgree, RowsAgree, IndexesAgree, Stores

(* The two give a written entity the same row.                             *)
LEMMA RowsAgreeAfterUpsert ==
  ASSUME IInv, RowsAgree,
         NEW id \in Ids, NEW v \in Versions, NEW given \in 0..clock, Upsert(id, v, given)
  PROVE  RowsAgree'
<1> DEFINE mrow == [created |-> MemoryCreated(id, given), version |-> v, content |-> writes + 1]
           srow == [created |-> SqliteCreated(id, given), version |-> v, content |-> writes + 1]
           memory == With(rows["memory"], id, mrow)
           sqlite == With(rows["sqlite"], id, srow)
<1>1. /\ rows'["memory"] = Capped(memory) /\ rows'["sqlite"] = sqlite
      /\ dropped' = dropped \cup (DOMAIN memory \ DOMAIN Capped(memory))
  BY DEF Upsert, Stores
<1>2. /\ mrow.version = srow.version /\ mrow.content = srow.content
      /\ id \notin dropped => mrow.created = srow.created
  BY DEF MemoryCreated, SqliteCreated, RowsAgree
<1> HIDE DEF mrow, srow
<1>3. /\ DOMAIN memory = DOMAIN rows["memory"] \cup {id}
      /\ \A i \in DOMAIN memory : memory[i] = IF i = id THEN mrow ELSE rows["memory"][i]
  BY DEF With
<1>4. /\ DOMAIN sqlite = DOMAIN rows["sqlite"] \cup {id}
      /\ \A i \in DOMAIN sqlite : sqlite[i] = IF i = id THEN srow ELSE rows["sqlite"][i]
  BY DEF With
<1>5. /\ DOMAIN Capped(memory) \subseteq DOMAIN memory
      /\ \A i \in DOMAIN Capped(memory) : Capped(memory)[i] = memory[i]
  BY CappedKeeps, Zenon
<1> HIDE DEF memory, sqlite
<1> QED
  BY <1>1, <1>2, <1>3, <1>4, <1>5 DEF RowsAgree

(* The two keep the same record of a conversation when an entity is        *)
(* written.                                                                *)
LEMMA IndexesAgreeAfterUpsert ==
  ASSUME IInv, IndexInv, IndexesAgree,
         NEW id \in Ids, NEW v \in Versions, NEW given \in 0..clock, Upsert(id, v, given)
  PROVE  IndexesAgree'
<1>1. /\ version'["memory"] = MemoryVersion(v) /\ version'["sqlite"] = SqliteVersion(v)
      /\ index'["memory"] = MemoryIndex(Progress(MemoryVersion(v)))
      /\ index'["sqlite"] = SqliteIndexProgress(SqliteVersion(v))
  BY DEF Upsert, Stores
<1>2. MemoryVersion(v) = SqliteVersion(v)
  BY DEF MemoryVersion, SqliteVersion, IndexesAgree
<1>3. ASSUME NEW r \in IndexRecord, NEW q \in IndexRecord, NEW n \in Nat, SameButStatus(r, q)
      PROVE  SameButStatus(Merged(r, Progress(n)), SqliteProgress(q, n))
  <2>1. /\ Progress(n).activity = clock /\ Progress(n).seen = n
        /\ Progress(n).runtime = Empty
    BY DEF Progress
  <2> QED
    BY <1>3, <2>1 DEF SameButStatus, Merged, SqliteProgress, Activity
<1>4. \A n : SameButStatus(Progress(n), Progress(n))
  BY DEF SameButStatus
<1>5. MemoryVersion(v) \in Nat
  BY StoreAssumption DEF MemoryVersion, Larger, Versions, Stores, IInv, ShapeOK
<1>6. index["memory"] \subseteq IndexRecord /\ index["sqlite"] \subseteq IndexRecord
  BY DEF IndexInv, Stores
<1>7. (index'["memory"] = {}) <=> (index'["sqlite"] = {})
  BY <1>1 DEF MemoryIndex, SqliteIndexProgress, IndexesAgree
<1>8. ASSUME NEW r \in index'["memory"], NEW q \in index'["sqlite"]
      PROVE  SameButStatus(r, q)
  <2>1. CASE index["memory"] = {}
    <3>1. r = Progress(MemoryVersion(v)) /\ q = Progress(SqliteVersion(v))
      BY <1>1, <2>1 DEF MemoryIndex, SqliteIndexProgress, IndexesAgree
    <3> QED
      BY <1>2, <1>3, <1>4, <1>5, <1>6, <3>1
  <2>2. CASE index["memory"] # {}
    <3>1. PICK a \in index["memory"] : r = Merged(a, Progress(MemoryVersion(v)))
      BY <1>1, <2>2 DEF MemoryIndex
    <3>2. PICK b \in index["sqlite"] : q = SqliteProgress(b, SqliteVersion(v))
      BY <1>1, <2>2 DEF SqliteIndexProgress, IndexesAgree
    <3>3. SameButStatus(a, b)
      BY DEF IndexesAgree
    <3> QED
      BY <1>2, <1>3, <1>4, <1>5, <1>6, <3>1, <3>2, <3>3
  <2> QED
    BY <2>1, <2>2
<1> QED
  BY <1>1, <1>2, <1>7, <1>8 DEF IndexesAgree

(* And when its record is stored.                                          *)
LEMMA IndexesAgreeAfterRecord ==
  ASSUME IndexInv, IndexesAgree, NEW record \in Record, UpsertConversation(record)
  PROVE  IndexesAgree'
<1>1. /\ version' = version
      /\ index'["memory"] = MemoryIndex(record) /\ index'["sqlite"] = SqliteIndex(record)
  BY DEF UpsertConversation, Stores
<1>2. ASSUME NEW r \in IndexRecord, NEW q \in IndexRecord, SameButStatus(r, q)
      PROVE  SameButStatus(Merged(r, record), SqliteMerged(q, record))
  <2>1. record.activity \in Nat /\ record.seen \in Nat
    BY StoreAssumption DEF Record, Times
  <2>2. r.activity \in Nat /\ r.seen \in Nat
    BY DEF IndexRecord
  <2> QED
    BY <1>2, <2>1, <2>2 DEF SameButStatus, Merged, SqliteMerged, Activity, SqliteActivity, Larger
<1>3. SameButStatus(record, record)
  BY DEF SameButStatus
<1>4. index["memory"] \subseteq IndexRecord /\ index["sqlite"] \subseteq IndexRecord
  BY DEF IndexInv, Stores
<1>5. (index'["memory"] = {}) <=> (index'["sqlite"] = {})
  BY <1>1 DEF MemoryIndex, SqliteIndex, IndexesAgree
<1>6. ASSUME NEW r \in index'["memory"], NEW q \in index'["sqlite"]
      PROVE  SameButStatus(r, q)
  <2>1. CASE index["memory"] = {}
    <3>1. r = record /\ q = record
      BY <1>1, <2>1 DEF MemoryIndex, SqliteIndex, IndexesAgree
    <3> QED
      BY <1>2, <1>3, <1>4, <3>1
  <2>2. CASE index["memory"] # {}
    <3>1. PICK a \in index["memory"] : r = Merged(a, record)
      BY <1>1, <2>2 DEF MemoryIndex
    <3>2. PICK b \in index["sqlite"] : q = SqliteMerged(b, record)
      BY <1>1, <2>2 DEF SqliteIndex, IndexesAgree
    <3>3. SameButStatus(a, b)
      BY DEF IndexesAgree
    <3> QED
      BY <1>2, <1>3, <1>4, <3>1, <3>2, <3>3
  <2> QED
    BY <2>1, <2>2
<1> QED
  BY <1>1, <1>5, <1>6 DEF IndexesAgree

(* Every step leaves two stores that agree in agreement.                   *)
LEMMA AgreeNext ==
  ASSUME IInv, IndexInv, StoresAgree, [Next]_vars
  PROVE  StoresAgree'
<1>1. ASSUME NEW i \in Ids, NEW v \in Versions, NEW given \in 0..clock, Upsert(i, v, given)
      PROVE  StoresAgree'
  BY <1>1, RowsAgreeAfterUpsert, IndexesAgreeAfterUpsert DEF StoresAgree
<1>2. ASSUME NEW r \in Record, UpsertConversation(r)
      PROVE  StoresAgree'
  <2>1. rows' = rows /\ dropped' = dropped
    BY <1>2 DEF UpsertConversation
  <2>2. RowsAgree'
    BY <2>1 DEF StoresAgree, RowsAgree
  <2> QED
    BY <1>2, <2>2, IndexesAgreeAfterRecord DEF StoresAgree
<1>3. ASSUME UNCHANGED <<rows, version, index, dropped>>
      PROVE  StoresAgree'
  BY <1>3 DEF StoresAgree, RowsAgree, IndexesAgree
<1>4. CASE Tick
  BY <1>3, <1>4 DEF Tick, stored
<1>5. ASSUME NEW limit \in Limits, MemoryGetSnapshot(limit) \/ ReadRows(limit)
      PROVE  StoresAgree'
  BY <1>3, <1>5 DEF MemoryGetSnapshot, ReadRows, stored
<1>6. CASE ReadVersion
  BY <1>3, <1>6 DEF ReadVersion, stored
<1>7. CASE UNCHANGED vars
  BY <1>3, <1>7 DEF vars, stored
<1> QED
  BY <1>1, <1>2, <1>4, <1>5, <1>6, <1>7 DEF Next

(* Given the same calls the two stores hold the same, whatever the         *)
(* in-memory one has dropped on the way.                                   *)
THEOREM StoresHoldTheSame == Spec => []StoresAgree
<1>1. IInv /\ IInv' /\ IndexInv /\ [Next]_vars => IndexInv'
  BY IndexNext
<1>2. IInv /\ IndexInv /\ StoresAgree /\ [Next]_vars => StoresAgree'
  BY AgreeNext
<1> HIDE DEF IInv, IndexInv, StoresAgree
<1> QED
  BY InitInv, StepInv, IndexInit, AgreeInit, <1>1, <1>2, PTL DEF Spec

-----------------------------------------------------------------------------
(* The least and the greatest *)

(* Every set of numbers has a least, and if bounded a greatest, number.    *)
LEMMA LeastNumber ==
  ASSUME NEW T \in SUBSET Nat, T # {}
  PROVE  \E m \in T : \A n \in T : m <= n
<1> DEFINE R == OpToRel(<, Nat)
<1>1. IsWellFoundedOn(R, Nat)
  BY NatLessThanWellFounded
<1>2. \A x, y \in Nat : y < x => <<y, x>> \in R
  BY DEF OpToRel
<1> HIDE DEF R
<1>3. PICK m \in T : \A n \in T : ~(<<n, m>> \in R)
  BY <1>1, WFMin, Zenon
<1>4. \A n \in T : ~(n < m)
  BY <1>2, <1>3, Zenon
<1> QED
  BY <1>4

LEMMA GreatestNumber ==
  ASSUME NEW T \in SUBSET Nat, T # {}, NEW b \in Nat, \A n \in T : n <= b
  PROVE  \E m \in T : \A n \in T : n <= m
<1> DEFINE U == {b - n : n \in T}
<1>1. U \in SUBSET Nat /\ U # {}
  <2>1. \A n \in T : n \in Nat /\ n <= b
    OBVIOUS
  <2>2. \A n \in T : b - n \in Nat
    BY <2>1
  <2> QED
    BY <2>2
<1>2. PICK u \in U : \A w \in U : u <= w
  BY <1>1, LeastNumber
<1>3. PICK m \in T : u = b - m
  OBVIOUS
<1>4. ASSUME NEW n \in T PROVE n <= m
  <2>1. b - m <= b - n
    BY <1>2, <1>3
  <2> QED
    BY <2>1
<1> QED
  BY <1>4

(* Ids ordered by a number and then by themselves: Before's versions and   *)
(* SeenBefore's times.                                                     *)
Earlier(f, i, j) == f[i] < f[j] \/ (f[i] = f[j] /\ i < j)

LEMMA EarliestExists ==
  ASSUME NEW D \in SUBSET Nat, D # {}, NEW f \in [D -> Nat]
  PROVE  \E i \in D : \A j \in D : ~Earlier(f, j, i)
<1>1. PICK m \in {f[i] : i \in D} : \A n \in {f[i] : i \in D} : m <= n
  <2>1. {f[i] : i \in D} \in SUBSET Nat /\ {f[i] : i \in D} # {}
    OBVIOUS
  <2> QED
    BY <2>1, LeastNumber
<1>2. PICK i \in {j \in D : f[j] = m} : \A j \in {j \in D : f[j] = m} : i <= j
  <2>1. {j \in D : f[j] = m} \in SUBSET Nat /\ {j \in D : f[j] = m} # {}
    OBVIOUS
  <2> QED
    BY <2>1, LeastNumber
<1>3. ASSUME NEW j \in D PROVE ~Earlier(f, j, i)
  <2>1. f[i] = m /\ m \in Nat /\ m <= f[j] /\ f[j] \in Nat /\ i \in Nat /\ j \in Nat
    BY <1>1, <1>2
  <2>2. f[j] = m => i <= j
    BY <1>2
  <2> QED
    BY <2>1, <2>2 DEF Earlier
<1> QED
  BY <1>2, <1>3

(* The latest is the one with most before it.                              *)
LEMMA LatestExists ==
  ASSUME NEW D \in SUBSET Nat, D # {}, IsFiniteSet(D), NEW f \in [D -> Nat]
  PROVE  \E i \in D : \A j \in D : ~Earlier(f, i, j)
<1> DEFINE Preds(i) == {j \in D : Earlier(f, j, i)}
           n == Cardinality(D)
           ranks == {Cardinality(Preds(i)) : i \in D}
<1>1. ASSUME NEW i \in D
      PROVE  IsFiniteSet(Preds(i)) /\ Cardinality(Preds(i)) \in Nat /\ Cardinality(Preds(i)) <= n
  <2>1. Preds(i) \in SUBSET D
    OBVIOUS
  <2> HIDE DEF Preds
  <2> QED
    BY <2>1, FS_Subset, FS_CardinalityType
<1>2. n \in Nat
  BY FS_CardinalityType
<1>3. ASSUME NEW i \in D, NEW j \in D, Earlier(f, i, j)
      PROVE  Cardinality(Preds(i)) < Cardinality(Preds(j))
  <2>1. ASSUME NEW k \in D, Earlier(f, k, i) PROVE Earlier(f, k, j)
    <3>1. i \in Nat /\ j \in Nat /\ k \in Nat /\ f[i] \in Nat /\ f[j] \in Nat /\ f[k] \in Nat
      OBVIOUS
    <3> QED
      BY <1>3, <2>1, <3>1 DEF Earlier
  <2>2. ~Earlier(f, i, i)
    BY DEF Earlier
  <2>3. Preds(i) \subseteq Preds(j) /\ i \in Preds(j) /\ i \notin Preds(i)
    BY <1>3, <2>1, <2>2
  <2>4. Preds(i) \in SUBSET Preds(j)
    BY <2>3
  <2> HIDE DEF Preds
  <2> QED
    BY <1>1, <2>3, <2>4, FS_Subset
<1> HIDE DEF Preds, n
<1>4. PICK m \in ranks : \A k \in ranks : k <= m
  <2>1. ranks \in SUBSET Nat /\ ranks # {} /\ \A k \in ranks : k <= n
    BY <1>1
  <2> QED
    BY <1>2, <2>1, GreatestNumber
<1>5. PICK i \in D : m = Cardinality(Preds(i))
  OBVIOUS
<1>6. ASSUME NEW j \in D PROVE ~Earlier(f, i, j)
  <2>1. Cardinality(Preds(j)) <= Cardinality(Preds(i))
    BY <1>4, <1>5
  <2>2. Cardinality(Preds(i)) \in Nat /\ Cardinality(Preds(j)) \in Nat
    BY <1>1
  <2>3. Earlier(f, i, j) => Cardinality(Preds(i)) < Cardinality(Preds(j))
    BY <1>3
  <2>4. ~(Cardinality(Preds(i)) < Cardinality(Preds(j)))
    BY <2>1, <2>2
  <2> QED
    BY <2>3, <2>4
<1> QED
  BY <1>6

(* Of one row too many, the in-memory store drops the oldest version.      *)
LEMMA CappedSize ==
  ASSUME NEW r, DOMAIN r \subseteq Nat, IsFiniteSet(DOMAIN r),
         \A i \in DOMAIN r : r[i].version \in Nat,
         Cardinality(DOMAIN r) <= MaxEntities + 1
  PROVE  /\ IsFiniteSet(DOMAIN Capped(r)) /\ Cardinality(DOMAIN Capped(r)) <= MaxEntities
         /\ Cardinality(DOMAIN r) <= MaxEntities => DOMAIN Capped(r) = DOMAIN r
         /\ DOMAIN Capped(r) # DOMAIN r =>
              /\ Cardinality(DOMAIN Capped(r)) = MaxEntities
              /\ \A i \in DOMAIN r \ DOMAIN Capped(r), j \in DOMAIN Capped(r) :
                   r[i].version <= r[j].version
<1> DEFINE D == DOMAIN r
           n == Cardinality(D)
           Preds(i) == {j \in D : Before(r, j, i)}
<1>1. n \in Nat /\ MaxEntities \in Nat
  BY FS_CardinalityType, StoreAssumption
<1>2. DOMAIN Capped(r) = {i \in D : Cardinality(Preds(i)) >= n - MaxEntities}
  BY DEF Capped
<1>3. ASSUME NEW i \in D
      PROVE  /\ IsFiniteSet(Preds(i)) /\ Cardinality(Preds(i)) \in Nat
             /\ Cardinality(Preds(i)) = 0 <=> Preds(i) = {}
  <2>1. Preds(i) \in SUBSET D
    OBVIOUS
  <2> HIDE DEF Preds
  <2> QED
    BY <2>1, FS_Subset, FS_CardinalityType, FS_EmptySet
<1>4. CASE n <= MaxEntities
  <2> HIDE DEF n, Preds
  <2>1. ASSUME NEW k \in Nat PROVE k >= n - MaxEntities
    BY <1>1, <1>4
  <2>2. DOMAIN Capped(r) = D
    BY <1>2, <1>3, <2>1
  <2> QED
    BY <1>4, <2>2 DEF n
<1>5. CASE ~(n <= MaxEntities)
  <2> DEFINE f == [i \in D |-> r[i].version]
  <2>1. n = MaxEntities + 1
    BY <1>1, <1>5
  <2>2. D # {}
    BY <1>1, <2>1, FS_EmptySet
  <2>3. PICK a \in D : \A j \in D : ~Earlier(f, j, a)
    <3>1. f \in [D -> Nat]
      OBVIOUS
    <3> HIDE DEF f
    <3> QED
      BY <2>2, <3>1, EarliestExists
  <2>4. \A j \in D : ~Before(r, j, a)
    BY <2>3 DEF Earlier, Before
  <2>5. \A j \in D : j # a => Before(r, a, j)
    <3> SUFFICES ASSUME NEW j \in D, j # a PROVE Before(r, a, j)
      OBVIOUS
    <3>1. a \in Nat /\ j \in Nat /\ r[a].version \in Nat /\ r[j].version \in Nat
      OBVIOUS
    <3> QED
      BY <2>4, <3>1 DEF Before
  <2>6. Preds(a) = {} /\ \A j \in D : j # a => Preds(j) # {}
    BY <2>4, <2>5
  <2>7. \A j \in D : Cardinality(Preds(j)) >= 1 <=> j # a
    <3> HIDE DEF Preds
    <3> QED
      BY <1>3, <2>6
  <2>8. n - MaxEntities = 1
    BY <1>1, <2>1
  <2>9. DOMAIN Capped(r) = D \ {a}
    <3> HIDE DEF Preds, n
    <3> QED
      BY <1>2, <2>7, <2>8
  <2>10. IsFiniteSet(D \ {a}) /\ Cardinality(D \ {a}) = n - 1
    BY FS_RemoveElement
  <2>11. n - 1 = MaxEntities
    BY <1>1, <2>1
  <2>12. \A j \in D : r[a].version <= r[j].version
    BY <2>4 DEF Before
  <2>13. ~(Cardinality(DOMAIN r) <= MaxEntities)
    BY <1>5
  <2> HIDE DEF n, Preds
  <2> QED
    BY <1>1, <2>9, <2>10, <2>11, <2>12, <2>13
<1> QED
  BY <1>4, <1>5

-----------------------------------------------------------------------------
(* Types *)

(* TypeOK, with what a cardinality of at most one stands for.              *)
OneRecord(S) == S = {} \/ \E r \in Record : S = {r}

TypeInv ==
  /\ clock \in Times /\ writes \in 0..MaxWrites /\ records \in 0..MaxRecords
  /\ DOMAIN rows = Stores /\ DOMAIN index = Stores
  /\ \A s \in Stores :
       /\ DOMAIN rows[s] \subseteq Ids
       /\ \A i \in DOMAIN rows[s] : rows[s][i] \in Row
       /\ OneRecord(index[s])
  /\ Cardinality(DOMAIN rows["memory"]) <= MaxEntities
  /\ version \in [Stores -> 0..MaxVersion]
  /\ backend \in Stores
  /\ since \in 0..MaxVersion /\ current \in 0..MaxVersion
  /\ view \in [Ids -> Contents \cup {Unread}]
  /\ querying \in BOOLEAN /\ (querying => backend = "sqlite") /\ cut \in BOOLEAN
  /\ late \subseteq Ids /\ dropped \subseteq Ids

LEMMA TypeInvInit == Init => TypeInv
<1> SUFFICES ASSUME Init PROVE TypeInv
  OBVIOUS
<1>1. /\ 1 \in Times /\ 0 \in 0..MaxWrites /\ 0 \in 0..MaxRecords /\ 0 \in 0..MaxVersion
      /\ 0 <= MaxEntities
  BY StoreAssumption DEF Times
<1>2. /\ DOMAIN rows = Stores /\ \A s \in Stores : DOMAIN rows[s] = {} /\ index[s] = {}
  BY DEF Init
<1>3. Cardinality(DOMAIN rows["memory"]) = 0
  BY <1>2, FS_EmptySet DEF Stores
<1> QED
  BY <1>1, <1>2, <1>3 DEF Init, TypeInv, OneRecord

(* What may be written of the conversation is one record. *)
LEMMA MergedTyped ==
  ASSUME NEW old \in Record, NEW new \in Record
  PROVE  Merged(old, new) \in Record /\ SqliteMerged(old, new) \in Record
<1>1. /\ old.created \in Times /\ old.activity \in Times /\ old.seen \in 0..MaxVersion
      /\ new.activity \in Times /\ new.seen \in 0..MaxVersion
      /\ new.status \in {"active", "evicted"}
      /\ old.runtime \in Runtimes \cup {Empty} /\ new.runtime \in Runtimes \cup {Empty}
  BY DEF Record
<1>2. /\ Activity(old, new) \in Times /\ Larger(old.seen, new.seen) \in 0..MaxVersion
      /\ SqliteActivity(old, new) \in Times
  BY <1>1 DEF Activity, SqliteActivity, Larger
<1> QED
  BY <1>1, <1>2 DEF Record, Merged, SqliteMerged

LEMMA ProgressTyped ==
  ASSUME clock \in Times, NEW v \in 0..MaxVersion
  PROVE  /\ Progress(v) \in Record
         /\ \A old \in Record : SqliteProgress(old, v) \in Record
<1>1. Progress(v) \in Record
  BY DEF Progress, Record
<1>2. ASSUME NEW old \in Record PROVE SqliteProgress(old, v) \in Record
  <2>1. /\ old.created \in Times /\ old.activity \in Times /\ old.seen \in 0..MaxVersion
        /\ old.status \in {"active", "evicted"} /\ old.runtime \in Runtimes \cup {Empty}
    BY DEF Record
  <2>2. Larger(old.activity, clock) \in Times /\ Larger(old.seen, v) \in 0..MaxVersion
    BY <2>1 DEF Larger
  <2> QED
    BY <2>1, <2>2 DEF SqliteProgress, Record
<1> QED
  BY <1>1, <1>2

LEMMA IndexTyped ==
  ASSUME OneRecord(index["memory"]), OneRecord(index["sqlite"]), clock \in Times
  PROVE  /\ \A new \in Record : OneRecord(MemoryIndex(new)) /\ OneRecord(SqliteIndex(new))
         /\ \A v \in 0..MaxVersion : OneRecord(SqliteIndexProgress(v))
<1>1. ASSUME NEW new \in Record PROVE OneRecord(MemoryIndex(new))
  <2>1. CASE index["memory"] = {}
    BY <2>1 DEF MemoryIndex, OneRecord
  <2>2. ASSUME NEW old \in Record, index["memory"] = {old} PROVE OneRecord(MemoryIndex(new))
    <3>1. MemoryIndex(new) = {Merged(old, new)}
      BY <2>2 DEF MemoryIndex
    <3> QED
      BY <3>1, MergedTyped DEF OneRecord
  <2> QED
    BY <2>1, <2>2 DEF OneRecord
<1>2. ASSUME NEW new \in Record PROVE OneRecord(SqliteIndex(new))
  <2>1. CASE index["sqlite"] = {}
    BY <2>1 DEF SqliteIndex, OneRecord
  <2>2. ASSUME NEW old \in Record, index["sqlite"] = {old} PROVE OneRecord(SqliteIndex(new))
    <3>1. SqliteIndex(new) = {SqliteMerged(old, new)}
      BY <2>2 DEF SqliteIndex
    <3> QED
      BY <3>1, MergedTyped DEF OneRecord
  <2> QED
    BY <2>1, <2>2 DEF OneRecord
<1>3. ASSUME NEW v \in 0..MaxVersion PROVE OneRecord(SqliteIndexProgress(v))
  <2>1. CASE index["sqlite"] = {}
    BY <2>1, ProgressTyped DEF SqliteIndexProgress, OneRecord
  <2>2. ASSUME NEW old \in Record, index["sqlite"] = {old} PROVE OneRecord(SqliteIndexProgress(v))
    <3>1. SqliteIndexProgress(v) = {SqliteProgress(old, v)}
      BY <2>2 DEF SqliteIndexProgress
    <3> QED
      BY <3>1, ProgressTyped DEF OneRecord
  <2> QED
    BY <2>1, <2>2 DEF OneRecord
<1> QED
  BY <1>1, <1>2, <1>3

(* What Upsert writes, and how the in-memory store drops. *)
DropsOldest ==
  LET gone == (DOMAIN rows["memory"] \ DOMAIN rows'["memory"])
      left == rows'["memory"]
  IN gone # {} =>
       /\ Cardinality(DOMAIN left) = MaxEntities
       /\ \A i \in gone, j \in DOMAIN left : rows["memory"][i].version <= left[j].version

LEMMA RowTyped ==
  ASSUME TypeInv, NEW id \in Ids, NEW v \in Versions, NEW given \in 0..clock, writes < MaxWrites
  PROVE  /\ [created |-> MemoryCreated(id, given), version |-> v, content |-> writes + 1] \in Row
         /\ [created |-> SqliteCreated(id, given), version |-> v, content |-> writes + 1] \in Row
<1>1. writes + 1 \in Contents
  BY StoreAssumption DEF TypeInv, Contents
<1>2. given > 0 => given \in Times
  BY StoreAssumption DEF TypeInv, Times
<1>3. MemoryCreated(id, given) \in Times /\ SqliteCreated(id, given) \in Times
  <2>1. \A s \in Stores : id \in DOMAIN rows[s] => rows[s][id].created \in Times
    BY DEF TypeInv, Row
  <2> QED
    BY <1>2, <2>1 DEF MemoryCreated, SqliteCreated, TypeInv, Stores
<1> QED
  BY <1>1, <1>3 DEF Row

LEMMA UpsertTypes ==
  ASSUME TypeInv, NEW id \in Ids, NEW v \in Versions, NEW given \in 0..clock, Upsert(id, v, given)
  PROVE  TypeInv' /\ DropsOldest
<1> DEFINE mrow == [created |-> MemoryCreated(id, given), version |-> v, content |-> writes + 1]
           srow == [created |-> SqliteCreated(id, given), version |-> v, content |-> writes + 1]
           memory == With(rows["memory"], id, mrow)
           sqlite == With(rows["sqlite"], id, srow)
<1>1. /\ rows' = [s \in Stores |-> IF s = "memory" THEN Capped(memory) ELSE sqlite]
      /\ writes < MaxWrites /\ writes' = writes + 1
      /\ version' = [s \in Stores |-> IF s = "memory" THEN MemoryVersion(v) ELSE SqliteVersion(v)]
      /\ index' = [s \in Stores |->
                     IF s = "memory" THEN MemoryIndex(Progress(MemoryVersion(v)))
                                     ELSE SqliteIndexProgress(SqliteVersion(v))]
      /\ late' = IF v > version[backend] THEN late \ {id} ELSE late \cup {id}
      /\ dropped' = dropped \cup (DOMAIN memory \ DOMAIN Capped(memory))
      /\ UNCHANGED <<clock, records, backend, since, view, current, querying, cut>>
  BY DEF Upsert, client
<1>2. mrow \in Row /\ srow \in Row
  BY <1>1, RowTyped
<1> HIDE DEF mrow, srow
<1>3. /\ DOMAIN memory = DOMAIN rows["memory"] \cup {id}
      /\ memory[id] = mrow
      /\ \A j \in DOMAIN rows["memory"] : j # id => memory[j] = rows["memory"][j]
  <2>1. /\ DOMAIN memory = DOMAIN rows["memory"] \cup {id}
        /\ \A i \in DOMAIN memory : memory[i] = IF i = id THEN mrow ELSE rows["memory"][i]
    BY DEF With
  <2> HIDE DEF memory
  <2> QED
    BY <2>1
<1>4. /\ DOMAIN sqlite = DOMAIN rows["sqlite"] \cup {id}
      /\ sqlite[id] = srow
      /\ \A j \in DOMAIN rows["sqlite"] : j # id => sqlite[j] = rows["sqlite"][j]
  <2>1. /\ DOMAIN sqlite = DOMAIN rows["sqlite"] \cup {id}
        /\ \A i \in DOMAIN sqlite : sqlite[i] = IF i = id THEN srow ELSE rows["sqlite"][i]
    BY DEF With
  <2> HIDE DEF sqlite
  <2> QED
    BY <2>1
<1> HIDE DEF memory, sqlite
<1>5. /\ DOMAIN memory \subseteq Ids /\ \A j \in DOMAIN memory : memory[j] \in Row
      /\ DOMAIN sqlite \subseteq Ids /\ \A j \in DOMAIN sqlite : sqlite[j] \in Row
  BY <1>2, <1>3, <1>4 DEF TypeInv, Stores
<1>6. /\ DOMAIN memory \subseteq Nat /\ IsFiniteSet(DOMAIN memory)
      /\ \A j \in DOMAIN memory : memory[j].version \in Nat
      /\ Cardinality(DOMAIN memory) <= MaxEntities + 1
  <2>1. DOMAIN rows["memory"] \in SUBSET Ids /\ DOMAIN memory \in SUBSET Ids
    BY <1>5 DEF TypeInv, Stores
  <2>2. IsFiniteSet(DOMAIN rows["memory"]) /\ IsFiniteSet(DOMAIN memory)
    BY <2>1, StoreAssumption, FS_Subset
  <2>3. /\ Cardinality(DOMAIN memory) <= Cardinality(DOMAIN rows["memory"]) + 1
        /\ Cardinality(DOMAIN rows["memory"]) \in Nat
    BY <1>3, <2>2, FS_AddElement, FS_CardinalityType
  <2>4. Cardinality(DOMAIN memory) \in Nat /\ MaxEntities \in Nat
        /\ Cardinality(DOMAIN rows["memory"]) <= MaxEntities
    BY <2>2, FS_CardinalityType, StoreAssumption DEF TypeInv
  <2>5. Cardinality(DOMAIN memory) <= MaxEntities + 1
    BY <2>3, <2>4
  <2>6. \A j \in DOMAIN memory : memory[j].version \in Nat
    BY <1>5, StoreAssumption DEF Row, Versions
  <2>7. DOMAIN memory \subseteq Nat
    BY <2>1, StoreAssumption
  <2> QED
    BY <2>2, <2>5, <2>6, <2>7
<1>7. /\ Cardinality(DOMAIN Capped(memory)) <= MaxEntities
      /\ Cardinality(DOMAIN memory) <= MaxEntities => DOMAIN Capped(memory) = DOMAIN memory
      /\ DOMAIN Capped(memory) # DOMAIN memory =>
           /\ Cardinality(DOMAIN Capped(memory)) = MaxEntities
           /\ \A i \in DOMAIN memory \ DOMAIN Capped(memory), j \in DOMAIN Capped(memory) :
                memory[i].version <= memory[j].version
  BY <1>6, CappedSize
<1>8. /\ DOMAIN Capped(memory) \subseteq DOMAIN memory
      /\ \A i \in DOMAIN Capped(memory) : Capped(memory)[i] = memory[i]
  BY CappedKeeps, Zenon
<1>9. rows'["memory"] = Capped(memory) /\ rows'["sqlite"] = sqlite /\ DOMAIN rows' = Stores
  BY <1>1 DEF Stores
<1>10. \A s \in Stores : /\ DOMAIN rows'[s] \subseteq Ids
                         /\ \A i \in DOMAIN rows'[s] : rows'[s][i] \in Row
  BY <1>5, <1>8, <1>9 DEF Stores
<1>11. MemoryVersion(v) \in 0..MaxVersion /\ SqliteVersion(v) \in 0..MaxVersion
  <2>1. version["memory"] \in 0..MaxVersion /\ version["sqlite"] \in 0..MaxVersion
    BY DEF TypeInv, Stores
  <2> QED
    BY <2>1, StoreAssumption DEF MemoryVersion, SqliteVersion, Larger, Versions
<1>12. version' \in [Stores -> 0..MaxVersion]
  BY <1>1, <1>11
<1>13. DOMAIN index' = Stores /\ \A s \in Stores : OneRecord(index'[s])
  <2>1. OneRecord(index["memory"]) /\ OneRecord(index["sqlite"]) /\ clock \in Times
    BY DEF TypeInv, Stores
  <2>2. /\ index'["memory"] = MemoryIndex(Progress(MemoryVersion(v)))
        /\ index'["sqlite"] = SqliteIndexProgress(SqliteVersion(v))
        /\ DOMAIN index' = Stores
    BY <1>1 DEF Stores
  <2>3. Progress(MemoryVersion(v)) \in Record
    BY <1>11, <2>1, ProgressTyped
  <2>4. OneRecord(index'["memory"]) /\ OneRecord(index'["sqlite"])
    BY <1>11, <2>1, <2>2, <2>3, IndexTyped
  <2> QED
    BY <2>2, <2>4 DEF Stores
<1>14. writes' \in 0..MaxWrites
  BY <1>1, StoreAssumption DEF TypeInv
<1>15. late' \subseteq Ids /\ dropped' \subseteq Ids
  BY <1>1, <1>5 DEF TypeInv
<1>16. TypeInv'
  BY <1>1, <1>7, <1>9, <1>10, <1>12, <1>13, <1>14, <1>15 DEF TypeInv
<1>17. DropsOldest
  <2> SUFFICES ASSUME NEW g \in DOMAIN rows["memory"] \ DOMAIN rows'["memory"]
               PROVE  /\ Cardinality(DOMAIN rows'["memory"]) = MaxEntities
                      /\ \A i \in DOMAIN rows["memory"] \ DOMAIN rows'["memory"],
                            j \in DOMAIN rows'["memory"] :
                           rows["memory"][i].version <= rows'["memory"][j].version
    BY DEF DropsOldest
  <2>1. DOMAIN Capped(memory) # DOMAIN memory
    BY <1>3, <1>9
  <2>2. ASSUME NEW i \in DOMAIN rows["memory"] \ DOMAIN rows'["memory"],
               NEW j \in DOMAIN rows'["memory"]
        PROVE  rows["memory"][i].version <= rows'["memory"][j].version
    <3>1. i \in DOMAIN memory \ DOMAIN Capped(memory) /\ j \in DOMAIN Capped(memory)
      BY <1>3, <1>9
    <3>2. memory[i].version <= memory[j].version /\ Capped(memory)[j] = memory[j]
      BY <1>7, <1>8, <2>1, <3>1
    <3>3. CASE i # id
      BY <1>3, <1>9, <3>2, <3>3
    <3>4. i # id
      <4>1. i = id => DOMAIN memory = DOMAIN rows["memory"]
        BY <1>3
      <4>2. Cardinality(DOMAIN rows["memory"]) <= MaxEntities
        BY DEF TypeInv
      <4> QED
        BY <1>7, <2>1, <4>1, <4>2
    <3> QED
      BY <3>3, <3>4
  <2> QED
    BY <1>7, <1>9, <2>1, <2>2
<1> QED
  BY <1>16, <1>17

(* A truncated page has a last row. *)
LEMMA LastRowTyped ==
  ASSUME TypeInv, NEW s \in Stores, NEW limit \in Limits, Truncated(s, limit)
  PROVE  LastRow(s, limit) \in Page(s, limit) /\ Page(s, limit) \subseteq DOMAIN rows[s]
<1> DEFINE C == Changed(s)
           P == Page(s, limit)
           f == [i \in DOMAIN rows[s] |-> rows[s][i].created]
<1>1. C \subseteq DOMAIN rows[s] /\ P \subseteq C /\ C # {}
  BY DEF Changed, Page, Truncated
<1>2. /\ DOMAIN rows[s] \in SUBSET Nat /\ IsFiniteSet(DOMAIN rows[s])
      /\ \A i \in DOMAIN rows[s] : rows[s][i].created \in Nat
  <2>1. DOMAIN rows[s] \in SUBSET Ids
    BY DEF TypeInv
  <2>2. \A i \in DOMAIN rows[s] : rows[s][i].created \in Times
    BY DEF TypeInv, Row
  <2>3. IsFiniteSet(DOMAIN rows[s]) /\ DOMAIN rows[s] \in SUBSET Nat
    BY <2>1, StoreAssumption, FS_Subset
  <2>4. \A t \in Times : t \in Nat
    BY StoreAssumption DEF Times
  <2> QED
    BY <2>2, <2>3, <2>4
<1>3. \A i, j \in DOMAIN rows[s] : SeenBefore(rows[s], i, j) <=> Earlier(f, i, j)
  BY DEF SeenBefore, Earlier
<1>4. f \in [DOMAIN rows[s] -> Nat]
  BY <1>2
<1> HIDE DEF C, P, f
<1>5. ASSUME NEW D \in SUBSET DOMAIN rows[s], D # {}
      PROVE  /\ \E i \in D : \A j \in D : ~SeenBefore(rows[s], j, i)
             /\ \E i \in D : \A j \in D : ~SeenBefore(rows[s], i, j)
  <2> DEFINE g == [i \in D |-> f[i]]
  <2>1. D \in SUBSET Nat /\ IsFiniteSet(D) /\ g \in [D -> Nat]
    BY <1>2, <1>4, FS_Subset
  <2>2. \A i, j \in D : Earlier(g, i, j) <=> SeenBefore(rows[s], i, j)
    BY <1>3 DEF Earlier
  <2> HIDE DEF g
  <2>3. \E i \in D : \A j \in D : ~Earlier(g, j, i)
    BY <1>5, <2>1, EarliestExists
  <2>4. \E i \in D : \A j \in D : ~Earlier(g, i, j)
    BY <1>5, <2>1, LatestExists
  <2> QED
    BY <2>2, <2>3, <2>4
<1>6. P # {}
  <2>1. PICK i \in C : \A j \in C : ~SeenBefore(rows[s], j, i)
    BY <1>1, <1>5
  <2>2. {j \in C : SeenBefore(rows[s], j, i)} = {}
    BY <2>1
  <2>3. Cardinality({j \in C : SeenBefore(rows[s], j, i)}) = 0 /\ 0 < limit
    BY <2>2, FS_EmptySet, StoreAssumption
  <2>4. i \in P
    BY <2>3 DEF P, Page, C
  <2> QED
    BY <2>4
<1>7. \E i \in P : \A j \in P : ~SeenBefore(rows[s], i, j)
  BY <1>1, <1>5, <1>6
<1> QED
  BY <1>1, <1>7 DEF LastRow, P

LEMMA HydrateTypes ==
  ASSUME TypeInv, NEW s \in Stores, NEW limit \in Limits, NEW v \in 0..MaxVersion,
         Hydrate(s, limit, v)
  PROVE  since' \in 0..MaxVersion /\ view' \in [Ids -> Contents \cup {Unread}] /\ cut' \in BOOLEAN
<1>1. /\ since' = v /\ cut' = (cut \/ Truncated(s, limit))
      /\ view' = [i \in Ids |-> IF i \in Page(s, limit) THEN rows[s][i].content ELSE view[i]]
  BY DEF Hydrate
<1>2. \A i \in Page(s, limit) : rows[s][i].content \in Contents
  BY DEF Page, Changed, TypeInv, Row
<1>3. view \in [Ids -> Contents \cup {Unread}]
  BY DEF TypeInv
<1>4. view' \in [Ids -> Contents \cup {Unread}]
  BY <1>1, <1>2, <1>3
<1>5. Truncated(s, limit) \in BOOLEAN /\ cut \in BOOLEAN
  BY DEF Truncated, TypeInv
<1> QED
  BY <1>1, <1>4, <1>5

LEMMA RecordTypes ==
  ASSUME TypeInv, NEW record \in Record, UpsertConversation(record)
  PROVE  TypeInv'
<1>1. /\ index' = [s \in Stores |->
                     IF s = "memory" THEN MemoryIndex(record) ELSE SqliteIndex(record)]
      /\ records < MaxRecords /\ records' = records + 1
      /\ UNCHANGED <<clock, writes, rows, version, backend, since, view, current, querying, cut,
                     late, dropped>>
  BY DEF UpsertConversation, client
<1>2. OneRecord(index["memory"]) /\ OneRecord(index["sqlite"]) /\ clock \in Times
  BY DEF TypeInv, Stores
<1>3. OneRecord(MemoryIndex(record)) /\ OneRecord(SqliteIndex(record))
  BY <1>2, IndexTyped
<1>4. DOMAIN index' = Stores /\ \A s \in Stores : OneRecord(index'[s])
  BY <1>1, <1>3 DEF Stores
<1>5. records' \in 0..MaxRecords
  BY <1>1, StoreAssumption DEF TypeInv
<1> QED
  BY <1>1, <1>4, <1>5 DEF TypeInv

LEMMA NextTypes == ASSUME TypeInv, [Next]_vars PROVE TypeInv' /\ [DropsOldest]_vars
<1>1. ASSUME NEW i \in Ids, NEW v \in Versions, NEW given \in 0..clock, Upsert(i, v, given)
      PROVE  TypeInv' /\ DropsOldest
  BY <1>1, UpsertTypes
<1>2. rows' = rows => DropsOldest
  BY DEF DropsOldest
<1>3. ASSUME NEW r \in Record, UpsertConversation(r) PROVE TypeInv' /\ DropsOldest
  BY <1>2, <1>3, RecordTypes DEF UpsertConversation
<1>4. CASE Tick
  <2>1. clock' \in Times
    BY <1>4, StoreAssumption DEF Tick, TypeInv, Times
  <2> QED
    BY <1>2, <1>4, <2>1 DEF Tick, TypeInv, stored, client
<1>5. ASSUME NEW limit \in Limits, MemoryGetSnapshot(limit) PROVE TypeInv' /\ DropsOldest
  <2>1. MemorySnapshotVersion \in 0..MaxVersion /\ "memory" \in Stores
    BY DEF TypeInv, Stores, MemorySnapshotVersion
  <2>2. since' \in 0..MaxVersion /\ view' \in [Ids -> Contents \cup {Unread}] /\ cut' \in BOOLEAN
    BY <1>5, <2>1, HydrateTypes DEF MemoryGetSnapshot
  <2> QED
    BY <1>2, <1>5, <2>2 DEF MemoryGetSnapshot, TypeInv, stored
<1>6. ASSUME NEW limit \in Limits, ReadRows(limit) PROVE TypeInv' /\ DropsOldest
  <2>1. "sqlite" \in Stores
    BY DEF Stores
  <2>2. SqliteSnapshotVersion(limit) \in 0..MaxVersion
    <3>1. CASE ~Truncated("sqlite", limit)
      BY <3>1 DEF SqliteSnapshotVersion, TypeInv
    <3>2. CASE Truncated("sqlite", limit)
      <4>1. LastRow("sqlite", limit) \in DOMAIN rows["sqlite"]
        BY <2>1, <3>2, LastRowTyped
      <4>2. rows["sqlite"][LastRow("sqlite", limit)].version \in Versions
        BY <2>1, <4>1 DEF TypeInv, Row
      <4> QED
        BY <3>2, <4>2, StoreAssumption DEF SqliteSnapshotVersion, Versions
    <3> QED
      BY <3>1, <3>2
  <2>3. since' \in 0..MaxVersion /\ view' \in [Ids -> Contents \cup {Unread}] /\ cut' \in BOOLEAN
    BY <1>6, <2>1, <2>2, HydrateTypes DEF ReadRows
  <2>4. 0 \in 0..MaxVersion
    BY StoreAssumption
  <2> QED
    BY <1>2, <1>6, <2>3, <2>4 DEF ReadRows, TypeInv, stored
<1>7. CASE ReadVersion
  BY <1>2, <1>7 DEF ReadVersion, TypeInv, stored, Stores
<1>8. CASE UNCHANGED vars
  BY <1>2, <1>8 DEF vars, stored, client, TypeInv
<1> QED
  BY <1>1, <1>3, <1>4, <1>5, <1>6, <1>7, <1>8 DEF Next

(* However many entities are written, the in-memory store keeps no more    *)
(* than maxEntitiesPerConv of them, a conversation has at most one record  *)
(* in either index, and every variable keeps its type.                     *)
THEOREM StoreTypeCorrect == Spec => []TypeOK
<1>1. TypeInv => TypeOK
  <2> SUFFICES ASSUME TypeInv PROVE TypeOK
    OBVIOUS
  <2>1. ASSUME NEW s \in Stores PROVE index[s] \subseteq Record /\ Cardinality(index[s]) <= 1
    <3>1. OneRecord(index[s])
      BY DEF TypeInv
    <3>2. CASE index[s] = {}
      BY <3>2, FS_EmptySet
    <3>3. ASSUME NEW r \in Record, index[s] = {r}
          PROVE  index[s] \subseteq Record /\ Cardinality(index[s]) <= 1
      BY <3>3, FS_Singleton
    <3> QED
      BY <3>1, <3>2, <3>3 DEF OneRecord
  <2> QED
    BY <2>1 DEF TypeInv, TypeOK
<1>2. TypeInv /\ [Next]_vars => TypeInv'
  BY NextTypes
<1> HIDE DEF TypeInv, TypeOK
<1> QED
  BY TypeInvInit, <1>1, <1>2, PTL DEF Spec

(* What the in-memory store drops is never newer than what it keeps, and   *)
(* it drops no more than it has to.                                        *)
THEOREM OldestAreDropped == Spec => MemoryDropsOldest
<1>1. TypeInv /\ [Next]_vars => TypeInv' /\ [DropsOldest]_vars
  BY NextTypes
<1>2. Spec => [][DropsOldest]_vars
  <2> HIDE DEF TypeInv, DropsOldest
  <2> QED
    BY TypeInvInit, <1>1, PTL DEF Spec
<1> QED
  BY <1>2 DEF DropsOldest, MemoryDropsOldest

-----------------------------------------------------------------------------
(* TimelineRuntime: the frames given to custom projections *)

(* What the reducers mean has been written, and then, by who, the rest.    *)
Begins(w, names) ==
  Len(names) <= Len(w) /\ \A j \in 1..Len(names) : w[j] = <<"js", names[j]>>
RestIs(w, names, who) == \A j \in (Len(names) + 1)..Len(w) : w[j] = <<who, EventId>>
Meant(c) == Begins(wrote[c], meant[c].ids)
Rest(c, who) == RestIs(wrote[c], meant[c].ids, who)

(* What was written and what is yet to be written is what was meant.       *)
Writing(c) ==
  /\ consume[c] = meant[c].consume
  /\ Len(wrote[c]) + Len(entities[c]) = Len(meant[c].ids)
  /\ \A j \in 1..Len(wrote[c]) : wrote[c][j] = <<"js", meant[c].ids[j]>>
  /\ \A j \in 1..Len(entities[c]) : entities[c][j] = meant[c].ids[Len(wrote[c]) + j]

FrameInv(c) ==
  /\ phase[c] = "calling" => using[c] # None /\ meant[c] = Nothing /\ wrote[c] = << >>
  /\ phase[c] = "upserting" => Writing(c)
  /\ phase[c] = "listing" => Meant(c) /\ Rest(c, "list") /\ ~meant[c].consume
                             /\ handlers[c] > 0
  /\ phase[c] = "builtin" => Meant(c) /\ ~meant[c].consume /\ Len(wrote[c]) = Len(meant[c].ids)
  /\ phase[c] = "idle" /\ outcome[c] # "none" => Projected(c)

RegistryInv == installed \notin replaced \cup closed

RuntimeIInv == RuntimeTypeOK /\ RegistryInv /\ \A c \in Conversations : FrameInv(c)

-----------------------------------------------------------------------------
(* Flattening, and what a reducer returned *)

(* FlattenSeq, of two sequences or more and of fewer.                      *)
Flattening(seqs, f) ==
  f = [i \in 1..Len(seqs) |-> IF i = 1 THEN seqs[i] ELSE f[i - 1] \o seqs[i]]

Joins(seqs, f) ==
  /\ FlattenSeq(seqs) = f[Len(seqs)]
  /\ \A i \in 1..Len(seqs) : f[i] = IF i = 1 THEN seqs[i] ELSE f[i - 1] \o seqs[i]

(* There is a sequence of the beginnings, joined, of sequences.            *)
LEMMA FlatteningExists ==
  ASSUME NEW S, NEW seqs \in Seq(Seq(S))
  PROVE  \E f \in [1..Len(seqs) -> Seq(S)] : Flattening(seqs, f)
<1> DEFINE Good(n, f) == \A i \in 1..n : f[i] = IF i = 1 THEN seqs[i] ELSE f[i - 1] \o seqs[i]
           Bad == {n \in 0..Len(seqs) : ~\E f \in [1..n -> Seq(S)] : Good(n, f)}
<1>1. ASSUME Bad # {} PROVE FALSE
  <2>1. PICK n \in Bad : \A k \in Bad : n <= k
    <3>1. Bad \in SUBSET Nat
      OBVIOUS
    <3> HIDE DEF Bad
    <3> QED
      BY <1>1, <3>1, LeastNumber
  <2>2. n # 0
    <3> SUFFICES ASSUME n = 0 PROVE FALSE
      OBVIOUS
    <3> DEFINE f == [i \in 1..0 |-> << >>]
    <3>1. f \in [1..0 -> Seq(S)] /\ Good(0, f)
      OBVIOUS
    <3> QED
      BY <2>1, <3>1
  <2>3. PICK k \in Nat : n = k + 1 /\ k < Len(seqs)
    <3>1. n \in 0..Len(seqs) /\ Len(seqs) \in Nat
      BY <2>1
    <3>2. n - 1 \in Nat /\ n = (n - 1) + 1 /\ n - 1 < Len(seqs)
      BY <2>2, <3>1
    <3> QED
      BY <3>2
  <2>4. PICK f \in [1..k -> Seq(S)] : Good(k, f)
    <3>1. k \notin Bad
      BY <2>1, <2>3
    <3>2. k \in 0..Len(seqs)
      BY <2>3
    <3> QED
      BY <3>1, <3>2
  <2> DEFINE next == IF n = 1 THEN seqs[n] ELSE f[k] \o seqs[n]
             g == [i \in 1..n |-> IF i = n THEN next ELSE f[i]]
  <2>5. next \in Seq(S)
    <3>1. seqs[n] \in Seq(S)
      BY <2>1, <2>2
    <3>2. CASE n = 1
      BY <3>1, <3>2
    <3>3. CASE n # 1
      <4>1. f[k] \in Seq(S)
        BY <2>3, <2>4, <3>3
      <4> QED
        BY <3>1, <3>3, <4>1, ConcatProperties
    <3> QED
      BY <3>2, <3>3
  <2>6. g[n] = next /\ \A i \in 1..k : g[i] = f[i]
    <3>1. n \in 1..n /\ \A i \in 1..k : i \in 1..n /\ i # n
      BY <2>3
    <3> HIDE DEF next
    <3> QED
      BY <3>1
  <2>7. g \in [1..n -> Seq(S)]
    <3> HIDE DEF next
    <3> QED
      BY <2>3, <2>4, <2>5
  <2>8. ASSUME NEW i \in 1..n
        PROVE  g[i] = IF i = 1 THEN seqs[i] ELSE g[i - 1] \o seqs[i]
    <3> HIDE DEF g
    <3>1. CASE i = n
      <4>1. CASE n = 1
        BY <2>6, <3>1, <4>1
      <4>2. CASE n # 1
        <5>1. k \in 1..k /\ i - 1 = k
          BY <2>3, <3>1, <4>2
        <5> QED
          BY <2>6, <3>1, <4>2, <5>1
      <4> QED
        BY <4>1, <4>2
    <3>2. CASE i # n
      <4>1. i \in 1..k /\ (i # 1 => i - 1 \in 1..k)
        BY <2>3, <3>2
      <4> QED
        BY <2>4, <2>6, <4>1
    <3> QED
      BY <3>1, <3>2
  <2> HIDE DEF g
  <2> QED
    BY <2>1, <2>7, <2>8
<1>2. Len(seqs) \in 0..Len(seqs)
  OBVIOUS
<1>3. PICK f \in [1..Len(seqs) -> Seq(S)] : Good(Len(seqs), f)
  BY <1>1, <1>2
<1>4. Flattening(seqs, f)
  BY <1>3 DEF Flattening
<1> QED
  BY <1>4

LEMMA FlattenSeqIs ==
  ASSUME NEW S, NEW seqs \in Seq(Seq(S)), Len(seqs) # 0
  PROVE  \E f \in [1..Len(seqs) -> Seq(S)] : Joins(seqs, f)
<1> DEFINE f == CHOOSE g : Flattening(seqs, g)
<1>1. FlattenSeq(seqs) = f[Len(seqs)]
  BY DEF FlattenSeq, Flattening
<1>2. Flattening(seqs, f)
  BY FlatteningExists
<1> HIDE DEF f
<1>3. \A i \in 1..Len(seqs) : f[i] = IF i = 1 THEN seqs[i] ELSE f[i - 1] \o seqs[i]
  BY <1>2 DEF Flattening
<1>4. PICK h \in [1..Len(seqs) -> Seq(S)] : Flattening(seqs, h)
  BY FlatteningExists
<1>5. ASSUME NEW j \in 1..Len(seqs), f[j] \notin Seq(S)
      PROVE  FALSE
  <2> DEFINE Bad == {i \in 1..Len(seqs) : f[i] \notin Seq(S)}
  <2>1. Bad \in SUBSET Nat
    OBVIOUS
  <2>2. Bad # {}
    BY <1>5
  <2>3. PICK i \in Bad : \A k \in Bad : i <= k
    <3> HIDE DEF Bad
    <3> QED
      BY <2>1, <2>2, LeastNumber
  <2>4. seqs[i] \in Seq(S) /\ i \in 1..Len(seqs) /\ f[i] \notin Seq(S)
    BY <2>3
  <2>5. CASE i = 1
    BY <1>3, <2>4, <2>5
  <2>6. CASE i # 1
    <3>1. i - 1 \in 1..Len(seqs) /\ i - 1 < i
      BY <2>4, <2>6
    <3>2. f[i - 1] \in Seq(S)
      BY <2>3, <3>1
    <3> QED
      BY <1>3, <2>4, <2>6, <3>2, ConcatProperties
  <2> QED
    BY <2>5, <2>6
<1>6. f \in [1..Len(seqs) -> Seq(S)]
  BY <1>2, <1>5 DEF Flattening
<1> QED
  BY <1>1, <1>3, <1>6 DEF Joins

(* Sequences, joined, have the elements they had.                          *)
LEMMA FlattenSeqType ==
  ASSUME NEW S, NEW seqs \in Seq(Seq(S))
  PROVE  FlattenSeq(seqs) \in Seq(S)
<1>1. CASE Len(seqs) = 0
  <2>1. FlattenSeq(seqs) = << >> /\ << >> \in Seq(S)
    BY <1>1 DEF FlattenSeq
  <2> QED
    BY <2>1
<1>2. CASE Len(seqs) # 0
  <2>1. PICK f \in [1..Len(seqs) -> Seq(S)] : Joins(seqs, f)
    BY <1>2, FlattenSeqIs
  <2>2. Len(seqs) \in 1..Len(seqs)
    BY <1>2
  <2> QED
    BY <2>1, <2>2 DEF Joins
<1> QED
  BY <1>1, <1>2

(* A single sequence, and three, joined.                                   *)
LEMMA FlattenOne ==
  ASSUME NEW S, NEW s \in Seq(S)
  PROVE  FlattenSeq(<<s>>) = s
<1> DEFINE seqs == <<s>>
<1>1. seqs \in Seq(Seq(S)) /\ Len(seqs) = 1 /\ seqs[1] = s /\ Len(seqs) # 0
  OBVIOUS
<1> HIDE DEF seqs
<1>2. PICK f \in [1..Len(seqs) -> Seq(S)] : Joins(seqs, f)
  BY <1>1, FlattenSeqIs
<1>3. FlattenSeq(seqs) = s
  BY <1>1, <1>2 DEF Joins
<1> QED
  BY <1>3 DEF seqs

LEMMA FlattenThree ==
  ASSUME NEW S, NEW seqs \in Seq(Seq(S)), Len(seqs) = 3
  PROVE  FlattenSeq(seqs) = (seqs[1] \o seqs[2]) \o seqs[3]
<1>1. PICK f \in [1..Len(seqs) -> Seq(S)] : Joins(seqs, f)
  <2>1. Len(seqs) # 0
    OBVIOUS
  <2> QED
    BY <2>1, FlattenSeqIs
<1>2. /\ FlattenSeq(seqs) = f[3]
      /\ \A i \in 1..3 : f[i] = IF i = 1 THEN seqs[i] ELSE f[i - 1] \o seqs[i]
  BY <1>1 DEF Joins
<1>3. f[1] = seqs[1] /\ f[2] = f[2 - 1] \o seqs[2] /\ f[3] = f[3 - 1] \o seqs[3]
  BY <1>2
<1>4. f[2 - 1] = f[1] /\ f[3 - 1] = f[2]
  OBVIOUS
<1> QED
  BY <1>2, <1>3, <1>4, Zenon

(* Two elements.                                                           *)
LEMMA TwoJoined ==
  ASSUME NEW S, NEW a \in S, NEW b \in S
  PROVE  (<<a>> \o << >>) \o <<b>> = <<a, b>>
<1> DEFINE s == <<a>>
           t == <<b>>
           u == <<a, b>>
<1>1. s \o << >> = s
  OBVIOUS
<1>2. s \in Seq(S) /\ t \in Seq(S) /\ u \in Seq(S)
  OBVIOUS
<1>3. Len(s) = 1 /\ Len(t) = 1 /\ Len(u) = 2 /\ u[1] = s[1] /\ u[2] = t[1]
  OBVIOUS
<1> HIDE DEF s, t, u
<1>4. /\ s \o t \in Seq(S) /\ Len(s \o t) = Len(s) + Len(t)
      /\ \A i \in 1..(Len(s) + Len(t)) :
           (s \o t)[i] = IF i <= Len(s) THEN s[i] ELSE t[i - Len(s)]
  BY <1>2, ConcatProperties
<1>5. Len(s \o t) = 2 /\ (s \o t)[1] = u[1] /\ (s \o t)[2] = u[2]
  BY <1>3, <1>4
<1>6. ASSUME NEW i \in 1..Len(u) PROVE (s \o t)[i] = u[i]
  <2>1. i = 1 \/ i = 2
    BY <1>3
  <2> QED
    BY <1>5, <2>1
<1>7. s \o t = u
  BY <1>2, <1>3, <1>4, <1>5, <1>6, SeqEqual
<1> QED
  BY <1>1, <1>7 DEF s, t, u

LEMMA EntityNamed ==
  ASSUME NEW o, "id" \in DOMAIN o, NEW name \in EntityIds, o.id = <<"string", name>>
  PROVE  decodeTimelineEntity(o) = name
<1>1. name # ""
  BY DEF EntityIds, EventId
<1>2. Field(o, "id") = o.id
  BY DEF Field
<1>3. o.id[1] = "string" /\ o.id[2] = name
  OBVIOUS
<1> QED
  BY <1>1, <1>2, <1>3 DEF decodeTimelineEntity

LEMMA EntityUnnamed ==
  ASSUME NEW o, "id" \notin DOMAIN o
  PROVE  decodeTimelineEntity(o) = EventId
<1>1. Field(o, "id") = <<"absent">>
  BY DEF Field
<1>2. Field(o, "id")[1] # "string"
  BY <1>1
<1> QED
  BY <1>2 DEF decodeTimelineEntity

LEMMA DecodeOwn ==
  decodeTimelineEntity(Own[2]) = "own" /\ decodeTimelineEntity(Unnamed[2]) = EventId
<1>1. /\ Own[2] = [id |-> <<"string", "own">>] /\ Unnamed[2] = [kind |-> <<"string", "k">>]
      /\ "own" \in EntityIds
  BY DEF Own, Unnamed, Object, EntityIds
<1>2. Own[2].id = <<"string", "own">> /\ "id" \in DOMAIN Own[2] /\ "id" \notin DOMAIN Unnamed[2]
  BY <1>1
<1> QED
  BY <1>1, <1>2, EntityNamed, EntityUnnamed

(* An array: what is not an object in it is passed over.                   *)
LEMMA DecodeArrays ==
  /\ decodeEntityArray(<<Own>>) = <<"own">>
  /\ decodeEntityArray(<<Own, <<"null">>, Unnamed>>) = <<"own", EventId>>
<1> DEFINE Of(v) == IF v[1] = "object" THEN <<decodeTimelineEntity(v[2])>> ELSE << >>
<1>1. Of(Own) = <<"own">> /\ Of(Unnamed) = <<EventId>>
  BY DecodeOwn DEF Own, Unnamed, Object
<1>2. Of(<<"null">>) = << >>
  OBVIOUS
<1>3. <<"own">> \in Seq(EntityIds) /\ << >> \in Seq(EntityIds) /\ <<EventId>> \in Seq(EntityIds)
  BY DEF EntityIds
<1>4. ASSUME NEW items
      PROVE  decodeEntityArray(items) = FlattenSeq([j \in DOMAIN items |-> Of(items[j])])
  BY DEF decodeEntityArray
<1> HIDE DEF Of
<1>5. decodeEntityArray(<<Own>>) = <<"own">>
  <2> DEFINE seqs == [j \in DOMAIN <<Own>> |-> Of(<<Own>>[j])]
  <2>1. seqs = << <<"own">> >>
    BY <1>1
  <2> HIDE DEF seqs
  <2>2. FlattenSeq(seqs) = <<"own">>
    BY <1>3, <2>1, FlattenOne
  <2> QED
    BY <1>4, <2>2 DEF seqs
<1>6. decodeEntityArray(<<Own, <<"null">>, Unnamed>>) = <<"own", EventId>>
  <2> DEFINE items == <<Own, <<"null">>, Unnamed>>
             seqs == [j \in DOMAIN items |-> Of(items[j])]
  <2>1. seqs = << <<"own">>, << >>, <<EventId>> >>
    BY <1>1, <1>2
  <2> HIDE DEF seqs
  <2>2. FlattenSeq(seqs) = (<<"own">> \o << >>) \o <<EventId>>
    <3>1. /\ seqs \in Seq(Seq(EntityIds)) /\ Len(seqs) = 3
          /\ seqs[1] = <<"own">> /\ seqs[2] = << >> /\ seqs[3] = <<EventId>>
      BY <1>3, <2>1
    <3>2. FlattenSeq(seqs) = (seqs[1] \o seqs[2]) \o seqs[3]
      BY <3>1, FlattenThree
    <3> QED
      BY <3>1, <3>2
  <2>3. (<<"own">> \o << >>) \o <<EventId>> = <<"own", EventId>>
    <3>1. "own" \in EntityIds /\ EventId \in EntityIds
      BY DEF EntityIds
    <3> QED
      BY <3>1, TwoJoined
  <2> QED
    BY <1>4, <2>2, <2>3 DEF seqs
<1> QED
  BY <1>5, <1>6

(* An object is an entity, unless it says what else it is.                 *)
LEMMA DecodeObjects ==
  /\ decodeObject([id |-> <<"string", "own">>]) = [consume |-> FALSE, ids |-> <<"own">>]
  /\ decodeObject([kind |-> <<"string", "k">>]) = [consume |-> FALSE, ids |-> <<EventId>>]
  /\ decodeObject([consume |-> True]) = [consume |-> TRUE, ids |-> << >>]
  /\ decodeObject([consume |-> True, upserts |-> Own]) = [consume |-> TRUE, ids |-> <<"own">>]
  /\ decodeObject([upserts |-> <<"array", <<Own>>>>]) = [consume |-> FALSE, ids |-> <<"own">>]
  /\ decodeObject([consume |-> True, id |-> <<"string", "other">>])
       = [consume |-> TRUE, ids |-> <<"other">>]
<1> DEFINE Absent == <<"absent">>
           Consumed(o) == Field(o, "consume") = True
<1>1. ASSUME NEW o, "consume" \notin DOMAIN o PROVE ~Consumed(o)
  <2>1. Field(o, "consume") = <<"absent">> /\ <<"absent">> # <<"bool", TRUE>>
    BY <1>1 DEF Field
  <2> QED
    BY <2>1 DEF True
<1>2. ASSUME NEW o, "consume" \in DOMAIN o, o.consume = True PROVE Consumed(o)
  BY <1>2 DEF Field
<1>3. ASSUME NEW o, "upserts" \notin DOMAIN o,
             "consume" \notin DOMAIN o \/ looksLikeTimelineEntityMap(o)
      PROVE  decodeObject(o) = [consume |-> Consumed(o), ids |-> <<decodeTimelineEntity(o)>>]
  BY <1>3 DEF decodeObject, True
<1>4. decodeObject([id |-> <<"string", "own">>]) = [consume |-> FALSE, ids |-> <<"own">>]
  <2> DEFINE o == [id |-> <<"string", "own">>]
  <2>1. /\ "upserts" \notin DOMAIN o /\ "consume" \notin DOMAIN o /\ "id" \in DOMAIN o
        /\ o.id = <<"string", "own">> /\ "own" \in EntityIds
    BY DEF EntityIds
  <2> HIDE DEF o
  <2>2. decodeTimelineEntity(o) = "own" /\ ~Consumed(o)
    BY <1>1, <2>1, EntityNamed
  <2>3. decodeObject(o) = [consume |-> FALSE, ids |-> <<"own">>]
    <3> HIDE DEF Consumed
    <3> QED
      BY <1>3, <2>1, <2>2
  <2> QED
    BY <2>3 DEF o
<1>5. decodeObject([kind |-> <<"string", "k">>]) = [consume |-> FALSE, ids |-> <<EventId>>]
  <2> DEFINE o == [kind |-> <<"string", "k">>]
  <2>1. "upserts" \notin DOMAIN o /\ "consume" \notin DOMAIN o /\ "id" \notin DOMAIN o
    OBVIOUS
  <2> HIDE DEF o
  <2>2. decodeTimelineEntity(o) = EventId /\ ~Consumed(o)
    BY <1>1, <2>1, EntityUnnamed
  <2>3. decodeObject(o) = [consume |-> FALSE, ids |-> <<EventId>>]
    <3> HIDE DEF Consumed
    <3> QED
      BY <1>3, <2>1, <2>2
  <2> QED
    BY <2>3 DEF o
<1>6. decodeObject([consume |-> True]) = [consume |-> TRUE, ids |-> << >>]
  <2> DEFINE o == [consume |-> True]
  <2>1. /\ "upserts" \notin DOMAIN o /\ "consume" \in DOMAIN o /\ o.consume = True
        /\ DOMAIN o = {"consume"}
    OBVIOUS
  <2> HIDE DEF o
  <2>2. ~looksLikeTimelineEntityMap(o) /\ Consumed(o)
    BY <1>2, <2>1 DEF looksLikeTimelineEntityMap
  <2>3. decodeObject(o) = [consume |-> TRUE, ids |-> << >>]
    BY <2>1, <2>2 DEF decodeObject, True
  <2> QED
    BY <2>3 DEF o
<1>7. decodeObject([consume |-> True, upserts |-> Own]) = [consume |-> TRUE, ids |-> <<"own">>]
  <2> DEFINE o == [consume |-> True, upserts |-> Own]
  <2>1. "upserts" \in DOMAIN o /\ "consume" \in DOMAIN o /\ o.consume = True /\ o.upserts = Own
    OBVIOUS
  <2>2. Own[1] = "object"
    BY DEF Own, Object
  <2>3. Upserts(Own) = <<"own">>
    BY <2>2, DecodeOwn DEF Upserts
  <2> HIDE DEF o
  <2>4. Consumed(o)
    BY <1>2, <2>1
  <2>5. decodeObject(o) = [consume |-> TRUE, ids |-> <<"own">>]
    BY <2>1, <2>3, <2>4 DEF decodeObject, True
  <2> QED
    BY <2>5 DEF o
<1>8. decodeObject([upserts |-> <<"array", <<Own>>>>]) = [consume |-> FALSE, ids |-> <<"own">>]
  <2> DEFINE a == <<"array", <<Own>>>>
             o == [upserts |-> a]
  <2>1. a[1] = "array" /\ a[2] = <<Own>>
    OBVIOUS
  <2> HIDE DEF a
  <2>2. "upserts" \in DOMAIN o /\ "consume" \notin DOMAIN o /\ o.upserts = a
    OBVIOUS
  <2>3. Upserts(a) = <<"own">>
    BY <2>1, DecodeArrays DEF Upserts
  <2> HIDE DEF o
  <2>4. ~Consumed(o)
    BY <1>1, <2>2
  <2>5. decodeObject(o) = [consume |-> FALSE, ids |-> <<"own">>]
    BY <2>2, <2>3, <2>4 DEF decodeObject, True
  <2> QED
    BY <2>5 DEF o, a
<1>9. decodeObject([consume |-> True, id |-> <<"string", "other">>])
        = [consume |-> TRUE, ids |-> <<"other">>]
  <2> DEFINE o == [consume |-> True, id |-> <<"string", "other">>]
  <2>1. /\ "upserts" \notin DOMAIN o /\ "consume" \in DOMAIN o /\ "id" \in DOMAIN o
        /\ o.id = <<"string", "other">> /\ o.consume = True /\ "other" \in EntityIds
    BY DEF EntityIds
  <2> HIDE DEF o
  <2>2. decodeTimelineEntity(o) = "other" /\ Consumed(o)
    BY <1>2, <2>1, EntityNamed
  <2>3. looksLikeTimelineEntityMap(o)
    BY <2>1 DEF looksLikeTimelineEntityMap
  <2>4. decodeObject(o) = [consume |-> TRUE, ids |-> <<"other">>]
    <3> HIDE DEF Consumed
    <3> QED
      BY <1>3, <2>1, <2>2, <2>3
  <2> QED
    BY <2>4 DEF o
<1> QED
  BY <1>4, <1>5, <1>6, <1>7, <1>8, <1>9

(* Each value a reducer may return decodes to what it is documented to     *)
(* mean, which is of the right type.                                       *)
LEMMA ReturnDecodes ==
  ASSUME NEW r \in Returned \cup {Threw}
  PROVE  decodeReducerReturn(r.value) = r.meaning /\ r.meaning \in Decoded
<1> DEFINE Right(value, consumed, names) ==
             decodeReducerReturn(value) = [consume |-> consumed, ids |-> names]
           Typed(names) == names \in Seq(EntityIds)
<1>1. ASSUME NEW value, NEW consumed \in BOOLEAN, NEW names,
             r = Means(value, consumed, names), Right(value, consumed, names), Typed(names)
      PROVE  decodeReducerReturn(r.value) = r.meaning /\ r.meaning \in Decoded
  BY <1>1 DEF Means, Decoded
<1>2. Typed(<< >>) /\ Typed(<<"own">>) /\ Typed(<<EventId>>) /\ Typed(<<"other">>)
  BY DEF EntityIds
<1>3. Typed(<<"own", EventId>>)
  BY DEF EntityIds
<1>4. Right(<<"undefined">>, FALSE, << >>) /\ Right(<<"null">>, FALSE, << >>)
  BY DEF decodeReducerReturn, Nothing
<1>5. Right(True, TRUE, << >>)
  BY DEF decodeReducerReturn, True
<1>6. /\ Right(Own, FALSE, <<"own">>)
      /\ Right(Unnamed, FALSE, <<EventId>>)
  BY DecodeObjects DEF decodeReducerReturn, Own, Unnamed, Object
<1>7. Right(<<"array", <<Own, <<"null">>, Unnamed>>>>, FALSE, <<"own", EventId>>)
  <2> DEFINE items == <<Own, <<"null">>, Unnamed>>
  <2>1. decodeEntityArray(items) = <<"own", EventId>>
    BY DecodeArrays
  <2> HIDE DEF items
  <2>2. Right(<<"array", items>>, FALSE, <<"own", EventId>>)
    BY <2>1 DEF decodeReducerReturn
  <2> QED
    BY <2>2 DEF items
<1>8. ASSUME NEW o, NEW d, decodeObject(o) = d
      PROVE  decodeReducerReturn(Object(o)) = d
  BY <1>8 DEF decodeReducerReturn, Object
<1>9. /\ Right(Object([consume |-> True]), TRUE, << >>)
      /\ Right(Object([consume |-> True, upserts |-> Own]), TRUE, <<"own">>)
      /\ Right(Object([upserts |-> <<"array", <<Own>>>>]), FALSE, <<"own">>)
      /\ Right(Object([consume |-> True, id |-> <<"string", "other">>]), TRUE, <<"other">>)
  BY <1>8, DecodeObjects
<1> HIDE DEF Right, Typed
<1> QED
  BY <1>1, <1>2, <1>3, <1>4, <1>5, <1>6, <1>7, <1>9 DEF Returned, Threw

(* What all of them returned decodes to what all of them mean.             *)
LEMMA AllDecode ==
  ASSUME NEW n \in Nat, NEW returned \in [1..n -> Returned \cup {Threw}]
  PROVE  LET all == All([j \in 1..n |-> decodeReducerReturn(returned[j].value)])
             meaning == All([j \in 1..n |-> returned[j].meaning])
         IN  all = meaning /\ meaning \in Decoded
<1> DEFINE answers == [j \in 1..n |-> decodeReducerReturn(returned[j].value)]
           meanings == [j \in 1..n |-> returned[j].meaning]
           names == [j \in DOMAIN meanings |-> meanings[j].ids]
<1>1. \A j \in 1..n : /\ decodeReducerReturn(returned[j].value) = returned[j].meaning
                      /\ returned[j].meaning \in Decoded
  BY ReturnDecodes
<1>2. answers = meanings
  BY <1>1, Zenon
<1>3. names \in Seq(Seq(EntityIds))
  <2>1. \A j \in 1..n : returned[j].meaning.ids \in Seq(EntityIds)
    BY <1>1 DEF Decoded
  <2>2. names = [j \in 1..n |-> returned[j].meaning.ids]
    OBVIOUS
  <2> QED
    BY <2>1, <2>2
<1>4. All(meanings) \in Decoded
  <2> HIDE DEF meanings
  <2>1. FlattenSeq(names) \in Seq(EntityIds)
    <3> HIDE DEF names
    <3> QED
      BY <1>3, FlattenSeqType
  <2>2. (\E j \in DOMAIN meanings : meanings[j].consume) \in BOOLEAN
    OBVIOUS
  <2> QED
    BY <2>1, <2>2 DEF All, Decoded
<1> QED
  BY <1>2, <1>4

-----------------------------------------------------------------------------
(* One step of a frame *)

Entry == {"js", "list", "builtin"} \X EntityIds

(* A frame is at the same point, and no runtime was opened again.          *)
SameFrame(c) ==
  /\ phase'[c] = phase[c] /\ type'[c] = type[c] /\ using'[c] = using[c]
  /\ handlers'[c] = handlers[c] /\ entities'[c] = entities[c] /\ consume'[c] = consume[c]
  /\ meant'[c] = meant[c] /\ wrote'[c] = wrote[c] /\ outcome'[c] = outcome[c]
  /\ closed \subseteq closed'

LEMMA FrameKept ==
  ASSUME NEW c \in Conversations, FrameInv(c), SameFrame(c)
  PROVE  FrameInv(c)'
<1>1. Meant(c) => Meant(c)'
  BY DEF Meant, SameFrame
<1>2. Rest(c, "list") => Rest(c, "list")'
  BY DEF Rest, SameFrame
<1>3. Writing(c) => Writing(c)'
  BY DEF Writing, SameFrame
<1>4. \A who : By(c, who)' = By(c, who)
  BY DEF By, SameFrame
<1>5. Projected(c) => Projected(c)'
  BY <1>4 DEF Projected, SameFrame
<1> QED
  BY <1>1, <1>2, <1>3, <1>5 DEF FrameInv, SameFrame

(* The first elements of a sequence.                                       *)
LEMMA FirstElements ==
  ASSUME NEW S, NEW s \in Seq(S), NEW n \in Nat, n <= Len(s)
  PROVE  /\ SubSeq(s, 1, n) \in Seq(S) /\ Len(SubSeq(s, 1, n)) = n
         /\ \A i \in 1..n : SubSeq(s, 1, n)[i] = s[i]
<1>1. \A i \in 1..n : s[i] \in S
  OBVIOUS
<1>2. /\ SubSeq(s, 1, n) \in Seq(S) /\ Len(SubSeq(s, 1, n)) = IF 1 <= n THEN n - 1 + 1 ELSE 0
      /\ \A i \in 1..(n - 1 + 1) : SubSeq(s, 1, n)[i] = s[1 + i - 1]
  BY <1>1, SubSeqProperties
<1>3. (IF 1 <= n THEN n - 1 + 1 ELSE 0) = n /\ n - 1 + 1 = n
  OBVIOUS
<1>4. ASSUME NEW i \in 1..n PROVE SubSeq(s, 1, n)[i] = s[i]
  <2>1. 1 + i - 1 = i
    OBVIOUS
  <2>2. SubSeq(s, 1, n)[i] = s[1 + i - 1]
    BY <1>2, <1>3
  <2> QED
    BY <2>1, <2>2
<1> QED
  BY <1>2, <1>3, <1>4

(* What has been written begins with what was meant.                       *)
LEMMA JsIsPrefix ==
  ASSUME NEW names \in Seq(EntityIds), NEW w \in Seq(Entry), Begins(w, names)
  PROVE  LET js == [j \in DOMAIN names |-> <<"js", names[j]>>]
         IN  IsPrefix(js, w) /\ Len(js) = Len(names)
<1> DEFINE js == [j \in DOMAIN names |-> <<"js", names[j]>>]
<1>1. PICK n \in Nat : n = Len(names) /\ DOMAIN names = 1..n
  OBVIOUS
<1>2. \A j \in 1..n : w[j] \in Entry /\ w[j] = <<"js", names[j]>>
  <2>1. \A j \in 1..n : j \in 1..Len(w)
    BY <1>1 DEF Begins
  <2> HIDE DEF Entry
  <2> QED
    BY <1>1, <2>1 DEF Begins
<1>3. js = [j \in 1..n |-> w[j]]
  BY <1>1, <1>2
<1>4. [j \in 1..n |-> w[j]] \in Seq(Entry) /\ Len([j \in 1..n |-> w[j]]) = n
  BY <1>2
<1> HIDE DEF js
<1>5. js \in Seq(Entry) /\ Len(js) = n /\ n <= Len(w) /\ \A j \in 1..n : js[j] = w[j]
  BY <1>1, <1>3, <1>4 DEF Begins
<1>6. /\ SubSeq(js, 1, n) \in Seq(Entry) /\ Len(SubSeq(js, 1, n)) = n
      /\ \A j \in 1..n : SubSeq(js, 1, n)[j] = js[j]
  BY <1>5, FirstElements
<1>7. /\ SubSeq(w, 1, n) \in Seq(Entry) /\ Len(SubSeq(w, 1, n)) = n
      /\ \A j \in 1..n : SubSeq(w, 1, n)[j] = w[j]
  BY <1>5, FirstElements
<1>8. SubSeq(js, 1, n) = SubSeq(w, 1, n)
  <2>1. \A j \in 1..Len(SubSeq(js, 1, n)) : SubSeq(js, 1, n)[j] = SubSeq(w, 1, n)[j]
    BY <1>5, <1>6, <1>7
  <2> QED
    BY <1>6, <1>7, <2>1, SeqEqual
<1>9. IsPrefix(js, w) /\ Len(js) = Len(names)
  BY <1>1, <1>5, <1>8 DEF IsPrefix
<1> QED
  BY <1>9 DEF js

(* Whose writes are those after the ones that were meant.                  *)
LEMMA RestIsBy ==
  ASSUME NEW names \in Seq(EntityIds), NEW w \in Seq(Entry), Begins(w, names),
         NEW who, who # "js", RestIs(w, names, who)
  PROVE  {j \in DOMAIN w : w[j][1] = who} = (Len(names) + 1)..Len(w)
<1>1. PICK k \in Nat : k = Len(names)
  OBVIOUS
<1>2. PICK n \in Nat : n = Len(w) /\ DOMAIN w = 1..n
  OBVIOUS
<1>3. ASSUME NEW j \in 1..n PROVE w[j][1] = who <=> j \in (k + 1)..n
  <2>1. CASE j <= k
    <3>1. w[j] = <<"js", names[j]>>
      BY <1>1, <2>1 DEF Begins
    <3> QED
      BY <2>1, <3>1
  <2>2. CASE ~(j <= k)
    <3>1. j \in (k + 1)..n
      BY <2>2
    <3>2. w[j] = <<who, EventId>>
      BY <1>1, <1>2, <3>1 DEF RestIs
    <3> QED
      BY <3>1, <3>2
  <2> QED
    BY <2>1, <2>2
<1>4. (k + 1)..n \subseteq 1..n
  OBVIOUS
<1> QED
  BY <1>1, <1>2, <1>3, <1>4

(* What a handler or the projection writes comes after what was meant.     *)
LEMMA RestGrows ==
  ASSUME NEW names \in Seq(EntityIds), NEW w \in Seq(Entry), Begins(w, names),
         NEW who \in {"list", "builtin"}, RestIs(w, names, who)
  PROVE  LET next == Append(w, <<who, EventId>>)
         IN  /\ next \in Seq(Entry) /\ Begins(next, names) /\ RestIs(next, names, who)
             /\ Len(next) = Len(w) + 1
<1> DEFINE e == <<who, EventId>>
           next == Append(w, e)
<1>1. e \in Entry
  BY DEF Entry, EntityIds
<1> HIDE DEF Entry
<1>2. /\ next \in Seq(Entry) /\ Len(next) = Len(w) + 1
      /\ \A i \in 1..Len(w) : next[i] = w[i]
      /\ next[Len(w) + 1] = e
  BY <1>1, AppendProperties
<1> HIDE DEF next
<1>3. PICK k \in Nat, n \in Nat : k = Len(names) /\ n = Len(w) /\ k <= n
  BY LenProperties DEF Begins
<1>4. Begins(next, names)
  <2>1. k <= n + 1 /\ 1..k \subseteq 1..n
    BY <1>3
  <2> QED
    BY <1>2, <1>3, <2>1 DEF Begins
<1>5. ASSUME NEW j \in (k + 1)..(n + 1) PROVE next[j] = e
  <2>1. CASE j = n + 1
    BY <1>2, <1>3, <2>1
  <2>2. CASE j # n + 1
    <3>1. j \in 1..n /\ j \in (k + 1)..n
      BY <1>3, <2>2
    <3> QED
      BY <1>2, <1>3, <3>1 DEF RestIs
  <2> QED
    BY <2>1, <2>2
<1>6. RestIs(next, names, who)
  BY <1>2, <1>3, <1>5 DEF RestIs
<1> QED
  BY <1>2, <1>4, <1>6 DEF next

-----------------------------------------------------------------------------
(* What the application does *)

DispatchTypes ==
  /\ events \in [Conversations -> 0..MaxEvents]
  /\ phase \in [Conversations -> Phases]
  /\ type \in [Conversations -> Types]
  /\ using \in [Conversations -> JSRuntimes \cup {None}]
  /\ handlers \in [Conversations -> Nat]
  /\ entities \in [Conversations -> Seq(EntityIds)]
  /\ consume \in [Conversations -> BOOLEAN]
  /\ meant \in [Conversations -> Decoded]
  /\ wrote \in [Conversations -> Seq({"js", "list", "builtin"} \X EntityIds)]
  /\ outcome \in [Conversations -> Outcomes]

RegistryTypes ==
  /\ installed \in JSRuntimes \cup {None}
  /\ replaced \subseteq JSRuntimes /\ closed \subseteq JSRuntimes /\ replaced \cap closed = {}
  /\ reducers \in [JSRuntimes -> [Subscribed -> Nat]]
  /\ list \in [Types -> Nat]

LEMMA RuntimeTypesSplit == RuntimeTypeOK <=> RegistryTypes /\ DispatchTypes
BY DEF RuntimeTypeOK, RegistryTypes, DispatchTypes

(* The frames are left alone: a step of the registry, which opens nothing. *)
LEMMA FramesLeftAlone ==
  ASSUME RuntimeIInv, UNCHANGED dispatch, closed \subseteq closed'
  PROVE  DispatchTypes' /\ \A c \in Conversations : FrameInv(c)'
<1>1. DispatchTypes'
  <2>1. DispatchTypes
    BY RuntimeTypesSplit DEF RuntimeIInv
  <2> QED
    BY <2>1 DEF DispatchTypes, dispatch
<1>2. ASSUME NEW c \in Conversations PROVE FrameInv(c)'
  <2>1. SameFrame(c)
    BY DEF SameFrame, dispatch
  <2> QED
    BY <2>1, FrameKept DEF RuntimeIInv
<1> QED
  BY <1>1, <1>2

(* The registry, which frames only read, is left alone.                    *)
LEMMA RegistryLeftAlone ==
  ASSUME RuntimeIInv, UNCHANGED registry
  PROVE  RegistryTypes' /\ RegistryInv'
<1>1. RegistryTypes /\ RegistryInv
  BY RuntimeTypesSplit DEF RuntimeIInv
<1> QED
  BY <1>1 DEF RegistryTypes, RegistryInv, registry

LEMMA SwapKeeps ==
  ASSUME RuntimeIInv, NEW r \in JSRuntimes \cup {None}, Swap(r),
         r \notin {installed} \cup replaced \cup closed \/ r = None,
         list' \in [Types -> Nat]
  PROVE  RegistryTypes' /\ RegistryInv' /\ closed \subseteq closed'
<1>1. RegistryTypes /\ RegistryInv /\ None \notin JSRuntimes
  BY RuntimeTypesSplit, RuntimeAssumption DEF RuntimeIInv
<1>2. Prev \subseteq JSRuntimes /\ Prev \cap closed = {} /\ Prev \subseteq {installed}
  BY <1>1 DEF Prev, RegistryTypes, RegistryInv
<1>3. r \notin replaced' \cup closed'
  BY <1>1, <1>2 DEF Swap, RegistryTypes
<1> QED
  BY <1>1, <1>2, <1>3 DEF Swap, RegistryTypes, RegistryInv

LEMMA RegistryStep ==
  ASSUME RuntimeIInv, UNCHANGED dispatch,
         \/ \E r \in JSRuntimes : \/ \E t \in Subscribed : RegisterReducer(r, t)
                                  \/ SetTimelineRuntime(r) \/ Close(r)
         \/ \E t \in Types : RegisterTimelineHandler(t)
         \/ ClearTimelineRuntime \/ ClearTimelineHandlers
  PROVE  RuntimeIInv'
<1>1. RegistryTypes /\ RegistryInv /\ None \notin JSRuntimes
  BY RuntimeTypesSplit, RuntimeAssumption DEF RuntimeIInv
<1> SUFFICES RegistryTypes' /\ RegistryInv' /\ closed \subseteq closed'
  <2>1. (RegistryTypes /\ DispatchTypes => RuntimeTypeOK)'
    BY RuntimeTypesSplit, PTL
  <2> QED
    BY <2>1, FramesLeftAlone DEF RuntimeIInv
<1>2. ASSUME NEW r \in JSRuntimes, NEW t \in Subscribed, RegisterReducer(r, t)
      PROVE  RegistryTypes' /\ RegistryInv' /\ closed \subseteq closed'
  <2>1. reducers' \in [JSRuntimes -> [Subscribed -> Nat]]
    <3>1. reducers \in [JSRuntimes -> [Subscribed -> Nat]]
      BY <1>1 DEF RegistryTypes
    <3>2. reducers' = [reducers EXCEPT ![r] = [reducers[r] EXCEPT ![t] = reducers[r][t] + 1]]
      BY <1>2 DEF RegisterReducer
    <3>3. [reducers[r] EXCEPT ![t] = reducers[r][t] + 1] \in [Subscribed -> Nat]
      <4>1. reducers[r] \in [Subscribed -> Nat] /\ reducers[r][t] + 1 \in Nat
        BY <3>1
      <4> QED
        BY <4>1
    <3> QED
      BY <3>1, <3>2, <3>3
  <2> QED
    BY <1>1, <1>2, <2>1 DEF RegisterReducer, RegistryTypes, RegistryInv
<1>3. ASSUME NEW r \in JSRuntimes, SetTimelineRuntime(r)
      PROVE  RegistryTypes' /\ RegistryInv' /\ closed \subseteq closed'
  <2>1. list' \in [Types -> Nat]
    BY <1>1, <1>3 DEF SetTimelineRuntime, RegistryTypes
  <2> QED
    BY <1>3, <2>1, SwapKeeps DEF SetTimelineRuntime
<1>4. ASSUME NEW r \in JSRuntimes, Close(r)
      PROVE  RegistryTypes' /\ RegistryInv' /\ closed \subseteq closed'
  <2>1. reducers' \in [JSRuntimes -> [Subscribed -> Nat]]
    BY <1>1, <1>4 DEF Close, RegistryTypes
  <2> QED
    BY <1>1, <1>4, <2>1 DEF Close, RegistryTypes, RegistryInv
<1>5. ASSUME NEW t \in Types, RegisterTimelineHandler(t)
      PROVE  RegistryTypes' /\ RegistryInv' /\ closed \subseteq closed'
  <2>1. list' \in [Types -> Nat]
    BY <1>1, <1>5 DEF RegisterTimelineHandler, RegistryTypes
  <2> QED
    BY <1>1, <1>5, <2>1 DEF RegisterTimelineHandler, RegistryTypes, RegistryInv
<1>6. CASE ClearTimelineRuntime
  <2>1. list' \in [Types -> Nat]
    BY <1>1, <1>6 DEF ClearTimelineRuntime, RegistryTypes
  <2> QED
    BY <1>6, <2>1, SwapKeeps DEF ClearTimelineRuntime
<1>7. CASE ClearTimelineHandlers
  <2>1. list' \in [Types -> Nat]
    BY <1>7 DEF ClearTimelineHandlers
  <2> QED
    BY <1>7, <2>1, SwapKeeps DEF ClearTimelineHandlers
<1> QED
  BY <1>2, <1>3, <1>4, <1>5, <1>6, <1>7

-----------------------------------------------------------------------------
(* What a frame goes through *)

OtherFrames(c) == \A d \in Conversations \ {c} : SameFrame(d)

LEMMA ArriveKeeps ==
  ASSUME RuntimeIInv, NEW c \in Conversations, Arrive(c)
  PROVE  DispatchTypes' /\ FrameInv(c)' /\ OtherFrames(c)
<1>1. RegistryTypes /\ DispatchTypes
  BY RuntimeTypesSplit DEF RuntimeIInv
<1>2. OtherFrames(c)
  BY <1>1 DEF Arrive, OtherFrames, SameFrame, DispatchTypes, registry
<1>3. DispatchTypes'
  <2>1. events' \in [Conversations -> 0..MaxEvents]
    BY <1>1, RuntimeAssumption DEF Arrive, DispatchTypes
  <2>2. handlers' \in [Conversations -> Nat] /\ type' \in [Conversations -> Types]
    BY <1>1 DEF Arrive, DispatchTypes, RegistryTypes
  <2>3. phase' \in [Conversations -> Phases]
    BY <1>1 DEF Arrive, DispatchTypes, Phases
  <2>4. using' \in [Conversations -> JSRuntimes \cup {None}]
    BY <1>1 DEF Arrive, DispatchTypes, RegistryTypes
  <2>5. /\ entities' \in [Conversations -> Seq(EntityIds)]
        /\ consume' \in [Conversations -> BOOLEAN]
        /\ wrote' \in [Conversations -> Seq({"js", "list", "builtin"} \X EntityIds)]
    BY <1>1 DEF Arrive, DispatchTypes
  <2>6. meant' \in [Conversations -> Decoded]
    BY <1>1 DEF Arrive, DispatchTypes, Nothing, Decoded
  <2> QED
    BY <1>1, <2>1, <2>2, <2>3, <2>4, <2>5, <2>6 DEF Arrive, DispatchTypes
<1>4. /\ phase'[c] \in {"calling", "upserting"} /\ entities'[c] = << >> /\ consume'[c] = FALSE
      /\ meant'[c] = Nothing /\ wrote'[c] = << >>
  BY <1>1 DEF Arrive, DispatchTypes
<1>5. phase'[c] = "calling" => using'[c] # None
  BY <1>1 DEF Arrive, DispatchTypes
<1>6. Writing(c)'
  <2>1. Nothing.consume = FALSE /\ Len(Nothing.ids) = 0
    BY DEF Nothing
  <2>2. Len(<< >>) = 0 /\ 0 + 0 = 0 /\ 1..0 = {}
    OBVIOUS
  <2> QED
    BY <1>4, <2>1, <2>2 DEF Writing
<1> QED
  BY <1>2, <1>3, <1>4, <1>5, <1>6 DEF FrameInv

LEMMA CallKeeps ==
  ASSUME RuntimeIInv, NEW c \in Conversations, Call(c)
  PROVE  DispatchTypes' /\ FrameInv(c)' /\ OtherFrames(c)
<1>1. RegistryTypes /\ DispatchTypes /\ FrameInv(c)
  BY RuntimeTypesSplit DEF RuntimeIInv
<1>2. phase[c] = "calling" /\ using[c] \in JSRuntimes
  BY <1>1 DEF Call, DispatchTypes, FrameInv
<1> DEFINE n == reducers[using[c]][type[c]] + reducers[using[c]]["*"]
<1>3. n \in Nat
  BY <1>1, <1>2 DEF RegistryTypes, DispatchTypes, Subscribed
<1> DEFINE decoded(returned) == All([j \in 1..n |-> decodeReducerReturn(returned[j].value)])
           meaning(returned) == All([j \in 1..n |-> returned[j].meaning])
<1>4. PICK returned \in [1..n -> Returned \cup {Threw}] :
        /\ consume' = [consume EXCEPT ![c] = decoded(returned).consume]
        /\ entities' = [entities EXCEPT ![c] = decoded(returned).ids]
        /\ meant' = [meant EXCEPT ![c] = meaning(returned)]
  BY DEF Call
<1> HIDE DEF n
<1>5. decoded(returned) = meaning(returned) /\ meaning(returned) \in Decoded
  BY <1>3, AllDecode
<1> HIDE DEF decoded, meaning
<1>6. PICK d \in Decoded : d = decoded(returned) /\ d = meaning(returned)
  BY <1>5
<1>7. d.consume \in BOOLEAN /\ d.ids \in Seq(EntityIds)
  BY DEF Decoded
<1>8. /\ consume'[c] = d.consume /\ entities'[c] = d.ids /\ meant'[c] = d /\ wrote'[c] = wrote[c]
      /\ phase'[c] = "upserting" /\ wrote[c] = << >>
  BY <1>1, <1>2, <1>4, <1>6 DEF Call, DispatchTypes, FrameInv
<1>9. OtherFrames(c)
  BY <1>1, <1>4 DEF Call, OtherFrames, SameFrame, DispatchTypes, registry
<1>10. DispatchTypes'
  <2>1. /\ consume' \in [Conversations -> BOOLEAN] /\ entities' \in [Conversations -> Seq(EntityIds)]
        /\ meant' \in [Conversations -> Decoded]
    BY <1>1, <1>4, <1>6, <1>7 DEF DispatchTypes
  <2> QED
    BY <1>1, <2>1 DEF Call, DispatchTypes, Phases
<1>11. Writing(c)'
  <2>1. Len(wrote'[c]) = 0
    BY <1>8
  <2>2. Len(d.ids) \in Nat
    BY <1>7
  <2>3. \A j \in 1..Len(d.ids) : 0 + j = j
    BY <2>2
  <2>4. 0 + Len(d.ids) = Len(d.ids) /\ 1..0 = {}
    BY <2>2
  <2> QED
    BY <1>8, <2>1, <2>3, <2>4 DEF Writing
<1> QED
  BY <1>8, <1>9, <1>10, <1>11 DEF FrameInv

LEMMA CallFailsKeeps ==
  ASSUME RuntimeIInv, NEW c \in Conversations, CallFails(c)
  PROVE  DispatchTypes' /\ FrameInv(c)' /\ OtherFrames(c)
<1>1. DispatchTypes /\ FrameInv(c)
  BY RuntimeTypesSplit DEF RuntimeIInv
<1>2. OtherFrames(c)
  BY <1>1 DEF CallFails, Finish, OtherFrames, SameFrame, DispatchTypes, registry
<1>3. DispatchTypes'
  BY <1>1 DEF CallFails, Finish, DispatchTypes, Phases, Outcomes
<1>4. /\ phase'[c] = "idle" /\ outcome'[c] = "failed" /\ meant'[c] = Nothing /\ wrote'[c] = << >>
      /\ using'[c] \in closed' /\ meant[c] = Nothing /\ wrote[c] = << >>
  BY <1>1 DEF CallFails, Finish, DispatchTypes, FrameInv, registry
<1>5. Meant(c)
  BY <1>4 DEF Meant, Begins, Nothing
<1>6. LET js == [j \in DOMAIN meant[c].ids |-> <<"js", meant[c].ids[j]>>]
      IN  IsPrefix(js, wrote[c])
  BY <1>1, <1>5, JsIsPrefix DEF Meant, DispatchTypes, Decoded, Entry
<1>7. meant' = meant /\ wrote' = wrote /\ ~meant'[c].consume
  BY <1>4 DEF CallFails, Nothing
<1>8. Projected(c)'
  BY <1>4, <1>6, <1>7 DEF Projected
<1> QED
  BY <1>2, <1>3, <1>4, <1>8 DEF FrameInv

LEMMA UpsertKeeps ==
  ASSUME RuntimeIInv, NEW c \in Conversations, UpsertEntity(c)
  PROVE  DispatchTypes' /\ FrameInv(c)' /\ OtherFrames(c)
<1>1. DispatchTypes /\ Writing(c)
  BY RuntimeTypesSplit DEF RuntimeIInv, FrameInv, UpsertEntity
<1>2. OtherFrames(c)
  BY <1>1 DEF UpsertEntity, Wrote, OtherFrames, SameFrame, DispatchTypes, registry
<1>3. /\ wrote[c] \in Seq(Entry) /\ entities[c] \in Seq(EntityIds) /\ meant[c].ids \in Seq(EntityIds)
      /\ entities[c] # << >>
  BY <1>1 DEF DispatchTypes, Decoded, Entry, UpsertEntity
<1> DEFINE e == <<"js", Head(entities[c])>>
<1>4. /\ wrote'[c] = Append(wrote[c], e) /\ entities'[c] = Tail(entities[c])
      /\ meant'[c] = meant[c] /\ consume'[c] = consume[c] /\ phase'[c] = "upserting"
  BY <1>1 DEF UpsertEntity, Wrote, DispatchTypes
<1>5. /\ Head(entities[c]) \in EntityIds /\ Head(entities[c]) = entities[c][1]
      /\ Tail(entities[c]) \in Seq(EntityIds) /\ Len(Tail(entities[c])) = Len(entities[c]) - 1
      /\ \A i \in 1..Len(Tail(entities[c])) : Tail(entities[c])[i] = entities[c][i + 1]
  BY <1>3, HeadTailProperties
<1>6. e \in Entry
  BY <1>5 DEF Entry
<1> HIDE DEF e, Entry
<1>7. /\ Append(wrote[c], e) \in Seq(Entry) /\ Len(Append(wrote[c], e)) = Len(wrote[c]) + 1
      /\ \A i \in 1..Len(wrote[c]) : Append(wrote[c], e)[i] = wrote[c][i]
      /\ Append(wrote[c], e)[Len(wrote[c]) + 1] = e
  BY <1>3, <1>6, AppendProperties
<1>8. DispatchTypes'
  <2>1. entities' \in [Conversations -> Seq(EntityIds)]
    BY <1>1, <1>5 DEF UpsertEntity, DispatchTypes
  <2>2. wrote' \in [Conversations -> Seq(Entry)]
    <3>1. wrote' = [wrote EXCEPT ![c] = Append(wrote[c], e)]
      BY DEF UpsertEntity, Wrote, e
    <3>2. wrote \in [Conversations -> Seq(Entry)]
      BY <1>1 DEF DispatchTypes, Entry
    <3> QED
      BY <1>7, <3>1, <3>2
  <2> QED
    BY <1>1, <2>1, <2>2 DEF UpsertEntity, DispatchTypes, Entry
<1>9. PICK k \in Nat, m \in Nat, n \in Nat :
        /\ k = Len(wrote[c]) /\ m = Len(entities[c]) - 1 /\ n = Len(meant[c].ids)
        /\ k + (m + 1) = n
  <2>1. Len(entities[c]) # 0
    BY <1>3
  <2>2. PICK k \in Nat, l \in Nat, n \in Nat :
          k = Len(wrote[c]) /\ l = Len(entities[c]) /\ n = Len(meant[c].ids)
    BY <1>3, LenProperties
  <2>3. l # 0 /\ k + l = n
    BY <1>1, <2>1, <2>2 DEF Writing
  <2>4. l - 1 \in Nat /\ k + ((l - 1) + 1) = n
    BY <2>3
  <2> QED
    BY <2>2, <2>4
<1>10. Len(wrote'[c]) = k + 1 /\ Len(entities'[c]) = m
  BY <1>4, <1>5, <1>7, <1>9
<1>11. ASSUME NEW j \in 1..(k + 1) PROVE wrote'[c][j] = <<"js", meant[c].ids[j]>>
  <2>1. CASE j = k + 1
    <3>1. 1 \in 1..Len(entities[c])
      BY <1>9
    <3>2. entities[c][1] = meant[c].ids[k + 1]
      BY <1>1, <1>9, <3>1 DEF Writing
    <3> QED
      BY <1>4, <1>5, <1>7, <1>9, <2>1, <3>2 DEF e
  <2>2. CASE j # k + 1
    <3>1. j \in 1..k
      BY <2>2
    <3> QED
      BY <1>1, <1>4, <1>7, <1>9, <3>1 DEF Writing
  <2> QED
    BY <2>1, <2>2
<1>12. ASSUME NEW j \in 1..m PROVE entities'[c][j] = meant[c].ids[(k + 1) + j]
  <2>1. j + 1 \in 1..Len(entities[c]) /\ j \in 1..Len(Tail(entities[c]))
    BY <1>5, <1>9
  <2>2. entities'[c][j] = entities[c][j + 1]
    BY <1>4, <1>5, <2>1
  <2>3. entities[c][j + 1] = meant[c].ids[k + (j + 1)]
    BY <1>1, <1>9, <2>1 DEF Writing
  <2>4. k + (j + 1) = (k + 1) + j
    OBVIOUS
  <2> QED
    BY <2>2, <2>3, <2>4
<1>13. Writing(c)'
  <2>1. (k + 1) + m = n
    <3>1. k + (m + 1) = n
      BY <1>9
    <3> QED
      BY <3>1
  <2> QED
    BY <1>1, <1>4, <1>9, <1>10, <1>11, <1>12, <2>1 DEF Writing
<1> QED
  BY <1>2, <1>4, <1>8, <1>13 DEF FrameInv

LEMMA UpsertedKeeps ==
  ASSUME RuntimeIInv, NEW c \in Conversations, Upserted(c)
  PROVE  DispatchTypes' /\ FrameInv(c)' /\ OtherFrames(c)
<1>1. DispatchTypes /\ Writing(c)
  BY RuntimeTypesSplit DEF RuntimeIInv, FrameInv, Upserted
<1>2. OtherFrames(c)
  BY <1>1 DEF Upserted, Finish, OtherFrames, SameFrame, DispatchTypes, registry
<1>3. DispatchTypes'
  <2>1. phase' \in [Conversations -> Phases] /\ outcome' \in [Conversations -> Outcomes]
    BY <1>1 DEF Upserted, Finish, DispatchTypes, Phases, Outcomes
  <2> QED
    BY <1>1, <2>1 DEF Upserted, DispatchTypes
<1>4. wrote[c] \in Seq(Entry) /\ meant[c].ids \in Seq(EntityIds) /\ entities[c] = << >>
  BY <1>1 DEF DispatchTypes, Decoded, Entry, Upserted
<1>5. PICK n \in Nat : n = Len(wrote[c]) /\ n = Len(meant[c].ids)
  <2>1. PICK n \in Nat, k \in Nat : n = Len(wrote[c]) /\ k = Len(meant[c].ids)
    BY <1>4, LenProperties
  <2>2. n + 0 = k
    BY <1>1, <1>4, <2>1 DEF Writing
  <2> QED
    BY <2>1, <2>2
<1>6. Meant(c)
  BY <1>1, <1>5 DEF Meant, Begins, Writing
<1>7. Rest(c, "list")
  <2>1. (n + 1)..n = {}
    OBVIOUS
  <2> QED
    BY <1>5, <2>1 DEF Rest, RestIs
<1>8. meant' = meant /\ wrote' = wrote /\ Meant(c)' /\ Rest(c, "list")'
  BY <1>6, <1>7 DEF Upserted, Meant, Rest
<1>9. CASE consume[c]
  <2>1. phase'[c] = "idle" /\ outcome'[c] = "consumed" /\ meant'[c].consume
    BY <1>1, <1>9 DEF Upserted, Finish, DispatchTypes, Writing
  <2>2. LET js == [j \in DOMAIN meant[c].ids |-> <<"js", meant[c].ids[j]>>]
        IN  IsPrefix(js, wrote[c]) /\ Len(js) = n
    BY <1>4, <1>5, <1>6, JsIsPrefix DEF Meant
  <2>3. (n + 1)..Len(wrote[c]) = {}
    BY <1>5
  <2>4. Projected(c)'
    BY <1>8, <2>1, <2>2, <2>3 DEF Projected
  <2> QED
    BY <1>2, <1>3, <2>1, <2>4 DEF FrameInv
<1>10. CASE ~consume[c]
  <2>1. /\ phase'[c] = (IF handlers[c] > 0 THEN "listing" ELSE "builtin")
        /\ handlers'[c] = handlers[c] /\ ~meant'[c].consume
    BY <1>1, <1>10 DEF Upserted, DispatchTypes, Writing
  <2> QED
    BY <1>2, <1>3, <1>5, <1>8, <2>1 DEF FrameInv
<1> QED
  BY <1>9, <1>10

LEMMA HandleKeeps ==
  ASSUME RuntimeIInv, NEW c \in Conversations, Handle(c)
  PROVE  DispatchTypes' /\ FrameInv(c)' /\ OtherFrames(c)
<1>1. DispatchTypes /\ Meant(c) /\ Rest(c, "list") /\ ~meant[c].consume /\ handlers[c] > 0
  BY RuntimeTypesSplit DEF RuntimeIInv, FrameInv, Handle
<1>2. OtherFrames(c)
  BY <1>1 DEF Handle, Finish, Wrote, OtherFrames, SameFrame, DispatchTypes, registry
<1> DEFINE next == Append(wrote[c], <<"list", EventId>>)
<1>3. wrote[c] \in Seq(Entry) /\ meant[c].ids \in Seq(EntityIds)
  BY <1>1 DEF DispatchTypes, Decoded, Entry
<1>4. /\ next \in Seq(Entry) /\ Begins(next, meant[c].ids) /\ RestIs(next, meant[c].ids, "list")
      /\ Len(next) = Len(wrote[c]) + 1
  BY <1>1, <1>3, RestGrows DEF Meant, Rest
<1> HIDE DEF next
<1>5. /\ wrote' = [wrote EXCEPT ![c] = next] /\ wrote'[c] = next
      /\ meant' = meant /\ handlers'[c] = handlers[c] - 1
  BY <1>1 DEF Handle, Wrote, DispatchTypes, next
<1>6. DispatchTypes'
  <2>1. wrote' \in [Conversations -> Seq(Entry)]
    <3>1. wrote \in [Conversations -> Seq(Entry)]
      BY <1>1 DEF DispatchTypes, Entry
    <3> QED
      BY <1>4, <1>5, <3>1
  <2>2. handlers' \in [Conversations -> Nat]
    <3>1. handlers[c] - 1 \in Nat
      BY <1>1 DEF DispatchTypes
    <3> QED
      BY <1>1, <3>1 DEF Handle, DispatchTypes
  <2>3. phase' \in [Conversations -> Phases] /\ outcome' \in [Conversations -> Outcomes]
    BY <1>1 DEF Handle, Finish, DispatchTypes, Phases, Outcomes
  <2> QED
    BY <1>1, <2>1, <2>2, <2>3 DEF Handle, DispatchTypes, Entry
<1>7. Meant(c)' /\ Rest(c, "list")'
  BY <1>4, <1>5 DEF Meant, Rest
<1>8. ASSUME NEW how \in {"failed", "handled"}, Finish(c, how)
      PROVE  FrameInv(c)'
  <2>1. phase'[c] = "idle" /\ outcome'[c] = how
    BY <1>1, <1>8 DEF Finish, DispatchTypes
  <2>2. LET js == [j \in DOMAIN meant[c].ids |-> <<"js", meant[c].ids[j]>>]
        IN  IsPrefix(js, next) /\ Len(js) = Len(meant[c].ids)
    BY <1>3, <1>4, JsIsPrefix
  <2>3. {j \in DOMAIN next : next[j][1] = "list"} = (Len(meant[c].ids) + 1)..Len(next)
    BY <1>3, <1>4, RestIsBy
  <2>4. (Len(meant[c].ids) + 1)..Len(next) # {}
    <3>1. PICK k \in Nat, n \in Nat : k = Len(meant[c].ids) /\ n = Len(wrote[c]) /\ k <= n
      BY <1>1, <1>3, LenProperties DEF Meant, Begins
    <3>2. n + 1 \in (k + 1)..(n + 1)
      BY <3>1
    <3> QED
      BY <1>4, <3>1, <3>2
  <2>5. Projected(c)'
    BY <1>1, <1>5, <1>8, <2>1, <2>2, <2>3, <2>4 DEF Projected, By
  <2> QED
    BY <2>1, <2>5 DEF FrameInv
<1>9. ASSUME handlers[c] > 1, UNCHANGED <<phase, outcome>>
      PROVE  FrameInv(c)'
  <2>1. handlers'[c] > 0 /\ phase'[c] = "listing" /\ ~meant'[c].consume
    BY <1>1, <1>5, <1>9 DEF Handle, DispatchTypes
  <2> QED
    BY <1>7, <2>1 DEF FrameInv
<1>10. Finish(c, "failed") \/ Finish(c, "handled") \/ (handlers[c] > 1 /\ UNCHANGED <<phase, outcome>>)
  BY DEF Handle
<1> QED
  BY <1>2, <1>6, <1>8, <1>9, <1>10

LEMMA BuiltinKeeps ==
  ASSUME RuntimeIInv, NEW c \in Conversations, Builtin(c)
  PROVE  DispatchTypes' /\ FrameInv(c)' /\ OtherFrames(c)
<1>1. /\ DispatchTypes /\ Meant(c) /\ ~meant[c].consume /\ Len(wrote[c]) = Len(meant[c].ids)
  BY RuntimeTypesSplit DEF RuntimeIInv, FrameInv, Builtin
<1>2. OtherFrames(c)
  BY <1>1 DEF Builtin, Finish, Wrote, OtherFrames, SameFrame, DispatchTypes, registry
<1> DEFINE more == Append(wrote[c], <<"builtin", EventId>>)
           next == IF type[c] \in BuiltinTypes THEN more ELSE wrote[c]
<1>3. wrote[c] \in Seq(Entry) /\ meant[c].ids \in Seq(EntityIds)
  BY <1>1 DEF DispatchTypes, Decoded, Entry
<1>4. PICK n \in Nat : n = Len(wrote[c]) /\ n = Len(meant[c].ids)
  BY <1>1, <1>3, LenProperties
<1>5. RestIs(wrote[c], meant[c].ids, "builtin")
  <2>1. (n + 1)..n = {}
    OBVIOUS
  <2> QED
    BY <1>4, <2>1 DEF RestIs
<1>6. /\ more \in Seq(Entry) /\ Begins(more, meant[c].ids) /\ RestIs(more, meant[c].ids, "builtin")
      /\ Len(more) = n + 1
  BY <1>1, <1>3, <1>4, <1>5, RestGrows DEF Meant
<1> HIDE DEF more
<1>7. /\ next \in Seq(Entry) /\ Begins(next, meant[c].ids) /\ RestIs(next, meant[c].ids, "builtin")
      /\ Len(next) = IF type[c] \in BuiltinTypes THEN n + 1 ELSE n
  BY <1>1, <1>3, <1>4, <1>5, <1>6 DEF Meant
<1>8. wrote' = [wrote EXCEPT ![c] = next] /\ wrote'[c] = next /\ meant' = meant /\ type' = type
  <2>1. wrote = [wrote EXCEPT ![c] = wrote[c]]
    BY <1>1 DEF DispatchTypes
  <2>2. wrote' = [wrote EXCEPT ![c] = next]
    BY <2>1 DEF Builtin, Wrote, more
  <2> QED
    BY <1>1, <2>2 DEF Builtin, DispatchTypes
<1> HIDE DEF next
<1>9. DispatchTypes'
  <2>1. wrote' \in [Conversations -> Seq(Entry)]
    <3>1. wrote \in [Conversations -> Seq(Entry)]
      BY <1>1 DEF DispatchTypes, Entry
    <3> QED
      BY <1>7, <1>8, <3>1
  <2>2. phase' \in [Conversations -> Phases] /\ outcome' \in [Conversations -> Outcomes]
    BY <1>1 DEF Builtin, Finish, DispatchTypes, Phases, Outcomes
  <2> QED
    BY <1>1, <2>1, <2>2 DEF Builtin, DispatchTypes, Entry
<1>10. phase'[c] = "idle" /\ outcome'[c] = "projected"
  BY <1>1 DEF Builtin, Finish, DispatchTypes
<1>11. LET js == [j \in DOMAIN meant[c].ids |-> <<"js", meant[c].ids[j]>>]
       IN  IsPrefix(js, next) /\ Len(js) = n
  BY <1>3, <1>4, <1>7, JsIsPrefix
<1>12. {j \in DOMAIN next : next[j][1] = "builtin"} = (n + 1)..Len(next)
  BY <1>3, <1>4, <1>7, RestIsBy
<1>13. Cardinality((n + 1)..Len(next)) = IF type[c] \in BuiltinTypes THEN 1 ELSE 0
  <2>1. CASE type[c] \in BuiltinTypes
    <3>1. (n + 1)..Len(next) = {n + 1}
      BY <1>7, <2>1
    <3> QED
      BY <2>1, <3>1, FS_Singleton
  <2>2. CASE type[c] \notin BuiltinTypes
    <3>1. (n + 1)..Len(next) = {}
      BY <1>7, <2>2
    <3> QED
      BY <2>2, <3>1, FS_EmptySet
  <2> QED
    BY <2>1, <2>2
<1>14. Projected(c)'
  BY <1>1, <1>8, <1>10, <1>11, <1>12, <1>13 DEF Projected, By
<1> QED
  BY <1>2, <1>9, <1>10, <1>14 DEF FrameInv

-----------------------------------------------------------------------------
(* Every frame is projected as its reducers are documented to mean *)

LEMMA RuntimeStarts == RuntimeInit => RuntimeIInv
<1> SUFFICES ASSUME RuntimeInit PROVE RuntimeIInv
  OBVIOUS
<1>1. RegistryTypes /\ RegistryInv
  BY RuntimeAssumption DEF RuntimeInit, RegistryTypes, RegistryInv
<1>2. DispatchTypes
  <2>1. Nothing \in Decoded
    BY DEF Nothing, Decoded
  <2> QED
    BY <2>1, RuntimeAssumption DEF RuntimeInit, DispatchTypes, Phases, Types, Outcomes
<1>3. \A c \in Conversations : FrameInv(c)
  BY DEF RuntimeInit, FrameInv
<1> QED
  BY <1>1, <1>2, <1>3, RuntimeTypesSplit DEF RuntimeIInv

LEMMA RuntimeSteps == RuntimeIInv /\ [RuntimeNext]_runtimeVars => RuntimeIInv'
<1> SUFFICES ASSUME RuntimeIInv, [RuntimeNext]_runtimeVars PROVE RuntimeIInv'
  OBVIOUS
<1>1. (RegistryTypes /\ DispatchTypes => RuntimeTypeOK)'
  BY RuntimeTypesSplit, PTL
<1>2. CASE UNCHANGED runtimeVars
  <2>1. UNCHANGED dispatch /\ UNCHANGED registry /\ closed \subseteq closed'
    BY <1>2 DEF runtimeVars, registry
  <2> QED
    BY <1>1, <2>1, FramesLeftAlone, RegistryLeftAlone DEF RuntimeIInv
<1>3. ASSUME NEW c \in Conversations, UNCHANGED registry,
             DispatchTypes' /\ FrameInv(c)' /\ OtherFrames(c)
      PROVE  RuntimeIInv'
  <2>1. ASSUME NEW d \in Conversations PROVE FrameInv(d)'
    <3>1. CASE d = c
      BY <1>3, <3>1
    <3>2. CASE d # c
      BY <1>3, <3>2, FrameKept DEF OtherFrames, RuntimeIInv
    <3> QED
      BY <3>1, <3>2
  <2> QED
    BY <1>1, <1>3, <2>1, RegistryLeftAlone DEF RuntimeIInv
<1>4. ASSUME NEW c \in Conversations,
             \/ Arrive(c) \/ Call(c) \/ CallFails(c) \/ UpsertEntity(c)
             \/ Upserted(c) \/ Handle(c) \/ Builtin(c)
      PROVE  RuntimeIInv'
  <2>1. UNCHANGED registry
    BY <1>4 DEF Arrive, Call, CallFails, UpsertEntity, Upserted, Handle, Builtin
  <2>2. DispatchTypes' /\ FrameInv(c)' /\ OtherFrames(c)
    BY <1>4, ArriveKeeps, CallKeeps, CallFailsKeeps, UpsertKeeps, UpsertedKeeps, HandleKeeps,
       BuiltinKeeps
  <2> QED
    BY <1>3, <2>1, <2>2
<1>5. ASSUME \/ \E r \in JSRuntimes : \/ \E t \in Subscribed : RegisterReducer(r, t)
                                      \/ SetTimelineRuntime(r) \/ Close(r)
             \/ \E t \in Types : RegisterTimelineHandler(t)
             \/ ClearTimelineRuntime \/ ClearTimelineHandlers
      PROVE  RuntimeIInv'
  <2>1. UNCHANGED dispatch
    BY <1>5 DEF RegisterReducer, SetTimelineRuntime, Close, RegisterTimelineHandler,
                ClearTimelineRuntime, ClearTimelineHandlers, Swap
  <2> QED
    BY <1>5, <2>1, RegistryStep
<1> QED
  BY <1>2, <1>4, <1>5 DEF RuntimeNext

(* The registry never has a runtime that is closed or about to be, and     *)
(* when a frame has been projected what its reducers mean by their         *)
(* documentation has been written, all of it and before anything else; a   *)
(* handler or the projection wrote the rest, unless a reducer consumed it. *)
THEOREM FramesProjected == RuntimeSpec => []ProjectionInv
<1>1. RuntimeIInv => ProjectionInv
  BY DEF RuntimeIInv, ProjectionInv, RegistryInv, FrameInv
<1> QED
  BY RuntimeStarts, RuntimeSteps, <1>1, PTL DEF RuntimeSpec

===============================================================================

----------------------------- MODULE TimelineStore -----------------------------
(***************************************************************************)
(* The two timeline stores of pkg/persistence/chatstore, the in-memory one *)
(* (timeline_store_memory.go) and the SQLite one                           *)
(* (timeline_store_sqlite.go), for one conversation, and a client that     *)
(* polls one of them for snapshots since the last version it was given.    *)
(*                                                                         *)
(* Both stores are given the same calls at the same times, so that what    *)
(* they keep can be compared.  Entity ids are numbered in their order as   *)
(* strings; an entity's content is the number of the write that stored it. *)
(* A call either store rejects (an empty id or kind, version 0) and a      *)
(* transaction that SQLite rolls back change nothing and are left out.  Of *)
(* a conversation record, runtime stands for the texts that an empty value *)
(* does not replace (session, runtime key, last error); every record the   *)
(* server writes beside a store has a timeline, so has_timeline is left    *)
(* out.                                                                    *)
(***************************************************************************)
EXTENDS Naturals, FiniteSets

CONSTANTS Ids,          \* entity ids
          MaxEntities,  \* maxEntitiesPerConv of the in-memory store
          Limits,       \* the limits that clients ask for
          Runtimes,     \* values of runtime that are not empty
          MaxWrites,    \* bound: calls of Upsert
          MaxRecords,   \* bound: calls of UpsertConversation
          MaxVersion,   \* bound: versions
          MaxClock      \* bound: milliseconds that pass

ASSUME StoreAssumption ==
  /\ Ids \subseteq Nat /\ IsFiniteSet(Ids)
  /\ MaxEntities \in Nat \ {0}
  /\ Limits \subseteq Nat \ {0}
  /\ MaxWrites \in Nat /\ MaxRecords \in Nat
  /\ MaxVersion \in Nat /\ MaxClock \in Nat \ {0}

Stores == {"memory", "sqlite"}
Empty == "empty"
Contents == 1..MaxWrites
Versions == 1..MaxVersion
Times == 1..MaxClock
Unread == 0

VARIABLES
  clock,     \* time.Now().UnixMilli()
  writes,    \* how many entities have been written
  records,   \* how many conversation records have been written
  rows,      \* per store, its entities
  version,   \* per store, the version of the conversation
  index,     \* per store, the conversation record: a set of at most one
  backend,   \* the store the client's snapshots come from
  since,     \* the version of the client's last snapshot
  view,      \* per entity, the content the client has, or Unread
  current,   \* the version SQLite's GetSnapshot has read
  querying,  \* whether it has read it and not yet the rows
  cut,       \* whether a snapshot was ever truncated (history)
  late,      \* entities last written with a version that was not new (history)
  dropped    \* entities ever dropped by the in-memory store (history)

stored == <<rows, version, index>>
client == <<backend, since, view, current, querying, cut>>
vars == <<clock, writes, records, stored, client, late, dropped>>

Row == [created : Times, version : Versions, content : Contents]
Record == [created : Times, activity : Times, seen : 0..MaxVersion,
           status : {"active", "evicted"}, runtime : Runtimes \cup {Empty}]

TypeOK ==
  /\ clock \in Times /\ writes \in 0..MaxWrites /\ records \in 0..MaxRecords
  /\ DOMAIN rows = Stores /\ DOMAIN index = Stores
  /\ \A s \in Stores :
       /\ DOMAIN rows[s] \subseteq Ids
       /\ \A i \in DOMAIN rows[s] : rows[s][i] \in Row
       /\ index[s] \subseteq Record
       /\ Cardinality(index[s]) <= 1
  /\ Cardinality(DOMAIN rows["memory"]) <= MaxEntities
  /\ version \in [Stores -> 0..MaxVersion]
  /\ backend \in Stores
  /\ since \in 0..MaxVersion /\ current \in 0..MaxVersion
  /\ view \in [Ids -> Contents \cup {Unread}]
  /\ querying \in BOOLEAN /\ cut \in BOOLEAN
  /\ late \subseteq Ids /\ dropped \subseteq Ids

Init ==
  /\ clock = 1 /\ writes = 0 /\ records = 0
  /\ rows = [s \in Stores |-> << >>]
  /\ version = [s \in Stores |-> 0]
  /\ index = [s \in Stores |-> {}]
  /\ backend \in Stores
  /\ since = 0 /\ current = 0 /\ querying = FALSE
  /\ view = [i \in Ids |-> Unread]
  /\ cut = FALSE /\ late = {} /\ dropped = {}

-----------------------------------------------------------------------------
(* Mistaken versions of definitions below: a store without a limit, one    *)
(* that drops the newest, a first-seen time that every write sets, a       *)
(* record that sets the activity back, a query that is off by one.         *)

NotCapped(r) == r
After(r, i, j) ==
  \/ r[i].version > r[j].version
  \/ r[i].version = r[j].version /\ i < j
TimeOfWrite(id, given) == IF given > 0 THEN given ELSE clock
LatestGiven(old, new) == new.activity
AfterNext(s) == {i \in DOMAIN rows[s] : since = 0 \/ rows[s][i].version > since + 1}

-----------------------------------------------------------------------------
(* Upsert *)

Larger(a, b) == IF a > b THEN a ELSE b

With(r, i, row) == [j \in DOMAIN r \cup {i} |-> IF j = i THEN row ELSE r[j]]

(* created_at_ms: of the row there is, else as given, else now             *)
MemoryCreated(id, given) ==
  IF id \in DOMAIN rows["memory"] THEN rows["memory"][id].created
  ELSE IF given > 0 THEN given ELSE clock

SqliteCreated(id, given) ==
  IF id \in DOMAIN rows["sqlite"] THEN rows["sqlite"][id].created
  ELSE IF given > 0 THEN given ELSE clock

Before(r, i, j) ==
  \/ r[i].version < r[j].version
  \/ r[i].version = r[j].version /\ i < j

(* The in-memory store drops its oldest versions when there are too many.  *)
Capped(r) ==
  LET excess == Cardinality(DOMAIN r) - MaxEntities
      kept == {i \in DOMAIN r :
                 Cardinality({j \in DOMAIN r : Before(r, j, i)}) >= excess}
  IN [i \in kept |-> r[i]]

(* Both advance the version only upwards, and the entity's in any case.    *)
MemoryVersion(v) == Larger(v, version["memory"])
SqliteVersion(v) == Larger(v, version["sqlite"])

-----------------------------------------------------------------------------
(* The conversation index *)

Activity(old, new) == Larger(old.activity, new.activity)

(* mergeConversationRecord, once new is normalised                         *)
Merged(old, new) ==
  [created  |-> old.created,
   activity |-> Activity(old, new),
   seen     |-> Larger(old.seen, new.seen),
   status   |-> new.status,
   runtime  |-> IF new.runtime = Empty THEN old.runtime ELSE new.runtime]

(* The same in SQL: INSERT ... ON CONFLICT DO UPDATE                       *)
SqliteActivity(old, new) ==
  IF new.activity > old.activity THEN new.activity ELSE old.activity

SqliteMerged(old, new) ==
  [created  |-> old.created,
   activity |-> SqliteActivity(old, new),
   seen     |-> IF new.seen > old.seen THEN new.seen ELSE old.seen,
   status   |-> new.status,
   runtime  |-> IF new.runtime # Empty THEN new.runtime ELSE old.runtime]

(* What an Upsert says of the conversation: the SQLite store leaves the    *)
(* status of a record there is, the in-memory store sets it.               *)
Progress(v) == [created |-> clock, activity |-> clock, seen |-> v,
                status |-> "active", runtime |-> Empty]

SqliteProgress(old, v) ==
  [created  |-> old.created,
   activity |-> Larger(old.activity, clock),
   seen     |-> Larger(old.seen, v),
   status   |-> old.status,
   runtime  |-> old.runtime]

(* The first record is stored as it is.                                    *)
MemoryIndex(new) ==
  IF index["memory"] = {} THEN {new} ELSE {Merged(old, new) : old \in index["memory"]}

SqliteIndex(new) ==
  IF index["sqlite"] = {} THEN {new} ELSE {SqliteMerged(old, new) : old \in index["sqlite"]}

SqliteIndexProgress(v) ==
  IF index["sqlite"] = {} THEN {Progress(v)}
  ELSE {SqliteProgress(old, v) : old \in index["sqlite"]}

-----------------------------------------------------------------------------
(* Store calls *)

(* Upsert(conv, v, entity), given being the entity's CreatedAtMs           *)
Upsert(id, v, given) ==
  LET memory == With(rows["memory"], id,
                     [created |-> MemoryCreated(id, given), version |-> v, content |-> writes + 1])
      sqlite == With(rows["sqlite"], id,
                     [created |-> SqliteCreated(id, given), version |-> v, content |-> writes + 1])
  IN /\ writes < MaxWrites
     /\ writes' = writes + 1
     /\ rows' = [s \in Stores |-> IF s = "memory" THEN Capped(memory) ELSE sqlite]
     /\ version' = [s \in Stores |-> IF s = "memory" THEN MemoryVersion(v) ELSE SqliteVersion(v)]
     /\ index' = [s \in Stores |->
                    IF s = "memory" THEN MemoryIndex(Progress(MemoryVersion(v)))
                                    ELSE SqliteIndexProgress(SqliteVersion(v))]
     /\ late' = IF v > version[backend] THEN late \ {id} ELSE late \cup {id}
     /\ dropped' = dropped \cup (DOMAIN memory \ DOMAIN Capped(memory))
     /\ UNCHANGED <<clock, records, client>>

(* UpsertConversation: the server builds the record from the conversation  *)
(* under its mutex and writes it later, so any of it may be out of date.   *)
UpsertConversation(record) ==
  /\ records < MaxRecords
  /\ record.created <= record.activity /\ record.activity <= clock
  /\ record.seen <= version[backend]
  /\ records' = records + 1
  /\ index' = [s \in Stores |->
                 IF s = "memory" THEN MemoryIndex(record) ELSE SqliteIndex(record)]
  /\ UNCHANGED <<clock, writes, rows, version, client, late, dropped>>

Tick ==
  /\ clock < MaxClock /\ clock' = clock + 1
  /\ UNCHANGED <<writes, records, stored, client, late, dropped>>

-----------------------------------------------------------------------------
(* GetSnapshot *)

Changed(s) == {i \in DOMAIN rows[s] : since = 0 \/ rows[s][i].version > since}

(* First-seen order                                                        *)
SeenBefore(r, i, j) ==
  \/ r[i].created < r[j].created
  \/ r[i].created = r[j].created /\ i < j

Page(s, limit) ==
  {i \in Changed(s) :
     Cardinality({j \in Changed(s) : SeenBefore(rows[s], j, i)}) < limit}

Truncated(s, limit) == Page(s, limit) # Changed(s)

LastRow(s, limit) ==
  CHOOSE i \in Page(s, limit) :
    \A j \in Page(s, limit) : ~SeenBefore(rows[s], i, j)

(* The in-memory store gives the version of the conversation; SQLite the   *)
(* version it read first, or of the last row when there are more.          *)
MemorySnapshotVersion == version["memory"]
SqliteSnapshotVersion(limit) ==
  IF Truncated("sqlite", limit) THEN rows["sqlite"][LastRow("sqlite", limit)].version
                                ELSE current

(* The client adds what it is given to what it has, and asks next time for *)
(* what came after the snapshot's version.                                 *)
Hydrate(s, limit, v) ==
  /\ since' = v
  /\ view' = [i \in Ids |-> IF i \in Page(s, limit) THEN rows[s][i].content ELSE view[i]]
  /\ cut' = (cut \/ Truncated(s, limit))

MemoryGetSnapshot(limit) ==
  /\ backend = "memory"
  /\ Hydrate("memory", limit, MemorySnapshotVersion)
  /\ UNCHANGED <<clock, writes, records, stored, backend, current, querying, late, dropped>>

(* SQLite reads the version and the rows in two statements that share no   *)
(* transaction.                                                            *)
ReadVersion ==
  /\ backend = "sqlite" /\ ~querying
  /\ querying' = TRUE
  /\ current' = version["sqlite"]
  /\ UNCHANGED <<clock, writes, records, stored, backend, since, view, cut, late, dropped>>

ReadRows(limit) ==
  /\ querying
  /\ querying' = FALSE /\ current' = 0
  /\ Hydrate("sqlite", limit, SqliteSnapshotVersion(limit))
  /\ UNCHANGED <<clock, writes, records, stored, backend, late, dropped>>

Next ==
  \/ \E i \in Ids, v \in Versions, given \in 0..clock : Upsert(i, v, given)
  \/ \E r \in Record : UpsertConversation(r)
  \/ Tick
  \/ \E limit \in Limits : MemoryGetSnapshot(limit) \/ ReadRows(limit)
  \/ ReadVersion

Spec == Init /\ [][Next]_vars

-----------------------------------------------------------------------------
(* Properties *)

(* A client that polls with the version of its last snapshot, and whose    *)
(* snapshots were never truncated, has the latest content of every entity  *)
(* up to that version, except of those last written with a version that    *)
(* was no longer new.  SQLite's order, version first and rows second, is   *)
(* what makes it so when a write comes between the two statements.         *)
OnlyLateWritesAreMissed ==
  ~cut => \A i \in DOMAIN rows[backend] :
            rows[backend][i].version <= since /\ i \notin late
              => view[i] = rows[backend][i].content

(* The stores hold the same: the in-memory store keeps a part of what      *)
(* SQLite keeps, lacks only what it dropped, and has another first-seen    *)
(* time only for what it dropped and was given again; the versions and the *)
(* conversation index are the same but for its status.                     *)
RowsAgree ==
  /\ DOMAIN rows["memory"] \subseteq DOMAIN rows["sqlite"]
  /\ DOMAIN rows["sqlite"] \ DOMAIN rows["memory"] \subseteq dropped
  /\ \A i \in Ids : i \in DOMAIN rows["memory"] =>
       /\ rows["memory"][i].version = rows["sqlite"][i].version
       /\ rows["memory"][i].content = rows["sqlite"][i].content
       /\ i \notin dropped => rows["memory"][i].created = rows["sqlite"][i].created

SameButStatus(r, q) ==
  r.created = q.created /\ r.activity = q.activity /\ r.seen = q.seen /\ r.runtime = q.runtime

IndexesAgree ==
  /\ version["memory"] = version["sqlite"]
  /\ index["memory"] = {} <=> index["sqlite"] = {}
  /\ \A r \in index["memory"], q \in index["sqlite"] : SameButStatus(r, q)

StoresAgree == RowsAgree /\ IndexesAgree

(* What the in-memory store drops is never newer than what it keeps, and   *)
(* it keeps as many as it may.                                             *)
MemoryDropsOldest ==
  [][LET gone == (DOMAIN rows["memory"] \ DOMAIN rows'["memory"])
         left == rows'["memory"]
     IN gone # {} =>
          /\ Cardinality(DOMAIN left) = MaxEntities
          /\ \A i \in gone, j \in DOMAIN left : rows["memory"][i].version <= left[j].version]_vars

(* However stale a record is when it is written, the index does not go     *)
(* back: not in the activity, not in the version seen, not in the creation *)
(* time, not in the texts; and it is never behind the entities.            *)
GoesOn(old, new) ==
  /\ new.activity >= old.activity /\ new.seen >= old.seen
  /\ new.created = old.created
  /\ old.runtime # Empty => new.runtime # Empty

IndexGoesOn ==
  \A s \in Stores :
    /\ \A old \in index[s] : \E new \in index'[s] : GoesOn(old, new)
    /\ \A i \in DOMAIN rows'[s] : \E new \in index'[s] : new.seen >= rows'[s][i].version

IndexNeverRegresses == [][IndexGoesOn]_vars
=============================================================================

--------------------------- MODULE ConversationProofs ---------------------------
(***************************************************************************)
(* Proofs about a conversation for any values of the constants: its        *)
(* objects, their streams and their eviction (ConversationLifecycle), and  *)
(* the translation of its runs' events to frames, which are paged by its   *)
(* clients (SemTranslator).                                                *)
(***************************************************************************)
EXTENDS ConversationLifecycle, SemTranslator, FiniteSetTheorems, SequenceTheorems,
        WellFoundedInduction, TLAPS

-----------------------------------------------------------------------------
(* The invariant                                                           *)

(* Each object that was made has a stream of its own, nothing that was not *)
(* made has been evicted, and the evictor looks at an object.              *)
StreamsInv ==
  /\ evicted \subseteq 1..created
  /\ \A v \in Convs : v > created => stream[v] = None
  /\ \A v \in 1..created : stream[v] \in 1..streams
  /\ \A v, w \in 1..created : stream[v] = stream[w] => v = w
  /\ evictor # "rest" => target \in 1..created

(* Who is about to start a stream has read one.                            *)
HeldInv == \A t \in Threads : pc[t] \in {"starting", "joining"} => held[t] \in 1..streams

(* A client of whom AddConn has still to start the stream has read the one *)
(* of its object, or a rebuild has replaced it by one that runs.           *)
Served(v) == stream[v] \in running \/ v \in silenced
JoiningIsServed ==
  \A c \in Clients :
    pc[c] = "joining" /\ c \in pool[mine[c]] => held[c] = stream[mine[c]] \/ Served(mine[c])

(* Who is in a pool or a queue has come to it and holds its object.        *)
MembersInv ==
  \A v \in Convs :
    /\ \A c \in pool[v] : pc[c] \in {"joining", "attached"} /\ mine[c] = v
    /\ \A p \in work[v] : pc[p] \in {"admitted", "starting", "running"} /\ mine[p] = v

(* What the evictor has found out so far about those it saw at first: they *)
(* have left, and none of them comes back.                                 *)
SeenInv ==
  /\ \A t \in seen : pc[t] \notin {"new", "resolved", "creating", "found"}
  /\ evictor \in {"stream", "queue", "delete"} => seen \cap pool[target] = {}
  /\ evictor = "delete" => seen \cap work[target] = {}

IInv == /\ TypeOK /\ LifecycleInv /\ AttachedIsServed
        /\ StreamsInv /\ HeldInv /\ JoiningIsServed /\ MembersInv /\ SeenInv

-----------------------------------------------------------------------------
(* Helpers *)

(* Who is past choosing its object holds one that was made.                *)
LEMMA HoldsOne ==
  ASSUME TypeOK, NEW t \in Threads, pc[t] \notin EmptyHanded
  PROVE  mine[t] \in 1..created /\ mine[t] \in Convs
<1>1. mine[t] \in 0..created /\ mine[t] # None
  BY DEF TypeOK
<1>2. created \in 0..MaxConvs
  BY DEF TypeOK
<1> QED
  BY <1>1, <1>2, LifecycleAssumption DEF Convs, None

(* The object in the table was made, and so has the one the evictor is at. *)
LEMMA TableIsMade ==
  ASSUME TypeOK, LifecycleInv, table # None
  PROVE  table \in 1..created /\ table \in Convs
<1>1. table \in 1..created
  BY DEF LifecycleInv
<1>2. created \in 0..MaxConvs
  BY DEF TypeOK
<1> QED
  BY <1>1, <1>2, LifecycleAssumption DEF Convs

LEMMA TargetIsMade ==
  ASSUME TypeOK, StreamsInv, evictor # "rest"
  PROVE  target \in 1..created /\ target \in Convs
<1>1. target \in 1..created /\ created \in 0..MaxConvs
  BY DEF TypeOK, StreamsInv
<1> QED
  BY <1>1, LifecycleAssumption DEF Convs

-----------------------------------------------------------------------------
(* Every action keeps the invariant *)

(* A submission that finds the conversation gone has nothing in hand.      *)
LEMMA LookUpKeeps ==
  ASSUME IInv, NEW p \in Prompts, LookUp(p)
  PROVE  IInv'
<1> USE LifecycleAssumption
    DEF IInv, Threads, Convs, Streams, None, Places, EmptyHanded, vars, made, activity,
        threads, eviction, LookUp, AfterLookUp, Goto
<1>1. TypeOK'
  BY DEF TypeOK, StreamsInv, LifecycleInv, HeldInv
<1>2. HeldInv'
  BY DEF TypeOK, StreamsInv, LifecycleInv, HeldInv
<1>3. LifecycleInv' /\ StreamsInv'
  BY DEF TypeOK, LifecycleInv, StreamsInv
<1>4. AttachedIsServed' /\ JoiningIsServed'
  BY DEF TypeOK, StreamsInv, AttachedIsServed, JoiningIsServed, Served, MembersInv
<1>5. MembersInv' /\ SeenInv'
  BY DEF TypeOK, StreamsInv, SeenInv, MembersInv
<1> QED
  BY <1>1, <1>2, <1>3, <1>4, <1>5 DEF IInv

(* A prompt joins the queue of an object it holds, and is not one the      *)
(* evictor has seen.                                                       *)
LEMMA AdmitKeeps ==
  ASSUME IInv, NEW p \in Prompts, Admit(p)
  PROVE  IInv'
<1> USE LifecycleAssumption
    DEF IInv, Threads, Convs, Streams, None, Places, EmptyHanded, vars, made, activity,
        threads, eviction, Admit, Goto, Touch
<1>1. TypeOK'
  BY DEF TypeOK, StreamsInv, LifecycleInv, HeldInv
<1>2. HeldInv'
  BY DEF TypeOK, StreamsInv, LifecycleInv, HeldInv
<1>3. LifecycleInv' /\ StreamsInv'
  BY DEF TypeOK, LifecycleInv, StreamsInv
<1>4. AttachedIsServed' /\ JoiningIsServed'
  BY DEF TypeOK, StreamsInv, AttachedIsServed, JoiningIsServed, Served, MembersInv
<1>5. MembersInv' /\ SeenInv'
  BY DEF TypeOK, StreamsInv, SeenInv, MembersInv
<1> QED
  BY <1>1, <1>2, <1>3, <1>4, <1>5 DEF IInv

(* The stream the runner reads is that of an object that was made.         *)
LEMMA RunnerLooksUpKeeps ==
  ASSUME IInv, NEW p \in Prompts, RunnerLooksUp(p)
  PROVE  IInv'
<1> USE LifecycleAssumption
    DEF IInv, Threads, Convs, Streams, None, Places, EmptyHanded, vars, made, activity,
        threads, eviction, RunnerLooksUp, Goto
<1>1. TypeOK'
  BY DEF TypeOK, StreamsInv, LifecycleInv, HeldInv
<1>2. HeldInv'
  BY DEF TypeOK, StreamsInv, LifecycleInv, HeldInv
<1>3. LifecycleInv' /\ StreamsInv'
  BY DEF TypeOK, LifecycleInv, StreamsInv
<1>4. AttachedIsServed' /\ JoiningIsServed'
  BY DEF TypeOK, StreamsInv, AttachedIsServed, JoiningIsServed, Served, MembersInv
<1>5. MembersInv' /\ SeenInv'
  BY DEF TypeOK, StreamsInv, SeenInv, MembersInv
<1> QED
  BY <1>1, <1>2, <1>3, <1>4, <1>5 DEF IInv

(* A run that finds the conversation gone leaves the queue.                *)
LEMMA RunnerFindsNothingKeeps ==
  ASSUME IInv, NEW p \in Prompts, RunnerFindsNothing(p)
  PROVE  IInv'
<1> USE LifecycleAssumption
    DEF IInv, Threads, Convs, Streams, None, Places, EmptyHanded, vars, made, activity,
        threads, eviction, RunnerFindsNothing, Finish, Goto, Touch, LetGo
<1>1. TypeOK'
  <2>1. running' \subseteq Streams /\ silenced' \subseteq Convs
        /\ held' \in [Threads -> Streams \cup {None}]
    BY DEF TypeOK, HeldInv
  <2>2. pc' \in [Threads -> Places] /\ mine' \in [Threads -> 0..created']
    BY DEF TypeOK
  <2>3. \A t \in Threads : mine'[t] = None => pc'[t] \in EmptyHanded
    BY DEF TypeOK
  <2>4. pool' \in [Convs -> SUBSET Clients] /\ work' \in [Convs -> SUBSET Prompts]
    BY DEF TypeOK
  <2>5. /\ ticking' \in [Convs -> BOOLEAN] /\ onIdle' \in [Convs -> BOOLEAN]
        /\ idle' \in [Convs -> BOOLEAN]
    BY DEF TypeOK
  <2> QED
    BY <2>1, <2>2, <2>3, <2>4, <2>5 DEF TypeOK
<1>2. HeldInv'
  BY DEF TypeOK, StreamsInv, LifecycleInv, HeldInv
<1>3. LifecycleInv' /\ StreamsInv'
  BY DEF TypeOK, LifecycleInv, StreamsInv
<1>4. AttachedIsServed' /\ JoiningIsServed'
  BY DEF TypeOK, StreamsInv, AttachedIsServed, JoiningIsServed, Served, MembersInv
<1>5. MembersInv' /\ SeenInv'
  BY DEF TypeOK, StreamsInv, SeenInv, MembersInv
<1> QED
  BY <1>1, <1>2, <1>3, <1>4, <1>5 DEF IInv

(* The runner starts a stream that was made; no other is stopped.          *)
LEMMA RunnerStartsKeeps ==
  ASSUME IInv, NEW p \in Prompts, RunnerStarts(p)
  PROVE  IInv'
<1> USE LifecycleAssumption
    DEF IInv, Threads, Convs, Streams, None, Places, EmptyHanded, vars, made, activity,
        threads, eviction, RunnerStarts, EnsureRunning, Started, Goto, LetGo
<1>1. TypeOK'
  <2>1. running' \subseteq Streams /\ silenced' \subseteq Convs
        /\ held' \in [Threads -> Streams \cup {None}]
    <3>1. held[p] \in Streams
      BY DEF TypeOK, HeldInv
    <3>2. running' \subseteq Streams
      BY <3>1 DEF TypeOK
    <3>3. silenced' \subseteq Convs
      BY DEF TypeOK
    <3>4. held' \in [Threads -> Streams \cup {None}]
      BY DEF TypeOK
    <3> QED
      BY <3>2, <3>3, <3>4
  <2>2. pc' \in [Threads -> Places] /\ mine' \in [Threads -> 0..created']
    BY DEF TypeOK
  <2>3. \A t \in Threads : mine'[t] = None => pc'[t] \in EmptyHanded
    BY DEF TypeOK
  <2>4. pool' \in [Convs -> SUBSET Clients] /\ work' \in [Convs -> SUBSET Prompts]
    BY DEF TypeOK
  <2>5. /\ ticking' \in [Convs -> BOOLEAN] /\ onIdle' \in [Convs -> BOOLEAN]
        /\ idle' \in [Convs -> BOOLEAN]
    BY DEF TypeOK
  <2> QED
    BY <2>1, <2>2, <2>3, <2>4, <2>5 DEF TypeOK
<1>2. HeldInv'
  BY DEF TypeOK, StreamsInv, LifecycleInv, HeldInv
<1>3. LifecycleInv' /\ StreamsInv'
  BY DEF TypeOK, LifecycleInv, StreamsInv
<1>4. AttachedIsServed' /\ JoiningIsServed'
  BY DEF TypeOK, StreamsInv, AttachedIsServed, JoiningIsServed, Served, MembersInv
<1>5. MembersInv' /\ SeenInv'
  BY DEF TypeOK, StreamsInv, SeenInv, MembersInv
<1> QED
  BY <1>1, <1>2, <1>3, <1>4, <1>5 DEF IInv

(* A prompt whose run has ended leaves the queue and lets its object go.   *)
LEMMA RunEndsKeeps ==
  ASSUME IInv, NEW p \in Prompts, RunEnds(p)
  PROVE  IInv'
<1> USE LifecycleAssumption
    DEF IInv, Threads, Convs, Streams, None, Places, EmptyHanded, vars, made, activity,
        threads, eviction, RunEnds, Finish, Goto, Touch, LetGo
<1>1. TypeOK'
  <2>1. running' \subseteq Streams /\ silenced' \subseteq Convs
        /\ held' \in [Threads -> Streams \cup {None}]
    BY DEF TypeOK, HeldInv
  <2>2. pc' \in [Threads -> Places] /\ mine' \in [Threads -> 0..created']
    BY DEF TypeOK
  <2>3. \A t \in Threads : mine'[t] = None => pc'[t] \in EmptyHanded
    BY DEF TypeOK
  <2>4. pool' \in [Convs -> SUBSET Clients] /\ work' \in [Convs -> SUBSET Prompts]
    BY DEF TypeOK
  <2>5. /\ ticking' \in [Convs -> BOOLEAN] /\ onIdle' \in [Convs -> BOOLEAN]
        /\ idle' \in [Convs -> BOOLEAN]
    BY DEF TypeOK
  <2> QED
    BY <2>1, <2>2, <2>3, <2>4, <2>5 DEF TypeOK
<1>2. HeldInv'
  BY DEF TypeOK, StreamsInv, LifecycleInv, HeldInv
<1>3. LifecycleInv' /\ StreamsInv'
  BY DEF TypeOK, LifecycleInv, StreamsInv
<1>4. AttachedIsServed' /\ JoiningIsServed'
  BY DEF TypeOK, StreamsInv, AttachedIsServed, JoiningIsServed, Served, MembersInv
<1>5. MembersInv' /\ SeenInv'
  BY DEF TypeOK, StreamsInv, SeenInv, MembersInv
<1> QED
  BY <1>1, <1>2, <1>3, <1>4, <1>5 DEF IInv

(* A client takes the object in the table, or none.                        *)
LEMMA AttachKeeps ==
  ASSUME IInv, NEW c \in Clients, Attach(c)
  PROVE  IInv'
<1> USE LifecycleAssumption
    DEF IInv, Threads, Convs, Streams, None, Places, EmptyHanded, vars, made, activity,
        threads, eviction, Attach, Goto
<1>1. TypeOK'
  BY DEF TypeOK, StreamsInv, LifecycleInv, HeldInv
<1>2. HeldInv'
  BY DEF TypeOK, StreamsInv, LifecycleInv, HeldInv
<1>3. LifecycleInv' /\ StreamsInv'
  BY DEF TypeOK, LifecycleInv, StreamsInv
<1>4. AttachedIsServed' /\ JoiningIsServed'
  BY DEF TypeOK, StreamsInv, AttachedIsServed, JoiningIsServed, Served, MembersInv
<1>5. MembersInv' /\ SeenInv'
  BY DEF TypeOK, StreamsInv, SeenInv, MembersInv
<1> QED
  BY <1>1, <1>2, <1>3, <1>4, <1>5 DEF IInv

(* A client joins the pool of the object it holds, with its stream read.   *)
LEMMA AddToPoolKeeps ==
  ASSUME IInv, NEW c \in Clients, AddToPool(c)
  PROVE  IInv'
<1> USE LifecycleAssumption
    DEF IInv, Threads, Convs, Streams, None, Places, EmptyHanded, vars, made, activity,
        threads, eviction, AddToPool, Goto, Touch
<1>a. mine[c] \in 1..created /\ mine[c] \in Convs
  BY HoldsOne
<1>b. stream[mine[c]] \in 1..streams
  BY <1>a DEF StreamsInv
<1>1. TypeOK'
  <2>1. running' \subseteq Streams /\ silenced' \subseteq Convs
        /\ held' \in [Threads -> Streams \cup {None}]
    BY <1>a, <1>b DEF TypeOK, HeldInv
  <2>2. pc' \in [Threads -> Places] /\ mine' \in [Threads -> 0..created']
    BY DEF TypeOK
  <2>3. \A t \in Threads : mine'[t] = None => pc'[t] \in EmptyHanded
    BY DEF TypeOK
  <2>4. pool' \in [Convs -> SUBSET Clients] /\ work' \in [Convs -> SUBSET Prompts]
    BY DEF TypeOK
  <2>5. /\ ticking' \in [Convs -> BOOLEAN] /\ onIdle' \in [Convs -> BOOLEAN]
        /\ idle' \in [Convs -> BOOLEAN]
    BY DEF TypeOK
  <2> QED
    BY <2>1, <2>2, <2>3, <2>4, <2>5 DEF TypeOK
<1>2. HeldInv'
  BY <1>a, <1>b DEF TypeOK, StreamsInv, LifecycleInv, HeldInv
<1>3. LifecycleInv' /\ StreamsInv'
  BY DEF TypeOK, LifecycleInv, StreamsInv
<1>4. AttachedIsServed' /\ JoiningIsServed'
  BY DEF TypeOK, StreamsInv, AttachedIsServed, JoiningIsServed, Served, MembersInv
<1>5. MembersInv' /\ SeenInv'
  BY DEF TypeOK, StreamsInv, SeenInv, MembersInv
<1> QED
  BY <1>1, <1>2, <1>3, <1>4, <1>5 DEF IInv

(* The client that starts the stream it has read is served, or the one a   *)
(* rebuild has put in its place runs.                                      *)
LEMMA AddConnStartsKeeps ==
  ASSUME IInv, NEW c \in Clients, AddConnStarts(c)
  PROVE  IInv'
<1> USE LifecycleAssumption
    DEF IInv, Threads, Convs, Streams, None, Places, EmptyHanded, vars, made, activity,
        threads, eviction, AddConnStarts, EnsureRunning, Started, Goto, LetGo
<1>1. TypeOK'
  <2>1. running' \subseteq Streams /\ silenced' \subseteq Convs
        /\ held' \in [Threads -> Streams \cup {None}]
    <3>1. held[c] \in Streams
      BY DEF TypeOK, HeldInv
    <3>2. running' \subseteq Streams
      BY <3>1 DEF TypeOK
    <3>3. silenced' \subseteq Convs
      BY DEF TypeOK
    <3>4. held' \in [Threads -> Streams \cup {None}]
      BY DEF TypeOK
    <3> QED
      BY <3>2, <3>3, <3>4
  <2>2. pc' \in [Threads -> Places] /\ mine' \in [Threads -> 0..created']
    BY DEF TypeOK
  <2>3. \A t \in Threads : mine'[t] = None => pc'[t] \in EmptyHanded
    BY DEF TypeOK
  <2>4. pool' \in [Convs -> SUBSET Clients] /\ work' \in [Convs -> SUBSET Prompts]
    BY DEF TypeOK
  <2>5. /\ ticking' \in [Convs -> BOOLEAN] /\ onIdle' \in [Convs -> BOOLEAN]
        /\ idle' \in [Convs -> BOOLEAN]
    BY DEF TypeOK
  <2> QED
    BY <2>1, <2>2, <2>3, <2>4, <2>5 DEF TypeOK
<1>2. HeldInv'
  BY DEF TypeOK, StreamsInv, LifecycleInv, HeldInv
<1>3. LifecycleInv' /\ StreamsInv'
  BY DEF TypeOK, LifecycleInv, StreamsInv
<1>4. AttachedIsServed' /\ JoiningIsServed'
  BY DEF TypeOK, StreamsInv, AttachedIsServed, JoiningIsServed, Served, MembersInv
<1>5. MembersInv' /\ SeenInv'
  BY DEF TypeOK, StreamsInv, SeenInv, MembersInv
<1> QED
  BY <1>1, <1>2, <1>3, <1>4, <1>5 DEF IInv

(* A client that is dropped leaves the pool and keeps its object.          *)
LEMMA DropKeeps ==
  ASSUME IInv, NEW c \in Clients, Drop(c)
  PROVE  IInv'
<1> USE LifecycleAssumption
    DEF IInv, Threads, Convs, Streams, None, Places, EmptyHanded, vars, made, activity,
        threads, eviction, Drop, Leaves
<1>1. TypeOK'
  BY DEF TypeOK, StreamsInv, LifecycleInv, HeldInv
<1>2. HeldInv'
  BY DEF TypeOK, StreamsInv, LifecycleInv, HeldInv
<1>3. LifecycleInv' /\ StreamsInv'
  BY DEF TypeOK, LifecycleInv, StreamsInv
<1>4. AttachedIsServed' /\ JoiningIsServed'
  BY DEF TypeOK, StreamsInv, AttachedIsServed, JoiningIsServed, Served, MembersInv
<1>5. MembersInv' /\ SeenInv'
  BY DEF TypeOK, StreamsInv, SeenInv, MembersInv
<1> QED
  BY <1>1, <1>2, <1>3, <1>4, <1>5 DEF IInv

(* A client whose read loop ends leaves the pool and lets its object go.   *)
LEMMA RemoveConnKeeps ==
  ASSUME IInv, NEW c \in Clients, RemoveConn(c)
  PROVE  IInv'
<1> USE LifecycleAssumption
    DEF IInv, Threads, Convs, Streams, None, Places, EmptyHanded, vars, made, activity,
        threads, eviction, RemoveConn, Leaves, Touch, Goto, LetGo
<1>1. TypeOK'
  <2>1. running' \subseteq Streams /\ silenced' \subseteq Convs
        /\ held' \in [Threads -> Streams \cup {None}]
    BY DEF TypeOK, HeldInv
  <2>2. pc' \in [Threads -> Places] /\ mine' \in [Threads -> 0..created']
    BY DEF TypeOK
  <2>3. \A t \in Threads : mine'[t] = None => pc'[t] \in EmptyHanded
    BY DEF TypeOK
  <2>4. pool' \in [Convs -> SUBSET Clients] /\ work' \in [Convs -> SUBSET Prompts]
    BY DEF TypeOK
  <2>5. /\ ticking' \in [Convs -> BOOLEAN] /\ onIdle' \in [Convs -> BOOLEAN]
        /\ idle' \in [Convs -> BOOLEAN]
    BY DEF TypeOK
  <2> QED
    BY <2>1, <2>2, <2>3, <2>4, <2>5 DEF TypeOK
<1>2. HeldInv'
  BY DEF TypeOK, StreamsInv, LifecycleInv, HeldInv
<1>3. LifecycleInv' /\ StreamsInv'
  BY DEF TypeOK, LifecycleInv, StreamsInv
<1>4. AttachedIsServed' /\ JoiningIsServed'
  BY DEF TypeOK, StreamsInv, AttachedIsServed, JoiningIsServed, Served, MembersInv
<1>5. MembersInv' /\ SeenInv'
  BY DEF TypeOK, StreamsInv, SeenInv, MembersInv
<1> QED
  BY <1>1, <1>2, <1>3, <1>4, <1>5 DEF IInv

(* A timer that fires stops ticking.                                       *)
LEMMA TriggerIdleKeeps ==
  ASSUME IInv, NEW v \in Convs, TriggerIdle(v)
  PROVE  IInv'
<1> USE LifecycleAssumption
    DEF IInv, Threads, Convs, Streams, None, Places, EmptyHanded, vars, made, activity,
        threads, eviction, TriggerIdle
<1>1. TypeOK'
  BY DEF TypeOK, StreamsInv, LifecycleInv, HeldInv
<1>2. HeldInv'
  BY DEF TypeOK, StreamsInv, LifecycleInv, HeldInv
<1>3. LifecycleInv' /\ StreamsInv'
  BY DEF TypeOK, LifecycleInv, StreamsInv
<1>4. AttachedIsServed' /\ JoiningIsServed'
  BY DEF TypeOK, StreamsInv, AttachedIsServed, JoiningIsServed, Served, MembersInv
<1>5. MembersInv' /\ SeenInv'
  BY DEF TypeOK, StreamsInv, SeenInv, MembersInv
<1> QED
  BY <1>1, <1>2, <1>3, <1>4, <1>5 DEF IInv

(* The idle callback stops the stream of one object; if that has clients   *)
(* they count as silenced, and no other object has the stream.             *)
LEMMA CallOnIdleKeeps ==
  ASSUME IInv, NEW v \in Convs, CallOnIdle(v)
  PROVE  IInv'
<1> USE LifecycleAssumption
    DEF IInv, Threads, Convs, Streams, None, Places, EmptyHanded, vars, made, activity,
        threads, eviction, CallOnIdle, Silenced
<1>1. TypeOK'
  BY DEF TypeOK, StreamsInv, LifecycleInv, HeldInv
<1>2. HeldInv'
  BY DEF TypeOK, StreamsInv, LifecycleInv, HeldInv
<1>3. LifecycleInv' /\ StreamsInv'
  BY DEF TypeOK, LifecycleInv, StreamsInv
<1>4. AttachedIsServed'
  <2> SUFFICES ASSUME NEW c \in Clients, pc[c] = "attached", c \in pool[mine[c]]
               PROVE  stream[mine[c]] \in running' \/ mine[c] \in silenced'
    BY DEF AttachedIsServed, Served
  <2>1. mine[c] \in 1..created /\ mine[c] \in Convs
    BY HoldsOne
  <2>2. CASE mine[c] = v
    BY <2>1, <2>2
  <2>3. CASE mine[c] # v
    <3>1. CASE v \in 1..created
      BY <2>1, <2>3, <3>1 DEF StreamsInv, AttachedIsServed, JoiningIsServed, Served
    <3>2. CASE v > created
      <4>1. stream[v] = None /\ stream[mine[c]] # None
        BY <2>1, <3>2 DEF StreamsInv
      <4> QED
        BY <4>1 DEF AttachedIsServed, JoiningIsServed, Served
    <3> QED
      BY <3>1, <3>2 DEF TypeOK
  <2> QED
    BY <2>2, <2>3
<1>5. JoiningIsServed'
  <2> SUFFICES ASSUME NEW c \in Clients, pc[c] = "joining", c \in pool[mine[c]]
               PROVE  \/ held[c] = stream[mine[c]]
                      \/ stream[mine[c]] \in running' \/ mine[c] \in silenced'
    BY DEF JoiningIsServed, Served
  <2>1. mine[c] \in 1..created /\ mine[c] \in Convs
    BY HoldsOne
  <2>2. CASE mine[c] = v
    BY <2>1, <2>2
  <2>3. CASE mine[c] # v
    <3>1. CASE v \in 1..created
      BY <2>1, <2>3, <3>1 DEF StreamsInv, AttachedIsServed, JoiningIsServed, Served
    <3>2. CASE v > created
      <4>1. stream[v] = None /\ stream[mine[c]] # None
        BY <2>1, <3>2 DEF StreamsInv
      <4> QED
        BY <4>1 DEF AttachedIsServed, JoiningIsServed, Served
    <3> QED
      BY <3>1, <3>2 DEF TypeOK
  <2> QED
    BY <2>2, <2>3
<1>6. MembersInv' /\ SeenInv'
  BY DEF TypeOK, StreamsInv, SeenInv, MembersInv
<1> QED
  BY <1>1, <1>2, <1>3, <1>4, <1>5, <1>6 DEF IInv

(* That an object is idle matters to the eviction alone.                   *)
LEMMA TimePassesKeeps ==
  ASSUME IInv, NEW v \in Convs, TimePasses(v)
  PROVE  IInv'
<1> USE LifecycleAssumption
    DEF IInv, Threads, Convs, Streams, None, Places, EmptyHanded, vars, made, activity,
        threads, eviction, TimePasses
<1>1. TypeOK'
  BY DEF TypeOK, StreamsInv, LifecycleInv, HeldInv
<1>2. HeldInv'
  BY DEF TypeOK, StreamsInv, LifecycleInv, HeldInv
<1>3. LifecycleInv' /\ StreamsInv'
  BY DEF TypeOK, LifecycleInv, StreamsInv
<1>4. AttachedIsServed' /\ JoiningIsServed'
  BY DEF TypeOK, StreamsInv, AttachedIsServed, JoiningIsServed, Served, MembersInv
<1>5. MembersInv' /\ SeenInv'
  BY DEF TypeOK, StreamsInv, SeenInv, MembersInv
<1> QED
  BY <1>1, <1>2, <1>3, <1>4, <1>5 DEF IInv

(* Those the evictor sees at first are in the pool or the queue, and so    *)
(* have come to their object.                                              *)
LEMMA ChooseTargetKeeps ==
  ASSUME IInv, ChooseTarget
  PROVE  IInv'
<1> USE LifecycleAssumption
    DEF IInv, Threads, Convs, Streams, None, Places, EmptyHanded, vars, made, activity,
        threads, eviction, ChooseTarget
<1>1. TypeOK'
  BY DEF TypeOK, StreamsInv, LifecycleInv, HeldInv
<1>2. HeldInv'
  BY DEF TypeOK, StreamsInv, LifecycleInv, HeldInv
<1>3. LifecycleInv' /\ StreamsInv'
  BY DEF TypeOK, LifecycleInv, StreamsInv
<1>4. AttachedIsServed' /\ JoiningIsServed'
  BY DEF TypeOK, StreamsInv, AttachedIsServed, JoiningIsServed, Served, MembersInv
<1>5. MembersInv' /\ SeenInv'
  BY DEF TypeOK, StreamsInv, SeenInv, MembersInv
<1> QED
  BY <1>1, <1>2, <1>3, <1>4, <1>5 DEF IInv

(* Each check that lets the evictor go on shows that those it has seen     *)
(* have left the pool, or the queue.                                       *)
LEMMA CheckKeeps ==
  ASSUME IInv, Check
  PROVE  IInv'
<1> USE LifecycleAssumption
    DEF IInv, Threads, Convs, Streams, None, Places, EmptyHanded, vars, made, activity,
        threads, eviction, Check, Keeps, Rests, Advances, IsBusy
<1>1. TypeOK'
  BY DEF TypeOK, StreamsInv, LifecycleInv, HeldInv
<1>2. HeldInv'
  BY DEF TypeOK, StreamsInv, LifecycleInv, HeldInv
<1>3. LifecycleInv' /\ StreamsInv'
  BY DEF TypeOK, LifecycleInv, StreamsInv
<1>4. AttachedIsServed' /\ JoiningIsServed'
  BY DEF TypeOK, StreamsInv, AttachedIsServed, JoiningIsServed, Served, MembersInv
<1>5. MembersInv' /\ SeenInv'
  BY DEF TypeOK, StreamsInv, SeenInv, MembersInv
<1> QED
  BY <1>1, <1>2, <1>3, <1>4, <1>5 DEF IInv

(* The object taken out of the table is the one that is evicted.           *)
LEMMA DeleteKeeps ==
  ASSUME IInv, Delete
  PROVE  IInv'
<1> USE LifecycleAssumption
    DEF IInv, Threads, Convs, Streams, None, Places, EmptyHanded, vars, made, activity,
        threads, eviction, Delete, StillStored, Advances
<1>1. TypeOK'
  BY DEF TypeOK, StreamsInv, LifecycleInv, HeldInv
<1>2. HeldInv'
  BY DEF TypeOK, StreamsInv, LifecycleInv, HeldInv
<1>3. LifecycleInv' /\ StreamsInv'
  BY DEF TypeOK, LifecycleInv, StreamsInv
<1>4. AttachedIsServed' /\ JoiningIsServed'
  BY DEF TypeOK, StreamsInv, AttachedIsServed, JoiningIsServed, Served, MembersInv
<1>5. MembersInv' /\ SeenInv'
  BY DEF TypeOK, StreamsInv, SeenInv, MembersInv
<1> QED
  BY <1>1, <1>2, <1>3, <1>4, <1>5 DEF IInv

(* CloseAll empties the pool and stops its timer.                          *)
LEMMA CloseAllKeeps ==
  ASSUME IInv, CloseAll
  PROVE  IInv'
<1> USE LifecycleAssumption
    DEF IInv, Threads, Convs, Streams, None, Places, EmptyHanded, vars, made, activity,
        threads, eviction, CloseAll, Advances
<1>1. TypeOK'
  BY DEF TypeOK, StreamsInv, LifecycleInv, HeldInv
<1>2. HeldInv'
  BY DEF TypeOK, StreamsInv, LifecycleInv, HeldInv
<1>3. LifecycleInv' /\ StreamsInv'
  BY DEF TypeOK, LifecycleInv, StreamsInv
<1>4. AttachedIsServed' /\ JoiningIsServed'
  BY DEF TypeOK, StreamsInv, AttachedIsServed, JoiningIsServed, Served, MembersInv
<1>5. MembersInv' /\ SeenInv'
  BY DEF TypeOK, StreamsInv, SeenInv, MembersInv
<1> QED
  BY <1>1, <1>2, <1>3, <1>4, <1>5 DEF IInv

(* The clean-up stops the stream of the evicted object and of no other.    *)
LEMMA StopStreamKeeps ==
  ASSUME IInv, StopStream
  PROVE  IInv'
<1> USE LifecycleAssumption
    DEF IInv, Threads, Convs, Streams, None, Places, EmptyHanded, vars, made, activity,
        threads, eviction, StopStream, Rests, Silenced
<1>1. TypeOK'
  BY DEF TypeOK, StreamsInv, LifecycleInv, HeldInv
<1>2. HeldInv'
  BY DEF TypeOK, StreamsInv, LifecycleInv, HeldInv
<1>3. LifecycleInv' /\ StreamsInv'
  BY DEF TypeOK, LifecycleInv, StreamsInv
<1>4. AttachedIsServed'
  <2> SUFFICES ASSUME NEW c \in Clients, pc[c] = "attached", c \in pool[mine[c]]
               PROVE  stream[mine[c]] \in running' \/ mine[c] \in silenced'
    BY DEF AttachedIsServed, Served
  <2>1. /\ mine[c] \in 1..created /\ mine[c] \in Convs
        /\ target \in 1..created /\ target \in Convs
    BY HoldsOne, TargetIsMade
  <2>2. CASE mine[c] = target
    BY <2>1, <2>2
  <2>3. CASE mine[c] # target
    <3>1. stream[mine[c]] # stream[target]
      BY <2>1, <2>3 DEF StreamsInv, TypeOK
    <3> QED
      BY <3>1 DEF AttachedIsServed, JoiningIsServed, Served
  <2> QED
    BY <2>2, <2>3
<1>5. JoiningIsServed'
  <2> SUFFICES ASSUME NEW c \in Clients, pc[c] = "joining", c \in pool[mine[c]]
               PROVE  \/ held[c] = stream[mine[c]]
                      \/ stream[mine[c]] \in running' \/ mine[c] \in silenced'
    BY DEF JoiningIsServed, Served
  <2>1. /\ mine[c] \in 1..created /\ mine[c] \in Convs
        /\ target \in 1..created /\ target \in Convs
    BY HoldsOne, TargetIsMade
  <2>2. CASE mine[c] = target
    BY <2>1, <2>2
  <2>3. CASE mine[c] # target
    <3>1. stream[mine[c]] # stream[target]
      BY <2>1, <2>3 DEF StreamsInv, TypeOK
    <3> QED
      BY <3>1 DEF AttachedIsServed, JoiningIsServed, Served
  <2> QED
    BY <2>2, <2>3
<1>6. MembersInv' /\ SeenInv'
  BY DEF TypeOK, StreamsInv, SeenInv, MembersInv
<1> QED
  BY <1>1, <1>2, <1>3, <1>4, <1>5, <1>6 DEF IInv

(* GetOrCreate that finds no object makes one with a stream of its own.    *)
LEMMA CreateKeeps ==
  ASSUME IInv, NEW t \in Threads, pc[t] \in {"new", "creating"},
         NEW f \in Fingerprints \cup {DefaultFp}, Existing = None, Create(f),
         NEW to \in {"resolved", "found"}, pc' = [pc EXCEPT ![t] = to],
         mine' \in [Threads -> 0..created'], \A u \in Threads \ {t} : mine'[u] = mine[u],
         to = "found" => mine'[t] # None,
         UNCHANGED <<activity, held, eviction>>
  PROVE  IInv'
<1> USE LifecycleAssumption
    DEF IInv, Threads, Convs, Streams, None, Places, EmptyHanded, vars, made, activity,
        threads, eviction, Create, Touch, Existing
<1>1. TypeOK'
  BY DEF TypeOK, StreamsInv, LifecycleInv, HeldInv
<1>2. HeldInv'
  BY DEF TypeOK, StreamsInv, LifecycleInv, HeldInv
<1>3. LifecycleInv' /\ StreamsInv'
  <2>1. LifecycleInv'
    BY DEF TypeOK, StreamsInv, LifecycleInv
  <2>2. StreamsInv'
    BY DEF TypeOK, LifecycleInv, StreamsInv
  <2> QED
    BY <2>1, <2>2
<1>4. AttachedIsServed' /\ JoiningIsServed'
  BY DEF TypeOK, StreamsInv, AttachedIsServed, JoiningIsServed, Served, MembersInv
<1>5. MembersInv' /\ SeenInv'
  BY DEF TypeOK, StreamsInv, SeenInv, MembersInv
<1> QED
  BY <1>1, <1>2, <1>3, <1>4, <1>5 DEF IInv

(* GetOrCreate that rebuilds gives the object a new stream, which runs.    *)
LEMMA RebuildKeeps ==
  ASSUME IInv, NEW t \in Threads, pc[t] \in {"new", "creating"},
         NEW f \in Fingerprints \cup {DefaultFp}, Existing # None, Rebuild(table, f),
         NEW to \in {"resolved", "found"}, pc' = [pc EXCEPT ![t] = to],
         mine' \in [Threads -> 0..created'], \A u \in Threads \ {t} : mine'[u] = mine[u],
         to = "found" => mine'[t] # None,
         UNCHANGED <<activity, held, eviction>>
  PROVE  IInv'
<1> USE LifecycleAssumption
    DEF IInv, Threads, Convs, Streams, None, Places, EmptyHanded, vars, made, activity,
        threads, eviction, Rebuild, Touch, Existing
<1>1. TypeOK'
  <2>1. running' \subseteq Streams /\ silenced' \subseteq Convs
        /\ held' \in [Threads -> Streams \cup {None}]
    <3>1. streams' \in Streams
      BY DEF TypeOK
    <3>2. running' \subseteq Streams
      BY <3>1 DEF TypeOK
    <3> QED
      BY <3>2 DEF TypeOK
  <2>2. pc' \in [Threads -> Places] /\ mine' \in [Threads -> 0..created']
    BY DEF TypeOK
  <2>3. \A u \in Threads : mine'[u] = None => pc'[u] \in EmptyHanded
    BY DEF TypeOK
  <2>4. pool' \in [Convs -> SUBSET Clients] /\ work' \in [Convs -> SUBSET Prompts]
    BY DEF TypeOK
  <2>5. /\ ticking' \in [Convs -> BOOLEAN] /\ onIdle' \in [Convs -> BOOLEAN]
        /\ idle' \in [Convs -> BOOLEAN]
    BY DEF TypeOK
  <2> QED
    BY <2>1, <2>2, <2>3, <2>4, <2>5 DEF TypeOK
<1>2. HeldInv'
  BY DEF TypeOK, StreamsInv, LifecycleInv, HeldInv
<1>3. LifecycleInv'
  BY DEF TypeOK, StreamsInv, LifecycleInv
<1>4. StreamsInv'
  <2>a. table \in 1..created /\ table \in Convs
    BY TableIsMade
  <2>1. stream' = [stream EXCEPT ![table] = streams + 1] /\ table \in 1..created
        /\ streams' = streams + 1 /\ streams \in Nat /\ created \in Nat /\ table \in Convs
    BY <2>a DEF TypeOK
  <2>2. \A v \in Convs : stream'[v] = IF v = table THEN streams + 1 ELSE stream[v]
    BY <2>1 DEF TypeOK
  <2>3. 1..created \subseteq Convs
    BY DEF TypeOK
  <2>4. \A v \in 1..created : stream'[v] \in 1..streams'
    BY <2>1, <2>2, <2>3 DEF StreamsInv
  <2>5. \A v, w \in 1..created : stream'[v] = stream'[w] => v = w
    BY <2>1, <2>2, <2>3 DEF StreamsInv
  <2> QED
    BY <2>1, <2>2, <2>4, <2>5 DEF StreamsInv
<1>5. AttachedIsServed'
  <2> SUFFICES ASSUME NEW c \in Clients, pc'[c] = "attached", c \in pool[mine'[c]]
               PROVE  stream'[mine'[c]] \in running' \/ mine'[c] \in silenced'
    BY DEF AttachedIsServed, Served
  <2>0. pc[c] = "attached" /\ mine'[c] = mine[c]
    BY DEF TypeOK
  <2>1. pc[c] = "attached" /\ mine'[c] = mine[c] /\ mine[c] \in 1..created /\ mine[c] \in Convs
    BY <2>0, HoldsOne
  <2>2. table \in 1..created /\ table \in Convs
    BY TableIsMade
  <2>3. CASE mine[c] = table
    BY <2>1, <2>2, <2>3 DEF TypeOK
  <2>4. CASE mine[c] # table
    <3>1. stream[mine[c]] # stream[table] /\ stream'[mine[c]] = stream[mine[c]]
      BY <2>1, <2>2, <2>4 DEF StreamsInv, TypeOK
    <3> QED
      BY <2>1, <2>4, <3>1 DEF AttachedIsServed, Served
  <2> QED
    BY <2>3, <2>4
<1>6. JoiningIsServed'
  <2> SUFFICES ASSUME NEW c \in Clients, pc'[c] = "joining", c \in pool[mine'[c]]
               PROVE  \/ held[c] = stream'[mine'[c]]
                      \/ stream'[mine'[c]] \in running' \/ mine'[c] \in silenced'
    BY DEF JoiningIsServed, Served
  <2>0. pc[c] = "joining" /\ mine'[c] = mine[c]
    BY DEF TypeOK
  <2>1. pc[c] = "joining" /\ mine'[c] = mine[c] /\ mine[c] \in 1..created /\ mine[c] \in Convs
    BY <2>0, HoldsOne
  <2>2. table \in 1..created /\ table \in Convs
    BY TableIsMade
  <2>3. CASE mine[c] = table
    BY <2>1, <2>2, <2>3 DEF TypeOK
  <2>4. CASE mine[c] # table
    <3>1. stream[mine[c]] # stream[table] /\ stream'[mine[c]] = stream[mine[c]]
      BY <2>1, <2>2, <2>4 DEF StreamsInv, TypeOK
    <3> QED
      BY <2>1, <2>4, <3>1 DEF JoiningIsServed, Served
  <2> QED
    BY <2>3, <2>4
<1>7. MembersInv' /\ SeenInv'
  BY DEF TypeOK, StreamsInv, SeenInv, MembersInv
<1> QED
  BY <1>1, <1>2, <1>3, <1>4, <1>5, <1>6, <1>7 DEF IInv

(* GetOrCreate that finds the object with the right runtime touches it.    *)
LEMMA ReuseKeeps ==
  ASSUME IInv, NEW t \in Threads, pc[t] \in {"new", "creating"},
         NEW f \in Fingerprints \cup {DefaultFp}, Existing # None, Reuse(table),
         NEW to \in {"resolved", "found"}, pc' = [pc EXCEPT ![t] = to],
         mine' \in [Threads -> 0..created'], \A u \in Threads \ {t} : mine'[u] = mine[u],
         to = "found" => mine'[t] # None,
         UNCHANGED <<activity, held, eviction>>
  PROVE  IInv'
<1> USE LifecycleAssumption
    DEF IInv, Threads, Convs, Streams, None, Places, EmptyHanded, vars, made, activity,
        threads, eviction, Reuse, Touch, Existing
<1>1. TypeOK'
  BY DEF TypeOK, StreamsInv, LifecycleInv, HeldInv
<1>2. HeldInv'
  BY DEF TypeOK, StreamsInv, LifecycleInv, HeldInv
<1>3. LifecycleInv' /\ StreamsInv'
  BY DEF TypeOK, LifecycleInv, StreamsInv
<1>4. AttachedIsServed' /\ JoiningIsServed'
  BY DEF TypeOK, StreamsInv, AttachedIsServed, JoiningIsServed, Served, MembersInv
<1>5. MembersInv' /\ SeenInv'
  BY DEF TypeOK, StreamsInv, SeenInv, MembersInv
<1> QED
  BY <1>1, <1>2, <1>3, <1>4, <1>5 DEF IInv

(* Whatever GetOrCreate has to do for a thread, it keeps the invariant.    *)
LEMMA GetOrCreateKeeps ==
  ASSUME IInv, NEW t \in Threads, pc[t] \in {"new", "creating"},
         NEW f \in Fingerprints \cup {DefaultFp}, GetOrCreate(f),
         NEW to \in {"resolved", "found"}, pc' = [pc EXCEPT ![t] = to],
         mine' \in [Threads -> 0..created'], \A u \in Threads \ {t} : mine'[u] = mine[u],
         to = "found" => mine'[t] # None,
         UNCHANGED <<activity, held, eviction>>
  PROVE  IInv'
<1>1. CASE Existing = None /\ Create(f)
  BY <1>1, CreateKeeps
<1>2. CASE Existing # None /\ Rebuild(table, f)
  BY <1>2, RebuildKeeps
<1>3. CASE Existing # None /\ Reuse(table)
  BY <1>3, ReuseKeeps
<1> QED
  BY <1>1, <1>2, <1>3 DEF GetOrCreate

(* A submission resolves the conversation and lets it go.                  *)
LEMMA ResolveKeeps ==
  ASSUME IInv, NEW p \in Prompts, NEW f \in Fingerprints, Resolve(p, f)
  PROVE  IInv'
<1>1. p \in Threads /\ pc[p] \in {"new", "creating"} /\ GetOrCreate(f)
  BY DEF Threads, Resolve
<1>2. pc' = [pc EXCEPT ![p] = "resolved"] /\ mine' = mine
      /\ UNCHANGED <<activity, held, eviction>>
  BY DEF Resolve, Goto
<1>3. created \in Nat /\ created' \in Nat /\ created <= created'
  BY <1>1, LifecycleAssumption
     DEF IInv, TypeOK, GetOrCreate, Create, Rebuild, Reuse, made
<1>4. mine' \in [Threads -> 0..created']
  <2>1. 0..created \subseteq 0..created'
    BY <1>3
  <2>2. mine \in [Threads -> 0..created]
    BY DEF IInv, TypeOK
  <2> QED
    BY <1>2, <2>1, <2>2
<1> QED
  BY <1>1, <1>2, <1>4, GetOrCreateKeeps

(* AttachWebSocket holds what GetOrCreate has returned.                    *)
LEMMA AttachCreatesKeeps ==
  ASSUME IInv, NEW c \in Clients, AttachCreates(c)
  PROVE  IInv'
<1>1. c \in Threads /\ pc[c] \in {"new", "creating"} /\ GetOrCreate(DefaultFp)
  BY DEF Threads, AttachCreates
<1>2. pc' = [pc EXCEPT ![c] = "found"] /\ mine' = [mine EXCEPT ![c] = table']
      /\ UNCHANGED <<activity, held, eviction>>
  BY DEF AttachCreates, Goto
<1>3. created \in Nat /\ created' \in Nat /\ created <= created'
      /\ table' \in 1..created' /\ table' # None
  <2>1. created \in Nat /\ created \in 0..MaxConvs
    BY LifecycleAssumption DEF IInv, TypeOK
  <2>2. CASE Existing = None /\ Create(DefaultFp)
    BY <2>1, <2>2 DEF Create, None
  <2>3. CASE Existing # None /\ (Rebuild(table, DefaultFp) \/ Reuse(table))
    <3>1. table \in 1..created
      BY <2>3, TableIsMade DEF IInv, Existing
    <3>2. table' = table /\ created' = created
      BY <2>3 DEF Rebuild, Reuse, made
    <3> QED
      BY <2>1, <2>3, <3>1, <3>2 DEF Existing
  <2> QED
    BY <1>1, <2>2, <2>3 DEF GetOrCreate
<1>4. mine \in [Threads -> 0..created] /\ 0..created \subseteq 0..created'
      /\ 1..created' \subseteq 0..created'
  BY <1>3 DEF IInv, TypeOK
<1>5. mine' \in [Threads -> 0..created'] /\ mine'[c] = table'
      /\ \A u \in Threads \ {c} : mine'[u] = mine[u]
  BY <1>1, <1>2, <1>3, <1>4
<1> QED
  BY <1>1, <1>2, <1>3, <1>5, GetOrCreateKeeps

-----------------------------------------------------------------------------
(* The invariant holds of every behaviour                                  *)

LEMMA InitInv == Init => IInv
<1> SUFFICES ASSUME Init
             PROVE  IInv
  OBVIOUS
<1> USE LifecycleAssumption DEF Init, Threads, Convs, Streams, None
<1>1. TypeOK
  BY DEF TypeOK, Places, EmptyHanded
<1>2. LifecycleInv /\ AttachedIsServed
  BY DEF LifecycleInv, AttachedIsServed
<1>3. StreamsInv
  BY DEF StreamsInv
<1>4. HeldInv /\ JoiningIsServed
  BY DEF HeldInv, JoiningIsServed
<1>5. MembersInv /\ SeenInv
  BY DEF MembersInv, SeenInv
<1> QED
  BY <1>1, <1>2, <1>3, <1>4, <1>5 DEF IInv

LEMMA NextInv == IInv /\ [Next]_vars => IInv'
<1> SUFFICES ASSUME IInv, [Next]_vars
             PROVE  IInv'
  OBVIOUS
<1>1. ASSUME NEW p \in Prompts, PromptStep(p)
      PROVE  IInv'
  <2>1. CASE \E f \in Fingerprints : Resolve(p, f)
    BY <2>1, ResolveKeeps
  <2>2. CASE LookUp(p)
    BY <2>2, LookUpKeeps
  <2>3. CASE Admit(p)
    BY <2>3, AdmitKeeps
  <2>4. CASE RunnerLooksUp(p)
    BY <2>4, RunnerLooksUpKeeps
  <2>5. CASE RunnerFindsNothing(p)
    BY <2>5, RunnerFindsNothingKeeps
  <2>6. CASE RunnerStarts(p)
    BY <2>6, RunnerStartsKeeps
  <2>7. CASE RunEnds(p)
    BY <2>7, RunEndsKeeps
  <2> QED
    BY <1>1, <2>1, <2>2, <2>3, <2>4, <2>5, <2>6, <2>7 DEF PromptStep
<1>2. ASSUME NEW c \in Clients, AttachStep(c) \/ Drop(c) \/ RemoveConn(c)
      PROVE  IInv'
  <2>1. CASE Attach(c)
    BY <2>1, AttachKeeps
  <2>2. CASE AttachCreates(c)
    BY <2>2, AttachCreatesKeeps
  <2>3. CASE AddToPool(c)
    BY <2>3, AddToPoolKeeps
  <2>4. CASE AddConnStarts(c)
    BY <2>4, AddConnStartsKeeps
  <2>5. CASE Drop(c)
    BY <2>5, DropKeeps
  <2>6. CASE RemoveConn(c)
    BY <2>6, RemoveConnKeeps
  <2> QED
    BY <1>2, <2>1, <2>2, <2>3, <2>4, <2>5, <2>6 DEF AttachStep
<1>3. ASSUME NEW v \in Convs, TimerStep(v) \/ TimePasses(v)
      PROVE  IInv'
  BY <1>3, TriggerIdleKeeps, CallOnIdleKeeps, TimePassesKeeps DEF TimerStep
<1>4. CASE EvictorStep
  BY <1>4, ChooseTargetKeeps, CheckKeeps, DeleteKeeps, CloseAllKeeps, StopStreamKeeps
     DEF EvictorStep
<1>5. CASE UNCHANGED vars
  <2> USE <1>5 DEF IInv, vars, made, activity, threads, eviction
  <2>1. TypeOK'
    BY DEF TypeOK
  <2>2. LifecycleInv' /\ AttachedIsServed'
    BY DEF LifecycleInv, AttachedIsServed
  <2>3. StreamsInv' /\ HeldInv'
    BY DEF StreamsInv, HeldInv
  <2>4. JoiningIsServed' /\ MembersInv' /\ SeenInv'
    BY DEF JoiningIsServed, Served, MembersInv, SeenInv
  <2> QED
    BY <2>1, <2>2, <2>3, <2>4
<1> QED
  BY <1>1, <1>2, <1>3, <1>4, <1>5 DEF Next

LEMMA InvHolds == Spec => []IInv
<1> HIDE DEF IInv
<1> QED
  BY InitInv, NextInv, PTL DEF Spec

(* The state of the conversations, their streams and the threads that use  *)
(* them stays in shape, and who holds no object is at a place where it     *)
(* needs none.                                                             *)
THEOREM LifecycleTypeCorrect == Spec => []TypeOK
<1>1. IInv => TypeOK
  BY DEF IInv
<1> QED
  BY <1>1, InvHolds, PTL

(* Whoever asks for the conversation, there is one object for it: those    *)
(* made are in the table or have been evicted (GetOrCreate, evictIdleOnce),*)
(* the eviction cleans up only what it has evicted, and no idle timer      *)
(* ticks over a client (AddConn, RemoveConn, cleanupConversation).         *)
THEOREM OneObject == Spec => []LifecycleInv
<1>1. IInv => LifecycleInv
  BY DEF IInv
<1> QED
  BY <1>1, InvHolds, PTL

(* A client whose AddConn is done and that is still in the pool has a      *)
(* running stream, unless an idle callback or a clean-up that was already  *)
(* under way when it came has stopped it: a rebuild leaves a stream that   *)
(* runs, and AddConn starts one that was stopped.                          *)
THEOREM ClientsAreServed == Spec => []AttachedIsServed
<1>1. IInv => AttachedIsServed
  BY DEF IInv
<1> QED
  BY <1>1, InvHolds, PTL

(* Only Delete takes an object out of the table, and by then the evictor   *)
(* has seen the pool and the queue without those it saw at first.          *)
LEMMA EvictsNoneSeen ==
  ASSUME IInv, [Next]_vars, evicted' # evicted
  PROVE  seen \cap (work[target] \cup pool[target]) = {}
<1>1. Delete
  <2> USE DEF vars, made, activity, threads, eviction
  <2>1. ASSUME NEW p \in Prompts, PromptStep(p)
        PROVE  evicted' = evicted
    BY <2>1 DEF PromptStep, Resolve, GetOrCreate, Create, Rebuild, Reuse, LookUp, Admit,
                RunnerLooksUp, RunnerFindsNothing, RunnerStarts, RunEnds, Finish
  <2>2. ASSUME NEW c \in Clients, AttachStep(c) \/ Drop(c) \/ RemoveConn(c)
        PROVE  evicted' = evicted
    BY <2>2 DEF AttachStep, Attach, AttachCreates, GetOrCreate, Create, Rebuild, Reuse,
                AddToPool, AddConnStarts, Drop, RemoveConn
  <2>3. ASSUME NEW v \in Convs, TimerStep(v) \/ TimePasses(v)
        PROVE  evicted' = evicted
    BY <2>3 DEF TimerStep, TriggerIdle, CallOnIdle, TimePasses
  <2>4. ChooseTarget \/ Check \/ CloseAll \/ StopStream => evicted' = evicted
    BY DEF ChooseTarget, Check, CloseAll, StopStream
  <2> QED
    BY <2>1, <2>2, <2>3, <2>4 DEF Next, EvictorStep
<1> QED
  BY <1>1 DEF Delete, IInv, SeenInv

(* A prompt or a client that a conversation has from the moment the        *)
(* eviction loop takes it up keeps it from being evicted, though the three *)
(* checks of shouldEvictConversation are under three locks.                *)
THEOREM InUseIsKept == Spec => KeptWhileInUse
<1>1. IInv /\ [Next]_vars
        => [evicted' # evicted => seen \cap (work[target] \cup pool[target]) = {}]_vars
  BY EvictsNoneSeen
<1> QED
  BY <1>1, InvHolds, PTL DEF Spec, KeptWhileInUse

-----------------------------------------------------------------------------
(* The translator's invariant *)

ToolTypes == {"tool.start", "tool.delta", "tool.result", "calc_result", "tool.done"}
EngineStates == [message : 0..MaxMessages, text : {"none", "open", "done"},
                 thinking : {"none", "open", "done"}, tool : Tools \cup {""},
                 call : {"none", "requested", "running", "done"}]

Current(x) == x[2] = session[x[1]]
At(x) == <<x, engine[x].message>>
NameOf(x) == <<"id", At(x)>>

(* An engine of the present session, and one consumer saw to all of its    *)
(* message so far.                                                         *)
Followed(x) == Current(x) /\ engine[x].message > 0 /\ At(x) \notin disturbed

(* The consumer, if there is but one, and the frames it is at.             *)
Chosen(S) == CHOOSE l : l \in S
SlotOf(c) == Chosen(Running(c))
Line(c) == outgoing[SlotOf(c)]

(* The id all frames of a message should have, those they may have, and    *)
(* those an event may have.                                                *)
IdOf(m) == IF m[1][1] \in Naming THEN <<"id", m>> ELSE <<"llm", m[1]>>
OwnId(x, i) ==
  /\ i \in {<<"llm", x>>} \cup {<<"id", <<x, k>>>> : k \in 1..MaxMessages}
  /\ x[1] \notin Naming => i = <<"llm", x>>
MayName(x, i) ==
  i = NoId \/ (x[1] \in Naming /\ i \in {<<"id", <<x, k>>>> : k \in 1..MaxMessages})

(* A message has begun and is not over: events without id may follow.      *)
Ongoing(e) == (e.thinking # "none" \/ e.text # "none") /\ e.text # "done"

EnginesInv ==
  \A x \in Engines :
    /\ engine[x].message = 0 \/ x[2] > session[x[1]] => engine[x] = Fresh(0)
    /\ engine[x].call # "none" => engine[x].text = "done"
    /\ engine[x].call # "none" => engine[x].tool \in Tools

(* The cache has the engine's own id as long as events may lack it.        *)
CacheInv ==
  \A x \in Engines :
    /\ messageIDs[x] \in {NoId, <<"llm", x>>} \cup {<<"id", <<x, k>>>> : k \in 1..MaxMessages}
    /\ x[1] \notin Naming => messageIDs[x] \in {NoId, <<"llm", x>>}
    /\ x[1] \in Naming /\ Followed(x) /\ Ongoing(engine[x]) => messageIDs[x] = NameOf(x)
    /\ Followed(x) /\ engine[x].call \in {"requested", "running"} =>
         toolCallCache[At(x)] = engine[x].tool

(* Frames on their way to the clients.                                     *)
OwnNamed(f) == f.type \notin ToolTypes \cup {"log"} => OwnId(f.of[1], Base(f.id))
WellNamed(f) == f.type \notin ToolTypes \cup {"log"} => Base(f.id) = IdOf(f.of)
FramesInv ==
  \A l \in Slots : \A j \in DOMAIN outgoing[l] :
    LET f == outgoing[l][j]
    IN  /\ f.of[1] = <<l[1], session[l[1]]>>
        /\ f.of[2] <= engine[f.of[1]].message
        /\ OwnNamed(f) /\ (f.of \notin disturbed => WellNamed(f))

(* Events a consumer has yet to translate are of disturbed messages or of  *)
(* earlier sessions.                                                       *)
Pending(e, c) ==
  /\ e.of[1][1] = c /\ e.of[1][2] <= session[c] /\ e.of[2] <= engine[e.of[1]].message
  /\ MayName(e.of[1], e.id)
  /\ e.of \in disturbed \/ e.of[1][2] < session[c]
ConsumersInv ==
  /\ \A l \in Slots : phase[l] = "gone" => inbox[l] = {} /\ outgoing[l] = << >>
  /\ \A l \in Slots : \A e \in inbox[l] : Pending(e, l[1])
  /\ \A x \in Engines : Followed(x) => Calm(x[1])

(* What may be shown of a tool call.                                       *)
ResultOf(tool) == IF tool = "calc" THEN "calc_result" ELSE "tool.result"
Executed == {<<"tool.start">>, <<"tool.start", "tool.delta">>}
Resulted(r) == {<<"tool.start", r>>, <<"tool.start", "tool.delta", r>>}
Over(r) == {<<"tool.start", r, "tool.done">>, <<"tool.start", "tool.delta", r, "tool.done">>}
Shown(tool) ==
  {<< >>} \cup Executed \cup Resulted(ResultOf(tool)) \cup Over(ResultOf(tool))

(* The frames of x's tool call that are on their way are of these types.   *)
Quiet(x) ==
  \A j \in DOMAIN Line(x[1]) :
    Line(x[1])[j].of = At(x) => Line(x[1])[j].type \notin ToolTypes
Waiting1(x, type) ==
  /\ Len(Line(x[1])) = 1
  /\ Line(x[1])[1].type = type /\ Line(x[1])[1].of = At(x)
Waiting2(x, first, second) ==
  /\ Len(Line(x[1])) = 2
  /\ Line(x[1])[1].type = first /\ Line(x[1])[1].of = At(x)
  /\ Line(x[1])[2].type = second /\ Line(x[1])[2].of = At(x)

(* How far the clients of an engine that is followed are with its call.    *)
CallFollows(x) ==
  LET shown == calls[At(x)]
      result == ResultOf(engine[x].tool)
  IN  /\ engine[x].call = "none" => Quiet(x) /\ shown = << >>
      /\ engine[x].call = "requested" =>
           \/ Waiting1(x, "tool.start") /\ shown = << >>
           \/ Quiet(x) /\ shown = <<"tool.start">>
      /\ engine[x].call = "running" =>
           \/ Waiting1(x, "tool.delta") /\ shown = <<"tool.start">>
           \/ Quiet(x) /\ shown = <<"tool.start", "tool.delta">>
      /\ engine[x].call = "done" =>
           \/ Waiting2(x, result, "tool.done") /\ shown \in Executed
           \/ Waiting1(x, "tool.done") /\ shown \in Resulted(result)
           \/ Quiet(x) /\ shown \in Over(result)

CallsInv ==
  \A x \in Engines :
    /\ \A k \in 1..MaxMessages : k > engine[x].message => calls[<<x, k>>] = << >>
    /\ engine[x].message > 0 /\ At(x) \notin disturbed =>
         /\ calls[At(x)] \in Shown(engine[x].tool)
         /\ engine[x].call = "none" => calls[At(x)] = << >>
    /\ Followed(x) => CallFollows(x)

Functions ==
  /\ DOMAIN outgoing = Slots /\ DOMAIN sent = Conversations /\ DOMAIN semBuf = Conversations
  /\ DOMAIN got = Pagers /\ DOMAIN published = Engines
  /\ DOMAIN ids = Messages /\ DOMAIN calls = Messages

SemIInv ==
  /\ SemTypeOK /\ Functions
  /\ EnginesInv /\ CacheInv /\ FramesInv /\ ConsumersInv /\ CallsInv
  /\ OwnIds /\ MessagesKeepTheirIds /\ RingInv

-----------------------------------------------------------------------------
(* Numbers and tuples *)

LEMMA MinIs ==
  ASSUME NEW S \in SUBSET Int, NEW m \in S, \A n \in S : m <= n
  PROVE  Min(S) = m
<1>1. Min(S) \in S /\ \A y \in S : Min(S) <= y
  BY Zenon DEF Min
<1>2. Min(S) \in Int /\ m \in Int /\ Min(S) <= m /\ m <= Min(S)
  BY <1>1
<1> QED
  BY <1>2

LEMMA MaxIs ==
  ASSUME NEW S \in SUBSET Int, NEW m \in S, \A n \in S : n <= m
  PROVE  Max(S) = m
<1>1. Max(S) \in S /\ \A y \in S : Max(S) >= y
  BY Zenon DEF Max
<1>2. Max(S) \in Int /\ m \in Int /\ Max(S) <= m /\ m <= Max(S)
  BY <1>1
<1> QED
  BY <1>2

LEMMA Pairs ==
  /\ \A x \in Engines : x = <<x[1], x[2]>> /\ x[1] \in Conversations /\ x[2] \in 1..MaxSessions
  /\ \A m \in Messages : m = <<m[1], m[2]>> /\ m[1] \in Engines /\ m[2] \in 1..MaxMessages
  /\ \A x \in Engines, k \in 1..MaxMessages : <<x, k>> \in Messages
  /\ \A l \in Slots : l = <<l[1], l[2]>> /\ l[1] \in Conversations
BY DEF Engines, Messages, Slots

LEMMA IdsHave ==
  /\ NoId \in Ids
  /\ \A x \in Engines : /\ <<"llm", x>> \in Ids
                        /\ \A k \in 1..MaxMessages : <<"id", <<x, k>>>> \in Ids
<1>1. ASSUME NEW x \in Engines PROVE <<"llm", x>> \in Ids
  BY DEF Ids
<1>2. ASSUME NEW x \in Engines, NEW k \in 1..MaxMessages PROVE <<"id", <<x, k>>>> \in Ids
  <2>1. <<x, k>> \in Messages
    BY Pairs
  <2> QED
    BY <2>1 DEF Ids
<1> QED
  BY <1>1, <1>2 DEF Ids

LEMMA EventOf ==
  ASSUME NEW e \in Event
  PROVE  e.of \in Messages /\ e.of[1] \in Engines /\ e.of[2] \in 1..MaxMessages /\ e.of[2] \in Int
<1>1. e.of \in Messages
  BY DEF Event
<1>2. e.of[1] \in Engines /\ e.of[2] \in 1..MaxMessages
  BY <1>1, Pairs
<1> QED
  BY <1>1, <1>2

LEMMA Singleton ==
  ASSUME NEW S, NEW r \in S
  PROVE  <<r>> \in Seq(S) /\ Len(<<r>>) = 1 /\ \A j \in DOMAIN <<r>> : <<r>>[j] = r
OBVIOUS

LEMMA Pair ==
  ASSUME NEW S, NEW r \in S, NEW s \in S
  PROVE  /\ <<r, s>> \in Seq(S) /\ Len(<<r, s>>) = 2 /\ DOMAIN <<r, s>> = {1, 2}
         /\ <<r, s>>[1] = r /\ <<r, s>>[2] = s
OBVIOUS

LEMMA Positive ==
  /\ MaxSessions \in Nat \ {0} /\ MaxMessages \in Nat \ {0}
  /\ RingSize \in Nat \ {0} /\ Limit \in Nat \ {0}
BY TranslatorAssumption

LEMMA EngineFields ==
  ASSUME NEW e \in EngineStates
  PROVE  /\ e.message \in 0..MaxMessages /\ e.message \in Int
         /\ e.message > 0 => e.message \in 1..MaxMessages
<1>1. e.message \in 0..MaxMessages
  BY DEF EngineStates
<1> QED
  BY <1>1, Positive

-----------------------------------------------------------------------------
(* The consumers *)

(* Where it is calm there is one consumer, and it has nothing to catch up. *)
LEMMA TheSlot ==
  ASSUME NEW c, Calm(c)
  PROVE  /\ SlotOf(c) \in Slots /\ SlotOf(c)[1] = c
         /\ phase[SlotOf(c)] = "running" /\ inbox[SlotOf(c)] = {}
         /\ \A k \in Slots : k[1] = c /\ k # SlotOf(c) => phase[k] = "gone"
         /\ Running(c) = {SlotOf(c)} /\ Cancelled(c) = {}
<1>1. PICK l \in Slots : /\ l[1] = c /\ phase[l] = "running" /\ inbox[l] = {}
                        /\ \A k \in Slots : k[1] = c /\ k # l => phase[k] = "gone"
  BY DEF Calm
<1>2. Running(c) = {l}
  BY <1>1 DEF Running
<1>3. Chosen(Running(c)) = l
  BY <1>2 DEF Chosen
<1>4. Cancelled(c) = {}
  BY <1>1 DEF Cancelled
<1> QED
  BY <1>1, <1>2, <1>3, <1>4 DEF SlotOf

(* What is said of an engine depends on its conversation's consumers only. *)
LEMMA SameConsumers ==
  ASSUME NEW c, \A k \in Slots : k[1] = c => phase'[k] = phase[k]
  PROVE  /\ Running(c)' = Running(c) /\ SlotOf(c)' = SlotOf(c)
         /\ Calm(c) /\ (\A k \in Slots : k[1] = c => inbox'[k] \subseteq inbox[k]) => Calm(c)'
<1>1. Running(c)' = Running(c)
  BY DEF Running
<1>2. SlotOf(c)' = SlotOf(c)
  BY <1>1 DEF SlotOf
<1>3. ASSUME Calm(c), \A k \in Slots : k[1] = c => inbox'[k] \subseteq inbox[k]
      PROVE  Calm(c)'
  BY <1>3 DEF Calm
<1> QED
  BY <1>1, <1>2, <1>3

LEMMA SameLine ==
  ASSUME NEW x, SlotOf(x[1])' = SlotOf(x[1]), Line(x[1])' = Line(x[1]),
         engine'[x] = engine[x], calls'[At(x)] = calls[At(x)], CallFollows(x)
  PROVE  CallFollows(x)'
<1>1. (At(x))' = At(x)
  BY DEF At
<1>2. Quiet(x) => Quiet(x)'
  BY <1>1 DEF Quiet
<1>3. \A type : Waiting1(x, type) => Waiting1(x, type)'
  BY <1>1 DEF Waiting1
<1>4. \A type, second : Waiting2(x, type, second) => Waiting2(x, type, second)'
  BY <1>1 DEF Waiting2
<1> QED
  BY <1>1, <1>2, <1>3, <1>4 DEF CallFollows

-----------------------------------------------------------------------------
(* The registry: what an event is translated to *)

LEMMA OneHandler ==
  ASSUME NEW frames PROVE Handle(<<frames>>) = frames \/ (frames = << >> /\ Handle(<<frames>>) = << >>)
<1> DEFINE heard == {h \in DOMAIN <<frames>> : <<frames>>[h] # << >>}
<1>1. CASE frames = << >>
  <2>1. heard = {}
    BY <1>1
  <2> QED
    BY <1>1, <2>1 DEF Handle
<1>2. CASE frames # << >>
  <2>1. heard = {1}
    BY <1>2
  <2>2. Min(heard) = 1
    BY <2>1, MinIs
  <2> QED
    BY <2>1, <2>2 DEF Handle
<1> QED
  BY <1>1, <1>2

LEMMA TwoHandlers ==
  ASSUME NEW frames, frames # << >> PROVE Handle(<<frames, frames>>) = frames
<1> DEFINE heard == {h \in DOMAIN <<frames, frames>> : <<frames, frames>>[h] # << >>}
<1>1. heard = {1, 2}
  OBVIOUS
<1>2. Min(heard) = 1
  BY <1>1, MinIs
<1> QED
  BY <1>1, <1>2 DEF Handle

(* A frame's type and id. *)
Content == [type : FrameTypes, id : Ids]
MessageTypes == {"TextSegmentStarted", "TextDelta", "TextSegmentFinished", "Info",
                 "ReasoningDelta", "Interrupt"}

LEMMA MessageTranslation ==
  ASSUME NEW m \in Messages, NEW what, NEW given, NEW tool, NEW type \in MessageTypes,
         NEW id \in {IdOf(m)} \cup {<<"llm", m[1]>>} \cup {<<"id", <<m[1], k>>>> : k \in 1..MaxMessages}
  PROVE  LET e == [type |-> type, what |-> what, id |-> given, tool |-> tool, of |-> m]
             frames == Handle(Answers(e, id))
         IN  /\ frames \in Seq(Content) /\ Len(frames) <= 1
             /\ \A j \in DOMAIN frames :
                  /\ frames[j].type \notin ToolTypes \cup {"log"}
                  /\ Base(frames[j].id) = id
<1> DEFINE e == [type |-> type, what |-> what, id |-> given, tool |-> tool, of |-> m]
           F == MessageFrames(e, id)
<1>1. Answers(e, id) = <<F>>
  BY DEF Answers, MessageTypes
<1>2. Handle(Answers(e, id)) = F
  BY <1>1, OneHandler
<1>3. /\ id \in Ids /\ thinking(id) \in Ids
      /\ Base(id) = id /\ Base(thinking(id)) = id
  <2>1. CASE id = <<"llm", m[1]>>
    BY <2>1, Pairs DEF Ids, thinking, Base
  <2>2. CASE \E k \in 1..MaxMessages : id = <<"id", <<m[1], k>>>>
    <3>1. PICK k \in 1..MaxMessages : id = <<"id", <<m[1], k>>>>
      BY <2>2
    <3>2. <<m[1], k>> \in Messages
      BY Pairs
    <3> QED
      BY <3>1, <3>2 DEF Ids, thinking, Base
  <2> QED
    BY <2>1, <2>2, Pairs DEF IdOf
<1>4. F = << >> \/ \E t \in FrameTypes \ (ToolTypes \cup {"log"}), i \in {id, thinking(id)} :
                     F = <<[type |-> t, id |-> i]>>
  <2>1. /\ {"llm.start", "llm.delta", "llm.final", "llm.thinking.start", "llm.thinking.delta",
            "llm.thinking.final", "llm.thinking.summary"} \subseteq FrameTypes \ (ToolTypes \cup {"log"})
    BY DEF FrameTypes, ToolTypes
  <2>2. CASE type = "TextSegmentStarted"
    BY <2>1, <2>2 DEF MessageFrames
  <2>3. CASE type = "TextDelta"
    BY <2>1, <2>3 DEF MessageFrames
  <2>4. CASE type \in {"TextSegmentFinished", "Interrupt"}
    BY <2>1, <2>4 DEF MessageFrames, Clears
  <2>5. CASE type = "ReasoningDelta"
    BY <2>1, <2>5 DEF MessageFrames, Clears
  <2>6. CASE type = "Info"
    BY <2>1, <2>6 DEF MessageFrames, Clears
  <2> QED
    BY <2>2, <2>3, <2>4, <2>5, <2>6 DEF MessageTypes
<1>5. CASE F = << >>
  BY <1>2, <1>5
<1>6. ASSUME NEW t \in FrameTypes \ (ToolTypes \cup {"log"}), NEW i \in {id, thinking(id)},
             F = <<[type |-> t, id |-> i]>>
      PROVE  /\ F \in Seq(Content) /\ Len(F) <= 1
             /\ \A j \in DOMAIN F :
                  /\ F[j].type \notin ToolTypes \cup {"log"}
                  /\ Base(F[j].id) = id
  <2>1. [type |-> t, id |-> i] \in Content /\ Base(i) = id
    BY <1>3 DEF Content
  <2>2. /\ Len(F) = 1 /\ F \in Seq(Content)
        /\ \A j \in DOMAIN F : F[j] = [type |-> t, id |-> i]
    <3> DEFINE r == [type |-> t, id |-> i]
    <3>1. r \in Content /\ F = <<r>>
      BY <1>6, <2>1
    <3> HIDE DEF F, r
    <3> QED
      BY <3>1, Singleton DEF r
  <2>3. \A j \in DOMAIN F : F[j].type = t /\ F[j].id = i
    BY <2>2
  <2> HIDE DEF F
  <2> QED
    BY <2>1, <2>2, <2>3
<1> QED
  BY <1>2, <1>4, <1>5, <1>6

LEMMA OtherTranslations ==
  ASSUME NEW m \in Messages, NEW what, NEW given, NEW tool, NEW id, NEW type
  PROVE  LET e == [type |-> type, what |-> what, id |-> given, tool |-> tool, of |-> m]
             frames == Handle(Answers(e, id))
             result == IF toolCallCache[m] = "calc" THEN "calc_result" ELSE "tool.result"
         IN  /\ type = "BlankDelta" => frames = << >>
             /\ type = "Log" => frames = <<[type |-> "log", id |-> <<"log", m[1]>>]>>
             /\ type = "ToolCallRequested" =>
                  frames = <<[type |-> "tool.start", id |-> <<"id", m>>]>>
             /\ type = "ToolExecutionStarted" =>
                  frames = <<[type |-> "tool.delta", id |-> <<"id", m>>]>>
             /\ type = "ToolResultReady" =>
                  frames = <<[type |-> result, id |-> <<"id", m>>],
                             [type |-> "tool.done", id |-> <<"id", m>>]>>
<1> DEFINE e == [type |-> type, what |-> what, id |-> given, tool |-> tool, of |-> m]
           result == IF toolCallCache[m] = "calc" THEN "calc_result" ELSE "tool.result"
           both == <<[type |-> result, id |-> <<"id", m>>],
                     [type |-> "tool.done", id |-> <<"id", m>>]>>
<1>1. CASE type = "BlankDelta"
  <2>1. Answers(e, id) = <<<< >>>>
    BY <1>1 DEF Answers
  <2> QED
    BY <1>1, <2>1, OneHandler
<1>2. CASE type = "Log"
  <2>1. Answers(e, id) = <<<<[type |-> "log", id |-> <<"log", m[1]>>]>>>>
    BY <1>2 DEF Answers, LogFrames
  <2> QED
    BY <1>2, <2>1, OneHandler
<1>3. CASE type = "ToolCallRequested"
  <2>1. Answers(e, id) = <<<<[type |-> "tool.start", id |-> <<"id", m>>]>>>>
    BY <1>3 DEF Answers
  <2> QED
    BY <1>3, <2>1, OneHandler
<1>4. CASE type = "ToolExecutionStarted"
  <2>1. Answers(e, id) = <<<<[type |-> "tool.delta", id |-> <<"id", m>>]>>>>
    BY <1>4 DEF Answers
  <2> QED
    BY <1>4, <2>1, OneHandler
<1>5. CASE type = "ToolResultReady"
  <2>1. Answers(e, id) = <<both, both>>
    BY <1>5 DEF Answers, ResultFrames
  <2>2. both # << >>
    OBVIOUS
  <2>3. Handle(<<both, both>>) = both
    BY <2>2, TwoHandlers
  <2> QED
    BY <1>5, <2>1, <2>3
<1> QED
  BY <1>1, <1>2, <1>3, <1>4, <1>5

-----------------------------------------------------------------------------
(* What a step of the engine does *)

Translation(x, type, what, id, next) ==
  Handle(Answers([type |-> type, what |-> what, id |-> id, tool |-> next.tool,
                  of |-> <<x, next.message>>],
                 resolveMessageID(x, id)))
Addressed(frames, m) ==
  [j \in DOMAIN frames |-> [type |-> frames[j].type, id |-> frames[j].id, of |-> m]]

(* The engine goes on, and its frames are handed to the callback of the    *)
(* consumer that sees to it.                                               *)
Sends(x, frames, next) ==
  /\ Followed(x) /\ Line(x[1]) = << >>
  /\ published' \in [Engines -> Nat] /\ \A y \in Engines : published'[y] \in 0..MaxEvents[y]
  /\ engine' = [engine EXCEPT ![x] = next]
  /\ outgoing' = [outgoing EXCEPT ![SlotOf(x[1])] = Addressed(frames, At(x))]
  /\ UNCHANGED <<ring, pagers, history, session, phase, inbox, disturbed>>

LEMMA Published ==
  ASSUME SemIInv, NEW x \in Engines, NEW type, NEW what, NEW id, NEW next,
         Publish(x, type, what, id, next)
  PROVE  /\ published' \in [Engines -> Nat] /\ \A y \in Engines : published'[y] \in 0..MaxEvents[y]
         /\ engine' = [engine EXCEPT ![x] = next] /\ x[2] <= session[x[1]]
         /\ UNCHANGED <<ring, pagers, history, session, phase, disturbed>>
<1>1. MaxEvents \in [Engines -> Nat]
  BY TranslatorAssumption
<1>2. DOMAIN published = Engines /\ \A y \in Engines : published[y] \in 0..MaxEvents[y]
  BY DEF SemIInv, SemTypeOK, Functions
<1>3. published[x] < MaxEvents[x] /\ published' = [published EXCEPT ![x] = @ + 1]
  BY DEF Publish
<1>4. published' = [y \in Engines |-> IF y = x THEN published[x] + 1 ELSE published[y]]
  BY <1>2, <1>3
<1>5. ASSUME NEW y \in Engines PROVE published'[y] \in 0..MaxEvents[y] /\ published'[y] \in Nat
  <2>1. MaxEvents[y] \in Nat /\ MaxEvents[x] \in Nat
    BY <1>1
  <2> QED
    BY <1>2, <1>3, <1>4, <2>1
<1>6. published' \in [Engines -> Nat] /\ \A y \in Engines : published'[y] \in 0..MaxEvents[y]
  BY <1>4, <1>5
<1>7. /\ engine' = [engine EXCEPT ![x] = next] /\ x[2] <= session[x[1]]
      /\ UNCHANGED <<ring, pagers, history, session, phase, disturbed>>
  BY DEF Publish
<1> QED
  BY <1>6, <1>7

LEMMA Publishing ==
  ASSUME SemIInv, NEW x \in Engines, NEW type, NEW what, NEW id, NEW next,
         Publish(x, type, what, id, next), next.message = engine[x].message, Followed(x)
  PROVE  LET i == resolveMessageID(x, id)
             clears == type \in {"TextSegmentFinished", "Interrupt"}
         IN
         /\ Sends(x, Translation(x, type, what, id, next), next)
         /\ messageIDs' = IF type \in MessageTypes
                          THEN [messageIDs EXCEPT ![x] = IF clears THEN NoId ELSE i]
                          ELSE messageIDs
         /\ toolCallCache' = IF type \in {"ToolCallRequested", "ToolExecutionStarted"}
                             THEN [toolCallCache EXCEPT ![At(x)] = next.tool] ELSE toolCallCache
<1> DEFINE e == [type |-> type, what |-> what, id |-> id, tool |-> next.tool,
                 of |-> <<x, next.message>>]
           i == resolveMessageID(x, id)
           frames == Handle(Answers(e, i))
           l == SlotOf(x[1])
<1>1. e.of = At(x) /\ e.of[1] = x /\ e.tool = next.tool /\ e.type = type /\ e.id = id
  BY DEF At
<1>2. /\ Resolves(e) <=> type \in MessageTypes
      /\ Clears(e) <=> type \in {"TextSegmentFinished", "Interrupt"}
  BY DEF Resolves, Clears, MessageTypes
<1>3. frames = Translation(x, type, what, id, next)
  BY DEF Translation
<1>4. Give(e) /\ \A k \in Running(x[1]) : Rested(k)
  BY DEF Publish
<1> HIDE DEF e, i
<1>5. Calm(x[1])
  BY DEF SemIInv, ConsumersInv
<1>6. /\ l \in Slots /\ phase[l] = "running" /\ Running(x[1]) = {l} /\ Cancelled(x[1]) = {}
  BY <1>5, TheSlot
<1>7. Line(x[1]) = << >>
  BY <1>4, <1>6 DEF Rested, Line
<1> HIDE DEF l
<1>8. Translate(l, e) /\ inbox' = inbox
  <2>1. PICK late \in SUBSET Cancelled(e.of[1][1]) :
          LET takers == Running(e.of[1][1]) \cup late
          IN  \/ takers = {} /\ UNCHANGED <<translator, inbox, outgoing>>
              \/ \E k \in takers :
                   /\ Translate(k, e)
                   /\ inbox' = [h \in Slots |-> IF h \in takers \ {k} THEN {e} ELSE inbox[h]]
    BY <1>4 DEF Give
  <2>2. Running(e.of[1][1]) \cup late = {l}
    BY <1>1, <1>6, <2>1
  <2>3. Translate(l, e) /\ inbox' = [h \in Slots |-> IF h \in {l} \ {l} THEN {e} ELSE inbox[h]]
    BY <2>1, <2>2
  <2>4. inbox \in [Slots -> SUBSET Event]
    BY DEF SemIInv, SemTypeOK
  <2> QED
    BY <2>3, <2>4
<1>9. /\ messageIDs' = IF Resolves(e)
                       THEN [messageIDs EXCEPT ![x] = IF Clears(e) THEN NoId ELSE i]
                       ELSE messageIDs
      /\ toolCallCache' = IF e.type \in {"ToolCallRequested", "ToolExecutionStarted"}
                          THEN [toolCallCache EXCEPT ![e.of] = e.tool]
                          ELSE toolCallCache
      /\ outgoing' = [outgoing EXCEPT ![l] =
                        IF x[2] = session[x[1]] /\ phase[l] # "orphan"
                        THEN Addressed(frames, e.of) ELSE << >>]
  <2>1. i = resolveMessageID(e.of[1], e.id)
    BY <1>1 DEF i
  <2> QED
    BY <1>1, <1>8, <2>1 DEF Translate, Addressed
<1>10. outgoing' = [outgoing EXCEPT ![l] = Addressed(frames, e.of)]
  BY <1>6, <1>9 DEF Followed, Current
<1>11. i = resolveMessageID(x, id)
  BY DEF i
<1> HIDE DEF frames
<1>12. Sends(x, frames, next)
  BY <1>1, <1>7, <1>8, <1>10, Published DEF Sends, l
<1> QED
  BY <1>1, <1>2, <1>3, <1>9, <1>11, <1>12

LEMMA AddressedFrames ==
  ASSUME NEW frames \in Seq(Content), NEW m \in Messages
  PROVE  /\ Addressed(frames, m) \in Seq(Frame) /\ Len(Addressed(frames, m)) = Len(frames)
         /\ DOMAIN Addressed(frames, m) = DOMAIN frames
         /\ \A j \in DOMAIN frames :
              /\ Addressed(frames, m)[j].type = frames[j].type
              /\ Addressed(frames, m)[j].id = frames[j].id /\ Addressed(frames, m)[j].of = m
<1>1. DOMAIN frames = 1..Len(frames) /\ Len(frames) \in Nat
  BY LenProperties
<1>2. \A j \in 1..Len(frames) : frames[j] \in Content
  BY ElementOfSeq
<1>3. \A j \in 1..Len(frames) : [type |-> frames[j].type, id |-> frames[j].id, of |-> m] \in Frame
  BY <1>2 DEF Content, Frame
<1>4. Addressed(frames, m) \in Seq(Frame)
  BY <1>1, <1>3, IsASeq DEF Addressed
<1> QED
  BY <1>1, <1>4 DEF Addressed

(* What an event must do to the engine, the caches, and the clients' view. *)
GoesOn(x, next) ==
  /\ next \in EngineStates
  /\ next.message = engine[x].message /\ next.message > 0
  /\ next.call # "none" => next.text = "done" /\ next.tool \in Tools
Caches(x, next) ==
  /\ messageIDs' \in [Engines -> Ids]
  /\ \A y \in Engines : y # x => messageIDs'[y] = messageIDs[y]
  /\ messageIDs'[x] \in {NoId, <<"llm", x>>} \cup {<<"id", <<x, k>>>> : k \in 1..MaxMessages}
  /\ x[1] \notin Naming => messageIDs'[x] \in {NoId, <<"llm", x>>}
  /\ x[1] \in Naming /\ Ongoing(next) => messageIDs'[x] = NameOf(x)
CachesTool(x, next) ==
  /\ toolCallCache' \in [Messages -> Tools \cup {""}]
  /\ \A n \in Messages : n # At(x) => toolCallCache'[n] = toolCallCache[n]
  /\ next.call \in {"requested", "running"} => toolCallCache'[At(x)] = next.tool
Frames(x, F) ==
  /\ F \in Seq(Content) /\ Len(F) <= 2
  /\ \A j \in DOMAIN F :
       F[j].type \notin ToolTypes \cup {"log"} => Base(F[j].id) = IdOf(At(x))
Shows(x, next) ==
  /\ calls[At(x)] \in Shown(next.tool)
  /\ next.call = "none" => calls[At(x)] = << >>
  /\ CallFollows(x)'

LEMMA PublishStep ==
  ASSUME SemIInv, NEW x \in Engines, NEW F, NEW next, Sends(x, F, next),
         GoesOn(x, next), Caches(x, next), CachesTool(x, next), Frames(x, F), Shows(x, next)
  PROVE  SemIInv'
<1>1. engine \in [Engines -> EngineStates] /\ session \in [Conversations -> 1..MaxSessions]
  BY DEF SemIInv, SemTypeOK, EngineStates
<1>2. /\ engine' \in [Engines -> EngineStates]
      /\ engine'[x] = next /\ \A y \in Engines : y # x => engine'[y] = engine[y]
  BY <1>1 DEF Sends, GoesOn
<1>3. \A y \in Engines : engine'[y].message = engine[y].message /\ (At(y))' = At(y)
  BY <1>2 DEF At, GoesOn
<1>4. /\ session' = session /\ disturbed' = disturbed /\ phase' = phase /\ inbox' = inbox
      /\ \A y \in Engines : (Current(y)' <=> Current(y)) /\ (Followed(y)' <=> Followed(y))
  BY <1>3 DEF Sends, Current, Followed
<1>5. At(x) \in Messages /\ Current(x) /\ At(x) \notin disturbed
  <2>1. engine[x].message \in 1..MaxMessages
    BY <1>1, EngineFields DEF GoesOn
  <2> QED
    BY <2>1, Pairs DEF At, Sends, Followed
<1>6. DOMAIN outgoing = Slots /\ x[1] \in Conversations /\ x[2] \in 1..MaxSessions
      /\ x = <<x[1], x[2]>> /\ \A k \in Slots : k[1] \in Conversations
  BY Pairs DEF SemIInv, Functions
<1>7. PICK l \in Slots : /\ l = SlotOf(x[1]) /\ l[1] = x[1] /\ phase[l] = "running"
  <2>1. Calm(x[1])
    BY DEF Sends, SemIInv, ConsumersInv
  <2> QED
    BY <2>1, TheSlot
<1>8. /\ DOMAIN outgoing' = Slots
      /\ outgoing'[l] = Addressed(F, At(x))
      /\ \A k \in Slots : k # l => outgoing'[k] = outgoing[k]
  BY <1>6, <1>7 DEF Sends
<1>9. SemTypeOK'
  <2>1. \A k \in Slots : outgoing'[k] \in Seq(Frame) /\ Len(outgoing'[k]) <= 2
    <3>1. Addressed(F, At(x)) \in Seq(Frame) /\ Len(Addressed(F, At(x))) <= 2
      BY <1>5, AddressedFrames DEF Frames
    <3>2. \A k \in Slots : outgoing[k] \in Seq(Frame) /\ Len(outgoing[k]) <= 2
      BY DEF SemIInv, SemTypeOK
    <3> QED
      BY <1>8, <3>1, <3>2
  <2> QED
    BY <1>2, <2>1 DEF SemIInv, SemTypeOK, EngineStates, Sends, Caches, CachesTool, ring, pagers, history
<1>10. Functions'
  BY <1>8 DEF SemIInv, Functions, Sends, ring, pagers, history
<1>11. EnginesInv'
  <2>1. ASSUME NEW y \in Engines
        PROVE  /\ engine'[y].message = 0 \/ y[2] > session'[y[1]] => engine'[y] = Fresh(0)
               /\ engine'[y].call # "none" => engine'[y].text = "done" /\ engine'[y].tool \in Tools
    <3>1. CASE y = x
      <4>1. ~(next.message = 0) /\ ~(x[2] > session[x[1]])
        <5>1. session[x[1]] \in Int /\ x[2] \in Int /\ x[2] = session[x[1]]
          BY <1>1, <1>5, <1>6 DEF Current
        <5> QED
          BY <5>1 DEF GoesOn
      <4> QED
        BY <1>2, <1>4, <3>1, <4>1 DEF GoesOn
    <3>2. CASE y # x
      BY <1>2, <1>4, <3>2 DEF SemIInv, EnginesInv
    <3> QED
      BY <3>1, <3>2
  <2> QED
    BY <2>1 DEF EnginesInv
<1>12. CacheInv'
  <2>1. ASSUME NEW y \in Engines, y # x
        PROVE  /\ messageIDs'[y] = messageIDs[y] /\ engine'[y] = engine[y]
               /\ NameOf(y)' = NameOf(y)
               /\ engine[y].call \in {"requested", "running"} =>
                    toolCallCache'[(At(y))'] = toolCallCache[At(y)]
    <3>1. engine[y].call \in {"requested", "running"} => At(y) \in Messages
      <4>1. ASSUME engine[y].call \in {"requested", "running"} PROVE engine[y].message # 0
        <5>1. Fresh(0).call = "none"
          BY DEF Fresh
        <5> QED
          BY <4>1, <5>1 DEF SemIInv, EnginesInv
      <4>2. engine[y].message \in 0..MaxMessages
        BY <1>1, EngineFields
      <4> QED
        BY <4>1, <4>2, Pairs, Positive DEF At
    <3>2. At(y) # At(x)
      BY <2>1 DEF At
    <3> QED
      BY <1>2, <1>3, <2>1, <3>1, <3>2 DEF NameOf, Caches, CachesTool
  <2>2. (NameOf(x))' = NameOf(x)
    BY <1>3 DEF NameOf
  <2>3. engine'[x] = next /\ (At(x))' = At(x)
    BY <1>2, <1>3
  <2>4. ASSUME NEW y \in Engines
        PROVE  /\ messageIDs'[y] \in {NoId, <<"llm", y>>} \cup {<<"id", <<y, k>>>> : k \in 1..MaxMessages}
               /\ y[1] \notin Naming => messageIDs'[y] \in {NoId, <<"llm", y>>}
               /\ y[1] \in Naming /\ Followed(y)' /\ Ongoing(engine'[y]) => messageIDs'[y] = NameOf(y)'
               /\ Followed(y)' /\ engine'[y].call \in {"requested", "running"} =>
                    toolCallCache'[(At(y))'] = engine'[y].tool
    <3>1. CASE y = x
      BY <2>2, <2>3, <3>1 DEF Caches, CachesTool
    <3>2. CASE y # x
      BY <1>4, <2>1, <3>2 DEF SemIInv, CacheInv
    <3> QED
      BY <3>1, <3>2
  <2> QED
    BY <2>4 DEF CacheInv
<1>13. FramesInv'
  <2> SUFFICES ASSUME NEW k \in Slots, NEW j \in DOMAIN outgoing'[k]
               PROVE  /\ outgoing'[k][j].of[1] = <<k[1], session[k[1]]>>
                      /\ outgoing'[k][j].of[2] <= engine'[outgoing'[k][j].of[1]].message
                      /\ OwnNamed(outgoing'[k][j])
                      /\ outgoing'[k][j].of \notin disturbed => WellNamed(outgoing'[k][j])
    BY <1>4 DEF FramesInv, WellNamed, OwnNamed, OwnId
  <2>1. CASE k # l
    <3>1. j \in DOMAIN outgoing[k] /\ outgoing'[k][j] = outgoing[k][j]
      BY <1>8, <2>1
    <3>2. <<k[1], session[k[1]]>> \in Engines
      BY <1>1, <1>6 DEF Engines
    <3> QED
      BY <1>3, <3>1, <3>2 DEF SemIInv, FramesInv
  <2>2. CASE k = l
    <3>1. /\ j \in DOMAIN F /\ outgoing'[k][j].of = At(x)
          /\ outgoing'[k][j].type = F[j].type /\ outgoing'[k][j].id = F[j].id
      BY <1>5, <1>8, <2>2, AddressedFrames DEF Frames
    <3>2. At(x)[1] = x /\ At(x)[2] = engine[x].message /\ x = <<k[1], session[k[1]]>>
      BY <1>5, <1>6, <1>7, <2>2 DEF At, Current
    <3>3. engine[x].message \in Int /\ engine[x].message \in 1..MaxMessages
      BY <1>1, EngineFields DEF GoesOn
    <3>4. OwnId(x, IdOf(At(x)))
      BY <3>2, <3>3 DEF OwnId, IdOf, At
    <3> QED
      BY <1>3, <3>1, <3>2, <3>3, <3>4 DEF WellNamed, OwnNamed, Frames
  <2> QED
    BY <2>1, <2>2
<1>14. ConsumersInv'
  <2>1. \A k \in Slots : phase'[k] = "gone" => inbox'[k] = {} /\ outgoing'[k] = << >>
    BY <1>4, <1>7, <1>8 DEF SemIInv, ConsumersInv
  <2>2. ASSUME NEW k \in Slots, NEW e \in inbox'[k] PROVE Pending(e, k[1])'
    <3>1. Pending(e, k[1]) /\ e \in Event
      BY <1>4, <2>2 DEF SemIInv, SemTypeOK, ConsumersInv
    <3>2. e.of[1] \in Engines
      BY <3>1, Pairs DEF Event
    <3> QED
      BY <1>3, <1>4, <3>1, <3>2 DEF Pending, MayName
  <2>3. \A c : Calm(c) => Calm(c)'
    BY <1>4 DEF Calm
  <2> QED
    BY <1>4, <2>1, <2>2, <2>3 DEF SemIInv, ConsumersInv
<1>15. CallsInv'
  <2>1. calls' = calls
    BY DEF Sends, history
  <2>2. ASSUME NEW y \in Engines, y # x, Followed(y) PROVE CallFollows(y)'
    <3>1. y[1] # x[1]
      BY <1>5, <2>2, Pairs DEF Current, Followed
    <3>2. SlotOf(y[1])' = SlotOf(y[1])
      BY <1>4, SameConsumers
    <3>3. SlotOf(y[1]) \in Slots /\ SlotOf(y[1])[1] = y[1] /\ CallFollows(y)
      BY <2>2, TheSlot DEF SemIInv, ConsumersInv, CallsInv
    <3>4. Line(y[1])' = Line(y[1])
      BY <1>7, <1>8, <3>1, <3>2, <3>3 DEF Line
    <3> QED
      BY <1>2, <2>1, <2>2, <3>2, <3>3, <3>4, SameLine
  <2>3. ASSUME NEW y \in Engines
        PROVE  /\ \A k \in 1..MaxMessages : k > engine'[y].message => calls'[<<y, k>>] = << >>
               /\ engine'[y].message > 0 /\ (At(y))' \notin disturbed' =>
                    /\ calls'[(At(y))'] \in Shown(engine'[y].tool)
                    /\ engine'[y].call = "none" => calls'[(At(y))'] = << >>
               /\ Followed(y)' => CallFollows(y)'
    <3>1. CASE y = x
      BY <1>2, <1>3, <2>1, <3>1 DEF SemIInv, CallsInv, Shows
    <3>2. CASE y # x
      BY <1>2, <1>3, <1>4, <2>1, <2>2, <3>2 DEF SemIInv, CallsInv
    <3> QED
      BY <3>1, <3>2
  <2> QED
    BY <2>3 DEF CallsInv
<1>16. OwnIds' /\ MessagesKeepTheirIds' /\ RingInv'
  BY <1>4 DEF SemIInv, OwnIds, MessagesKeepTheirIds, RingInv, Sends, history, ring
<1> QED
  BY <1>9, <1>10, <1>11, <1>12, <1>13, <1>14, <1>15, <1>16 DEF SemIInv

-----------------------------------------------------------------------------
(* Translations nothing is claimed of but whose ids are whose *)

LEMMA EventTypesAre ==
  EventTypes = MessageTypes \cup {"BlankDelta", "Log", "ToolCallRequested", "ToolExecutionStarted",
                                  "ToolResultReady"}
BY DEF EventTypes, MessageTypes

LEMMA OwnFrames ==
  ASSUME NEW e \in Event, NEW i, OwnId(e.of[1], i)
  PROVE  LET frames == Handle(Answers(e, i))
         IN  /\ frames \in Seq(Content) /\ Len(frames) <= 2
             /\ \A j \in DOMAIN frames :
                  frames[j].type \notin ToolTypes \cup {"log"} => OwnId(e.of[1], Base(frames[j].id))
<1> DEFINE r == [type |-> e.type, what |-> e.what, id |-> e.id, tool |-> e.tool, of |-> e.of]
           F == Handle(Answers(e, i))
           Made(t) == [type |-> t, id |-> <<"id", e.of>>]
           result == IF toolCallCache[e.of] = "calc" THEN "calc_result" ELSE "tool.result"
<1>1. /\ e = r /\ e.of \in Messages /\ e.type \in EventTypes /\ e.of[1] \in Engines
  BY Pairs DEF Event
<1>2. CASE e.type \in MessageTypes
  <2>1. F \in Seq(Content) /\ Len(F) <= 1 /\ \A j \in DOMAIN F : Base(F[j].id) = i
    BY <1>1, <1>2, MessageTranslation DEF OwnId
  <2> HIDE DEF F
  <2>2. Len(F) <= 2
    BY <2>1, LenProperties
  <2> QED
    BY <2>1, <2>2 DEF F
<1>3. /\ e.type = "BlankDelta" => F = << >>
      /\ e.type = "Log" => F = <<[type |-> "log", id |-> <<"log", e.of[1]>>]>>
      /\ e.type = "ToolCallRequested" => F = <<Made("tool.start")>>
      /\ e.type = "ToolExecutionStarted" => F = <<Made("tool.delta")>>
      /\ e.type = "ToolResultReady" => F = <<Made(result), Made("tool.done")>>
  <2>1. r = e
    BY <1>1
  <2>2. /\ r.type = "BlankDelta" => Handle(Answers(r, i)) = << >>
        /\ r.type = "Log" => Handle(Answers(r, i)) = <<[type |-> "log", id |-> <<"log", e.of[1]>>]>>
        /\ r.type = "ToolCallRequested" => Handle(Answers(r, i)) = <<Made("tool.start")>>
        /\ r.type = "ToolExecutionStarted" => Handle(Answers(r, i)) = <<Made("tool.delta")>>
        /\ r.type = "ToolResultReady" => Handle(Answers(r, i)) = <<Made(result), Made("tool.done")>>
    BY <1>1, OtherTranslations
  <2> HIDE DEF r
  <2> QED
    BY <2>1, <2>2
<1>4. /\ \A t \in ToolTypes : Made(t) \in Content /\ Made(t).type = t
      /\ result \in ToolTypes /\ {"tool.start", "tool.delta", "tool.done"} \subseteq ToolTypes
  <2>1. \A t \in ToolTypes : t \in FrameTypes
    BY DEF ToolTypes, FrameTypes
  <2>2. <<"id", e.of>> \in Ids
    BY <1>1 DEF Ids
  <2> QED
    BY <2>1, <2>2 DEF Content, ToolTypes
<1>5. [type |-> "log", id |-> <<"log", e.of[1]>>] \in Content
  BY <1>1 DEF Content, FrameTypes, Ids
<1> HIDE DEF F, Made, result
<1>6. CASE e.type = "BlankDelta"
  BY <1>3, <1>6 DEF F
<1>7. CASE e.type = "Log"
  <2>1. /\ F \in Seq(Content) /\ Len(F) = 1
        /\ \A j \in DOMAIN F : F[j] = [type |-> "log", id |-> <<"log", e.of[1]>>]
    BY <1>3, <1>5, <1>7, Singleton
  <2> QED
    BY <2>1 DEF F
<1>8. ASSUME NEW t \in ToolTypes, F = <<Made(t)>>
      PROVE  F \in Seq(Content) /\ Len(F) <= 2 /\ \A j \in DOMAIN F : F[j].type \in ToolTypes
  <2>1. F \in Seq(Content) /\ Len(F) = 1 /\ \A j \in DOMAIN F : F[j] = Made(t)
    BY <1>4, <1>8, Singleton
  <2> QED
    BY <1>4, <2>1
<1>9. ASSUME F = <<Made(result), Made("tool.done")>>
      PROVE  F \in Seq(Content) /\ Len(F) <= 2 /\ \A j \in DOMAIN F : F[j].type \in ToolTypes
  <2>1. /\ Made(result) \in Content /\ Made("tool.done") \in Content
        /\ Made(result).type \in ToolTypes /\ Made("tool.done").type \in ToolTypes
    BY <1>4
  <2>2. /\ F \in Seq(Content) /\ Len(F) = 2 /\ DOMAIN F = {1, 2}
        /\ F[1] = Made(result) /\ F[2] = Made("tool.done")
    BY <1>9, <2>1, Pair
  <2> QED
    BY <2>1, <2>2
<1>10. CASE e.type \in {"ToolCallRequested", "ToolExecutionStarted", "ToolResultReady"}
  <2>1. F \in Seq(Content) /\ Len(F) <= 2 /\ \A j \in DOMAIN F : F[j].type \in ToolTypes
    BY <1>3, <1>4, <1>8, <1>9, <1>10
  <2> QED
    BY <2>1 DEF F
<1> QED
  BY <1>1, <1>2, <1>6, <1>7, <1>10, EventTypesAre

(* What a translation of x's event by l may do.                            *)
CachesLoosely(x) ==
  /\ messageIDs' \in [Engines -> Ids] /\ toolCallCache' \in [Messages -> Tools \cup {""}]
  /\ \A y \in Engines : y # x => messageIDs'[y] = messageIDs[y]
  /\ messageIDs'[x] = NoId \/ OwnId(x, messageIDs'[x])
  /\ \A n \in Messages : n[1] # x => toolCallCache'[n] = toolCallCache[n]
SendsLoosely(m, l) ==
  /\ DOMAIN outgoing' = Slots /\ \A k \in Slots : k # l => outgoing'[k] = outgoing[k]
  /\ outgoing'[l] \in Seq(Frame) /\ Len(outgoing'[l]) <= 2
  /\ \A j \in DOMAIN outgoing'[l] : outgoing'[l][j].of = m /\ OwnNamed(outgoing'[l][j])
  /\ ~Current(m[1]) => outgoing'[l] = << >>

LEMMA Translated ==
  ASSUME SemIInv, NEW l \in Slots, NEW e \in Event, MayName(e.of[1], e.id), Translate(l, e)
  PROVE  CachesLoosely(e.of[1]) /\ SendsLoosely(e.of, l)
<1> DEFINE x == e.of[1]
           i == resolveMessageID(x, e.id)
           F == Handle(Answers(e, i))
<1>1. e.of \in Messages /\ x \in Engines /\ e.tool \in Tools \cup {""}
  BY Pairs DEF Event
<1>2. /\ messageIDs \in [Engines -> Ids] /\ toolCallCache \in [Messages -> Tools \cup {""}]
      /\ messageIDs[x] = NoId \/ OwnId(x, messageIDs[x])
      /\ DOMAIN outgoing = Slots
  <2>1. /\ messageIDs[x] \in {NoId, <<"llm", x>>} \cup {<<"id", <<x, k>>>> : k \in 1..MaxMessages}
        /\ x[1] \notin Naming => messageIDs[x] \in {NoId, <<"llm", x>>}
    BY <1>1 DEF SemIInv, CacheInv
  <2>2. messageIDs[x] = NoId \/ OwnId(x, messageIDs[x])
    BY <2>1 DEF OwnId
  <2> QED
    BY <2>2 DEF SemIInv, SemTypeOK, Functions
<1>3. OwnId(x, i)
  <2>1. e.id = NoId \/ OwnId(x, e.id)
    BY DEF MayName, OwnId
  <2>2. OwnId(x, <<"llm", x>>)
    BY DEF OwnId
  <2> QED
    BY <1>2, <2>1, <2>2 DEF resolveMessageID
<1>4. i \in Ids /\ NoId \in Ids
  <2>1. i \in {<<"llm", x>>} \cup {<<"id", <<x, k>>>> : k \in 1..MaxMessages}
    BY <1>3 DEF OwnId
  <2> HIDE DEF i
  <2>2. i \in Ids
    BY <1>1, <2>1, IdsHave
  <2> QED
    BY <2>2, IdsHave DEF i
<1>5. /\ F \in Seq(Content) /\ Len(F) <= 2
      /\ \A j \in DOMAIN F : F[j].type \notin ToolTypes \cup {"log"} => OwnId(x, Base(F[j].id))
  BY <1>3, OwnFrames
<1>6. /\ messageIDs' = IF Resolves(e)
                       THEN [messageIDs EXCEPT ![x] = IF Clears(e) THEN NoId ELSE i]
                       ELSE messageIDs
      /\ toolCallCache' = IF e.type \in {"ToolCallRequested", "ToolExecutionStarted"}
                          THEN [toolCallCache EXCEPT ![e.of] = e.tool]
                          ELSE toolCallCache
      /\ outgoing' = [outgoing EXCEPT ![l] =
                        IF x[2] = session[x[1]] /\ phase[l] # "orphan"
                        THEN Addressed(F, e.of) ELSE << >>]
  BY DEF Translate, Addressed
<1> HIDE DEF i, F
<1>7. CachesLoosely(x)
  BY <1>1, <1>2, <1>3, <1>4, <1>6 DEF CachesLoosely
<1>8. /\ DOMAIN outgoing' = Slots /\ \A k \in Slots : k # l => outgoing'[k] = outgoing[k]
      /\ outgoing'[l] = Addressed(F, e.of) \/ outgoing'[l] = << >>
      /\ ~Current(x) => outgoing'[l] = << >>
  BY <1>2, <1>6 DEF Current
<1>9. ASSUME outgoing'[l] = << >> PROVE SendsLoosely(e.of, l)
  <2>1. << >> \in Seq(Frame) /\ Len(<< >>) <= 2 /\ DOMAIN << >> = {}
    OBVIOUS
  <2> QED
    BY <1>8, <1>9, <2>1 DEF SendsLoosely
<1>10. ASSUME outgoing'[l] = Addressed(F, e.of) PROVE SendsLoosely(e.of, l)
  <2>1. /\ Addressed(F, e.of) \in Seq(Frame) /\ Len(Addressed(F, e.of)) = Len(F)
        /\ DOMAIN Addressed(F, e.of) = DOMAIN F
        /\ \A j \in DOMAIN F :
             /\ Addressed(F, e.of)[j].type = F[j].type
             /\ Addressed(F, e.of)[j].id = F[j].id /\ Addressed(F, e.of)[j].of = e.of
    BY <1>1, <1>5, AddressedFrames
  <2>2. /\ outgoing'[l] \in Seq(Frame) /\ Len(outgoing'[l]) <= 2
        /\ \A j \in DOMAIN outgoing'[l] :
             /\ j \in DOMAIN F /\ outgoing'[l][j].of = e.of
             /\ outgoing'[l][j].type = F[j].type /\ outgoing'[l][j].id = F[j].id
    BY <1>5, <1>10, <2>1
  <2>3. \A j \in DOMAIN outgoing'[l] : OwnNamed(outgoing'[l][j])
    BY <1>5, <2>2 DEF OwnNamed
  <2> QED
    BY <1>8, <2>2, <2>3 DEF SendsLoosely
<1> QED
  BY <1>7, <1>8, <1>9, <1>10

(* A step in which nobody but consumers that are not alone translate, or   *)
(* the event is of no one who is followed.  m is the event's message.      *)
Onward(x, next) ==
  /\ next \in EngineStates /\ next.message = engine[x].message /\ next.message > 0
  /\ next.call # "none" => next.text = "done" /\ next.tool \in Tools
  /\ next.call = "none" => engine[x].call = "none"
  /\ next.tool = engine[x].tool \/ engine[x].call = "none"

LEMMA LooseStep ==
  ASSUME SemIInv, NEW m \in Messages, NEW x, x = m[1], ~Followed(x),
         m[2] <= engine[x].message, m \in disturbed \/ ~Current(x), x[2] <= session[x[1]],
         NEW next, Onward(x, next), engine' = [engine EXCEPT ![x] = next],
         DOMAIN published' = Engines, \A y \in Engines : published'[y] \in 0..MaxEvents[y],
         UNCHANGED translator \/ CachesLoosely(x),
         UNCHANGED outgoing \/ \E l \in Slots : /\ l[1] = x[1] /\ phase[l] # "gone"
                                                /\ outgoing[l] = << >> /\ SendsLoosely(m, l),
         inbox' \in [Slots -> SUBSET Event],
         \A k \in Slots :
           /\ Cardinality(inbox'[k]) <= 1
           /\ inbox'[k] # {} => phase[k] # "gone"
           /\ \A e \in inbox'[k] :
                e \in inbox[k] \/ (e.of = m /\ x[1] = k[1] /\ MayName(x, e.id) /\ ~Calm(k[1])),
         UNCHANGED <<ring, pagers, history, session, phase, disturbed>>
  PROVE  SemIInv'
<1>1. /\ engine \in [Engines -> EngineStates] /\ session \in [Conversations -> 1..MaxSessions]
      /\ x \in Engines /\ x[1] \in Conversations /\ x = <<x[1], x[2]>> /\ x[2] \in 1..MaxSessions
      /\ m = <<x, m[2]>> /\ DOMAIN outgoing = Slots
      /\ \A k \in Slots : k[1] \in Conversations
  BY Pairs DEF SemIInv, SemTypeOK, EngineStates, Functions
<1>2. /\ engine' \in [Engines -> EngineStates]
      /\ engine'[x] = next /\ \A y \in Engines : y # x => engine'[y] = engine[y]
  BY <1>1 DEF Onward
<1>3. \A y \in Engines : engine'[y].message = engine[y].message /\ (At(y))' = At(y)
  BY <1>2 DEF At, Onward
<1>4. /\ UNCHANGED <<session, phase, disturbed, sent, semBuf, ids, calls>>
      /\ UNCHANGED <<cursor, got, repeated>>
      /\ \A y \in Engines : (Current(y)' <=> Current(y)) /\ (Followed(y)' <=> Followed(y))
  BY <1>3 DEF Current, Followed, ring, history, pagers
(* Of each consumer's frames, either nothing or the new ones, of m.        *)
<1>5. /\ DOMAIN outgoing' = Slots
      /\ \A k \in Slots : outgoing'[k] \in Seq(Frame) /\ Len(outgoing'[k]) <= 2
      /\ \A k \in Slots :
           \/ outgoing'[k] = outgoing[k]
           \/ /\ k[1] = x[1] /\ phase[k] # "gone" /\ outgoing[k] = << >> /\ Current(x)
              /\ \A j \in DOMAIN outgoing'[k] :
                   outgoing'[k][j].of = m /\ OwnNamed(outgoing'[k][j])
  <2>1. \A k \in Slots : outgoing[k] \in Seq(Frame) /\ Len(outgoing[k]) <= 2
    BY DEF SemIInv, SemTypeOK
  <2>2. CASE UNCHANGED outgoing
    BY <1>1, <2>1, <2>2
  <2>3. ASSUME NEW l \in Slots, l[1] = x[1], phase[l] # "gone", outgoing[l] = << >>,
               SendsLoosely(m, l)
        PROVE  <1>5
    <3>1. /\ DOMAIN outgoing' = Slots /\ \A k \in Slots : k # l => outgoing'[k] = outgoing[k]
          /\ outgoing'[l] \in Seq(Frame) /\ Len(outgoing'[l]) <= 2
          /\ \A j \in DOMAIN outgoing'[l] : outgoing'[l][j].of = m /\ OwnNamed(outgoing'[l][j])
          /\ Current(x) \/ outgoing'[l] = outgoing[l]
      BY <2>3 DEF SendsLoosely
    <3> QED
      BY <2>1, <2>3, <3>1
  <2> QED
    BY <2>2, <2>3
<1>6. /\ messageIDs' \in [Engines -> Ids] /\ toolCallCache' \in [Messages -> Tools \cup {""}]
      /\ \A y \in Engines : y # x => messageIDs'[y] = messageIDs[y]
      /\ messageIDs'[x] \in {NoId, <<"llm", x>>} \cup {<<"id", <<x, k>>>> : k \in 1..MaxMessages}
      /\ x[1] \notin Naming => messageIDs'[x] \in {NoId, <<"llm", x>>}
      /\ \A n \in Messages : n[1] # x => toolCallCache'[n] = toolCallCache[n]
  <2>1. CASE UNCHANGED translator
    BY <1>1, <2>1 DEF translator, SemIInv, SemTypeOK, CacheInv
  <2>2. CASE CachesLoosely(x)
    BY <2>2 DEF CachesLoosely, OwnId
  <2> QED
    BY <2>1, <2>2
<1>7. SemTypeOK'
  BY <1>2, <1>4, <1>5, <1>6 DEF SemIInv, SemTypeOK, EngineStates
<1>8. Functions'
  BY <1>4, <1>5 DEF SemIInv, Functions
<1>9. EnginesInv'
  <2>1. ~(next.message = 0) /\ ~(x[2] > session[x[1]])
    BY <1>1 DEF Onward
  <2> QED
    BY <1>2, <1>4, <2>1 DEF SemIInv, EnginesInv, Onward
<1>10. CacheInv'
  <2>1. ASSUME NEW y \in Engines, y # x, engine[y].call \in {"requested", "running"}
        PROVE  toolCallCache'[At(y)] = toolCallCache[At(y)]
    <3>1. At(y) \in Messages /\ At(y)[1] = y
      <4>1. Fresh(0).call = "none" /\ engine[y].message \in 0..MaxMessages
        BY <1>1, EngineFields DEF Fresh
      <4>2. engine[y].message # 0
        BY <2>1, <4>1 DEF SemIInv, EnginesInv
      <4> QED
        BY <4>1, <4>2, Pairs, Positive DEF At
    <3> QED
      BY <1>6, <2>1, <3>1
  <2>2. ASSUME NEW y \in Engines
        PROVE  /\ messageIDs'[y] \in {NoId, <<"llm", y>>} \cup {<<"id", <<y, k>>>> : k \in 1..MaxMessages}
               /\ y[1] \notin Naming => messageIDs'[y] \in {NoId, <<"llm", y>>}
               /\ y[1] \in Naming /\ Followed(y)' /\ Ongoing(engine'[y]) => messageIDs'[y] = NameOf(y)'
               /\ Followed(y)' /\ engine'[y].call \in {"requested", "running"} =>
                    toolCallCache'[(At(y))'] = engine'[y].tool
    <3>1. CASE y = x
      BY <1>4, <1>6, <3>1
    <3>2. CASE y # x
      <4>1. NameOf(y)' = NameOf(y)
        BY <1>3 DEF NameOf
      <4> QED
        BY <1>2, <1>3, <1>4, <1>6, <2>1, <3>2, <4>1 DEF SemIInv, CacheInv
    <3> QED
      BY <3>1, <3>2
  <2> QED
    BY <2>2 DEF CacheInv
<1>11. FramesInv'
  <2> SUFFICES ASSUME NEW k \in Slots, NEW j \in DOMAIN outgoing'[k]
               PROVE  /\ outgoing'[k][j].of[1] = <<k[1], session[k[1]]>>
                      /\ outgoing'[k][j].of[2] <= engine'[outgoing'[k][j].of[1]].message
                      /\ OwnNamed(outgoing'[k][j])
                      /\ outgoing'[k][j].of \notin disturbed => WellNamed(outgoing'[k][j])
    BY <1>4 DEF FramesInv, WellNamed, OwnNamed, OwnId
  <2>1. CASE outgoing'[k] = outgoing[k]
    <3>1. /\ outgoing[k][j].of[1] = <<k[1], session[k[1]]>>
          /\ outgoing[k][j].of[2] <= engine[outgoing[k][j].of[1]].message
          /\ OwnNamed(outgoing[k][j])
          /\ outgoing[k][j].of \notin disturbed => WellNamed(outgoing[k][j])
      BY <2>1 DEF SemIInv, FramesInv
    <3>2. <<k[1], session[k[1]]>> \in Engines
      BY <1>1 DEF Engines
    <3> QED
      BY <1>3, <2>1, <3>1, <3>2
  <2>2. CASE /\ k[1] = x[1] /\ Current(x) /\ outgoing'[k][j].of = m /\ OwnNamed(outgoing'[k][j])
    <3>1. x = <<k[1], session[k[1]]>>
      BY <1>1, <2>2 DEF Current
    <3> QED
      BY <1>1, <1>3, <2>2, <3>1
  <2> QED
    BY <1>5, <2>1, <2>2
<1>12. ConsumersInv'
  <2>1. ASSUME NEW k \in Slots, phase[k] = "gone" PROVE inbox'[k] = {} /\ outgoing'[k] = << >>
    BY <1>5, <2>1 DEF SemIInv, ConsumersInv
  <2>2. ASSUME NEW k \in Slots, NEW e \in inbox'[k] PROVE Pending(e, k[1])'
    <3>1. CASE e \in inbox[k]
      <4>1. Pending(e, k[1]) /\ e \in Event
        BY <3>1 DEF SemIInv, SemTypeOK, ConsumersInv
      <4>2. e.of[1] \in Engines
        BY <4>1, Pairs DEF Event
      <4> QED
        BY <1>3, <1>4, <4>1, <4>2 DEF Pending, MayName
    <3>2. CASE e.of = m /\ x[1] = k[1] /\ MayName(x, e.id)
      <4>1. m[2] <= engine'[x].message
        BY <1>1, <1>3
      <4>2. m \in disturbed \/ x[2] < session[x[1]]
        BY <1>1 DEF Current
      <4> QED
        BY <1>4, <3>2, <4>1, <4>2 DEF Pending, MayName
    <3> QED
      BY <2>2, <3>1, <3>2
  <2>3. ASSUME NEW y \in Engines, Followed(y) PROVE Calm(y[1])'
    <3>1. Calm(y[1])
      BY <2>3 DEF SemIInv, ConsumersInv
    <3>2. \A k \in Slots : k[1] = y[1] => inbox'[k] \subseteq inbox[k]
      BY <3>1
    <3> QED
      BY <1>4, <3>1, <3>2, SameConsumers
  <2> QED
    BY <1>4, <2>1, <2>2, <2>3 DEF ConsumersInv
<1>13. CallsInv'
  <2>1. ASSUME NEW y \in Engines, Followed(y) PROVE CallFollows(y)'
    <3>1. y # x /\ (y[1] = x[1] => ~Current(x))
      <4>1. y = <<y[1], y[2]>> /\ x = <<x[1], x[2]>>
        BY <1>1, Pairs
      <4>2. y # x
        BY <2>1
      <4>3. Current(y)
        BY <2>1 DEF Followed
      <4>4. ASSUME y[1] = x[1], Current(x) PROVE y[2] = x[2]
        BY <4>3, <4>4 DEF Current
      <4> QED
        BY <4>1, <4>2, <4>4
    <3>2. SlotOf(y[1])' = SlotOf(y[1])
      BY <1>4, SameConsumers
    <3>3. SlotOf(y[1]) \in Slots /\ SlotOf(y[1])[1] = y[1] /\ CallFollows(y)
      BY <2>1, TheSlot DEF SemIInv, ConsumersInv, CallsInv
    <3>4. Line(y[1])' = Line(y[1])
      BY <1>5, <3>1, <3>2, <3>3 DEF Line
    <3> QED
      BY <1>2, <1>4, <2>1, <3>1, <3>2, <3>3, <3>4, SameLine
  <2>2. ASSUME engine[x].message > 0, At(x) \notin disturbed
        PROVE  /\ calls[At(x)] \in Shown(next.tool)
               /\ next.call = "none" => calls[At(x)] = << >>
    <3>1. /\ calls[At(x)] \in Shown(engine[x].tool)
          /\ engine[x].call = "none" => calls[At(x)] = << >>
      BY <1>1, <2>2 DEF SemIInv, CallsInv
    <3>2. << >> \in Shown(next.tool)
      BY DEF Shown
    <3> QED
      BY <3>1, <3>2 DEF Onward
  <2>3. ASSUME NEW y \in Engines
        PROVE  /\ \A k \in 1..MaxMessages : k > engine'[y].message => calls'[<<y, k>>] = << >>
               /\ engine'[y].message > 0 /\ (At(y))' \notin disturbed' =>
                    /\ calls'[(At(y))'] \in Shown(engine'[y].tool)
                    /\ engine'[y].call = "none" => calls'[(At(y))'] = << >>
               /\ Followed(y)' => CallFollows(y)'
    <3>1. CASE y = x
      BY <1>2, <1>3, <1>4, <2>2, <3>1 DEF SemIInv, CallsInv
    <3>2. CASE y # x
      BY <1>2, <1>3, <1>4, <2>1, <3>2 DEF SemIInv, CallsInv
    <3> QED
      BY <3>1, <3>2
  <2> QED
    BY <2>3 DEF CallsInv
<1>14. OwnIds' /\ MessagesKeepTheirIds' /\ RingInv'
  BY <1>4 DEF SemIInv, OwnIds, MessagesKeepTheirIds, RingInv
<1> QED
  BY <1>7, <1>8, <1>9, <1>10, <1>11, <1>12, <1>13, <1>14 DEF SemIInv

(* An event of an engine that is not followed.                             *)
LEMMA UnfollowedStep ==
  ASSUME SemIInv, NEW x \in Engines, ~Followed(x), NEW type \in EventTypes, NEW what \in Infos,
         NEW id, MayName(x, id), NEW next, Onward(x, next), Publish(x, type, what, id, next)
  PROVE  SemIInv'
<1> DEFINE m == <<x, next.message>>
           e == [type |-> type, what |-> what, id |-> id, tool |-> next.tool, of |-> m]
           c == x[1]
<1>1. m \in Messages /\ m[1] = x /\ m[2] = engine[x].message /\ m = At(x) /\ engine[x].message > 0
  <2>1. next.message \in 1..MaxMessages /\ next.message = engine[x].message
    BY EngineFields DEF Onward
  <2> QED
    BY <2>1, Pairs DEF At
<1>2. m \in disturbed \/ ~Current(x)
  BY <1>1 DEF Followed
<1>3. e \in Event /\ e.of = m /\ e.of[1] = x /\ e.id = id
  <2>1. id \in Ids
    BY IdsHave DEF MayName
  <2>2. next.tool \in Tools \cup {""}
    BY DEF Onward, EngineStates
  <2> QED
    BY <1>1, <2>1, <2>2 DEF Event
<1>4. m[2] <= engine[x].message /\ x[2] <= session[c]
  <2>1. engine[x].message \in Int
    BY EngineFields DEF SemIInv, SemTypeOK, EngineStates
  <2> QED
    BY <1>1, <2>1 DEF Publish
<1>5. Give(e) /\ \A k \in Running(c) : Rested(k)
  BY DEF Publish
<1>6. /\ published' \in [Engines -> Nat] /\ \A y \in Engines : published'[y] \in 0..MaxEvents[y]
      /\ engine' = [engine EXCEPT ![x] = next]
      /\ UNCHANGED <<ring, pagers, history, session, phase, disturbed>>
  BY Published
<1>7. /\ inbox \in [Slots -> SUBSET Event]
      /\ \A k \in Slots : Cardinality(inbox[k]) <= 1 /\ (inbox[k] # {} => phase[k] # "gone")
  BY DEF SemIInv, SemTypeOK, ConsumersInv
<1> HIDE DEF e, m, c
<1>8. CASE UNCHANGED <<translator, inbox, outgoing>>
  BY <1>1, <1>2, <1>4, <1>6, <1>7, <1>8, LooseStep DEF c
<1>9. ASSUME NEW late \in SUBSET Cancelled(c), NEW l \in Running(c) \cup late, Translate(l, e),
             inbox' = [k \in Slots |-> IF k \in (Running(c) \cup late) \ {l} THEN {e} ELSE inbox[k]]
      PROVE  SemIInv'
  <2>1. \A k \in Running(c) \cup late : k \in Slots /\ k[1] = c /\ phase[k] # "gone" /\ Rested(k)
    BY <1>5, <1>9 DEF Running, Cancelled
  <2>2. CachesLoosely(x) /\ SendsLoosely(m, l)
    BY <1>3, <1>9, <2>1, Translated
  <2>3. l \in Slots /\ l[1] = c /\ phase[l] # "gone" /\ outgoing[l] = << >>
    BY <2>1 DEF Rested
  <2>4. ASSUME NEW k \in (Running(c) \cup late) \ {l} PROVE ~Calm(k[1])
    BY <2>1, <2>3 DEF Calm
  <2>5. inbox' \in [Slots -> SUBSET Event]
    BY <1>3, <1>7, <1>9
  <2>6. ASSUME NEW k \in Slots
        PROVE  /\ Cardinality(inbox'[k]) <= 1
               /\ inbox'[k] # {} => phase[k] # "gone"
               /\ \A d \in inbox'[k] :
                    d \in inbox[k] \/ (d.of = m /\ x[1] = k[1] /\ MayName(x, d.id) /\ ~Calm(k[1]))
    <3>1. CASE k \in (Running(c) \cup late) \ {l}
      <4>1. inbox'[k] = {e} /\ Cardinality({e}) = 1
        BY <1>9, <3>1, FS_Singleton
      <4> QED
        BY <1>3, <2>1, <2>4, <3>1, <4>1 DEF c
    <3>2. CASE k \notin (Running(c) \cup late) \ {l}
      <4>1. inbox'[k] = inbox[k]
        BY <1>9, <3>2
      <4> QED
        BY <1>7, <4>1
    <3> QED
      BY <3>1, <3>2
  <2>7. \E k \in Slots : /\ k[1] = x[1] /\ phase[k] # "gone"
                          /\ outgoing[k] = << >> /\ SendsLoosely(m, k)
    BY <2>2, <2>3 DEF c
  <2>8. \A k \in Slots :
          /\ Cardinality(inbox'[k]) <= 1
          /\ inbox'[k] # {} => phase[k] # "gone"
          /\ \A d \in inbox'[k] :
               d \in inbox[k] \/ (d.of = m /\ x[1] = k[1] /\ MayName(x, d.id) /\ ~Calm(k[1]))
    BY <2>6
  <2>9. x = m[1] /\ x[2] <= session[x[1]] /\ m[2] <= engine[x].message
    BY <1>1, <1>4 DEF c
  <2> QED
    BY <1>1, <1>2, <1>6, <2>2, <2>5, <2>7, <2>8, <2>9, LooseStep
<1>10. \/ UNCHANGED <<translator, inbox, outgoing>>
       \/ \E late \in SUBSET Cancelled(c) : \E l \in Running(c) \cup late :
            /\ Translate(l, e)
            /\ inbox' = [k \in Slots |-> IF k \in (Running(c) \cup late) \ {l} THEN {e} ELSE inbox[k]]
  BY <1>3, <1>5 DEF Give, c
<1> QED
  BY <1>8, <1>9, <1>10

-----------------------------------------------------------------------------
(* Events that are not a tool's *)

(* All that is on its way to the clients of an engine that is followed.    *)
LEMMA Sent ==
  ASSUME SemIInv, NEW x \in Engines, NEW F, NEW next, Sends(x, F, next)
  PROVE  Line(x[1]) = << >> /\ Line(x[1])' = Addressed(F, At(x))
<1>1. Calm(x[1])
  BY DEF Sends, SemIInv, ConsumersInv
<1>2. SlotOf(x[1]) \in Slots /\ SlotOf(x[1])' = SlotOf(x[1])
  BY <1>1, TheSlot, SameConsumers DEF Sends
<1>3. outgoing'[SlotOf(x[1])] = Addressed(F, At(x))
  BY <1>2 DEF Sends, SemIInv, Functions
<1> QED
  BY <1>2, <1>3 DEF Sends, Line

LEMMA MayBeNamed ==
  ASSUME SemIInv, NEW x \in Engines, engine[x].message > 0, NEW first, NEW id \in Named(x, first)
  PROVE  MayName(x, id)
<1>1. engine[x].message \in 1..MaxMessages
  BY EngineFields DEF SemIInv, SemTypeOK, EngineStates
<1>2. id = NoId \/ (x[1] \in Naming /\ id = <<"id", <<x, engine[x].message>>>>)
  BY DEF Named
<1> QED
  BY <1>1, <1>2 DEF MayName

(* The id of an event about a message, its own or the cached one.          *)
LEMMA IdResolved ==
  ASSUME SemIInv, NEW x \in Engines, engine[x].message > 0, NEW first, NEW id \in Named(x, first),
         first \/ engine[x].thinking # "none" \/ engine[x].text # "none"
  PROVE  LET i == resolveMessageID(x, id)
         IN  /\ i \in {<<"llm", x>>} \cup {<<"id", <<x, k>>>> : k \in 1..MaxMessages}
             /\ x[1] \notin Naming => i = <<"llm", x>>
             /\ x[1] \in Naming /\ Followed(x) => i = NameOf(x)
<1>1. engine[x].message \in 1..MaxMessages
  <2>1. engine[x] \in EngineStates
    BY DEF SemIInv, SemTypeOK, EngineStates
  <2> QED
    BY <2>1, EngineFields
<1>2. NameOf(x) \in {<<"id", <<x, k>>>> : k \in 1..MaxMessages} /\ NameOf(x) # NoId
  BY <1>1 DEF NameOf, At, NoId
<1>3. /\ messageIDs[x] \in {NoId, <<"llm", x>>} \cup {<<"id", <<x, k>>>> : k \in 1..MaxMessages}
      /\ x[1] \notin Naming => messageIDs[x] \in {NoId, <<"llm", x>>}
      /\ x[1] \in Naming /\ Followed(x) /\ Ongoing(engine[x]) => messageIDs[x] = NameOf(x)
  BY DEF SemIInv, CacheInv
<1>4. /\ x[1] \notin Naming => id = NoId
      /\ x[1] \in Naming => id = NameOf(x) \/ (id = NoId /\ Ongoing(engine[x]))
  BY DEF Named, NameOf, At, Ongoing
<1> QED
  BY <1>2, <1>3, <1>4 DEF resolveMessageID

(* An event that is not the tool's leaves what is shown of its call.       *)
LEMMA CallStays ==
  ASSUME SemIInv, NEW x \in Engines, NEW F \in Seq(Content), NEW next, Sends(x, F, next),
         GoesOn(x, next), next.call = engine[x].call, next.tool = engine[x].tool,
         \A j \in DOMAIN F : F[j].type \notin ToolTypes
  PROVE  Shows(x, next)
<1>1. engine \in [Engines -> EngineStates]
  BY DEF SemIInv, SemTypeOK, EngineStates
<1>2. engine'[x] = next /\ (At(x))' = At(x) /\ calls' = calls /\ At(x) \in Messages
  BY <1>1, Pairs, EngineFields DEF Sends, GoesOn, At, history
<1>3. /\ calls[At(x)] \in Shown(engine[x].tool)
      /\ engine[x].call = "none" => calls[At(x)] = << >>
      /\ CallFollows(x)
  BY DEF SemIInv, CallsInv, GoesOn, Sends, Followed
<1>4. CallFollows(x)'
  <2>1. Line(x[1]) = << >> /\ Line(x[1])' = Addressed(F, At(x))
    BY Sent
  <2>2. Quiet(x)'
    BY <1>2, <2>1, AddressedFrames DEF Quiet
  <2>3. \A type, second : ~Waiting1(x, type) /\ ~Waiting2(x, type, second)
    <3>1. Len(Line(x[1])) = 0
      BY <2>1
    <3> QED
      BY <3>1 DEF Waiting1, Waiting2
  <2> QED
    BY <1>2, <1>3, <2>2, <2>3 DEF CallFollows
<1> QED
  BY <1>3, <1>4 DEF Shows

LEMMA MessageStep ==
  ASSUME SemIInv, NEW x \in Engines, Followed(x), NEW type \in MessageTypes, NEW what, NEW first,
         NEW id \in Named(x, first), NEW next, Publish(x, type, what, id, next),
         first \/ engine[x].thinking # "none" \/ engine[x].text # "none",
         GoesOn(x, next), next.call = engine[x].call, next.tool = engine[x].tool,
         type \in {"TextSegmentFinished", "Interrupt"} => next.text = "done"
  PROVE  SemIInv'
<1> DEFINE i == resolveMessageID(x, id)
           F == Translation(x, type, what, id, next)
           clears == type \in {"TextSegmentFinished", "Interrupt"}
<1>1. /\ Sends(x, F, next)
      /\ messageIDs' = [messageIDs EXCEPT ![x] = IF clears THEN NoId ELSE i]
      /\ toolCallCache' = toolCallCache
  BY Publishing DEF GoesOn, MessageTypes
<1>2. /\ i \in {<<"llm", x>>} \cup {<<"id", <<x, k>>>> : k \in 1..MaxMessages}
      /\ x[1] \notin Naming => i = <<"llm", x>>
      /\ x[1] \in Naming => i = NameOf(x)
  BY IdResolved DEF GoesOn
<1>3. engine \in [Engines -> EngineStates] /\ At(x) \in Messages /\ At(x) = <<x, next.message>>
      /\ At(x)[1] = x
  <2>1. engine \in [Engines -> EngineStates]
    BY DEF SemIInv, SemTypeOK, EngineStates
  <2> QED
    BY <2>1, Pairs, EngineFields DEF GoesOn, At
<1>4. /\ F \in Seq(Content) /\ Len(F) <= 1
      /\ \A j \in DOMAIN F : F[j].type \notin ToolTypes \cup {"log"} /\ Base(F[j].id) = i
  <2>1. i \in {IdOf(At(x))} \cup {<<"llm", At(x)[1]>>}
              \cup {<<"id", <<At(x)[1], k>>>> : k \in 1..MaxMessages}
    BY <1>2, <1>3
  <2> HIDE DEF i
  <2>2. F = Handle(Answers([type |-> type, what |-> what, id |-> id, tool |-> next.tool,
                           of |-> At(x)], i))
    BY <1>3 DEF Translation, i
  <2> HIDE DEF F
  <2> QED
    BY <1>3, <2>1, <2>2, MessageTranslation
<1> HIDE DEF i, F
<1>5. Caches(x, next)
  <2>1. messageIDs \in [Engines -> Ids]
    BY DEF SemIInv, SemTypeOK
  <2>2. i \in Ids /\ NoId \in Ids
    BY <1>2, IdsHave
  <2>3. clears => ~Ongoing(next)
    BY DEF Ongoing
  <2> QED
    BY <1>1, <1>2, <2>1, <2>2, <2>3 DEF Caches
<1>6. CachesTool(x, next)
  BY <1>1 DEF CachesTool, SemIInv, SemTypeOK, CacheInv
<1>7. Frames(x, F)
  <2>1. i = IdOf(At(x))
    BY <1>2, <1>3 DEF IdOf, NameOf
  <2> QED
    BY <1>4, <2>1 DEF Frames
<1>8. Shows(x, next)
  BY <1>1, <1>4, CallStays
<1> QED
  BY <1>1, <1>5, <1>6, <1>7, <1>8, PublishStep

(* What every step below has.                                              *)
LEMMA EngineAt ==
  ASSUME SemIInv, NEW x \in Engines
  PROVE  /\ engine \in [Engines -> EngineStates] /\ engine[x] \in EngineStates
         /\ engine[x].message > 0 => At(x) \in Messages
         /\ At(x) = <<x, engine[x].message>> /\ At(x)[1] = x
         /\ engine[x].text # "none" \/ engine[x].thinking # "none" \/ engine[x].call # "none" =>
              engine[x].message > 0
         /\ messageIDs \in [Engines -> Ids] /\ toolCallCache \in [Messages -> Tools \cup {""}]
<1>1. engine \in [Engines -> EngineStates] /\ engine[x] \in EngineStates
  BY DEF SemIInv, SemTypeOK, EngineStates
<1>2. engine[x].message > 0 \/ engine[x].message = 0
  BY <1>1, EngineFields, Positive
<1>3. Fresh(0).text = "none" /\ Fresh(0).thinking = "none" /\ Fresh(0).call = "none"
  BY DEF Fresh
<1>4. engine[x].message = 0 => engine[x] = Fresh(0)
  BY DEF SemIInv, EnginesInv
<1> QED
  BY <1>1, <1>2, <1>3, <1>4, EngineFields, Pairs DEF At, SemIInv, SemTypeOK

(* An event that leaves the caches as they are.                            *)
LEMMA CachesStay ==
  ASSUME SemIInv, NEW x \in Engines, Followed(x), NEW next, GoesOn(x, next), UNCHANGED messageIDs,
         next.text = engine[x].text, next.thinking = engine[x].thinking
  PROVE  Caches(x, next)
BY EngineAt DEF Caches, SemIInv, CacheInv, Ongoing

LEMMA TranslationIs ==
  ASSUME SemIInv, NEW x \in Engines, NEW type, NEW what, NEW id, NEW next,
         next.message = engine[x].message, next.message > 0
  PROVE  LET frames == Translation(x, type, what, id, next)
             result == IF toolCallCache[At(x)] = "calc" THEN "calc_result" ELSE "tool.result"
         IN  /\ type = "BlankDelta" => frames = << >>
             /\ type = "Log" => frames = <<[type |-> "log", id |-> <<"log", x>>]>>
             /\ type = "ToolCallRequested" =>
                  frames = <<[type |-> "tool.start", id |-> <<"id", At(x)>>]>>
             /\ type = "ToolExecutionStarted" =>
                  frames = <<[type |-> "tool.delta", id |-> <<"id", At(x)>>]>>
             /\ type = "ToolResultReady" =>
                  frames = <<[type |-> result, id |-> <<"id", At(x)>>],
                             [type |-> "tool.done", id |-> <<"id", At(x)>>]>>
<1>1. /\ Translation(x, type, what, id, next) =
           Handle(Answers([type |-> type, what |-> what, id |-> id, tool |-> next.tool, of |-> At(x)],
                          resolveMessageID(x, id)))
      /\ At(x) \in Messages /\ At(x)[1] = x
  <2>1. At(x) = <<x, next.message>>
    BY DEF At
  <2> QED
    BY <2>1, EngineAt DEF Translation
<1> QED
  BY <1>1, OtherTranslations

LEMMA QuietStep ==
  ASSUME SemIInv, NEW x \in Engines, Followed(x), NEW type \in {"BlankDelta", "Log"},
         NEW what, NEW id, Publish(x, type, what, id, engine[x])
  PROVE  SemIInv'
<1> DEFINE F == Translation(x, type, what, id, engine[x])
<1>1. GoesOn(x, engine[x])
  BY EngineAt DEF GoesOn, SemIInv, EnginesInv, Followed
<1>2. Sends(x, F, engine[x]) /\ messageIDs' = messageIDs /\ toolCallCache' = toolCallCache
  BY Publishing DEF MessageTypes
<1>3. F = << >> \/ F = <<[type |-> "log", id |-> <<"log", x>>]>>
  BY TranslationIs DEF Followed
<1>4. [type |-> "log", id |-> <<"log", x>>] \in Content
  BY DEF Content, FrameTypes, Ids
<1> HIDE DEF F
<1>5. F \in Seq(Content) /\ Len(F) <= 1 /\ \A j \in DOMAIN F : F[j].type = "log"
  <2>1. CASE F = << >>
    BY <2>1
  <2>2. CASE F = <<[type |-> "log", id |-> <<"log", x>>]>>
    BY <1>4, <2>2, Singleton
  <2> QED
    BY <1>3, <2>1, <2>2
<1>6. "log" \notin ToolTypes
  BY DEF ToolTypes
<1>7. CachesTool(x, engine[x])
  BY <1>2, EngineAt DEF CachesTool, SemIInv, CacheInv
<1>8. Frames(x, F)
  BY <1>5 DEF Frames
<1> QED
  BY <1>1, <1>2, <1>5, <1>6, <1>7, <1>8, CachesStay, CallStays, PublishStep

-----------------------------------------------------------------------------
(* The events of a tool call *)

LEMMA ShownFirst ==
  ASSUME SemIInv, NEW x \in Engines, Followed(x)
  PROVE  /\ calls[At(x)] \in Shown(engine[x].tool)
         /\ engine[x].call = "none" => calls[At(x)] = << >>
         /\ Line(x[1]) = << >> =>
              /\ engine[x].call = "requested" => calls[At(x)] = <<"tool.start">>
              /\ engine[x].call = "running" => calls[At(x)] = <<"tool.start", "tool.delta">>
<1>1. ASSUME Line(x[1]) = << >>, NEW type PROVE ~Waiting1(x, type)
  <2>1. Len(Line(x[1])) = 0
    BY <1>1
  <2> QED
    BY <2>1 DEF Waiting1
<1> QED
  BY <1>1 DEF SemIInv, CallsInv, CallFollows, Followed

LEMMA EngineUpdates ==
  ASSUME NEW e \in EngineStates, NEW call \in {"none", "requested", "running", "done"},
         NEW tool \in Tools
  PROVE  /\ LET n == [e EXCEPT !.call = call]
            IN  /\ n \in EngineStates /\ n.call = call /\ n.tool = e.tool
                /\ n.message = e.message /\ n.text = e.text /\ n.thinking = e.thinking
         /\ LET n == [[e EXCEPT !.call = call] EXCEPT !.tool = tool]
            IN  /\ n \in EngineStates /\ n.call = call /\ n.tool = tool
                /\ n.message = e.message /\ n.text = e.text /\ n.thinking = e.thinking
BY DEF EngineStates

LEMMA ToolFrame ==
  ASSUME NEW m \in Messages, NEW t \in ToolTypes
  PROVE  [type |-> t, id |-> <<"id", m>>] \in Content
<1>1. t \in FrameTypes
  BY DEF ToolTypes, FrameTypes
<1>2. <<"id", m>> \in Ids
  BY DEF Ids
<1> QED
  BY <1>1, <1>2 DEF Content

(* The frames of the three events of a tool call.                          *)
ToolFrames(F, type, result) ==
  /\ F \in Seq(Content) /\ \A j \in DOMAIN F : F[j].type \in ToolTypes
  /\ type = "ToolCallRequested" => Len(F) = 1 /\ F[1].type = "tool.start"
  /\ type = "ToolExecutionStarted" => Len(F) = 1 /\ F[1].type = "tool.delta"
  /\ type = "ToolResultReady" =>
       Len(F) = 2 /\ F[1].type = result /\ F[2].type = "tool.done"

LEMMA ToolFramesAreFrames ==
  ASSUME NEW x, NEW F, NEW result,
         NEW type \in {"ToolCallRequested", "ToolExecutionStarted", "ToolResultReady"},
         ToolFrames(F, type, result)
  PROVE  Frames(x, F)
<1>1. F \in Seq(Content) /\ \A j \in DOMAIN F : F[j].type \in ToolTypes
  BY DEF ToolFrames
<1>2. Len(F) = 1 \/ Len(F) = 2
  BY DEF ToolFrames
<1>3. Len(F) <= 2
  BY <1>1, <1>2
<1> QED
  BY <1>1, <1>3 DEF Frames

LEMMA ToolTranslation ==
  ASSUME SemIInv, NEW x \in Engines, NEW what, NEW id, NEW next,
         NEW type \in {"ToolCallRequested", "ToolExecutionStarted", "ToolResultReady"},
         next.message = engine[x].message, next.message > 0
  PROVE  ToolFrames(Translation(x, type, what, id, next), type, ResultOf(toolCallCache[At(x)]))
<1> DEFINE F == Translation(x, type, what, id, next)
           Made(t) == [type |-> t, id |-> <<"id", At(x)>>]
           result == ResultOf(toolCallCache[At(x)])
<1>1. result \in ToolTypes /\ {"tool.start", "tool.delta", "tool.done"} \subseteq ToolTypes
  BY DEF ResultOf, ToolTypes
<1>2. /\ type = "ToolCallRequested" => F = <<Made("tool.start")>>
      /\ type = "ToolExecutionStarted" => F = <<Made("tool.delta")>>
      /\ type = "ToolResultReady" => F = <<Made(result), Made("tool.done")>>
  BY TranslationIs DEF ResultOf
<1>3. \A t \in ToolTypes : Made(t) \in Content /\ Made(t).type = t
  BY EngineAt, ToolFrame
<1> HIDE DEF F, Made, result
<1>4. ASSUME NEW t \in ToolTypes, F = <<Made(t)>>
      PROVE  F \in Seq(Content) /\ Len(F) = 1 /\ F[1].type = t /\ \A j \in DOMAIN F : F[j].type = t
  BY <1>3, <1>4, Singleton
<1>5. ASSUME F = <<Made(result), Made("tool.done")>>
      PROVE  /\ F \in Seq(Content) /\ Len(F) = 2
             /\ F[1].type = result /\ F[2].type = "tool.done"
             /\ \A j \in DOMAIN F : F[j].type \in ToolTypes
  <2>1. /\ Made(result) \in Content /\ Made("tool.done") \in Content
        /\ Made(result).type = result /\ Made("tool.done").type = "tool.done"
    BY <1>1, <1>3
  <2>2. /\ F \in Seq(Content) /\ Len(F) = 2 /\ DOMAIN F = {1, 2}
        /\ F[1] = Made(result) /\ F[2] = Made("tool.done")
    BY <1>5, <2>1, Pair
  <2> QED
    BY <1>1, <2>1, <2>2
<1>6. ToolFrames(F, type, result)
  <2>1. CASE type = "ToolCallRequested"
    BY <1>1, <1>2, <1>4, <2>1 DEF ToolFrames
  <2>2. CASE type = "ToolExecutionStarted"
    BY <1>1, <1>2, <1>4, <2>2 DEF ToolFrames
  <2>3. CASE type = "ToolResultReady"
    BY <1>2, <1>5, <2>3 DEF ToolFrames
  <2> QED
    BY <2>1, <2>2, <2>3
<1> QED
  BY <1>6 DEF F, result

(* They are all that is on its way to the clients then.                    *)
LEMMA ToolWaits ==
  ASSUME SemIInv, NEW x \in Engines, NEW next, next.message = engine[x].message, next.message > 0,
         NEW F \in Seq(Content), Sends(x, F, next)
  PROVE  /\ engine'[x] = next /\ (At(x))' = At(x) /\ calls' = calls
         /\ Len(F) = 1 => Waiting1(x, F[1].type)'
         /\ Len(F) = 2 => Waiting2(x, F[1].type, F[2].type)'
<1>1. engine'[x] = next /\ (At(x))' = At(x) /\ calls' = calls
  BY EngineAt DEF Sends, At, history
<1>2. At(x) \in Messages
  BY EngineAt
<1>3. Line(x[1])' = Addressed(F, At(x))
  BY Sent
<1>4. DOMAIN F = 1..Len(F)
  BY LenProperties
<1>5. /\ Len(Line(x[1])') = Len(F)
      /\ \A j \in 1..Len(F) : /\ (Line(x[1])')[j].type = F[j].type
                              /\ (Line(x[1])')[j].of = At(x)
  BY <1>2, <1>3, <1>4, AddressedFrames
<1>6. ASSUME Len(F) = 1 PROVE Waiting1(x, F[1].type)'
  <2>1. 1 \in 1..Len(F)
    BY <1>6
  <2> QED
    BY <1>1, <1>5, <1>6, <2>1 DEF Waiting1
<1>7. ASSUME Len(F) = 2 PROVE Waiting2(x, F[1].type, F[2].type)'
  <2>1. 1 \in 1..Len(F) /\ 2 \in 1..Len(F)
    BY <1>7
  <2> QED
    BY <1>1, <1>5, <1>7, <2>1 DEF Waiting2
<1> QED
  BY <1>1, <1>6, <1>7

(* The part of the proof that is the same for the three events.            *)
ToolEvent(x, type, next) ==
  /\ GoesOn(x, next) /\ engine[x].text = "done" /\ next.text = "done"
  /\ next.thinking = engine[x].thinking /\ next.tool \in Tools
  /\ next.call # "none" /\ (next.tool = engine[x].tool \/ engine[x].call = "none")
  /\ \/ type \in {"ToolCallRequested", "ToolExecutionStarted"}
     \/ type = "ToolResultReady" /\ next.call = "done"

LEMMA ToolStep ==
  ASSUME SemIInv, NEW x \in Engines, NEW type, NEW next,
         Publish(x, type, "", NoId, next), ToolEvent(x, type, next),
         \A F : ToolFrames(F, type, ResultOf(toolCallCache[At(x)])) /\ Sends(x, F, next) =>
               Shows(x, next)
  PROVE  SemIInv'
<1> DEFINE F == Translation(x, type, "", NoId, next)
<1>1. engine[x].message > 0 /\ next.message = engine[x].message
      /\ type \in {"ToolCallRequested", "ToolExecutionStarted", "ToolResultReady"}
  BY DEF ToolEvent, GoesOn
<1>2. CASE ~Followed(x)
  <2>1. Onward(x, next)
    BY DEF ToolEvent, GoesOn, Onward
  <2>2. type \in EventTypes /\ "" \in Infos /\ MayName(x, NoId)
    BY <1>1 DEF EventTypes, Infos, MayName
  <2> QED
    BY <1>2, <2>1, <2>2, UnfollowedStep
<1>3. CASE Followed(x)
  <2>1. /\ Sends(x, F, next) /\ messageIDs' = messageIDs
        /\ toolCallCache' = IF type \in {"ToolCallRequested", "ToolExecutionStarted"}
                            THEN [toolCallCache EXCEPT ![At(x)] = next.tool] ELSE toolCallCache
    BY <1>1, <1>3, Publishing DEF MessageTypes
  <2>2. ToolFrames(F, type, ResultOf(toolCallCache[At(x)]))
    BY <1>1, ToolTranslation
  <2> HIDE DEF F
  <2>3. Shows(x, next)
    BY <2>1, <2>2
  <2>4. CachesTool(x, next)
    BY <1>1, <2>1, EngineAt DEF CachesTool, ToolEvent
  <2>5. Frames(x, F)
    BY <1>1, <2>2, ToolFramesAreFrames
  <2>6. Caches(x, next)
    BY <1>3, <2>1, CachesStay DEF ToolEvent
  <2> QED
    BY <2>1, <2>3, <2>4, <2>5, <2>6, PublishStep DEF ToolEvent
<1> QED
  BY <1>2, <1>3

LEMMA RequestStep ==
  ASSUME SemIInv, NEW x \in Engines, NEW tool \in Tools,
         engine[x].text = "done", engine[x].call = "none",
         Publish(x, "ToolCallRequested", "", NoId,
                 [[engine[x] EXCEPT !.call = "requested"] EXCEPT !.tool = tool])
  PROVE  SemIInv'
<1> DEFINE next == [[engine[x] EXCEPT !.call = "requested"] EXCEPT !.tool = tool]
<1>1. engine[x] \in EngineStates /\ engine[x].message > 0
  BY EngineAt
<1>2. /\ next \in EngineStates /\ next.call = "requested" /\ next.tool = tool
      /\ next.message = engine[x].message /\ next.text = engine[x].text
      /\ next.thinking = engine[x].thinking /\ next.message > 0
  BY <1>1 DEF EngineStates
<1>3. Publish(x, "ToolCallRequested", "", NoId, next)
  OBVIOUS
<1> HIDE DEF next
<1>4. ToolEvent(x, "ToolCallRequested", next)
  BY <1>2 DEF ToolEvent, GoesOn
<1>5. ASSUME NEW F, ToolFrames(F, "ToolCallRequested", ResultOf(toolCallCache[At(x)])),
             Sends(x, F, next)
      PROVE  Shows(x, next)
  <2>1. F \in Seq(Content) /\ Len(F) = 1 /\ F[1].type = "tool.start"
    BY <1>5 DEF ToolFrames
  <2>2. engine'[x] = next /\ (At(x))' = At(x) /\ calls' = calls
    BY <1>2, <1>5, <2>1, ToolWaits
  <2>3. calls[At(x)] = << >>
    BY <1>5, ShownFirst DEF Sends
  <2>4. CallFollows(x)'
    <3>1. Waiting1(x, "tool.start")'
      BY <1>2, <1>5, <2>1, <2>2, ToolWaits
    <3> QED
      BY <1>2, <2>2, <2>3, <3>1 DEF CallFollows
  <2> QED
    BY <1>2, <2>3, <2>4 DEF Shows, Shown
<1> QED
  BY <1>3, <1>4, <1>5, ToolStep

LEMMA ExecuteStep ==
  ASSUME SemIInv, NEW x \in Engines, engine[x].text = "done", engine[x].call = "requested",
         Publish(x, "ToolExecutionStarted", "", NoId, [engine[x] EXCEPT !.call = "running"])
  PROVE  SemIInv'
<1> DEFINE next == [engine[x] EXCEPT !.call = "running"]
<1>1. engine[x] \in EngineStates /\ engine[x].message > 0 /\ engine[x].tool \in Tools
  BY EngineAt DEF SemIInv, EnginesInv
<1>2. /\ next \in EngineStates /\ next.call = "running" /\ next.tool = engine[x].tool
      /\ next.message = engine[x].message /\ next.text = engine[x].text
      /\ next.thinking = engine[x].thinking /\ next.message > 0
  BY <1>1 DEF EngineStates
<1>3. Publish(x, "ToolExecutionStarted", "", NoId, next)
  OBVIOUS
<1> HIDE DEF next
<1>4. ToolEvent(x, "ToolExecutionStarted", next)
  BY <1>1, <1>2 DEF ToolEvent, GoesOn
<1>5. ASSUME NEW F, ToolFrames(F, "ToolExecutionStarted", ResultOf(toolCallCache[At(x)])),
             Sends(x, F, next)
      PROVE  Shows(x, next)
  <2>1. F \in Seq(Content) /\ Len(F) = 1 /\ F[1].type = "tool.delta"
    BY <1>5 DEF ToolFrames
  <2>2. engine'[x] = next /\ (At(x))' = At(x) /\ calls' = calls
    BY <1>2, <1>5, <2>1, ToolWaits
  <2>3. /\ calls[At(x)] \in Shown(engine[x].tool)
        /\ calls[At(x)] = <<"tool.start">>
    BY <1>1, <1>5, ShownFirst DEF Sends
  <2>4. CallFollows(x)'
    <3>1. Waiting1(x, "tool.delta")'
      BY <1>2, <1>5, <2>1, <2>2, ToolWaits
    <3> QED
      BY <1>2, <2>2, <2>3, <3>1 DEF CallFollows
  <2> QED
    BY <1>2, <2>3, <2>4 DEF Shows
<1> QED
  BY <1>3, <1>4, <1>5, ToolStep

LEMMA ResultFollows ==
  ASSUME SemIInv, NEW x \in Engines, NEW next, next.message = engine[x].message, next.message > 0,
         next.call = "done", calls[At(x)] \in Executed,
         NEW F, NEW result, result = ResultOf(next.tool),
         ToolFrames(F, "ToolResultReady", result), Sends(x, F, next)
  PROVE  CallFollows(x)'
<1>1. F \in Seq(Content) /\ Len(F) = 2 /\ F[1].type = result /\ F[2].type = "tool.done"
  BY DEF ToolFrames
<1>2. engine'[x] = next /\ (At(x))' = At(x) /\ calls' = calls
  BY <1>1, ToolWaits
<1>3. Waiting2(x, F[1].type, F[2].type)'
  BY <1>1, ToolWaits
<1>4. Waiting2(x, ResultOf(next.tool), "tool.done")'
  BY <1>1, <1>3
<1> QED
  BY <1>2, <1>4 DEF CallFollows

LEMMA ResultStep ==
  ASSUME SemIInv, NEW x \in Engines,
         engine[x].text = "done", engine[x].call \in {"requested", "running"},
         Publish(x, "ToolResultReady", "", NoId, [engine[x] EXCEPT !.call = "done"])
  PROVE  SemIInv'
<1> DEFINE next == [engine[x] EXCEPT !.call = "done"]
           result == ResultOf(toolCallCache[At(x)])
<1>1. engine[x] \in EngineStates /\ engine[x].message > 0 /\ engine[x].tool \in Tools
  BY EngineAt DEF SemIInv, EnginesInv
<1>2. /\ next \in EngineStates /\ next.call = "done" /\ next.tool = engine[x].tool
      /\ next.message = engine[x].message /\ next.text = engine[x].text
      /\ next.thinking = engine[x].thinking /\ next.message > 0
  BY <1>1 DEF EngineStates
<1>3. Publish(x, "ToolResultReady", "", NoId, next)
  OBVIOUS
<1> HIDE DEF next, result
<1>4. ToolEvent(x, "ToolResultReady", next)
  BY <1>1, <1>2 DEF ToolEvent, GoesOn
<1>5. ASSUME NEW F, ToolFrames(F, "ToolResultReady", result), Sends(x, F, next)
      PROVE  Shows(x, next)
  <2>1. /\ F \in Seq(Content) /\ Len(F) = 2
        /\ F[1].type = result /\ F[2].type = "tool.done"
    BY <1>5 DEF ToolFrames
  <2>2. engine'[x] = next /\ (At(x))' = At(x) /\ calls' = calls
    BY <1>2, <1>5, <2>1, ToolWaits
  <2>3. /\ calls[At(x)] \in Shown(engine[x].tool)
        /\ calls[At(x)] \in Executed
    BY <1>1, <1>5, ShownFirst DEF Sends, Executed
  <2>4. CallFollows(x)'
    <3>1. result = ResultOf(next.tool)
      BY <1>2, <1>5 DEF Sends, SemIInv, CacheInv, result
    <3> QED
      BY <1>2, <1>5, <2>3, <3>1, ResultFollows
  <2> QED
    BY <1>2, <2>3, <2>4 DEF Shows
<1> QED
  BY <1>3, <1>4, <1>5, ToolStep DEF result

-----------------------------------------------------------------------------
(* The engine's actions *)

(* A message's event whose next state changes its text or thinking only.   *)
Goes(e, next) ==
  /\ next \in EngineStates /\ next.message = e.message /\ next.call = e.call /\ next.tool = e.tool
  /\ e.text = "done" => next.text = "done"

LEMMA EventStep ==
  ASSUME SemIInv, NEW x \in Engines, engine[x].message > 0,
         NEW type \in MessageTypes, NEW what \in Infos, NEW first, NEW id \in Named(x, first),
         NEW next, Publish(x, type, what, id, next), Goes(engine[x], next),
         first \/ engine[x].thinking # "none" \/ engine[x].text # "none",
         type \in {"TextSegmentFinished", "Interrupt"} => next.text = "done"
  PROVE  SemIInv'
<1>1. GoesOn(x, next) /\ Onward(x, next)
  BY DEF Goes, GoesOn, Onward, SemIInv, EnginesInv
<1>2. CASE Followed(x)
  BY <1>1, <1>2, MessageStep DEF Goes
<1>3. CASE ~Followed(x)
  BY <1>1, <1>3, MayBeNamed, EventTypesAre, UnfollowedStep
<1> QED
  BY <1>2, <1>3

(* An event that has no frames, or a line of a log.                        *)
LEMMA OtherStep ==
  ASSUME SemIInv, NEW x \in Engines, engine[x].message > 0, NEW type \in {"BlankDelta", "Log"},
         NEW id, MayName(x, id), Publish(x, type, "", id, engine[x])
  PROVE  SemIInv'
<1>1. Onward(x, engine[x])
  BY EngineAt DEF Onward, SemIInv, EnginesInv
<1>2. "" \in Infos
  BY DEF Infos
<1>3. CASE Followed(x)
  BY <1>3, QuietStep
<1>4. CASE ~Followed(x)
  BY <1>1, <1>2, <1>4, EventTypesAre, UnfollowedStep
<1> QED
  BY <1>3, <1>4

LEMMA ThinkStep ==
  ASSUME SemIInv, NEW x \in Engines, Think(x)
  PROVE  SemIInv'
<1> DEFINE at == engine[x]
           open == [at EXCEPT !.thinking = "open"]
           done == [at EXCEPT !.thinking = "done"]
<1>1. at \in EngineStates /\ at.message > 0
  BY EngineAt DEF Think
<1>2. /\ "Info" \in MessageTypes /\ "ReasoningDelta" \in MessageTypes
      /\ {"", "thinking-started", "thinking-ended", "reasoning-summary"} \subseteq Infos
  BY DEF MessageTypes, Infos
<1>3. Goes(at, open) /\ Goes(at, done) /\ Goes(at, at)
  BY <1>1 DEF EngineStates, Goes
<1> HIDE DEF open, done
<1>4. \/ at.thinking = "none" /\ \E id \in Named(x, TRUE) :
           Publish(x, "Info", "thinking-started", id, open)
      \/ at.thinking # "none" /\ \E id \in Named(x, FALSE) :
           Publish(x, "ReasoningDelta", "", id, at)
      \/ at.thinking # "none" /\ \E id \in Named(x, FALSE) :
           Publish(x, "Info", "thinking-ended", id, done)
      \/ at.thinking # "none" /\ \E id \in Named(x, FALSE) :
           Publish(x, "Info", "reasoning-summary", id, at)
  BY DEF Think, open, done
<1>5. CASE at.thinking = "none" /\ \E id \in Named(x, TRUE) :
             Publish(x, "Info", "thinking-started", id, open)
  BY <1>1, <1>2, <1>3, <1>5, EventStep
<1>6. CASE at.thinking # "none" /\ \E id \in Named(x, FALSE) :
             Publish(x, "ReasoningDelta", "", id, at)
  BY <1>1, <1>2, <1>3, <1>6, EventStep
<1>7. CASE at.thinking # "none" /\ \E id \in Named(x, FALSE) :
             Publish(x, "Info", "thinking-ended", id, done)
  BY <1>1, <1>2, <1>3, <1>7, EventStep
<1>8. CASE at.thinking # "none" /\ \E id \in Named(x, FALSE) :
             Publish(x, "Info", "reasoning-summary", id, at)
  BY <1>1, <1>2, <1>3, <1>8, EventStep
<1> QED
  BY <1>4, <1>5, <1>6, <1>7, <1>8

LEMMA WriteStep ==
  ASSUME SemIInv, NEW x \in Engines, Write(x)
  PROVE  SemIInv'
<1> DEFINE at == engine[x]
           first == at.thinking = "none"
           open == [at EXCEPT !.text = "open"]
           done == [at EXCEPT !.text = "done"]
<1>1. at \in EngineStates /\ at.message > 0
  BY EngineAt DEF Write
<1>2. /\ {"TextSegmentStarted", "TextDelta", "TextSegmentFinished", "Interrupt"} \subseteq MessageTypes
      /\ "" \in Infos
  BY DEF MessageTypes, Infos
<1>3. /\ at.text = "none" => Goes(at, open)
      /\ Goes(at, done) /\ Goes(at, at) /\ done.text = "done"
  BY <1>1 DEF EngineStates, Goes
<1>4. first \/ at.thinking # "none"
  OBVIOUS
<1> HIDE DEF open, done
<1>5. \/ at.text = "none" /\ \E id \in Named(x, first) :
           Publish(x, "TextSegmentStarted", "", id, open)
      \/ at.text = "open" /\ \E id \in Named(x, FALSE), type \in {"TextDelta", "BlankDelta"} :
           Publish(x, type, "", id, at)
      \/ at.text = "open" /\
         \E id \in Named(x, FALSE), type \in {"TextSegmentFinished", "Interrupt"} :
           Publish(x, type, "", id, done)
  BY DEF Write, open, done
<1> HIDE DEF first
<1>6. CASE at.text = "none" /\ \E id \in Named(x, first) :
             Publish(x, "TextSegmentStarted", "", id, open)
  BY <1>1, <1>2, <1>3, <1>4, <1>6, EventStep
<1>7. CASE at.text = "open" /\ \E id \in Named(x, FALSE), type \in {"TextDelta", "BlankDelta"} :
             Publish(x, type, "", id, at)
  BY <1>1, <1>2, <1>3, <1>7, EventStep, OtherStep, MayBeNamed
<1>8. CASE at.text = "open" /\
           \E id \in Named(x, FALSE), type \in {"TextSegmentFinished", "Interrupt"} :
             Publish(x, type, "", id, done)
  BY <1>1, <1>2, <1>3, <1>8, EventStep
<1> QED
  BY <1>5, <1>6, <1>7, <1>8

LEMMA TellStep ==
  ASSUME SemIInv, NEW x \in Engines, Tell(x)
  PROVE  SemIInv'
<1> DEFINE first == engine[x].thinking = "none" /\ engine[x].text = "none"
<1>1. engine[x] \in EngineStates /\ engine[x].message > 0
  BY EngineAt DEF Tell
<1>2. "Info" \in MessageTypes /\ "other" \in Infos
  BY DEF MessageTypes, Infos
<1>3. Goes(engine[x], engine[x])
  BY <1>1 DEF Goes
<1>4. first \/ engine[x].thinking # "none" \/ engine[x].text # "none"
  OBVIOUS
<1>5. \/ \E id \in Named(x, first) : Publish(x, "Info", "other", id, engine[x])
      \/ Publish(x, "Log", "", NoId, engine[x])
  BY DEF Tell
<1> HIDE DEF first
<1>6. CASE \E id \in Named(x, first) : Publish(x, "Info", "other", id, engine[x])
  BY <1>1, <1>2, <1>3, <1>4, <1>6, EventStep
<1>7. CASE Publish(x, "Log", "", NoId, engine[x])
  BY <1>1, <1>7, OtherStep DEF MayName
<1> QED
  BY <1>5, <1>6, <1>7

LEMMA CallToolStep ==
  ASSUME SemIInv, NEW x \in Engines, CallTool(x)
  PROVE  SemIInv'
BY RequestStep, ExecuteStep, ResultStep DEF CallTool

LEMMA BeginStep ==
  ASSUME SemIInv, NEW x \in Engines, Begin(x)
  PROVE  SemIInv'
<1> DEFINE k == engine[x].message + 1
<1>1. engine \in [Engines -> EngineStates] /\ engine[x].message \in 0..MaxMessages
      /\ session \in [Conversations -> 1..MaxSessions]
  BY EngineAt, EngineFields DEF SemIInv, SemTypeOK
<1>2. k \in 1..MaxMessages /\ k > engine[x].message /\ k # 0
  BY <1>1, Positive DEF Begin
<1>3. /\ Fresh(k) \in EngineStates /\ Fresh(k).message = k /\ Fresh(k).call = "none"
      /\ ~Ongoing(Fresh(k))
  BY <1>2 DEF Fresh, EngineStates, Ongoing
<1>4. /\ engine' \in [Engines -> EngineStates] /\ engine'[x] = Fresh(k)
      /\ \A y \in Engines : y # x => engine'[y] = engine[y]
  BY <1>1, <1>3 DEF Begin
<1>5. /\ x[2] <= session[x[1]] /\ UNCHANGED <<translator, ring, pagers, history>>
      /\ UNCHANGED <<session, phase, inbox, outgoing, published>>
      /\ disturbed' = IF Calm(x[1]) THEN disturbed ELSE disturbed \cup {<<x, k>>}
  BY DEF Begin
<1>6. /\ (At(x))' = <<x, k>> /\ <<x, k>> \in Messages
      /\ \A y \in Engines : y # x => (At(y))' = At(y) /\ (Followed(y)' <=> Followed(y))
      /\ Followed(x)' => Calm(x[1])
  <2>1. (At(x))' = <<x, k>> /\ <<x, k>> \in Messages
    BY <1>2, <1>3, <1>4, Pairs DEF At
  <2>2. ASSUME NEW y \in Engines, y # x PROVE (At(y))' = At(y) /\ (Followed(y)' <=> Followed(y))
    <3>1. (At(y))' = At(y) /\ At(y) # <<x, k>>
      BY <1>4, <2>2 DEF At
    <3> QED
      BY <1>4, <1>5, <2>2, <3>1 DEF Followed, Current
  <2>3. Followed(x)' => Calm(x[1])
    BY <1>5, <2>1 DEF Followed
  <2> QED
    BY <2>1, <2>2, <2>3
<1> HIDE DEF k
<1>7. SemTypeOK'
  <2>1. disturbed' \subseteq Messages
    BY <1>5, <1>6 DEF SemIInv, SemTypeOK
  <2> QED
    BY <1>4, <1>5, <2>1
       DEF SemIInv, SemTypeOK, EngineStates, translator, ring, pagers, history
<1>8. Functions'
  BY <1>5 DEF SemIInv, Functions, ring, pagers, history
<1>9. EnginesInv'
  <2>1. ~(x[2] > session[x[1]])
    BY <1>1, <1>5, Pairs
  <2> QED
    BY <1>2, <1>3, <1>4, <1>5, <2>1 DEF SemIInv, EnginesInv
<1>10. CacheInv'
  <2>1. UNCHANGED <<messageIDs, toolCallCache>>
    BY <1>5 DEF translator
  <2>2. ASSUME NEW y \in Engines
        PROVE  /\ messageIDs[y] \in {NoId, <<"llm", y>>} \cup {<<"id", <<y, n>>>> : n \in 1..MaxMessages}
               /\ y[1] \notin Naming => messageIDs[y] \in {NoId, <<"llm", y>>}
               /\ y[1] \in Naming /\ Followed(y)' /\ Ongoing(engine'[y]) => messageIDs[y] = NameOf(y)'
               /\ Followed(y)' /\ engine'[y].call \in {"requested", "running"} =>
                    toolCallCache[(At(y))'] = engine'[y].tool
    <3>1. CASE y = x
      BY <1>3, <1>4, <3>1 DEF SemIInv, CacheInv
    <3>2. CASE y # x
      <4>1. NameOf(y)' = NameOf(y)
        BY <1>6, <3>2 DEF NameOf
      <4> QED
        BY <1>4, <1>6, <3>2, <4>1 DEF SemIInv, CacheInv
    <3> QED
      BY <3>1, <3>2
  <2> QED
    BY <2>1, <2>2 DEF CacheInv
<1>11. FramesInv'
  <2> SUFFICES ASSUME NEW l \in Slots, NEW j \in DOMAIN outgoing[l]
               PROVE  /\ outgoing[l][j].of[1] = <<l[1], session[l[1]]>>
                      /\ outgoing[l][j].of[2] <= engine'[outgoing[l][j].of[1]].message
                      /\ OwnNamed(outgoing[l][j])
                      /\ outgoing[l][j].of \notin disturbed' => WellNamed(outgoing[l][j])
    BY <1>5 DEF FramesInv, WellNamed, OwnNamed, OwnId
  <2>1. /\ outgoing[l][j].of[1] = <<l[1], session[l[1]]>>
        /\ outgoing[l][j].of[2] <= engine[outgoing[l][j].of[1]].message
        /\ OwnNamed(outgoing[l][j])
        /\ outgoing[l][j].of \notin disturbed => WellNamed(outgoing[l][j])
    BY DEF SemIInv, FramesInv
  <2>2. outgoing[l][j] \in Frame
    <3>1. outgoing[l] \in Seq(Frame)
      BY DEF SemIInv, SemTypeOK
    <3> QED
      BY <3>1, ElementOfSeq, LenProperties
  <2>3. outgoing[l][j].of \in Messages
    BY <2>2 DEF Frame
  <2>4. outgoing[l][j].of[2] \in Int /\ outgoing[l][j].of[1] \in Engines
    BY <2>3, Pairs
  <2>5. outgoing[l][j].of[2] <= engine'[outgoing[l][j].of[1]].message
    BY <1>1, <1>2, <1>3, <1>4, <2>1, <2>4
  <2> QED
    BY <1>5, <2>1, <2>5
<1>12. ConsumersInv'
  <2>1. \A l \in Slots : phase'[l] = "gone" => inbox'[l] = {} /\ outgoing'[l] = << >>
    BY <1>5 DEF SemIInv, ConsumersInv
  <2>2. ASSUME NEW l \in Slots, NEW e \in inbox'[l] PROVE Pending(e, l[1])'
    <3>1. Pending(e, l[1]) /\ e \in Event
      BY <1>5, <2>2 DEF SemIInv, SemTypeOK, ConsumersInv
    <3>2. e.of[1] \in Engines /\ e.of[2] \in Int
      BY <3>1, EventOf
    <3>3. e.of[2] <= engine'[e.of[1]].message
      BY <1>1, <1>2, <1>3, <1>4, <3>1, <3>2 DEF Pending
    <3> QED
      BY <1>5, <3>1, <3>3 DEF Pending, MayName
  <2>3. ASSUME NEW y \in Engines, Followed(y)' PROVE Calm(y[1])'
    <3>1. Calm(y[1])
      BY <1>6, <2>3 DEF SemIInv, ConsumersInv
    <3> QED
      BY <1>5, <3>1, SameConsumers
  <2> QED
    BY <2>1, <2>2, <2>3 DEF ConsumersInv
<1>13. CallsInv'
  <2>1. calls' = calls
    BY <1>5 DEF history
  <2>2. \A n \in 1..MaxMessages : n > engine[x].message => calls[<<x, n>>] = << >>
    BY DEF SemIInv, CallsInv
  <2>3. (At(x))' = <<x, k>> /\ calls[(At(x))'] = << >>
    BY <1>2, <1>3, <1>4, <2>2 DEF At
  <2>4. \A n \in 1..MaxMessages : n > k => calls[<<x, n>>] = << >>
    BY <1>1, <1>2, <2>2
  <2>5. ASSUME Followed(x)' PROVE CallFollows(x)'
    <3>1. Calm(x[1]) /\ SlotOf(x[1])' = SlotOf(x[1])
      BY <1>5, <1>6, <2>5, SameConsumers
    <3>2. SlotOf(x[1]) \in Slots /\ Line(x[1])' = Line(x[1])
      BY <1>5, <3>1, TheSlot DEF Line
    <3>3. ASSUME NEW j \in DOMAIN Line(x[1]), Line(x[1])[j].of = <<x, k>> PROVE FALSE
      <4>1. Line(x[1])[j].of[2] <= engine[Line(x[1])[j].of[1]].message
        BY <3>2 DEF SemIInv, FramesInv, Line
      <4>2. k <= engine[x].message
        BY <3>3, <4>1
      <4> QED
        BY <1>1, <1>2, <4>2
    <3>4. Quiet(x)'
      BY <1>6, <3>2, <3>3 DEF Quiet
    <3> QED
      BY <1>3, <1>4, <2>1, <2>3, <3>4 DEF CallFollows
  <2>6. ASSUME NEW y \in Engines, y # x, Followed(y) PROVE CallFollows(y)'
    <3>1. SlotOf(y[1])' = SlotOf(y[1]) /\ Line(y[1])' = Line(y[1])
      BY <1>5, SameConsumers DEF Line
    <3>2. CallFollows(y)
      BY <2>6 DEF SemIInv, CallsInv
    <3> QED
      BY <1>4, <2>1, <2>6, <3>1, <3>2, SameLine
  <2>7. << >> \in Shown(Fresh(k).tool)
    BY DEF Shown
  <2>8. ASSUME NEW y \in Engines
        PROVE  /\ \A n \in 1..MaxMessages : n > engine'[y].message => calls[<<y, n>>] = << >>
               /\ engine'[y].message > 0 /\ (At(y))' \notin disturbed' =>
                    /\ calls[(At(y))'] \in Shown(engine'[y].tool)
                    /\ engine'[y].call = "none" => calls[(At(y))'] = << >>
               /\ Followed(y)' => CallFollows(y)'
    <3>1. CASE y = x
      BY <1>3, <1>4, <2>3, <2>4, <2>5, <2>7, <3>1
    <3>2. CASE y # x
      <4>1. (At(y))' \notin disturbed' => At(y) \notin disturbed
        BY <1>5, <1>6, <3>2
      <4> QED
        BY <1>4, <1>6, <2>6, <3>2, <4>1 DEF SemIInv, CallsInv
    <3> QED
      BY <3>1, <3>2
  <2> QED
    BY <2>1, <2>8 DEF CallsInv
<1>14. OwnIds' /\ MessagesKeepTheirIds' /\ RingInv'
  BY <1>5 DEF SemIInv, OwnIds, MessagesKeepTheirIds, RingInv, history, ring
<1> QED
  BY <1>7, <1>8, <1>9, <1>10, <1>11, <1>12, <1>13, <1>14 DEF SemIInv

-----------------------------------------------------------------------------
(* The consumers' steps *)

(* One starts, is cancelled or goes: none of its conversation is followed  *)
(* afterwards.                                                             *)
LEMMA PhaseStep ==
  ASSUME SemIInv, NEW l \in Slots, NEW now \in {"gone", "running", "leaving", "orphan"},
         phase' = [phase EXCEPT ![l] = now], now = "gone" => Rested(l),
         disturbed \subseteq disturbed', disturbed' \subseteq Messages,
         \A x \in Engines : x[1] = l[1] => ~Followed(x)',
         UNCHANGED <<translator, ring, pagers, history, session, inbox, outgoing, engine, published>>
  PROVE  SemIInv'
<1>1. /\ UNCHANGED <<messageIDs, toolCallCache, session, inbox, outgoing, engine, published>>
      /\ UNCHANGED <<sent, semBuf, cursor, got, repeated, ids, calls>>
  BY DEF translator, ring, pagers, history
<1>2. phase \in [Slots -> {"gone", "running", "leaving", "orphan"}]
  BY DEF SemIInv, SemTypeOK
<1>3. /\ phase' \in [Slots -> {"gone", "running", "leaving", "orphan"}] /\ phase'[l] = now
      /\ \A k \in Slots : k # l => phase'[k] = phase[k]
  BY <1>2
<1>4. \A x \in Engines : (At(x))' = At(x) /\ (Current(x)' <=> Current(x))
  BY <1>1 DEF At, Current
<1>5. ASSUME NEW x \in Engines, Followed(x)' PROVE Followed(x) /\ x[1] # l[1]
  <2>1. x[1] # l[1]
    BY <1>5
  <2> QED
    BY <1>1, <1>4, <1>5, <2>1 DEF Followed
<1>6. ASSUME NEW x \in Engines, Followed(x)'
      PROVE  \A k \in Slots : k[1] = x[1] => phase'[k] = phase[k]
  BY <1>3, <1>5, <1>6
<1>7. SemTypeOK' /\ Functions' /\ EnginesInv'
  <2>1. SemTypeOK'
    BY <1>1, <1>3 DEF SemIInv, SemTypeOK
  <2>2. Functions' /\ EnginesInv'
    BY <1>1 DEF SemIInv, Functions, EnginesInv
  <2> QED
    BY <2>1, <2>2
<1>8. CacheInv'
  BY <1>1, <1>4, <1>5 DEF SemIInv, CacheInv, NameOf
<1>9. FramesInv'
  BY <1>1 DEF SemIInv, FramesInv, OwnNamed, OwnId, WellNamed
<1>10. ConsumersInv'
  <2>1. \A k \in Slots : phase'[k] = "gone" => inbox'[k] = {} /\ outgoing'[k] = << >>
    BY <1>1, <1>3 DEF SemIInv, ConsumersInv, Rested
  <2>2. ASSUME NEW k \in Slots, NEW e \in inbox'[k] PROVE Pending(e, k[1])'
    <3>1. Pending(e, k[1])
      BY <1>1, <2>2 DEF SemIInv, ConsumersInv
    <3> QED
      BY <1>1, <3>1 DEF Pending, MayName
  <2>3. ASSUME NEW x \in Engines, Followed(x)' PROVE Calm(x[1])'
    <3>1. Calm(x[1])
      BY <1>5, <2>3 DEF SemIInv, ConsumersInv
    <3> QED
      BY <1>1, <1>6, <2>3, <3>1, SameConsumers
  <2> QED
    BY <2>1, <2>2, <2>3 DEF ConsumersInv
<1>11. CallsInv'
  <2>1. ASSUME NEW x \in Engines, Followed(x)' PROVE CallFollows(x)'
    <3>1. SlotOf(x[1])' = SlotOf(x[1]) /\ Line(x[1])' = Line(x[1])
      BY <1>1, <1>6, <2>1, SameConsumers DEF Line
    <3>2. CallFollows(x)
      BY <1>5, <2>1 DEF SemIInv, CallsInv
    <3> QED
      BY <1>1, <3>1, <3>2, SameLine
  <2>2. ASSUME NEW x \in Engines
        PROVE  /\ \A k \in 1..MaxMessages : k > engine[x].message => calls[<<x, k>>] = << >>
               /\ engine[x].message > 0 /\ At(x) \notin disturbed' =>
                    /\ calls[At(x)] \in Shown(engine[x].tool)
                    /\ engine[x].call = "none" => calls[At(x)] = << >>
    BY DEF SemIInv, CallsInv
  <2> QED
    BY <1>1, <1>4, <2>1, <2>2 DEF CallsInv
<1>12. OwnIds' /\ MessagesKeepTheirIds' /\ RingInv'
  BY <1>1 DEF SemIInv, OwnIds, MessagesKeepTheirIds, RingInv
<1> QED
  BY <1>7, <1>8, <1>9, <1>10, <1>11, <1>12 DEF SemIInv

LEMMA Disturbed ==
  ASSUME SemIInv, NEW c, Disturb(c), UNCHANGED engine
  PROVE  /\ disturbed \subseteq disturbed' /\ disturbed' \subseteq Messages
         /\ \A x \in Engines : x[1] = c => ~Followed(x)'
<1> DEFINE begun == {<<x, engine[x].message>> : x \in {y \in Engines :
                                                      y[1] = c /\ engine[y].message > 0}}
<1>1. disturbed' = disturbed \cup begun /\ engine' = engine
  BY DEF Disturb
<1>2. ASSUME NEW m \in begun PROVE m \in Messages
  <2>1. PICK x \in Engines : m = At(x) /\ engine[x].message > 0
    BY Zenon DEF At
  <2> QED
    BY <2>1, EngineAt
<1>4. ASSUME NEW x \in Engines, x[1] = c, engine[x].message > 0 PROVE At(x) \in begun
  BY <1>4 DEF At
<1> HIDE DEF begun
<1>3. disturbed' \subseteq Messages
  BY <1>1, <1>2 DEF SemIInv, SemTypeOK
<1>5. ASSUME NEW x \in Engines, x[1] = c PROVE ~Followed(x)'
  BY <1>1, <1>4, <1>5 DEF Followed, At
<1> QED
  BY <1>1, <1>3, <1>5

LEMMA StartConsumerStep ==
  ASSUME SemIInv, NEW l \in Slots, StartConsumer(l) \/ StopConsumer(l)
  PROVE  SemIInv'
<1>1. /\ UNCHANGED <<translator, ring, pagers, history, session, inbox, outgoing, engine, published>>
      /\ Disturb(l[1])
      /\ \E now \in {"running", "leaving"} : phase' = [phase EXCEPT ![l] = now]
  BY DEF StartConsumer, StopConsumer
<1>2. /\ disturbed \subseteq disturbed' /\ disturbed' \subseteq Messages
      /\ \A x \in Engines : x[1] = l[1] => ~Followed(x)'
  BY <1>1, Disturbed
<1> QED
  BY <1>1, <1>2, PhaseStep

(* Whoever is on its way out is not alone.                                 *)
LEMMA NotCalm ==
  ASSUME SemIInv, NEW x \in Engines, NEW l \in Slots, l[1] = x[1],
         phase[l] \in {"leaving", "orphan"} \/ inbox[l] # {}
  PROVE  ~Followed(x)
<1>1. phase[l] # "gone"
  BY DEF SemIInv, ConsumersInv
<1>2. ~Calm(x[1])
  BY <1>1 DEF Calm
<1> QED
  BY <1>2 DEF SemIInv, ConsumersInv

LEMMA EndConsumerStep ==
  ASSUME SemIInv, NEW l \in Slots, EndConsumer(l)
  PROVE  SemIInv'
<1>1. /\ UNCHANGED <<translator, ring, pagers, history, session, inbox, outgoing, engine, published>>
      /\ UNCHANGED disturbed /\ phase' = [phase EXCEPT ![l] = "gone"]
      /\ phase[l] \in {"leaving", "orphan"} /\ Rested(l)
  BY DEF EndConsumer
<1>2. disturbed \subseteq disturbed' /\ disturbed' \subseteq Messages
  BY <1>1 DEF SemIInv, SemTypeOK
<1>3. ASSUME NEW x \in Engines, x[1] = l[1] PROVE ~Followed(x)'
  <2>1. ~Followed(x)
    BY <1>1, <1>3, NotCalm
  <2> QED
    BY <1>1, <2>1 DEF Followed, Current, At
<1> QED
  BY <1>1, <1>2, <1>3, PhaseStep

LEMMA CatchUpStep ==
  ASSUME SemIInv, NEW l \in Slots, CatchUp(l)
  PROVE  SemIInv'
<1>1. /\ outgoing[l] = << >> /\ inbox' = [inbox EXCEPT ![l] = {}]
      /\ UNCHANGED <<ring, pagers, history, session, phase, engine, published, disturbed>>
  BY DEF CatchUp
<1>2. PICK e \in inbox[l] : Translate(l, e)
  BY DEF CatchUp
<1>3. /\ inbox \in [Slots -> SUBSET Event] /\ e \in Event /\ Pending(e, l[1])
      /\ phase[l] # "gone"
      /\ \A k \in Slots : Cardinality(inbox[k]) <= 1 /\ (inbox[k] # {} => phase[k] # "gone")
  BY <1>2 DEF SemIInv, SemTypeOK, ConsumersInv
<1>4. PICK m \in Messages, x \in Engines :
        m = e.of /\ x = m[1] /\ m[2] \in 1..MaxMessages
  BY <1>3, EventOf
<1>5. /\ x[1] = l[1] /\ x[2] <= session[x[1]] /\ m[2] <= engine[x].message /\ MayName(x, e.id)
      /\ m \in disturbed \/ x[2] < session[x[1]]
  BY <1>3, <1>4 DEF Pending
<1>6. ~Followed(x)
  BY <1>2, <1>5, NotCalm
<1>7. CachesLoosely(x) /\ SendsLoosely(m, l)
  BY <1>2, <1>3, <1>4, <1>5, Translated
<1>8. Onward(x, engine[x]) /\ engine' = [engine EXCEPT ![x] = engine[x]]
  <2>1. engine \in [Engines -> EngineStates] /\ engine[x].message \in Int
    BY EngineAt, EngineFields
  <2>2. engine[x].message > 0
    BY <1>4, <1>5, <2>1
  <2> QED
    BY <1>1, <2>1, <2>2 DEF Onward, SemIInv, EnginesInv
<1>9. m \in disturbed \/ ~Current(x)
  <2>1. session[x[1]] \in Int /\ x[2] \in Int
    <3>1. session \in [Conversations -> 1..MaxSessions]
      BY DEF SemIInv, SemTypeOK
    <3> QED
      BY <3>1, Pairs
  <2> QED
    BY <1>5, <2>1 DEF Current
<1>10. DOMAIN published' = Engines /\ \A y \in Engines : published'[y] \in 0..MaxEvents[y]
  <2>1. ASSUME NEW y \in Engines PROVE published[y] \in 0..MaxEvents[y]
    BY DEF SemIInv, SemTypeOK
  <2>2. published' = published /\ DOMAIN published = Engines
    BY <1>1 DEF SemIInv, Functions
  <2> QED
    BY <2>1, <2>2
<1>11. inbox' \in [Slots -> SUBSET Event]
  BY <1>1, <1>3
<1>12. \A k \in Slots :
         /\ Cardinality(inbox'[k]) <= 1
         /\ inbox'[k] # {} => phase[k] # "gone"
         /\ \A d \in inbox'[k] :
              d \in inbox[k] \/ (d.of = m /\ x[1] = k[1] /\ MayName(x, d.id) /\ ~Calm(k[1]))
  <2>1. Cardinality({}) <= 1
    BY FS_EmptySet
  <2> QED
    BY <1>1, <1>3, <2>1
<1>13. \E k \in Slots : k[1] = x[1] /\ phase[k] # "gone" /\ outgoing[k] = << >> /\ SendsLoosely(m, k)
  BY <1>1, <1>3, <1>5, <1>7
<1> QED
  BY <1>1, <1>4, <1>5, <1>6, <1>7, <1>8, <1>9, <1>10, <1>11, <1>12, <1>13, LooseStep

-----------------------------------------------------------------------------
(* The ring *)

(* The numbers of the frames kept after n of them.                         *)
Ring(n) == LET kept == IF n <= RingSize THEN n ELSE RingSize
           IN  [i \in 1..kept |-> n - kept + i]

LEMMA RingIs ==
  ASSUME NEW n \in Nat
  PROVE  /\ LET kept == Min({RingSize, n}) IN [i \in 1..kept |-> n - kept + i] = Ring(n)
         /\ Ring(n) \in Seq(Nat \ {0}) /\ Len(Ring(n)) <= RingSize
         /\ Len(Ring(n)) = IF n <= RingSize THEN n ELSE RingSize
<1>1. RingSize \in Nat \ {0}
  BY Positive
<1>2. Min({RingSize, n}) = IF n <= RingSize THEN n ELSE RingSize
  <2>1. CASE n <= RingSize
    BY <1>1, <2>1, MinIs
  <2>2. CASE ~(n <= RingSize)
    BY <1>1, <2>2, MinIs
  <2> QED
    BY <2>1, <2>2
<1> DEFINE kept == IF n <= RingSize THEN n ELSE RingSize
<1>3. kept \in Nat /\ kept <= RingSize /\ kept <= n
  BY <1>1
<1>4. Ring(n) = [i \in 1..kept |-> n - kept + i]
  BY DEF Ring
<1>5. Min({RingSize, n}) = kept
  BY <1>2
<1> HIDE DEF kept
<1>6. \A i \in 1..kept : n - kept + i \in Nat \ {0}
  BY <1>3
<1>7. Ring(n) \in Seq(Nat \ {0})
  BY <1>3, <1>4, <1>6, IsASeq
<1>8. Len(Ring(n)) = kept
  BY <1>3, <1>4, <1>7, LenProperties
<1>9. LET k == Min({RingSize, n}) IN [i \in 1..k |-> n - k + i] = Ring(n)
  BY <1>4, <1>5
<1> QED
  BY <1>3, <1>7, <1>8, <1>9 DEF kept

(* r is the ring after n frames.                                           *)
HoldsLast(r, n) ==
  /\ r \in Seq(Nat \ {0})
  /\ Len(r) = IF n <= RingSize THEN n ELSE RingSize
  /\ \A i \in 1..Len(r) : r[i] = n - Len(r) + i

LEMMA RingHoldsLast ==
  ASSUME NEW n \in Nat PROVE HoldsLast(Ring(n), n)
BY RingIs DEF Ring, HoldsLast

LEMMA RingStep ==
  ASSUME NEW n \in Nat, NEW m \in Nat, m = n + 1, NEW r, NEW t, HoldsLast(r, n), HoldsLast(t, m)
  PROVE  Trimmed(Append(r, m)) = t
<1> DEFINE s == Append(r, m)
<1>1. RingSize \in Nat \ {0}
  BY Positive
<1>2. r \in Seq(Nat \ {0}) /\ Len(r) \in Nat /\ m \in Nat \ {0}
  BY LenProperties DEF HoldsLast
<1>3. t \in Seq(Nat \ {0}) /\ Len(t) \in Nat
  BY LenProperties DEF HoldsLast
<1>4. /\ s \in Seq(Nat \ {0}) /\ Len(s) = Len(r) + 1
      /\ \A i \in 1..Len(r) : s[i] = r[i]
      /\ s[Len(r) + 1] = m
  BY <1>2, AppendProperties
<1>5. Trimmed(s) = IF Len(s) > RingSize THEN Tail(s) ELSE s
  BY DEF Trimmed
<1> HIDE DEF s
<1>6. CASE n < RingSize
  <2>1. Len(r) = n /\ Len(t) = m
    BY <1>1, <1>6 DEF HoldsLast
  <2>2. Len(s) = m /\ Trimmed(s) = s
    BY <1>1, <1>4, <1>5, <1>6, <2>1
  <2>3. ASSUME NEW i \in 1..m PROVE s[i] = t[i]
    <3>1. t[i] = m - m + i
      BY <2>1 DEF HoldsLast
    <3>2. CASE i = m
      <4>1. Len(r) + 1 = m /\ m - m + m = m
        BY <2>1
      <4>2. s[m] = m
        BY <1>4, <4>1
      <4>3. t[m] = m
        BY <3>1, <3>2, <4>1
      <4> QED
        BY <3>2, <4>2, <4>3
    <3>3. CASE i # m
      <4>1. i \in 1..n
        BY <3>3
      <4>2. s[i] = n - n + i
        BY <1>4, <2>1, <4>1 DEF HoldsLast
      <4> QED
        BY <3>1, <4>1, <4>2
    <3> QED
      BY <3>2, <3>3
  <2> QED
    BY <1>3, <1>4, <2>1, <2>2, <2>3, SeqEqual DEF s
<1>7. CASE n >= RingSize
  <2>1. Len(r) = RingSize /\ Len(t) = RingSize
    BY <1>1, <1>7 DEF HoldsLast
  <2>2. Len(s) = RingSize + 1 /\ Trimmed(s) = Tail(s) /\ s # << >>
    BY <1>1, <1>4, <1>5, <2>1
  <2>3. /\ Tail(s) \in Seq(Nat \ {0}) /\ Len(Tail(s)) = Len(s) - 1
        /\ \A i \in 1..Len(Tail(s)) : Tail(s)[i] = s[i + 1]
    BY <1>4, <2>2, HeadTailProperties
  <2>4. Len(Tail(s)) = RingSize
    BY <1>1, <2>2, <2>3
  <2>5. ASSUME NEW i \in 1..RingSize PROVE Tail(s)[i] = t[i]
    <3>1. Tail(s)[i] = s[i + 1] /\ t[i] = m - RingSize + i
      BY <2>1, <2>3, <2>4 DEF HoldsLast
    <3>2. CASE i = RingSize
      BY <1>1, <1>4, <2>1, <3>1, <3>2
    <3>3. CASE i # RingSize
      <4>1. i + 1 \in 1..RingSize
        BY <1>1, <3>3
      <4>2. s[i + 1] = n - RingSize + (i + 1)
        BY <1>4, <2>1, <4>1 DEF HoldsLast
      <4>3. n - RingSize + (i + 1) = m - RingSize + i
        BY <1>1
      <4> QED
        BY <3>1, <4>2, <4>3
    <3> QED
      BY <3>2, <3>3
  <2> QED
    BY <1>3, <2>1, <2>2, <2>3, <2>4, <2>5, SeqEqual DEF s
<1> QED
  BY <1>1, <1>6, <1>7

LEMMA RingHolds ==
  ASSUME Functions, \A c \in Conversations : Len(sent[c]) \in Nat
  PROVE  RingInv <=> \A c \in Conversations : semBuf[c] = Ring(Len(sent[c]))
BY RingIs DEF RingInv

-----------------------------------------------------------------------------
(* The callback *)

(* The frame delivered and those that stay behind it.                      *)
LEMMA Delivered ==
  ASSUME SemIInv, NEW l \in Slots, Deliver(l)
  PROVE  LET f == Head(outgoing[l])
             x == <<l[1], session[l[1]]>>
         IN  /\ f \in Frame /\ f = outgoing[l][1] /\ 1 \in DOMAIN outgoing[l]
             /\ outgoing[l] \in Seq(Frame) /\ Len(outgoing[l]) \in 1..2
             /\ DOMAIN outgoing[l] = 1..Len(outgoing[l])
             /\ l[1] \in Conversations /\ phase[l] # "gone" /\ x \in Engines /\ Current(x)
             /\ f.of \in Messages /\ f.of[1] = x /\ f.of = <<x, f.of[2]>> /\ f.of[2] \in Int
             /\ f.of[2] <= engine[x].message
             /\ OwnNamed(f) /\ (f.of \notin disturbed => WellNamed(f))
             /\ f.type \in FrameTypes /\ f.id \in Ids
             /\ outgoing'[l] \in Seq(Frame) /\ Len(outgoing'[l]) = Len(outgoing[l]) - 1
             /\ DOMAIN outgoing'[l] = 1..(Len(outgoing[l]) - 1)
             /\ \A j \in 1..(Len(outgoing[l]) - 1) :
                  j + 1 \in DOMAIN outgoing[l] /\ outgoing'[l][j] = outgoing[l][j + 1]
             /\ DOMAIN outgoing' = Slots
             /\ \A k \in Slots : k # l => outgoing'[k] = outgoing[k]
<1> DEFINE f == Head(outgoing[l])
           x == <<l[1], session[l[1]]>>
<1>1. /\ outgoing[l] \in Seq(Frame) /\ Len(outgoing[l]) <= 2 /\ outgoing[l] # << >>
      /\ outgoing' = [outgoing EXCEPT ![l] = Tail(outgoing[l])] /\ DOMAIN outgoing = Slots
      /\ session \in [Conversations -> 1..MaxSessions] /\ phase[l] # "gone"
  BY DEF Deliver, SemIInv, SemTypeOK, Functions, ConsumersInv
<1>2. /\ f \in Frame /\ Tail(outgoing[l]) \in Seq(Frame)
      /\ Len(Tail(outgoing[l])) = Len(outgoing[l]) - 1
      /\ \A j \in 1..Len(Tail(outgoing[l])) : Tail(outgoing[l])[j] = outgoing[l][j + 1]
  BY <1>1, HeadTailProperties
<1>3. Len(outgoing[l]) \in Nat /\ DOMAIN outgoing[l] = 1..Len(outgoing[l]) /\ Len(outgoing[l]) # 0
  BY <1>1, LenProperties, EmptySeq
<1>4. Len(outgoing[l]) \in 1..2 /\ 1 \in DOMAIN outgoing[l] /\ f = outgoing[l][1]
  BY <1>1, <1>3
<1>5. /\ outgoing'[l] = Tail(outgoing[l]) /\ DOMAIN outgoing' = Slots
      /\ \A k \in Slots : k # l => outgoing'[k] = outgoing[k]
  BY <1>1
<1>6. l[1] \in Conversations /\ x \in Engines /\ x[1] = l[1] /\ x[2] = session[l[1]] /\ Current(x)
  BY <1>1, Pairs DEF Engines, Current
<1>7. /\ f.of[1] = x /\ f.of[2] <= engine[f.of[1]].message
      /\ OwnNamed(f) /\ (f.of \notin disturbed => WellNamed(f))
  BY <1>4 DEF SemIInv, FramesInv
<1>8. f.of \in Messages /\ f.type \in FrameTypes /\ f.id \in Ids
  BY <1>2 DEF Frame
<1>9. f.of = <<f.of[1], f.of[2]>> /\ f.of[2] \in Int
  BY <1>8, Pairs
<1>10. DOMAIN outgoing'[l] = 1..(Len(outgoing[l]) - 1)
  BY <1>2, <1>5, LenProperties
<1>11. ASSUME NEW j \in 1..(Len(outgoing[l]) - 1)
       PROVE  j + 1 \in DOMAIN outgoing[l] /\ outgoing'[l][j] = outgoing[l][j + 1]
  BY <1>2, <1>3, <1>5
<1> HIDE DEF f, x
<1>12. /\ f \in Frame /\ f = outgoing[l][1] /\ 1 \in DOMAIN outgoing[l]
       /\ l[1] \in Conversations /\ x \in Engines /\ Current(x)
       /\ f.of \in Messages /\ f.of[1] = x /\ f.of = <<x, f.of[2]>> /\ f.of[2] \in Int
       /\ f.of[2] <= engine[x].message
       /\ OwnNamed(f) /\ (f.of \notin disturbed => WellNamed(f))
       /\ f.type \in FrameTypes /\ f.id \in Ids
  BY <1>2, <1>4, <1>6, <1>7, <1>8, <1>9
<1>13. outgoing'[l] \in Seq(Frame) /\ Len(outgoing'[l]) = Len(outgoing[l]) - 1
  BY <1>2, <1>5
<1> QED
  BY <1>1, <1>3, <1>4, <1>5, <1>10, <1>11, <1>12, <1>13 DEF f, x

LEMMA AppendIs ==
  ASSUME NEW S, NEW s \in Seq(S), NEW e \in S, NEW t \in Seq(S), Len(t) = Len(s) + 1,
         \A i \in 1..Len(s) : t[i] = s[i], t[Len(t)] = e
  PROVE  Append(s, e) = t
<1>1. /\ Append(s, e) \in Seq(S) /\ Len(Append(s, e)) = Len(s) + 1
      /\ \A i \in 1..Len(s) : Append(s, e)[i] = s[i]
      /\ Append(s, e)[Len(s) + 1] = e
  BY AppendProperties
<1>2. ASSUME NEW i \in 1..Len(t) PROVE Append(s, e)[i] = t[i]
  <2>1. Len(s) \in Nat
    BY LenProperties
  <2> QED
    BY <1>1, <2>1
<1> QED
  BY <1>1, <1>2, SeqEqual

LEMMA Appended ==
  /\ \A a : Append(<< >>, a) = <<a>>
  /\ \A a, b : Append(<<a>>, b) = <<a, b>>
  /\ \A a, b, c : Append(<<a, b>>, c) = <<a, b, c>>
  /\ \A a, b, c, d : Append(<<a, b, c>>, d) = <<a, b, c, d>>
<1>1. ASSUME NEW a PROVE Append(<< >>, a) = <<a>>
  OBVIOUS
<1>2. ASSUME NEW a, NEW b PROVE Append(<<a>>, b) = <<a, b>>
  <2> DEFINE S == {a, b}
             s == <<a>>
             t == <<a, b>>
  <2>1. s \in Seq(S) /\ t \in Seq(S) /\ b \in S
    OBVIOUS
  <2>2. Len(s) = 1 /\ Len(t) = 2 /\ (\A i \in 1..1 : t[i] = s[i]) /\ t[2] = b
    OBVIOUS
  <2> HIDE DEF S, s, t
  <2>3. Len(t) = Len(s) + 1 /\ (\A i \in 1..Len(s) : t[i] = s[i]) /\ t[Len(t)] = b
    BY <2>2
  <2>4. Append(s, b) = t
    BY <2>1, <2>3, AppendIs
  <2> QED
    BY <2>4 DEF s, t
<1>3. ASSUME NEW a, NEW b, NEW c PROVE Append(<<a, b>>, c) = <<a, b, c>>
  <2> DEFINE S == {a, b, c}
             s == <<a, b>>
             t == <<a, b, c>>
  <2>1. s \in Seq(S) /\ t \in Seq(S) /\ c \in S
    OBVIOUS
  <2>2. Len(s) = 2 /\ Len(t) = 3 /\ (\A i \in 1..2 : t[i] = s[i]) /\ t[3] = c
    OBVIOUS
  <2> HIDE DEF S, s, t
  <2>3. Len(t) = Len(s) + 1 /\ (\A i \in 1..Len(s) : t[i] = s[i]) /\ t[Len(t)] = c
    BY <2>2
  <2>4. Append(s, c) = t
    BY <2>1, <2>3, AppendIs
  <2> QED
    BY <2>4 DEF s, t
<1>4. ASSUME NEW a, NEW b, NEW c, NEW d PROVE Append(<<a, b, c>>, d) = <<a, b, c, d>>
  <2> DEFINE S == {a, b, c, d}
             s == <<a, b, c>>
             t == <<a, b, c, d>>
  <2>1. s \in Seq(S) /\ t \in Seq(S) /\ d \in S
    OBVIOUS
  <2>2. Len(s) = 3 /\ Len(t) = 4 /\ (\A i \in 1..3 : t[i] = s[i]) /\ t[4] = d
    OBVIOUS
  <2> HIDE DEF S, s, t
  <2>3. Len(t) = Len(s) + 1 /\ (\A i \in 1..Len(s) : t[i] = s[i]) /\ t[Len(t)] = d
    BY <2>2
  <2>4. Append(s, d) = t
    BY <2>1, <2>3, AppendIs
  <2> QED
    BY <2>4 DEF s, t
<1> QED
  BY <1>1, <1>2, <1>3, <1>4

LEMMA ShownGrows ==
  ASSUME NEW tool, NEW shown
  PROVE  LET r == ResultOf(tool)
         IN  /\ shown = << >> => Append(shown, "tool.start") = <<"tool.start">>
             /\ shown = <<"tool.start">> =>
                  Append(shown, "tool.delta") = <<"tool.start", "tool.delta">>
             /\ shown \in Executed => Append(shown, r) \in Resulted(r)
             /\ shown \in Resulted(r) => Append(shown, "tool.done") \in Over(r)
             /\ <<"tool.start">> \in Shown(tool) /\ <<"tool.start", "tool.delta">> \in Shown(tool)
             /\ Resulted(r) \subseteq Shown(tool) /\ Over(r) \subseteq Shown(tool)
<1>1. PICK r : r = ResultOf(tool)
  OBVIOUS
<1>2. shown = << >> => Append(shown, "tool.start") = <<"tool.start">>
  BY Appended
<1>3. shown = <<"tool.start">> => Append(shown, "tool.delta") = <<"tool.start", "tool.delta">>
  BY Appended
<1>4. shown \in Executed => Append(shown, r) \in Resulted(r)
  BY Appended DEF Executed, Resulted
<1>5. shown \in Resulted(r) => Append(shown, "tool.done") \in Over(r)
  <2>1. shown = <<"tool.start", r>> =>
          Append(shown, "tool.done") = <<"tool.start", r, "tool.done">>
    BY Appended
  <2>2. shown = <<"tool.start", "tool.delta", r>> =>
          Append(shown, "tool.done") = <<"tool.start", "tool.delta", r, "tool.done">>
    BY Appended
  <2> QED
    BY <2>1, <2>2 DEF Resulted, Over
<1>6. /\ <<"tool.start">> \in Shown(tool) /\ <<"tool.start", "tool.delta">> \in Shown(tool)
      /\ Resulted(r) \subseteq Shown(tool) /\ Over(r) \subseteq Shown(tool)
  BY <1>1 DEF Shown, Executed
<1> QED
  BY <1>1, <1>2, <1>3, <1>4, <1>5, <1>6

(* The view the clients have of the call that the frame belongs to, if the *)
(* engine is followed: the consumer is the only one.                       *)
LEMMA DeliverShows ==
  ASSUME SemIInv, NEW l \in Slots, Deliver(l),
         NEW x, x = <<l[1], session[l[1]]>>, Followed(x)
  PROVE  /\ CallFollows(x)' /\ calls'[At(x)] \in Shown(engine[x].tool)
         /\ engine[x].call = "none" => calls'[At(x)] = << >>
<1> DEFINE shown == calls[At(x)]
           tool == engine[x].tool
           r == ResultOf(tool)
<1>1. PICK f : f = Head(outgoing[l])
  OBVIOUS
<1>2. /\ f = outgoing[l][1] /\ 1 \in DOMAIN outgoing[l]
      /\ Len(outgoing[l]) \in 1..2 /\ DOMAIN outgoing[l] = 1..Len(outgoing[l])
      /\ phase[l] # "gone" /\ x \in Engines /\ f.of \in Messages
      /\ Len(outgoing'[l]) = Len(outgoing[l]) - 1
      /\ DOMAIN outgoing'[l] = 1..(Len(outgoing[l]) - 1)
      /\ \A j \in 1..(Len(outgoing[l]) - 1) :
           j + 1 \in DOMAIN outgoing[l] /\ outgoing'[l][j] = outgoing[l][j + 1]
  BY <1>1, Delivered
<1>3. /\ calls' = IF f.type \in ToolTypes THEN [calls EXCEPT ![f.of] = Append(@, f.type)] ELSE calls
      /\ engine' = engine /\ phase' = phase
  BY <1>1 DEF Deliver, Remember, ToolTypes
<1>4. (At(x))' = At(x) /\ x[1] = l[1] /\ At(x) \in Messages
  BY <1>2, <1>3, EngineAt DEF At, Followed
<1>line. Line(x[1]) = outgoing[l] /\ Line(x[1])' = outgoing'[l]
  <2>1. Calm(x[1])
    BY <1>2 DEF SemIInv, ConsumersInv
  <2>2. SlotOf(x[1]) = l
    BY <1>2, <1>4, <2>1, TheSlot
  <2>3. SlotOf(x[1])' = l
    BY <1>3, <2>2, SameConsumers
  <2> QED
    BY <2>2, <2>3 DEF Line
<1>5. DOMAIN calls = Messages
  BY DEF SemIInv, Functions
<1>6. /\ f.type \in ToolTypes /\ f.of = At(x) => calls'[At(x)] = Append(shown, f.type)
      /\ ~(f.type \in ToolTypes /\ f.of = At(x)) => calls'[At(x)] = shown
  BY <1>3, <1>4, <1>5
<1>7. shown \in Shown(tool) /\ (engine[x].call = "none" => shown = << >>) /\ CallFollows(x)
  BY <1>2 DEF SemIInv, CallsInv, Followed
<1>8. r \in ToolTypes /\ "tool.start" \in ToolTypes /\ "tool.delta" \in ToolTypes
      /\ "tool.done" \in ToolTypes
  BY DEF ToolTypes, ResultOf
<1>9. ASSUME Quiet(x)
      PROVE  /\ Quiet(x)' /\ calls'[At(x)] = shown
             /\ \A type \in ToolTypes : ~Waiting1(x, type)
             /\ \A type \in ToolTypes : \A second : ~Waiting2(x, type, second)
  <2>1. f.of = At(x) => f.type \notin ToolTypes
    BY <1>2, <1>line, <1>4, <1>9 DEF Quiet
  <2>2. Quiet(x)'
    <3>1. ASSUME NEW j \in DOMAIN outgoing'[l], outgoing'[l][j].of = At(x)
          PROVE  outgoing'[l][j].type \notin ToolTypes
      <4>1. j + 1 \in DOMAIN outgoing[l] /\ outgoing'[l][j] = outgoing[l][j + 1]
        BY <1>2
      <4> QED
        BY <1>line, <1>9, <3>1, <4>1 DEF Quiet
    <3> QED
      BY <1>line, <1>4, <3>1 DEF Quiet
  <2>3. calls'[At(x)] = shown
    BY <1>6, <2>1
  <2>4. \A type \in ToolTypes : ~Waiting1(x, type)
    BY <1>2, <1>line, <2>1 DEF Waiting1
  <2>5. \A type \in ToolTypes : \A second : ~Waiting2(x, type, second)
    BY <1>2, <1>line, <2>1 DEF Waiting2
  <2> QED
    BY <2>2, <2>3, <2>4, <2>5
<1>10. ASSUME NEW type \in ToolTypes, Waiting1(x, type)
       PROVE  Quiet(x)' /\ calls'[At(x)] = Append(shown, type)
  <2>1. Len(outgoing[l]) = 1 /\ f.type = type /\ f.of = At(x)
    BY <1>2, <1>line, <1>4, <1>10 DEF Waiting1
  <2>2. DOMAIN outgoing'[l] = {}
    BY <1>2, <2>1
  <2> QED
    BY <1>line, <1>4, <1>6, <2>1, <2>2 DEF Quiet
<1>11. ASSUME NEW type \in ToolTypes, Waiting2(x, type, "tool.done")
       PROVE  Waiting1(x, "tool.done")' /\ calls'[At(x)] = Append(shown, type)
  <2>1. /\ Len(outgoing[l]) = 2 /\ f.type = type /\ f.of = At(x)
        /\ outgoing[l][2].type = "tool.done" /\ outgoing[l][2].of = At(x)
    BY <1>2, <1>line, <1>4, <1>11 DEF Waiting2
  <2>2. Len(outgoing'[l]) = 1 /\ outgoing'[l][1] = outgoing[l][2]
    <3>1. 1 \in 1..(Len(outgoing[l]) - 1) /\ 1 + 1 = 2 /\ Len(outgoing[l]) - 1 = 1
      BY <2>1
    <3> QED
      BY <1>2, <3>1
  <2> QED
    BY <1>line, <1>4, <1>6, <2>1, <2>2 DEF Waiting1
<1>12. CASE engine[x].call = "none"
  BY <1>3, <1>4, <1>7, <1>9, <1>12 DEF CallFollows
<1>13. CASE engine[x].call = "requested"
  BY <1>3, <1>4, <1>7, <1>8, <1>9, <1>10, <1>13, ShownGrows DEF CallFollows
<1>14. CASE engine[x].call = "running"
  BY <1>3, <1>4, <1>7, <1>8, <1>9, <1>10, <1>14, ShownGrows DEF CallFollows
<1>15. CASE engine[x].call = "done"
  <2>1. (engine[x].tool)' = tool /\ (engine[x].call)' = "done"
    BY <1>3, <1>15
  <2>2. CASE Waiting2(x, r, "tool.done") /\ shown \in Executed
    <3>1. Waiting1(x, "tool.done")' /\ calls'[At(x)] \in Resulted(r)
      <4>1. Append(shown, r) \in Resulted(r)
        BY <2>2, ShownGrows
      <4>2. Waiting1(x, "tool.done")' /\ calls'[At(x)] = Append(shown, r)
        BY <1>8, <1>11, <2>2
      <4> QED
        BY <4>1, <4>2
    <3> QED
      BY <1>4, <1>15, <2>1, <3>1, ShownGrows DEF CallFollows
  <2>3. CASE Waiting1(x, "tool.done") /\ shown \in Resulted(r)
    <3>1. Quiet(x)' /\ calls'[At(x)] \in Over(r)
      <4>1. Append(shown, "tool.done") \in Over(r)
        BY <2>3, ShownGrows
      <4>2. Quiet(x)' /\ calls'[At(x)] = Append(shown, "tool.done")
        BY <1>8, <1>10, <2>3
      <4> QED
        BY <4>1, <4>2
    <3> QED
      BY <1>4, <1>15, <2>1, <3>1, ShownGrows DEF CallFollows
  <2>4. CASE Quiet(x) /\ shown \in Over(r)
    <3>1. Quiet(x)' /\ calls'[At(x)] \in Over(r)
      BY <1>9, <2>4
    <3> QED
      BY <1>4, <1>15, <2>1, <3>1, ShownGrows DEF CallFollows
  <2> QED
    BY <1>7, <1>15, <2>2, <2>3, <2>4 DEF CallFollows
<1>16. engine[x].call \in {"none", "requested", "running", "done"}
  BY <1>2, EngineAt DEF EngineStates
<1> QED
  BY <1>12, <1>13, <1>14, <1>15, <1>16

LEMMA DeliverStep ==
  ASSUME SemIInv, NEW l \in Slots, Deliver(l)
  PROVE  SemIInv'
<1>c. PICK c : c = l[1]
  OBVIOUS
<1>1. PICK f : f = Head(outgoing[l])
  OBVIOUS
<1>2. PICK x : x = <<l[1], session[l[1]]>>
  OBVIOUS
<1> DEFINE Marks == FrameTypes \cup {""}
<1>3. /\ c \in Conversations /\ phase[l] # "gone"
      /\ f \in Frame /\ outgoing[l] \in Seq(Frame) /\ Len(outgoing[l]) \in 1..2
      /\ x \in Engines /\ Current(x)
      /\ f.of \in Messages /\ f.of[1] = x /\ f.of = <<x, f.of[2]>> /\ f.of[2] \in Int
      /\ f.of[2] <= engine[x].message /\ OwnNamed(f) /\ (f.of \notin disturbed => WellNamed(f))
      /\ f.type \in FrameTypes /\ f.id \in Ids
      /\ outgoing'[l] \in Seq(Frame) /\ Len(outgoing'[l]) = Len(outgoing[l]) - 1
      /\ DOMAIN outgoing'[l] = 1..(Len(outgoing[l]) - 1)
      /\ \A j \in 1..(Len(outgoing[l]) - 1) :
           j + 1 \in DOMAIN outgoing[l] /\ outgoing'[l][j] = outgoing[l][j + 1]
      /\ DOMAIN outgoing' = Slots
      /\ \A k \in Slots : k # l => outgoing'[k] = outgoing[k]
  BY <1>c, <1>1, <1>2, Delivered
<1>4. /\ ids' = IF f.type \in ToolTypes \/ f.type = "log" THEN ids
                ELSE [ids EXCEPT ![f.of] = @ \cup {Base(f.id)}]
      /\ calls' = IF f.type \in ToolTypes THEN [calls EXCEPT ![f.of] = Append(@, f.type)] ELSE calls
      /\ UNCHANGED <<translator, pagers, session, phase, inbox, engine, published, disturbed>>
  BY <1>1 DEF Deliver, Remember, ToolTypes
<1> HIDE DEF Marks
<1>5. /\ semBuf' = [semBuf EXCEPT ![c] = Trimmed(Append(@, Len(sent[c]) + 1))]
      /\ \E type \in Marks : sent' = [sent EXCEPT ![c] = Append(@, type)]
  BY <1>c, <1>1, <1>3 DEF Deliver, Marks
<1>6. /\ DOMAIN sent = Conversations /\ DOMAIN semBuf = Conversations
      /\ DOMAIN ids = Messages /\ DOMAIN calls = Messages
      /\ \A d \in Conversations : sent[d] \in Seq(Marks)
  BY DEF SemIInv, SemTypeOK, Functions, Marks
<1>7. /\ DOMAIN sent' = Conversations /\ DOMAIN semBuf' = Conversations
      /\ sent'[c] \in Seq(Marks) /\ Len(sent'[c]) = Len(sent[c]) + 1
      /\ Len(sent[c]) \in Nat /\ Len(sent'[c]) \in Nat /\ DOMAIN sent[c] \subseteq DOMAIN sent'[c]
      /\ \A d \in Conversations : d # c => sent'[d] = sent[d] /\ semBuf'[d] = semBuf[d]
  <2>1. PICK type \in Marks : sent' = [sent EXCEPT ![c] = Append(@, type)]
    BY <1>5
  <2>2. sent'[c] = Append(sent[c], type)
    BY <1>3, <1>6, <2>1
  <2>3. sent'[c] \in Seq(Marks) /\ Len(sent'[c]) = Len(sent[c]) + 1
    BY <1>3, <1>6, <2>2, AppendProperties
  <2>4. /\ Len(sent[c]) \in Nat /\ Len(sent'[c]) \in Nat /\ DOMAIN sent[c] = 1..Len(sent[c])
        /\ DOMAIN sent'[c] = 1..Len(sent'[c])
    BY <1>3, <1>6, <2>3, LenProperties
  <2> QED
    BY <1>5, <1>6, <2>1, <2>3, <2>4
<1>8. /\ semBuf'[c] = Ring(Len(sent'[c])) /\ \A d \in Conversations : semBuf[d] = Ring(Len(sent[d]))
      /\ \A d \in Conversations : Len(sent[d]) \in Nat
  <2>1. \A d \in Conversations : Len(sent[d]) \in Nat
    BY <1>6, LenProperties
  <2>2. \A d \in Conversations : semBuf[d] = Ring(Len(sent[d]))
    BY <2>1, RingHolds DEF SemIInv
  <2>3. PICK n \in Nat, m \in Nat : n = Len(sent[c]) /\ m = Len(sent'[c]) /\ m = n + 1
    BY <1>7
  <2>4. Trimmed(Append(Ring(n), m)) = Ring(m)
    BY <2>3, RingStep, RingHoldsLast
  <2>5. semBuf'[c] = Trimmed(Append(semBuf[c], m))
    BY <1>3, <1>5, <1>6, <1>7, <2>3
  <2> QED
    BY <1>3, <2>1, <2>2, <2>3, <2>4, <2>5
<1>9. \A d \in Conversations : Len(sent'[d]) \in Nat /\ semBuf'[d] = Ring(Len(sent'[d]))
  BY <1>7, <1>8
<1>10. RingInv'
  BY <1>9, RingIs DEF RingInv
<1>11. \/ OwnId(x, Base(f.id)) /\ Base(f.id) \in Ids
       \/ f.type \in ToolTypes \/ f.type = "log"
  <2>1. ASSUME OwnId(x, Base(f.id)) PROVE Base(f.id) \in Ids
    BY <1>3, <2>1, IdsHave DEF OwnId
  <2> QED
    BY <1>3, <2>1 DEF OwnNamed
<1>12. MessagesKeepTheirIds' /\ OwnIds'
  <2>1. ASSUME NEW m \in Messages \ disturbed PROVE ids'[m] \subseteq {IdOf(m)}
    <3>1. ids[m] \subseteq {IdOf(m)}
      BY DEF SemIInv, MessagesKeepTheirIds, IdOf
    <3>2. f.of = m => Base(f.id) = IdOf(m) \/ f.type \in ToolTypes \/ f.type = "log"
      BY <1>3 DEF WellNamed
    <3>3. ids'[m] = ids[m] \/ (f.of = m /\ ids'[m] = ids[m] \cup {IdOf(m)})
      BY <1>3, <1>4, <1>6, <3>2
    <3> QED
      BY <3>1, <3>3
  <2>2. ASSUME NEW m \in Messages, NEW i \in ids'[m]
        PROVE  i \in ids[m] \/ (m = f.of /\ m[1] = x /\ OwnId(x, i))
    <3>1. CASE f.type \in ToolTypes \/ f.type = "log"
      BY <1>4, <2>2, <3>1
    <3>2. CASE ~(f.type \in ToolTypes \/ f.type = "log")
      <4>1. ids'[m] = IF f.of = m THEN ids[m] \cup {Base(f.id)} ELSE ids[m]
        BY <1>3, <1>4, <1>6, <3>2
      <4>2. OwnId(x, Base(f.id))
        BY <1>11, <3>2
      <4> QED
        BY <1>3, <2>2, <4>1, <4>2
    <3> QED
      BY <3>1, <3>2
  <2>3. ASSUME NEW m \in Messages, m[1] = x, NEW i, OwnId(x, i)
        PROVE  i \in {<<"llm", m[1]>>}
                     \cup {<<"id", n>> : n \in {k \in Messages : k[1] = m[1] /\ k[1][1] \in Naming}}
    <3>1. CASE i = <<"llm", x>>
      BY <2>3, <3>1
    <3>2. CASE i # <<"llm", x>>
      <4>1. x[1] \in Naming /\ \E k \in 1..MaxMessages : i = <<"id", <<x, k>>>>
        BY <2>3, <3>2 DEF OwnId
      <4>2. PICK k \in 1..MaxMessages : i = <<"id", <<x, k>>>>
        BY <4>1
      <4>3. <<x, k>> \in Messages /\ <<x, k>>[1] = x
        BY <1>3, Pairs
      <4> QED
        BY <2>3, <4>1, <4>2, <4>3
    <3> QED
      BY <3>1, <3>2
  <2>4. OwnIds'
    BY <2>2, <2>3 DEF SemIInv, OwnIds
  <2> QED
    BY <1>4, <2>1, <2>4 DEF MessagesKeepTheirIds, IdOf
<1>13. SemTypeOK'
  <2>1. \A m \in Messages : ids'[m] \subseteq Ids
    <3>1. \A m \in Messages : ids[m] \subseteq Ids
      BY DEF SemIInv, SemTypeOK
    <3>2. CASE f.type \in ToolTypes \/ f.type = "log"
      BY <1>4, <3>1, <3>2
    <3>3. CASE ~(f.type \in ToolTypes \/ f.type = "log")
      <4>1. Base(f.id) \in Ids /\ ids' = [ids EXCEPT ![f.of] = @ \cup {Base(f.id)}]
        BY <1>4, <1>11, <3>3
      <4> QED
        BY <1>3, <1>6, <3>1, <4>1
    <3> QED
      BY <3>2, <3>3
  <2>2. \A m \in Messages : calls'[m] \in Seq(FrameTypes)
    <3>1. \A m \in Messages : calls[m] \in Seq(FrameTypes)
      BY DEF SemIInv, SemTypeOK
    <3>2. Append(calls[f.of], f.type) \in Seq(FrameTypes)
      BY <1>3, <3>1, AppendProperties
    <3> QED
      BY <1>3, <1>4, <1>6, <3>1, <3>2
  <2>3. \A k \in Slots : outgoing'[k] \in Seq(Frame) /\ Len(outgoing'[k]) <= 2
    <3>1. \A k \in Slots : outgoing[k] \in Seq(Frame) /\ Len(outgoing[k]) <= 2
      BY DEF SemIInv, SemTypeOK
    <3>2. Len(outgoing'[l]) <= 2
      BY <1>3
    <3> QED
      BY <1>3, <3>1, <3>2
  <2>4. \A d \in Conversations : /\ sent'[d] \in Seq(Marks)
                                 /\ semBuf'[d] \in Seq(Nat \ {0}) /\ Len(semBuf'[d]) <= RingSize
    <3>1. \A d \in Conversations : sent'[d] \in Seq(Marks)
      BY <1>6, <1>7
    <3>2. \A n \in Nat : Ring(n) \in Seq(Nat \ {0}) /\ Len(Ring(n)) <= RingSize
      BY RingIs
    <3> QED
      BY <1>9, <3>1, <3>2
  <2>5. \A p \in Pagers : got'[p] \subseteq DOMAIN sent'[p[1]]
    <3>1. \A p \in Pagers : p[1] \in Conversations /\ got[p] \subseteq DOMAIN sent[p[1]]
      BY TranslatorAssumption DEF SemIInv, SemTypeOK
    <3> QED
      BY <1>4, <1>7, <3>1 DEF pagers
  <2> QED
    BY <1>4, <2>1, <2>2, <2>3, <2>4, <2>5 DEF SemIInv, SemTypeOK, translator, pagers, Marks
<1>14. Functions'
  BY <1>3, <1>4, <1>6, <1>7 DEF SemIInv, Functions, pagers
<1>15. \A y \in Engines : /\ (At(y))' = At(y) /\ NameOf(y)' = NameOf(y)
                          /\ (Current(y)' <=> Current(y)) /\ (Followed(y)' <=> Followed(y))
  BY <1>4 DEF At, NameOf, Current, Followed
<1>16. EnginesInv'
  BY <1>4 DEF SemIInv, EnginesInv
<1>17. CacheInv'
  BY <1>4, <1>15 DEF SemIInv, CacheInv, translator
<1>18. FramesInv'
  <2> SUFFICES ASSUME NEW k \in Slots, NEW j \in DOMAIN outgoing'[k]
               PROVE  /\ outgoing'[k][j].of[1] = <<k[1], session[k[1]]>>
                      /\ outgoing'[k][j].of[2] <= engine[outgoing'[k][j].of[1]].message
                      /\ OwnNamed(outgoing'[k][j])
                      /\ outgoing'[k][j].of \notin disturbed => WellNamed(outgoing'[k][j])
    BY <1>4 DEF FramesInv, WellNamed, OwnNamed, OwnId
  <2>1. \E i \in DOMAIN outgoing[k] : outgoing'[k][j] = outgoing[k][i]
    BY <1>3
  <2> QED
    BY <2>1 DEF SemIInv, FramesInv
<1>19. ConsumersInv'
  <2>1. \A k \in Slots : phase[k] = "gone" => inbox[k] = {} /\ outgoing'[k] = << >>
    BY <1>3 DEF SemIInv, ConsumersInv
  <2>2. ASSUME NEW k \in Slots, NEW e \in inbox[k] PROVE Pending(e, k[1])'
    <3>1. Pending(e, k[1])
      BY DEF SemIInv, ConsumersInv
    <3> QED
      BY <1>4, <3>1 DEF Pending, MayName
  <2>3. ASSUME NEW y \in Engines, Followed(y) PROVE Calm(y[1])'
    <3>1. Calm(y[1])
      BY <2>3 DEF SemIInv, ConsumersInv
    <3> QED
      BY <1>4, <3>1, SameConsumers
  <2> QED
    BY <1>4, <1>15, <2>1, <2>2, <2>3 DEF ConsumersInv
<1>20. CallsInv'
  <2>1. ASSUME NEW y \in Engines, y # x
        PROVE  /\ \A n \in 1..MaxMessages : calls'[<<y, n>>] = calls[<<y, n>>]
               /\ engine[y].message > 0 => calls'[At(y)] = calls[At(y)]
    <3>1. \A n : f.of # <<y, n>>
      BY <1>3, <2>1
    <3>2. \A n \in 1..MaxMessages : <<y, n>> \in Messages
      BY Pairs
    <3>3. engine[y].message > 0 => engine[y].message \in 1..MaxMessages
      BY EngineAt, EngineFields
    <3> QED
      BY <1>4, <1>6, <3>1, <3>2, <3>3 DEF At
  <2>2. ASSUME NEW y \in Engines, y # x, Followed(y) PROVE CallFollows(y)'
    <3>1. y[1] # l[1] /\ CallFollows(y) /\ Calm(y[1])
      BY <1>2, <2>2, Pairs DEF Current, Followed, SemIInv, CallsInv, ConsumersInv
    <3>2. /\ SlotOf(y[1]) \in Slots /\ SlotOf(y[1])[1] = y[1]
          /\ SlotOf(y[1])' = SlotOf(y[1])
      BY <1>4, <3>1, TheSlot, SameConsumers
    <3>3. Line(y[1])' = Line(y[1])
      BY <1>3, <3>1, <3>2 DEF Line
    <3>4. calls'[At(y)] = calls[At(y)] /\ engine'[y] = engine[y]
      BY <1>4, <2>1, <2>2 DEF Followed
    <3> QED
      BY <3>1, <3>2, <3>3, <3>4, SameLine
  <2>3. \A n \in 1..MaxMessages : n > engine[x].message => calls'[<<x, n>>] = calls[<<x, n>>]
    <3>1. ASSUME NEW n \in 1..MaxMessages, n > engine[x].message PROVE f.of # <<x, n>>
      <4>1. engine[x].message \in Int
        BY <1>3, EngineAt, EngineFields
      <4> QED
        BY <1>3, <3>1, <4>1
    <3> QED
      BY <1>3, <1>4, <1>6, <3>1, Pairs
  <2>4. Followed(x) => /\ CallFollows(x)' /\ calls'[At(x)] \in Shown(engine[x].tool)
                       /\ engine[x].call = "none" => calls'[At(x)] = << >>
    BY <1>2, DeliverShows
  <2>5. ASSUME NEW y \in Engines
        PROVE  /\ \A n \in 1..MaxMessages : n > engine[y].message => calls'[<<y, n>>] = << >>
               /\ engine[y].message > 0 /\ At(y) \notin disturbed =>
                    /\ calls'[At(y)] \in Shown(engine[y].tool)
                    /\ engine[y].call = "none" => calls'[At(y)] = << >>
               /\ Followed(y) => CallFollows(y)'
    <3>1. CASE y = x
      <4>1. engine[y].message > 0 /\ At(y) \notin disturbed => Followed(x)
        BY <1>3, <3>1 DEF Followed
      <4> QED
        BY <2>3, <2>4, <3>1, <4>1 DEF SemIInv, CallsInv
    <3>2. CASE y # x
      BY <2>1, <2>2, <3>2 DEF SemIInv, CallsInv
    <3> QED
      BY <3>1, <3>2
  <2> QED
    BY <1>4, <1>15, <2>5 DEF CallsInv
<1> QED
  BY <1>10, <1>12, <1>13, <1>14, <1>16, <1>17, <1>18, <1>19, <1>20 DEF SemIInv

-----------------------------------------------------------------------------
(* New objects, a restart *)

(* What becomes of the caches.                                             *)
CachesKept(renewed) ==
  \/ UNCHANGED translator
  \/ /\ renewed = Conversations
     /\ messageIDs' = [x \in Engines |-> NoId]
     /\ toolCallCache' = [m \in Messages |-> ""]

LEMMA RenewStep ==
  ASSUME SemIInv, NEW renewed \in SUBSET Conversations, Renew(renewed), CachesKept(renewed),
         phase' \in [Slots -> {"gone", "running", "leaving", "orphan"}],
         \A l \in Slots : l[1] \notin renewed => phase'[l] = phase[l],
         UNCHANGED inbox \/ inbox' = [l \in Slots |-> {}],
         \A l \in Slots : phase'[l] = "gone" => inbox'[l] = {}
  PROVE  SemIInv'
<1> DEFINE Marks == FrameTypes \cup {""}
<1>1. /\ session \in [Conversations -> 1..MaxSessions] /\ engine \in [Engines -> EngineStates]
      /\ \A c \in Conversations : session[c] \in Int
      /\ \A x \in Engines : x[1] \in Conversations /\ x[2] \in Int
      /\ \A p \in Pagers : p[1] \in Conversations
  <2>1. session \in [Conversations -> 1..MaxSessions] /\ engine \in [Engines -> EngineStates]
    BY DEF SemIInv, SemTypeOK, EngineStates
  <2>2. \A x \in Engines : x[1] \in Conversations /\ x[2] \in Int
    BY Pairs
  <2>3. \A p \in Pagers : p[1] \in Conversations
    BY TranslatorAssumption
  <2> QED
    BY <2>1, <2>2, <2>3
<1>2. /\ engine' = engine /\ published' = published /\ ids' = ids /\ calls' = calls
      /\ \A c \in renewed : session[c] < MaxSessions
      /\ session' = [c \in Conversations |-> IF c \in renewed THEN session[c] + 1 ELSE session[c]]
      /\ disturbed' = disturbed /\ disturbed \subseteq Messages
      /\ outgoing' = [l \in Slots |-> IF l[1] \in renewed THEN << >> ELSE outgoing[l]]
      /\ sent' = [c \in Conversations |-> IF c \in renewed THEN << >> ELSE sent[c]]
      /\ semBuf' = [c \in Conversations |-> IF c \in renewed THEN << >> ELSE semBuf[c]]
      /\ cursor' = [p \in Pagers |-> IF p[1] \in renewed THEN 0 ELSE cursor[p]]
      /\ got' = [p \in Pagers |-> IF p[1] \in renewed THEN {} ELSE got[p]]
      /\ repeated' = {p \in repeated : p[1] \notin renewed}
  BY DEF Renew, history, SemIInv, SemTypeOK
<1>3. session' \in [Conversations -> 1..MaxSessions]
  <2>1. \A c \in renewed : session[c] + 1 \in 1..MaxSessions
    BY <1>1, <1>2, Positive
  <2> QED
    BY <1>1, <1>2, <2>1
<1>inbox. /\ inbox' \in [Slots -> SUBSET Event]
          /\ \A l \in Slots : Cardinality(inbox'[l]) <= 1 /\ inbox'[l] \subseteq inbox[l]
  <2>1. /\ inbox \in [Slots -> SUBSET Event]
        /\ \A l \in Slots : Cardinality(inbox[l]) <= 1
    BY DEF SemIInv, SemTypeOK
  <2>2. Cardinality({}) <= 1
    BY FS_EmptySet
  <2>3. CASE UNCHANGED inbox
    BY <2>1, <2>3
  <2>4. CASE inbox' = [l \in Slots |-> {}]
    BY <2>1, <2>2, <2>4
  <2> QED
    BY <2>3, <2>4
(* The engine of the new session has not begun.                            *)
<1>4. ASSUME NEW x \in Engines
      PROVE  /\ x[1] \notin renewed => (Current(x)' <=> Current(x))
             /\ x[1] \in renewed /\ Current(x)' => x[2] > session[x[1]] /\ engine[x] = Fresh(0)
             /\ x[2] > session'[x[1]] => x[2] > session[x[1]]
             /\ (At(x))' = At(x) /\ NameOf(x)' = NameOf(x)
  <2>1. session'[x[1]] = IF x[1] \in renewed THEN session[x[1]] + 1 ELSE session[x[1]]
    BY <1>1, <1>2
  <2>2. x[1] \in renewed /\ Current(x)' => x[2] > session[x[1]]
    BY <1>1, <2>1 DEF Current
  <2>3. x[2] > session'[x[1]] => x[2] > session[x[1]]
    BY <1>1, <2>1
  <2> QED
    BY <1>2, <2>1, <2>2, <2>3 DEF Current, At, NameOf, SemIInv, EnginesInv
<1>5. ASSUME NEW x \in Engines, Followed(x)'
      PROVE  x[1] \notin renewed /\ Followed(x) /\ Current(x)
  <2>1. Fresh(0).message = 0
    BY DEF Fresh
  <2>2. engine[x].message > 0 /\ Current(x)'
    BY <1>2, <1>5 DEF Followed
  <2>3. x[1] \notin renewed
    BY <1>4, <2>1, <2>2
  <2> QED
    BY <1>2, <1>4, <1>5, <2>3 DEF Followed
<1>6. SemTypeOK'
  <2>1. << >> \in Seq(Frame) /\ << >> \in Seq(Marks) /\ << >> \in Seq(Nat \ {0}) /\ Len(<< >>) = 0
    OBVIOUS
  <2>2. 0 <= RingSize /\ 0 <= 2 /\ 0 \in 0..RingSize
    BY Positive
  <2>3. \A l \in Slots : outgoing[l] \in Seq(Frame) /\ Len(outgoing[l]) <= 2
    BY DEF SemIInv, SemTypeOK
  <2>old. \A c \in Conversations :
          /\ sent[c] \in Seq(Marks)
          /\ semBuf[c] \in Seq(Nat \ {0}) /\ Len(semBuf[c]) <= RingSize
    BY DEF SemIInv, SemTypeOK
  <2>4. \A l \in Slots : outgoing'[l] \in Seq(Frame) /\ Len(outgoing'[l]) <= 2
    BY <1>2, <2>1, <2>2, <2>3
  <2>new. \A c \in Conversations :
          /\ sent'[c] \in Seq(Marks)
          /\ semBuf'[c] \in Seq(Nat \ {0}) /\ Len(semBuf'[c]) <= RingSize
    BY <1>2, <2>1, <2>2, <2>old
  <2>5. cursor' \in [Pagers -> 0..RingSize]
    BY <1>2, <2>2 DEF SemIInv, SemTypeOK
  <2>6. \A p \in Pagers : got'[p] \subseteq DOMAIN sent'[p[1]]
    BY <1>1, <1>2 DEF SemIInv, SemTypeOK
  <2>7. messageIDs' \in [Engines -> Ids] /\ toolCallCache' \in [Messages -> Tools \cup {""}]
    <3>1. messageIDs \in [Engines -> Ids] /\ toolCallCache \in [Messages -> Tools \cup {""}]
      BY DEF SemIInv, SemTypeOK
    <3>2. CASE UNCHANGED translator
      BY <3>1, <3>2 DEF translator
    <3>3. CASE messageIDs' = [x \in Engines |-> NoId] /\ toolCallCache' = [m \in Messages |-> ""]
      <4>1. NoId \in Ids
        BY DEF Ids
      <4> QED
        BY <3>3, <4>1
    <3> QED
      BY <3>2, <3>3 DEF CachesKept
  <2>8. repeated' \subseteq Pagers
    BY <1>2 DEF SemIInv, SemTypeOK
  <2> QED
    BY <1>2, <1>3, <1>inbox, <2>4, <2>new, <2>5, <2>6, <2>7, <2>8 DEF SemIInv, SemTypeOK
<1>7. Functions'
  BY <1>2 DEF SemIInv, Functions
<1>8. EnginesInv'
  BY <1>2, <1>4 DEF SemIInv, EnginesInv
<1>9. CacheInv'
  <2>1. ASSUME NEW x \in Engines
        PROVE  /\ messageIDs'[x] \in {NoId, <<"llm", x>>} \cup {<<"id", <<x, k>>>> : k \in 1..MaxMessages}
               /\ x[1] \notin Naming => messageIDs'[x] \in {NoId, <<"llm", x>>}
    BY DEF CachesKept, translator, SemIInv, CacheInv
  <2>2. ASSUME NEW x \in Engines, Followed(x)'
        PROVE  /\ x[1] \in Naming /\ Ongoing(engine[x]) => messageIDs'[x] = NameOf(x)
               /\ engine[x].call \in {"requested", "running"} =>
                    toolCallCache'[At(x)] = engine[x].tool
    <3>1. Followed(x) /\ x[1] \notin renewed
      BY <1>5, <2>2
    <3>2. UNCHANGED translator
      BY <1>1, <3>1 DEF CachesKept
    <3> QED
      BY <3>1, <3>2 DEF translator, SemIInv, CacheInv
  <2>3. ASSUME NEW x \in Engines
        PROVE  /\ x[1] \in Naming /\ Followed(x)' /\ Ongoing(engine'[x]) => messageIDs'[x] = NameOf(x)'
               /\ Followed(x)' /\ engine'[x].call \in {"requested", "running"} =>
                    toolCallCache'[(At(x))'] = engine'[x].tool
    BY <1>2, <1>4, <2>2
  <2> QED
    BY <2>1, <2>3 DEF CacheInv
<1>10. FramesInv'
  <2> SUFFICES ASSUME NEW l \in Slots, NEW j \in DOMAIN outgoing'[l]
               PROVE  /\ outgoing'[l][j].of[1] = <<l[1], session'[l[1]]>>
                      /\ outgoing'[l][j].of[2] <= engine'[outgoing'[l][j].of[1]].message
                      /\ OwnNamed(outgoing'[l][j])
                      /\ outgoing'[l][j].of \notin disturbed' => WellNamed(outgoing'[l][j])
    BY DEF FramesInv, WellNamed, OwnNamed, OwnId
  <2>1. l[1] \notin renewed /\ l[1] \in Conversations
    BY <1>2, Pairs
  <2>2. /\ outgoing'[l] = outgoing[l] /\ session'[l[1]] = session[l[1]]
        /\ engine' = engine /\ disturbed' = disturbed
    BY <1>2, <2>1
  <2> QED
    BY <2>2 DEF SemIInv, FramesInv
<1>consumers. ConsumersInv'
  <2>1. ASSUME NEW l \in Slots, phase'[l] = "gone" PROVE inbox'[l] = {} /\ outgoing'[l] = << >>
    <3>1. l[1] \notin renewed => outgoing[l] = << >>
      BY <2>1 DEF SemIInv, ConsumersInv
    <3> QED
      BY <1>2, <2>1, <3>1
  <2>2. ASSUME NEW l \in Slots, NEW e \in inbox'[l] PROVE Pending(e, l[1])'
    <3>1. e \in inbox[l] /\ e \in Event /\ Pending(e, l[1]) /\ l[1] \in Conversations
      BY <1>inbox, <2>2, Pairs DEF SemIInv, ConsumersInv
    <3>2. e.of[1][2] \in Int
      BY <1>1, <3>1, EventOf
    <3>3. session[l[1]] \in Int /\ session'[l[1]] \in {session[l[1]], session[l[1]] + 1}
      BY <1>1, <1>2, <3>1
    <3>4. e.of[1][2] <= session[l[1]] => e.of[1][2] <= session'[l[1]]
      BY <3>2, <3>3
    <3>5. e.of[1][2] < session[l[1]] => e.of[1][2] < session'[l[1]]
      BY <3>2, <3>3
    <3> QED
      BY <1>2, <3>1, <3>4, <3>5 DEF Pending, MayName
  <2>3. ASSUME NEW x \in Engines, Followed(x)' PROVE Calm(x[1])'
    <3>1. Calm(x[1]) /\ x[1] \notin renewed
      BY <1>5, <2>3 DEF SemIInv, ConsumersInv
    <3> QED
      BY <1>inbox, <3>1, SameConsumers
  <2> QED
    BY <2>1, <2>2, <2>3 DEF ConsumersInv
<1>11. CallsInv'
  <2>1. ASSUME NEW x \in Engines, Followed(x)' PROVE CallFollows(x)'
    <3>1. x[1] \notin renewed /\ Followed(x)
      BY <1>5, <2>1
    <3>2. CallFollows(x) /\ Calm(x[1])
      BY <3>1 DEF SemIInv, CallsInv, ConsumersInv
    <3>3. SlotOf(x[1]) \in Slots /\ SlotOf(x[1])[1] = x[1] /\ SlotOf(x[1])' = SlotOf(x[1])
      BY <3>1, <3>2, TheSlot, SameConsumers
    <3>4. Line(x[1])' = Line(x[1])
      BY <1>2, <3>1, <3>3 DEF Line
    <3> QED
      BY <1>2, <3>2, <3>3, <3>4, SameLine
  <2>2. ASSUME NEW x \in Engines
        PROVE  /\ \A k \in 1..MaxMessages : k > engine[x].message => calls[<<x, k>>] = << >>
               /\ engine[x].message > 0 /\ At(x) \notin disturbed =>
                    /\ calls[At(x)] \in Shown(engine[x].tool)
                    /\ engine[x].call = "none" => calls[At(x)] = << >>
    BY DEF SemIInv, CallsInv
  <2>3. ASSUME NEW x \in Engines
        PROVE  /\ \A k \in 1..MaxMessages : k > engine'[x].message => calls'[<<x, k>>] = << >>
               /\ engine'[x].message > 0 /\ (At(x))' \notin disturbed' =>
                    /\ calls'[(At(x))'] \in Shown(engine'[x].tool)
                    /\ engine'[x].call = "none" => calls'[(At(x))'] = << >>
               /\ Followed(x)' => CallFollows(x)'
    BY <1>2, <1>4, <2>1, <2>2
  <2> QED
    BY <2>3 DEF CallsInv
<1>12. MessagesKeepTheirIds' /\ OwnIds'
  BY <1>2 DEF SemIInv, MessagesKeepTheirIds, OwnIds
<1>13. RingInv'
  <2>1. \A c \in Conversations : Len(sent[c]) \in Nat
    BY LenProperties DEF SemIInv, SemTypeOK
  <2>2. \A c \in Conversations : semBuf[c] = Ring(Len(sent[c]))
    BY <2>1, RingHolds DEF SemIInv
  <2>3. Ring(0) = << >>
    <3>1. 0 \in Nat /\ 0 <= RingSize
      BY Positive
    <3>2. Ring(0) \in Seq(Nat \ {0}) /\ Len(Ring(0)) = 0
      BY <3>1, RingIs
    <3> QED
      BY <3>2, EmptySeq
  <2>4. Len(<< >>) = 0 /\ 0 \in Nat
    OBVIOUS
  <2>5. \A c \in Conversations : Len(sent'[c]) \in Nat /\ semBuf'[c] = Ring(Len(sent'[c]))
    BY <1>2, <2>1, <2>2, <2>3, <2>4
  <2>6. ASSUME NEW c \in Conversations
        PROVE  semBuf'[c] = LET kept == Min({RingSize, Len(sent'[c])})
                            IN  [i \in 1..kept |-> Len(sent'[c]) - kept + i]
    <3>1. PICK n \in Nat : n = Len(sent'[c])
      BY <2>5
    <3>2. semBuf'[c] = Ring(n)
      BY <2>5, <3>1
    <3> QED
      BY <3>1, <3>2, RingIs
  <2> QED
    BY <2>6 DEF RingInv
<1> QED
  BY <1>6, <1>7, <1>8, <1>9, <1>10, <1>consumers, <1>11, <1>12, <1>13 DEF SemIInv

LEMMA RecreateStep ==
  ASSUME SemIInv, NEW l \in Slots, Recreate(l)
  PROVE  SemIInv'
<1>1. /\ Renew({l[1]}) /\ UNCHANGED <<translator, inbox>>
      /\ phase' = [k \in Slots |-> IF k = l THEN "running"
                                   ELSE IF k[1] = l[1] /\ phase[k] # "gone" THEN "orphan"
                                   ELSE phase[k]]
  BY DEF Recreate
<1>2. phase \in [Slots -> {"gone", "running", "leaving", "orphan"}] /\ l[1] \in Conversations
  BY Pairs DEF SemIInv, SemTypeOK
<1>3. phase' \in [Slots -> {"gone", "running", "leaving", "orphan"}]
  BY <1>1, <1>2
<1>4. ASSUME NEW k \in Slots
      PROVE  /\ k[1] \notin {l[1]} => phase'[k] = phase[k]
             /\ phase'[k] = "gone" => phase[k] = "gone"
  BY <1>1
<1>5. \A k \in Slots : phase'[k] = "gone" => inbox'[k] = {}
  BY <1>1, <1>4 DEF SemIInv, ConsumersInv
<1> QED
  BY <1>1, <1>2, <1>3, <1>4, <1>5, RenewStep DEF CachesKept

LEMMA RestartStep ==
  ASSUME SemIInv, Restart
  PROVE  SemIInv'
<1>1. /\ Renew(Conversations) /\ CachesKept(Conversations) /\ inbox' = [l \in Slots |-> {}]
      /\ \E first \in Consumers : phase' = OneConsumer(first)
  BY DEF Restart, CachesKept
<1>2. phase' \in [Slots -> {"gone", "running", "leaving", "orphan"}]
  BY <1>1 DEF OneConsumer
<1>3. \A l \in Slots : l[1] \in Conversations
  BY Pairs
<1> QED
  BY <1>1, <1>2, <1>3, RenewStep

-----------------------------------------------------------------------------
(* The pages *)

(* Every set of numbers has a least, and if bounded a greatest, number.    *)
LEMMA LeastNumber ==
  ASSUME NEW T \in SUBSET Nat, T # {}
  PROVE  \E m \in T : \A n \in T : m <= n
<1> DEFINE R == OpToRel(<, Nat)
<1>1. IsWellFoundedOn(R, Nat)
  BY NatLessThanWellFounded
<1>2. \A x, y \in Nat : y < x => <<y, x>> \in R
  BY DEF OpToRel
<1> HIDE DEF R
<1>3. PICK m \in T : \A n \in T : ~(<<n, m>> \in R)
  BY <1>1, WFMin, Zenon
<1>4. \A n \in T : ~(n < m)
  BY <1>2, <1>3, Zenon
<1> QED
  BY <1>4

LEMMA GreatestNumber ==
  ASSUME NEW T \in SUBSET Nat, T # {}, NEW b \in Nat, \A n \in T : n <= b
  PROVE  \E m \in T : \A n \in T : n <= m
<1> DEFINE U == {b - n : n \in T}
<1>1. U \in SUBSET Nat /\ U # {}
  <2>1. \A n \in T : n \in Nat /\ n <= b
    OBVIOUS
  <2>2. \A n \in T : b - n \in Nat
    BY <2>1
  <2> QED
    BY <2>2
<1>2. PICK u \in U : \A w \in U : u <= w
  BY <1>1, LeastNumber
<1>3. PICK m \in T : u = b - m
  OBVIOUS
<1>4. ASSUME NEW n \in T PROVE n <= m
  <2>1. b - m <= b - n
    BY <1>2, <1>3
  <2> QED
    BY <2>1
<1> QED
  BY <1>4

(* The places of the ring a page has: wanted ones after the cursor, none   *)
(* left out before the last of them.                                       *)
Found(p) == {i \in After(p) : Wanted(p, semBuf[p[1]][i])}
Page(p) == {i \in Found(p) : Cardinality({j \in Found(p) : j <= i}) <= Limit}

LEMMA PageIs ==
  ASSUME SemIInv, NEW p \in Pagers, Page(p) # {}
  PROVE  \E m \in 1..Len(semBuf[p[1]]) :
           /\ Max(Page(p)) = m /\ m > cursor[p] /\ Wanted(p, semBuf[p[1]][m])
           /\ Page(p) = {i \in 1..m : i > cursor[p] /\ Wanted(p, semBuf[p[1]][i])}
<1> DEFINE buf == semBuf[p[1]]
           found == Found(p)
           page == Page(p)
           Upto(i) == {j \in found : j <= i}
<1>1. p[1] \in Conversations /\ buf \in Seq(Nat \ {0})
  BY TranslatorAssumption DEF SemIInv, SemTypeOK
<1>2. Len(buf) \in Nat /\ DOMAIN buf = 1..Len(buf)
  BY <1>1, LenProperties
<1>3. found = {i \in 1..Len(buf) : i > cursor[p] /\ Wanted(p, buf[i])}
  BY <1>2 DEF Found, After
<1>4. page \in SUBSET found /\ page # {}
      /\ \A i \in found : i \in page <=> Cardinality(Upto(i)) <= Limit
  BY DEF Page
<1> HIDE DEF buf, found, page
<1>5. PICK m \in page : \A i \in page : i <= m
  <2>1. page \in SUBSET Nat /\ \A i \in page : i <= Len(buf)
    BY <1>2, <1>3, <1>4
  <2> QED
    BY <1>2, <1>4, <2>1, GreatestNumber
<1>6. Max(page) = m
  BY <1>3, <1>4, <1>5, MaxIs
<1>7. m \in 1..Len(buf) /\ m > cursor[p] /\ Wanted(p, buf[m]) /\ Cardinality(Upto(m)) <= Limit
  BY <1>3, <1>4
<1>8. ASSUME NEW i \in found, i <= m PROVE i \in page
  <2>1. Upto(i) \subseteq Upto(m)
    BY <1>3, <1>7, <1>8
  <2>2. IsFiniteSet(Upto(m)) /\ IsFiniteSet(Upto(i))
    <3>1. IsFiniteSet(1..Len(buf))
      BY <1>2, FS_Interval
    <3> QED
      BY <1>3, <3>1, FS_Subset
  <2>3. Cardinality(Upto(i)) <= Cardinality(Upto(m))
    BY <2>1, <2>2, FS_Subset
  <2>4. Cardinality(Upto(i)) \in Nat /\ Cardinality(Upto(m)) \in Nat
    BY <2>2, FS_CardinalityType
  <2> QED
    BY <1>4, <1>7, <2>3, <2>4, Positive
<1>9. page = {i \in 1..m : i > cursor[p] /\ Wanted(p, buf[i])}
  <2>1. ASSUME NEW i \in page PROVE i \in 1..m /\ i > cursor[p] /\ Wanted(p, buf[i])
    BY <1>3, <1>4, <1>5, <1>7
  <2>2. ASSUME NEW i \in 1..m, i > cursor[p], Wanted(p, buf[i]) PROVE i \in page
    BY <1>2, <1>3, <1>7, <1>8, <2>2
  <2> QED
    BY <2>1, <2>2
<1> QED
  BY <1>6, <1>7, <1>9 DEF buf, page

(* Steps that leave all but the clients as it is.                          *)
LEMMA SameView ==
  ASSUME EnginesInv, CacheInv, FramesInv, ConsumersInv, CallsInv, OwnIds, MessagesKeepTheirIds,
         RingInv,
         UNCHANGED <<translator, ring, history, session, phase, inbox, outgoing, engine,
                     published, disturbed>>
  PROVE  /\ (EnginesInv /\ CacheInv /\ FramesInv /\ ConsumersInv /\ CallsInv)'
         /\ (OwnIds /\ MessagesKeepTheirIds /\ RingInv)'
<1>1. /\ messageIDs' = messageIDs /\ toolCallCache' = toolCallCache /\ session' = session
      /\ phase' = phase /\ inbox' = inbox /\ disturbed' = disturbed
      /\ outgoing' = outgoing /\ engine' = engine /\ sent' = sent /\ semBuf' = semBuf
      /\ ids' = ids /\ calls' = calls
  BY DEF translator, ring, history
<1>2. EnginesInv' /\ OwnIds' /\ MessagesKeepTheirIds' /\ RingInv'
  BY <1>1 DEF EnginesInv, OwnIds, MessagesKeepTheirIds, RingInv
<1>3. \A x \in Engines : /\ (At(x))' = At(x) /\ NameOf(x)' = NameOf(x)
                         /\ (Followed(x)' <=> Followed(x))
  BY <1>1 DEF Current, At, NameOf, Followed
<1>4. CacheInv'
  BY <1>1, <1>3 DEF CacheInv
<1>5. FramesInv'
  BY <1>1 DEF FramesInv, OwnNamed, OwnId, WellNamed
<1>6. ConsumersInv'
  <2>1. ASSUME NEW l \in Slots, NEW e \in inbox[l] PROVE Pending(e, l[1])'
    BY <1>1 DEF ConsumersInv, Pending, MayName
  <2>2. ASSUME NEW x \in Engines, Followed(x) PROVE Calm(x[1])'
    BY <1>1, <2>2, SameConsumers DEF ConsumersInv
  <2> QED
    BY <1>1, <1>3, <2>1, <2>2 DEF ConsumersInv
<1>7. CallsInv'
  <2>1. ASSUME NEW x \in Engines, CallFollows(x) PROVE CallFollows(x)'
    <3>1. SlotOf(x[1])' = SlotOf(x[1]) /\ Line(x[1])' = Line(x[1])
      BY <1>1, SameConsumers DEF Line
    <3> QED
      BY <1>1, <2>1, <3>1, SameLine
  <2> QED
    BY <1>1, <1>3, <2>1 DEF CallsInv
<1> QED
  BY <1>2, <1>4, <1>5, <1>6, <1>7

LEMMA PollStep ==
  ASSUME SemIInv, NEW p \in Pagers, Poll(p)
  PROVE  SemIInv'
<1>1. p[1] \in Conversations /\ \A q \in Pagers : q[1] \in Conversations
  BY TranslatorAssumption
<1>2. /\ Page(p) # {} /\ cursor' = [cursor EXCEPT ![p] = Max(Page(p))]
      /\ got' = [got EXCEPT ![p] = @ \cup {semBuf[p[1]][i] : i \in Page(p)}]
      /\ repeated' \in {repeated, repeated \cup {p}}
      /\ UNCHANGED <<translator, ring, history, session, phase, inbox, outgoing, engine,
                     published, disturbed>>
  BY DEF Poll, Page, Found
<1>3. PICK m \in 1..Len(semBuf[p[1]]) :
        /\ Max(Page(p)) = m
        /\ Page(p) = {i \in 1..m : i > cursor[p] /\ Wanted(p, semBuf[p[1]][i])}
  BY <1>2, PageIs
<1>4. semBuf[p[1]] \in Seq(Nat \ {0}) /\ Len(semBuf[p[1]]) <= RingSize
      /\ Len(semBuf[p[1]]) \in Nat
  BY <1>1, LenProperties DEF SemIInv, SemTypeOK
<1>5. cursor' \in [Pagers -> 0..RingSize]
  <2>1. m \in 0..RingSize
    BY <1>3, <1>4, Positive
  <2> QED
    BY <1>2, <1>3, <2>1 DEF SemIInv, SemTypeOK
<1>6. Len(sent[p[1]]) \in Nat /\ DOMAIN sent[p[1]] = 1..Len(sent[p[1]])
      /\ \A c \in Conversations : Len(sent[c]) \in Nat
  BY <1>1, LenProperties DEF SemIInv, SemTypeOK
<1>7. HoldsLast(semBuf[p[1]], Len(sent[p[1]]))
  <2>1. semBuf[p[1]] = Ring(Len(sent[p[1]]))
    BY <1>1, <1>6, RingHolds DEF SemIInv
  <2> QED
    BY <1>6, <2>1, RingHoldsLast
<1>8. \A i \in 1..Len(semBuf[p[1]]) : semBuf[p[1]][i] \in DOMAIN sent[p[1]]
  <2> DEFINE buf == semBuf[p[1]]
             n == Len(sent[p[1]])
  <2>1. Len(buf) <= n /\ Len(buf) \in Nat /\ n \in Nat
    BY <1>4, <1>6, <1>7, Positive DEF HoldsLast
  <2>2. \A i \in 1..Len(buf) : buf[i] = n - Len(buf) + i
    BY <1>7 DEF HoldsLast
  <2> HIDE DEF buf, n
  <2>3. \A i \in 1..Len(buf) : buf[i] \in 1..n
    BY <2>1, <2>2
  <2> QED
    BY <1>6, <2>3 DEF buf, n
<1>9. DOMAIN got = Pagers /\ \A q \in Pagers : got[q] \subseteq DOMAIN sent[q[1]]
  BY DEF SemIInv, SemTypeOK, Functions
<1>10. {semBuf[p[1]][i] : i \in Page(p)} \subseteq DOMAIN sent[p[1]]
  BY <1>3, <1>4, <1>8
<1>11. DOMAIN got' = Pagers /\ \A q \in Pagers : got'[q] \subseteq DOMAIN sent[q[1]]
  BY <1>2, <1>9, <1>10
<1>12. SemTypeOK' /\ Functions'
  BY <1>2, <1>5, <1>11 DEF SemIInv, SemTypeOK, Functions, translator, ring, history
<1> QED
  BY <1>2, <1>12, SameView DEF SemIInv

-----------------------------------------------------------------------------
(* The theorems *)

LEMMA SemInitInv == SemInit => SemIInv
<1> SUFFICES ASSUME SemInit PROVE SemIInv
  OBVIOUS
<1> DEFINE Marks == FrameTypes \cup {""}
<1>1. << >> \in Seq(Frame) /\ << >> \in Seq(Marks) /\ << >> \in Seq(Nat \ {0})
      /\ << >> \in Seq(FrameTypes) /\ Len(<< >>) = 0
  OBVIOUS
<1>2. 0 <= RingSize /\ 0 <= 2 /\ 0 \in 0..RingSize /\ 1 \in 1..MaxSessions
  BY Positive
<1>3. Fresh(0) \in EngineStates
  BY Positive DEF Fresh, EngineStates
<1>4. Fresh(0).message = 0 /\ Fresh(0).call = "none" /\ ~Ongoing(Fresh(0))
  BY DEF Fresh, Ongoing
<1>5. NoId \in Ids
  BY DEF Ids
<1>6. MaxEvents \in [Engines -> Nat]
  BY TranslatorAssumption
<1>7. \A p \in Pagers : p[1] \in Conversations
  BY TranslatorAssumption
<1>8. /\ messageIDs = [x \in Engines |-> NoId] /\ toolCallCache = [m \in Messages |-> ""]
      /\ session = [c \in Conversations |-> 1] /\ outgoing = [l \in Slots |-> << >>]
      /\ inbox = [l \in Slots |-> {}] /\ disturbed = {}
      /\ sent = [c \in Conversations |-> << >>] /\ semBuf = [c \in Conversations |-> << >>]
      /\ cursor = [p \in Pagers |-> 0] /\ got = [p \in Pagers |-> {}] /\ repeated = {}
      /\ engine = [x \in Engines |-> Fresh(0)] /\ published = [x \in Engines |-> 0]
      /\ ids = [m \in Messages |-> {}] /\ calls = [m \in Messages |-> << >>]
      /\ \E first \in Consumers : phase = OneConsumer(first)
  BY DEF SemInit
<1>9. SemTypeOK
  <2>1. ASSUME NEW x \in Engines PROVE published[x] \in 0..MaxEvents[x]
    <3>1. MaxEvents[x] \in Nat /\ published[x] = 0
      BY <1>6, <1>8
    <3> QED
      BY <3>1
  <2>2. \A c \in Conversations : /\ sent[c] \in Seq(Marks)
                                 /\ semBuf[c] \in Seq(Nat \ {0}) /\ Len(semBuf[c]) <= RingSize
    BY <1>1, <1>2, <1>8
  <2>7. \A l \in Slots : outgoing[l] \in Seq(Frame) /\ Len(outgoing[l]) <= 2
    BY <1>1, <1>2, <1>8
  <2>8. /\ inbox \in [Slots -> SUBSET Event] /\ \A l \in Slots : Cardinality(inbox[l]) <= 1
        /\ phase \in [Slots -> {"gone", "running", "leaving", "orphan"}]
    <3>1. Cardinality({}) <= 1
      BY FS_EmptySet
    <3> QED
      BY <1>8, <3>1 DEF OneConsumer
  <2>3. \A p \in Pagers : got[p] \subseteq DOMAIN sent[p[1]]
    BY <1>8
  <2>4. engine \in [Engines -> EngineStates]
    BY <1>3, <1>8
  <2>5. messageIDs \in [Engines -> Ids] /\ cursor \in [Pagers -> 0..RingSize]
        /\ session \in [Conversations -> 1..MaxSessions]
        /\ toolCallCache \in [Messages -> Tools \cup {""}]
    BY <1>2, <1>5, <1>8
  <2>6. \A m \in Messages : ids[m] \subseteq Ids /\ calls[m] \in Seq(FrameTypes)
    BY <1>1, <1>8
  <2> QED
    BY <1>8, <2>1, <2>2, <2>3, <2>4, <2>5, <2>6, <2>7, <2>8 DEF SemTypeOK, EngineStates
<1>10. Functions
  BY <1>8 DEF Functions
<1>11. EnginesInv
  BY <1>4, <1>8 DEF EnginesInv
<1>none. \A x \in Engines : ~Followed(x)
  <2>1. \A x \in Engines : engine[x].message = 0
    BY <1>4, <1>8
  <2> QED
    BY <2>1 DEF Followed
<1>12. CacheInv
  BY <1>8, <1>none DEF CacheInv
<1>consumers. ConsumersInv
  BY <1>8, <1>none DEF ConsumersInv
<1>13. FramesInv
  <2>1. \A l \in Slots : outgoing[l] = << >>
    BY <1>8
  <2>2. \A s : s = << >> => DOMAIN s = {}
    OBVIOUS
  <2> QED
    BY <2>1, <2>2 DEF FramesInv
<1>14. CallsInv
  <2>1. \A x \in Engines, k \in 1..MaxMessages : calls[<<x, k>>] = << >>
    BY <1>8, Pairs
  <2>2. \A x \in Engines : ~(engine[x].message > 0)
    <3>1. \A x \in Engines : engine[x].message = 0
      BY <1>4, <1>8
    <3> QED
      BY <3>1
  <2> QED
    BY <1>none, <2>1, <2>2 DEF CallsInv
<1>15. MessagesKeepTheirIds /\ OwnIds
  BY <1>8 DEF MessagesKeepTheirIds, OwnIds
<1>16. RingInv
  <2>1. 0 \in Nat /\ 0 <= RingSize
    BY Positive
  <2>2. Ring(0) \in Seq(Nat \ {0}) /\ Len(Ring(0)) = 0
    BY <2>1, RingIs
  <2>3. Ring(0) = << >>
    BY <2>2, EmptySeq
  <2>4. \A c \in Conversations : Len(sent[c]) \in Nat /\ semBuf[c] = Ring(Len(sent[c]))
    BY <1>1, <1>8, <2>3
  <2> QED
    BY <2>4, RingIs DEF RingInv
<1> QED
  BY <1>9, <1>10, <1>11, <1>12, <1>consumers, <1>13, <1>14, <1>15, <1>16 DEF SemIInv

LEMMA SemStepInv == SemIInv /\ [SemNext]_semVars => SemIInv'
<1> SUFFICES ASSUME SemIInv, [SemNext]_semVars PROVE SemIInv'
  OBVIOUS
<1>1. ASSUME NEW x \in Engines, Begin(x) \/ Think(x) \/ Write(x) \/ Tell(x) \/ CallTool(x)
      PROVE  SemIInv'
  BY <1>1, BeginStep, ThinkStep, WriteStep, TellStep, CallToolStep
<1>2. ASSUME NEW l \in Slots,
             \/ StartConsumer(l) \/ StopConsumer(l) \/ CatchUp(l) \/ EndConsumer(l)
             \/ Deliver(l) \/ Recreate(l)
      PROVE  SemIInv'
  BY <1>2, StartConsumerStep, CatchUpStep, EndConsumerStep, DeliverStep, RecreateStep
<1>3. ASSUME NEW p \in Pagers, Poll(p) PROVE SemIInv'
  BY <1>3, PollStep
<1>4. CASE Restart
  BY <1>4, RestartStep
<1>5. CASE UNCHANGED semVars
  <2>1. UNCHANGED <<translator, ring, pagers, history, session, phase, inbox, outgoing, engine,
                    published, disturbed>>
    BY <1>5 DEF semVars
  <2>2. SemTypeOK' /\ Functions'
    BY <2>1 DEF SemIInv, SemTypeOK, Functions, translator, ring, pagers, history
  <2> QED
    BY <2>1, <2>2, SameView DEF SemIInv
<1> QED
  BY <1>1, <1>2, <1>3, <1>4, <1>5 DEF SemNext

LEMMA SemAlways == SemSpec => []SemIInv
<1> QED
  BY SemInitInv, SemStepInv, PTL DEF SemSpec

(* In every reachable state the translator's caches, the consumers' events *)
(* and frames, the rings and the clients' pages have their types: a        *)
(* callback has at most two frames of an event, a ring no more than its    *)
(* size, and a client was given only frames that were sent.                *)
THEOREM SemTypeInvariant == SemSpec => []SemTypeOK
<1>1. SemIInv => SemTypeOK
  BY DEF SemIInv
<1> QED
  BY SemAlways, <1>1, PTL

LEMMA PrefixIs ==
  ASSUME NEW S, NEW s \in Seq(S), NEW t \in Seq(S), Len(s) <= Len(t),
         \A i \in 1..Len(s) : s[i] = t[i]
  PROVE  IsPrefix(s, t)
<1>1. Len(s) \in Nat /\ Len(t) \in Nat
  BY LenProperties
<1>2. SubSeq(s, 1, Len(s)) = [i \in 1..Len(s) |-> s[i]]
      /\ SubSeq(t, 1, Len(s)) = [i \in 1..Len(s) |-> t[i]]
  BY <1>1
<1> QED
  BY <1>2 DEF IsPrefix

LEMMA ShortPrefixes ==
  ASSUME NEW a, NEW b, NEW c, NEW d
  PROVE  /\ IsPrefix(<< >>, <<a, b, c>>) /\ IsPrefix(<<a>>, <<a, b, c>>)
         /\ IsPrefix(<<a, b>>, <<a, b, c>>) /\ IsPrefix(<<a, b, c>>, <<a, b, c>>)
         /\ IsPrefix(<<a, b>>, <<a, b, c, d>>) /\ IsPrefix(<<a, b, c>>, <<a, b, c, d>>)
         /\ IsPrefix(<<a, b, c, d>>, <<a, b, c, d>>)
<1> DEFINE S == {a, b, c, d}
           s0 == << >>
           s1 == <<a>>
           s2 == <<a, b>>
           s3 == <<a, b, c>>
           s4 == <<a, b, c, d>>
<1>1. s0 \in Seq(S) /\ s1 \in Seq(S) /\ s2 \in Seq(S) /\ s3 \in Seq(S) /\ s4 \in Seq(S)
  OBVIOUS
<1>2. Len(s0) = 0 /\ Len(s1) = 1 /\ Len(s2) = 2 /\ Len(s3) = 3 /\ Len(s4) = 4
  OBVIOUS
<1>3. /\ \A i \in 1..1 : s1[i] = s3[i]
      /\ \A i \in 1..2 : s2[i] = s3[i] /\ s2[i] = s4[i]
      /\ \A i \in 1..3 : s3[i] = s4[i]
  OBVIOUS
<1> HIDE DEF S, s0, s1, s2, s3, s4
<1>4. /\ IsPrefix(s0, s3) /\ IsPrefix(s1, s3) /\ IsPrefix(s2, s3) /\ IsPrefix(s3, s3)
      /\ IsPrefix(s2, s4) /\ IsPrefix(s3, s4) /\ IsPrefix(s4, s4)
  <2>1. /\ \A i \in 1..Len(s0) : s0[i] = s3[i]
        /\ \A i \in 1..Len(s1) : s1[i] = s3[i]
        /\ \A i \in 1..Len(s2) : s2[i] = s3[i] /\ s2[i] = s4[i]
        /\ \A i \in 1..Len(s3) : s3[i] = s4[i]
    BY <1>2, <1>3
  <2>2. IsPrefix(s0, s3)
    <3>1. Len(s0) <= Len(s3)
      BY <1>2
    <3> QED
      BY <1>1, <2>1, <3>1, PrefixIs
  <2>3. IsPrefix(s1, s3)
    BY <1>1, <1>2, <2>1, PrefixIs
  <2>4. IsPrefix(s2, s3)
    BY <1>1, <1>2, <2>1, PrefixIs
  <2>5. IsPrefix(s2, s4)
    BY <1>1, <1>2, <2>1, PrefixIs
  <2>6. IsPrefix(s3, s4)
    BY <1>1, <1>2, <2>1, PrefixIs
  <2>7. IsPrefix(s3, s3) /\ IsPrefix(s4, s4)
    BY <1>1, <1>2, PrefixIs
  <2> QED
    BY <2>2, <2>3, <2>4, <2>5, <2>6, <2>7
<1> QED
  BY <1>4 DEF s0, s1, s2, s3, s4

LEMMA ConcatIs ==
  ASSUME NEW S, NEW s \in Seq(S), NEW t \in Seq(S), NEW u \in Seq(S), Len(u) = Len(s) + Len(t),
         \A i \in 1..Len(s) : u[i] = s[i], \A i \in 1..Len(t) : u[Len(s) + i] = t[i]
  PROVE  s \o t = u
<1>1. Len(s) \in Nat /\ Len(t) \in Nat
  BY LenProperties
<1>2. /\ s \o t \in Seq(S) /\ Len(s \o t) = Len(s) + Len(t)
      /\ \A i \in 1..(Len(s) + Len(t)) :
           (s \o t)[i] = IF i <= Len(s) THEN s[i] ELSE t[i - Len(s)]
  BY ConcatProperties
<1>3. ASSUME NEW i \in 1..Len(u) PROVE (s \o t)[i] = u[i]
  <2>1. CASE i <= Len(s)
    BY <1>1, <1>2, <2>1
  <2>2. CASE ~(i <= Len(s))
    <3>1. i - Len(s) \in 1..Len(t) /\ Len(s) + (i - Len(s)) = i
      BY <1>1, <2>2
    <3>2. u[Len(s) + (i - Len(s))] = t[i - Len(s)]
      BY <3>1
    <3> QED
      BY <1>1, <1>2, <2>2, <3>1, <3>2
  <2> QED
    BY <2>1, <2>2
<1> QED
  BY <1>2, <1>3, SeqEqual

LEMMA Joined ==
  /\ \A a, b, c : <<a>> \o << >> \o <<b, c>> = <<a, b, c>>
  /\ \A a, b, c, d : <<a>> \o <<b>> \o <<c, d>> = <<a, b, c, d>>
<1>1. ASSUME NEW a, NEW b, NEW c PROVE <<a>> \o << >> \o <<b, c>> = <<a, b, c>>
  <2> DEFINE S == {a, b, c}
             s == <<a>>
             t == <<b, c>>
             u == <<a, b, c>>
  <2>1. <<a>> \o << >> = <<a>>
    OBVIOUS
  <2>2. s \in Seq(S) /\ t \in Seq(S) /\ u \in Seq(S)
    OBVIOUS
  <2>3. Len(s) = 1 /\ Len(t) = 2 /\ Len(u) = 3 /\ u[1] = s[1] /\ u[2] = t[1] /\ u[3] = t[2]
    OBVIOUS
  <2> HIDE DEF S, s, t, u
  <2>4. /\ Len(u) = Len(s) + Len(t) /\ \A i \in 1..Len(s) : u[i] = s[i]
        /\ \A i \in 1..Len(t) : u[Len(s) + i] = t[i]
    BY <2>3
  <2>5. s \o t = u
    BY <2>2, <2>4, ConcatIs
  <2> QED
    BY <2>1, <2>5 DEF s, t, u
<1>2. ASSUME NEW a, NEW b, NEW c, NEW d PROVE <<a>> \o <<b>> \o <<c, d>> = <<a, b, c, d>>
  <2> DEFINE S == {a, b, c, d}
             s == <<a, b>>
             t == <<c, d>>
             u == <<a, b, c, d>>
  <2>1. <<a>> \o <<b>> = <<a, b>>
    <3>1. <<a>> \in Seq({a, b}) /\ b \in {a, b}
      OBVIOUS
    <3>2. Append(<<a>>, b) = <<a>> \o <<b>>
      BY <3>1, AppendIsConcat
    <3> QED
      BY <3>2, Appended
  <2>2. s \in Seq(S) /\ t \in Seq(S) /\ u \in Seq(S)
    OBVIOUS
  <2>3. /\ Len(s) = 2 /\ Len(t) = 2 /\ Len(u) = 4
        /\ u[1] = s[1] /\ u[2] = s[2] /\ u[3] = t[1] /\ u[4] = t[2]
    OBVIOUS
  <2> HIDE DEF S, s, t, u
  <2>4. /\ Len(u) = Len(s) + Len(t) /\ \A i \in 1..Len(s) : u[i] = s[i]
        /\ \A i \in 1..Len(t) : u[Len(s) + i] = t[i]
    BY <2>3
  <2>5. s \o t = u
    BY <2>2, <2>4, ConcatIs
  <2> QED
    BY <2>1, <2>5 DEF s, t, u
<1> QED
  BY <1>1, <1>2

LEMMA ShownInOrder ==
  ASSUME NEW tool, NEW shown \in Shown(tool)
  PROVE  \E exec \in {<< >>, <<"tool.delta">>} :
           IsPrefix(shown, <<"tool.start">> \o exec \o <<ResultOf(tool), "tool.done">>)
<1>1. PICK r : r = ResultOf(tool)
  OBVIOUS
<1>2. <<"tool.start">> \o << >> \o <<r, "tool.done">> = <<"tool.start", r, "tool.done">>
  BY Joined
<1>3. <<"tool.start">> \o <<"tool.delta">> \o <<r, "tool.done">> =
        <<"tool.start", "tool.delta", r, "tool.done">>
  BY Joined
<1>4. \/ shown \in {<< >>, <<"tool.start">>, <<"tool.start", r>>, <<"tool.start", r, "tool.done">>}
      \/ shown \in {<<"tool.start", "tool.delta">>, <<"tool.start", "tool.delta", r>>,
                    <<"tool.start", "tool.delta", r, "tool.done">>}
  BY <1>1 DEF Shown, Executed, Resulted, Over
<1>5. \/ IsPrefix(shown, <<"tool.start", r, "tool.done">>)
      \/ IsPrefix(shown, <<"tool.start", "tool.delta", r, "tool.done">>)
  <2>1. \A x, y, z, w :
          /\ \A s \in {<< >>, <<x>>, <<x, y>>, <<x, y, z>>} : IsPrefix(s, <<x, y, z>>)
          /\ \A s \in {<<x, y>>, <<x, y, z>>, <<x, y, z, w>>} : IsPrefix(s, <<x, y, z, w>>)
    BY ShortPrefixes
  <2> QED
    BY <1>4, <2>1
<1> QED
  BY <1>1, <1>2, <1>3, <1>5

(* The translation, with any number of consumers that start, stop and      *)
(* overlap: no frame has the id of another engine's message, although the  *)
(* caches are shared by all and emptied by a restart; if one consumer saw  *)
(* to a message all its frames have its id, and its tool call is shown in  *)
(* order, the result once and of the right kind; and no client gets a      *)
(* frame of a session that is over.                                        *)
THEOREM SemTranslation == SemSpec => []TranslationInv
<1>1. SemIInv => TranslationInv
  <2> SUFFICES ASSUME SemIInv PROVE TranslationInv
    OBVIOUS
  <2>1. ToolsInOrder
    <3>1. ASSUME NEW x \in Engines, engine[x].message > 0, At(x) \notin disturbed
          PROVE  \E exec \in {<< >>, <<"tool.delta">>} :
                   IsPrefix(calls[At(x)],
                            <<"tool.start">> \o exec \o <<ResultOf(engine[x].tool), "tool.done">>)
      <4>1. calls[At(x)] \in Shown(engine[x].tool)
        BY <3>1 DEF SemIInv, CallsInv
      <4> QED
        BY <4>1, ShownInOrder
    <3> QED
      BY <3>1 DEF ToolsInOrder, At, ResultOf
  <2>2. OwnSession
    BY DEF SemIInv, FramesInv, OwnSession
  <2> QED
    BY <2>1, <2>2 DEF TranslationInv, SemIInv
<1> QED
  BY SemAlways, <1>1, PTL

-----------------------------------------------------------------------------
(* Where the clients of the debug route stand: before the ring has dropped *)
(* a frame, each has all it wants up to its cursor; later its cursor is    *)
(* not behind what it has.                                                 *)
ClientAt(p) ==
  LET n == Len(sent[p[1]])
      kept == Len(semBuf[p[1]])
  IN  /\ cursor[p] <= kept
      /\ \A k \in got[p] : k <= n - kept + cursor[p]
      /\ n <= RingSize =>
           /\ got[p] = {k \in 1..cursor[p] : Wanted(p, k)}
           /\ got[p] # {} => cursor[p] \in got[p]

ClientsInv == repeated = {} /\ \A p \in Pagers : ClientAt(p)

LEMMA RingHeld ==
  ASSUME SemIInv, NEW c \in Conversations
  PROVE  Len(sent[c]) \in Nat /\ semBuf[c] = Ring(Len(sent[c]))
<1>1. \A d \in Conversations : Len(sent[d]) \in Nat
  BY LenProperties DEF SemIInv, SemTypeOK
<1> QED
  BY <1>1, RingHolds DEF SemIInv

(* The facts about a conversation's ring and a client's cursor.            *)
LEMMA ClientFacts ==
  ASSUME SemIInv, NEW p \in Pagers
  PROVE  LET n == Len(sent[p[1]])
             kept == Len(semBuf[p[1]])
         IN  /\ p[1] \in Conversations /\ n \in Nat /\ kept \in Nat /\ cursor[p] \in Nat
             /\ kept = IF n <= RingSize THEN n ELSE RingSize
             /\ \A i \in 1..kept : semBuf[p[1]][i] = n - kept + i
             /\ got[p] \subseteq 1..n
<1>1. p[1] \in Conversations
  BY TranslatorAssumption
<1>2. \A c \in Conversations : Len(sent[c]) \in Nat /\ DOMAIN sent[c] = 1..Len(sent[c])
  BY LenProperties DEF SemIInv, SemTypeOK
<1>3. HoldsLast(semBuf[p[1]], Len(sent[p[1]]))
  <2>1. semBuf[p[1]] = Ring(Len(sent[p[1]]))
    BY <1>1, <1>2, RingHolds DEF SemIInv
  <2> QED
    BY <1>1, <1>2, <2>1, RingHoldsLast
<1>4. Len(semBuf[p[1]]) \in Nat
  BY <1>3, LenProperties DEF HoldsLast
<1>5. cursor[p] \in Nat /\ got[p] \subseteq 1..Len(sent[p[1]])
  <2>1. cursor[p] \in 0..RingSize /\ got[p] \subseteq DOMAIN sent[p[1]]
    BY DEF SemIInv, SemTypeOK
  <2> QED
    BY <1>1, <1>2, <2>1, Positive
<1> QED
  BY <1>1, <1>2, <1>3, <1>4, <1>5 DEF HoldsLast

LEMMA ClientsDeliver ==
  ASSUME SemIInv, ClientsInv, NEW l \in Slots, Deliver(l)
  PROVE  ClientsInv'
<1>c. PICK c \in Conversations : c = l[1]
  BY Pairs
<1> DEFINE Marks == FrameTypes \cup {""}
<1>1. UNCHANGED <<cursor, got, repeated>>
  BY DEF Deliver, pagers
<1>2. PICK type \in Marks : sent' = [sent EXCEPT ![c] = Append(@, type)]
  BY <1>c, Delivered DEF Deliver
<1>3. /\ DOMAIN sent = Conversations /\ DOMAIN semBuf = Conversations
      /\ semBuf' = [semBuf EXCEPT ![c] = Trimmed(Append(@, Len(sent[c]) + 1))]
      /\ \A d \in Conversations : sent[d] \in Seq(Marks)
  BY <1>c DEF SemIInv, SemTypeOK, Functions, Deliver
<1> HIDE DEF Marks
<1>4. PICK n \in Nat, m \in Nat : n = Len(sent[c]) /\ m = n + 1
  BY RingHeld
<1>5. /\ Len(sent'[c]) = m /\ \A k \in 1..n : sent'[c][k] = sent[c][k]
  <2>1. sent'[c] = Append(sent[c], type) /\ sent[c] \in Seq(Marks)
    BY <1>2, <1>3
  <2> QED
    BY <1>4, <2>1, AppendProperties
<1>6. semBuf'[c] = Ring(m) /\ semBuf[c] = Ring(n)
  <2>1. semBuf[c] = Ring(n)
    BY <1>4, RingHeld
  <2>2. semBuf'[c] = Trimmed(Append(Ring(n), m))
    BY <1>3, <1>4, <2>1
  <2> QED
    BY <1>4, <2>1, <2>2, RingStep, RingHoldsLast
<1>7. PICK kept \in Nat, left \in Nat :
        /\ kept = Len(semBuf[c]) /\ left = Len(semBuf'[c])
        /\ kept = IF n <= RingSize THEN n ELSE RingSize
        /\ left = IF m <= RingSize THEN m ELSE RingSize
  BY <1>6, RingIs, Positive
<1>8. ASSUME NEW p \in Pagers PROVE ClientAt(p)'
  <2>1. ClientAt(p) /\ p[1] \in Conversations
    BY ClientFacts DEF ClientsInv
  <2>2. CASE p[1] # c
    <3>1. sent'[p[1]] = sent[p[1]] /\ semBuf'[p[1]] = semBuf[p[1]]
      BY <1>2, <1>3, <2>1, <2>2
    <3> QED
      BY <1>1, <2>1, <3>1 DEF ClientAt, Wanted
  <2>3. CASE p[1] = c
    <3>1. PICK at \in Nat : at = cursor[p]
      BY ClientFacts
    <3>2. /\ at <= kept /\ got[p] \subseteq 1..n
          /\ \A k \in got[p] : k <= n - kept + at
          /\ n <= RingSize =>
               /\ got[p] = {k \in 1..at : p[2] = "" \/ sent[c][k] = p[2]}
               /\ got[p] # {} => at \in got[p]
      BY <1>4, <1>7, <2>1, <2>3, <3>1, ClientFacts DEF ClientAt, Wanted
    <3>3. RingSize \in Nat /\ at <= left /\ n - kept <= m - left
      <4>1. RingSize \in Nat
        BY Positive
      <4>2. kept <= left /\ n - kept <= m - left
        <5>1. CASE m <= RingSize
          <6>1. n <= RingSize /\ kept = n /\ left = m
            BY <1>4, <1>7, <4>1, <5>1
          <6> QED
            BY <1>4, <6>1
        <5>2. CASE ~(m <= RingSize)
          <6>1. left = RingSize /\ kept = RingSize /\ n >= RingSize
            BY <1>4, <1>7, <4>1, <5>2
          <6> QED
            BY <1>4, <4>1, <6>1
        <5> QED
          BY <5>1, <5>2
      <4>3. at <= kept
        BY <3>2
      <4> QED
        BY <4>1, <4>2, <4>3
    <3>4. ASSUME NEW k \in got[p] PROVE k <= m - left + at
      <4>1. k \in 1..n /\ k <= n - kept + at
        BY <3>2
      <4> QED
        BY <3>3, <4>1
    <3>5. ASSUME m <= RingSize
          PROVE  /\ got[p] = {k \in 1..at : p[2] = "" \/ sent'[c][k] = p[2]}
                 /\ got[p] # {} => at \in got[p]
      <4>1. n <= RingSize /\ kept = n
        BY <1>4, <1>7, <3>3, <3>5
      <4>2. \A k \in 1..at : sent'[c][k] = sent[c][k]
        <5>1. at <= n
          BY <3>2, <4>1
        <5>2. \A k \in 1..at : k \in 1..n
          BY <5>1
        <5> QED
          BY <1>5, <5>2
      <4> QED
        BY <3>2, <4>1, <4>2
    <3>6. /\ cursor'[p] = at /\ got'[p] = got[p]
          /\ Len(sent'[p[1]]) = m /\ Len(semBuf'[p[1]]) = left
      BY <1>1, <1>5, <1>7, <2>3, <3>1
    <3> QED
      BY <2>3, <3>3, <3>4, <3>5, <3>6 DEF ClientAt, Wanted
  <2> QED
    BY <2>2, <2>3
<1> QED
  BY <1>1, <1>8 DEF ClientsInv

LEMMA ClientsPoll ==
  ASSUME SemIInv, ClientsInv, NEW p \in Pagers, Poll(p)
  PROVE  ClientsInv'
<1> DEFINE given == {semBuf[p[1]][i] : i \in Page(p)}
<1>1. /\ Page(p) # {} /\ cursor' = [cursor EXCEPT ![p] = Max(Page(p))]
      /\ got' = [got EXCEPT ![p] = @ \cup given]
      /\ repeated' = IF given \cap got[p] # {} THEN repeated \cup {p} ELSE repeated
      /\ UNCHANGED ring
  BY DEF Poll, Page, Found
<1>2. sent' = sent /\ semBuf' = semBuf /\ DOMAIN got = Pagers /\ cursor \in [Pagers -> 0..RingSize]
  BY <1>1 DEF ring, SemIInv, Functions, SemTypeOK
<1>3. PICK n \in Nat, kept \in Nat, at \in Nat :
        /\ n = Len(sent[p[1]]) /\ kept = Len(semBuf[p[1]]) /\ at = cursor[p]
        /\ kept = IF n <= RingSize THEN n ELSE RingSize
        /\ \A i \in 1..kept : semBuf[p[1]][i] = n - kept + i
        /\ got[p] \subseteq 1..n
  BY ClientFacts
<1>4. PICK m \in 1..kept :
        /\ Max(Page(p)) = m /\ m > at /\ Wanted(p, semBuf[p[1]][m])
        /\ Page(p) = {i \in 1..m : i > at /\ Wanted(p, semBuf[p[1]][i])}
  BY <1>1, <1>3, PageIs
<1>5. /\ at <= kept /\ \A k \in got[p] : k <= n - kept + at
      /\ n <= RingSize =>
           /\ got[p] = {k \in 1..at : Wanted(p, k)}
           /\ got[p] # {} => at \in got[p]
  BY <1>3 DEF ClientsInv, ClientAt
<1>6. ASSUME NEW k \in given PROVE \E i \in Page(p) : k = n - kept + i /\ i \in 1..m /\ i > at
  BY <1>3, <1>4
<1>7. \A k \in given : k > n - kept + at /\ k <= n - kept + m
  <2>1. ASSUME NEW i \in 1..m, i > at PROVE n - kept + i > n - kept + at /\ n - kept + i <= n - kept + m
    BY <1>4, <2>1
  <2> QED
    BY <1>6, <2>1
<1>8. given \cap got[p] = {}
  <2>1. ASSUME NEW k \in given, k \in got[p] PROVE FALSE
    <3>1. k \in 1..n /\ k > n - kept + at /\ k <= n - kept + at
      BY <1>3, <1>5, <1>7, <2>1
    <3> QED
      BY <3>1
  <2> QED
    BY <2>1
<1>9. /\ repeated' = repeated /\ cursor'[p] = m /\ got'[p] = got[p] \cup given
      /\ \A q \in Pagers : q # p => cursor'[q] = cursor[q] /\ got'[q] = got[q]
  BY <1>1, <1>2, <1>4, <1>8
<1> HIDE DEF given
<1>10. ClientAt(p)'
  <2>1. m <= kept /\ m \in Nat /\ at <= m
    BY <1>4
  <2>2. ASSUME NEW k \in got[p] \cup given PROVE k <= n - kept + m
    <3>1. CASE k \in given
      BY <1>7, <3>1
    <3>2. CASE k \in got[p]
      <4>1. k \in 1..n /\ k <= n - kept + at
        BY <1>3, <1>5, <3>2
      <4> QED
        BY <2>1, <4>1
    <3> QED
      BY <3>1, <3>2
  <2>3. ASSUME n <= RingSize
        PROVE  got[p] \cup given = {k \in 1..m : Wanted(p, k)} /\ m \in got[p] \cup given
    <3>1. kept = n /\ \A i \in 1..m : semBuf[p[1]][i] = i
      <4>1. kept = n
        BY <1>3, <2>3
      <4>2. \A i \in 1..kept : semBuf[p[1]][i] = i
        BY <1>3, <4>1
      <4> QED
        BY <2>1, <4>1, <4>2
    <3>2. Page(p) = {i \in 1..m : i > at /\ Wanted(p, i)}
      BY <1>4, <3>1
    <3>3. given = Page(p)
      BY <3>1, <3>2 DEF given
    <3>4. got[p] = {k \in 1..at : Wanted(p, k)}
      BY <1>5, <2>3
    <3>5. m \in given
      BY <1>4, <3>1, <3>2, <3>3
    <3> QED
      BY <2>1, <3>2, <3>3, <3>4, <3>5
  <2>4. Len(sent'[p[1]]) = n /\ Len(semBuf'[p[1]]) = kept
    BY <1>2, <1>3
  <2>5. \A k : Wanted(p, k)' <=> Wanted(p, k)
    BY <1>2 DEF Wanted
  <2> QED
    BY <1>9, <2>1, <2>2, <2>3, <2>4, <2>5 DEF ClientAt
<1>11. ASSUME NEW q \in Pagers, q # p PROVE ClientAt(q)'
  BY <1>2, <1>9, <1>11 DEF ClientsInv, ClientAt, Wanted
<1> QED
  BY <1>9, <1>10, <1>11 DEF ClientsInv

LEMMA ClientsRenew ==
  ASSUME SemIInv, ClientsInv, NEW renewed \in SUBSET Conversations, Renew(renewed)
  PROVE  ClientsInv'
<1>1. /\ sent' = [c \in Conversations |-> IF c \in renewed THEN << >> ELSE sent[c]]
      /\ semBuf' = [c \in Conversations |-> IF c \in renewed THEN << >> ELSE semBuf[c]]
      /\ cursor' = [p \in Pagers |-> IF p[1] \in renewed THEN 0 ELSE cursor[p]]
      /\ got' = [p \in Pagers |-> IF p[1] \in renewed THEN {} ELSE got[p]]
      /\ repeated' = {p \in repeated : p[1] \notin renewed}
  BY DEF Renew
<1>2. ASSUME NEW p \in Pagers PROVE ClientAt(p)'
  <2>1. p[1] \in Conversations
    BY TranslatorAssumption
  <2>2. CASE p[1] \in renewed
    <3>1. /\ cursor'[p] = 0 /\ got'[p] = {} /\ semBuf'[p[1]] = << >>
      BY <1>1, <2>1, <2>2
    <3>2. Len(semBuf'[p[1]]) = 0 /\ 1..0 = {}
      BY <3>1
    <3> QED
      BY <3>1, <3>2 DEF ClientAt
  <2>3. CASE p[1] \notin renewed
    <3>1. /\ cursor'[p] = cursor[p] /\ got'[p] = got[p]
          /\ sent'[p[1]] = sent[p[1]] /\ semBuf'[p[1]] = semBuf[p[1]]
      BY <1>1, <2>1, <2>3
    <3> QED
      BY <3>1 DEF ClientsInv, ClientAt, Wanted
  <2> QED
    BY <2>2, <2>3
<1> QED
  BY <1>1, <1>2 DEF ClientsInv

LEMMA ClientsStep == SemIInv /\ ClientsInv /\ [SemNext]_semVars => ClientsInv'
<1> SUFFICES ASSUME SemIInv, ClientsInv, [SemNext]_semVars PROVE ClientsInv'
  OBVIOUS
<1>1. ASSUME UNCHANGED <<ring, pagers>> PROVE ClientsInv'
  BY <1>1 DEF ring, pagers, ClientsInv, ClientAt, Wanted
<1>2. ASSUME NEW x \in Engines, Begin(x) \/ Think(x) \/ Write(x) \/ Tell(x) \/ CallTool(x)
      PROVE  UNCHANGED <<ring, pagers>>
  BY <1>2 DEF Begin, Think, Write, Tell, CallTool, Publish
<1>3. ASSUME NEW l \in Slots,
             StartConsumer(l) \/ StopConsumer(l) \/ CatchUp(l) \/ EndConsumer(l)
      PROVE  UNCHANGED <<ring, pagers>>
  BY <1>3 DEF StartConsumer, StopConsumer, CatchUp, EndConsumer
<1>7. ASSUME NEW l \in Slots, Deliver(l) \/ Recreate(l) PROVE ClientsInv'
  <2>1. CASE Deliver(l)
    BY <2>1, ClientsDeliver
  <2>2. CASE Recreate(l)
    <3>1. Renew({l[1]}) /\ {l[1]} \in SUBSET Conversations
      BY <2>2, Pairs DEF Recreate
    <3> QED
      BY <3>1, ClientsRenew
  <2> QED
    BY <1>7, <2>1, <2>2
<1>4. ASSUME NEW p \in Pagers, Poll(p) PROVE ClientsInv'
  BY <1>4, ClientsPoll
<1>5. CASE Restart
  BY <1>5, ClientsRenew DEF Restart
<1>6. CASE UNCHANGED semVars
  BY <1>1, <1>6 DEF semVars
<1> QED
  BY <1>1, <1>2, <1>3, <1>4, <1>5, <1>6, <1>7 DEF SemNext

LEMMA ClientsStart == SemInit => ClientsInv
<1> SUFFICES ASSUME SemInit PROVE ClientsInv
  OBVIOUS
<1>1. ASSUME NEW p \in Pagers PROVE ClientAt(p)
  <2>1. cursor[p] = 0 /\ got[p] = {} /\ semBuf[p[1]] = << >>
    BY TranslatorAssumption DEF SemInit
  <2>2. Len(semBuf[p[1]]) = 0 /\ 1..0 = {}
    BY <2>1
  <2> QED
    BY <2>1, <2>2 DEF ClientAt
<1> QED
  BY <1>1 DEF ClientsInv, SemInit

(* The debug route: the ring has the frames sent last, in their order, and *)
(* a client that goes on from the seq it was given last gets no frame a    *)
(* second time, and misses none it wants before the ring has dropped one.  *)
THEOREM SemPages == SemSpec => []PagesInv
<1>1. SemIInv /\ ClientsInv => PagesInv
  <2> SUFFICES ASSUME SemIInv, ClientsInv PROVE PagesInv
    OBVIOUS
  <2>1. ASSUME NEW p \in Pagers, got[p] # {}, Len(sent[p[1]]) <= RingSize
        PROVE  got[p] = {n \in 1..Max(got[p]) : Wanted(p, n)}
    <3>1. /\ got[p] = {n \in 1..cursor[p] : Wanted(p, n)} /\ cursor[p] \in got[p]
          /\ cursor[p] \in Nat
      BY <2>1, ClientFacts DEF ClientsInv, ClientAt
    <3>2. got[p] \in SUBSET Int /\ \A n \in got[p] : n <= cursor[p]
      BY <3>1
    <3>3. Max(got[p]) = cursor[p]
      BY <3>1, <3>2, MaxIs
    <3> QED
      BY <3>1, <3>3
  <2> QED
    BY <2>1 DEF PagesInv, ClientsInv, SemIInv
<1> QED
  BY SemAlways, ClientsStart, ClientsStep, <1>1, PTL DEF SemSpec
===============================================================================

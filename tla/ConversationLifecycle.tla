------------------------- MODULE ConversationLifecycle -------------------------
(***************************************************************************)
(* The conversation objects behind one conversation id: ConvManager        *)
(* (pkg/webchat/conversation.go), its eviction loop                        *)
(* (conv_manager_eviction.go), and what the threads that use a             *)
(* conversation do between looking it up and letting it go.                *)
(*                                                                         *)
(* Objects and streams are numbered in the order they are made.  Of the    *)
(* queue, the pool and the stream only what eviction and the threads look  *)
(* at is kept; PromptQueue, ConnectionPool and StreamCoordinator have the  *)
(* rest.  A section under ConvManager.mu, or under one of the locks of the *)
(* conversation, is one step.  Composing a runtime and subscribing         *)
(* succeed; the transport is the in-memory one.  Writes of the             *)
(* conversation index are left out.                                        *)
(***************************************************************************)
EXTENDS Naturals, FiniteSets

CONSTANTS Prompts,       \* prompt submissions
          Clients,       \* websockets, each attached once
          Fingerprints,  \* of the runtimes that prompts ask for
          DefaultFp,     \* of the runtime AttachWebSocket asks for
          MaxConvs,      \* bound: objects made
          MaxStreams     \* bound: stream coordinators made

ASSUME LifecycleAssumption ==
  /\ Prompts \cap Clients = {}
  /\ MaxConvs \in Nat /\ MaxStreams \in Nat

Threads == Prompts \cup Clients
Convs == 1..MaxConvs
Streams == 1..MaxStreams
None == 0

VARIABLES
  table,    \* ConvManager.conns at the id: an object, or None
  created,  \* how many objects have been made
  streams,  \* how many stream coordinators have been made
  evicted,  \* objects taken out of the table
  fp,       \* per object, RuntimeFingerprint
  stream,   \* per object, its current stream
  running,  \* the streams that are running
  pool,     \* per object, the clients in its pool
  ticking,  \* per object, whether its pool's idle timer ticks
  onIdle,   \* per object, whether its idle callback is about to run
  work,     \* per object, the prompts active or queued
  idle,     \* per object, whether its last activity is long ago
  pc,       \* per thread, where it is
  mine,     \* per thread, the object it holds
  held,     \* per thread, the stream it has read from its object
  evictor,  \* rest, pool, stream, queue, delete, close, stop
  target,   \* the object the evictor looks at, or None
  seen,     \* the prompts and clients target had when it was chosen (history)
  silenced  \* objects whose stream was stopped under a client (history)

made     == <<table, created, streams, evicted, fp>>
activity == <<pool, ticking, onIdle, work>>
threads  == <<pc, mine, held>>
eviction == <<evictor, target, seen>>
vars == <<made, stream, running, activity, idle, threads, eviction, silenced>>

EmptyHanded == {"new", "resolved", "creating", "done"}
Places == EmptyHanded \cup {"found", "admitted", "starting", "running", "joining", "attached"}

TypeOK ==
  /\ table \in Convs \cup {None}
  /\ created \in 0..MaxConvs /\ streams \in 0..MaxStreams
  /\ evicted \subseteq Convs /\ silenced \subseteq Convs
  /\ fp \in [Convs -> Fingerprints \cup {DefaultFp}]
  /\ stream \in [Convs -> Streams \cup {None}]
  /\ running \subseteq Streams
  /\ pool \in [Convs -> SUBSET Clients]
  /\ work \in [Convs -> SUBSET Prompts]
  /\ ticking \in [Convs -> BOOLEAN] /\ onIdle \in [Convs -> BOOLEAN]
  /\ idle \in [Convs -> BOOLEAN]
  /\ pc \in [Threads -> Places]
  /\ mine \in [Threads -> 0..created]
  /\ \A t \in Threads : mine[t] = None => pc[t] \in EmptyHanded
  /\ held \in [Threads -> Streams \cup {None}]
  /\ evictor \in {"rest", "pool", "stream", "queue", "delete", "close", "stop"}
  /\ target \in Convs \cup {None}
  /\ seen \subseteq Threads

Init ==
  /\ table = None /\ created = 0 /\ streams = 0 /\ evicted = {}
  /\ fp = [v \in Convs |-> DefaultFp]
  /\ stream = [v \in Convs |-> None]
  /\ running = {}
  /\ pool = [v \in Convs |-> {}] /\ work = [v \in Convs |-> {}]
  /\ ticking = [v \in Convs |-> FALSE] /\ onIdle = [v \in Convs |-> FALSE]
  /\ idle = [v \in Convs |-> FALSE]
  /\ pc = [t \in Threads |-> "new"]
  /\ mine = [t \in Threads |-> None] /\ held = [t \in Threads |-> None]
  /\ evictor = "rest" /\ target = None /\ seen = {}
  /\ silenced = {}

-----------------------------------------------------------------------------
(* Mistaken versions of definitions below: a GetOrCreate that does not     *)
(* look, an AddConn that leaves a stopped stream alone, an eviction that   *)
(* counts only queued prompts, one that compares the wrong way round, a    *)
(* submission that goes on without a conversation.                         *)

NoneFound == None
StartsNothing(s) == running
OnlyQueued(v) == Cardinality(work[v]) > 1
AnotherObject(v) == table # v
Unchecked == "found"

-----------------------------------------------------------------------------
(* Helpers *)

Goto(t, where) == pc' = [pc EXCEPT ![t] = where]
LetGo(local, t) == [local EXCEPT ![t] = None]
Touch(v) == idle' = [idle EXCEPT ![v] = FALSE]

Existing == table
Started(s) == running \cup {s}

(* GetOrCreate makes an object with a running stream...                    *)
Create(f) ==
  /\ created < MaxConvs /\ streams < MaxStreams
  /\ created' = created + 1
  /\ streams' = streams + 1
  /\ table' = created'
  /\ fp' = [fp EXCEPT ![created'] = f]
  /\ stream' = [stream EXCEPT ![created'] = streams']
  /\ running' = running \cup {streams'}
  /\ Touch(created')
  /\ UNCHANGED <<evicted, silenced>>

(* ... or finds one, and replaces its stream if the runtime has changed.   *)
Rebuild(v, f) ==
  /\ streams < MaxStreams
  /\ streams' = streams + 1
  /\ fp' = [fp EXCEPT ![v] = f]
  /\ stream' = [stream EXCEPT ![v] = streams']
  /\ running' = (running \ {stream[v]}) \cup {streams'}
  /\ Touch(v)
  /\ silenced' = silenced \ {v}
  /\ UNCHANGED <<table, created, evicted>>

Reuse(v) ==
  /\ Touch(v)
  /\ UNCHANGED <<made, stream, running, silenced>>

GetOrCreate(f) ==
  \/ Existing = None /\ Create(f)
  \/ Existing # None /\ fp[table] # f /\ Rebuild(table, f)
  \/ Existing # None /\ fp[table] = f /\ Reuse(table)

(* The stream a thread has read is started unless it is running.           *)
EnsureRunning(t) ==
  /\ running' = Started(held[t])
  /\ silenced' = IF held[t] = stream[mine[t]] THEN silenced \ {mine[t]} ELSE silenced
  /\ held' = LetGo(held, t)

(* What Remove and dropClient do to the idle timer.                        *)
Leaves(c, v) ==
  /\ pool' = [pool EXCEPT ![v] = @ \ {c}]
  /\ ticking' = [ticking EXCEPT ![v] = pool'[v] = {}]
  /\ UNCHANGED <<onIdle, work>>

-----------------------------------------------------------------------------
(* A prompt is submitted, queued and run *)

Resolve(p, f) ==
  /\ pc[p] = "new"
  /\ GetOrCreate(f)
  /\ Goto(p, "resolved")
  /\ UNCHANGED <<activity, mine, held, eviction>>

(* StartPromptWithRunner looks the conversation up again.                  *)
AfterLookUp == IF table = None THEN "done" ELSE "found"

LookUp(p) ==
  /\ pc[p] = "resolved"
  /\ mine' = [mine EXCEPT ![p] = table]
  /\ Goto(p, AfterLookUp)
  /\ UNCHANGED <<made, stream, running, activity, idle, held, eviction, silenced>>

(* preparePromptSubmission: active at once or queued.                      *)
Admit(p) ==
  /\ pc[p] = "found"
  /\ work' = [work EXCEPT ![mine[p]] = @ \cup {p}]
  /\ Touch(mine[p])
  /\ Goto(p, "admitted")
  /\ UNCHANGED <<made, stream, running, pool, ticking, onIdle, mine, held, eviction,
                 silenced>>

Finish(p) ==
  /\ work' = [work EXCEPT ![mine[p]] = @ \ {p}]
  /\ Touch(mine[p])
  /\ Goto(p, "done")
  /\ mine' = LetGo(mine, p)
  /\ UNCHANGED <<made, stream, running, pool, ticking, onIdle, held, eviction, silenced>>

(* The runner starts for one prompt of an object at a time, and looks the  *)
(* conversation up by id once more.                                        *)
MyTurn(p) == \A q \in work[mine[p]] : pc[q] \notin {"starting", "running"}

RunnerLooksUp(p) ==
  /\ pc[p] = "admitted" /\ MyTurn(p)
  /\ table # None
  /\ held' = [held EXCEPT ![p] = stream[table]]
  /\ Goto(p, "starting")
  /\ UNCHANGED <<made, stream, running, activity, idle, mine, eviction, silenced>>

RunnerFindsNothing(p) ==
  /\ pc[p] = "admitted" /\ MyTurn(p)
  /\ table = None
  /\ Finish(p)

RunnerStarts(p) ==
  /\ pc[p] = "starting"
  /\ EnsureRunning(p)
  /\ Goto(p, "running")
  /\ UNCHANGED <<made, stream, activity, idle, mine, eviction>>

RunEnds(p) ==
  /\ pc[p] = "running"
  /\ Finish(p)

-----------------------------------------------------------------------------
(* A websocket is attached and goes *)

Attach(c) ==
  /\ pc[c] = "new"
  /\ mine' = [mine EXCEPT ![c] = table]
  /\ Goto(c, IF table = None THEN "creating" ELSE "found")
  /\ UNCHANGED <<made, stream, running, activity, idle, held, eviction, silenced>>

AttachCreates(c) ==
  /\ pc[c] = "creating"
  /\ GetOrCreate(DefaultFp)
  /\ mine' = [mine EXCEPT ![c] = table']
  /\ Goto(c, "found")
  /\ UNCHANGED <<activity, held, eviction>>

(* AddConn touches the object, adds the client to the pool...              *)
AddToPool(c) ==
  /\ pc[c] = "found"
  /\ pool' = [pool EXCEPT ![mine[c]] = @ \cup {c}]
  /\ ticking' = [ticking EXCEPT ![mine[c]] = FALSE]
  /\ Touch(mine[c])
  /\ held' = [held EXCEPT ![c] = stream[mine[c]]]
  /\ Goto(c, "joining")
  /\ UNCHANGED <<made, stream, running, onIdle, work, mine, eviction, silenced>>

(* ... and starts the stream it has read.                                  *)
AddConnStarts(c) ==
  /\ pc[c] = "joining"
  /\ EnsureRunning(c)
  /\ Goto(c, "attached")
  /\ UNCHANGED <<made, stream, activity, idle, mine, eviction>>

(* A slow or broken client is dropped; its read loop ends later.           *)
Drop(c) ==
  /\ pc[c] \in {"joining", "attached"}
  /\ c \in pool[mine[c]]
  /\ Leaves(c, mine[c])
  /\ UNCHANGED <<made, stream, running, idle, threads, eviction, silenced>>

RemoveConn(c) ==
  /\ pc[c] = "attached"
  /\ Leaves(c, mine[c])
  /\ Touch(mine[c])
  /\ Goto(c, "done")
  /\ mine' = LetGo(mine, c)
  /\ UNCHANGED <<made, stream, running, held, eviction, silenced>>

-----------------------------------------------------------------------------
(* Timers and time *)

TriggerIdle(v) ==
  /\ ticking[v]
  /\ ticking' = [ticking EXCEPT ![v] = FALSE]
  /\ onIdle' = [onIdle EXCEPT ![v] = pool[v] = {}]
  /\ UNCHANGED <<made, stream, running, pool, work, idle, threads, eviction, silenced>>

Silenced(v) == IF pool[v] = {} THEN silenced ELSE silenced \cup {v}

CallOnIdle(v) ==
  /\ onIdle[v]
  /\ onIdle' = [onIdle EXCEPT ![v] = FALSE]
  /\ running' = running \ {stream[v]}
  /\ silenced' = Silenced(v)
  /\ UNCHANGED <<made, stream, pool, ticking, work, idle, threads, eviction>>

TimePasses(v) ==
  /\ v = table
  /\ ~idle[v]
  /\ idle' = [idle EXCEPT ![v] = TRUE]
  /\ UNCHANGED <<made, stream, running, activity, threads, eviction, silenced>>

-----------------------------------------------------------------------------
(* The eviction loop *)

ChooseTarget ==
  /\ table # None
  /\ evictor = "rest" /\ evictor' = "pool"
  /\ target' = table
  /\ seen' = pool[table] \cup work[table]
  /\ UNCHANGED <<made, stream, running, activity, idle, threads, silenced>>

Rests == evictor' = "rest" /\ target' = None /\ seen' = {}
Advances(to) == evictor' = to /\ UNCHANGED <<target, seen>>

(* shouldEvictConversation: each of the three under a lock of its own.     *)
IsBusy(v) == work[v] # {}

Keeps ==
  \/ evictor = "pool" /\ pool[target] # {}
  \/ evictor = "stream" /\ stream[target] \in running
  \/ evictor = "queue" /\ (IsBusy(target) \/ ~idle[target])

Check ==
  /\ \/ Keeps /\ Rests
     \/ ~Keeps /\ \/ evictor = "pool" /\ Advances("stream")
                  \/ evictor = "stream" /\ Advances("queue")
                  \/ evictor = "queue" /\ Advances("delete")
  /\ UNCHANGED <<made, stream, running, activity, idle, threads, silenced>>

(* Deleted only if the table still has this very object; it does, since    *)
(* but for Close at shutdown nobody else takes one out.                    *)
StillStored(v) == table = v

Delete ==
  /\ StillStored(target)
  /\ evictor = "delete" /\ Advances("close")
  /\ table' = None
  /\ evicted' = evicted \cup {target}
  /\ UNCHANGED <<created, streams, fp, stream, running, activity, idle, threads, silenced>>

(* cleanupConversation: CloseAll, and then the stream.                     *)
CloseAll ==
  /\ evictor = "close" /\ Advances("stop")
  /\ pool' = [pool EXCEPT ![target] = {}]
  /\ ticking' = [ticking EXCEPT ![target] = FALSE]
  /\ UNCHANGED <<made, stream, running, onIdle, work, idle, threads, silenced>>

StopStream ==
  /\ evictor = "stop" /\ Rests
  /\ running' = running \ {stream[target]}
  /\ silenced' = Silenced(target)
  /\ UNCHANGED <<made, stream, activity, idle, threads>>

EvictorStep == ChooseTarget \/ Check \/ Delete \/ CloseAll \/ StopStream

-----------------------------------------------------------------------------
PromptStep(p) ==
  \/ \E f \in Fingerprints : Resolve(p, f)
  \/ LookUp(p) \/ Admit(p)
  \/ RunnerLooksUp(p) \/ RunnerFindsNothing(p) \/ RunnerStarts(p) \/ RunEnds(p)

AttachStep(c) == Attach(c) \/ AttachCreates(c) \/ AddToPool(c) \/ AddConnStarts(c)

TimerStep(v) == TriggerIdle(v) \/ CallOnIdle(v)

Next ==
  \/ \E p \in Prompts : PromptStep(p)
  \/ \E c \in Clients : AttachStep(c) \/ Drop(c) \/ RemoveConn(c)
  \/ \E v \in Convs : TimerStep(v) \/ TimePasses(v)
  \/ EvictorStep

Spec == Init /\ [][Next]_vars

(* Goroutines run, timers fire, time passes and runs end; prompts and      *)
(* clients need not come, clients need not leave.                          *)
FairSpec ==
  /\ Spec
  /\ \A p \in Prompts : WF_vars(pc[p] # "new" /\ PromptStep(p))
  /\ \A c \in Clients : WF_vars(pc[c] # "new" /\ AttachStep(c))
  /\ \A v \in Convs : /\ WF_vars(TriggerIdle(v)) /\ WF_vars(CallOnIdle(v))
                      /\ WF_vars(TimePasses(v))
  /\ WF_vars(EvictorStep)

-----------------------------------------------------------------------------
(* Properties *)

(* Whoever asks for the conversation, there is one object for it: those    *)
(* made are in the table or have been evicted (GetOrCreate, evictIdleOnce),*)
(* the eviction cleans up only what it has evicted, and the idle timer the *)
(* pool knows of does not tick over a client (AddConn, RemoveConn,         *)
(* cleanupConversation).                                                   *)
LifecycleInv ==
  /\ 1..created \ evicted = {table} \ {None}
  /\ evictor \in {"close", "stop"} => target \in evicted
  /\ \A v \in Convs : ticking[v] => pool[v] = {}

(* A prompt or a client that a conversation has from the moment the        *)
(* eviction loop takes it up keeps it from being evicted                   *)
(* (shouldEvictConversation).                                              *)
KeptWhileInUse ==
  [][evicted' # evicted => seen \cap (work[target] \cup pool[target]) = {}]_vars

(* A client whose AddConn is done and that is still in the pool has a      *)
(* running stream, unless an idle callback or a clean-up that was already  *)
(* under way when it came has stopped it (AddConn, onIdle, GetOrCreate).   *)
AttachedIsServed ==
  \A c \in Clients :
    pc[c] = "attached" /\ c \in pool[mine[c]] =>
      stream[mine[c]] \in running \/ mine[c] \in silenced

(* A conversation that nobody uses and whose stream is stopped does not    *)
(* stay in the table for ever (evictIdleOnce).                             *)
Unused ==
  /\ table # None
  /\ pool[table] = {} /\ work[table] = {} /\ stream[table] \notin running
UnusedIsEvicted == ~ <>[]Unused

(* TestConvManagerEvictIdleOnce_SkipsBusy: a conversation that is busy     *)
(* when the eviction comes to it stays in the table.                       *)
EvictionSkipsBusy == [][evicted' # evicted => work[target] = {}]_vars
=============================================================================

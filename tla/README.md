# TLA+ models of the web chat server

This directory models the server core of `go-go-os-chat` (`pkg/webchat`,
`pkg/profilechat`, `pkg/persistence/chatstore`, `pkg/inference/runtime`): how a
request selects a runtime, how prompts are queued and run, how conversations are
created, streamed, shared by websockets and evicted, how events become frames,
and how timelines and turns are projected, stored and read back.  The models are
checked with TLC on small instances; what matters most is proved with TLAPS for
every value of the constants.

## The system

A **conversation** is an in-memory object keyed by a conversation id.  Clients
post prompts to it over HTTP and watch it over websockets.

| component | state it keeps | operations | talks to |
|---|---|---|---|
| Prompt queue and chat service (`send_queue.go`, `chat_service.go`) | active key, queue, one record per idempotency key, all under `Conversation.mu` | submit (replay, enqueue, start), persist the start result, wait, finish, drain | ConvManager (resolve, look up), a `Runner` |
| Conversation manager (`conversation.go`, `conv_manager_eviction.go`) | table of live conversations under `ConvManager.mu`; eviction loop | `GetOrCreate`, `GetConversation`, `AddConn`, `RemoveConn`, evict | pool, stream, projector, timeline store |
| Stream coordinator (`stream_coordinator.go`) | one consumer goroutine per start, `running`, `cancel`, last sequence number | `Start`, `Stop`, `Close`, `IsRunning`, consume | subscriber, SEM translator, callbacks of the conversation |
| Connection pool (`connection_pool.go`) | websocket clients with bounded send buffers, one idle timer | `Add`, `Remove`, `Broadcast`, `SendToOne`, `CloseAll`, writer, idle timer | websocket, stream (idle callback) |
| Stream hub and HTTP handlers (`stream_hub.go`, `http/api.go`) | nothing of their own | resolve, attach a websocket, submit, read a timeline | all of the above |
| LLM loop runner (`llm_loop_runner.go`, `llm_state.go`) | `Conversation.llm`: engine, session, tools and the fingerprint they are for | ensure state, append a turn, start inference | composer, geppetto sessions, stream, timeline, turn store |
| SEM translator (`sem_translator.go`, `sem/registry`) | caches of message ids and tool calls, shared by all conversations | translate an event into frames | handlers |
| Frame buffer and debug routes (`sem_buffer.go`, `router_debug_routes.go`) | the last frames of a conversation | add, page since a number | conversation callbacks |
| Timeline projector (`timeline_projector.go`, `timeline_registry.go`, `timeline_upsert.go`) | role, content and last write per message; tool names and inputs | apply a frame | timeline store, hooks |
| Timeline stores (`timeline_store_memory.go`, `timeline_store_sqlite.go`) | entities with versions, conversation versions, conversation index | upsert, snapshot since a version, conversation index | SQLite |
| Turn store (`turn_store_sqlite.go`, `block_hash.go`) | turns, content-addressed blocks, membership | save, list, backfill | SQLite |
| JS timeline runtime (`timeline_js_runtime.go`, `timeline_registry.go`) | a goja VM with reducers and handlers; which runtime and handlers are installed | register, install, replace, clear, handle an event | projector |
| Runtime composition and request resolution (`runtime_plan.go`, `runtime_composer.go`, `request_resolver.go`) | none of their own | select a profile, merge the runtimes of its stack, fingerprint, compose an engine | profile registry, which may be edited meanwhile |

Goroutines that meet in one conversation: HTTP handlers, one waiter per run, one
or more stream consumers, one writer and one reader per websocket, the idle
timer, the eviction loop.  The locks are `Conversation.mu`, `ConvManager.mu`,
the pool's, the coordinator's, the projector's and the stores'.  Most sections
under one of them call nothing that takes another; `GetOrCreate` is the exception:
it keeps `ConvManager.mu` while it takes `Conversation.mu`, stops and starts the
stream and writes the conversation's record.  Between any two locked sections
another goroutine may step.  That is where the hard behaviours are:

* queue: a retry, a new submission and a draining thread race for a
  conversation that has just become free; a start fails;
* stream: `Stop` followed at once by `Start`, while the previous consumer is
  still on its way out;
* pool: a broadcast works on a copy of the client set while clients are dropped;
  the idle timer fires while a client is added;
* manager: eviction decides on a snapshot and acts later; a prompt or a
  websocket arrives in between;
* timeline: several writers with their own idea of the version, readers who
  poll "since" the last version they saw, a limit that truncates, a late frame;
* turns: a crash between two statements of a migration, a list that reads while
  a snapshot is replaced, blocks that several snapshots share;
* translator: caches that conversations share and late events disturb, a stream
  that is stopped in the middle of a run or has two consumers for a while, pages of
  a ring that is trimmed meanwhile;
* runtimes: a registry edited between two readings, an engine composed without
  the lock while a rebuild is half done or has failed, a script runtime replaced
  under a frame.

## What makes each component correct

* **Queue**: runs of a conversation never overlap; each prompt runs at most
  once however often it is retried; queued prompts run in order and, unless
  starts fail, do run; a client never sees a prompt go backwards.
* **Stream**: a running stream has a consumer, each dispatches its events in
  order, no number is given twice.
* **Pool**: a client in the pool is open, is served and has no gap in what it was
  sent; once the last one has gone, some timer notices.
* **Manager**: a conversation in use is not evicted, an attached client has a
  running stream, an unused conversation is eventually evicted.
* **Timeline**: what the store holds is what the latest frame said; a client
  that polls snapshots ends with the stored timeline; both stores agree.
* **Custom projections**: each frame is projected as the scripts' documentation
  says, by the runtime, the handlers or the built-in projection, and never by a
  runtime that is being closed once it was replaced.
* **Turns**: the tables are a map of whole snapshots, through crashes and
  migration; a list gives no mixture of two saves; no key is forgotten.
* **Translator**: no frame has the id of another engine's message; the frames of a
  message that one consumer saw to share an id no other named message has, and its
  tool call is shown once and in order; clients get their own session only.
* **Runtimes**: the engine a prompt runs with is composed of what the conversation
  resolved last, as far as its fingerprint tells, and turns stay in one session and
  carry the engine's key between rebuilds.

## Modules

| module | models | state and actions |
|---|---|---|
| `SerialPrompts` | what the chat service promises | abstract: which prompts wait, which one runs, which are over |
| `PromptQueue` | `send_queue.go`, `chat_service.go` | one action per section under `Conversation.mu`; `active`, `queue`, `rec` are the conversation's fields, `pc[k]` is where the thread that works for prompt `k` is, `answer[k]` what its clients were last told |
| `ConnectionPool` | `connection_pool.go`, the read loop of `stream_hub.go` | one action per section under the pool's mutex; `todo[s]` is a sender's copy of the client set, `stage` and `victim` who is dropping whom, `idleTimer`, `stray` and `fired` the timer known to the pool, those it lost track of and those whose function is about to run |
| `StreamCoordinator` | `stream_coordinator.go` | consumer `r` is the goroutine of the `r`-th `Start`; `phase[r]` and `inbox[r]` are its place in `consume` and its subscription, `out` is every frame dispatched |
| `ConversationLifecycle` | `conversation.go`, `conv_manager_eviction.go`, their callers | objects and streams behind one conversation id; `pc` of prompts, clients and the evictor between their locked sections |
| `TimelineStore` | `timeline_store_memory.go`, `timeline_store_sqlite.go` | both stores side by side, given the same calls; a client that polls |
| `TimelineProjector` | `timeline_projector.go`, `timeline_upsert.go`, the hook in `conversation.go`, the user message in `llm_loop_runner.go` | caches, consumers between "projecting", "storing" and "telling", `rows` in the store, `shown` on the websockets, the runner |
| `TimelineRuntime` | `timeline_registry.go`, `timeline_js_runtime.go`, their place in `ApplySemFrame` | what is installed, replaced and closed; per conversation the frame at hand, the runtime and handlers it read, what the reducers returned; the decoding of a return value as operators |
| `TurnArchive` | what `turn_store.go` promises | abstract: blocks per snapshot; a save replaces one snapshot as a whole |
| `TurnStore` | `turn_store_sqlite.go`, `block_hash.go`, `turn_persister.go`, `turn_snapshot_hook.go`, the turn routes | the three tables, the open transaction, each statement of the migration, a reader between its queries |
| `SemTranslator` | `sem_translator.go`, `sem/registry`, `sem_buffer.go`, the frame route | both caches, the ring; per consumer of a topic its phase, the event it has yet to translate and the frames not yet delivered; engines that publish, clients that page |
| `RuntimeSelection` | `request_resolver.go`, `runtime_plan.go`, `runtime_composer.go`, `GetOrCreate` of `conversation.go`, `llm_state.go`, `llm_loop_runner.go`, the handlers of `http/api.go` | per request what it has resolved so far; the fields of the conversation a rebuild writes, one after the other; the cached engine and session; the runner between its sections |
| `MCConnectionPool`, `MCTimelineProjector`, `MCTurnStore`, `MCSemTranslator`, `MCRuntimeSelection` | | symmetry of clients; the scripts, payloads, files, profiles and registries that are checked |
| `PromptQueueProofs`, `ConnectionPoolProofs`, `StreamCoordinatorProofs`, `TimelineProjectorProofs`, `TurnStoreProofs`, `RuntimeSelectionProofs` | | theorems about the module each is named for, and their proofs |
| `ConversationProofs` | | the same for `ConversationLifecycle` and `SemTranslator` |
| `TimelineProofs` | | the same for `TimelineStore` and `TimelineRuntime` |

Each module cuts the system at the calls between components: `PromptQueue` lets
`runner.Start` succeed or fail, `StreamCoordinator` is started and stopped by
anybody, `ConversationLifecycle` keeps of queue, pool and stream only what
eviction looks at, `TimelineStore` is written with versions in any order, and
`TimelineProjector` repeats the consumers of `StreamCoordinator` in short, with
the script of events in place of the SEM translator.  `SemTranslator` makes the
frames and `TimelineRuntime` sits between them and the projection.
`RuntimeSelection` composes what the others leave out of a prompt's way: the
handler, the resolver, the manager, the composer and the runner, with the queue
reduced to a number of admitted prompts that run one at a time (which
`PromptQueue` shows) and eviction left to `ConversationLifecycle`.

A section under a lock is one step.  Code between two sections can only be
interleaved where it reads or writes something shared, and there it has a step
of its own: a pool's send outside the lock, the idle callback after it, a row
written after the projector's caches, the two queries of a SQLite snapshot.

## What the runs check

| run | properties | what it shows |
|---|---|---|
| `prompt_queue` | `QueueInv` | the active key is that of a prompt that executes, queue and records agree, and a prompt is never left behind in a free conversation unless its direct start failed |
| | `PromotedInOrder`, `AnswersNeverRegress` | order of the queue; a client is never told less than before |
| | `IsSerial` | the queue implements `SerialPrompts` (refinement mapping in the module) |
| | `QueuedGetsExecuted` | a queued prompt runs, unless a direct start fails |
| `connection_pool` | `NothingMissed` | a client that cannot keep up is cut off, never left with a gap; only an HTTP handler that panics on another client leaves one, its last message |
| | `PoolInv`, `EmptyIsNoticed` | who is in the pool is open and served; once the last one leaves, some timer will notice |
| `stream_coordinator` | `RunningInv`, `DispatchInv` | a running stream has a live consumer; frame numbers are unique, and ordered within a consumer, whatever stream ids come |
| | `EventsAreHandled` | what a live subscription holds is dispatched, after undecodable events too |
| `conversation_lifecycle` | `LifecycleInv`, `AttachedIsServed`, `KeptWhileInUse`, `UnusedIsEvicted` | one object per id; an attached client has a running stream but for a stale stop; what is in use when eviction looks is kept; what is unused and stopped goes |
| `timeline_store` | `OnlyLateWritesAreMissed` | a poller misses a row only if it was written with a version that was no longer new |
| | `StoresAgree`, `MemoryDropsOldest`, `IndexNeverRegresses` | the two stores hold the same, but for what the limit of the in-memory one dropped, its oldest; old conversation records do not win |
| `timeline_projector` | `Projected` | the stored timeline says what was published: whole texts once a message has ended, throttled deltas included |
| | `ClientsInv` | a websocket was told exactly what is stored, through failing writes and overlapping ones, and `lastSeenVersion` covers the projected rows through rebuilds that number events from 1 again |
| | `NeverReopened` | as long as one consumer sees to a message, and no engine begins it again (`EndOnce`), what has ended stays ended, summaries after the end included |
| `timeline_runtime` | `ProjectionInv` | a frame that was projected has the entities its reducers are documented to mean, written first and none lost to another's throw; a consumed frame and only that one is kept from handlers and projection; a runtime that is installed is neither closed nor about to be |
| `turn_store` | `StoreInv` | no turn is younger than a snapshot of it, and none was updated before one saved since the file was opened first; blocks are numbered without gaps, columns follow the metadata, a migrated file keeps its dates |
| | `ListedInv` | what a list or the turn route gives was saved under that key in one save |
| | `KeysNeverForgotten` | no save, backfill or crash erases a runtime key or inference id |
| | `ArchivesSnapshots` | the tables implement `TurnArchive` (refinement mapping in the module) |
| `sem_translator` | `TranslationInv` | whatever consumers come, go and overlap, no frame has another engine's id; a message that one consumer saw to keeps its id and its tool call is shown once and in order; clients get their own session |
| | `PagesInv` | the ring has the last frames; a client that pages never gets one twice and misses none before one was dropped |
| `runtime_selection` | `PlanInv` | a stack's runtimes merge as their tests say: last prompt, tools once and in order, the last use of a middleware |
| | `EngineInv` | after a `GetOrCreate` that did not fail half way the fingerprint is that of the runtime resolved last; the cached state for it, and the state of a prompt until the next rebuild, agree with that runtime in all that a fingerprint tells, unless torn: composed of what was read half way through a rebuild; a torn state passes for the fingerprint outside a rebuild only if one has failed half way or two ended while it was composed; between rebuilds two runs in a row share a session, and a turn is stored with the key of the engine that made it |

Each module also has a `TypeOK`, which says more than types where fields depend
on each other (in `SemTranslator` it is `SemTypeOK`; in `TimelineRuntime` it is
part of `ProjectionInv`).

Two more runs each show one place where the code does not do what a comment or a
test says (`findings` in `PROJECT.json` quotes both):

* `prompt_queue_guarded`: the response map of a queued prompt is written under
  `mu` while its handler reads it without;
* `conversation_lifecycle_busy`: eviction may take a conversation that became
  busy after it looked.

### Bounds, and why they are enough

* `prompt_queue`: three keys, any number of retries: one runs, two wait, so that
  there is an order to keep; a fourth only lengthens the queue.
* `connection_pool`: two clients (one is dropped while the other is served), a
  buffer of one (full after one frame), two frames of one sender, which is an HTTP
  handler so that its panics are survived (a read loop's are not), two firings of
  timers (a late one and the current one).  The proofs are for any senders.
* `stream_coordinator`: two starts (a consumer and its successor), three events,
  the first undecodable, stream ids without a number or with one that repeats.
* `conversation_lifecycle`: a prompt, two clients, two objects and two streams:
  the object evicted and its successor, the stream replaced and the new one.
* `timeline_store`: three entities with room for two, three writes with versions
  one and two: one dropped row, a new, a repeated and a late version, limits below
  and above the number of rows.
* `timeline_projector`: a script with every kind of frame and eleven events, two
  consumers, one event that a cancelled consumer still receives; the writes of the
  answer may fail, any of them.  `MaxLag` is 1: the next event is published when the consumers
  have received the last one, so one is projected while the next waits.
* `timeline_runtime`: one conversation with one frame, two runtimes (the one
  replaced and its successor), two reducers (one that throws beside one that does
  not, one for the type beside one for "*"), one handler beside the default one.
* `turn_store`: two saves and one crash over a new file and two of older versions
  (with the date of creation in its old column, and with that one date only), which
  hold a snapshot newer than the date of its turn, that the saves may replace or stand
  beside; with payloads that share a block, change it, or have none; two milliseconds, so
  that a snapshot is replaced, and dated before an earlier one; three queries.
* `sem_translator`: one conversation whose engine names its messages, two sessions
  (an event of the first arrives in the second) and messages, four events of the first
  engine, so that a message is begun, ended and followed by another or by a tool call,
  and one of the second; ids are made up for messages whose beginning was lost; two
  consumers, which may overlap, be both gone, or be behind; a client that pages for the
  deltas, with a ring of two frames and pages of one: pages are cut, and the ring drops
  frames between them.  One conversation is enough, since the caches keep the engines
  apart (`OwnIds`) and conversations share nothing else; the theorems are for any number
  of them, of consumers and clients, and for engines that name no message (`Naming`).
* `runtime_selection`: three requests, which are interchangeable: enough for one
  runtime, another, and the first again, which is what it takes for a torn state to
  outlive its rebuild; four registries with a stack of two profiles and one alone, and
  an edit or two: of a prompt, the tools, prompt and settings with a new version, the
  settings outside their metadata, and of a profile that cannot be encoded.

`CHECK_DEADLOCK FALSE` stands where the system may come to rest: all prompts
done, all clients gone, all events published.

### Fairness

Weak fairness is put on the steps of goroutines that have begun, and on nothing
a client does.  The Go scheduler runs every runnable goroutine; mutexes are held
for bounded sections.  Beyond that:

* `PromptQueue`: `runner.Start` and `Handle.Wait` return.  With finitely many
  prompts a waiting one is overtaken finitely often, so weak fairness is enough.
* `StreamCoordinator`: the channel of a cancelled subscription closes even when
  there always is an event to take instead (strong fairness of `ChannelCloses`),
  which is how `range` over the transport's channel ends.
* `ConversationLifecycle`: timers fire, time passes, the eviction loop ticks,
  runs end.
* The other modules are checked for safety only: nothing in them waits for
  anything but a call that returns.

## What is proved

For every value of the constants, from the `ASSUME`s of the modules (TLC
evaluates each) and nothing else.  Every invariant and action property of the
passing runs has a theorem, and so has each refinement; what is left to TLC is
liveness.

The assumptions say that sets the code keeps apart are disjoint and that bounds
are numbers.  Four say more:

* `SelectionAssumption`: the requests are finitely many, so that those admitted
  can be counted, a stack of profiles has at least one, and what a catalogue says
  of a profile's runtime is a runtime or none;
* `BlankIsString` of `RuntimeSelection`: the empty string is a string.  This is
  true in TLA+, but the provers know no string to be one;
* `UserAssumption` of `TimelineProjector`: a user's message, whose id the runner
  makes (`"user-"` and the turn, `llm_loop_runner.go:142`), shares it with nothing else;
* `FilesAssumption` of `TurnStore`: a database file that is opened was written by
  this version or by an older one: it dates creations in the new column or only in
  the old one, keeps its snapshots by turn, phase and millisecond, and dates neither
  a turn nor a block later than a snapshot of it.  Its dates of update are not trusted.

One theorem has a hypothesis besides, `TimelineIsFaithful`: the script is
`WellFormed`.  A message or tool call is begun before it goes on, and once; one
event makes at most one frame of an entity, and all frames of an entity are of its
family; no text is added to a summary.  These are the translator's ids
(`":thinking"`, `sem_translator.go:347`) and the engines' order of events; without
them there is no saying what the timeline should show.  `MCTimelineProjector`
assumes it of its script, so TLC checks that there is such a script.

### The proofs

* `PromptQueueProofs`: types, `QueueInv`, the refinement `IsSerial`, and both
  action properties.  The invariant `IInv` is `TypeOK /\ QueueInv`.  `QueueInv`
  relates the active key, the queue, the records and the threads, so that it is
  inductive as it stands: the key a thread claims is known to be waiting, hence
  to run for the first time.  `PromotedInOrder` follows since nothing repeats in
  the queue and a step takes no key but its head out of "queued" (`OnlyHeadLeaves`).
  `AnswersNeverRegress` does not follow from `IInv`, which knows nothing of what
  clients were told: `RecordsAhead` adds that a record is at or ahead of it.  It
  is kept because a record only advances and an answer is either the one before or
  what the record says.
* `ConnectionPoolProofs`: types, `NothingMissed`, `PoolInv` and
  `EmptyIsNoticed`.  The strengthening, `ThreadsInv`, says of each thread that is
  about to drop a client what it knows: which client, and that the client was
  attached.  Without it the step that closes a channel could be anybody's.
* `StreamCoordinatorProofs`: types, `RunningInv` and `DispatchInv`.  The numbers
  already given out are bounded by the coordinator's last one (`NumbersInv`),
  and what a subscription still holds is newer than what its consumer has
  dispatched (`OrderInv`); only with both does a step keep `DispatchInv`.
* `ConversationProofs`, of `ConversationLifecycle`: types, `LifecycleInv`,
  `AttachedIsServed` and `KeptWhileInUse`.  That stopping one object's stream leaves every other client
  served needs that no two objects share a stream (`StreamsInv`); that a client
  still starts the right stream needs that between its two sections it has read
  the current one, or a rebuild has put in a running one (`JoiningIsServed`);
  and that three checks under three locks amount to one needs that nobody seen
  in the pool or the queue at first comes back to it once gone (`SeenInv`).
* `ConversationProofs`, of `SemTranslator`: types, `TranslationInv` and `PagesInv`,
  from `SemIInv`.  That no frame has another engine's id needs only that the cache, the
  events and the frames under way have their own (`CacheInv`, `Pending`, `OwnNamed`),
  whoever translates.  The rest is about engines that are `Followed`: one consumer saw
  to the whole message so far, and is still alone and has nothing to catch up
  (`ConsumersInv`).  For those an event without an id gets the cached one; that this is
  the id its message began with needs that the cache holds the engine's own message for
  as long as its events may lack an id, and that frames under way
  already carry their message's (`FramesInv`).  How far a client is with a tool
  call follows from the stage of the engine that made it and the frames its one
  consumer has not yet delivered (`CallFollows`), so that each frame, arriving, is
  the next one to be shown.  An event that a consumer has yet to translate is of a
  disturbed message or an earlier session, so that what it does to the caches touches
  nobody who is followed (`LooseStep`).  `PagesInv` rests on what the ring holds (`RingInv`:
  the last frames in order) and on where a client stands (`ClientsInv`): nothing it
  has got is beyond its cursor, and until the ring has dropped a frame it has got all
  it wants up to there.
* `TimelineProofs`, of `TimelineStore`: `OnlyLateWritesAreMissed`, by way of `VersionsBounded`
  (no row, and nothing a poller was given, has a version above the store's);
  `IndexNeverRegresses`, from the fact that a merged record goes on from the one
  there was; `StoresAgree`; and the types and `MemoryDropsOldest`, which need each
  other: a write adds at most one row to a memory that was within its limit
  (`TypeInv`), so that what is dropped is exactly one row, which has the oldest
  version there is (`CappedSize`).
* `TimelineProofs`, of `TimelineRuntime`: `ProjectionInv`.  What has been written
  begins with what is meant, what is yet to be written continues it (`Writing`),
  and what follows the meant entities comes from list handlers or the builtin
  projection (`RestIs`).  That the decoding yields what is meant is shown for each
  form of return value and for a throw (`ReturnDecodes`), and for all reducers of
  a frame together, however many (`AllDecode`).
* `TimelineProjectorProofs`: types, `ClientsInv`, `NeverReopened` and `Projected`.  Consumers
  and the runner write at once, so the invariant says whose writes may meet.  Who
  writes a message has projected an event onto it, and the runner writes users'
  messages only, where both write the same (`Writes`); so with one consumer the
  websockets are behind the store by at most the write being told (`Shows`).
  `lastSeenVersion` covers a row or the hook of just that row's version is about
  to run (`Sees`).  For `NeverReopened`, `Ends` looks ahead: once the row or the
  write in flight has ended a message, all frames of it that its consumer still
  has of its event, or will receive, end it too; `InStep` says that what a
  consumer has at hand is a tail of its event, without which it could be anything.
  For `Projected`, `Faithful` ties the caches, the write in flight and the row to
  the last event that the consumer has projected of the message (`Done`), in the
  middle of an event too: the caches hold the whole text and the row a beginning of
  it, since a throttled delta is remembered but not written.  The text that should
  be there is a choice over all deltas so far; the lemmas about the script
  (`IdealFirst`, `IdealDelta`, `IdealFinal`, `IdealSummary`) turn it into what one
  event adds, and each kind of frame has a lemma that its action adds the same.
* `TurnStoreProofs`: types, `StoreInv`, `ListedInv`, `KeysNeverForgotten` and
  the refinement `ArchivesSnapshots`.  What is filed under a key is what one save
  under that key wrote, as rows in order (`Filed`); an open transaction holds the
  first of them for its key and every other key's as they were (`Underway`), so
  that its commit is one step of `TurnArchive` and a rollback none.  How dates and
  keys may look depends on how far the migration has come, crashes included
  (`Dating`, `Keying`); the dates of update need not reach the snapshots a file came
  with (`late`).  For lists, `Reads` says that rows and items of a reader
  account for every turn that had a snapshot when it began.
* `RuntimeSelectionProofs`: types, `EngineInv` and `PlanInv`.  Of the requests at most one is
  inside `GetOrCreate`'s rebuild and what it has written by each of its steps is
  known (`Progress`); a state that is not torn has what its own fingerprint tells
  (`IsState`), so that it need not be compared with a runtime that has changed since;
  and a run whose reading is not yet overtaken by a rebuild has the cached session
  (`Sessions`).  What was read half way through a rebuild has the fingerprint that
  rebuild replaces by another before it drops the cached state (`TornReading`), so
  that a second one has to bring it back.  For `PlanInv`, what a request has merged is
  what the layers it has read stack to (`PlanOf`), and one layer more keeps that
  (`MergeStacks`), for stacks of any height: a merge keeps each name once, at its
  first place (`OnceEachAppend`), and dropping repetitions before the next layer
  is joined changes neither that order (`OnceEachJoined`) nor which use is the
  last (`UsesOfJoined`).

Each theorem has the same shape: the initial states satisfy the invariant, each
action preserves it (one lemma or case per action), and the invariant implies
the property.  Before it was proved, each invariant was checked with TLC.

What a fold or a recursive function gives for sequences of any length needs
induction, and the library's induction theorems take an operator, which the
provers cannot instantiate.  Where it is needed (merges of layers, flattened
return values) the induction is written out: of a set of naturals where
the statement fails there would be a least one.

### Only model-checked

`QueuedGetsExecuted`, `EventsAreHandled` and `UnusedIsEvicted`: liveness under
fairness is out of the prover's reach.

## Other deviations seen while modelling

The properties above are stated so that they hold; these are the places where
the stronger form one might expect does not.

* `send_queue.go:165`: a retry is answered "queued" although its prompt has been
  promoted, until the start result is persisted.
* `stream_coordinator.go:99`: `Stop` does not wait, so the successor may dispatch
  an event before the old consumer dispatches an earlier one; two such consumers
  may also reopen an ended message (`timeline_projector.go:166`).
* `conversation.go:467`: the stream object read before a rebuild may be started
  beside the one that replaced it.
* `stream_hub.go:92`: a websocket may be attached to an object just evicted.
* `connection_pool.go:246`: the idle callback may stop the stream under a client
  that was added after the pool was seen empty (`AttachedIsServed` excludes it).
* `timeline_store_sqlite.go:473`: a truncated snapshot carries the version of its
  last row, but rows come in first-seen order, so going on from it may skip rows.
* `timeline_store_memory.go:262`: a truncated snapshot carries the version of the
  conversation: going on from it skips the rest.
* `timeline_store_sqlite.go:353`: a write with an old version takes the row's
  version down; who polls since a newer one never sees it.  The runner writes the
  user's message that way (`llm_loop_runner.go:245`), and so does every rebuilt
  stream, whose numbers start from 1 (`stream_coordinator.go:213`).
* `sem_translator.go:441`: the result and the end of a tool call share a version.
* `connection_pool.go:121`: a broadcast may send on the channel of a client that
  was dropped after the client set was copied, which panics.  In a stream consumer,
  a read loop or the goroutine that drains a queue the process ends (`crashed`).  In
  the goroutine of an HTTP handler, which broadcasts the user's message of a prompt
  that starts at once (`llm_loop_runner.go:145`), `net/http` recovers it (stage
  `panicked`): the clients it had not got to stay connected without that message.
  `Start` does not return then, so the conversation's active key stays claimed and
  its queue stands still (`PromptQueue` takes it that `Start` returns).  A hello that
  panics (`stream_hub.go:113`) leaves no read loop, for a client closed already.
* `stream_coordinator.go:186`: a stopped consumer on its way out clears `running`
  and `cancel` of its successor, which can then not be stopped.
* `conversation.go:445`: a stream started for a conversation that no client ever
  joined is never stopped, and the conversation never evicted.
* `turn_store_sqlite.go:318`: the snapshots of a turn share its row, so an earlier
  one reads back the metadata of the last; a snapshot without blocks is never
  listed; one of the same phase and millisecond replaces the one before.
* `turn_store_sqlite.go:176`: a file without dates of update is given those of
  creation, which a turn's later snapshots in that file are newer than, until a save
  of the turn reaches past them (`past.late`).  The column orders nothing but indexes.
* `turn_store_sqlite.go:146`: a migration stopped between adding the date of
  creation and copying it never copies it (`past.interrupted`).
* `conversation.go:416`: the idle callback stops the stream in the middle of a run,
  and what is published until it is started again is lost: a tool call may be shown
  without its start, and an event without an id gets the cached id of the message
  before, or one made from the inference.
* `stream_coordinator.go:97`: `Stop` does not wait, so that two consumers may translate
  one event: frames are sent twice, and one ends a message whose id the other then makes
  up.  `TranslationInv` says of such messages (`disturbed`) only that they take no id of
  another engine's; the model lets a consumer start at any time, more than
  `StreamCoordinator` and `ConversationLifecycle` do, which have the flags.  It takes a
  translation as one step, though the look in the cache and the store are two.
* `sem_translator.go:209`: an event without an id after its message has ended gets
  an id made from the inference, and so does every message of an engine that names
  none: two of them in one inference share it.  The cache of tool calls is never
  cleared.
* `router_debug_routes.go:309`: the numbers of the frame route are places in the
  ring, so that a client misses frames once the ring has dropped some, and starts
  in the wrong place after the conversation was re-created.
* `timeline_registry.go:47`: installing the runtime that is installed closes it
  (`SetTimelineRuntime` leaves this out); a frame that has read a runtime which is
  then closed is lost.
* `timeline_js_runtime.go:337`: a reducer that returns `{}` makes an entity; a
  reducer that does not return holds up every conversation.
* `runtime_plan.go:160`: of the inference settings a fingerprint tells
  `GetMetadata()`, but the engine is composed of all of them
  (`runtime_composer.go:144`): an edit outside the metadata that raises no version
  changes no fingerprint, and the engine of before stays until the next rebuild.
* `runtime_plan.go:136`: a fingerprint that cannot be encoded is the key alone, so
  that no edit of the profile changes it (`Unencodable`).
* `llm_state.go:74`: an engine composed from a conversation that was read half way
  through a rebuild is stored under the old fingerprint if that rebuild and one back
  end meanwhile, and then serves it with another profile's engine and key until the
  next one (`torn`; `TornInv` says that this is the only way without a failure).
* `conversation.go:328`: a rebuild whose subscriber fails leaves what was resolved
  new and the fingerprint old; the next request with the old fingerprint passes.  What
  the runner composes in between passes too, and stays: an engine of the refused
  profile's settings under the old fingerprint.
* `runtime_plan.go:96`: the runtimes of a stack are read one after the other, after
  its version: an edit between gives a mixture, and a rebuild later.
* `runtime_plan.go:110`: the tools and middlewares of a stack of one profile are not
  normalised as those of a merged one are.
* `conversation.go:351`: a rebuild drops the session, so the next run starts without
  the turns before it; a websocket with another profile is enough.

## Plan

Done, in this order: prompt queue, stream, pool, lifecycle, stores, projector;
proofs of five of them; turn store with its archive; translator with frame
buffer; script runtimes; runtime selection; proofs of projector, turn store and
runtime selection, and of what was left of queue and timeline store; proofs of
translator and script runtimes, and of the plan of a stack.

What could follow:

1. `TimelineProjector` with the frames of `SemTranslator` instead of a script,
   for the versions of frames that share a sequence number;
2. the conversation index, whose status is written after the table is unlocked.

## Not modelled

Generated protobuf code, wiring, options and shutdown of the router, the
profile registry's HTTP interface (it reads an external registry, and sets a
cookie the resolver does not look at), the Redis transport (external; what it would change is said in
`StreamCoordinator`'s entry in `PROJECT.json`), SQLite itself (statements are
atomic, transactions roll back as a whole), the content of prompts and events
beyond what the properties tell apart.  Inside modelled components: the addendum
a `ContextProvider` may give a prompt, the schemas of middlewares, the resolver
without a registry, script handlers that only observe, status codes, and how the
settings of a stack's profiles are merged (external; each profile's count).

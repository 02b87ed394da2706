--------------------------- MODULE TimelineProjector ---------------------------
(***************************************************************************)
(* From events to the timeline of one conversation: the projector          *)
(* (pkg/webchat/timeline_projector.go) that the stream's consumers call    *)
(* for every frame, the hooks it calls after a write (conversation.go,     *)
(* timeline_upsert.go), and the runner (llm_loop_runner.go), which writes  *)
(* the user's message itself, beside the projector.                        *)
(*                                                                         *)
(* Script is what is published: each event is the sequence of frames it is *)
(* translated to, all with the event's number.  Consumers come and go as   *)
(* in StreamCoordinator, over the in-memory transport, whose events have   *)
(* no stream ids: a consumer has the events published since it subscribed. *)
(* A piece of text is the number of the delta that brought it.  No JS      *)
(* runtime is installed, and every frame has an id and decodable data.     *)
(***************************************************************************)
EXTENDS Naturals, Sequences, FiniteSets

CONSTANTS Script,       \* the events published, in order
          MaxConsumers, \* bound: consumers started
          MaxLag,       \* bound: events a consumer has yet to receive
          MaxLate,      \* bound: events that cancelled consumers still receive
          Fallible      \* bound: ids of the frames whose writes may fail

Messages == {"llm.start", "llm.thinking.start", "llm.delta", "llm.thinking.delta",
             "llm.final", "llm.thinking.final", "llm.thinking.summary"}
Tools == {"tool.start", "tool.done", "tool.result"}
Kinds == Messages \cup Tools \cup {"chat.message"}

(* full: a delta comes with all the text so far, a final with its text.    *)
IsFrame(f) == f.kind \in Kinds /\ f.full \in BOOLEAN

ASSUME ProjectorAssumption ==
  /\ Script \in Seq(Seq([kind : Kinds, id : STRING, full : BOOLEAN]))
  /\ \A k \in DOMAIN Script : Script[k] # << >>
  /\ MaxConsumers \in Nat /\ MaxLag \in Nat
  /\ MaxLate \in Nat

Consumers == 1..MaxConsumers
Events == DOMAIN Script
Frames == UNION {{Script[k][j] : j \in DOMAIN Script[k]} : k \in Events}
IsUserEvent(k) == Head(Script[k]).kind = "chat.message"

(* A tool's result is an entity of its own.                                *)
EntityId(f) == <<f.id, IF f.kind = "tool.result" THEN "result" ELSE "">>
Ids == {EntityId(f) : f \in Frames}
UserIds == {EntityId(f) : f \in {g \in Frames : g.kind = "chat.message"}}

(* A user's message is "user-" and its turn (llm_loop_runner.go), which no  *)
(* other message is.                                                       *)
ASSUME UserAssumption ==
  \A f \in Frames : EntityId(f) \in UserIds => f.kind = "chat.message"

(* label: a message's role or a tool's name; open: streaming, or not done. *)
Labels == {"assistant", "thinking", "user", "tool", "result", ""}
Entity == [label : Labels, content : Seq(Events), open : BOOLEAN]
NoEntity == [label |-> "none"]
Write == [id : Ids, version : Nat \ {0}, entity : Entity]
NoWrite == [id |-> "none"]
NoRow == [version |-> 0, entity |-> NoEntity]

VARIABLES
  published, \* how many events have been published
  started,   \* how many consumers have been started
  cancelled, \* consumers that were stopped
  late,      \* how many events they have received since
  stream,    \* per consumer, the StreamCoordinator it belongs to
  seq,       \* per StreamCoordinator, its seq
  phase,     \* per consumer: none, receiving, projecting, storing, telling, gone
  event,     \* per consumer, the last event it received
  frames,    \* per consumer, that event's frames still to be projected, and its number
  roles,     \* TimelineProjector.msgRoles; "" stands for none
  contents,  \* TimelineProjector.msgContents
  recent,    \* messages whose lastMsgWrite is less than 250 ms ago
  toolNames, \* TimelineProjector.toolNames
  lastSeen,  \* Conversation.lastSeenVersion
  runner,    \* the runner: idle, reading, storing, telling, failed
  write,     \* per consumer, and for the runner at 0, the write it is at
  rows,      \* the timeline store
  shown,     \* per entity, what the websockets were last sent
  taken,     \* per entity, the consumers and events projected onto it (history)
  unwritten  \* entities with a failed write (history)

transport == <<published, started, cancelled, late, stream, seq>>
projector == <<roles, contents, recent, toolNames>>
history == <<taken, unwritten>>
consuming == <<phase, event, frames>>
vars == <<transport, projector, history, consuming, lastSeen, runner, write, rows, shown>>

TypeOK ==
  /\ published \in 0..Len(Script) /\ started \in 0..MaxConsumers
  /\ cancelled \subseteq 1..started /\ late \in 0..MaxLate
  /\ stream \in [Consumers -> Consumers] /\ seq \in [Consumers -> Nat]
  /\ phase \in [Consumers -> {"none", "receiving", "projecting", "storing",
                              "telling", "gone"}]
  /\ event \in [Consumers -> 0..Len(Script)]
  /\ \A c \in Consumers : frames[c] \in Seq(Frames \X Nat)
  /\ roles \in [Ids -> Labels] /\ contents \in [Ids -> Seq(Events)]
  /\ recent \subseteq Ids /\ toolNames \in [Ids -> {"", "tool"}]
  /\ lastSeen \in Nat
  /\ runner \in {"idle", "reading", "storing", "telling", "failed"}
  /\ write \in [Consumers \cup {0} -> Write \cup {NoWrite}]
  /\ \A i \in Ids : rows[i] = NoRow \/ (rows[i].version \in Nat \ {0} /\ rows[i].entity \in Entity)
  /\ shown \in [Ids -> Entity \cup {NoEntity}]
  /\ taken \in [Ids -> SUBSET (Consumers \X Events)] /\ unwritten \subseteq Ids

Init ==
  /\ published = 0 /\ started = 0 /\ cancelled = {} /\ late = 0
  /\ stream = [c \in Consumers |-> 1] /\ seq = [s \in Consumers |-> 0]
  /\ phase = [c \in Consumers |-> "none"]
  /\ event = [c \in Consumers |-> 0]
  /\ frames = [c \in Consumers |-> << >>]
  /\ roles = [i \in Ids |-> ""] /\ contents = [i \in Ids |-> << >>]
  /\ recent = {} /\ toolNames = [i \in Ids |-> ""]
  /\ lastSeen = 0 /\ runner = "idle"
  /\ write = [t \in Consumers \cup {0} |-> NoWrite]
  /\ rows = [i \in Ids |-> NoRow]
  /\ shown = [i \in Ids |-> NoEntity]
  /\ taken = [i \in Ids |-> {}] /\ unwritten = {}

-----------------------------------------------------------------------------
(* Mistaken versions of definitions below: a throttled delta that is not   *)
(* remembered, a summary that streams, a hook that does not compare, a     *)
(* first user message without a version.                                   *)

ForgetsThrottled(i, text) == IF i \in recent THEN contents[i] ELSE text
SummaryStreams(kind) == kind = "llm.thinking.summary"
LastSeenAfter(version) == version
AsSeen == lastSeen

-----------------------------------------------------------------------------
(* The stream's consumers: see StreamCoordinator. *)

Begin(n, s) ==
  /\ started' = n
  /\ stream' = [stream EXCEPT ![n] = s]
  /\ phase' = [phase EXCEPT ![n] = "receiving"]
  /\ event' = [event EXCEPT ![n] = published]

Start ==
  /\ started < MaxConsumers
  /\ cancelled = 1..started
  /\ Begin(started + 1, IF started = 0 THEN 1 ELSE stream[started])
  /\ UNCHANGED <<projector, history, published, cancelled, late, seq, frames, lastSeen,
                 runner, write, rows, shown>>

Stop ==
  /\ started > 0
  /\ cancelled' = 1..started
  /\ UNCHANGED <<projector, history, consuming, published, started, late, stream, seq, lastSeen,
                 runner, write, rows, shown>>

(* A changed runtime: a new coordinator beside the same projector.         *)
Rebuild ==
  /\ started \in 1..(MaxConsumers - 1)
  /\ cancelled' = 1..started
  /\ Begin(started + 1, started + 1)
  /\ UNCHANGED <<projector, history, published, late, seq, frames, lastSeen, runner,
                 write, rows, shown>>

Receive(c) ==
  /\ phase[c] = "receiving"
  /\ event[c] < published
  /\ late' = IF c \in cancelled THEN late + 1 ELSE late
  /\ late' <= MaxLate
  /\ event' = [event EXCEPT ![c] = @ + 1]
  /\ seq' = [seq EXCEPT ![stream[c]] = @ + 1]
  /\ LET script == Script[event'[c]]
     IN  frames' = [frames EXCEPT ![c] =
                      [j \in DOMAIN script |-> <<script[j], seq'[stream[c]]>>]]
  /\ phase' = [phase EXCEPT ![c] = "projecting"]
  /\ UNCHANGED <<projector, history, published, started, cancelled, stream, lastSeen,
                 runner, write, rows, shown>>

ChannelCloses(c) ==
  /\ c \in cancelled
  /\ phase[c] = "receiving"
  /\ phase' = [phase EXCEPT ![c] = "gone"]
  /\ event' = [event EXCEPT ![c] = 0]
  /\ UNCHANGED <<transport, projector, history, frames, lastSeen, runner,
                 write, rows, shown>>

-----------------------------------------------------------------------------
(* ApplySemFrame: a section under the projector's lock, and the write the  *)
(* frame calls for.                                                        *)

HasText(k, i) ==
  \E j \in DOMAIN Script[k] : /\ EntityId(Script[k][j]) = i
                              /\ Script[k][j].kind \in {"llm.delta", "llm.thinking.delta"}
(* All the text of i so far, at event k.                                   *)
InOrder(S) == CHOOSE s \in [1..Cardinality(S) -> S] :
                \A a, b \in 1..Cardinality(S) : a < b => s[a] < s[b]
Said == [i \in Ids |-> [k \in Events |-> InOrder({j \in 1..k : HasText(j, i)})]]

NextPhase(rest) == IF rest = << >> THEN "receiving" ELSE "projecting"

Frame(c) == Head(frames[c])[1]
Number(c) == Head(frames[c])[2]

Projects(c, kinds) ==
  /\ phase[c] = "projecting"
  /\ Frame(c).kind \in kinds
  /\ frames' = [frames EXCEPT ![c] = Tail(@)]
  /\ taken' = [taken EXCEPT ![EntityId(Frame(c))] = @ \cup {<<c, event[c]>>}]
  /\ UNCHANGED <<transport, unwritten, event, lastSeen, runner, rows, shown>>

Upserts(c, i, entity) ==
  /\ write' = [write EXCEPT ![c] = [id |-> i, version |-> Number(c), entity |-> entity]]
  /\ phase' = [phase EXCEPT ![c] = "storing"]

RoleOr(i, default) == IF roles[i] = "" THEN default ELSE roles[i]

LlmStart(c) ==
  /\ Projects(c, {"llm.start", "llm.thinking.start"})
  /\ LET f == Frame(c)
         i == EntityId(f)
         role == IF f.kind = "llm.start" THEN "assistant" ELSE "thinking"
     IN  /\ roles' = [roles EXCEPT ![i] = role]
         /\ contents' = [contents EXCEPT ![i] = << >>]
         /\ Upserts(c, i, [label |-> role, content |-> << >>, open |-> TRUE])
  /\ UNCHANGED <<recent, toolNames>>

Remembered(i, text) == text

(* A delta within 250 ms of the last one written is not written.           *)
LlmDelta(c) ==
  /\ Projects(c, {"llm.delta", "llm.thinking.delta"})
  /\ LET f == Frame(c)
         i == EntityId(f)
         text == IF f.full THEN Said[i][event[c]] ELSE Append(contents[i], event[c])
     IN  /\ contents' = [contents EXCEPT ![i] = Remembered(i, text)]
         /\ recent' = recent \cup {i}
         /\ IF i \in recent
            THEN phase' = [phase EXCEPT ![c] = NextPhase(Tail(frames[c]))] /\ UNCHANGED write
            ELSE Upserts(c, i, [label |-> RoleOr(i, "assistant"), content |-> text,
                                open |-> TRUE])
  /\ UNCHANGED <<roles, toolNames>>

StreamsOn(kind) == FALSE

(* A final, or a summary of the thinking, with its text or without; the    *)
(* end of thinking comes without.                                          *)
LlmFinal(c) ==
  /\ Projects(c, {"llm.final", "llm.thinking.final", "llm.thinking.summary"})
  /\ LET f == Frame(c)
         i == EntityId(f)
         text == CASE f.kind = "llm.thinking.final" \/ ~f.full -> contents[i]
                   [] f.kind = "llm.final"                     -> Said[i][event[c]]
                   [] OTHER                                    -> <<event[c]>>
     IN  /\ contents' = [contents EXCEPT ![i] = text]
         /\ recent' = recent \ {i}
         /\ Upserts(c, i, [label |-> RoleOr(i, IF f.kind = "llm.final" THEN "assistant"
                                               ELSE "thinking"),
                           content |-> text, open |-> StreamsOn(f.kind)])
  /\ UNCHANGED <<roles, toolNames>>

ToolStart(c) ==
  /\ Projects(c, {"tool.start"})
  /\ LET i == EntityId(Frame(c))
     IN  /\ toolNames' = [toolNames EXCEPT ![i] = "tool"]
         /\ Upserts(c, i, [label |-> "tool", content |-> << >>, open |-> TRUE])
  /\ UNCHANGED <<roles, contents, recent>>

ToolDone(c) ==
  /\ Projects(c, {"tool.done"})
  /\ LET i == EntityId(Frame(c))
     IN  Upserts(c, i, [label |-> toolNames[i], content |-> << >>, open |-> FALSE])
  /\ UNCHANGED projector

ToolResult(c) ==
  /\ Projects(c, {"tool.result"})
  /\ Upserts(c, EntityId(Frame(c)),
             [label |-> "result", content |-> << >>, open |-> FALSE])
  /\ UNCHANGED projector

UserMessage == [label |-> "user", content |-> << >>, open |-> FALSE]

(* The registered handler of "chat.message".                               *)
ChatMessage(c) ==
  /\ Projects(c, {"chat.message"})
  /\ Upserts(c, EntityId(Frame(c)), UserMessage)
  /\ UNCHANGED projector

TimePasses ==
  /\ \E i \in recent : recent' = recent \ {i}
  /\ UNCHANGED <<transport, history, consuming, roles, contents, toolNames, lastSeen,
                 runner, write, rows, shown>>

-----------------------------------------------------------------------------
(* upsert: the store's row, whatever version it had; then the hooks.       *)

Stored(t) == rows' = [rows EXCEPT ![write[t].id] = [version |-> write[t].version,
                                                    entity |-> write[t].entity]]
Announced(t) == shown' = [shown EXCEPT ![write[t].id] = write[t].entity]

Store(c) ==
  /\ phase[c] = "storing"
  /\ Stored(c)
  /\ phase' = [phase EXCEPT ![c] = "telling"]
  /\ UNCHANGED <<transport, projector, history, event, frames, lastSeen, runner,
                 write, shown>>

Unannounced(c) == UNCHANGED shown

(* The consumer ignores the error.                                         *)
StoreFails(c) ==
  /\ phase[c] = "storing"
  /\ write[c].id[1] \in Fallible
  /\ unwritten' = unwritten \cup {write[c].id}
  /\ write' = [write EXCEPT ![c] = NoWrite]
  /\ phase' = [phase EXCEPT ![c] = NextPhase(frames[c])]
  /\ Unannounced(c)
  /\ UNCHANGED <<transport, projector, taken, event, frames, lastSeen, runner, rows>>

Larger(version) == IF version > lastSeen THEN version ELSE lastSeen

(* timelineProjectorUpsertHook: lastSeenVersion under the conversation's   *)
(* lock, then the websockets.  What is shown is written nowhere else for   *)
(* this consumer's write, so the two sections are one step.                *)
Tell(c) ==
  /\ phase[c] = "telling"
  /\ lastSeen' = Larger(write[c].version)
  /\ Announced(c)
  /\ write' = [write EXCEPT ![c] = NoWrite]
  /\ phase' = [phase EXCEPT ![c] = NextPhase(frames[c])]
  /\ UNCHANGED <<transport, projector, history, event, frames, runner, rows>>

-----------------------------------------------------------------------------
(* The runner.  Prompts of a conversation do not overlap: the runner       *)
(* publishes the user's message, writes it, and then has the inference     *)
(* publish its events.                                                     *)

Publish ==
  /\ runner = "idle"
  /\ published < Len(Script)
  /\ \A c \in Consumers : phase[c] \notin {"none", "gone"} => published < event[c] + MaxLag
  /\ published' = published + 1
  /\ runner' = IF IsUserEvent(published') THEN "reading" ELSE "idle"
  /\ UNCHANGED <<projector, history, consuming, started, cancelled, late, stream, seq, lastSeen,
                 write, rows, shown>>

UserVersion == lastSeen + 1

ReadVersion ==
  /\ runner = "reading"
  /\ write' = [write EXCEPT ![0] = [id |-> EntityId(Head(Script[published])),
                                    version |-> UserVersion, entity |-> UserMessage]]
  /\ runner' = "storing"
  /\ UNCHANGED <<transport, projector, history, consuming, lastSeen, rows, shown>>

RunnerStores ==
  /\ runner = "storing"
  /\ Stored(0)
  /\ runner' = "telling"
  /\ UNCHANGED <<transport, projector, history, consuming, lastSeen, write, shown>>

(* The run does not start.                                                 *)
RunnerStoreFails ==
  /\ runner = "storing"
  /\ runner' = "failed"
  /\ write' = [write EXCEPT ![0] = NoWrite]
  /\ UNCHANGED <<transport, projector, history, consuming, lastSeen, rows, shown>>

(* Its hook tells the websockets and leaves lastSeenVersion alone.         *)
RunnerTells ==
  /\ runner = "telling"
  /\ Announced(0)
  /\ write' = [write EXCEPT ![0] = NoWrite]
  /\ runner' = "idle"
  /\ UNCHANGED <<transport, projector, history, consuming, lastSeen, rows>>

-----------------------------------------------------------------------------
Project(c) ==
  \/ LlmStart(c) \/ LlmDelta(c) \/ LlmFinal(c)
  \/ ToolStart(c) \/ ToolDone(c) \/ ToolResult(c) \/ ChatMessage(c)

Consume(c) ==
  \/ Receive(c) \/ ChannelCloses(c) \/ Project(c)
  \/ Store(c) \/ StoreFails(c) \/ Tell(c)

Run == ReadVersion \/ RunnerStores \/ RunnerStoreFails \/ RunnerTells

Next ==
  \/ Start \/ Stop \/ Rebuild \/ TimePasses \/ Publish \/ Run
  \/ \E c \in Consumers : Consume(c)

Spec == Init /\ [][Next]_vars

-----------------------------------------------------------------------------
(* Properties *)

Touching == [i \in Ids |-> {k \in Events : \E f \in DOMAIN Script[k] :
                                              EntityId(Script[k][f]) = i}]

(* Consumer c, and no other, has projected everything published about i    *)
(* up to the event it has come to, and no write has failed.                *)
ProjectedBy(c, i) ==
  /\ phase[c] = "receiving" /\ i \notin unwritten
  /\ taken[i] # {}
  /\ taken[i] = {c} \X {k \in Touching[i] : k <= event[c]}

(* What the timeline should say of i once event k is projected: a          *)
(* message's role and all its text, or the last summary; open until its    *)
(* last frame closes it.                                                   *)
FrameAt(i, k) ==
  LET own == {j \in DOMAIN Script[k] : EntityId(Script[k][j]) = i}
  IN  Script[k][CHOOSE j \in own : \A l \in own : l <= j]
KindAt(i, k) == FrameAt(i, k).kind
SumsUp(i, k) == KindAt(i, k) = "llm.thinking.summary" /\ FrameAt(i, k).full
LastSummary(i, k) ==
  {j \in Touching[i] : /\ SumsUp(i, j)
                       /\ \A l \in Touching[i] : l \in (j + 1)..k => ~SumsUp(i, l)}
LabelOf(i) ==
  LET kinds == {f.kind : f \in {g \in Frames : EntityId(g) = i}}
  IN  CASE "llm.start" \in kinds -> "assistant"
        [] "llm.thinking.start" \in kinds -> "thinking"
        [] "tool.start" \in kinds -> "tool"
        [] "chat.message" \in kinds -> "user"
        [] OTHER -> "result"
Closing == {"llm.final", "llm.thinking.final", "llm.thinking.summary", "tool.done",
            "tool.result", "chat.message"}
Ideal ==
  [i \in Ids |-> [k \in Touching[i] |->
    [label   |-> LabelOf(i),
     content |-> IF \E j \in LastSummary(i, k) : j <= k
                 THEN <<CHOOSE j \in LastSummary(i, k) : j <= k>> ELSE Said[i][k],
     open    |-> KindAt(i, k) \notin Closing]]]
IsPrefixOf(s, t) == Len(s) <= Len(t) /\ \A j \in 1..Len(s) : s[j] = t[j]

(* Scripts that begin each message before they go on with it, and once,    *)
(* and add no text to a summary.  An event has one frame of an entity, and *)
(* the frames of an entity are of a family: so the translator makes them.  *)
Beginnings == {"llm.start", "llm.thinking.start", "tool.start"}
Deltas == {"llm.delta", "llm.thinking.delta"}
Family(kind) ==
  CASE kind \in {"llm.start", "llm.delta", "llm.final"} -> "assistant"
    [] kind \in {"tool.start", "tool.done"}             -> "tool"
    [] kind = "tool.result"                             -> "result"
    [] kind = "chat.message"                            -> "user"
    [] OTHER                                            -> "thinking"
WellFormed ==
  \A i \in Ids :
    /\ \A k \in Events : \A a, b \in DOMAIN Script[k] :
         EntityId(Script[k][a]) = i /\ EntityId(Script[k][b]) = i => a = b
    /\ \A k, l \in Touching[i] :
         /\ Family(KindAt(i, k)) = Family(KindAt(i, l))
         /\ KindAt(i, k) \in Beginnings => k <= l
         /\ SumsUp(i, k) /\ k < l => KindAt(i, l) \notin Deltas
    /\ \A k \in Touching[i] : (\A l \in Touching[i] : k <= l) =>
         KindAt(i, k) \in Beginnings \cup {"tool.result", "chat.message"}

(* The stored timeline says what was published: all of a message once it   *)
(* has ended, what was throttled included, and a beginning of it before    *)
(* (the caches of ApplySemFrame).                                          *)
Projected ==
  \A c \in Consumers, i \in Ids : ProjectedBy(c, i) =>
    \E x \in taken[i] :
      /\ \A y \in taken[i] : y[2] <= x[2]
      /\ rows[i].entity.label = Ideal[i][x[2]].label
      /\ rows[i].entity.open = Ideal[i][x[2]].open
      /\ IF rows[i].entity.open
         THEN IsPrefixOf(rows[i].entity.content, Ideal[i][x[2]].content)
         ELSE rows[i].entity.content = Ideal[i][x[2]].content

OneConsumer(i) == \A x, y \in taken[i] : x[1] = y[1]

(* Messages that no engine begins again once it has ended them. *)
Follows(k, a, l, b) == k < l \/ (k = l /\ a < b)
EndOnce ==
  {i \in Ids : \A k, l \in Events : \A a \in DOMAIN Script[k], b \in DOMAIN Script[l] :
     Follows(k, a, l, b) /\ EntityId(Script[k][a]) = i /\ EntityId(Script[l][b]) = i =>
       (Script[k][a].kind \in Closing => Script[l][b].kind \in Closing)}

(* "so we never reopen thinking stream state after llm.thinking.final"     *)
(* (sem_translator.go): as long as one consumer sees to a message, what    *)
(* has ended for good stays ended.                                         *)
NeverReopened ==
  [][\A i \in EndOnce : OneConsumer(i)' /\ rows[i] # NoRow /\ ~rows[i].entity.open
                          => ~rows'[i].entity.open]_vars

InFlight(i) == \E t \in Consumers \cup {0} : write[t] # NoWrite /\ write[t].id = i

(* Whatever writes overlap and fail, a websocket that was sent every       *)
(* timeline.upsert has what the store has (emitTimelineUpsert).            *)
ShownIsStored ==
  \A i \in Ids : OneConsumer(i) /\ ~InFlight(i) => shown[i] = rows[i].entity

(* lastSeenVersion covers every row of the projector's, through rebuilds   *)
(* that number their events from 1 again, but for writes whose hook is     *)
(* about to run: the runner relies on it to place a user's message after   *)
(* what there is (timelineProjectorUpsertHook).                            *)
LastSeenCovers ==
  \A i \in Ids \ UserIds :
    \/ rows[i].version <= lastSeen
    \/ \E c \in Consumers : phase[c] = "telling" /\ write[c].id = i

(* What websockets and the runner are told of the timeline is true.        *)
ClientsInv == ShownIsStored /\ LastSeenCovers

=============================================================================

----------------------------- MODULE SemTranslator -----------------------------
(***************************************************************************)
(* From the engine's events to the frames the clients see: the translator  *)
(* (pkg/webchat/sem_translator.go) with its two caches, which every        *)
(* conversation of the process shares, behind the registry of handlers     *)
(* (pkg/sem/registry/registry.go); the callback that hands each frame to   *)
(* the websockets and to the ring of recent frames (conversation.go,       *)
(* sem_buffer.go); and the debug route that pages through the ring         *)
(* (router_debug_routes.go).                                               *)
(*                                                                         *)
(* A conversation is evicted and made again with a new session, and the    *)
(* process restarts; engines of older sessions may still publish on the    *)
(* conversation's topic.  An engine's events carry one key (their          *)
(* inference), and either all its messages are named by the id of their    *)
(* events or none is; a named message's first event, and those after its   *)
(* end, have the id, the others may lack it.  Frame data are left out.     *)
(*                                                                         *)
(* Each consumer of a conversation's topic translates every event it is    *)
(* given.  There may be none (nobody is connected: the stream is stopped,  *)
(* and what is published is lost) or several (Stop does not wait for the   *)
(* one it cancels, a rebuilt engine has a stream of its own).  When one    *)
(* starts or stops is the matter of StreamCoordinator and                  *)
(* ConversationLifecycle; here it may at any time.                         *)
(***************************************************************************)
EXTENDS Naturals, Sequences, SequencesExt, FiniteSetsExt

CONSTANTS Conversations,
          Naming,      \* conversations whose engine gives its events ids
          Consumers,   \* bound: consumers a conversation has at a time
          MaxSessions, \* bound: objects a conversation has, one after the other
          MaxMessages, \* bound: messages of an engine
          MaxEvents,   \* bound: events each engine publishes
          RingSize,    \* semFrameBuffer.max
          Limit,       \* the limit of a page
          Pagers       \* a client: its conversation, the type it pages for; "" is all

Engines == Conversations \X (1..MaxSessions)
Messages == Engines \X (1..MaxMessages)
Slots == Conversations \X Consumers
NoId == << >>

ASSUME TranslatorAssumption ==
  /\ Naming \subseteq Conversations /\ Consumers # {}
  /\ MaxSessions \in Nat \ {0} /\ MaxMessages \in Nat \ {0}
  /\ MaxEvents \in [Engines -> Nat]
  /\ RingSize \in Nat \ {0} /\ Limit \in Nat \ {0}
  /\ Pagers \in SUBSET (Conversations \X STRING)

Tools == {"calc", "search"}
FrameTypes == {"llm.start", "llm.delta", "llm.final", "llm.thinking.start",
               "llm.thinking.delta", "llm.thinking.final", "llm.thinking.summary",
               "tool.start", "tool.delta", "tool.result", "calc_result", "tool.done", "log"}
Ids == {NoId} \cup {<<kind, m>> : kind \in {"id", "thinking-of-id"}, m \in Messages}
              \cup {<<kind, x>> : kind \in {"llm", "thinking-of-llm", "log"}, x \in Engines}

VARIABLES
  messageIDs,    \* EventTranslator.messageIDs, per engine's key
  toolCallCache, \* EventTranslator.toolCallCache, the name per call; "" is absent
  session,       \* per conversation, the session of its object
  phase,         \* per slot, its consumer: "leaving" is cancelled, "orphan" is of an
                 \* earlier object
  inbox,         \* per slot, the event its consumer has yet to translate, if any
  outgoing,      \* per slot, frames of the event its callback is at
  sent,          \* per conversation, types of the frames its object sent; those no
                 \* client asks for are "" (history)
  semBuf,        \* per conversation, numbers of the frames in the ring
  cursor,        \* per client, the since_seq of its next page
  got,           \* per client, numbers of the frames it was given (history)
  repeated,      \* clients that were given a frame again (history)
  engine,        \* per engine, where it stands (external)
  published,     \* per engine, how many events it has published
  ids,           \* per message, the ids its frames had (history)
  calls,         \* per message, the types its tool call's frames had (history)
  disturbed      \* messages whose run some consumer's start or stop cut into (history)

translator == <<messageIDs, toolCallCache>>
ring == <<sent, semBuf>>
pagers == <<cursor, got, repeated>>
history == <<ids, calls>>
semVars == <<translator, ring, pagers, history, session, phase, inbox, outgoing, engine,
             published, disturbed>>

EventTypes == {"TextSegmentStarted", "TextDelta", "BlankDelta", "TextSegmentFinished", "Interrupt",
               "Info", "ReasoningDelta", "ToolCallRequested", "ToolExecutionStarted",
               "ToolResultReady", "Log"}
Infos == {"", "thinking-started", "thinking-ended", "reasoning-summary", "other"}
Event == [type : EventTypes, what : Infos, id : Ids, tool : Tools \cup {""}, of : Messages]
Frame == [type : FrameTypes, id : Ids, of : Messages]

SemTypeOK ==
  /\ messageIDs \in [Engines -> Ids]
  /\ toolCallCache \in [Messages -> Tools \cup {""}]
  /\ session \in [Conversations -> 1..MaxSessions]
  /\ phase \in [Slots -> {"gone", "running", "leaving", "orphan"}]
  /\ inbox \in [Slots -> SUBSET Event] /\ \A l \in Slots : Cardinality(inbox[l]) <= 1
  /\ \A l \in Slots : outgoing[l] \in Seq(Frame) /\ Len(outgoing[l]) <= 2
  /\ \A c \in Conversations : sent[c] \in Seq(FrameTypes \cup {""})
  /\ \A c \in Conversations : semBuf[c] \in Seq(Nat \ {0}) /\ Len(semBuf[c]) <= RingSize
  /\ cursor \in [Pagers -> 0..RingSize]
  /\ \A p \in Pagers : got[p] \subseteq DOMAIN sent[p[1]]
  /\ repeated \subseteq Pagers
  /\ engine \in [Engines -> [message : 0..MaxMessages, text : {"none", "open", "done"},
                             thinking : {"none", "open", "done"}, tool : Tools \cup {""},
                             call : {"none", "requested", "running", "done"}]]
  /\ \A x \in Engines : published[x] \in 0..MaxEvents[x]
  /\ \A m \in Messages : ids[m] \subseteq Ids /\ calls[m] \in Seq(FrameTypes)
  /\ disturbed \subseteq Messages

OneConsumer(first) == [l \in Slots |-> IF l[2] = first THEN "running" ELSE "gone"]
Fresh(k) == [message |-> k, text |-> "none", thinking |-> "none", tool |-> "", call |-> "none"]

SemInit ==
  /\ messageIDs = [x \in Engines |-> NoId]
  /\ toolCallCache = [m \in Messages |-> ""]
  /\ session = [c \in Conversations |-> 1]
  /\ \E first \in Consumers : phase = OneConsumer(first)
  /\ inbox = [l \in Slots |-> {}] /\ outgoing = [l \in Slots |-> << >>]
  /\ sent = [c \in Conversations |-> << >>] /\ semBuf = [c \in Conversations |-> << >>]
  /\ cursor = [p \in Pagers |-> 0] /\ got = [p \in Pagers |-> {}] /\ repeated = {}
  /\ engine = [x \in Engines |-> Fresh(0)]
  /\ published = [x \in Engines |-> 0]
  /\ ids = [m \in Messages |-> {}] /\ calls = [m \in Messages |-> << >>]
  /\ disturbed = {}

-----------------------------------------------------------------------------
(* Mistaken versions of definitions below: a cached id that wins over the  *)
(* event's own, a page that starts at the cursor instead of after it, a    *)
(* ring one frame too long.                                                *)

CachedFirst(x, id) ==
  IF messageIDs[x] # NoId THEN messageIDs[x] ELSE IF id # NoId THEN id ELSE <<"llm", x>>
PageFromCursor(p) == {i \in DOMAIN semBuf[p[1]] : i >= cursor[p]}
OneTooMany(buf) == IF Len(buf) > RingSize + 1 THEN Tail(buf) ELSE buf

-----------------------------------------------------------------------------
(* The translator *)

(* The engine's id, else the cached one, else one made from the key.       *)
resolveMessageID(x, id) ==
  IF id # NoId THEN id ELSE IF messageIDs[x] # NoId THEN messageIDs[x] ELSE <<"llm", x>>

(* The first handler of a type that has frames wins.                       *)
Handle(answers) ==
  LET heard == {h \in DOMAIN answers : answers[h] # << >>}
  IN  IF heard = {} THEN << >> ELSE answers[Min(heard)]

thinking(id) == <<IF id[1] = "id" THEN "thinking-of-id" ELSE "thinking-of-llm", id[2]>>

(* The frames of an event, and what it leaves in the cache of ids: the     *)
(* message's id, or none once the message is over.                         *)
Resolves(e) == e.type \in {"TextSegmentStarted", "TextDelta", "TextSegmentFinished", "Info",
                           "ReasoningDelta", "Interrupt"}
Clears(e) == e.type \in {"TextSegmentFinished", "Interrupt"}

MessageFrames(e, id) ==
  CASE e.type = "TextSegmentStarted" -> <<[type |-> "llm.start", id |-> id]>>
    [] e.type = "TextDelta" -> <<[type |-> "llm.delta", id |-> id]>>
    [] Clears(e) -> <<[type |-> "llm.final", id |-> id]>>
    [] e.type = "ReasoningDelta" -> <<[type |-> "llm.thinking.delta", id |-> thinking(id)]>>
    [] e.type = "Info" /\ e.what = "thinking-started" ->
         <<[type |-> "llm.thinking.start", id |-> thinking(id)]>>
    [] e.type = "Info" /\ e.what = "thinking-ended" ->
         <<[type |-> "llm.thinking.final", id |-> thinking(id)]>>
    [] e.type = "Info" /\ e.what = "reasoning-summary" ->
         <<[type |-> "llm.thinking.summary", id |-> thinking(id)]>>
    [] OTHER -> << >>

ResultFrames(e) ==
  <<[type |-> IF toolCallCache[e.of] = "calc" THEN "calc_result" ELSE "tool.result",
     id |-> <<"id", e.of>>],
    [type |-> "tool.done", id |-> <<"id", e.of>>]>>

LogFrames(e) == <<[type |-> "log", id |-> <<"log", e.of[1]>>]>>

(* The answers of the handlers registered for the event's type.            *)
Answers(e, id) ==
  CASE e.type = "ToolResultReady" -> <<ResultFrames(e), ResultFrames(e)>>
    [] e.type = "ToolCallRequested" -> <<<<[type |-> "tool.start", id |-> <<"id", e.of>>]>>>>
    [] e.type = "ToolExecutionStarted" -> <<<<[type |-> "tool.delta", id |-> <<"id", e.of>>]>>>>
    [] e.type = "Log" -> <<LogFrames(e)>>
    [] e.type = "BlankDelta" -> <<<< >>>>
    [] OTHER -> <<MessageFrames(e, id)>>

(* A consumer translates an event; the callback drops those of a session   *)
(* that is not its object's.  What an orphan sends reaches no client of    *)
(* the present object.                                                     *)
Translate(l, e) ==
  LET x == e.of[1]
      id == resolveMessageID(x, e.id)
      frames == Handle(Answers(e, id))
  IN  /\ messageIDs' = IF Resolves(e)
                       THEN [messageIDs EXCEPT ![x] = IF Clears(e) THEN NoId ELSE id]
                       ELSE messageIDs
      /\ toolCallCache' = IF e.type \in {"ToolCallRequested", "ToolExecutionStarted"}
                          THEN [toolCallCache EXCEPT ![e.of] = e.tool]
                          ELSE toolCallCache
      /\ outgoing' = [outgoing EXCEPT ![l] =
                        IF x[2] = session[x[1]] /\ phase[l] # "orphan"
                        THEN [j \in DOMAIN frames |-> [type |-> frames[j].type,
                                                       id |-> frames[j].id, of |-> e.of]]
                        ELSE << >>]

-----------------------------------------------------------------------------
(* The engine: the next event it may publish, and where it stands then.    *)

Rested(l) == inbox[l] = {} /\ outgoing[l] = << >>
Running(c) == {l \in Slots : l[1] = c /\ phase[l] = "running"}
Cancelled(c) == {l \in Slots : l[1] = c /\ phase[l] \in {"leaving", "orphan"} /\ Rested(l)}

(* The transport hands the event to every consumer, perhaps to one that    *)
(* was cancelled, and waits for those that were not.  Nothing is read of   *)
(* it before its first translation, so that is part of the step.           *)
Give(e) ==
  \E late \in SUBSET Cancelled(e.of[1][1]) :
    LET takers == Running(e.of[1][1]) \cup late
    IN  \/ takers = {} /\ UNCHANGED <<translator, inbox, outgoing>>
        \/ \E l \in takers :
             /\ Translate(l, e)
             /\ inbox' = [k \in Slots |-> IF k \in takers \ {l} THEN {e} ELSE inbox[k]]

Publish(x, type, what, id, next) ==
  /\ x[2] <= session[x[1]]
  /\ \A l \in Running(x[1]) : Rested(l)
  /\ published[x] < MaxEvents[x]
  /\ published' = [published EXCEPT ![x] = @ + 1]
  /\ engine' = [engine EXCEPT ![x] = next]
  /\ Give([type |-> type, what |-> what, id |-> id, tool |-> next.tool,
          of |-> <<x, next.message>>])
  /\ UNCHANGED <<ring, pagers, history, session, phase, disturbed>>

(* The ids an event about the current message may have.                    *)
Named(x, first) ==
  LET name == <<"id", <<x, engine[x].message>>>>
  IN  IF x[1] \notin Naming THEN {NoId}
      ELSE IF first \/ engine[x].text = "done" THEN {name} ELSE {name, NoId}

(* A message runs undisturbed from its beginning when one consumer sees to *)
(* the topic and none is on its way out.                                   *)
Calm(c) ==
  \E l \in Slots : /\ l[1] = c /\ phase[l] = "running" /\ inbox[l] = {}
                  /\ \A k \in Slots : k[1] = c /\ k # l => phase[k] = "gone"

Begin(x) ==
  /\ x[2] <= session[x[1]]
  /\ engine[x].message < MaxMessages
  /\ engine[x].message > 0 => engine[x].text = "done" /\ engine[x].call \in {"none", "done"}
  /\ published[x] < MaxEvents[x]
  /\ engine' = [engine EXCEPT ![x] = Fresh(engine[x].message + 1)]
  /\ disturbed' = IF Calm(x[1]) THEN disturbed
                  ELSE disturbed \cup {<<x, engine[x].message + 1>>}
  /\ UNCHANGED <<translator, ring, pagers, history, session, phase, inbox, outgoing, published>>

Think(x) ==
  LET at == engine[x]
      To(status) == [at EXCEPT !.thinking = status]
  IN  /\ at.message > 0
      /\ \/ /\ at.thinking = "none" /\ at.text = "none"
            /\ \E id \in Named(x, TRUE) : Publish(x, "Info", "thinking-started", id, To("open"))
         \/ /\ at.thinking = "open"
            /\ \E id \in Named(x, FALSE) : Publish(x, "ReasoningDelta", "", id, at)
         \/ /\ at.thinking = "open"
            /\ \E id \in Named(x, FALSE) : Publish(x, "Info", "thinking-ended", id, To("done"))
         \/ /\ at.thinking = "done"
            /\ \E id \in Named(x, FALSE) : Publish(x, "Info", "reasoning-summary", id, at)

Write(x) ==
  LET at == engine[x]
      To(status) == [at EXCEPT !.text = status]
  IN  /\ at.message > 0 /\ at.thinking # "open"
      /\ \/ /\ at.text = "none"
            /\ \E id \in Named(x, at.thinking = "none") :
                 Publish(x, "TextSegmentStarted", "", id, To("open"))
         \/ /\ at.text = "open"
            /\ \E id \in Named(x, FALSE), type \in {"TextDelta", "BlankDelta"} :
                 Publish(x, type, "", id, at)
         \/ /\ at.text = "open"
            /\ \E id \in Named(x, FALSE), type \in {"TextSegmentFinished", "Interrupt"} :
                 Publish(x, type, "", id, To("done"))

(* Other information about the message, and log lines.                     *)
Tell(x) ==
  /\ engine[x].message > 0
  /\ \/ \E id \in Named(x, engine[x].thinking = "none" /\ engine[x].text = "none") :
          Publish(x, "Info", "other", id, engine[x])
     \/ Publish(x, "Log", "", NoId, engine[x])

CallTool(x) ==
  LET at == engine[x]
      To(status) == [at EXCEPT !.call = status]
  IN  /\ at.text = "done"
      /\ \/ /\ at.call = "none"
            /\ \E tool \in Tools :
                 Publish(x, "ToolCallRequested", "", NoId, [To("requested") EXCEPT !.tool = tool])
         \/ at.call = "requested" /\ Publish(x, "ToolExecutionStarted", "", NoId, To("running"))
         \/ /\ at.call \in {"requested", "running"}
            /\ Publish(x, "ToolResultReady", "", NoId, To("done"))

-----------------------------------------------------------------------------
(* The consumers: one starts, is cancelled, translates what it was given,  *)
(* and goes once it is done with that.                                     *)

Disturb(c) ==
  disturbed' = disturbed \cup {<<x, engine[x].message>> : x \in {y \in Engines :
                                                   y[1] = c /\ engine[y].message > 0}}

StartConsumer(l) ==
  /\ phase[l] = "gone"
  /\ phase' = [phase EXCEPT ![l] = "running"]
  /\ Disturb(l[1])
  /\ UNCHANGED <<translator, ring, pagers, history, session, inbox, outgoing, engine, published>>

StopConsumer(l) ==
  /\ phase[l] = "running"
  /\ phase' = [phase EXCEPT ![l] = "leaving"]
  /\ Disturb(l[1])
  /\ UNCHANGED <<translator, ring, pagers, history, session, inbox, outgoing, engine, published>>

CatchUp(l) ==
  /\ outgoing[l] = << >>
  /\ \E e \in inbox[l] : Translate(l, e)
  /\ inbox' = [inbox EXCEPT ![l] = {}]
  /\ UNCHANGED <<ring, pagers, history, session, phase, engine, published, disturbed>>

EndConsumer(l) ==
  /\ phase[l] \in {"leaving", "orphan"} /\ Rested(l)
  /\ phase' = [phase EXCEPT ![l] = "gone"]
  /\ UNCHANGED <<translator, ring, pagers, history, session, inbox, outgoing, engine, published,
                 disturbed>>

-----------------------------------------------------------------------------
(* The callback: each frame goes to the websockets, then into the ring.    *)

Trimmed(buf) == IF Len(buf) > RingSize THEN Tail(buf) ELSE buf

(* What the clients have seen of a message and of its tool call.           *)
Base(id) == <<IF id[1] \in {"id", "thinking-of-id"} THEN "id" ELSE "llm", id[2]>>
Remember(f) ==
  LET ofTool == f.type \in {"tool.start", "tool.delta", "tool.result", "calc_result", "tool.done"}
  IN  /\ ids' = IF ofTool \/ f.type = "log" THEN ids ELSE [ids EXCEPT ![f.of] = @ \cup {Base(f.id)}]
      /\ calls' = IF ofTool THEN [calls EXCEPT ![f.of] = Append(@, f.type)] ELSE calls

Deliver(l) ==
  LET c == l[1]
      type == Head(outgoing[l]).type
  IN
  /\ outgoing[l] # << >>
  /\ outgoing' = [outgoing EXCEPT ![l] = Tail(@)]
  /\ sent' = [sent EXCEPT ![c] = Append(@, IF <<c, type>> \in Pagers THEN type ELSE "")]
  /\ semBuf' = [semBuf EXCEPT ![c] = Trimmed(Append(@, Len(sent[c]) + 1))]
  /\ Remember(Head(outgoing[l]))
  /\ UNCHANGED <<translator, pagers, session, phase, inbox, engine, published, disturbed>>

(* The debug route numbers the frames by their place in the ring.          *)
Wanted(p, n) == p[2] = "" \/ sent[p[1]][n] = p[2]
After(p) == {i \in DOMAIN semBuf[p[1]] : i > cursor[p]}

Poll(p) ==
  LET found == {i \in After(p) : Wanted(p, semBuf[p[1]][i])}
      page == {i \in found : Cardinality({j \in found : j <= i}) <= Limit}
      given == {semBuf[p[1]][i] : i \in page}
  IN  /\ page # {}
      /\ cursor' = [cursor EXCEPT ![p] = Max(page)]
      /\ got' = [got EXCEPT ![p] = @ \cup given]
      /\ repeated' = IF given \cap got[p] # {} THEN repeated \cup {p} ELSE repeated
      /\ UNCHANGED <<translator, ring, history, session, phase, inbox, outgoing, engine,
                     published, disturbed>>

(* The conversations get new objects: their rings are empty, and their     *)
(* clients start over.  The old objects' consumers are orphans; a restart  *)
(* of the process ends them, and loses the caches as well.                 *)
Renew(renewed) ==
  /\ \A c \in renewed : session[c] < MaxSessions
  /\ session' = [c \in Conversations |-> IF c \in renewed THEN session[c] + 1 ELSE session[c]]
  /\ outgoing' = [l \in Slots |-> IF l[1] \in renewed THEN << >> ELSE outgoing[l]]
  /\ sent' = [c \in Conversations |-> IF c \in renewed THEN << >> ELSE sent[c]]
  /\ semBuf' = [c \in Conversations |-> IF c \in renewed THEN << >> ELSE semBuf[c]]
  /\ cursor' = [p \in Pagers |-> IF p[1] \in renewed THEN 0 ELSE cursor[p]]
  /\ got' = [p \in Pagers |-> IF p[1] \in renewed THEN {} ELSE got[p]]
  /\ repeated' = {p \in repeated : p[1] \notin renewed}
  /\ UNCHANGED <<history, engine, published, disturbed>>

Recreate(l) ==
  /\ phase[l] = "gone"
  /\ Renew({l[1]})
  /\ phase' = [k \in Slots |-> IF k = l THEN "running"
                              ELSE IF k[1] = l[1] /\ phase[k] # "gone" THEN "orphan" ELSE phase[k]]
  /\ UNCHANGED <<translator, inbox>>

Restart ==
  /\ Renew(Conversations)
  /\ \E first \in Consumers : phase' = OneConsumer(first)
  /\ inbox' = [l \in Slots |-> {}]
  /\ messageIDs' = [x \in Engines |-> NoId]
  /\ toolCallCache' = [m \in Messages |-> ""]

SemNext ==
  \/ \E x \in Engines : Begin(x) \/ Think(x) \/ Write(x) \/ Tell(x) \/ CallTool(x)
  \/ \E l \in Slots : \/ StartConsumer(l) \/ StopConsumer(l) \/ CatchUp(l) \/ EndConsumer(l)
                      \/ Deliver(l) \/ Recreate(l)
  \/ \E p \in Pagers : Poll(p)
  \/ Restart

SemSpec == SemInit /\ [][SemNext]_semVars

-----------------------------------------------------------------------------
(* No frame has the id of another engine's message, whatever consumers and *)
(* events did to the cache all engines share.                              *)
OwnIds ==
  \A m \in Messages :
    ids[m] \subseteq {<<"llm", m[1]>>}
                     \cup {<<"id", n>> : n \in {k \in Messages : k[1] = m[1] /\ k[1][1] \in Naming}}

(* All frames of a message have one id, and the id of no other named       *)
(* message, if one consumer saw to it: resolveMessageID with a cache that  *)
(* other conversations, late events and a restart disturb.  (When its      *)
(* beginning was lost, or two consumers translate its end, it may be       *)
(* called by a made-up id or by the id of the message before.)             *)
MessagesKeepTheirIds ==
  \A m \in Messages \ disturbed :
    ids[m] \subseteq {IF m[1][1] \in Naming THEN <<"id", m>> ELSE <<"llm", m[1]>>}

(* If one consumer saw to it, a tool call is shown as one start, at most   *)
(* one execution, one result of the right kind and one end, in this order, *)
(* although two handlers are registered for the result.                    *)
ToolsInOrder ==
  \A x \in Engines : engine[x].message > 0 /\ <<x, engine[x].message>> \notin disturbed =>
    \E exec \in {<< >>, <<"tool.delta">>} :
      IsPrefix(calls[<<x, engine[x].message>>],
               <<"tool.start">> \o exec
               \o <<IF engine[x].tool = "calc" THEN "calc_result" ELSE "tool.result", "tool.done">>)

(* Clients of a conversation get frames of its present session only.       *)
OwnSession ==
  \A l \in Slots : \A j \in DOMAIN outgoing[l] : outgoing[l][j].of[1] = <<l[1], session[l[1]]>>

TranslationInv == OwnIds /\ MessagesKeepTheirIds /\ ToolsInOrder /\ OwnSession

(* The ring holds the frames sent last, in order.                          *)
RingInv ==
  \A c \in Conversations :
    LET kept == Min({RingSize, Len(sent[c])})
    IN  semBuf[c] = [i \in 1..kept |-> Len(sent[c]) - kept + i]

(* A client that goes on from the seq it was given last never gets a frame *)
(* twice, and misses none before the ring has dropped one (after that the  *)
(* route's numbers name other frames).                                     *)
PagesInv ==
  /\ RingInv
  /\ repeated = {}
  /\ \A p \in Pagers : got[p] # {} /\ Len(sent[p[1]]) <= RingSize =>
       got[p] = {n \in 1..Max(got[p]) : Wanted(p, n)}

=============================================================================

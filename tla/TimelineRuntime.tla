---------------------------- MODULE TimelineRuntime ----------------------------
(***************************************************************************)
(* How a frame is given to the custom projections: the registry of         *)
(* handlers and the runtime installed beside it                            *)
(* (pkg/webchat/timeline_registry.go), the runtime of JavaScript reducers  *)
(* (timeline_js_runtime.go) and the order in which ApplySemFrame           *)
(* (timeline_projector.go) tries them and its own projection.  They are    *)
(* shared by the consumers of all conversations, while an application      *)
(* installs, replaces, clears and feeds scripts to runtimes.               *)
(*                                                                         *)
(* A JavaScript value is a tagged tuple, an object a record of values.  Of *)
(* an entity only the id is kept.  What a closed runtime's owner does with *)
(* a call is not in this repository: it fails or finds nothing registered. *)
(***************************************************************************)
EXTENDS Naturals, Sequences, SequencesExt, FiniteSetsExt

CONSTANTS Conversations,
          JSRuntimes,     \* JSTimelineRuntime objects, each installed at most once
          None,         \* no runtime
          MaxFunctions, \* bound: reducers that scripts register
          MaxHandlers,  \* bound: handlers an application registers
          MaxEvents     \* bound: frames of a conversation

ASSUME RuntimeAssumption ==
  /\ None \notin JSRuntimes
  /\ MaxFunctions \in Nat /\ MaxHandlers \in Nat /\ MaxEvents \in Nat

Types == {"chat.message", "llm.start"}
Subscribed == Types \cup {"*"}
BuiltinTypes == {"llm.start"}
EventId == "event"
EntityIds == {EventId, "own", "other"}

VARIABLES
  installed, \* timelineRuntime
  replaced,  \* runtimes swapped out and not yet closed
  closed,    \* runtimes that were closed
  reducers,  \* per runtime, the number of reducers per type
  list,      \* timelineHandlers: number of handlers per type
  events,    \* per conversation, frames projected so far
  phase,     \* per conversation: idle, calling, upserting, listing, builtin
  type,      \* per conversation, the type of the frame it is at
  using,     \* per conversation, the runtime it read, then
  handlers,  \*   the handlers it read and has yet to call
  entities,  \*   ids of the runtime's entities yet to be written
  consume,   \*   whether a reducer consumed the frame
  meant,     \* what the reducers meant, by their documentation (history)
  wrote,     \* who wrote what for this frame (history)
  outcome    \* how the frame before ended (history)

registry == <<installed, replaced, closed, reducers, list>>
dispatch == <<events, phase, type, using, handlers, entities, consume, meant, wrote, outcome>>
runtimeVars == <<registry, dispatch>>

Phases == {"idle", "calling", "upserting", "listing", "builtin"}
Outcomes == {"none", "consumed", "failed", "handled", "projected"}
Decoded == [consume : BOOLEAN, ids : Seq(EntityIds)]
Nothing == [consume |-> FALSE, ids |-> << >>]

RuntimeTypeOK ==
  /\ installed \in JSRuntimes \cup {None}
  /\ replaced \subseteq JSRuntimes /\ closed \subseteq JSRuntimes /\ replaced \cap closed = {}
  /\ reducers \in [JSRuntimes -> [Subscribed -> Nat]]
  /\ list \in [Types -> Nat]
  /\ events \in [Conversations -> 0..MaxEvents]
  /\ phase \in [Conversations -> Phases]
  /\ type \in [Conversations -> Types]
  /\ using \in [Conversations -> JSRuntimes \cup {None}]
  /\ handlers \in [Conversations -> Nat]
  /\ entities \in [Conversations -> Seq(EntityIds)]
  /\ consume \in [Conversations -> BOOLEAN]
  /\ meant \in [Conversations -> Decoded]
  /\ wrote \in [Conversations -> Seq({"js", "list", "builtin"} \X EntityIds)]
  /\ outcome \in [Conversations -> Outcomes]

(* RegisterDefaultTimelineHandlers has installed the chat.message handler. *)
RuntimeInit ==
  /\ installed = None /\ replaced = {} /\ closed = {}
  /\ reducers = [r \in JSRuntimes |-> [t \in Subscribed |-> 0]]
  /\ list = [t \in Types |-> IF t = "chat.message" THEN 1 ELSE 0]
  /\ events = [c \in Conversations |-> 0]
  /\ phase = [c \in Conversations |-> "idle"]
  /\ type = [c \in Conversations |-> "chat.message"]
  /\ using = [c \in Conversations |-> None] /\ handlers = [c \in Conversations |-> 0]
  /\ entities = [c \in Conversations |-> << >>] /\ consume = [c \in Conversations |-> FALSE]
  /\ meant = [c \in Conversations |-> Nothing] /\ wrote = [c \in Conversations |-> << >>]
  /\ outcome = [c \in Conversations |-> "none"]

-----------------------------------------------------------------------------
(* A mistaken version of a definition below: a control object that is      *)
(* taken for an entity as well.                                            *)

AnyObject(o) == TRUE

-----------------------------------------------------------------------------
(* What a reducer returned *)

Field(o, key) == IF key \in DOMAIN o THEN o[key] ELSE <<"absent">>
looksLikeTimelineEntityMap(o) ==
  DOMAIN o \cap {"id", "kind", "props", "meta", "created_at_ms", "createdAtMs",
                 "updated_at_ms", "updatedAtMs"} # {}

(* The entity's id is the frame's own unless the object names one.         *)
decodeTimelineEntity(o) ==
  IF Field(o, "id")[1] = "string" /\ o.id[2] # "" THEN o.id[2] ELSE EventId

(* Items that are not objects are passed over.                             *)
decodeEntityArray(items) ==
  FlattenSeq([j \in DOMAIN items |->
                IF items[j][1] = "object" THEN <<decodeTimelineEntity(items[j][2])>> ELSE << >>])

Upserts(v) ==
  CASE v[1] = "array" -> decodeEntityArray(v[2])
    [] v[1] = "object" -> <<decodeTimelineEntity(v[2])>>
    [] OTHER -> << >>

decodeObject(o) ==
  LET entity == IF "upserts" \in DOMAIN o THEN Upserts(o.upserts)
                ELSE IF "consume" \in DOMAIN o /\ ~looksLikeTimelineEntityMap(o) THEN << >>
                ELSE <<decodeTimelineEntity(o)>>
  IN  [consume |-> Field(o, "consume") = <<"bool", TRUE>>, ids |-> entity]

decodeReducerReturn(v) ==
  CASE v[1] = "bool" -> [consume |-> v[2], ids |-> << >>]
    [] v[1] = "array" -> [consume |-> FALSE, ids |-> decodeEntityArray(v[2])]
    [] v[1] = "object" -> decodeObject(v[2])
    [] OTHER -> Nothing

(* What a reducer may return, and what the documentation of               *)
(* JSTimelineRuntime says it means: an entity, an array of entities, or    *)
(* { upserts, consume }; besides these a boolean, nothing, or a throw.     *)
Object(o) == <<"object", o>>
Own == Object([id |-> <<"string", "own">>])
Unnamed == Object([kind |-> <<"string", "k">>])
True == <<"bool", TRUE>>
Means(value, consumed, ids) == [value |-> value, meaning |-> [consume |-> consumed, ids |-> ids]]

Returned ==
  {Means(<<"undefined">>, FALSE, << >>),
   Means(True, TRUE, << >>),
   Means(Own, FALSE, <<"own">>),
   Means(Unnamed, FALSE, <<EventId>>),
   Means(<<"array", <<Own, <<"null">>, Unnamed>>>>, FALSE, <<"own", EventId>>),
   Means(Object([consume |-> True]), TRUE, << >>),
   Means(Object([consume |-> True, upserts |-> Own]), TRUE, <<"own">>),
   Means(Object([upserts |-> <<"array", <<Own>>>>]), FALSE, <<"own">>),
   Means(Object([consume |-> True, id |-> <<"string", "other">>]), TRUE, <<"other">>)}
Threw == Means(<<"null">>, FALSE, << >>)

-----------------------------------------------------------------------------
(* The application *)

Registered == MapThenSumSet(LAMBDA p : reducers[p[1]][p[2]], JSRuntimes \X Subscribed)

(* A script may run before or after its runtime is installed.              *)
RegisterReducer(r, t) ==
  /\ r \notin closed /\ Registered < MaxFunctions
  /\ reducers' = [reducers EXCEPT ![r][t] = @ + 1]
  /\ UNCHANGED <<dispatch, installed, replaced, closed, list>>

RegisterTimelineHandler(t) ==
  /\ MapThenSumSet(LAMBDA u : list[u], Types) <= MaxHandlers
  /\ list' = [list EXCEPT ![t] = @ + 1]
  /\ UNCHANGED <<dispatch, installed, replaced, closed, reducers>>

(* The runtime that was there is closed after the lock is released.        *)
Prev == {installed} \ {None}
Swap(r) ==
  /\ installed' = r
  /\ replaced' = replaced \cup Prev
  /\ UNCHANGED <<dispatch, closed, reducers>>

SetTimelineRuntime(r) ==
  /\ r \notin {installed} \cup replaced \cup closed
  /\ Swap(r) /\ UNCHANGED list
ClearTimelineRuntime == installed # None /\ Swap(None) /\ UNCHANGED list
ClearTimelineHandlers == Swap(None) /\ list' = [t \in Types |-> 0]

Close(r) ==
  /\ r \in replaced
  /\ replaced' = replaced \ {r} /\ closed' = closed \cup {r}
  /\ reducers' = [reducers EXCEPT ![r] = [t \in Subscribed |-> 0]]
  /\ UNCHANGED <<dispatch, installed, list>>

-----------------------------------------------------------------------------
(* A frame with a type, an id and a number, given to ApplySemFrame.        *)

Arrive(c) ==
  /\ phase[c] = "idle" /\ events[c] < MaxEvents
  /\ events' = [events EXCEPT ![c] = @ + 1]
  /\ \E t \in Types :
       /\ type' = [type EXCEPT ![c] = t]
       /\ handlers' = [handlers EXCEPT ![c] = list[t]]
  /\ using' = [using EXCEPT ![c] = installed]
  /\ phase' = [phase EXCEPT ![c] = IF installed = None THEN "upserting" ELSE "calling"]
  /\ entities' = [entities EXCEPT ![c] = << >>]
  /\ consume' = [consume EXCEPT ![c] = FALSE]
  /\ meant' = [meant EXCEPT ![c] = Nothing] /\ wrote' = [wrote EXCEPT ![c] = << >>]
  /\ UNCHANGED <<registry, outcome>>

Finish(c, how) ==
  /\ phase' = [phase EXCEPT ![c] = "idle"]
  /\ outcome' = [outcome EXCEPT ![c] = how]

(* The reducers of the type, then those of "*"; one that throws returns    *)
(* nothing.  Handlers, which only observe, are left out.                   *)
All(answers) ==
  [consume |-> \E j \in DOMAIN answers : answers[j].consume,
   ids |-> FlattenSeq([j \in DOMAIN answers |-> answers[j].ids])]

Call(c) ==
  LET r == using[c]
      n == reducers[r][type[c]] + reducers[r]["*"]
  IN  /\ phase[c] = "calling"
      /\ \E returned \in [1..n -> Returned \cup {Threw}] :
           LET all == All([j \in 1..n |-> decodeReducerReturn(returned[j].value)])
           IN  /\ consume' = [consume EXCEPT ![c] = all.consume]
               /\ entities' = [entities EXCEPT ![c] = all.ids]
               /\ meant' = [meant EXCEPT ![c] = All([j \in 1..n |-> returned[j].meaning])]
      /\ phase' = [phase EXCEPT ![c] = "upserting"]
      /\ UNCHANGED <<registry, events, type, using, handlers, wrote, outcome>>

CallFails(c) ==
  /\ phase[c] = "calling" /\ using[c] \in closed
  /\ Finish(c, "failed")
  /\ UNCHANGED <<registry, events, type, using, handlers, entities, consume, meant, wrote>>

Wrote(c, who, id) == wrote' = [wrote EXCEPT ![c] = Append(@, <<who, id>>)]

(* An upsert that fails is only logged.                                    *)
UpsertEntity(c) ==
  /\ phase[c] = "upserting" /\ entities[c] # << >>
  /\ Wrote(c, "js", Head(entities[c]))
  /\ entities' = [entities EXCEPT ![c] = Tail(@)]
  /\ UNCHANGED <<registry, events, phase, type, using, handlers, consume, meant, outcome>>

Upserted(c) ==
  /\ phase[c] = "upserting" /\ entities[c] = << >>
  /\ IF consume[c]
     THEN Finish(c, "consumed")
     ELSE /\ phase' = [phase EXCEPT ![c] = IF handlers[c] > 0 THEN "listing" ELSE "builtin"]
          /\ UNCHANGED outcome
  /\ UNCHANGED <<registry, events, type, using, handlers, entities, consume, meant, wrote>>

(* The list handlers in turn: the first error ends the projection.         *)
Handle(c) ==
  /\ phase[c] = "listing"
  /\ Wrote(c, "list", EventId)
  /\ handlers' = [handlers EXCEPT ![c] = @ - 1]
  /\ \/ Finish(c, "failed")
     \/ handlers[c] = 1 /\ Finish(c, "handled")
     \/ handlers[c] > 1 /\ UNCHANGED <<phase, outcome>>
  /\ UNCHANGED <<registry, events, type, using, entities, consume, meant>>

Builtin(c) ==
  /\ phase[c] = "builtin"
  /\ IF type[c] \in BuiltinTypes THEN Wrote(c, "builtin", EventId) ELSE UNCHANGED wrote
  /\ Finish(c, "projected")
  /\ UNCHANGED <<registry, events, type, using, handlers, entities, consume, meant>>

RuntimeNext ==
  \/ \E r \in JSRuntimes :
       \/ \E t \in Subscribed : RegisterReducer(r, t)
       \/ SetTimelineRuntime(r) \/ Close(r)
  \/ \E t \in Types : RegisterTimelineHandler(t)
  \/ ClearTimelineRuntime \/ ClearTimelineHandlers
  \/ \E c \in Conversations : \/ Arrive(c) \/ Call(c) \/ CallFails(c) \/ UpsertEntity(c)
                              \/ Upserted(c) \/ Handle(c) \/ Builtin(c)

RuntimeSpec == RuntimeInit /\ [][RuntimeNext]_runtimeVars

-----------------------------------------------------------------------------
By(c, who) == {j \in DOMAIN wrote[c] : wrote[c][j][1] = who}

(* When a frame has been projected, the runtime's entities are those its   *)
(* reducers are documented to mean, none lost to another's throw and each  *)
(* written before anything else; a consumed frame, and only that, is kept  *)
(* from the handlers and the projection; one of these two had any other;   *)
(* and a frame failed only to a handler, or to a runtime closed meanwhile. *)
Projected(c) ==
  LET js == [j \in DOMAIN meant[c].ids |-> <<"js", meant[c].ids[j]>>]
      others == (Len(js) + 1)..Len(wrote[c])
  IN  /\ IsPrefix(js, wrote[c])
      /\ outcome[c] = "consumed" <=> meant[c].consume
      /\ outcome[c] = "consumed" => others = {}
      /\ outcome[c] = "handled" => others # {} /\ By(c, "list") = others
      /\ outcome[c] = "projected" =>
           others = By(c, "builtin") /\ Cardinality(others) = IF type[c] \in BuiltinTypes THEN 1 ELSE 0
      /\ outcome[c] = "failed" => By(c, "list") # {} \/ using[c] \in closed

(* The registry (timeline_registry.go) never has a runtime that is closed  *)
(* or about to be, and every frame is projected as documented.             *)
ProjectionInv ==
  /\ RuntimeTypeOK
  /\ installed \notin replaced \cup closed
  /\ \A c \in Conversations : phase[c] = "idle" /\ outcome[c] # "none" => Projected(c)

=============================================================================

---------------------------- MODULE RuntimeSelection ----------------------------
(***************************************************************************)
(* From the profile a request selects to the engine its prompt runs with:  *)
(* the resolver (pkg/profilechat/request_resolver.go) merges the runtimes  *)
(* of a stack of profiles (pkg/inference/runtime/runtime_plan.go); what it *)
(* resolved is handed to GetOrCreate (pkg/webchat/conversation.go), which  *)
(* rebuilds the conversation when the fingerprint is another; and the      *)
(* runner's ensureLLMState (llm_state.go) composes the engine and session  *)
(* that serve until then (pkg/profilechat/runtime_composer.go).            *)
(*                                                                         *)
(* One conversation.  Requests, chat or websocket, are handled at once;    *)
(* its prompts run one at a time (PromptQueue).  A rebuild holds the       *)
(* manager's lock but not the conversation's, so that the runner may read  *)
(* half of it.  The registry of profiles, which may be edited any time, is *)
(* external; the settings it resolves are those of the stack's profiles in *)
(* order, each with its metadata and the rest.  A middleware is its key    *)
(* and configuration.  The addendum of a ContextProvider and the resolver  *)
(* without a registry are left out.                                        *)
(***************************************************************************)
EXTENDS Naturals, Sequences, SequencesExt, FiniteSetsExt

CONSTANTS Requests,       \* HTTP and websocket requests, each handled once
          Profiles,       \* slugs of the profiles there are
          DefaultProfile, \* StrictRequestResolver.defaultProfileSlug
          Lineage,        \* per profile, the profiles it is stacked on and itself
          Catalogues,     \* contents the registry may have: editions per profile
          Unencodable     \* configurations and metadata that json.Marshal refuses

None == [none |-> TRUE] \* nil
Use == [key : STRING, config : STRING]
Runtime == [prompt : STRING, middlewares : Seq(Use), tools : Seq(STRING)]

ASSUME SelectionAssumption ==
  /\ IsFiniteSet(Requests)
  /\ DefaultProfile \in Profiles /\ "" \notin Profiles
  /\ Lineage \in [Profiles -> Seq(Profiles) \ {<< >>}]
  /\ \A c \in Catalogues :
       /\ c \in [Profiles -> Seq(UNION {Range(c[p]) : p \in Profiles}) \ {<< >>}]
       /\ \A p \in Profiles : \A n \in DOMAIN c[p] : c[p][n].runtime \in Runtime \cup {None}

(* True of every string; the provers do not know it.                       *)
ASSUME BlankIsString == "" \in STRING

VARIABLES
  catalogue, \* the registry's contents
  edition,   \* per profile, its present edition
  request,   \* per request, how far it is and what it has resolved
  conv,      \* Conversation: key, fp, runtime, settings, version
  llm,       \* Conversation.llm: fp, engine, tools, session; torn, overtaken (history)
  waiting,   \* prompts admitted and not yet given to the runner
  runner,    \* LLMLoopRunner.Start: at, read, state; since, tagged (history)
  rebuilds,  \* twice the rebuilds there were, odd during one (history)
  sessions,  \* sessions made so far (history)
  failed,    \* the last GetOrCreate to enter failed half way, or one did (history)
  before     \* the run before: session, fp, since (history)

registry == <<catalogue, edition>>
conversation == <<conv, llm>>
running == <<runner, sessions, before>>
vars == <<registry, request, conversation, waiting, running, rebuilds, failed>>

Steps == {"new", "overlay", "ensure", "rebuild", "rekeyed", "refingered", "done"}
Idle(at) == [at |-> at, chat |-> FALSE, slug |-> "", version |-> 0, settings |-> << >>,
             rest |-> << >>, runtime |-> None, read |-> << >>]
Resting == [at |-> "idle", read |-> None, state |-> None, since |-> 0, tagged |-> {}]

Init ==
  /\ catalogue \in Catalogues
  /\ edition = [p \in Profiles |-> 1]
  /\ request = [h \in Requests |-> Idle("new")]
  /\ conv = None /\ llm = None /\ waiting = 0 /\ runner = Resting
  /\ rebuilds = 0 /\ sessions = 0 /\ failed = "no" /\ before = None

-----------------------------------------------------------------------------
(* Mistaken versions of definitions below: a fingerprint compared by its   *)
(* key alone, an overlay's use of a middleware that does not count, a lock *)
(* that is not held throughout GetOrCreate.                                *)

SameKey(q) == conv.key = q.slug
FirstUses(base, overlay) ==
  FoldLeft(LAMBDA out, use : IF \E i \in DOMAIN out : out[i].key = use.key
                             THEN out ELSE Append(out, use),
           << >>, base \o overlay)
Unlocked(h) == request[h].at = "ensure"

-----------------------------------------------------------------------------
(* The runtime of a stack of profiles *)

Empty == [prompt |-> "", middlewares |-> << >>, tools |-> << >>]

(* A use with the key of an earlier one takes its place.                   *)
appendUse(out, use) ==
  LET same == {i \in DOMAIN out : out[i].key = use.key}
  IN  IF same = {} THEN Append(out, use) ELSE [out EXCEPT ![Min(same)] = use]

mergeRuntimeMiddlewares(base, overlay) ==
  LET uses == base \o overlay
      out[n \in 0..Len(uses)] == IF n = 0 THEN << >> ELSE appendUse(out[n - 1], uses[n])
  IN  out[Len(uses)]

appendTool(out, tool) == IF tool = "" \/ tool \in ToSet(out) THEN out ELSE Append(out, tool)

mergeRuntimeTools(base, overlay) ==
  LET tools == base \o overlay
      out[n \in 0..Len(tools)] == IF n = 0 THEN << >> ELSE appendTool(out[n - 1], tools[n])
  IN  out[Len(tools)]

MergeProfileRuntime(base, overlay) ==
  IF base = None THEN overlay
  ELSE IF overlay = None THEN base
  ELSE [prompt |-> IF overlay.prompt # "" THEN overlay.prompt ELSE base.prompt,
        middlewares |-> mergeRuntimeMiddlewares(base.middlewares, overlay.middlewares),
        tools |-> mergeRuntimeTools(base.tools, overlay.tools)]

(* Of the settings a fingerprint tells their metadata; one that cannot be  *)
(* encoded tells the key alone.                                            *)
GetMetadata(settings) == [i \in DOMAIN settings |-> settings[i].meta]
Encodes(r, settings) ==
  /\ \A i \in DOMAIN r.middlewares : r.middlewares[i].config \notin Unencodable
  /\ \A i \in DOMAIN settings : settings[i].meta \notin Unencodable

BuildRuntimeFingerprint(key, version, r, settings) ==
  [key |-> key,
   told |-> IF Encodes(r, settings)
            THEN [version |-> version, prompt |-> r.prompt, middlewares |-> r.middlewares,
                  tools |-> r.tools, metadata |-> GetMetadata(settings)]
            ELSE None]

(* What an engine is made of; a middleware without a name is passed over.  *)
namedMiddlewares(uses) == SelectSeq(uses, LAMBDA use : use.key # "")
Compose(key, r, settings) ==
  [key |-> key, settings |-> settings,
   prompt |-> IF r.prompt # "" THEN r.prompt ELSE "You are a helpful assistant.",
   middlewares |-> namedMiddlewares(r.middlewares)]
toolNames(tools) == SelectSeq(tools, LAMBDA tool : tool # "")

FingerprintOf(c) == BuildRuntimeFingerprint(c.key, c.version, c.runtime, c.settings)

-----------------------------------------------------------------------------
(* A request *)

Now(p) == catalogue[p][edition[p]]

Edit(p) ==
  /\ edition[p] < Len(catalogue[p])
  /\ edition' = [edition EXCEPT ![p] = @ + 1]
  /\ UNCHANGED <<catalogue, request, conversation, waiting, running, rebuilds, failed>>

Becomes(h, q) == request' = [request EXCEPT ![h] = q]

(* The body's profile wins over the query's.                               *)
profileSelection(body, query) ==
  CASE body # "" -> body [] body = "" /\ query # "" -> query [] OTHER -> DefaultProfile

(* The registry resolves version and settings at once.                     *)
effectiveProfile(chat, slug) ==
  [Idle("overlay") EXCEPT !.chat = chat, !.slug = slug, !.version = Now(slug).version,
                          !.settings = [i \in DOMAIN Lineage[slug] |-> Now(Lineage[slug][i]).settings],
                          !.rest = Lineage[slug]]

(* Only a chat request has a body; a profile that does not exist is        *)
(* refused, as a malformed request is.                                     *)
Select(h) ==
  /\ request[h].at = "new"
  /\ \E chat \in BOOLEAN, body, query \in Profiles \cup {"", "unknown"} :
       LET slug == profileSelection(IF chat THEN body ELSE "", query)
       IN  Becomes(h, IF slug \in Profiles THEN effectiveProfile(chat, slug) ELSE Idle("done"))
  /\ UNCHANGED <<registry, conversation, waiting, running, rebuilds, failed>>

(* The runtimes of the stack are read one after the other.                 *)
Overlay(h) ==
  LET q == request[h]
      overlay == Now(Head(q.rest)).runtime
      merged == MergeProfileRuntime(q.runtime, overlay)
      last == Len(q.rest) = 1
  IN  /\ q.at = "overlay"
      /\ Becomes(h, [q EXCEPT !.at = IF last THEN "ensure" ELSE "overlay",
                              !.rest = Tail(@),
                              !.read = IF overlay = None THEN @ ELSE Append(@, overlay),
                              !.runtime = IF last /\ merged = None THEN Empty ELSE merged])
      /\ UNCHANGED <<registry, conversation, waiting, running, rebuilds, failed>>

(* A profile is gone or its runtime does not decode.                       *)
Fail(h) ==
  /\ request[h].at = "overlay"
  /\ Becomes(h, Idle("done"))
  /\ UNCHANGED <<registry, conversation, waiting, running, rebuilds, failed>>

(* The prompt is blank, the engine does not compose, or a new conversation *)
(* gets no subscriber or no stream.                                        *)
Refuse(h) ==
  /\ request[h].at = "ensure"
  /\ Becomes(h, Idle("done"))
  /\ UNCHANGED <<registry, conversation, waiting, running, rebuilds, failed>>

(* GetOrCreate leaves nothing half done.                                   *)
Whole == failed' = IF failed = "no" THEN "no" ELSE "once"

(* A chat request goes on to submit its prompt.                            *)
Served(h) ==
  /\ Becomes(h, Idle("done"))
  /\ waiting' = waiting + IF request[h].chat THEN 1 ELSE 0
  /\ Whole

(* The new stream does not start.                                          *)
Unserved(h) ==
  /\ Becomes(h, Idle("done"))
  /\ UNCHANGED waiting
  /\ Whole

Locked == \E h \in Requests : request[h].at \in {"rebuild", "rekeyed", "refingered"}
Enters(h) == request[h].at = "ensure" /\ ~Locked
Of(q) == [key |-> q.slug, runtime |-> q.runtime, settings |-> q.settings, version |-> q.version,
          fp |-> BuildRuntimeFingerprint(q.slug, q.version, q.runtime, q.settings)]

Create(h) ==
  /\ Enters(h) /\ conv = None
  /\ conv' = Of(request[h])
  /\ Served(h)
  /\ UNCHANGED <<registry, llm, running, rebuilds>>

(* Under the conversation's lock what was resolved is replaced, then the   *)
(* fingerprints are compared without it.                                   *)
SameRuntime(q) == conv.fp = Of(q).fp
Resolved(q) == conv' = [conv EXCEPT !.runtime = q.runtime, !.settings = q.settings,
                                    !.version = q.version]

Reuse(h) ==
  /\ Enters(h) /\ conv # None
  /\ SameRuntime(request[h])
  /\ Resolved(request[h])
  /\ Served(h)
  /\ UNCHANGED <<registry, llm, running, rebuilds>>

Rebuild(h) ==
  /\ Enters(h) /\ conv # None
  /\ ~SameRuntime(request[h])
  /\ Resolved(request[h])
  /\ Becomes(h, [request[h] EXCEPT !.at = "rebuild", !.read = << >>])
  /\ UNCHANGED <<registry, llm, waiting, running, rebuilds, failed>>

SubscriberFails(h) ==
  /\ request[h].at = "rebuild"
  /\ Becomes(h, Idle("done"))
  /\ failed' = "last"
  /\ UNCHANGED <<registry, conversation, waiting, running, rebuilds>>

Rekey(h) ==
  /\ request[h].at = "rebuild"
  /\ Becomes(h, [request[h] EXCEPT !.at = "rekeyed"])
  /\ conv' = [conv EXCEPT !.key = request[h].slug]
  /\ rebuilds' = rebuilds + 1
  /\ UNCHANGED <<registry, llm, waiting, running, failed>>

Refingerprint(h) ==
  /\ request[h].at = "rekeyed"
  /\ Becomes(h, [request[h] EXCEPT !.at = "refingered"])
  /\ conv' = Of(request[h])
  /\ UNCHANGED <<registry, llm, waiting, running, rebuilds, failed>>

Reset(h) ==
  /\ request[h].at = "refingered"
  /\ llm' = None
  /\ rebuilds' = rebuilds + 1
  /\ Served(h) \/ Unserved(h)
  /\ UNCHANGED <<registry, conv, running>>

-----------------------------------------------------------------------------
(* The runner *)

HasState == llm # None /\ llm.fp = conv.fp

(* ensureLLMState: the state there is, or what to compose one from.        *)
Ensure ==
  /\ runner.at = "idle" /\ waiting > 0
  /\ waiting' = waiting - 1
  /\ runner' = [Resting EXCEPT !.at = IF HasState THEN "ensured" ELSE "composing",
                               !.read = IF HasState THEN None ELSE conv,
                               !.state = IF HasState THEN llm ELSE None,
                               !.since = rebuilds]
  /\ UNCHANGED <<registry, request, conversation, sessions, before, rebuilds, failed>>

(* The engine is composed unlocked; the state is stored unless there is    *)
(* one for the fingerprint by then.                                        *)
Store ==
  LET read == runner.read
      state == [fp |-> read.fp, engine |-> Compose(read.key, read.runtime, read.settings),
                tools |-> toolNames(read.runtime.tools), session |-> sessions + 1,
                torn |-> read.fp # FingerprintOf(read),
                overtaken |-> IF read.fp = FingerprintOf(read) THEN 0
                              ELSE rebuilds \div 2 - runner.since \div 2]
  IN  /\ runner.at = "composing"
      /\ llm' = IF HasState THEN llm ELSE state
      /\ sessions' = IF HasState THEN sessions ELSE sessions + 1
      /\ runner' = [runner EXCEPT !.at = "ensured", !.read = None, !.state = llm']
      /\ UNCHANGED <<registry, request, conv, waiting, before, rebuilds, failed>>

(* Composing, the session or the publication of the prompt fails.          *)
StartFails ==
  /\ runner.at \in {"composing", "ensured"}
  /\ runner' = Resting
  /\ UNCHANGED <<registry, request, conversation, waiting, sessions, before, rebuilds, failed>>

(* The persister of the final turn takes the conversation's key now, the   *)
(* snapshot hook when it saves.                                            *)
Start ==
  /\ runner.at = "ensured"
  /\ runner' = [runner EXCEPT !.at = "running", !.tagged = {conv.key}]
  /\ UNCHANGED <<registry, request, conversation, waiting, sessions, before, rebuilds, failed>>

Save ==
  /\ runner.at = "running"
  /\ runner' = [runner EXCEPT !.tagged = @ \cup {conv.key}]
  /\ UNCHANGED <<registry, request, conversation, waiting, sessions, before, rebuilds, failed>>

End ==
  /\ runner.at = "running"
  /\ runner' = Resting
  /\ before' = [session |-> runner.state.session, fp |-> runner.state.fp, since |-> runner.since]
  /\ UNCHANGED <<registry, request, conversation, waiting, sessions, rebuilds, failed>>

Next ==
  \/ \E p \in Profiles : Edit(p)
  \/ \E h \in Requests :
       \/ Select(h) \/ Overlay(h) \/ Fail(h) \/ Refuse(h) \/ Create(h) \/ Reuse(h) \/ Rebuild(h)
       \/ SubscriberFails(h) \/ Rekey(h) \/ Refingerprint(h) \/ Reset(h)
  \/ Ensure \/ Store \/ StartFails \/ Start \/ Save \/ End

Spec == Init /\ [][Next]_vars

-----------------------------------------------------------------------------
TypeOK ==
  /\ catalogue \in Catalogues /\ \A p \in Profiles : edition[p] \in DOMAIN catalogue[p]
  /\ \A h \in Requests :
       /\ request[h].at \in Steps
       /\ request[h].at \in {"new", "done"} => request[h] = Idle(request[h].at)
       /\ request[h].at \notin {"new", "done"} => request[h].slug \in Profiles
  /\ Cardinality({h \in Requests : request[h].at \in {"rebuild", "rekeyed", "refingered"}}) <= 1
  /\ conv # None => conv.key \in Profiles
  /\ llm # None => conv # None /\ llm.session \in 1..sessions
  /\ waiting + (IF runner.at = "idle" THEN 0 ELSE 1)
       <= Cardinality({h \in Requests : request[h].at = "done"})
  /\ runner.at \in {"idle", "composing", "ensured", "running"}
  /\ runner.at = "composing" <=> runner.read # None
  /\ runner.at \in {"ensured", "running"} <=> runner.state # None

(* What a stack of runtimes should give: the last prompt, each tool once   *)
(* and each middleware as last given, in the order they first appear.  A   *)
(* stack of one is taken as it is.                                         *)
IndexIn(seq, x) == Min({i \in DOMAIN seq : seq[i] = x})
OnceEach(seq, given, besides) ==
  /\ ToSet(seq) = ToSet(given) \ besides
  /\ \A i, j \in DOMAIN seq : i < j => IndexIn(given, seq[i]) < IndexIn(given, seq[j])
Keys(uses) == [i \in DOMAIN uses |-> uses[i].key]
LastUse(uses, key) == uses[Max({i \in DOMAIN uses : uses[i].key = key})]

LastPrompt(layers) ==
  LET prompts == {i \in DOMAIN layers : layers[i].prompt # ""}
  IN  IF prompts = {} THEN "" ELSE layers[Max(prompts)].prompt
Tools(layers) == FlattenSeq([i \in DOMAIN layers |-> layers[i].tools])
Uses(layers) == FlattenSeq([i \in DOMAIN layers |-> layers[i].middlewares])

Stacks(r, layers) ==
  /\ r.prompt = LastPrompt(layers)
  /\ OnceEach(r.tools, Tools(layers), {""})
  /\ OnceEach(Keys(r.middlewares), Keys(Uses(layers)), {})
  /\ \A use \in ToSet(r.middlewares) : use = LastUse(Uses(layers), use.key)

(* The runtime of the stack is merged as documented by its tests           *)
(* (MergeProfileRuntime), and it is a runtime.                             *)
PlanInv ==
  /\ conv # None => conv.runtime \in Runtime
  /\ \A h \in Requests : request[h].at = "ensure" =>
       LET layers == request[h].read
       IN  /\ request[h].runtime \in Runtime
           /\ IF Len(layers) <= 1
              THEN request[h].runtime = IF layers = << >> THEN Empty ELSE layers[1]
              ELSE Stacks(request[h].runtime, layers)

(* But while GetOrCreate is at work, or when the last to enter has failed  *)
(* half way, the fingerprint is that of the runtime resolved last.         *)
FingerprintInv == conv # None /\ ~Locked /\ failed # "last" => conv.fp = FingerprintOf(conv)

(* A state of the conversation's key has, of what was resolved last, all   *)
(* that a fingerprint tells: the settings may differ outside the metadata, *)
(* and everything may where nothing could be encoded.                      *)
Agrees(state, c) ==
  LET engine == Compose(c.key, c.runtime, c.settings)
  IN  /\ state.engine.key = engine.key
      /\ Encodes(c.runtime, c.settings) =>
           /\ state.engine.prompt = engine.prompt
           /\ state.engine.middlewares = engine.middlewares
           /\ GetMetadata(state.engine.settings) = GetMetadata(engine.settings)
           /\ state.tools = toolNames(c.runtime.tools)

(* The cached state that passes for the fingerprint agrees with the        *)
(* runtime it is the fingerprint of, unless torn: composed of what         *)
(* ensureLLMState read half way through a rebuild.                         *)
StateInv ==
  llm # None /\ conv.fp = FingerprintOf(conv) /\ HasState /\ ~llm.torn => Agrees(llm, conv)

(* Between rebuilds no torn state passes for the fingerprint, unless some  *)
(* rebuild has failed half way or two ended while it was being composed:   *)
(* one away from the fingerprint that was read and one back.               *)
TornInv ==
  ~Locked /\ failed = "no" /\ llm # None /\ HasState /\ llm.torn => llm.overtaken >= 2

(* The same of the prompt being started or run, which keeps the state it   *)
(* was given: until the next rebuild its fingerprint is the conversation's,*)
(* and it agrees.                                                          *)
RunInv ==
  runner.state # None /\ runner.since = rebuilds /\ rebuilds % 2 = 0 =>
    /\ runner.state.fp = conv.fp
    /\ conv.fp = FingerprintOf(conv) /\ ~runner.state.torn => Agrees(runner.state, conv)

(* Between rebuilds the conversation has one session: of two runs in a row *)
(* for one fingerprint the second has the first one's turns.  And a turn   *)
(* is stored with the key of the engine that produced it, unless a rebuild *)
(* has begun since the runner looked, or the state is torn                 *)
(* (newTurnStorePersister, the hook).                                      *)
SessionInv ==
  runner.state # None =>
    /\ before # None /\ before.fp = runner.state.fp /\ before.since = runner.since =>
         before.session = runner.state.session
    /\ rebuilds = runner.since /\ rebuilds % 2 = 0 /\ ~runner.state.torn =>
         runner.tagged \subseteq {runner.state.engine.key}

(* What a prompt runs with is what the conversation resolved last when it  *)
(* started, be it for another request, as far as the fingerprint tells,    *)
(* and goes on from the prompt before.  Excepted are the engines torn by a *)
(* rebuild; TornInv says when one outlives it.                             *)
EngineInv == FingerprintInv /\ StateInv /\ TornInv /\ RunInv /\ SessionInv

=============================================================================

------------------------ MODULE RuntimeSelectionProofs ------------------------
(***************************************************************************)
(* What RuntimeSelection promises of the engine and the session a prompt   *)
(* runs with, for every set of requests and of profiles and whatever       *)
(* editions the registry's profiles go through.                            *)
(*                                                                         *)
(* The argument.  At most one request is between Rebuild and Reset, and    *)
(* what it has written by then is known (Progress).  So the fingerprint's  *)
(* own key is the conversation's but in the one step between Rekey and     *)
(* Refingerprint, which is what makes Reuse safe after a rebuild that      *)
(* failed: equal fingerprints are equal keys then.  A state has what its   *)
(* fingerprint tells unless it is torn (IsState), so that one with the     *)
(* conversation's fingerprint agrees with the conversation's runtime.  As  *)
(* long as no rebuild has begun or ended, the state a run has is still the *)
(* cached one (Sessions): within such a period the fingerprint changes at  *)
(* most once, by Refingerprint, after which no state of the old one is     *)
(* asked for.  What was read half way through a rebuild has a fingerprint  *)
(* that this rebuild replaces (TornReading).                               *)
(*                                                                         *)
(* The plan (PlanInv) is an invariant of its own: what a request has       *)
(* merged is what the layers it has read stack to (PlanOf), and one layer  *)
(* more keeps that (MergeStacks).  For the tools and the middlewares that  *)
(* is so because a fold keeps each once in the order of its first place    *)
(* (OnceEachAppend), and because dropping repetitions before the next      *)
(* layer is joined changes neither that order (OnceEachJoined) nor which   *)
(* use is the last (UsesOfJoined).                                         *)
(***************************************************************************)
EXTENDS RuntimeSelection, FiniteSetTheorems, SequenceTheorems, WellFoundedInduction,
        TLAPS

(* What the records are. *)
IsRequest(q) ==
  q = [at |-> q.at, chat |-> q.chat, slug |-> q.slug, version |-> q.version,
       settings |-> q.settings, rest |-> q.rest, runtime |-> q.runtime, read |-> q.read]
IsConversation(c) ==
  /\ c = [key |-> c.key, runtime |-> c.runtime, settings |-> c.settings,
          version |-> c.version, fp |-> c.fp]
  /\ c # None

(* What is composed for a fingerprint. *)
IsFor(engine, tools, fp) ==
  /\ engine.key = fp.key
  /\ fp.told # None =>
       /\ engine.prompt = IF fp.told.prompt # "" THEN fp.told.prompt
                          ELSE "You are a helpful assistant."
       /\ engine.middlewares = namedMiddlewares(fp.told.middlewares)
       /\ GetMetadata(engine.settings) = fp.told.metadata
       /\ tools = toolNames(fp.told.tools)
IsState(state, made) ==
  /\ state = [fp |-> state.fp, engine |-> state.engine, tools |-> state.tools,
              session |-> state.session, torn |-> state.torn,
              overtaken |-> state.overtaken]
  /\ state # None
  /\ state.torn \in BOOLEAN
  /\ state.session \in 1..made
  /\ ~state.torn => IsFor(state.engine, state.tools, state.fp)

Editions ==
  /\ catalogue \in Catalogues
  /\ edition \in [Profiles -> Nat]
  /\ \A p \in Profiles : edition[p] \in DOMAIN catalogue[p]

Handled ==
  /\ request = [h \in Requests |-> request[h]]
  /\ \A h \in Requests :
       /\ IsRequest(request[h])
       /\ request[h].at \in Steps
       /\ request[h].at \in {"new", "done"} => request[h] = Idle(request[h].at)
       /\ request[h].at \notin {"new", "done"} => request[h].slug \in Profiles
       /\ request[h].chat \in BOOLEAN

Ended(r) == {h \in Requests : r[h].at = "done"}
Busy(at) == IF at = "idle" THEN 0 ELSE 1
Admitted == waiting \in Nat /\ waiting + Busy(runner.at) <= Cardinality(Ended(request))

Cached ==
  /\ conv = None \/ (IsConversation(conv) /\ conv.key \in Profiles)
  /\ sessions \in Nat /\ rebuilds \in Nat
  /\ llm = None \/ (conv # None /\ IsState(llm, sessions))
  /\ waiting > 0 => conv # None

Running ==
  /\ runner = [at |-> runner.at, read |-> runner.read, state |-> runner.state,
               since |-> runner.since, tagged |-> runner.tagged]
  /\ runner.at \in {"idle", "composing", "ensured", "running"}
  /\ runner.read = None \/ IsConversation(runner.read)
  /\ runner.state = None \/ IsState(runner.state, sessions)
  /\ runner.at = "composing" <=> runner.read # None
  /\ runner.at \in {"ensured", "running"} <=> runner.state # None
  /\ runner.at # "running" => runner.tagged = {}
  /\ runner.since \in Nat /\ runner.since <= rebuilds
  /\ runner.at # "idle" => conv # None
  /\ before # None =>
       /\ conv # None
       /\ before.since \in Nat /\ before.since <= rebuilds
       /\ runner.at # "idle" => before.since <= runner.since

Locks(h) == request[h].at \in {"rebuild", "rekeyed", "refingered"}
OneLocks == \A h, g \in Requests : Locks(h) /\ Locks(g) => h = g
Renamed == \E h \in Requests : request[h].at = "rekeyed"
Fresh == \E h \in Requests : request[h].at = "refingered"

(* What GetOrCreate has written by each of its steps. *)
Written(h) ==
  /\ conv # None
  /\ conv.runtime = request[h].runtime /\ conv.settings = request[h].settings
  /\ conv.version = request[h].version
  /\ request[h].at # "rebuild" => conv.key = request[h].slug
  /\ request[h].at = "refingered" => conv = Of(request[h])
Progress ==
  /\ OneLocks
  /\ \A h \in Requests : Locks(h) => Written(h)
  /\ rebuilds % 2 = 1 <=> Renamed \/ Fresh
  /\ conv # None /\ ~Renamed => conv.fp.key = conv.key

(* The state of a run is the cached one. *)
Continues(session, fp) ==
  /\ llm # None /\ llm.session = session /\ llm.fp = fp
  /\ llm.fp = conv.fp \/ Fresh
Sessions ==
  /\ runner.at = "composing" /\ runner.since = rebuilds => runner.read.fp = conv.fp \/ Fresh
  /\ runner.state # None /\ runner.since = rebuilds =>
       Continues(runner.state.session, runner.state.fp)
  /\ before # None /\ before.since = rebuilds =>
       Continues(before.session, before.fp) \/ (llm # None /\ before.fp # conv.fp /\ Fresh)
  /\ runner.at = "composing" /\ before # None /\ before.since = runner.since =>
       /\ before.fp # runner.read.fp
       /\ runner.since % 2 = 1
       /\ rebuilds > runner.since => llm = None

IInv ==
  /\ Editions /\ Handled /\ Admitted /\ Cached /\ Running
  /\ Progress /\ Sessions /\ FingerprintInv /\ SessionInv

-----------------------------------------------------------------------------
LEMMA NoneIsNone ==
  /\ \A c : IsConversation(c) => c # None
  /\ Resting.read = None /\ Resting.state = None
BY DEF IsConversation, Resting

LEMMA Becoming ==
  ASSUME Handled, NEW h \in Requests, NEW q, Becomes(h, q)
  PROVE  /\ request' = [g \in Requests |-> request'[g]]
         /\ request'[h] = q
         /\ \A g \in Requests : g # h => request'[g] = request[g]
<1>1. request = [g \in Requests |-> request[g]] /\ request' = [request EXCEPT ![h] = q]
  BY DEF Handled, Becomes
<1>2. request' = [g \in Requests |-> IF g = h THEN q ELSE request[g]]
  BY <1>1
<1> QED
  BY <1>2

LEMMA EndedIsFinite ==
  ASSUME NEW r PROVE IsFiniteSet(Ended(r)) /\ Cardinality(Ended(r)) \in Nat
<1>1. IsFiniteSet(Requests) /\ Ended(r) \subseteq Requests
  BY SelectionAssumption DEF Ended
<1> QED
  BY <1>1, FS_Subset, FS_CardinalityType

(* One request more has ended. *)
LEMMA OneMoreEnded ==
  ASSUME Handled, NEW h \in Requests, NEW q, Becomes(h, q), request[h].at # "done"
  PROVE  Cardinality(Ended(request'))
           = Cardinality(Ended(request)) + IF q.at = "done" THEN 1 ELSE 0
<1>1. /\ request'[h] = q
      /\ \A g \in Requests : g # h => request'[g] = request[g]
  BY Becoming
<1>2. CASE q.at = "done"
  <2>1. Ended(request') = Ended(request) \cup {h} /\ h \notin Ended(request)
    BY <1>1, <1>2 DEF Ended
  <2> QED
    BY <1>2, <2>1, EndedIsFinite, FS_AddElement
<1>3. CASE q.at # "done"
  <2>1. Ended(request') = Ended(request)
    BY <1>1, <1>3 DEF Ended
  <2> QED
    BY <1>3, <2>1, EndedIsFinite
<1> QED
  BY <1>2, <1>3

LEMMA HandledStep ==
  ASSUME Handled, NEW h \in Requests, NEW q, Becomes(h, q),
         IsRequest(q), q.at \in Steps, q.chat \in BOOLEAN,
         q.at \in {"new", "done"} => q = Idle(q.at),
         q.at \notin {"new", "done"} => q.slug \in Profiles
  PROVE  Handled'
<1>1. /\ request' = [g \in Requests |-> request'[g]]
      /\ request'[h] = q
      /\ \A g \in Requests : g # h => request'[g] = request[g]
  BY Becoming
<1>2. ASSUME NEW g \in Requests
      PROVE  /\ IsRequest(request'[g])
             /\ request'[g].at \in Steps
             /\ request'[g].at \in {"new", "done"} => request'[g] = Idle(request'[g].at)
             /\ request'[g].at \notin {"new", "done"} => request'[g].slug \in Profiles
             /\ request'[g].chat \in BOOLEAN
  <2>1. CASE g = h
    BY <1>1, <2>1
  <2>2. CASE g # h
    BY <1>1, <2>2 DEF Handled
  <2> QED
    BY <2>1, <2>2
<1> QED
  BY <1>1, <1>2 DEF Handled

LEMMA IdleRequest ==
  ASSUME NEW at \in {"new", "done", "overlay"}
  PROVE  /\ IsRequest(Idle(at)) /\ Idle(at).at = at /\ at \in Steps
         /\ Idle(at).chat \in BOOLEAN
BY DEF IsRequest, Idle, Steps

LEMMA LockedIsLocks == Locked <=> \E h \in Requests : Locks(h)
BY DEF Locked, Locks

LEMMA OfIsConversation ==
  ASSUME NEW q
  PROVE  /\ IsConversation(Of(q)) /\ FingerprintOf(Of(q)) = Of(q).fp
         /\ Of(q).key = q.slug /\ Of(q).fp.key = q.slug
         /\ Of(q).runtime = q.runtime /\ Of(q).settings = q.settings
         /\ Of(q).version = q.version
BY DEF Of, IsConversation, FingerprintOf, BuildRuntimeFingerprint, None

LEMMA ResolvedIsConversation ==
  ASSUME NEW q, IsConversation(conv), Resolved(q)
  PROVE  /\ IsConversation(conv') /\ conv'.fp = conv.fp /\ conv'.key = conv.key
         /\ conv'.runtime = q.runtime /\ conv'.settings = q.settings
         /\ conv'.version = q.version
BY DEF Resolved, IsConversation, None

-----------------------------------------------------------------------------
(* Who holds the lock, and how far it is, hangs on the requests that hold  *)
(* it alone.                                                               *)
LEMMA SameLocks ==
  ASSUME OneLocks,
         \A g \in Requests : (request'[g].at # request[g].at
                               => ~Locks(g) /\ request'[g].at \in {"overlay", "ensure", "done"})
  PROVE  /\ OneLocks' /\ (Renamed' <=> Renamed) /\ (Fresh' <=> Fresh)
         /\ Locked' <=> Locked
         /\ \A g \in Requests : Locks(g)' <=> Locks(g)
<1>1. ASSUME NEW g \in Requests
      PROVE  /\ Locks(g)' <=> Locks(g)
             /\ request'[g].at = "rekeyed" <=> request[g].at = "rekeyed"
             /\ request'[g].at = "refingered" <=> request[g].at = "refingered"
  BY DEF Locks
<1> QED
  BY <1>1 DEF OneLocks, Renamed, Fresh, Locked, Locks

LEMMA InitIInv == Init => IInv
<1> SUFFICES ASSUME Init PROVE IInv
  OBVIOUS
<1> USE DEF Init
<1>1. Editions
  <2>1. ASSUME NEW p \in Profiles PROVE edition[p] \in DOMAIN catalogue[p]
    <3>1. catalogue[p] \in Seq(UNION {Range(catalogue[r]) : r \in Profiles}) \ {<< >>}
      BY SelectionAssumption
    <3> QED
      BY <3>1, EmptySeq, LenProperties
  <2> QED
    BY <2>1 DEF Editions
<1>2. Handled
  BY IdleRequest DEF Handled
<1>3. Admitted
  <2>1. Busy(runner.at) = 0 /\ waiting = 0
    BY DEF Busy, Resting
  <2>2. Cardinality(Ended(request)) \in Nat
    BY EndedIsFinite
  <2> QED
    BY <2>1, <2>2 DEF Admitted
<1>4. Cached
  BY DEF Cached
<1>5. Running
  <2>1. /\ runner = [at |-> runner.at, read |-> runner.read, state |-> runner.state,
                     since |-> runner.since, tagged |-> runner.tagged]
        /\ runner.at = "idle" /\ runner.read = None /\ runner.state = None
        /\ runner.since = 0 /\ runner.tagged = {} /\ before = None /\ rebuilds = 0
    BY DEF Resting
  <2> QED
    BY <2>1 DEF Running
<1>6. Progress /\ Sessions /\ FingerprintInv /\ SessionInv
  <2>1. \A h \in Requests : request[h].at = "new"
    BY IdleRequest
  <2>2. Progress
    BY <2>1 DEF Progress, OneLocks, Locks, Renamed, Fresh
  <2> QED
    BY <2>2 DEF Sessions, FingerprintInv, SessionInv, Resting
<1> QED
  BY <1>1, <1>2, <1>3, <1>4, <1>5, <1>6 DEF IInv

-----------------------------------------------------------------------------
(* Steps of a request before it enters GetOrCreate.                        *)
LEMMA EditStep ==
  ASSUME IInv, NEW p \in Profiles, Edit(p) PROVE IInv'
<1> USE DEF conversation, running
<1>1. Editions'
  <2>1. catalogue[p] \in Seq(UNION {Range(catalogue[r]) : r \in Profiles})
    BY SelectionAssumption DEF IInv, Editions
  <2>2. Len(catalogue[p]) \in Nat /\ DOMAIN catalogue[p] = 1..Len(catalogue[p])
    BY <2>1, LenProperties
  <2>3. edition[p] + 1 \in DOMAIN catalogue[p]
    BY <2>2 DEF IInv, Editions, Edit
  <2> QED
    BY <2>3 DEF IInv, Editions, Edit
<1>2. Handled' /\ Admitted' /\ Cached' /\ Running'
  BY DEF IInv, Edit, Handled, Admitted, Cached, Running
<1>3. Progress'
  BY DEF IInv, Edit, Progress, OneLocks, Locks, Renamed, Fresh, Written
<1>4. Sessions'
  BY DEF IInv, Edit, Sessions, Continues, Fresh
<1>5. FingerprintInv' /\ SessionInv'
  BY DEF IInv, Edit, FingerprintInv, SessionInv, Locked
<1> QED
  BY <1>1, <1>2, <1>3, <1>4, <1>5 DEF IInv

LEMMA ResolvingStep ==
  ASSUME IInv, NEW h \in Requests, NEW q, Becomes(h, q),
         request[h].at \in {"new", "overlay", "ensure"},
         IsRequest(q), q.at \in {"overlay", "ensure", "done"}, q.chat \in BOOLEAN,
         q.at = "done" => q = Idle("done"),
         q.at # "done" => q.slug \in Profiles,
         UNCHANGED <<registry, conversation, waiting, running, rebuilds, failed>>
  PROVE  IInv'
<1> USE DEF registry, conversation, running
<1>1. /\ request'[h] = q
      /\ \A g \in Requests : g # h => request'[g] = request[g]
  BY Becoming DEF IInv
<1>2. Handled'
  BY HandledStep DEF IInv, Steps
<1>3. /\ OneLocks' /\ (Renamed' <=> Renamed) /\ (Fresh' <=> Fresh)
      /\ Locked' <=> Locked
      /\ \A g \in Requests : Locks(g)' <=> Locks(g)
  <2>1. ~Locks(h)
    BY DEF Locks
  <2>2. \A g \in Requests : request'[g].at # request[g].at
           => ~Locks(g) /\ request'[g].at \in {"overlay", "ensure", "done"}
    BY <1>1, <2>1
  <2> QED
    BY <2>2, SameLocks DEF IInv, Progress
<1>4. Admitted'
  <2>1. Cardinality(Ended(request')) >= Cardinality(Ended(request))
    BY OneMoreEnded, EndedIsFinite DEF IInv
  <2> QED
    BY <2>1, EndedIsFinite DEF IInv, Admitted, Busy
<1>5. Editions' /\ Cached' /\ Running' /\ SessionInv'
  BY DEF IInv, Editions, Cached, Running, SessionInv
<1>6. Progress'
  <2>1. ASSUME NEW g \in Requests, Locks(g) PROVE Written(g)'
    <3>1. g # h
      BY <2>1 DEF Locks
    <3> QED
      BY <1>1, <2>1, <3>1 DEF IInv, Progress, Written
  <2> QED
    BY <1>3, <2>1 DEF IInv, Progress
<1>7. Sessions'
  BY <1>3 DEF IInv, Sessions, Continues
<1>8. FingerprintInv'
  BY <1>3 DEF IInv, FingerprintInv
<1> QED
  BY <1>2, <1>4, <1>5, <1>6, <1>7, <1>8 DEF IInv

LEMMA IdleEnds ==
  /\ IsRequest(Idle("done")) /\ Idle("done").at = "done"
  /\ Idle("done").chat \in BOOLEAN
BY DEF IsRequest, Idle

LEMMA SelectStep ==
  ASSUME IInv, NEW h \in Requests, Select(h) PROVE IInv'
<1> PICK chat \in BOOLEAN, body \in Profiles \cup {"", "unknown"},
         query \in Profiles \cup {"", "unknown"} :
      LET slug == profileSelection(IF chat THEN body ELSE "", query)
      IN  Becomes(h, IF slug \in Profiles THEN effectiveProfile(chat, slug) ELSE Idle("done"))
  BY DEF Select
<1> DEFINE slug == profileSelection(IF chat THEN body ELSE "", query)
<1>1. request[h].at = "new"
      /\ UNCHANGED <<registry, conversation, waiting, running, rebuilds, failed>>
  BY DEF Select
<1>2. Becomes(h, IF slug \in Profiles THEN effectiveProfile(chat, slug) ELSE Idle("done"))
  OBVIOUS
<1> HIDE DEF slug
<1>3. CASE slug \in Profiles
  <2> DEFINE q == effectiveProfile(chat, slug)
  <2>1. IsRequest(q) /\ q.at = "overlay" /\ q.chat = chat /\ q.slug = slug
    <3> DEFINE version == Now(slug).version
               settings == [i \in DOMAIN Lineage[slug] |-> Now(Lineage[slug][i]).settings]
               rest == Lineage[slug]
    <3>0. q = [Idle("overlay") EXCEPT !.chat = chat, !.slug = slug, !.version = version,
                                      !.settings = settings, !.rest = rest]
      BY DEF effectiveProfile
    <3> HIDE DEF q, version, settings, rest
    <3>1. q = [at |-> "overlay", chat |-> chat, slug |-> slug, version |-> version,
               settings |-> settings, rest |-> rest, runtime |-> None, read |-> << >>]
      BY <3>0 DEF Idle
    <3> QED
      BY <3>1 DEF IsRequest
  <2>2. Becomes(h, q)
    BY <1>2, <1>3
  <2> HIDE DEF q
  <2> QED
    BY <1>1, <1>3, <2>1, <2>2, ResolvingStep
<1>4. CASE slug \notin Profiles
  <2>1. Becomes(h, Idle("done"))
    BY <1>2, <1>4
  <2> QED
    BY <1>1, <2>1, IdleEnds, ResolvingStep
<1> QED
  BY <1>3, <1>4

LEMMA OverlayStep ==
  ASSUME IInv, NEW h \in Requests, Overlay(h) PROVE IInv'
<1> DEFINE p == request[h]
           overlay == Now(Head(p.rest)).runtime
           merged == MergeProfileRuntime(p.runtime, overlay)
           last == Len(p.rest) = 1
           q == [p EXCEPT !.at = IF last THEN "ensure" ELSE "overlay",
                          !.rest = Tail(@),
                          !.read = IF overlay = None THEN @ ELSE Append(@, overlay),
                          !.runtime = IF last /\ merged = None THEN Empty ELSE merged]
<1>1. p.at = "overlay" /\ Becomes(h, q)
      /\ UNCHANGED <<registry, conversation, waiting, running, rebuilds, failed>>
  BY DEF Overlay
<1>2. IsRequest(p) /\ p.chat \in BOOLEAN /\ p.slug \in Profiles
  BY <1>1 DEF IInv, Handled
<1>3. IsRequest(q) /\ q.at \in {"overlay", "ensure"} /\ q.chat = p.chat /\ q.slug = p.slug
  <2> DEFINE at == IF last THEN "ensure" ELSE "overlay"
             runtime == IF last /\ merged = None THEN Empty ELSE merged
             read == IF overlay = None THEN p.read ELSE Append(p.read, overlay)
             rest == Tail(p.rest)
  <2>1. q = [p EXCEPT !.at = at, !.rest = rest, !.read = read, !.runtime = runtime]
    OBVIOUS
  <2>2. at \in {"ensure", "overlay"}
    OBVIOUS
  <2> HIDE DEF q, at, runtime, read, rest, p
  <2>3. q = [at |-> at, chat |-> p.chat, slug |-> p.slug, version |-> p.version,
             settings |-> p.settings, rest |-> rest, runtime |-> runtime, read |-> read]
    BY <1>2, <2>1 DEF IsRequest
  <2> QED
    BY <2>2, <2>3 DEF IsRequest
<1>4. p = request[h]
  OBVIOUS
<1> HIDE DEF q, p
<1> QED
  BY <1>1, <1>2, <1>3, <1>4, ResolvingStep

LEMMA GivesUpStep ==
  ASSUME IInv, NEW h \in Requests, Fail(h) \/ Refuse(h) PROVE IInv'
<1>1. /\ Becomes(h, Idle("done")) /\ request[h].at \in {"overlay", "ensure"}
      /\ UNCHANGED <<registry, conversation, waiting, running, rebuilds, failed>>
  BY DEF Fail, Refuse
<1> QED
  BY <1>1, IdleEnds, ResolvingStep

-----------------------------------------------------------------------------
(* Steps of GetOrCreate. *)
LEMMA Alone ==
  ASSUME IInv, NEW h \in Requests, Locks(h)
  PROVE  /\ Written(h) /\ IsConversation(conv)
         /\ \A g \in Requests : g # h => ~Locks(g)
         /\ Renamed <=> request[h].at = "rekeyed"
         /\ Fresh <=> request[h].at = "refingered"
<1>1. Written(h) /\ IsConversation(conv)
  BY DEF IInv, Progress, Written, Cached
<1>2. \A g \in Requests : g # h => ~Locks(g)
  BY DEF IInv, Progress, OneLocks
<1> QED
  BY <1>1, <1>2 DEF Renamed, Fresh, Locks

LEMMA NobodyLocks ==
  ASSUME Progress, ~Locked
  PROVE  /\ \A g \in Requests : ~Locks(g)
         /\ ~Renamed /\ ~Fresh
BY DEF Locked, Locks, Renamed, Fresh

(* A request that is served leaves the lock to nobody.                     *)
LEMMA ServingFrees ==
  ASSUME IInv, NEW h \in Requests, Served(h) \/ Unserved(h), UNCHANGED runner,
         \A g \in Requests : g # h => ~Locks(g), request[h].at \notin {"new", "done"}
  PROVE  /\ Handled' /\ Admitted'
         /\ \A g \in Requests : ~Locks(g)'
         /\ OneLocks' /\ ~Renamed' /\ ~Fresh' /\ ~Locked'
<1>1. Becomes(h, Idle("done"))
  BY DEF Served, Unserved
<1>2. /\ request'[h] = Idle("done")
      /\ \A g \in Requests : g # h => request'[g] = request[g]
  BY <1>1, Becoming DEF IInv
<1>3. Handled'
  BY <1>1, HandledStep, IdleEnds DEF IInv, Steps
<1>4. Admitted'
  <2>1. Cardinality(Ended(request')) = Cardinality(Ended(request)) + 1
    BY <1>1, OneMoreEnded, IdleEnds DEF IInv
  <2>2. waiting' \in {waiting, waiting + 1}
    <3>1. waiting \in Nat
      BY DEF IInv, Admitted
    <3> QED
      BY <3>1 DEF Served, Unserved
  <2> QED
    BY <2>1, <2>2, EndedIsFinite DEF IInv, Admitted, Busy
<1>5. \A g \in Requests : ~Locks(g)'
  BY <1>2, IdleEnds DEF Locks
<1> QED
  BY <1>3, <1>4, <1>5 DEF OneLocks, Renamed, Fresh, Locked, Locks

LEMMA CreateStep ==
  ASSUME IInv, NEW h \in Requests, Create(h) PROVE IInv'
<1> DEFINE q == request[h]
<1>1. /\ q.at = "ensure" /\ ~Locked /\ conv = None /\ conv' = Of(q) /\ Served(h)
      /\ UNCHANGED <<catalogue, edition, llm, runner, sessions, before, rebuilds>>
  BY DEF Create, Enters, registry, running
<1>2. /\ IsConversation(conv') /\ FingerprintOf(conv') = conv'.fp
      /\ conv'.key = q.slug /\ conv'.fp.key = q.slug
  <2>1. /\ IsConversation(Of(q)) /\ FingerprintOf(Of(q)) = Of(q).fp
        /\ Of(q).key = q.slug /\ Of(q).fp.key = q.slug
    BY OfIsConversation
  <2> QED
    BY <1>1, <2>1
<1>3. q.slug \in Profiles
  BY <1>1 DEF IInv, Handled
<1>4. conv' # None
  BY <1>2 DEF IsConversation
<1>5. (\A g \in Requests : ~Locks(g)) /\ ~Renamed /\ ~Fresh
  BY <1>1, NobodyLocks DEF IInv
<1>6. /\ Handled' /\ Admitted'
      /\ \A g \in Requests : ~Locks(g)'
      /\ OneLocks' /\ ~Renamed' /\ ~Fresh' /\ ~Locked'
  BY <1>1, <1>5, ServingFrees
<1>7. runner.at = "idle" /\ before = None /\ llm = None
  BY <1>1 DEF IInv, Running, Cached
<1> HIDE DEF q
<1>8. Cached'
  <2>1. sessions' \in Nat /\ rebuilds' \in Nat
    BY <1>1 DEF IInv, Cached
  <2> QED
    BY <1>1, <1>2, <1>3, <1>4, <1>7, <2>1, Zenon DEF Cached
<1>9. Running' /\ Editions'
  BY <1>1, <1>4 DEF IInv, Running, Editions
<1>10. Progress'
  BY <1>1, <1>2, <1>5, <1>6 DEF IInv, Progress
<1>11. Sessions'
  BY <1>1, <1>7 DEF IInv, Sessions, Running
<1>12. FingerprintInv' /\ SessionInv'
  BY <1>1, <1>2, <1>7 DEF IInv, FingerprintInv, SessionInv, Running
<1> QED
  BY <1>6, <1>8, <1>9, <1>10, <1>11, <1>12 DEF IInv

(* Equal fingerprints, and a fingerprint with the conversation's key: what *)
(* is replaced is the fingerprint's own.                                   *)
LEMMA ReuseStep ==
  ASSUME IInv, NEW h \in Requests, Reuse(h) PROVE IInv'
<1> DEFINE q == request[h]
<1>1. /\ q.at = "ensure" /\ ~Locked /\ conv # None /\ conv.fp = Of(q).fp
      /\ Resolved(q) /\ Served(h)
      /\ UNCHANGED <<catalogue, edition, llm, runner, sessions, before, rebuilds>>
  BY DEF Reuse, Enters, SameRuntime, registry, running
<1>2. IsConversation(conv)
  BY <1>1 DEF IInv, Cached
<1>3. /\ IsConversation(conv') /\ conv'.fp = conv.fp /\ conv'.key = conv.key
      /\ conv'.runtime = q.runtime /\ conv'.settings = q.settings
      /\ conv'.version = q.version
  BY <1>1, <1>2, ResolvedIsConversation
<1>4. conv' # None
  BY <1>3 DEF IsConversation
<1>5. (\A g \in Requests : ~Locks(g)) /\ ~Renamed /\ ~Fresh
  BY <1>1, NobodyLocks DEF IInv
<1>6. /\ Handled' /\ Admitted'
      /\ \A g \in Requests : ~Locks(g)'
      /\ OneLocks' /\ ~Renamed' /\ ~Fresh' /\ ~Locked'
  BY <1>1, <1>5, ServingFrees
<1> HIDE DEF q
<1>7. conv'.fp = FingerprintOf(conv')
  <2>1. conv.fp.key = conv.key
    BY <1>1, <1>5 DEF IInv, Progress
  <2>2. Of(q).fp.key = q.slug
        /\ Of(q).fp = BuildRuntimeFingerprint(q.slug, q.version, q.runtime, q.settings)
    BY OfIsConversation DEF Of
  <2>3. conv'.key = q.slug
    BY <1>1, <1>3, <2>1, <2>2
  <2> QED
    BY <1>1, <1>3, <2>2, <2>3 DEF FingerprintOf
<1>8. Cached'
  <2>1. sessions' \in Nat /\ rebuilds' \in Nat /\ conv.key \in Profiles
    BY <1>1 DEF IInv, Cached
  <2>2. llm = None \/ IsState(llm, sessions)
    BY DEF IInv, Cached
  <2> QED
    BY <1>1, <1>3, <1>4, <2>1, <2>2, Zenon DEF Cached
<1>9. Running' /\ Editions'
  BY <1>1, <1>4 DEF IInv, Running, Editions
<1>10. Progress'
  BY <1>1, <1>3, <1>5, <1>6 DEF IInv, Progress
<1>11. Sessions'
  BY <1>1, <1>3, <1>5, <1>6 DEF IInv, Sessions, Continues
<1>12. FingerprintInv' /\ SessionInv'
  BY <1>1, <1>7 DEF IInv, FingerprintInv, SessionInv
<1> QED
  BY <1>6, <1>8, <1>9, <1>10, <1>11, <1>12 DEF IInv

-----------------------------------------------------------------------------
LEMMA RebuildStep ==
  ASSUME IInv, NEW h \in Requests, Rebuild(h) PROVE IInv'
<1> DEFINE q == request[h]
           p == [q EXCEPT !.at = "rebuild", !.read = << >>]
<1>1. /\ q.at = "ensure" /\ ~Locked /\ conv # None /\ Resolved(q) /\ Becomes(h, p)
      /\ UNCHANGED <<catalogue, edition, llm, waiting, runner, sessions, before, rebuilds>>
  BY DEF Rebuild, Enters, registry, running
<1>2. IsConversation(conv) /\ conv.key \in Profiles
  BY <1>1 DEF IInv, Cached
<1>3. /\ IsConversation(conv') /\ conv'.fp = conv.fp /\ conv'.key = conv.key
      /\ conv'.runtime = q.runtime /\ conv'.settings = q.settings
      /\ conv'.version = q.version
  BY <1>1, <1>2, ResolvedIsConversation
<1>4. conv' # None
  BY <1>3 DEF IsConversation
<1>5. (\A g \in Requests : ~Locks(g)) /\ ~Renamed /\ ~Fresh
  BY <1>1, NobodyLocks DEF IInv
<1>6. IsRequest(q) /\ q.chat \in BOOLEAN /\ q.slug \in Profiles
  BY <1>1 DEF IInv, Handled
<1>7. /\ IsRequest(p) /\ p.at = "rebuild" /\ p.chat = q.chat /\ p.slug = q.slug
      /\ p.runtime = q.runtime /\ p.settings = q.settings /\ p.version = q.version
  <2> HIDE DEF q
  <2>1. p = [at |-> "rebuild", chat |-> q.chat, slug |-> q.slug, version |-> q.version,
             settings |-> q.settings, rest |-> q.rest, runtime |-> q.runtime, read |-> << >>]
    <3> DEFINE r == [q EXCEPT !.at = "rebuild"]
               nothing == << >>
    <3>1. r = [at |-> "rebuild", chat |-> q.chat, slug |-> q.slug, version |-> q.version,
               settings |-> q.settings, rest |-> q.rest, runtime |-> q.runtime, read |-> q.read]
      BY <1>6 DEF IsRequest
    <3>2. p = [r EXCEPT !.read = nothing]
      OBVIOUS
    <3> HIDE DEF r, p, nothing
    <3>3. p = [at |-> "rebuild", chat |-> q.chat, slug |-> q.slug, version |-> q.version,
               settings |-> q.settings, rest |-> q.rest, runtime |-> q.runtime,
               read |-> nothing]
      BY <3>1, <3>2
    <3> QED
      BY <3>3 DEF nothing
  <2> HIDE DEF p
  <2> QED
    BY <2>1 DEF IsRequest
<1>8. /\ request'[h] = p
      /\ \A g \in Requests : g # h => request'[g] = request[g]
  BY <1>1, Becoming DEF IInv
<1> HIDE DEF p
<1>9. Handled'
  BY <1>1, <1>6, <1>7, HandledStep DEF IInv, Steps
<1>10. Admitted'
  <2>1. Cardinality(Ended(request')) = Cardinality(Ended(request)) + 0
    BY <1>1, <1>7, OneMoreEnded DEF IInv
  <2> QED
    BY <1>1, <2>1, EndedIsFinite DEF IInv, Admitted, Busy
<1>11. Cached'
  <2>1. sessions' \in Nat /\ rebuilds' \in Nat
    BY <1>1 DEF IInv, Cached
  <2>2. llm = None \/ IsState(llm, sessions)
    BY DEF IInv, Cached
  <2> QED
    BY <1>1, <1>2, <1>3, <1>4, <2>1, <2>2, Zenon DEF Cached
<1>12. Running' /\ Editions' /\ SessionInv'
  BY <1>1, <1>4 DEF IInv, Running, Editions, SessionInv
<1>13. Locks(h)' /\ (\A g \in Requests : g # h => ~Locks(g)') /\ ~Renamed' /\ ~Fresh'
  BY <1>5, <1>7, <1>8 DEF Locks, Renamed, Fresh
<1>14. Progress'
  <2>1. Written(h)'
    BY <1>3, <1>4, <1>7, <1>8 DEF Written
  <2>2. OneLocks' /\ \A g \in Requests : Locks(g)' => Written(g)'
    BY <1>13, <2>1 DEF OneLocks
  <2> QED
    BY <1>1, <1>3, <1>5, <1>13, <2>2 DEF IInv, Progress
<1>15. Sessions'
  BY <1>1, <1>3, <1>5, <1>13 DEF IInv, Sessions, Continues
<1>16. FingerprintInv'
  BY <1>13 DEF FingerprintInv, Locked, Locks
<1> QED
  BY <1>9, <1>10, <1>11, <1>12, <1>14, <1>15, <1>16 DEF IInv

LEMMA SubscriberFailsStep ==
  ASSUME IInv, NEW h \in Requests, SubscriberFails(h) PROVE IInv'
<1>1. /\ request[h].at = "rebuild" /\ Becomes(h, Idle("done")) /\ failed' = "last"
      /\ UNCHANGED <<catalogue, edition, conv, llm, waiting, runner, sessions, before, rebuilds>>
  BY DEF SubscriberFails, registry, conversation, running
<1>2. /\ Locks(h) /\ (\A g \in Requests : g # h => ~Locks(g)) /\ ~Renamed /\ ~Fresh
  BY <1>1, Alone DEF Locks
<1>3. /\ request'[h] = Idle("done")
      /\ \A g \in Requests : g # h => request'[g] = request[g]
  BY <1>1, Becoming DEF IInv
<1>4. Handled'
  BY <1>1, HandledStep, IdleEnds DEF IInv, Steps
<1>5. Admitted'
  <2>1. Cardinality(Ended(request')) = Cardinality(Ended(request)) + 1
    BY <1>1, OneMoreEnded, IdleEnds DEF IInv
  <2> QED
    BY <1>1, <2>1, EndedIsFinite DEF IInv, Admitted, Busy
<1>6. Editions' /\ Cached' /\ Running' /\ SessionInv'
  BY <1>1 DEF IInv, Editions, Cached, Running, SessionInv
<1>7. (\A g \in Requests : ~Locks(g)') /\ OneLocks' /\ ~Renamed' /\ ~Fresh'
  BY <1>2, <1>3, IdleEnds DEF Locks, OneLocks, Renamed, Fresh
<1>8. Progress'
  BY <1>1, <1>2, <1>7 DEF IInv, Progress
<1>9. Sessions'
  BY <1>1, <1>2, <1>7 DEF IInv, Sessions, Continues
<1>10. FingerprintInv'
  BY <1>1 DEF FingerprintInv
<1> QED
  BY <1>4, <1>5, <1>6, <1>8, <1>9, <1>10 DEF IInv

(* A rebuild begins: no run has looked since.                              *)
LEMMA RekeyStep ==
  ASSUME IInv, NEW h \in Requests, Rekey(h) PROVE IInv'
<1> DEFINE q == request[h]
           p == [q EXCEPT !.at = "rekeyed"]
<1>1. /\ q.at = "rebuild" /\ Becomes(h, p) /\ conv' = [conv EXCEPT !.key = q.slug]
      /\ rebuilds' = rebuilds + 1
      /\ UNCHANGED <<catalogue, edition, llm, waiting, runner, sessions, before, failed>>
  BY DEF Rekey, registry, running
<1>2. /\ Locks(h) /\ Written(h) /\ IsConversation(conv)
      /\ (\A g \in Requests : g # h => ~Locks(g)) /\ ~Renamed /\ ~Fresh
  BY <1>1, Alone DEF Locks
<1>3. /\ IsRequest(q) /\ q.chat \in BOOLEAN /\ q.slug \in Profiles
  BY <1>1 DEF IInv, Handled
<1>4. /\ IsRequest(p) /\ p.at = "rekeyed" /\ p.chat = q.chat /\ p.slug = q.slug
      /\ p.runtime = q.runtime /\ p.settings = q.settings /\ p.version = q.version
  <2> HIDE DEF q
  <2> QED
    BY <1>3 DEF IsRequest
<1>5. /\ request'[h] = p
      /\ \A g \in Requests : g # h => request'[g] = request[g]
  BY <1>1, Becoming DEF IInv
<1> HIDE DEF p
<1>6. /\ IsConversation(conv') /\ conv'.key = q.slug /\ conv'.fp = conv.fp
      /\ conv'.runtime = conv.runtime /\ conv'.settings = conv.settings
      /\ conv'.version = conv.version
  BY <1>1, <1>2 DEF IsConversation, None
<1>7. conv # None /\ conv' # None
  BY <1>2, <1>6 DEF IsConversation
<1>8. Handled'
  BY <1>1, <1>3, <1>4, HandledStep DEF IInv, Steps
<1>9. Admitted'
  <2>1. Cardinality(Ended(request')) = Cardinality(Ended(request)) + 0
    BY <1>1, <1>4, OneMoreEnded DEF IInv
  <2> QED
    BY <1>1, <2>1, EndedIsFinite DEF IInv, Admitted, Busy
<1>10. rebuilds \in Nat /\ rebuilds % 2 = 0 /\ rebuilds' % 2 = 1
  <2>1. rebuilds \in Nat /\ rebuilds % 2 # 1
    BY <1>2 DEF IInv, Progress, Cached
  <2> QED
    BY <1>1, <2>1
<1>11. Cached'
  <2>1. sessions' \in Nat /\ rebuilds' \in Nat
    BY <1>1 DEF IInv, Cached
  <2>2. llm = None \/ IsState(llm, sessions)
    BY DEF IInv, Cached
  <2> QED
    BY <1>1, <1>3, <1>6, <1>7, <2>1, <2>2, Zenon DEF Cached
<1>12. runner.since <= rebuilds /\ runner.since \in Nat /\ rebuilds' > runner.since
  BY <1>1, <1>10 DEF IInv, Running
<1>13. Running' /\ Editions' /\ SessionInv'
  BY <1>1, <1>7, <1>10, <1>12 DEF IInv, Running, Editions, SessionInv
<1>14. /\ Locks(h)' /\ (\A g \in Requests : g # h => ~Locks(g)') /\ Renamed' /\ ~Fresh'
  BY <1>2, <1>4, <1>5 DEF Locks, Renamed, Fresh
<1>15. Progress'
  <2>1. Written(h)'
    BY <1>2, <1>4, <1>5, <1>6, <1>7 DEF Written
  <2>2. OneLocks' /\ \A g \in Requests : Locks(g)' => Written(g)'
    BY <1>14, <2>1 DEF OneLocks
  <2> QED
    BY <1>10, <1>14, <2>2 DEF Progress
<1>16. Sessions'
  <2>1. runner.since # rebuilds' /\ (before # None => before.since # rebuilds')
    BY <1>1, <1>10, <1>12 DEF IInv, Running
  <2>2. ASSUME runner.at = "composing", before # None, before.since = runner.since
        PROVE  /\ before.fp # runner.read.fp /\ runner.since % 2 = 1 /\ llm = None
    BY <1>10, <1>12, <2>2 DEF IInv, Sessions
  <2> QED
    BY <1>1, <2>1, <2>2 DEF Sessions
<1>17. FingerprintInv'
  BY <1>14 DEF FingerprintInv, Locked, Locks
<1> QED
  BY <1>8, <1>9, <1>11, <1>13, <1>15, <1>16, <1>17 DEF IInv

-----------------------------------------------------------------------------
LEMMA RefingerprintStep ==
  ASSUME IInv, NEW h \in Requests, Refingerprint(h) PROVE IInv'
<1> DEFINE q == request[h]
           p == [q EXCEPT !.at = "refingered"]
<1>1. /\ q.at = "rekeyed" /\ Becomes(h, p) /\ conv' = Of(q)
      /\ UNCHANGED <<catalogue, edition, llm, waiting, runner, sessions, before, rebuilds, failed>>
  BY DEF Refingerprint, registry, running
<1>2. /\ Locks(h) /\ conv # None
      /\ (\A g \in Requests : g # h => ~Locks(g)) /\ Renamed /\ ~Fresh
  BY <1>1, Alone DEF Locks, Written
<1>3. /\ IsRequest(q) /\ q.chat \in BOOLEAN /\ q.slug \in Profiles
  BY <1>1 DEF IInv, Handled
<1>4. /\ IsRequest(p) /\ p.at = "refingered" /\ p.chat = q.chat /\ p.slug = q.slug
      /\ p.runtime = q.runtime /\ p.settings = q.settings /\ p.version = q.version
  <2> HIDE DEF q
  <2> QED
    BY <1>3 DEF IsRequest
<1>5. /\ request'[h] = p
      /\ \A g \in Requests : g # h => request'[g] = request[g]
  BY <1>1, Becoming DEF IInv
<1> HIDE DEF p
<1>6. Of(q) = Of(p)
  BY <1>4 DEF Of
<1>7. /\ IsConversation(conv') /\ conv'.key = q.slug /\ conv'.fp.key = q.slug
      /\ conv'.runtime = q.runtime /\ conv'.settings = q.settings
      /\ conv'.version = q.version
  <2>1. /\ IsConversation(Of(q)) /\ Of(q).key = q.slug /\ Of(q).fp.key = q.slug
        /\ Of(q).runtime = q.runtime /\ Of(q).settings = q.settings
        /\ Of(q).version = q.version
    BY OfIsConversation
  <2> QED
    BY <1>1, <2>1
<1>8. conv' # None
  BY <1>7 DEF IsConversation
<1>9. Handled'
  BY <1>1, <1>3, <1>4, HandledStep DEF IInv, Steps
<1>10. Admitted'
  <2>1. Cardinality(Ended(request')) = Cardinality(Ended(request)) + 0
    BY <1>1, <1>4, OneMoreEnded DEF IInv
  <2> QED
    BY <1>1, <2>1, EndedIsFinite DEF IInv, Admitted, Busy
<1>11. Cached'
  <2>1. sessions' \in Nat /\ rebuilds' \in Nat
    BY <1>1 DEF IInv, Cached
  <2>2. llm = None \/ IsState(llm, sessions)
    BY DEF IInv, Cached
  <2> QED
    BY <1>1, <1>3, <1>7, <1>8, <2>1, <2>2, Zenon DEF Cached
<1>12. Running' /\ Editions' /\ SessionInv'
  BY <1>1, <1>8 DEF IInv, Running, Editions, SessionInv
<1>13. /\ Locks(h)' /\ (\A g \in Requests : g # h => ~Locks(g)') /\ ~Renamed' /\ Fresh'
  BY <1>2, <1>4, <1>5 DEF Locks, Renamed, Fresh
<1>14. Progress'
  <2>1. conv' = Of(request'[h])
    BY <1>1, <1>5, <1>6
  <2>2. Written(h)'
    BY <1>4, <1>5, <1>7, <1>8, <2>1 DEF Written, Of
  <2>3. OneLocks' /\ \A g \in Requests : Locks(g)' => Written(g)'
    BY <1>13, <2>2 DEF OneLocks
  <2> QED
    BY <1>1, <1>2, <1>7, <1>13, <2>3 DEF IInv, Progress
<1>15. Sessions'
  BY <1>1, <1>2, <1>13 DEF IInv, Sessions, Continues
<1>16. FingerprintInv'
  BY <1>13 DEF FingerprintInv, Locked, Locks
<1> QED
  BY <1>9, <1>10, <1>11, <1>12, <1>14, <1>15, <1>16 DEF IInv

(* The rebuild ends: no state is cached and no run has looked since.       *)
LEMMA ResetStep ==
  ASSUME IInv, NEW h \in Requests, Reset(h) PROVE IInv'
<1> DEFINE q == request[h]
<1>1. /\ q.at = "refingered" /\ llm' = None /\ rebuilds' = rebuilds + 1
      /\ Served(h) \/ Unserved(h)
      /\ UNCHANGED <<catalogue, edition, conv, runner, sessions, before>>
  BY DEF Reset, registry, running
<1>2. /\ Locks(h) /\ conv = Of(q) /\ IsConversation(conv)
      /\ (\A g \in Requests : g # h => ~Locks(g)) /\ ~Renamed /\ Fresh
  BY <1>1, Alone DEF Locks, Written
<1>3. conv # None
  BY <1>2 DEF IsConversation
<1>4. /\ Handled' /\ Admitted'
      /\ \A g \in Requests : ~Locks(g)'
      /\ OneLocks' /\ ~Renamed' /\ ~Fresh' /\ ~Locked'
  BY <1>1, <1>2, ServingFrees
<1>5. rebuilds \in Nat /\ rebuilds' % 2 = 0 /\ rebuilds' \in Nat
  <2>1. rebuilds \in Nat /\ rebuilds % 2 = 1
    BY <1>2 DEF IInv, Progress, Cached
  <2> QED
    BY <1>1, <2>1
<1>6. FingerprintOf(conv) = conv.fp
  BY <1>2, OfIsConversation
<1> HIDE DEF q
<1>7. Cached'
  <2>1. sessions' \in Nat /\ conv.key \in Profiles
    BY <1>1, <1>3 DEF IInv, Cached
  <2> QED
    BY <1>1, <1>2, <1>3, <1>5, <2>1, Zenon DEF Cached
<1>8. runner.since <= rebuilds /\ runner.since \in Nat /\ rebuilds' > runner.since
  BY <1>1, <1>5 DEF IInv, Running
<1>9. Running' /\ Editions' /\ SessionInv'
  BY <1>1, <1>3, <1>5, <1>8 DEF IInv, Running, Editions, SessionInv
<1>10. Progress'
  <2>1. conv.fp.key = conv.key
    BY <1>2, <1>3 DEF IInv, Progress
  <2> QED
    BY <1>1, <1>4, <1>5, <2>1 DEF Progress
<1>11. Sessions'
  <2>1. runner.since # rebuilds' /\ (before # None => before.since # rebuilds')
    BY <1>1, <1>5, <1>8 DEF IInv, Running
  <2> QED
    BY <1>1, <2>1 DEF IInv, Sessions
<1>12. FingerprintInv'
  BY <1>1, <1>6 DEF FingerprintInv, FingerprintOf
<1> QED
  BY <1>4, <1>7, <1>9, <1>10, <1>11, <1>12 DEF IInv

-----------------------------------------------------------------------------
(* Steps of the runner: requests, the conversation and rebuilds stay.      *)
LEMMA RunnerFrame ==
  ASSUME IInv, UNCHANGED <<registry, request, conv, rebuilds, failed>>
  PROVE  /\ Editions' /\ Handled' /\ Progress' /\ FingerprintInv'
         /\ Renamed' <=> Renamed
         /\ Fresh' <=> Fresh
<1> USE DEF registry
<1>1. Editions' /\ Handled'
  BY DEF IInv, Editions, Handled
<1>2. Progress'
  BY DEF IInv, Progress, OneLocks, Locks, Renamed, Fresh, Written
<1> QED
  BY <1>1, <1>2 DEF IInv, FingerprintInv, Locked, Renamed, Fresh

(* An even number of rebuilds steps: no rebuild is under way.              *)
LEMMA Quiet ==
  ASSUME IInv, rebuilds % 2 = 0
  PROVE  ~Renamed /\ ~Fresh
<1>1. rebuilds % 2 # 1
  OBVIOUS
<1> QED
  BY <1>1 DEF IInv, Progress

LEMMA FingerprintTells ==
  ASSUME NEW c, c.fp = FingerprintOf(c)
  PROVE  /\ c.fp.key = c.key
         /\ c.fp.told # None <=> Encodes(c.runtime, c.settings)
         /\ c.fp.told # None =>
              /\ c.fp.told.prompt = c.runtime.prompt
              /\ c.fp.told.middlewares = c.runtime.middlewares
              /\ c.fp.told.tools = c.runtime.tools
              /\ c.fp.told.metadata = GetMetadata(c.settings)
<1> DEFINE told == [version |-> c.version, prompt |-> c.runtime.prompt,
                    middlewares |-> c.runtime.middlewares, tools |-> c.runtime.tools,
                    metadata |-> GetMetadata(c.settings)]
<1>1. c.fp.key = c.key /\ c.fp.told = IF Encodes(c.runtime, c.settings) THEN told ELSE None
  BY DEF FingerprintOf, BuildRuntimeFingerprint
<1>2. told # None
  BY DEF None
<1>3. /\ told.prompt = c.runtime.prompt /\ told.middlewares = c.runtime.middlewares
      /\ told.tools = c.runtime.tools /\ told.metadata = GetMetadata(c.settings)
  OBVIOUS
<1> HIDE DEF told
<1> QED
  BY <1>1, <1>2, <1>3

LEMMA ComposedForFingerprint ==
  ASSUME NEW c, c.fp = FingerprintOf(c)
  PROVE  IsFor(Compose(c.key, c.runtime, c.settings), toolNames(c.runtime.tools), c.fp)
BY FingerprintTells DEF Compose, IsFor

(* What is composed for the fingerprint of a conversation agrees with it.  *)
LEMMA ComposedAgrees ==
  ASSUME NEW state, NEW c, c.fp = FingerprintOf(c), IsFor(state.engine, state.tools, c.fp)
  PROVE  Agrees(state, c)
BY FingerprintTells DEF Compose, IsFor, Agrees

LEMMA EnsureStep ==
  ASSUME IInv, Ensure PROVE IInv'
<1>1. /\ runner.at = "idle" /\ waiting > 0 /\ waiting' = waiting - 1
      /\ runner' = [Resting EXCEPT !.at = IF HasState THEN "ensured" ELSE "composing",
                                   !.read = IF HasState THEN None ELSE conv,
                                   !.state = IF HasState THEN llm ELSE None,
                                   !.since = rebuilds]
      /\ UNCHANGED <<catalogue, edition, request, conv, llm, sessions, before, rebuilds, failed>>
  BY DEF Ensure, registry, conversation
<1> DEFINE at == IF HasState THEN "ensured" ELSE "composing"
           read == IF HasState THEN None ELSE conv
           state == IF HasState THEN llm ELSE None
<1>2. runner' = [at |-> at, read |-> read, state |-> state, since |-> rebuilds, tagged |-> {}]
  BY <1>1 DEF Resting
<1>3. /\ HasState => at = "ensured" /\ read = None /\ state = llm
      /\ ~HasState => at = "composing" /\ read = conv /\ state = None
  OBVIOUS
<1> HIDE DEF at, read, state
<1>4. /\ runner'.at = at /\ runner'.read = read /\ runner'.state = state
      /\ runner'.since = rebuilds /\ runner'.tagged = {}
      /\ runner' = [at |-> runner'.at, read |-> runner'.read, state |-> runner'.state,
                    since |-> runner'.since, tagged |-> runner'.tagged]
  BY <1>2
<1>5. waiting \in Nat /\ rebuilds \in Nat /\ conv # None /\ IsConversation(conv)
  BY <1>1 DEF IInv, Admitted, Cached
<1>6. HasState => llm # None /\ IsState(llm, sessions) /\ llm.fp = conv.fp
  BY DEF IInv, Cached, HasState
<1>7. Editions' /\ Handled' /\ Progress' /\ FingerprintInv' /\ (Fresh' <=> Fresh)
  BY <1>1, RunnerFrame DEF registry
<1>8. Admitted'
  <2>1. waiting' \in Nat /\ waiting' + 1 = waiting
    BY <1>1, <1>5
  <2> QED
    BY <1>1, <1>3, <1>4, <2>1 DEF IInv, Admitted, Busy
<1>9. Cached'
  BY <1>1, <1>5 DEF IInv, Cached
<1>10. Running'
  <2>1. before # None => before.since \in Nat /\ before.since <= rebuilds
    BY DEF IInv, Running
  <2>2. CASE HasState
    BY <1>1, <1>3, <1>4, <1>5, <1>6, <2>1, <2>2 DEF Running
  <2>3. CASE ~HasState
    BY <1>1, <1>3, <1>4, <1>5, <2>1, <2>3 DEF Running
  <2> QED
    BY <2>2, <2>3
<1>11. before # None /\ before.since = rebuilds =>
         IF HasState THEN before.fp = llm.fp => before.session = llm.session
         ELSE before.fp # conv.fp /\ Fresh
  BY <1>6 DEF IInv, Sessions, Continues, HasState
<1>12. Fresh => rebuilds % 2 = 1
  BY DEF IInv, Progress
<1>13. Sessions'
  <2>1. before # None /\ before.since = rebuilds =>
          Continues(before.session, before.fp)' \/ (llm # None /\ before.fp # conv.fp /\ Fresh)
    BY <1>1, <1>7 DEF IInv, Sessions, Continues
  <2>2. CASE HasState
    BY <1>1, <1>3, <1>4, <1>6, <1>7, <2>1, <2>2 DEF Sessions, Continues
  <2>3. CASE ~HasState
    BY <1>1, <1>3, <1>4, <1>5, <1>7, <1>11, <1>12, <2>1, <2>3 DEF Sessions
  <2> QED
    BY <2>2, <2>3
<1>14. SessionInv'
  BY <1>1, <1>3, <1>4, <1>11 DEF SessionInv
<1> QED
  BY <1>7, <1>8, <1>9, <1>10, <1>13, <1>14 DEF IInv

LEMMA StoreStep ==
  ASSUME IInv, Store PROVE IInv'
<1> DEFINE read == runner.read
           state == [fp |-> read.fp, engine |-> Compose(read.key, read.runtime, read.settings),
                     tools |-> toolNames(read.runtime.tools), session |-> sessions + 1,
                     torn |-> read.fp # FingerprintOf(read),
                     overtaken |-> IF read.fp = FingerprintOf(read) THEN 0
                                   ELSE rebuilds \div 2 - runner.since \div 2]
<1>1. /\ runner.at = "composing"
      /\ llm' = IF HasState THEN llm ELSE state
      /\ sessions' = IF HasState THEN sessions ELSE sessions + 1
      /\ runner' = [runner EXCEPT !.at = "ensured", !.read = None, !.state = llm']
      /\ UNCHANGED <<catalogue, edition, request, conv, waiting, before, rebuilds, failed>>
  BY DEF Store, registry
<1>2. /\ conv # None /\ IsConversation(conv) /\ runner.since \in Nat /\ runner.since <= rebuilds
      /\ runner.tagged = {} /\ runner.read # None /\ IsConversation(read)
      /\ rebuilds \in Nat /\ sessions \in Nat /\ waiting \in Nat
      /\ before # None => before.since \in Nat /\ before.since <= runner.since
  BY <1>1 DEF IInv, Running, Cached, Admitted
<1>3. /\ runner'.at = "ensured" /\ runner'.read = None /\ runner'.state = llm'
      /\ runner'.since = runner.since /\ runner'.tagged = {}
      /\ runner' = [at |-> runner'.at, read |-> runner'.read, state |-> runner'.state,
                    since |-> runner'.since, tagged |-> runner'.tagged]
  <2>1. runner = [at |-> runner.at, read |-> runner.read, state |-> runner.state,
                  since |-> runner.since, tagged |-> runner.tagged]
    BY DEF IInv, Running
  <2> DEFINE l == llm'
  <2>2. runner' = [runner EXCEPT !.at = "ensured", !.read = None, !.state = l]
    BY <1>1
  <2>3. l = llm'
    OBVIOUS
  <2> HIDE DEF l
  <2>4. runner' = [at |-> "ensured", read |-> None, state |-> l,
                   since |-> runner.since, tagged |-> runner.tagged]
    BY <2>1, <2>2
  <2> QED
    BY <1>2, <2>3, <2>4
<1>4. state.fp = read.fp /\ state.session = sessions + 1
  OBVIOUS
<1>5. IsState(state, sessions + 1)
  <2>1. /\ state = [fp |-> state.fp, engine |-> state.engine, tools |-> state.tools,
                    session |-> state.session, torn |-> state.torn,
                    overtaken |-> state.overtaken]
        /\ state # None
    BY DEF None
  <2>2. state.torn \in BOOLEAN /\ (~state.torn => read.fp = FingerprintOf(read))
    OBVIOUS
  <2>3. ~state.torn => IsFor(state.engine, state.tools, state.fp)
    BY <2>2, ComposedForFingerprint
  <2>4. state.session \in 1..(sessions + 1)
    BY <1>2, <1>4
  <2> HIDE DEF state
  <2> QED
    BY <2>1, <2>2, <2>3, <2>4 DEF IsState
<1>6. state # None
  BY <1>5 DEF IsState
<1> HIDE DEF state
<1>7. /\ HasState => llm' = llm /\ sessions' = sessions
      /\ ~HasState => llm' = state /\ sessions' = sessions + 1
  BY <1>1
<1>8. HasState => llm # None /\ IsState(llm, sessions) /\ llm.fp = conv.fp
  BY DEF IInv, Cached, HasState
<1>9. llm' # None /\ IsState(llm', sessions') /\ sessions' \in Nat
  <2>1. CASE HasState
    BY <1>2, <1>7, <1>8, <2>1
  <2>2. CASE ~HasState
    <3>1. sessions + 1 \in Nat
      BY <1>2
    <3> QED
      BY <1>5, <1>6, <1>7, <2>2, <3>1
  <2> QED
    BY <2>1, <2>2
<1>10. /\ Editions' /\ Handled' /\ Progress' /\ FingerprintInv' /\ (Fresh' <=> Fresh)
  BY <1>1, RunnerFrame DEF registry
<1>11. Admitted'
  BY <1>1, <1>3 DEF IInv, Admitted, Busy
<1>12. Cached'
  BY <1>1, <1>2, <1>9 DEF IInv, Cached
<1>13. Running'
  <2>1. before # None => before.since \in Nat /\ before.since <= rebuilds
    BY DEF IInv, Running
  <2> QED
    BY <1>1, <1>2, <1>3, <1>9, <2>1 DEF Running
<1>14. /\ runner.since = rebuilds => read.fp = conv.fp \/ Fresh
       /\ before # None /\ before.since = rebuilds =>
            Continues(before.session, before.fp) \/ (llm # None /\ before.fp # conv.fp /\ Fresh)
       /\ before # None /\ before.since = runner.since =>
            before.fp # read.fp /\ (rebuilds > runner.since => llm = None)
  BY <1>1 DEF IInv, Sessions
<1>15. before # None /\ before.since = rebuilds => before.since = runner.since
  BY <1>2
<1> HIDE DEF read
<1>16. CASE HasState
  <2>1. Sessions'
    BY <1>1, <1>3, <1>7, <1>8, <1>10, <1>14, <1>16 DEF Sessions, Continues
  <2>2. ASSUME before # None, before.fp = llm.fp, before.since = runner.since
        PROVE  before.session = llm.session
    <3>1. before.since = rebuilds
      BY <1>2, <1>8, <1>14, <1>16, <2>2
    <3> QED
      BY <1>8, <1>14, <1>16, <2>2, <3>1 DEF Continues
  <2>3. SessionInv'
    BY <1>1, <1>3, <1>7, <1>16, <2>2 DEF SessionInv
  <2> QED
    BY <1>10, <1>11, <1>12, <1>13, <2>1, <2>3 DEF IInv
<1>17. CASE ~HasState
  <2>1. ASSUME before # None, before.since = rebuilds
        PROVE  before.fp # conv.fp /\ Fresh
    BY <1>14, <1>17, <2>1 DEF Continues, HasState
  <2>2. Sessions'
    BY <1>1, <1>3, <1>4, <1>6, <1>7, <1>10, <1>14, <1>17, <2>1 DEF Sessions, Continues
  <2>3. SessionInv'
    BY <1>1, <1>3, <1>4, <1>7, <1>14, <1>17 DEF SessionInv
  <2> QED
    BY <1>10, <1>11, <1>12, <1>13, <2>2, <2>3 DEF IInv
<1> QED
  BY <1>16, <1>17

-----------------------------------------------------------------------------
(* The runner rests: no state, nothing read. *)
LEMMA RestStep ==
  ASSUME IInv, runner.at # "idle", runner' = Resting,
         UNCHANGED <<catalogue, edition, request, conv, llm, waiting, sessions, rebuilds, failed>>,
         \/ before' = before
         \/ /\ runner.at = "running" /\ before' # None
            /\ before'.session = runner.state.session /\ before'.fp = runner.state.fp
            /\ before'.since = runner.since
  PROVE  IInv'
<1>1. /\ runner'.at = "idle" /\ runner'.read = None /\ runner'.state = None
      /\ runner'.since = 0 /\ runner'.tagged = {}
      /\ runner' = [at |-> runner'.at, read |-> runner'.read, state |-> runner'.state,
                    since |-> runner'.since, tagged |-> runner'.tagged]
  BY DEF Resting
<1>2. /\ conv # None /\ runner.since \in Nat /\ runner.since <= rebuilds
      /\ rebuilds \in Nat
  BY DEF IInv, Running, Cached
<1>3. Editions' /\ Handled' /\ Progress' /\ FingerprintInv' /\ (Fresh' <=> Fresh)
  BY RunnerFrame DEF registry
<1>4. Admitted'
  BY <1>1, EndedIsFinite DEF IInv, Admitted, Busy
<1>5. Cached'
  BY DEF IInv, Cached
<1>6. Running'
  <2>1. before' # None => before'.since \in Nat /\ before'.since <= rebuilds
    BY <1>2 DEF IInv, Running
  <2> QED
    BY <1>1, <1>2, <2>1 DEF Running
<1>7. Sessions'
  <2>1. before' # None /\ before'.since = rebuilds =>
          \/ Continues(before'.session, before'.fp)
          \/ llm # None /\ before'.fp # conv.fp /\ Fresh
    BY DEF IInv, Sessions, Running
  <2> QED
    BY <1>1, <1>3, <2>1 DEF Sessions, Continues
<1>8. SessionInv'
  BY <1>1 DEF SessionInv
<1> QED
  BY <1>3, <1>4, <1>5, <1>6, <1>7, <1>8 DEF IInv

LEMMA StartFailsStep == IInv /\ StartFails => IInv'
BY RestStep DEF StartFails, registry, conversation

LEMMA EndStep == IInv /\ End => IInv'
<1> SUFFICES ASSUME IInv, End PROVE IInv'
  OBVIOUS
<1>1. /\ runner.at = "running" /\ runner' = Resting
      /\ before' = [session |-> runner.state.session, fp |-> runner.state.fp,
                    since |-> runner.since]
      /\ UNCHANGED <<catalogue, edition, request, conv, llm, waiting, sessions, rebuilds, failed>>
  BY DEF End, registry, conversation
<1>2. /\ before' # None /\ before'.session = runner.state.session
      /\ before'.fp = runner.state.fp /\ before'.since = runner.since
  BY <1>1 DEF None
<1> QED
  BY <1>1, <1>2, RestStep

(* The key a turn is stored with.                                          *)
LEMMA TagStep ==
  ASSUME IInv, Start \/ Save PROVE IInv'
<1>1. /\ runner.at \in {"ensured", "running"}
      /\ UNCHANGED <<catalogue, edition, request, conv, llm, waiting, sessions, before,
                     rebuilds, failed>>
  BY DEF Start, Save, registry, conversation
<1>2. /\ runner'.at = "running" /\ runner'.read = runner.read /\ runner'.state = runner.state
      /\ runner'.since = runner.since
      /\ runner'.tagged \in {{conv.key}, runner.tagged \cup {conv.key}}
      /\ runner' = [at |-> runner'.at, read |-> runner'.read, state |-> runner'.state,
                    since |-> runner'.since, tagged |-> runner'.tagged]
  <2>1. runner = [at |-> runner.at, read |-> runner.read, state |-> runner.state,
                  since |-> runner.since, tagged |-> runner.tagged]
    BY DEF IInv, Running
  <2>2. CASE Start
    BY <2>1, <2>2 DEF Start
  <2>3. CASE Save
    BY <2>1, <2>3 DEF Save
  <2> QED
    BY <2>2, <2>3
<1>3. Editions' /\ Handled' /\ Progress' /\ FingerprintInv' /\ (Fresh' <=> Fresh)
  BY <1>1, RunnerFrame DEF registry
<1>4. Admitted' /\ Cached'
  BY <1>1, <1>2 DEF IInv, Admitted, Busy, Cached
<1>5. Running'
  BY <1>1, <1>2 DEF IInv, Running
<1>6. Sessions'
  BY <1>1, <1>2, <1>3 DEF IInv, Sessions, Continues
<1>7. SessionInv'
  <2>1. runner.state # None /\ IsState(runner.state, sessions) /\ conv # None
    BY <1>1 DEF IInv, Running
  <2>2. ASSUME rebuilds = runner.since, rebuilds % 2 = 0, ~runner.state.torn
        PROVE  runner'.tagged \subseteq {runner.state.engine.key}
    <3>1. ~Renamed /\ ~Fresh
      BY <2>2, Quiet
    <3>2. runner.state.fp = conv.fp
      BY <2>1, <2>2, <3>1 DEF IInv, Sessions, Continues
    <3>3. conv.fp.key = conv.key
      BY <2>1, <3>1 DEF IInv, Progress
    <3>4. runner.state.engine.key = conv.key
      <4>1. runner.state.engine.key = runner.state.fp.key
        BY <2>1, <2>2 DEF IsState, IsFor
      <4> QED
        BY <3>2, <3>3, <4>1
    <3>5. runner.tagged \subseteq {runner.state.engine.key}
      BY <2>1, <2>2 DEF IInv, SessionInv
    <3> QED
      BY <1>2, <3>4, <3>5
  <2>3. before # None /\ before.fp = runner.state.fp /\ before.since = runner.since =>
          before.session = runner.state.session
    BY <2>1 DEF IInv, SessionInv
  <2> QED
    BY <1>1, <1>2, <2>2, <2>3 DEF SessionInv
<1> QED
  BY <1>3, <1>4, <1>5, <1>6, <1>7 DEF IInv

-----------------------------------------------------------------------------
LEMMA StepIInv == IInv /\ [Next]_vars => IInv'
<1> SUFFICES ASSUME IInv, [Next]_vars PROVE IInv'
  OBVIOUS
<1>1. CASE UNCHANGED vars
  <2> USE <1>1 DEF vars, registry, conversation, running
  <2>1. Editions' /\ Handled' /\ Progress' /\ FingerprintInv' /\ (Fresh' <=> Fresh)
    BY RunnerFrame
  <2>2. Admitted' /\ Cached' /\ Running' /\ SessionInv'
    BY DEF IInv, Admitted, Cached, Running, SessionInv
  <2>3. Sessions'
    BY <2>1 DEF IInv, Sessions, Continues
  <2> QED
    BY <2>1, <2>2, <2>3 DEF IInv
<1>2. ASSUME NEW p \in Profiles, Edit(p) PROVE IInv'
  BY <1>2, EditStep
<1>3. ASSUME NEW h \in Requests,
             \/ Select(h) \/ Overlay(h) \/ Fail(h) \/ Refuse(h) \/ Create(h) \/ Reuse(h)
             \/ Rebuild(h) \/ SubscriberFails(h) \/ Rekey(h) \/ Refingerprint(h) \/ Reset(h)
      PROVE  IInv'
  BY <1>3, SelectStep, OverlayStep, GivesUpStep, CreateStep, ReuseStep, RebuildStep,
     SubscriberFailsStep, RekeyStep, RefingerprintStep, ResetStep
<1>4. CASE Ensure
  BY <1>4, EnsureStep
<1>5. CASE Store
  BY <1>5, StoreStep
<1>6. CASE StartFails \/ Start \/ Save \/ End
  BY <1>6, StartFailsStep, TagStep, EndStep
<1> QED
  BY <1>1, <1>2, <1>3, <1>4, <1>5, <1>6 DEF Next

LEMMA AlwaysIInv == Spec => []IInv
<1> HIDE DEF IInv
<1> QED
  BY InitIInv, StepIInv, PTL DEF Spec

-----------------------------------------------------------------------------
LEMMA IInvImpliesTypeOK == IInv => TypeOK
<1> SUFFICES ASSUME IInv PROVE TypeOK
  OBVIOUS
<1>1. catalogue \in Catalogues /\ \A p \in Profiles : edition[p] \in DOMAIN catalogue[p]
  BY DEF IInv, Editions
<1>2. \A h \in Requests :
        /\ request[h].at \in Steps
        /\ request[h].at \in {"new", "done"} => request[h] = Idle(request[h].at)
        /\ request[h].at \notin {"new", "done"} => request[h].slug \in Profiles
  BY DEF IInv, Handled
<1>3. Cardinality({h \in Requests : request[h].at \in {"rebuild", "rekeyed", "refingered"}}) <= 1
  <2> DEFINE L == {h \in Requests : request[h].at \in {"rebuild", "rekeyed", "refingered"}}
  <2>1. \A h, g \in L : h = g
    BY DEF IInv, Progress, OneLocks, Locks
  <2> HIDE DEF L
  <2>2. Cardinality(L) <= 1
    <3>1. CASE L = {}
      BY <3>1, FS_EmptySet
    <3>2. CASE L # {}
      <4>1. PICK h : h \in L
        BY <3>2
      <4>2. L = {h}
        BY <2>1, <4>1
      <4>3. Cardinality(L) = 1
        BY <4>2, FS_Singleton
      <4> QED
        BY <4>3
    <3> QED
      BY <3>1, <3>2
  <2> QED
    BY <2>2 DEF L
<1>4. conv # None => conv.key \in Profiles
  BY DEF IInv, Cached
<1>5. llm # None => conv # None /\ llm.session \in 1..sessions
  BY DEF IInv, Cached, IsState
<1>6. waiting + (IF runner.at = "idle" THEN 0 ELSE 1)
        <= Cardinality({h \in Requests : request[h].at = "done"})
  BY DEF IInv, Admitted, Busy, Ended
<1>7. /\ runner.at \in {"idle", "composing", "ensured", "running"}
      /\ runner.at = "composing" <=> runner.read # None
      /\ runner.at \in {"ensured", "running"} <=> runner.state # None
  BY DEF IInv, Running
<1> QED
  BY <1>1, <1>2, <1>3, <1>4, <1>5, <1>6, <1>7 DEF TypeOK

LEMMA IInvImpliesStateInv == IInv => StateInv
<1> SUFFICES ASSUME IInv, llm # None, conv.fp = FingerprintOf(conv), HasState, ~llm.torn
             PROVE  Agrees(llm, conv)
  BY DEF StateInv
<1>1. IsFor(llm.engine, llm.tools, conv.fp)
  BY DEF IInv, Cached, IsState, HasState
<1> QED
  BY <1>1, ComposedAgrees

LEMMA IInvImpliesRunInv == IInv => RunInv
<1> SUFFICES ASSUME IInv, runner.state # None, runner.since = rebuilds, rebuilds % 2 = 0
             PROVE  /\ runner.state.fp = conv.fp
                    /\ conv.fp = FingerprintOf(conv) /\ ~runner.state.torn =>
                         Agrees(runner.state, conv)
  BY DEF RunInv
<1>1. runner.state.fp = conv.fp
  BY Quiet DEF IInv, Sessions, Continues
<1>2. ~runner.state.torn => IsFor(runner.state.engine, runner.state.tools, conv.fp)
  BY <1>1 DEF IInv, Running, IsState
<1> QED
  BY <1>1, <1>2, ComposedAgrees

-----------------------------------------------------------------------------
(* Torn states.  What was read half way through a rebuild has the old      *)
(* fingerprint, which that rebuild replaces by another before it drops the *)
(* cached state: until then somebody holds the lock, from then on another  *)
(* rebuild has to bring that fingerprint back.                             *)
Overtaken == rebuilds \div 2 - runner.since \div 2
Away(h) ==
  request[h].at \in {"rebuild", "rekeyed"} => conv # None /\ conv.fp # Of(request[h]).fp
TornReading ==
  runner.at = "composing" /\ failed = "no" /\ runner.read.fp # FingerprintOf(runner.read) =>
    /\ Overtaken \in Nat
    /\ Overtaken = 0 => Locked /\ (IF Fresh THEN conv.fp # runner.read.fp
                                         ELSE conv.fp = runner.read.fp)
    /\ Overtaken = 1 => Fresh \/ conv.fp # runner.read.fp
TornIInv == (\A h \in Requests : Away(h)) /\ TornReading /\ TornInv

LEMMA FreshLocks ==
  /\ Fresh => Locked
  /\ Renamed => Locked
BY DEF Fresh, Renamed, Locked

LEMMA InitTornIInv == Init => TornIInv
<1> SUFFICES ASSUME Init PROVE TornIInv
  OBVIOUS
<1>1. runner.at = "idle" /\ llm = None /\ \A h \in Requests : request[h].at = "new"
  BY DEF Init, Resting, Idle
<1> QED
  BY <1>1 DEF TornIInv, Away, TornReading, TornInv

(* A step that keeps the locks, the fingerprint and what was read.         *)
LEMMA TornFrame ==
  ASSUME TornIInv, UNCHANGED <<conv, llm, runner, rebuilds>>, failed = "no" \/ failed' # "no",
         \A g \in Requests : \/ request'[g] = request[g]
                             \/ ~Locks(g) /\ request'[g].at \in {"overlay", "ensure", "done"}
  PROVE  TornIInv'
<1>1. \A g \in Requests : Away(g)'
  BY DEF TornIInv, Away, Of
<1>2. (Fresh' <=> Fresh) /\ (Locked' <=> Locked)
  BY DEF Fresh, Locked, Locks
<1>3. TornReading'
  BY <1>2 DEF TornIInv, TornReading, Overtaken, FingerprintOf
<1>4. TornInv'
  BY <1>2 DEF TornIInv, TornInv, HasState
<1> QED
  BY <1>1, <1>3, <1>4 DEF TornIInv

(* The conversation is resolved anew while nobody holds the lock.          *)
LEMMA TornReuse ==
  ASSUME IInv, TornIInv, NEW h \in Requests, Reuse(h) PROVE TornIInv'
<1>1. /\ ~Locked /\ conv # None /\ Resolved(request[h]) /\ Served(h)
      /\ UNCHANGED <<llm, runner, rebuilds>>
  BY DEF Reuse, Enters, running
<1>2. IsConversation(conv)
  BY <1>1 DEF IInv, Cached
<1>3. conv'.fp = conv.fp
  BY <1>1, <1>2, ResolvedIsConversation
<1>4. (\A g \in Requests : ~Locks(g)) /\ ~Fresh
  BY <1>1, NobodyLocks DEF IInv
<1>5. \A g \in Requests : g # h => ~Locks(g)
  BY <1>4
<1>6. request[h].at \notin {"new", "done"}
  BY DEF Reuse, Enters
<1>7. (\A g \in Requests : ~Locks(g)') /\ ~Fresh' /\ ~Locked'
  BY <1>1, <1>5, <1>6, ServingFrees
<1>8. failed' = "no" => failed = "no"
  BY <1>1 DEF Served, Whole
<1>9. \A g \in Requests : Away(g)'
  BY <1>7 DEF Away, Locks
<1>10. TornReading'
  BY <1>1, <1>3, <1>4, <1>7, <1>8 DEF TornIInv, TornReading, Overtaken, FingerprintOf
<1>11. TornInv'
  BY <1>1, <1>3, <1>7, <1>8 DEF TornIInv, TornInv, HasState
<1> QED
  BY <1>9, <1>10, <1>11 DEF TornIInv

LEMMA TornCreate ==
  ASSUME IInv, TornIInv, NEW h \in Requests, Create(h) PROVE TornIInv'
<1>1. ~Locked /\ conv = None /\ Served(h) /\ UNCHANGED <<llm, runner>>
  BY DEF Create, Enters, running
<1>2. runner.at = "idle" /\ llm = None
  BY <1>1 DEF IInv, Running, Cached
<1>3. \A g \in Requests : g # h => ~Locks(g)
  BY <1>1, NobodyLocks DEF IInv
<1>4. request[h].at \notin {"new", "done"}
  BY DEF Create, Enters
<1>5. \A g \in Requests : ~Locks(g)'
  BY <1>1, <1>3, <1>4, ServingFrees
<1>6. \A g \in Requests : Away(g)'
  BY <1>5 DEF Away, Locks
<1> QED
  BY <1>1, <1>2, <1>6 DEF TornIInv, TornReading, TornInv, HasState

LEMMA TornRebuild ==
  ASSUME IInv, TornIInv, NEW h \in Requests, Rebuild(h) PROVE TornIInv'
<1> DEFINE q == request[h]
           p == [q EXCEPT !.at = "rebuild", !.read = << >>]
<1>1. /\ q.at = "ensure" /\ ~Locked /\ conv # None /\ Resolved(q) /\ Becomes(h, p)
      /\ conv.fp # Of(q).fp /\ UNCHANGED <<llm, runner, rebuilds, failed>>
  BY DEF Rebuild, Enters, SameRuntime, running
<1>2. IsConversation(conv)
  BY <1>1 DEF IInv, Cached
<1>3. conv'.fp = conv.fp /\ conv' # None
  BY <1>1, <1>2, ResolvedIsConversation DEF IsConversation
<1>4. (\A g \in Requests : ~Locks(g)) /\ ~Fresh
  BY <1>1, NobodyLocks DEF IInv
<1>5. IsRequest(q)
  BY DEF IInv, Handled
<1>6. /\ p.at = "rebuild" /\ p.slug = q.slug
      /\ p.runtime = q.runtime /\ p.settings = q.settings /\ p.version = q.version
  <2> HIDE DEF q
  <2> QED
    BY <1>5 DEF IsRequest
<1>7. /\ request'[h] = p
      /\ \A g \in Requests : g # h => request'[g] = request[g]
  BY <1>1, Becoming DEF IInv
<1> HIDE DEF p
<1>8. Of(p) = Of(q)
  BY <1>6 DEF Of
<1>9. Locked' /\ ~Fresh'
  BY <1>4, <1>6, <1>7 DEF Locked, Fresh, Locks
<1>10. ASSUME NEW g \in Requests PROVE Away(g)'
  <2>1. CASE g = h
    <3>1. conv'.fp # Of(request'[h]).fp
      BY <1>1, <1>3, <1>7, <1>8
    <3> QED
      BY <1>3, <2>1, <3>1 DEF Away, Of
  <2>2. CASE g # h
    BY <1>4, <1>7, <2>2 DEF Away, Locks
  <2> QED
    BY <2>1, <2>2
<1>11. TornReading'
  BY <1>1, <1>3, <1>4, <1>9 DEF TornIInv, TornReading, Overtaken, FingerprintOf
<1>12. TornInv'
  BY <1>9 DEF TornInv
<1> QED
  BY <1>10, <1>11, <1>12 DEF TornIInv

(* It fails half way, and is counted.                                      *)
LEMMA TornSubscriberFails ==
  ASSUME IInv, TornIInv, NEW h \in Requests, SubscriberFails(h) PROVE TornIInv'
<1>1. /\ Becomes(h, Idle("done")) /\ failed' = "last" /\ UNCHANGED <<conv, llm, runner>>
  BY DEF SubscriberFails, conversation, running
<1>2. /\ request'[h].at = "done"
      /\ \A g \in Requests : g # h => request'[g] = request[g]
  BY <1>1, Becoming, IdleEnds DEF IInv
<1>3. \A g \in Requests : Away(g)'
  BY <1>1, <1>2 DEF TornIInv, Away, Of
<1> QED
  BY <1>1, <1>3 DEF TornIInv, TornReading, TornInv

LEMMA TornRekey ==
  ASSUME IInv, TornIInv, NEW h \in Requests, Rekey(h) PROVE TornIInv'
<1> DEFINE q == request[h]
           p == [q EXCEPT !.at = "rekeyed"]
<1>1. /\ q.at = "rebuild" /\ Becomes(h, p) /\ conv' = [conv EXCEPT !.key = q.slug]
      /\ rebuilds' = rebuilds + 1 /\ UNCHANGED <<llm, runner, failed>>
  BY DEF Rekey, running
<1>2. /\ Locks(h) /\ IsConversation(conv)
      /\ (\A g \in Requests : g # h => ~Locks(g)) /\ ~Renamed /\ ~Fresh
  BY <1>1, Alone DEF Locks
<1>3. IsRequest(q)
  BY DEF IInv, Handled
<1>4. /\ p.at = "rekeyed" /\ p.slug = q.slug
      /\ p.runtime = q.runtime /\ p.settings = q.settings /\ p.version = q.version
  <2> HIDE DEF q
  <2> QED
    BY <1>3 DEF IsRequest
<1>5. /\ request'[h] = p
      /\ \A g \in Requests : g # h => request'[g] = request[g]
  BY <1>1, Becoming DEF IInv
<1> HIDE DEF p
<1>6. conv'.fp = conv.fp /\ conv' # None
  BY <1>1, <1>2 DEF IsConversation, None
<1>7. Of(p) = Of(q)
  BY <1>4 DEF Of
<1>8. Locked /\ Locked' /\ ~Fresh'
  BY <1>1, <1>2, <1>4, <1>5 DEF Locked, Fresh, Locks
<1>9. Overtaken' = Overtaken
  <2>1. rebuilds \in Nat /\ rebuilds % 2 # 1
    BY <1>2 DEF IInv, Progress, Cached
  <2>2. (rebuilds + 1) \div 2 = rebuilds \div 2
    BY <2>1
  <2> QED
    BY <1>1, <2>2 DEF Overtaken
<1>10. ASSUME NEW g \in Requests PROVE Away(g)'
  <2>1. CASE g = h
    <3>1. conv.fp # Of(q).fp
      BY <1>1 DEF TornIInv, Away
    <3>2. conv'.fp # Of(request'[h]).fp
      BY <1>5, <1>6, <1>7, <3>1
    <3> QED
      BY <1>6, <2>1, <3>2 DEF Away, Of
  <2>2. CASE g # h
    BY <1>2, <1>5, <2>2 DEF Away, Locks
  <2> QED
    BY <2>1, <2>2
<1>11. TornReading'
  BY <1>1, <1>2, <1>6, <1>8, <1>9 DEF TornIInv, TornReading, FingerprintOf
<1>12. TornInv'
  BY <1>8 DEF TornInv
<1> QED
  BY <1>10, <1>11, <1>12 DEF TornIInv

(* The fingerprint that was read is replaced by another.                   *)
LEMMA TornRefingerprint ==
  ASSUME IInv, TornIInv, NEW h \in Requests, Refingerprint(h) PROVE TornIInv'
<1> DEFINE q == request[h]
           p == [q EXCEPT !.at = "refingered"]
<1>1. /\ q.at = "rekeyed" /\ Becomes(h, p) /\ conv' = Of(q)
      /\ UNCHANGED <<llm, runner, rebuilds, failed>>
  BY DEF Refingerprint, running
<1>2. /\ \A g \in Requests : g # h => ~Locks(g)
      /\ ~Fresh
  BY <1>1, Alone DEF Locks
<1>3. /\ request'[h] = p
      /\ \A g \in Requests : g # h => request'[g] = request[g]
  BY <1>1, Becoming DEF IInv
<1>4. p.at = "refingered"
  <2>1. IsRequest(q)
    BY DEF IInv, Handled
  <2> HIDE DEF q
  <2> QED
    BY <2>1 DEF IsRequest
<1> HIDE DEF p
<1>5. Locked' /\ Fresh'
  BY <1>3, <1>4 DEF Locked, Fresh
<1>6. conv.fp # conv'.fp
  BY <1>1 DEF TornIInv, Away
<1>7. \A g \in Requests : Away(g)'
  BY <1>2, <1>3, <1>4 DEF Away, Locks
<1>8. TornReading'
  BY <1>1, <1>2, <1>5, <1>6 DEF TornIInv, TornReading, Overtaken, FingerprintOf
<1>9. TornInv'
  BY <1>5 DEF TornInv
<1> QED
  BY <1>7, <1>8, <1>9 DEF TornIInv

(* The rebuild ends, and the cached state is gone.                         *)
LEMMA TornReset ==
  ASSUME IInv, TornIInv, NEW h \in Requests, Reset(h) PROVE TornIInv'
<1>1. /\ request[h].at = "refingered" /\ llm' = None /\ rebuilds' = rebuilds + 1
      /\ Served(h) \/ Unserved(h)
      /\ UNCHANGED <<conv, runner>>
  BY DEF Reset, running
<1>2. /\ \A g \in Requests : g # h => ~Locks(g)
      /\ Fresh
  BY <1>1, Alone DEF Locks
<1>3. (\A g \in Requests : ~Locks(g)') /\ ~Fresh'
  BY <1>1, <1>2, ServingFrees
<1>4. failed' = "no" => failed = "no"
  BY <1>1 DEF Served, Unserved, Whole
<1>5. runner.since \in Nat /\ Overtaken' = Overtaken + 1
  <2>1. rebuilds \in Nat /\ rebuilds % 2 = 1 /\ runner.since \in Nat
    BY <1>2 DEF IInv, Progress, Cached, Running
  <2>2. /\ (rebuilds + 1) \div 2 = rebuilds \div 2 + 1
        /\ rebuilds \div 2 \in Nat /\ runner.since \div 2 \in Nat
    BY <2>1
  <2> QED
    BY <1>1, <2>1, <2>2 DEF Overtaken
<1>6. \A g \in Requests : Away(g)'
  BY <1>3 DEF Away, Locks
<1>7. TornReading'
  <2>1. SUFFICES ASSUME runner.at = "composing", failed = "no",
                        runner.read.fp # FingerprintOf(runner.read)
                 PROVE  /\ Overtaken' \in Nat /\ Overtaken' # 0
                        /\ Overtaken' = 1 => conv.fp # runner.read.fp
    BY <1>1, <1>4 DEF TornReading, FingerprintOf
  <2>2. Overtaken \in Nat /\ (Overtaken = 0 => conv.fp # runner.read.fp)
    BY <1>2, <2>1 DEF TornIInv, TornReading
  <2> QED
    BY <1>5, <2>2
<1>8. TornInv'
  BY <1>1 DEF TornInv
<1> QED
  BY <1>6, <1>7, <1>8 DEF TornIInv

(* What is torn was read while somebody held the lock.                     *)
LEMMA TornEnsure ==
  ASSUME IInv, TornIInv, Ensure PROVE TornIInv'
<1>1. /\ waiting > 0
      /\ runner' = [Resting EXCEPT !.at = IF HasState THEN "ensured" ELSE "composing",
                                   !.read = IF HasState THEN None ELSE conv,
                                   !.state = IF HasState THEN llm ELSE None,
                                   !.since = rebuilds]
      /\ UNCHANGED <<request, conv, llm, rebuilds, failed>>
  BY DEF Ensure, registry, conversation
<1>2. /\ runner'.at = "composing" => runner'.read = conv
      /\ runner'.since = rebuilds
  BY <1>1 DEF Resting
<1>3. conv # None /\ rebuilds \in Nat
  BY <1>1 DEF IInv, Cached
<1>4. Overtaken' = 0
  <2>1. rebuilds \div 2 \in Nat
    BY <1>3
  <2> QED
    BY <1>1, <1>2, <2>1 DEF Overtaken
<1>5. failed = "no" /\ conv.fp # FingerprintOf(conv) => Locked /\ ~Fresh
  <2>1. ASSUME NEW h \in Requests, request[h].at = "refingered"
        PROVE  conv.fp = FingerprintOf(conv)
    <3>1. conv = Of(request[h])
      BY <2>1, Alone DEF Locks, Written
    <3> QED
      BY <3>1, OfIsConversation
  <2> QED
    BY <1>3, <2>1 DEF IInv, FingerprintInv, Fresh
<1>6. (Locked' <=> Locked) /\ (Fresh' <=> Fresh)
  BY <1>1 DEF Locked, Fresh
<1>7. TornReading'
  BY <1>1, <1>2, <1>4, <1>5, <1>6 DEF TornReading, FingerprintOf
<1>8. TornInv' /\ \A g \in Requests : Away(g)'
  BY <1>1, <1>6 DEF TornIInv, TornInv, HasState, Away, Of
<1> QED
  BY <1>7, <1>8 DEF TornIInv

LEMMA TornStore ==
  ASSUME IInv, TornIInv, Store PROVE TornIInv'
<1> DEFINE read == runner.read
           state == [fp |-> read.fp, engine |-> Compose(read.key, read.runtime, read.settings),
                     tools |-> toolNames(read.runtime.tools), session |-> sessions + 1,
                     torn |-> read.fp # FingerprintOf(read),
                     overtaken |-> IF read.fp = FingerprintOf(read) THEN 0
                                   ELSE rebuilds \div 2 - runner.since \div 2]
<1>1. /\ runner.at = "composing"
      /\ llm' = IF HasState THEN llm ELSE state
      /\ runner'.at = "ensured"
      /\ UNCHANGED <<request, conv, rebuilds, failed>>
  <2>1. /\ runner.at = "composing" /\ llm' = IF HasState THEN llm ELSE state
        /\ UNCHANGED <<request, conv, rebuilds, failed>>
        /\ runner' = [runner EXCEPT !.at = "ensured", !.read = None, !.state = llm']
    BY DEF Store, registry
  <2>2. "at" \in DOMAIN runner
    <3>1. runner = [at |-> runner.at, read |-> runner.read, state |-> runner.state,
                    since |-> runner.since, tagged |-> runner.tagged]
      BY DEF IInv, Running
    <3> QED
      BY <3>1
  <2> DEFINE l == llm'
  <2>3. runner' = [runner EXCEPT !.at = "ensured", !.read = None, !.state = l]
    BY <2>1
  <2> HIDE DEF l, state
  <2>4. runner'.at = "ensured"
    BY <2>2, <2>3
  <2> QED
    BY <2>1, <2>4
<1>2. /\ state.fp = read.fp /\ state.torn = (read.fp # FingerprintOf(read))
      /\ state.torn => state.overtaken = Overtaken
  BY DEF Overtaken
<1> HIDE DEF state
<1>3. (Locked' <=> Locked) /\ (Fresh' <=> Fresh)
  BY <1>1 DEF Locked, Fresh
<1>4. TornInv'
  <2>1. CASE HasState
    BY <1>1, <1>3, <2>1 DEF TornIInv, TornInv, HasState
  <2>2. CASE ~HasState
    <3> SUFFICES ASSUME ~Locked, failed = "no", state.fp = conv.fp, state.torn
                 PROVE  state.overtaken >= 2
      BY <1>1, <1>3, <2>2 DEF TornInv, HasState
    <3>1. read.fp # FingerprintOf(read) /\ conv.fp = read.fp
      BY <1>2
    <3>2. ~Fresh
      BY FreshLocks
    <3>3. Overtaken \in Nat /\ Overtaken # 0 /\ Overtaken # 1
      BY <1>1, <3>1, <3>2 DEF TornIInv, TornReading
    <3> QED
      BY <1>2, <3>3
  <2> QED
    BY <2>1, <2>2
<1>5. TornReading'
  BY <1>1 DEF TornReading
<1>6. \A g \in Requests : Away(g)'
  BY <1>1 DEF TornIInv, Away, Of
<1> QED
  BY <1>4, <1>5, <1>6 DEF TornIInv

(* The other steps of the runner.                                          *)
LEMMA TornRunner ==
  ASSUME TornIInv, runner'.at # "composing", UNCHANGED <<request, conv, llm, failed>>
  PROVE  TornIInv'
BY DEF TornIInv, TornReading, TornInv, HasState, Locked, Away, Of

LEMMA TornStep == IInv /\ TornIInv /\ [Next]_vars => TornIInv'
<1> SUFFICES ASSUME IInv, TornIInv, [Next]_vars PROVE TornIInv'
  OBVIOUS
<1>1. CASE UNCHANGED vars
  BY <1>1, TornFrame DEF vars, conversation, running
<1>2. ASSUME NEW p \in Profiles, Edit(p) PROVE TornIInv'
  BY <1>2, TornFrame DEF Edit, conversation, running
<1>3. ASSUME NEW h \in Requests, Select(h) \/ Overlay(h) \/ Fail(h) \/ Refuse(h)
      PROVE  TornIInv'
  <2>1. UNCHANGED <<conv, llm, runner, rebuilds, failed>>
    BY <1>3 DEF Select, Overlay, Fail, Refuse, conversation, running
  <2>2. PICK q : Becomes(h, q) /\ q.at \in {"overlay", "ensure", "done"}
    <3>1. CASE Select(h)
      <4>1. Idle("done").at = "done"
        BY IdleEnds
      <4>2. \A chat, slug : effectiveProfile(chat, slug).at = "overlay"
        BY DEF effectiveProfile, Idle
      <4> QED
        BY <3>1, <4>1, <4>2 DEF Select
    <3>2. CASE Overlay(h)
      <4> DEFINE r == request[h]
                 overlay == Now(Head(r.rest)).runtime
                 merged == MergeProfileRuntime(r.runtime, overlay)
                 last == Len(r.rest) = 1
                 q == [r EXCEPT !.at = IF last THEN "ensure" ELSE "overlay",
                                !.rest = Tail(@),
                                !.read = IF overlay = None THEN @ ELSE Append(@, overlay),
                                !.runtime = IF last /\ merged = None THEN Empty ELSE merged]
      <4>1. Becomes(h, q)
        BY <3>2 DEF Overlay
      <4>2. q.at = IF last THEN "ensure" ELSE "overlay"
        <5>1. IsRequest(r)
          BY DEF IInv, Handled
        <5> HIDE DEF r, overlay, merged, last
        <5> QED
          BY <5>1 DEF IsRequest
      <4> HIDE DEF q
      <4> QED
        BY <4>1, <4>2
    <3>3. CASE Fail(h) \/ Refuse(h)
      BY <3>3, IdleEnds DEF Fail, Refuse
    <3> QED
      BY <1>3, <3>1, <3>2, <3>3
  <2>3. ~Locks(h)
    BY <1>3 DEF Select, Overlay, Fail, Refuse, Locks
  <2>4. /\ request'[h] = q
        /\ \A g \in Requests : g # h => request'[g] = request[g]
    BY <2>2, Becoming DEF IInv
  <2> QED
    BY <2>1, <2>2, <2>3, <2>4, TornFrame
<1>4. ASSUME NEW h \in Requests,
             \/ Create(h) \/ Reuse(h) \/ Rebuild(h) \/ SubscriberFails(h) \/ Rekey(h)
             \/ Refingerprint(h) \/ Reset(h)
      PROVE  TornIInv'
  BY <1>4, TornCreate, TornReuse, TornRebuild, TornSubscriberFails, TornRekey,
     TornRefingerprint, TornReset
<1>5. CASE Ensure
  BY <1>5, TornEnsure
<1>6. CASE Store
  BY <1>6, TornStore
<1>7. CASE StartFails \/ Start \/ Save \/ End
  <2>1. runner'.at # "composing"
    <3>1. "at" \in DOMAIN runner
      <4>1. runner = [at |-> runner.at, read |-> runner.read, state |-> runner.state,
                      since |-> runner.since, tagged |-> runner.tagged]
        BY DEF IInv, Running
      <4> QED
        BY <4>1
    <3>2. CASE StartFails \/ End
      BY <3>2 DEF StartFails, End, Resting
    <3>3. CASE Start
      BY <3>1, <3>3 DEF Start
    <3>4. CASE Save
      BY <3>1, <3>4 DEF Save
    <3> QED
      BY <1>7, <3>2, <3>3, <3>4
  <2> QED
    BY <1>7, <2>1, TornRunner DEF StartFails, Start, Save, End, conversation
<1> QED
  BY <1>1, <1>2, <1>3, <1>4, <1>5, <1>6, <1>7 DEF Next

LEMMA AlwaysTornIInv == Spec => []TornIInv
<1> HIDE DEF IInv, TornIInv
<1> QED
  BY InitTornIInv, TornStep, AlwaysIInv, PTL DEF Spec

-----------------------------------------------------------------------------
(* Every reachable state is well typed: at most one request is between the *)
(* comparison of the fingerprints and the end of the rebuild, whatever     *)
(* requests overlap (ConvManager.GetOrCreate holds cm.mu), and no prompt   *)
(* runs that no chat request brought.                                      *)
THEOREM SelectionTypeCorrect == Spec => []TypeOK
<1> HIDE DEF IInv, TypeOK
<1> QED
  BY AlwaysIInv, IInvImpliesTypeOK, PTL

(* However requests with other profiles overlap, rebuilds fail half way    *)
(* and the runner reads in the middle of one: what passes for a            *)
(* conversation's fingerprint, in the cache and in a run, has the key, and *)
(* as far as the fingerprint tells the engine and tools, that were         *)
(* resolved last, unless it is torn; a torn state outlives the rebuild it  *)
(* was read in only after one that failed half way or two that ended while *)
(* it was composed; and runs in a row share a session and are stored with  *)
(* their engine's key (GetOrCreate, ensureLLMState).                       *)
THEOREM EngineIsResolved == Spec => []EngineInv
<1>1. IInv /\ TornIInv => EngineInv
  BY IInvImpliesStateInv, IInvImpliesRunInv DEF IInv, TornIInv, EngineInv
<1> HIDE DEF IInv, TornIInv, EngineInv
<1> QED
  BY <1>1, AlwaysIInv, AlwaysTornIInv, PTL

-----------------------------------------------------------------------------
(* The plan of a stack: positions in sequences *)

(* Every set of numbers has a least, and if bounded a greatest, number.    *)
LEMMA LeastNumber ==
  ASSUME NEW T \in SUBSET Nat, T # {}
  PROVE  \E m \in T : \A n \in T : m <= n
<1> DEFINE R == OpToRel(<, Nat)
<1>1. IsWellFoundedOn(R, Nat)
  BY NatLessThanWellFounded
<1>2. \A x, y \in Nat : y < x => <<y, x>> \in R
  BY DEF OpToRel
<1> HIDE DEF R
<1>3. PICK m \in T : \A n \in T : ~(<<n, m>> \in R)
  BY <1>1, WFMin, Zenon
<1>4. \A n \in T : ~(n < m)
  BY <1>2, <1>3, Zenon
<1> QED
  BY <1>4

LEMMA GreatestNumber ==
  ASSUME NEW T \in SUBSET Nat, T # {}, NEW b \in Nat, \A n \in T : n <= b
  PROVE  \E m \in T : \A n \in T : n <= m
<1> DEFINE U == {b - n : n \in T}
<1>1. U \in SUBSET Nat /\ U # {}
  <2>1. \A n \in T : n \in Nat /\ n <= b
    OBVIOUS
  <2>2. \A n \in T : b - n \in Nat
    BY <2>1
  <2> QED
    BY <2>2
<1>2. PICK u \in U : \A w \in U : u <= w
  BY <1>1, LeastNumber
<1>3. PICK m \in T : u = b - m
  OBVIOUS
<1>4. ASSUME NEW n \in T PROVE n <= m
  <2>1. b - m <= b - n
    BY <1>2, <1>3
  <2> QED
    BY <2>1
<1> QED
  BY <1>4

LEMMA MinIs ==
  ASSUME NEW S \in SUBSET Int, NEW m \in S, \A n \in S : m <= n
  PROVE  Min(S) = m
<1>1. Min(S) \in S /\ \A y \in S : Min(S) <= y
  BY Zenon DEF Min
<1>2. Min(S) \in Int /\ m \in Int /\ Min(S) <= m /\ m <= Min(S)
  BY <1>1
<1> QED
  BY <1>2

LEMMA MaxIs ==
  ASSUME NEW S \in SUBSET Int, NEW m \in S, \A n \in S : n <= m
  PROVE  Max(S) = m
<1>1. Max(S) \in S /\ \A y \in S : Max(S) >= y
  BY Zenon DEF Max
<1>2. Max(S) \in Int /\ m \in Int /\ Max(S) <= m /\ m <= Max(S)
  BY <1>1
<1> QED
  BY <1>2

(* The first and the last place of an element.                             *)
FirstAt(seq, x, k) ==
  k \in DOMAIN seq /\ seq[k] = x /\ \A j \in DOMAIN seq : seq[j] = x => k <= j
LastAt(seq, x, k) ==
  k \in DOMAIN seq /\ seq[k] = x /\ \A j \in DOMAIN seq : seq[j] = x => j <= k

LEMMA IndexInIs ==
  ASSUME NEW S, NEW seq \in Seq(S), NEW x, NEW k, FirstAt(seq, x, k)
  PROVE  IndexIn(seq, x) = k /\ k \in 1..Len(seq)
<1> DEFINE at == {i \in DOMAIN seq : seq[i] = x}
<1>1. DOMAIN seq = 1..Len(seq) /\ Len(seq) \in Nat
  BY LenProperties
<1>2. k \in at /\ at \in SUBSET Int /\ \A n \in at : k <= n
  BY <1>1 DEF FirstAt
<1> HIDE DEF at
<1>3. Min(at) = k
  BY <1>2, MinIs
<1> QED
  BY <1>1, <1>3 DEF at, IndexIn, FirstAt

LEMMA FirstExists ==
  ASSUME NEW S, NEW seq \in Seq(S), NEW x \in ToSet(seq)
  PROVE  FirstAt(seq, x, IndexIn(seq, x)) /\ IndexIn(seq, x) \in 1..Len(seq)
<1> DEFINE at == {i \in DOMAIN seq : seq[i] = x}
<1>1. DOMAIN seq = 1..Len(seq) /\ Len(seq) \in Nat
  BY LenProperties
<1>2. at \in SUBSET Nat /\ at # {}
  BY <1>1 DEF ToSet
<1>3. PICK k \in at : \A n \in at : k <= n
  <2> HIDE DEF at
  <2> QED
    BY <1>2, LeastNumber
<1>4. FirstAt(seq, x, k)
  BY <1>3 DEF FirstAt
<1> QED
  BY <1>4, IndexInIs

LEMMA LastExists ==
  ASSUME NEW S, NEW seq \in Seq(S), NEW x \in ToSet(seq)
  PROVE  \E k \in 1..Len(seq) : LastAt(seq, x, k)
<1> DEFINE at == {i \in DOMAIN seq : seq[i] = x}
<1>1. DOMAIN seq = 1..Len(seq) /\ Len(seq) \in Nat
  BY LenProperties
<1>2. at \in SUBSET Nat /\ at # {} /\ \A n \in at : n <= Len(seq)
  BY <1>1 DEF ToSet
<1>3. PICK k \in at : \A n \in at : n <= k
  <2> HIDE DEF at
  <2> QED
    BY <1>1, <1>2, GreatestNumber
<1> QED
  BY <1>1, <1>3 DEF LastAt

(* Elements of a sequence with another behind it.                          *)
LEMMA JoinedAt ==
  ASSUME NEW S, NEW s \in Seq(S), NEW o \in Seq(S)
  PROVE  /\ DOMAIN s = 1..Len(s) /\ DOMAIN o = 1..Len(o) /\ Len(s) \in Nat /\ Len(o) \in Nat
         /\ s \o o \in Seq(S) /\ Len(s \o o) = Len(s) + Len(o)
         /\ DOMAIN (s \o o) = 1..(Len(s) + Len(o))
         /\ \A i \in 1..Len(s) : (s \o o)[i] = s[i]
         /\ \A i \in 1..Len(o) : (s \o o)[Len(s) + i] = o[i]
         /\ \A i \in 1..(Len(s) + Len(o)) :
              i \in 1..Len(s) \/ \E j \in 1..Len(o) : i = Len(s) + j
<1>1. DOMAIN s = 1..Len(s) /\ DOMAIN o = 1..Len(o) /\ Len(s) \in Nat /\ Len(o) \in Nat
  BY LenProperties
<1>2. /\ s \o o \in Seq(S) /\ Len(s \o o) = Len(s) + Len(o)
      /\ \A i \in 1..(Len(s) + Len(o)) :
           (s \o o)[i] = IF i <= Len(s) THEN s[i] ELSE o[i - Len(s)]
  BY ConcatProperties
<1>3. DOMAIN (s \o o) = 1..(Len(s) + Len(o))
  BY <1>2, LenProperties
<1>4. ASSUME NEW i \in 1..Len(s) PROVE (s \o o)[i] = s[i]
  BY <1>1, <1>2
<1>5. ASSUME NEW i \in 1..Len(o) PROVE (s \o o)[Len(s) + i] = o[i]
  <2>1. /\ Len(s) + i \in 1..(Len(s) + Len(o)) /\ ~(Len(s) + i <= Len(s))
        /\ Len(s) + i - Len(s) = i
    BY <1>1
  <2> QED
    BY <1>2, <2>1
<1>6. ASSUME NEW i \in 1..(Len(s) + Len(o)), i \notin 1..Len(s)
      PROVE  \E j \in 1..Len(o) : i = Len(s) + j
  <2>1. i - Len(s) \in 1..Len(o) /\ i = Len(s) + (i - Len(s))
    BY <1>1, <1>6
  <2> QED
    BY <2>1
<1> QED
  BY <1>1, <1>2, <1>3, <1>4, <1>5, <1>6

LEMMA JoinedSet ==
  ASSUME NEW S, NEW s \in Seq(S), NEW o \in Seq(S)
  PROVE  ToSet(s \o o) = ToSet(s) \cup ToSet(o)
<1>1. ASSUME NEW x \in ToSet(s \o o) PROVE x \in ToSet(s) \cup ToSet(o)
  <2>1. PICK i \in 1..(Len(s) + Len(o)) : x = (s \o o)[i]
    BY JoinedAt DEF ToSet
  <2> QED
    BY <2>1, JoinedAt DEF ToSet
<1>2. ASSUME NEW i \in 1..Len(s) PROVE s[i] \in ToSet(s \o o)
  <2>1. i \in DOMAIN (s \o o) /\ (s \o o)[i] = s[i]
    BY JoinedAt
  <2> QED
    BY <2>1 DEF ToSet
<1>3. ASSUME NEW i \in 1..Len(o) PROVE o[i] \in ToSet(s \o o)
  <2>1. Len(s) + i \in DOMAIN (s \o o) /\ (s \o o)[Len(s) + i] = o[i]
    BY JoinedAt
  <2> QED
    BY <2>1 DEF ToSet
<1>4. DOMAIN s = 1..Len(s) /\ DOMAIN o = 1..Len(o)
  BY JoinedAt
<1>5. ToSet(s) \subseteq ToSet(s \o o) /\ ToSet(o) \subseteq ToSet(s \o o)
  BY <1>2, <1>3, <1>4 DEF ToSet
<1> QED
  BY <1>1, <1>5

LEMMA IndexInJoined ==
  ASSUME NEW S, NEW s \in Seq(S), NEW o \in Seq(S), NEW x
  PROVE  /\ x \in ToSet(s) => IndexIn(s \o o, x) = IndexIn(s, x)
         /\ x \notin ToSet(s) /\ x \in ToSet(o) =>
              IndexIn(s \o o, x) = Len(s) + IndexIn(o, x)
<1>1. ASSUME x \in ToSet(s) PROVE IndexIn(s \o o, x) = IndexIn(s, x)
  <2> DEFINE k == IndexIn(s, x)
  <2>1. FirstAt(s, x, k) /\ k \in 1..Len(s)
    BY <1>1, FirstExists
  <2> HIDE DEF k
  <2>2. ASSUME NEW j \in DOMAIN (s \o o), (s \o o)[j] = x PROVE k <= j
    BY <2>1, <2>2, JoinedAt DEF FirstAt
  <2>3. FirstAt(s \o o, x, k)
    BY <2>1, <2>2, JoinedAt DEF FirstAt
  <2>4. IndexIn(s \o o, x) = k
    BY <2>3, JoinedAt, IndexInIs
  <2> QED
    BY <2>4 DEF k
<1>2. ASSUME x \notin ToSet(s), x \in ToSet(o)
      PROVE  IndexIn(s \o o, x) = Len(s) + IndexIn(o, x)
  <2> DEFINE k == IndexIn(o, x)
  <2>1. FirstAt(o, x, k) /\ k \in 1..Len(o)
    BY <1>2, FirstExists
  <2> HIDE DEF k
  <2>2. ASSUME NEW j \in DOMAIN (s \o o), (s \o o)[j] = x PROVE Len(s) + k <= j
    <3>1. j \notin 1..Len(s)
      BY <1>2, <2>2, JoinedAt DEF ToSet
    <3>2. PICK i \in 1..Len(o) : j = Len(s) + i
      <4>1. /\ j \in 1..(Len(s) + Len(o))
            /\ \A n \in 1..(Len(s) + Len(o)) :
                 n \in 1..Len(s) \/ \E i \in 1..Len(o) : n = Len(s) + i
        BY <2>2, JoinedAt
      <4> QED
        BY <3>1, <4>1, Zenon
    <3>3. o[i] = x
      BY <2>2, <3>2, JoinedAt
    <3>4. k <= i
      BY <2>1, <3>3, JoinedAt DEF FirstAt
    <3> QED
      BY <2>1, <3>2, <3>4, JoinedAt
  <2>3. FirstAt(s \o o, x, Len(s) + k)
    BY <2>1, <2>2, JoinedAt DEF FirstAt
  <2>4. IndexIn(s \o o, x) = Len(s) + k
    BY <2>3, JoinedAt, IndexInIs
  <2> QED
    BY <2>4 DEF k
<1> QED
  BY <1>1, <1>2

-----------------------------------------------------------------------------
(* Each element once, in the order of its first place *)

LEMMA OnceEachDistinct ==
  ASSUME NEW S, NEW t \in Seq(S), NEW given \in Seq(S), NEW besides,
         OnceEach(t, given, besides), NEW i \in 1..Len(t)
  PROVE  IndexIn(t, t[i]) = i
<1>1. DOMAIN t = 1..Len(t) /\ Len(t) \in Nat
  BY LenProperties
<1>2. ASSUME NEW j \in DOMAIN t, t[j] = t[i], ~(i <= j) PROVE FALSE
  <2>1. j < i
    BY <1>1, <1>2
  <2>2. IndexIn(given, t[j]) < IndexIn(given, t[i])
    BY <1>1, <2>1 DEF OnceEach
  <2>3. t[i] \in ToSet(given)
    BY <1>1 DEF OnceEach, ToSet
  <2>4. IndexIn(given, t[i]) \in Nat
    BY <2>3, FirstExists
  <2> QED
    BY <1>2, <2>2, <2>4
<1>3. FirstAt(t, t[i], i)
  BY <1>1, <1>2 DEF FirstAt
<1> QED
  BY <1>3, IndexInIs

(* One element more, unless it is there or not wanted.                     *)
LEMMA OnceEachAppend ==
  ASSUME NEW S, NEW t \in Seq(S), NEW given \in Seq(S), NEW besides, NEW x \in S,
         OnceEach(t, given, besides)
  PROVE  OnceEach(IF x \in besides \/ x \in ToSet(t) THEN t ELSE Append(t, x),
                  Append(given, x), besides)
<1> DEFINE o == <<x>>
<1>1. /\ o \in Seq(S) /\ Append(given, x) = given \o o /\ Append(t, x) = t \o o
      /\ ToSet(o) = {x} /\ Len(o) = 1 /\ o[1] = x /\ DOMAIN o = {1}
  BY AppendIsConcat DEF ToSet
<1> HIDE DEF o
<1>2. ToSet(given \o o) = ToSet(given) \cup {x} /\ ToSet(t \o o) = ToSet(t) \cup {x}
  BY <1>1, JoinedSet
<1>3. /\ DOMAIN t = 1..Len(t) /\ Len(t) \in Nat
      /\ DOMAIN given = 1..Len(given) /\ Len(given) \in Nat
  BY LenProperties
<1>4. \A i \in DOMAIN t : t[i] \in ToSet(t) /\ t[i] \in ToSet(given)
  BY DEF OnceEach, ToSet
<1>5. \A i \in DOMAIN t : IndexIn(given \o o, t[i]) = IndexIn(given, t[i])
  BY <1>1, <1>4, IndexInJoined
<1>6. CASE x \in besides \/ x \in ToSet(t)
  <2>1. ToSet(t) = ToSet(given \o o) \ besides
    BY <1>2, <1>6 DEF OnceEach
  <2>2. \A i, j \in DOMAIN t : i < j => IndexIn(given \o o, t[i]) < IndexIn(given \o o, t[j])
    BY <1>5 DEF OnceEach
  <2> QED
    BY <1>1, <1>6, <2>1, <2>2 DEF OnceEach
<1>7. CASE ~(x \in besides \/ x \in ToSet(t))
  <2>1. ToSet(t \o o) = ToSet(given \o o) \ besides
    BY <1>2, <1>7 DEF OnceEach
  <2>2. x \notin ToSet(given)
    BY <1>7 DEF OnceEach
  <2>3. IndexIn(given \o o, x) = Len(given) + 1
    <3>1. FirstAt(o, x, 1)
      BY <1>1 DEF FirstAt
    <3>2. IndexIn(o, x) = 1
      BY <1>1, <3>1, IndexInIs
    <3> QED
      BY <1>1, <2>2, <3>2, IndexInJoined
  <2>4. \A i \in DOMAIN t : IndexIn(given \o o, t[i]) <= Len(given)
    BY <1>3, <1>4, <1>5, FirstExists
  <2>5. /\ DOMAIN (t \o o) = 1..(Len(t) + 1)
        /\ \A i \in 1..Len(t) : (t \o o)[i] = t[i]
        /\ (t \o o)[Len(t) + 1] = x
    BY <1>1, JoinedAt
  <2>6. ASSUME NEW i \in DOMAIN (t \o o), NEW j \in DOMAIN (t \o o), i < j
        PROVE  IndexIn(given \o o, (t \o o)[i]) < IndexIn(given \o o, (t \o o)[j])
    <3>1. i \in DOMAIN t /\ (t \o o)[i] = t[i]
      BY <1>3, <2>5, <2>6
    <3>2. CASE j \in DOMAIN t
      <4>1. (t \o o)[j] = t[j]
        BY <1>3, <2>5, <3>2
      <4> QED
        BY <1>5, <2>6, <3>1, <3>2, <4>1 DEF OnceEach
    <3>3. CASE j \notin DOMAIN t
      <4>1. j = Len(t) + 1
        BY <1>3, <2>5, <3>3
      <4>2. IndexIn(given \o o, t[i]) \in Nat
        BY <1>4, <1>5, <3>1, FirstExists
      <4> QED
        BY <1>3, <2>3, <2>4, <2>5, <3>1, <4>1, <4>2
    <3> QED
      BY <3>2, <3>3
  <2> QED
    BY <1>1, <1>7, <2>1, <2>6 DEF OnceEach
<1> QED
  BY <1>6, <1>7

(* Dropping repetitions of a sequence before another is joined to it       *)
(* changes nothing.                                                        *)
LEMMA OnceEachJoined ==
  ASSUME NEW S, NEW flat \in Seq(S), NEW t \in Seq(S), NEW o \in Seq(S), NEW u \in Seq(S),
         NEW besides,
         t = flat \/ OnceEach(t, flat, besides), OnceEach(u, t \o o, besides)
  PROVE  OnceEach(u, flat \o o, besides)
<1>1. CASE t = flat
  BY <1>1
<1>2. CASE OnceEach(t, flat, besides)
  <2>1. ToSet(t) = ToSet(flat) \ besides
    BY <1>2 DEF OnceEach
  <2>2. /\ ToSet(t \o o) = ToSet(t) \cup ToSet(o)
        /\ ToSet(flat \o o) = ToSet(flat) \cup ToSet(o)
    BY JoinedSet
  <2>3. ToSet(u) = ToSet(flat \o o) \ besides
    BY <2>1, <2>2 DEF OnceEach
  <2>4. ASSUME NEW x \in ToSet(u), NEW y \in ToSet(u),
               IndexIn(t \o o, x) < IndexIn(t \o o, y)
        PROVE  IndexIn(flat \o o, x) < IndexIn(flat \o o, y)
    <3>1. /\ x \notin besides /\ y \notin besides
          /\ x \in ToSet(t) <=> x \in ToSet(flat)
          /\ y \in ToSet(t) <=> y \in ToSet(flat)
          /\ x \in ToSet(t) \/ x \in ToSet(o)
          /\ y \in ToSet(t) \/ y \in ToSet(o)
      BY <2>1, <2>2 DEF OnceEach
    <3>2. Len(t) \in Nat /\ Len(flat) \in Nat
      BY LenProperties
    <3>3. CASE x \in ToSet(t) /\ y \in ToSet(t)
      <4>1. /\ IndexIn(t \o o, x) = IndexIn(t, x) /\ IndexIn(t \o o, y) = IndexIn(t, y)
            /\ IndexIn(flat \o o, x) = IndexIn(flat, x)
            /\ IndexIn(flat \o o, y) = IndexIn(flat, y)
        BY <3>1, <3>3, IndexInJoined
      <4>2. PICK i \in 1..Len(t), j \in 1..Len(t) :
              IndexIn(t, x) = i /\ t[i] = x /\ IndexIn(t, y) = j /\ t[j] = y
        BY <3>3, FirstExists DEF FirstAt
      <4>3. DOMAIN t = 1..Len(t) /\ i < j
        BY <2>4, <4>1, <4>2, LenProperties
      <4>4. IndexIn(flat, t[i]) < IndexIn(flat, t[j])
        BY <1>2, <4>3 DEF OnceEach
      <4> QED
        BY <4>1, <4>2, <4>4
    <3>4. CASE x \in ToSet(t) /\ y \notin ToSet(t)
      <4>1. /\ IndexIn(flat \o o, x) = IndexIn(flat, x)
            /\ IndexIn(flat \o o, y) = Len(flat) + IndexIn(o, y)
        BY <3>1, <3>4, IndexInJoined
      <4>2. IndexIn(flat, x) \in 1..Len(flat) /\ IndexIn(o, y) \in 1..Len(o)
        BY <3>1, <3>4, FirstExists
      <4>3. Len(o) \in Nat
        BY LenProperties
      <4> QED
        BY <3>2, <4>1, <4>2, <4>3
    <3>5. CASE x \notin ToSet(t) /\ y \in ToSet(t)
      <4>1. /\ IndexIn(t \o o, y) = IndexIn(t, y)
            /\ IndexIn(t \o o, x) = Len(t) + IndexIn(o, x)
        BY <3>1, <3>5, IndexInJoined
      <4>2. IndexIn(t, y) \in 1..Len(t) /\ IndexIn(o, x) \in 1..Len(o)
        BY <3>1, <3>5, FirstExists
      <4>3. Len(o) \in Nat
        BY LenProperties
      <4> QED
        BY <2>4, <3>2, <4>1, <4>2, <4>3
    <3>6. CASE x \notin ToSet(t) /\ y \notin ToSet(t)
      <4>1. /\ IndexIn(t \o o, x) = Len(t) + IndexIn(o, x)
            /\ IndexIn(t \o o, y) = Len(t) + IndexIn(o, y)
            /\ IndexIn(flat \o o, x) = Len(flat) + IndexIn(o, x)
            /\ IndexIn(flat \o o, y) = Len(flat) + IndexIn(o, y)
        BY <3>1, <3>6, IndexInJoined
      <4>2. IndexIn(o, x) \in 1..Len(o) /\ IndexIn(o, y) \in 1..Len(o) /\ Len(o) \in Nat
        BY <3>1, <3>6, FirstExists, LenProperties
      <4> QED
        BY <2>4, <3>2, <4>1, <4>2
    <3> QED
      BY <3>3, <3>4, <3>5, <3>6
  <2>5. \A i \in DOMAIN u : u[i] \in ToSet(u)
    BY DEF ToSet
  <2> QED
    BY <2>3, <2>4, <2>5 DEF OnceEach
<1> QED
  BY <1>1, <1>2

(* Tools: appendTool for each in turn.                                     *)
LEMMA AppendToolKeeps ==
  ASSUME NEW t \in Seq(STRING), NEW given \in Seq(STRING), NEW x \in STRING,
         OnceEach(t, given, {""})
  PROVE  /\ appendTool(t, x) \in Seq(STRING)
         /\ OnceEach(appendTool(t, x), Append(given, x), {""})
<1>1. appendTool(t, x) = IF x \in {""} \/ x \in ToSet(t) THEN t ELSE Append(t, x)
  BY DEF appendTool
<1>2. Append(t, x) \in Seq(STRING)
  BY AppendProperties
<1>3. OnceEach(IF x \in {""} \/ x \in ToSet(t) THEN t ELSE Append(t, x),
               Append(given, x), {""})
  BY OnceEachAppend
<1> QED
  BY <1>1, <1>2, <1>3

-----------------------------------------------------------------------------
(* Folds *)

Folding(f, step, first, seq) ==
  f = [n \in 0..Len(seq) |-> IF n = 0 THEN first ELSE step[<<f[n - 1], seq[n]>>]]

LEMMA FoldingExists ==
  ASSUME NEW S, NEW T, NEW step \in [S \X T -> S], NEW first \in S, NEW seq \in Seq(T)
  PROVE  \E f \in [0..Len(seq) -> S] : Folding(f, step, first, seq)
<1> DEFINE Good(n, f) == \A i \in 0..n : f[i] = IF i = 0 THEN first ELSE step[<<f[i - 1], seq[i]>>]
           Bad == {n \in 0..Len(seq) : ~\E f \in [0..n -> S] : Good(n, f)}
<1>1. ASSUME Bad # {} PROVE FALSE
  <2>1. PICK n \in Bad : \A k \in Bad : n <= k
    <3>1. Bad \in SUBSET Nat
      OBVIOUS
    <3> HIDE DEF Bad
    <3> QED
      BY <1>1, <3>1, LeastNumber
  <2>2. n # 0
    <3> SUFFICES ASSUME n = 0 PROVE FALSE
      OBVIOUS
    <3> DEFINE f == [i \in 0..0 |-> first]
    <3>1. f \in [0..0 -> S] /\ Good(0, f)
      OBVIOUS
    <3> QED
      BY <2>1, <3>1
  <2>3. PICK k \in Nat : n = k + 1 /\ k < Len(seq)
    <3>1. n \in 0..Len(seq) /\ Len(seq) \in Nat
      BY <2>1
    <3>2. n - 1 \in Nat /\ n = (n - 1) + 1 /\ n - 1 < Len(seq)
      BY <2>2, <3>1
    <3> QED
      BY <3>2
  <2>4. PICK f \in [0..k -> S] : Good(k, f)
    <3>1. k \notin Bad /\ k \in 0..Len(seq)
      BY <2>1, <2>3
    <3> QED
      BY <3>1
  <2> DEFINE next == step[<<f[k], seq[n]>>]
             g == [i \in 0..n |-> IF i = n THEN next ELSE f[i]]
  <2>5. next \in S
    <3>1. seq[n] \in T /\ f[k] \in S
      BY <2>1, <2>2, <2>3, <2>4
    <3> QED
      BY <3>1
  <2>6. g[n] = next /\ \A i \in 0..k : g[i] = f[i]
    <3>1. n \in 0..n /\ \A i \in 0..k : i \in 0..n /\ i # n
      BY <2>3
    <3> HIDE DEF next
    <3> QED
      BY <3>1
  <2>7. g \in [0..n -> S]
    <3> HIDE DEF next
    <3> QED
      BY <2>3, <2>4, <2>5
  <2>8. ASSUME NEW i \in 0..n
        PROVE  g[i] = IF i = 0 THEN first ELSE step[<<g[i - 1], seq[i]>>]
    <3> HIDE DEF g
    <3>1. CASE i = n
      <4>1. k \in 0..k /\ i - 1 = k /\ i # 0
        BY <2>2, <2>3, <3>1
      <4> QED
        BY <2>6, <3>1, <4>1
    <3>2. CASE i # n
      <4>1. i \in 0..k /\ (i # 0 => i - 1 \in 0..k)
        BY <2>3, <3>2
      <4> QED
        BY <2>4, <2>6, <4>1
    <3> QED
      BY <3>1, <3>2
  <2> HIDE DEF g
  <2> QED
    BY <2>1, <2>7, <2>8
<1>2. Len(seq) \in 0..Len(seq)
  OBVIOUS
<1>3. PICK f \in [0..Len(seq) -> S] : Good(Len(seq), f)
  BY <1>1, <1>2
<1>4. Folding(f, step, first, seq)
  BY <1>3 DEF Folding
<1> QED
  BY <1>4

(* mergeRuntimeTools: each tool of both, but the blank one, once.          *)
ToolsFolding(f, tools) ==
  f = [n \in 0..Len(tools) |-> IF n = 0 THEN << >> ELSE appendTool(f[n - 1], tools[n])]

LEMMA ToolsFoldingExists ==
  ASSUME NEW tools \in Seq(STRING)
  PROVE  \E f : ToolsFolding(f, tools)
<1> DEFINE S == Seq(STRING)
           step == [p \in S \X STRING |-> appendTool(p[1], p[2])]
<1>1. ASSUME NEW out \in S, NEW x \in STRING PROVE appendTool(out, x) \in S
  BY AppendProperties DEF appendTool
<1>2. << >> \in S
  OBVIOUS
<1>3. step \in [S \X STRING -> S]
  <2> HIDE DEF S
  <2> QED
    BY <1>1
<1>4. \A out \in S, x \in STRING : step[<<out, x>>] = appendTool(out, x)
  OBVIOUS
<1> HIDE DEF S, step
<1>5. tools \in Seq(STRING)
  OBVIOUS
<1>6. PICK f \in [0..Len(tools) -> S] : Folding(f, step, << >>, tools)
  BY <1>2, <1>3, <1>5, FoldingExists
<1>7. ASSUME NEW n \in 0..Len(tools), n # 0
      PROVE  step[<<f[n - 1], tools[n]>>] = appendTool(f[n - 1], tools[n])
  <2>1. n - 1 \in 0..Len(tools) /\ n \in 1..Len(tools)
    BY <1>7, LenProperties
  <2>2. f[n - 1] \in S /\ tools[n] \in STRING
    BY <1>6, <2>1
  <2> QED
    BY <1>4, <2>2
<1>8. f = [n \in 0..Len(tools) |-> IF n = 0 THEN << >> ELSE appendTool(f[n - 1], tools[n])]
  BY <1>6, <1>7 DEF Folding
<1> QED
  BY <1>8 DEF ToolsFolding

(* The beginning of a sequence, and one more.                              *)
LEMMA Beginnings ==
  ASSUME NEW S, NEW seq \in Seq(S)
  PROVE  /\ SubSeq(seq, 1, 0) = << >> /\ SubSeq(seq, 1, Len(seq)) = seq
         /\ \A n \in 1..Len(seq) :
              /\ SubSeq(seq, 1, n - 1) \in Seq(S) /\ seq[n] \in S
              /\ SubSeq(seq, 1, n) = Append(SubSeq(seq, 1, n - 1), seq[n])
<1>1. SubSeq(seq, 1, 0) = << >> /\ SubSeq(seq, 1, Len(seq)) = seq
  BY SubSeqEmpty, SubSeqFull
<1>2. ASSUME NEW n \in 1..Len(seq)
      PROVE  /\ SubSeq(seq, 1, n - 1) \in Seq(S) /\ seq[n] \in S
             /\ SubSeq(seq, 1, n) = Append(SubSeq(seq, 1, n - 1), seq[n])
  <2>1. Len(seq) \in Nat /\ seq[n] \in S /\ 1 \in 1..Len(seq) /\ n \in 1..Len(seq)
    BY LenProperties
  <2>2. \A i \in 1..(n - 1) : seq[i] \in S
    BY <2>1, LenProperties
  <2>3. SubSeq(seq, 1, n - 1) \in Seq(S)
    BY <2>1, <2>2, SubSeqProperties
  <2>4. SubSeq(seq, 1, n) = SubSeq(seq, 1, n - 1) \o <<seq[n]>>
    BY <2>1, SubSeqRecursiveSecond
  <2>5. Append(SubSeq(seq, 1, n - 1), seq[n]) = SubSeq(seq, 1, n - 1) \o <<seq[n]>>
    BY <2>1, <2>3, AppendIsConcat
  <2> QED
    BY <2>1, <2>3, <2>4, <2>5
<1> QED
  BY <1>1, <1>2

ToolsAfter(n, out, tools) ==
  out[n] \in Seq(STRING) /\ OnceEach(out[n], SubSeq(tools, 1, n), {""})

LEMMA ToolsMerged ==
  ASSUME NEW base \in Seq(STRING), NEW overlay \in Seq(STRING)
  PROVE  /\ mergeRuntimeTools(base, overlay) \in Seq(STRING)
         /\ OnceEach(mergeRuntimeTools(base, overlay), base \o overlay, {""})
<1> DEFINE tools == base \o overlay
           out == CHOOSE f : ToolsFolding(f, tools)
           Bad == {n \in 0..Len(tools) : ~ToolsAfter(n, out, tools)}
<1>1. tools \in Seq(STRING)
  BY ConcatProperties
<1>2. mergeRuntimeTools(base, overlay) = out[Len(tools)]
  BY DEF mergeRuntimeTools, ToolsFolding
<1>3. ToolsFolding(out, tools)
  BY <1>1, ToolsFoldingExists
<1> HIDE DEF tools
<1>4. Len(tools) \in Nat
  BY <1>1, LenProperties
<1>5. \A n \in 0..Len(tools) :
        out[n] = IF n = 0 THEN << >> ELSE appendTool(out[n - 1], tools[n])
  BY <1>3 DEF ToolsFolding
<1> HIDE DEF out
<1>6. ASSUME Bad # {} PROVE FALSE
  <2>1. PICK n \in Bad : \A k \in Bad : n <= k
    <3>1. Bad \in SUBSET Nat
      BY <1>4
    <3> HIDE DEF Bad
    <3> QED
      BY <1>6, <3>1, LeastNumber
  <2>2. CASE n = 0
    <3>1. out[0] = << >> /\ SubSeq(tools, 1, 0) = << >>
      BY <1>1, <1>4, <1>5, Beginnings
    <3>2. OnceEach(<< >>, << >>, {""}) /\ << >> \in Seq(STRING)
      BY DEF OnceEach, ToSet
    <3> QED
      BY <2>1, <2>2, <3>1, <3>2 DEF ToolsAfter
  <2>3. CASE n # 0
    <3>1. n - 1 \in 0..Len(tools) /\ n \in 1..Len(tools) /\ ~(n <= n - 1)
      BY <1>4, <2>1, <2>3
    <3>2. n - 1 \notin Bad
      BY <2>1, <3>1
    <3>3. ToolsAfter(n - 1, out, tools)
      BY <3>1, <3>2
    <3>4. /\ SubSeq(tools, 1, n - 1) \in Seq(STRING) /\ tools[n] \in STRING
          /\ SubSeq(tools, 1, n) = Append(SubSeq(tools, 1, n - 1), tools[n])
      BY <1>1, <3>1, Beginnings
    <3>5. out[n] = appendTool(out[n - 1], tools[n])
      BY <1>5, <2>3, <3>1
    <3>6. ToolsAfter(n, out, tools)
      BY <3>3, <3>4, <3>5, AppendToolKeeps DEF ToolsAfter
    <3> QED
      BY <2>1, <3>6
  <2> QED
    BY <2>2, <2>3
<1>7. ToolsAfter(Len(tools), out, tools)
  BY <1>4, <1>6
<1>8. OnceEach(out[Len(tools)], tools, {""})
  BY <1>1, <1>7, Beginnings DEF ToolsAfter
<1> QED
  BY <1>2, <1>7, <1>8 DEF ToolsAfter, tools

-----------------------------------------------------------------------------
(* Uses of middlewares *)

LEMMA KeysAre ==
  ASSUME NEW s \in Seq(Use)
  PROVE  /\ Keys(s) \in Seq(STRING) /\ Len(Keys(s)) = Len(s) /\ Len(s) \in Nat
         /\ DOMAIN s = 1..Len(s) /\ DOMAIN Keys(s) = 1..Len(s)
         /\ \A i \in 1..Len(s) : Keys(s)[i] = s[i].key /\ s[i] \in Use /\ s[i].key \in STRING
<1>1. DOMAIN s = 1..Len(s) /\ Len(s) \in Nat /\ \A i \in 1..Len(s) : s[i] \in Use
  BY LenProperties
<1>2. \A i \in 1..Len(s) : s[i].key \in STRING
  BY <1>1 DEF Use
<1>3. Keys(s) = [i \in 1..Len(s) |-> s[i].key]
  BY <1>1 DEF Keys
<1> QED
  BY <1>1, <1>2, <1>3

LEMMA KeysJoined ==
  ASSUME NEW s \in Seq(Use), NEW o \in Seq(Use)
  PROVE  Keys(s \o o) = Keys(s) \o Keys(o)
<1>1. /\ s \o o \in Seq(Use) /\ Len(s \o o) = Len(s) + Len(o)
      /\ \A i \in 1..Len(s) : (s \o o)[i] = s[i]
      /\ \A i \in 1..Len(o) : (s \o o)[Len(s) + i] = o[i]
      /\ \A i \in 1..(Len(s) + Len(o)) :
           i \in 1..Len(s) \/ \E j \in 1..Len(o) : i = Len(s) + j
  BY JoinedAt
<1> DEFINE k == Keys(s)
           l == Keys(o)
           m == Keys(s \o o)
<1>2. /\ k \in Seq(STRING) /\ Len(k) = Len(s) /\ \A i \in 1..Len(s) : k[i] = s[i].key
      /\ l \in Seq(STRING) /\ Len(l) = Len(o) /\ \A i \in 1..Len(o) : l[i] = o[i].key
      /\ m \in Seq(STRING) /\ Len(m) = Len(s) + Len(o)
      /\ \A i \in 1..(Len(s) + Len(o)) : m[i] = (s \o o)[i].key
  BY <1>1, KeysAre
<1> HIDE DEF k, l, m
<1>3. /\ k \o l \in Seq(STRING) /\ Len(k \o l) = Len(s) + Len(o)
      /\ \A i \in 1..Len(s) : (k \o l)[i] = k[i]
      /\ \A i \in 1..Len(o) : (k \o l)[Len(s) + i] = l[i]
  <2>1. k \in Seq(STRING) /\ l \in Seq(STRING)
    BY <1>2
  <2>2. /\ k \o l \in Seq(STRING) /\ Len(k \o l) = Len(k) + Len(l)
        /\ \A i \in 1..Len(k) : (k \o l)[i] = k[i]
        /\ \A i \in 1..Len(l) : (k \o l)[Len(k) + i] = l[i]
    BY <2>1, JoinedAt
  <2> QED
    BY <1>2, <2>2
<1>4. ASSUME NEW i \in 1..Len(m) PROVE m[i] = (k \o l)[i]
  <2>1. CASE i \in 1..Len(s)
    BY <1>1, <1>2, <1>3, <2>1
  <2>2. CASE i \notin 1..Len(s)
    <3>1. PICK j \in 1..Len(o) : i = Len(s) + j
      BY <1>1, <1>2, <2>2
    <3> QED
      BY <1>1, <1>2, <1>3, <3>1
  <2> QED
    BY <2>1, <2>2
<1>5. m = k \o l
  BY <1>2, <1>3, <1>4, SeqEqual
<1> QED
  BY <1>5 DEF k, l, m

LEMMA LastUseIs ==
  ASSUME NEW s \in Seq(Use), NEW key, NEW k, LastAt(Keys(s), key, k)
  PROVE  LastUse(s, key) = s[k]
<1> DEFINE at == {i \in DOMAIN s : s[i].key = key}
<1>1. k \in at /\ at \in SUBSET Int /\ \A n \in at : n <= k
  BY KeysAre DEF LastAt
<1> HIDE DEF at
<1>2. Max(at) = k
  BY <1>1, MaxIs
<1> QED
  BY <1>2 DEF at, LastUse

(* The last use is one with the key.                                       *)
LEMMA LastUseExists ==
  ASSUME NEW s \in Seq(Use), NEW key \in ToSet(Keys(s))
  PROVE  LastUse(s, key) \in ToSet(s) /\ LastUse(s, key).key = key
<1>1. PICK k \in 1..Len(s) : LastAt(Keys(s), key, k)
  BY KeysAre, LastExists
<1>2. LastUse(s, key) = s[k]
  BY <1>1, LastUseIs
<1>3. s[k].key = key /\ s[k] \in ToSet(s)
  BY <1>1, KeysAre DEF LastAt, ToSet
<1> QED
  BY <1>2, <1>3

LEMMA LastUseJoined ==
  ASSUME NEW s \in Seq(Use), NEW o \in Seq(Use), NEW key
  PROVE  /\ key \in ToSet(Keys(o)) => LastUse(s \o o, key) = LastUse(o, key)
         /\ key \notin ToSet(Keys(o)) /\ key \in ToSet(Keys(s)) =>
              LastUse(s \o o, key) = LastUse(s, key)
<1> DEFINE k == Keys(s)
           l == Keys(o)
<1>1. /\ k \in Seq(STRING) /\ Len(k) = Len(s) /\ l \in Seq(STRING) /\ Len(l) = Len(o)
      /\ DOMAIN k = 1..Len(s) /\ DOMAIN l = 1..Len(o) /\ Len(s) \in Nat /\ Len(o) \in Nat
      /\ Keys(s \o o) = k \o l
  BY KeysAre, KeysJoined
<1>2. /\ s \o o \in Seq(Use)
      /\ \A i \in 1..Len(s) : (s \o o)[i] = s[i]
      /\ \A i \in 1..Len(o) : (s \o o)[Len(s) + i] = o[i]
  BY JoinedAt
<1> HIDE DEF k, l
<1>3. /\ DOMAIN (k \o l) = 1..(Len(s) + Len(o))
      /\ \A i \in 1..Len(s) : (k \o l)[i] = k[i]
      /\ \A i \in 1..Len(o) : (k \o l)[Len(s) + i] = l[i]
      /\ \A i \in 1..(Len(s) + Len(o)) :
           i \in 1..Len(s) \/ \E j \in 1..Len(o) : i = Len(s) + j
  <2>1. k \in Seq(STRING) /\ l \in Seq(STRING)
    BY <1>1
  <2>2. /\ DOMAIN (k \o l) = 1..(Len(k) + Len(l))
        /\ \A i \in 1..Len(k) : (k \o l)[i] = k[i]
        /\ \A i \in 1..Len(l) : (k \o l)[Len(k) + i] = l[i]
        /\ \A i \in 1..(Len(k) + Len(l)) :
             i \in 1..Len(k) \/ \E j \in 1..Len(l) : i = Len(k) + j
    BY <2>1, JoinedAt
  <2> QED
    BY <1>1, <2>2
<1>4. ASSUME key \in ToSet(l) PROVE LastUse(s \o o, key) = LastUse(o, key)
  <2>1. PICK j \in 1..Len(o) : LastAt(l, key, j)
    BY <1>1, <1>4, LastExists
  <2>2. LastAt(k \o l, key, Len(s) + j)
    <3>1. ASSUME NEW i \in DOMAIN (k \o l), (k \o l)[i] = key PROVE i <= Len(s) + j
      <4>1. CASE i \in 1..Len(s)
        BY <1>1, <4>1
      <4>2. CASE i \notin 1..Len(s)
        <5>1. PICK n \in 1..Len(o) : i = Len(s) + n
          BY <1>3, <4>2
        <5>2. n <= j
          BY <1>1, <1>3, <2>1, <3>1, <5>1 DEF LastAt
        <5> QED
          BY <1>1, <5>1, <5>2
      <4> QED
        BY <4>1, <4>2
    <3>2. Len(s) + j \in DOMAIN (k \o l) /\ (k \o l)[Len(s) + j] = key
      BY <1>1, <1>3, <2>1 DEF LastAt
    <3> QED
      BY <3>1, <3>2 DEF LastAt
  <2>3. LastUse(s \o o, key) = (s \o o)[Len(s) + j]
    BY <1>1, <1>2, <2>2, LastUseIs
  <2>4. LastUse(o, key) = o[j]
    BY <2>1, LastUseIs DEF l
  <2> QED
    BY <1>2, <2>3, <2>4
<1>5. ASSUME key \notin ToSet(l), key \in ToSet(k) PROVE LastUse(s \o o, key) = LastUse(s, key)
  <2>1. PICK j \in 1..Len(s) : LastAt(k, key, j)
    BY <1>1, <1>5, LastExists
  <2>2. LastAt(k \o l, key, j)
    <3>1. ASSUME NEW i \in DOMAIN (k \o l), (k \o l)[i] = key PROVE i <= j
      <4>1. i \in 1..Len(s)
        <5>1. ASSUME i \notin 1..Len(s) PROVE FALSE
          <6>1. PICK n \in 1..Len(o) : i = Len(s) + n
            BY <1>3, <5>1
          <6>2. l[n] = key
            BY <1>3, <3>1, <6>1
          <6> QED
            BY <1>1, <1>5, <6>2 DEF ToSet
        <5> QED
          BY <5>1
      <4> QED
        BY <1>1, <1>3, <2>1, <3>1, <4>1 DEF LastAt
    <3>2. j \in DOMAIN (k \o l) /\ (k \o l)[j] = key
      BY <1>1, <1>3, <2>1 DEF LastAt
    <3> QED
      BY <3>1, <3>2 DEF LastAt
  <2>3. LastUse(s \o o, key) = (s \o o)[j]
    BY <1>1, <1>2, <2>2, LastUseIs
  <2>4. LastUse(s, key) = s[j]
    BY <2>1, LastUseIs DEF k
  <2> QED
    BY <1>2, <2>3, <2>4
<1> QED
  BY <1>4, <1>5 DEF k, l

(* Each key once, used as it was last.                                     *)
UsesOf(t, given) ==
  /\ OnceEach(Keys(t), Keys(given), {})
  /\ \A use \in ToSet(t) : use = LastUse(given, use.key)

LEMMA LastUseAppend ==
  ASSUME NEW given \in Seq(Use), NEW use \in Use
  PROVE  /\ Append(given, use) \in Seq(Use)
         /\ Keys(Append(given, use)) = Append(Keys(given), use.key)
         /\ LastUse(Append(given, use), use.key) = use
         /\ \A key \in ToSet(Keys(given)) :
              key # use.key => LastUse(Append(given, use), key) = LastUse(given, key)
<1> DEFINE o == <<use>>
<1>1. /\ o \in Seq(Use) /\ Append(given, use) = given \o o
      /\ Len(o) = 1 /\ o[1] = use /\ use.key \in STRING
  BY AppendIsConcat DEF Use
<1> HIDE DEF o
<1>2. Keys(o) \in Seq(STRING) /\ Len(Keys(o)) = 1 /\ Keys(o)[1] = use.key /\ DOMAIN Keys(o) = 1..1
  BY <1>1, KeysAre
<1>3. Keys(o) = <<use.key>>
  <2>1. <<use.key>> \in Seq(STRING) /\ Len(<<use.key>>) = 1 /\ <<use.key>>[1] = use.key
    BY <1>1
  <2> DEFINE l == <<use.key>>
  <2> HIDE DEF l
  <2>2. l \in Seq(STRING) /\ Len(l) = 1 /\ l[1] = use.key
    BY <2>1 DEF l
  <2>3. Keys(o) = l
    BY <1>2, <2>2, SeqEqual
  <2> QED
    BY <2>3 DEF l
<1>4. Keys(given \o o) = Append(Keys(given), use.key)
  <2>1. Append(Keys(given), use.key) = Keys(given) \o <<use.key>>
    BY <1>1, KeysAre, AppendIsConcat
  <2> QED
    BY <1>1, <1>3, <2>1, KeysJoined
<1>5. ToSet(Keys(o)) = {use.key}
  BY <1>2 DEF ToSet
<1>6. LastAt(Keys(o), use.key, 1)
  BY <1>2 DEF LastAt
<1>7. LastUse(o, use.key) = use
  BY <1>1, <1>6, LastUseIs
<1>8. LastUse(given \o o, use.key) = use
  BY <1>1, <1>5, <1>7, LastUseJoined
<1>9. ASSUME NEW key \in ToSet(Keys(given)), key # use.key
      PROVE  LastUse(given \o o, key) = LastUse(given, key)
  BY <1>1, <1>5, <1>9, LastUseJoined
<1>10. given \o o \in Seq(Use)
  BY <1>1, ConcatProperties
<1> QED
  BY <1>1, <1>4, <1>8, <1>9, <1>10

LEMMA UsesHaveKeys ==
  ASSUME NEW t \in Seq(Use), NEW given \in Seq(Use), UsesOf(t, given), NEW use \in ToSet(t)
  PROVE  use.key \in ToSet(Keys(t)) /\ use.key \in ToSet(Keys(given))
<1>1. use.key \in ToSet(Keys(t))
  BY KeysAre DEF ToSet
<1> QED
  BY <1>1 DEF UsesOf, OnceEach

LEMMA AppendUseKeeps ==
  ASSUME NEW t \in Seq(Use), NEW given \in Seq(Use), NEW use \in Use, UsesOf(t, given)
  PROVE  /\ appendUse(t, use) \in Seq(Use)
         /\ UsesOf(appendUse(t, use), Append(given, use))
<1> DEFINE same == {i \in DOMAIN t : t[i].key = use.key}
           after == Append(given, use)
           keys == IF use.key \in {} \/ use.key \in ToSet(Keys(t)) THEN Keys(t)
                   ELSE Append(Keys(t), use.key)
<1>1. /\ after \in Seq(Use) /\ Keys(after) = Append(Keys(given), use.key)
      /\ LastUse(after, use.key) = use
      /\ \A key \in ToSet(Keys(given)) :
           key # use.key => LastUse(after, key) = LastUse(given, key)
  BY LastUseAppend
<1>2. OnceEach(keys, Keys(after), {})
  <2>1. /\ Keys(t) \in Seq(STRING) /\ Keys(given) \in Seq(STRING) /\ use.key \in STRING
        /\ OnceEach(Keys(t), Keys(given), {})
    BY KeysAre DEF UsesOf, Use
  <2>2. OnceEach(keys, Append(Keys(given), use.key), {})
    BY <2>1, OnceEachAppend
  <2> QED
    BY <1>1, <2>2
<1>3. /\ DOMAIN t = 1..Len(t) /\ DOMAIN Keys(t) = 1..Len(t) /\ Len(t) \in Nat
      /\ \A i \in 1..Len(t) : Keys(t)[i] = t[i].key
  BY KeysAre
<1>4. same = {} <=> use.key \notin ToSet(Keys(t))
  BY <1>3 DEF ToSet
<1>5. ASSUME NEW v \in ToSet(t), v.key # use.key PROVE v = LastUse(after, v.key)
  <2>1. v = LastUse(given, v.key) /\ v.key \in ToSet(Keys(given))
    BY UsesHaveKeys DEF UsesOf
  <2> QED
    BY <1>1, <1>5, <2>1
<1>6. CASE same = {}
  <2>1. appendUse(t, use) = Append(t, use)
    BY <1>6 DEF appendUse
  <2>2. Append(t, use) \in Seq(Use) /\ Keys(Append(t, use)) = Append(Keys(t), use.key)
    BY LastUseAppend
  <2>3. keys = Append(Keys(t), use.key)
    BY <1>4, <1>6
  <2>4. ASSUME NEW v \in ToSet(Append(t, use)) PROVE v = LastUse(after, v.key)
    <3>1. v \in ToSet(t) \/ v = use
      <4> DEFINE o == <<use>>
      <4>1. Append(t, use) = t \o o /\ o \in Seq(Use) /\ ToSet(o) = {use}
        BY AppendIsConcat DEF ToSet
      <4> HIDE DEF o
      <4>2. ToSet(t \o o) = ToSet(t) \cup ToSet(o)
        BY <4>1, JoinedSet
      <4> QED
        BY <4>1, <4>2
    <3>2. CASE v = use
      BY <1>1, <3>2
    <3>3. CASE v \in ToSet(t)
      <4>1. v.key # use.key
        BY <1>4, <1>6, <3>3, UsesHaveKeys
      <4> QED
        BY <1>5, <3>3, <4>1
    <3> QED
      BY <3>1, <3>2, <3>3
  <2> HIDE DEF keys, same, after
  <2>5. UsesOf(Append(t, use), after)
    BY <1>2, <2>2, <2>3, <2>4 DEF UsesOf
  <2> QED
    BY <2>1, <2>2, <2>5 DEF after
<1>7. CASE same # {}
  <2> DEFINE m == Min(same)
             u == [t EXCEPT ![m] = use]
  <2>1. appendUse(t, use) = u
    BY <1>7 DEF appendUse
  <2>2. m \in same
    <3> HIDE DEF m
    <3>1. same \in SUBSET Nat
      BY <1>3
    <3>2. PICK n \in same : \A k \in same : n <= k
      <4> HIDE DEF same
      <4> QED
        BY <1>7, <3>1, LeastNumber
    <3>3. Min(same) = n
      <4>1. same \in SUBSET Int
        BY <3>1
      <4> HIDE DEF same
      <4> QED
        BY <3>2, <4>1, MinIs
    <3> QED
      BY <3>3 DEF m
  <2> HIDE DEF m
  <2>3. m \in 1..Len(t) /\ t[m].key = use.key
    BY <1>3, <2>2
  <2>4. /\ u \in Seq(Use) /\ Len(u) = Len(t)
        /\ \A i \in 1..Len(t) : u[i] = IF i = m THEN use ELSE t[i]
    BY <2>3, ExceptSeq
  <2> HIDE DEF u
  <2>5. Keys(u) = Keys(t)
    <3>1. /\ Keys(u) \in Seq(STRING) /\ Keys(t) \in Seq(STRING)
          /\ Len(Keys(u)) = Len(t) /\ Len(Keys(t)) = Len(t)
          /\ \A i \in 1..Len(t) : Keys(u)[i] = u[i].key
      BY <2>4, KeysAre
    <3>2. \A i \in 1..Len(t) : Keys(u)[i] = Keys(t)[i]
      BY <1>3, <2>3, <2>4, <3>1
    <3> QED
      BY <3>1, <3>2, SeqEqual
  <2>6. keys = Keys(t)
    BY <1>4, <1>7
  <2>7. ASSUME NEW v \in ToSet(u) PROVE v = LastUse(after, v.key)
    <3>1. PICK i \in 1..Len(t) : v = u[i]
      BY <2>4, LenProperties DEF ToSet
    <3>2. CASE i = m
      BY <1>1, <2>4, <3>1, <3>2
    <3>3. CASE i # m
      <4>1. v = t[i] /\ v \in ToSet(t)
        BY <1>3, <2>4, <3>1, <3>3 DEF ToSet
      <4>2. t[i].key # use.key
        <5>1. /\ Keys(t) \in Seq(STRING) /\ Keys(given) \in Seq(STRING)
              /\ Len(Keys(t)) = Len(t) /\ OnceEach(Keys(t), Keys(given), {})
          BY KeysAre DEF UsesOf
        <5>2. IndexIn(Keys(t), Keys(t)[i]) = i /\ IndexIn(Keys(t), Keys(t)[m]) = m
          BY <2>3, <5>1, OnceEachDistinct
        <5> QED
          BY <1>3, <2>3, <3>3, <5>2
      <4> QED
        BY <1>5, <4>1, <4>2
    <3> QED
      BY <3>2, <3>3
  <2> HIDE DEF keys, same, after
  <2>8. UsesOf(u, after)
    BY <1>2, <2>5, <2>6, <2>7 DEF UsesOf
  <2> QED
    BY <2>1, <2>4, <2>8 DEF after
<1> QED
  BY <1>6, <1>7

(* mergeRuntimeMiddlewares: each use of both, with the last in its place.  *)
UsesFolding(f, uses) ==
  f = [n \in 0..Len(uses) |-> IF n = 0 THEN << >> ELSE appendUse(f[n - 1], uses[n])]

LEMMA AppendUseType ==
  ASSUME NEW t \in Seq(Use), NEW use \in Use
  PROVE  appendUse(t, use) \in Seq(Use)
<1> DEFINE same == {i \in DOMAIN t : t[i].key = use.key}
<1>1. CASE same = {}
  BY <1>1, AppendProperties DEF appendUse
<1>2. CASE same # {}
  <2>1. same \in SUBSET Nat /\ same \in SUBSET Int /\ same \subseteq 1..Len(t)
    BY LenProperties
  <2>2. appendUse(t, use) = [t EXCEPT ![Min(same)] = use]
    BY <1>2 DEF appendUse
  <2> HIDE DEF same
  <2>3. PICK n \in same : \A k \in same : n <= k
    BY <1>2, <2>1, LeastNumber
  <2>4. Min(same) = n /\ n \in 1..Len(t)
    BY <2>1, <2>3, MinIs
  <2>5. [t EXCEPT ![n] = use] \in Seq(Use)
    BY <2>4, ExceptSeq
  <2> QED
    BY <2>2, <2>4, <2>5
<1> QED
  BY <1>1, <1>2

LEMMA UsesFoldingExists ==
  ASSUME NEW uses \in Seq(Use)
  PROVE  \E f : UsesFolding(f, uses)
<1> DEFINE S == Seq(Use)
           step == [p \in S \X Use |-> appendUse(p[1], p[2])]
<1>1. << >> \in S /\ \A out \in S, x \in Use : appendUse(out, x) \in S
  BY AppendUseType
<1>2. step \in [S \X Use -> S]
  <2> HIDE DEF S
  <2> QED
    BY <1>1
<1>3. \A out \in S, x \in Use : step[<<out, x>>] = appendUse(out, x)
  OBVIOUS
<1> HIDE DEF S, step
<1>4. PICK f \in [0..Len(uses) -> S] : Folding(f, step, << >>, uses)
  BY <1>1, <1>2, FoldingExists
<1>5. ASSUME NEW n \in 0..Len(uses), n # 0
      PROVE  step[<<f[n - 1], uses[n]>>] = appendUse(f[n - 1], uses[n])
  <2>1. n - 1 \in 0..Len(uses) /\ n \in 1..Len(uses)
    BY <1>5, LenProperties
  <2>2. f[n - 1] \in S /\ uses[n] \in Use
    BY <1>4, <2>1
  <2> QED
    BY <1>3, <2>2
<1>6. f = [n \in 0..Len(uses) |-> IF n = 0 THEN << >> ELSE appendUse(f[n - 1], uses[n])]
  BY <1>4, <1>5 DEF Folding
<1> QED
  BY <1>6 DEF UsesFolding

UsesAfter(n, out, uses) ==
  out[n] \in Seq(Use) /\ UsesOf(out[n], SubSeq(uses, 1, n))

LEMMA UsesMerged ==
  ASSUME NEW base \in Seq(Use), NEW overlay \in Seq(Use)
  PROVE  /\ mergeRuntimeMiddlewares(base, overlay) \in Seq(Use)
         /\ UsesOf(mergeRuntimeMiddlewares(base, overlay), base \o overlay)
<1> DEFINE uses == base \o overlay
           out == CHOOSE f : UsesFolding(f, uses)
           Bad == {n \in 0..Len(uses) : ~UsesAfter(n, out, uses)}
<1>1. uses \in Seq(Use)
  BY ConcatProperties
<1>2. mergeRuntimeMiddlewares(base, overlay) = out[Len(uses)]
  BY DEF mergeRuntimeMiddlewares, UsesFolding
<1>3. UsesFolding(out, uses)
  BY <1>1, UsesFoldingExists
<1> HIDE DEF uses
<1>4. Len(uses) \in Nat
  BY <1>1, LenProperties
<1>5. \A n \in 0..Len(uses) :
        out[n] = IF n = 0 THEN << >> ELSE appendUse(out[n - 1], uses[n])
  BY <1>3 DEF UsesFolding
<1> HIDE DEF out
<1>6. ASSUME Bad # {} PROVE FALSE
  <2>1. PICK n \in Bad : \A k \in Bad : n <= k
    <3>1. Bad \in SUBSET Nat
      BY <1>4
    <3> HIDE DEF Bad
    <3> QED
      BY <1>6, <3>1, LeastNumber
  <2>2. CASE n = 0
    <3>1. out[0] = << >> /\ SubSeq(uses, 1, 0) = << >>
      BY <1>1, <1>4, <1>5, Beginnings
    <3>2. UsesOf(<< >>, << >>) /\ << >> \in Seq(Use)
      BY DEF UsesOf, OnceEach, ToSet, Keys
    <3> QED
      BY <2>1, <2>2, <3>1, <3>2 DEF UsesAfter
  <2>3. CASE n # 0
    <3>1. n - 1 \in 0..Len(uses) /\ n \in 1..Len(uses) /\ ~(n <= n - 1)
      BY <1>4, <2>1, <2>3
    <3>2. n - 1 \notin Bad
      BY <2>1, <3>1
    <3>3. UsesAfter(n - 1, out, uses)
      BY <3>1, <3>2
    <3>4. /\ SubSeq(uses, 1, n - 1) \in Seq(Use) /\ uses[n] \in Use
          /\ SubSeq(uses, 1, n) = Append(SubSeq(uses, 1, n - 1), uses[n])
      BY <1>1, <3>1, Beginnings
    <3>5. out[n] = appendUse(out[n - 1], uses[n])
      BY <1>5, <2>3, <3>1
    <3>6. UsesAfter(n, out, uses)
      BY <3>3, <3>4, <3>5, AppendUseKeeps DEF UsesAfter
    <3> QED
      BY <2>1, <3>6
  <2> QED
    BY <2>2, <2>3
<1>7. UsesAfter(Len(uses), out, uses)
  BY <1>4, <1>6
<1>8. UsesOf(out[Len(uses)], uses)
  BY <1>1, <1>7, Beginnings DEF UsesAfter
<1> QED
  BY <1>2, <1>7, <1>8 DEF UsesAfter, uses

(* Merging a stack and then one more is merging one stack.                 *)
LEMMA UsesOfJoined ==
  ASSUME NEW flat \in Seq(Use), NEW t \in Seq(Use), NEW o \in Seq(Use), NEW u \in Seq(Use),
         t = flat \/ UsesOf(t, flat), UsesOf(u, t \o o)
  PROVE  UsesOf(u, flat \o o)
<1>1. CASE t = flat
  BY <1>1
<1>2. CASE UsesOf(t, flat)
  <2>1. /\ t \o o \in Seq(Use) /\ flat \o o \in Seq(Use)
        /\ Keys(t \o o) = Keys(t) \o Keys(o) /\ Keys(flat \o o) = Keys(flat) \o Keys(o)
        /\ Keys(t) \in Seq(STRING) /\ Keys(flat) \in Seq(STRING)
        /\ Keys(o) \in Seq(STRING) /\ Keys(u) \in Seq(STRING)
    BY KeysJoined, KeysAre, ConcatProperties
  <2>2. OnceEach(Keys(u), Keys(flat \o o), {})
    <3>1. OnceEach(Keys(t), Keys(flat), {}) /\ OnceEach(Keys(u), Keys(t) \o Keys(o), {})
      BY <1>2, <2>1 DEF UsesOf
    <3>2. OnceEach(Keys(u), Keys(flat) \o Keys(o), {})
      BY <2>1, <3>1, OnceEachJoined
    <3> QED
      BY <2>1, <3>2
  <2>3. ASSUME NEW use \in ToSet(u) PROVE use = LastUse(flat \o o, use.key)
    <3>1. use = LastUse(t \o o, use.key) /\ use.key \in ToSet(Keys(t \o o))
      BY <2>1, UsesHaveKeys DEF UsesOf
    <3>2. CASE use.key \in ToSet(Keys(o))
      BY <3>1, <3>2, LastUseJoined
    <3>3. CASE use.key \notin ToSet(Keys(o))
      <4>1. use.key \in ToSet(Keys(t))
        BY <2>1, <3>1, <3>3, JoinedSet
      <4>2. use = LastUse(t, use.key)
        BY <3>1, <3>3, <4>1, LastUseJoined
      <4>3. use \in ToSet(t)
        BY <4>1, <4>2, LastUseExists
      <4>4. use = LastUse(flat, use.key) /\ use.key \in ToSet(Keys(flat))
        BY <1>2, <4>3, UsesHaveKeys DEF UsesOf
      <4> QED
        BY <3>3, <4>4, LastUseJoined
    <3> QED
      BY <3>2, <3>3
  <2> QED
    BY <2>2, <2>3 DEF UsesOf
<1> QED
  BY <1>1, <1>2

(* FlattenSeq, of two sequences or more and of fewer.                      *)
Flattening(seqs, f) ==
  f = [i \in 1..Len(seqs) |-> IF i = 1 THEN seqs[i] ELSE f[i - 1] \o seqs[i]]

Joins(seqs, f) ==
  /\ FlattenSeq(seqs) = f[Len(seqs)]
  /\ \A i \in 1..Len(seqs) : f[i] = IF i = 1 THEN seqs[i] ELSE f[i - 1] \o seqs[i]

(* There is a sequence of the beginnings, joined, of sequences.            *)
LEMMA FlatteningExists ==
  ASSUME NEW S, NEW seqs \in Seq(Seq(S))
  PROVE  \E f \in [1..Len(seqs) -> Seq(S)] : Flattening(seqs, f)
<1> DEFINE Good(n, f) == \A i \in 1..n : f[i] = IF i = 1 THEN seqs[i] ELSE f[i - 1] \o seqs[i]
           Bad == {n \in 0..Len(seqs) : ~\E f \in [1..n -> Seq(S)] : Good(n, f)}
<1>1. ASSUME Bad # {} PROVE FALSE
  <2>1. PICK n \in Bad : \A k \in Bad : n <= k
    <3>1. Bad \in SUBSET Nat
      OBVIOUS
    <3> HIDE DEF Bad
    <3> QED
      BY <1>1, <3>1, LeastNumber
  <2>2. n # 0
    <3> SUFFICES ASSUME n = 0 PROVE FALSE
      OBVIOUS
    <3> DEFINE f == [i \in 1..0 |-> << >>]
    <3>1. f \in [1..0 -> Seq(S)] /\ Good(0, f)
      OBVIOUS
    <3> QED
      BY <2>1, <3>1
  <2>3. PICK k \in Nat : n = k + 1 /\ k < Len(seqs)
    <3>1. n \in 0..Len(seqs) /\ Len(seqs) \in Nat
      BY <2>1
    <3>2. n - 1 \in Nat /\ n = (n - 1) + 1 /\ n - 1 < Len(seqs)
      BY <2>2, <3>1
    <3> QED
      BY <3>2
  <2>4. PICK f \in [1..k -> Seq(S)] : Good(k, f)
    <3>1. k \notin Bad
      BY <2>1, <2>3
    <3>2. k \in 0..Len(seqs)
      BY <2>3
    <3> QED
      BY <3>1, <3>2
  <2> DEFINE next == IF n = 1 THEN seqs[n] ELSE f[k] \o seqs[n]
             g == [i \in 1..n |-> IF i = n THEN next ELSE f[i]]
  <2>5. next \in Seq(S)
    <3>1. seqs[n] \in Seq(S)
      BY <2>1, <2>2
    <3>2. CASE n = 1
      BY <3>1, <3>2
    <3>3. CASE n # 1
      <4>1. f[k] \in Seq(S)
        BY <2>3, <2>4, <3>3
      <4> QED
        BY <3>1, <3>3, <4>1, ConcatProperties
    <3> QED
      BY <3>2, <3>3
  <2>6. g[n] = next /\ \A i \in 1..k : g[i] = f[i]
    <3>1. n \in 1..n /\ \A i \in 1..k : i \in 1..n /\ i # n
      BY <2>3
    <3> HIDE DEF next
    <3> QED
      BY <3>1
  <2>7. g \in [1..n -> Seq(S)]
    <3> HIDE DEF next
    <3> QED
      BY <2>3, <2>4, <2>5
  <2>8. ASSUME NEW i \in 1..n
        PROVE  g[i] = IF i = 1 THEN seqs[i] ELSE g[i - 1] \o seqs[i]
    <3> HIDE DEF g
    <3>1. CASE i = n
      <4>1. CASE n = 1
        BY <2>6, <3>1, <4>1
      <4>2. CASE n # 1
        <5>1. k \in 1..k /\ i - 1 = k
          BY <2>3, <3>1, <4>2
        <5> QED
          BY <2>6, <3>1, <4>2, <5>1
      <4> QED
        BY <4>1, <4>2
    <3>2. CASE i # n
      <4>1. i \in 1..k /\ (i # 1 => i - 1 \in 1..k)
        BY <2>3, <3>2
      <4> QED
        BY <2>4, <2>6, <4>1
    <3> QED
      BY <3>1, <3>2
  <2> HIDE DEF g
  <2> QED
    BY <2>1, <2>7, <2>8
<1>2. Len(seqs) \in 0..Len(seqs)
  OBVIOUS
<1>3. PICK f \in [1..Len(seqs) -> Seq(S)] : Good(Len(seqs), f)
  BY <1>1, <1>2
<1>4. Flattening(seqs, f)
  BY <1>3 DEF Flattening
<1> QED
  BY <1>4

LEMMA FlattenSeqIs ==
  ASSUME NEW S, NEW seqs \in Seq(Seq(S)), Len(seqs) # 0
  PROVE  \E f \in [1..Len(seqs) -> Seq(S)] : Joins(seqs, f)
<1> DEFINE f == CHOOSE g : Flattening(seqs, g)
<1>1. FlattenSeq(seqs) = f[Len(seqs)]
  BY DEF FlattenSeq, Flattening
<1>2. Flattening(seqs, f)
  BY FlatteningExists
<1> HIDE DEF f
<1>3. \A i \in 1..Len(seqs) : f[i] = IF i = 1 THEN seqs[i] ELSE f[i - 1] \o seqs[i]
  BY <1>2 DEF Flattening
<1>4. PICK h \in [1..Len(seqs) -> Seq(S)] : Flattening(seqs, h)
  BY FlatteningExists
<1>5. ASSUME NEW j \in 1..Len(seqs), f[j] \notin Seq(S)
      PROVE  FALSE
  <2> DEFINE Bad == {i \in 1..Len(seqs) : f[i] \notin Seq(S)}
  <2>1. Bad \in SUBSET Nat
    OBVIOUS
  <2>2. Bad # {}
    BY <1>5
  <2>3. PICK i \in Bad : \A k \in Bad : i <= k
    <3> HIDE DEF Bad
    <3> QED
      BY <2>1, <2>2, LeastNumber
  <2>4. seqs[i] \in Seq(S) /\ i \in 1..Len(seqs) /\ f[i] \notin Seq(S)
    BY <2>3
  <2>5. CASE i = 1
    BY <1>3, <2>4, <2>5
  <2>6. CASE i # 1
    <3>1. i - 1 \in 1..Len(seqs) /\ i - 1 < i
      BY <2>4, <2>6
    <3>2. f[i - 1] \in Seq(S)
      BY <2>3, <3>1
    <3> QED
      BY <1>3, <2>4, <2>6, <3>2, ConcatProperties
  <2> QED
    BY <2>5, <2>6
<1>6. f \in [1..Len(seqs) -> Seq(S)]
  BY <1>2, <1>5 DEF Flattening
<1> QED
  BY <1>1, <1>3, <1>6 DEF Joins

(* Sequences, joined, have the elements they had.                          *)
LEMMA FlattenSeqType ==
  ASSUME NEW S, NEW seqs \in Seq(Seq(S))
  PROVE  FlattenSeq(seqs) \in Seq(S)
<1>1. CASE Len(seqs) = 0
  <2>1. FlattenSeq(seqs) = << >> /\ << >> \in Seq(S)
    BY <1>1 DEF FlattenSeq
  <2> QED
    BY <2>1
<1>2. CASE Len(seqs) # 0
  <2>1. PICK f \in [1..Len(seqs) -> Seq(S)] : Joins(seqs, f)
    BY <1>2, FlattenSeqIs
  <2>2. Len(seqs) \in 1..Len(seqs)
    BY <1>2
  <2> QED
    BY <2>1, <2>2 DEF Joins
<1> QED
  BY <1>1, <1>2

LEMMA FlattenOne ==
  ASSUME NEW S, NEW seqs \in Seq(Seq(S)), Len(seqs) = 1
  PROVE  FlattenSeq(seqs) = seqs[1]
<1>1. PICK f \in [1..Len(seqs) -> Seq(S)] : Joins(seqs, f)
  <2>1. Len(seqs) # 0
    OBVIOUS
  <2> QED
    BY <2>1, FlattenSeqIs
<1> QED
  BY <1>1 DEF Joins

(* One sequence more.                                                      *)
LEMMA FlattenAppend ==
  ASSUME NEW S, NEW seqs \in Seq(Seq(S)), NEW s \in Seq(S), Len(seqs) # 0
  PROVE  FlattenSeq(Append(seqs, s)) = FlattenSeq(seqs) \o s
<1> DEFINE more == Append(seqs, s)
           Bad(f, g) == {i \in 1..Len(seqs) : f[i] # g[i]}
<1>1. /\ more \in Seq(Seq(S)) /\ Len(more) = Len(seqs) + 1 /\ Len(more) # 0
      /\ \A i \in 1..Len(seqs) : more[i] = seqs[i]
      /\ more[Len(seqs) + 1] = s
      /\ Len(seqs) \in Nat /\ Len(seqs) \in 1..Len(seqs)
  <2>1. /\ more \in Seq(Seq(S)) /\ Len(more) = Len(seqs) + 1
        /\ \A i \in 1..Len(seqs) : more[i] = seqs[i]
        /\ more[Len(seqs) + 1] = s
    BY AppendProperties
  <2>2. Len(seqs) \in Nat
    BY LenProperties
  <2> HIDE DEF more
  <2> QED
    BY <2>1, <2>2
<1> HIDE DEF more
<1>2. PICK f \in [1..Len(seqs) -> Seq(S)] : Joins(seqs, f)
  BY FlattenSeqIs
<1>3. PICK g \in [1..Len(more) -> Seq(S)] : Joins(more, g)
  BY <1>1, FlattenSeqIs
<1>4. ASSUME Bad(f, g) # {} PROVE FALSE
  <2>1. PICK n \in Bad(f, g) : \A k \in Bad(f, g) : n <= k
    <3>1. Bad(f, g) \in SUBSET Nat
      OBVIOUS
    <3> HIDE DEF Bad
    <3> QED
      BY <1>4, <3>1, LeastNumber
  <2>2. n \in 1..Len(seqs) /\ n \in 1..Len(more) /\ f[n] # g[n] /\ more[n] = seqs[n]
    BY <1>1, <2>1
  <2>3. CASE n = 1
    BY <1>2, <1>3, <2>2, <2>3 DEF Joins
  <2>4. CASE n # 1
    <3>1. n - 1 \in 1..Len(seqs) /\ ~(n <= n - 1)
      <4>1. n \in 1..Len(seqs) /\ Len(seqs) \in Nat
        BY <1>1, <2>2
      <4> QED
        BY <2>4, <4>1
    <3>2. f[n - 1] = g[n - 1]
      BY <2>1, <3>1
    <3>3. f[n] = f[n - 1] \o seqs[n] /\ g[n] = g[n - 1] \o more[n]
      BY <1>2, <1>3, <2>2, <2>4 DEF Joins
    <3> QED
      BY <2>2, <3>2, <3>3
  <2> QED
    BY <2>3, <2>4
<1>5. f[Len(seqs)] = g[Len(seqs)]
  BY <1>1, <1>4
<1>6. FlattenSeq(more) = g[Len(seqs) + 1] /\ FlattenSeq(seqs) = f[Len(seqs)]
  BY <1>1, <1>2, <1>3 DEF Joins
<1>7. g[Len(seqs) + 1] = g[Len(seqs)] \o s
  <2> DEFINE k == Len(seqs)
  <2>1. k + 1 \in 1..Len(more) /\ k + 1 # 1 /\ (k + 1) - 1 = k
    BY <1>1
  <2>2. g[k + 1] = g[(k + 1) - 1] \o more[k + 1]
    BY <1>3, <2>1 DEF Joins
  <2> QED
    BY <1>1, <2>1, <2>2
<1> QED
  BY <1>5, <1>6, <1>7 DEF more

-----------------------------------------------------------------------------
(* A stack and one layer more *)

LEMMA LayerMore ==
  ASSUME NEW layers \in Seq(Runtime), NEW o \in Runtime
  PROVE  /\ Append(layers, o) \in Seq(Runtime) /\ Len(Append(layers, o)) = Len(layers) + 1
         /\ Len(layers) \in Nat
         /\ DOMAIN layers = 1..Len(layers) /\ DOMAIN Append(layers, o) = 1..(Len(layers) + 1)
         /\ \A i \in 1..Len(layers) : Append(layers, o)[i] = layers[i] /\ layers[i] \in Runtime
         /\ Append(layers, o)[Len(layers) + 1] = o
BY AppendProperties, LenProperties

Prompts(layers, i) == layers[i].prompt # ""

LEMMA PromptMore ==
  ASSUME NEW layers \in Seq(Runtime), NEW o \in Runtime
  PROVE  LastPrompt(Append(layers, o))
           = IF o.prompt # "" THEN o.prompt ELSE LastPrompt(layers)
<1> DEFINE more == Append(layers, o)
           prompts == {i \in DOMAIN layers : Prompts(layers, i)}
           prompts2 == {i \in DOMAIN more : Prompts(more, i)}
<1>1. PICK k \in Nat :
        /\ DOMAIN layers = 1..k /\ DOMAIN more = 1..(k + 1)
        /\ \A i \in 1..k : more[i] = layers[i]
        /\ more[k + 1] = o
  BY LayerMore
<1>2. /\ LastPrompt(layers) = IF prompts = {} THEN "" ELSE layers[Max(prompts)].prompt
      /\ LastPrompt(more) = IF prompts2 = {} THEN "" ELSE more[Max(prompts2)].prompt
  BY DEF LastPrompt, Prompts
<1> HIDE DEF more
<1>3. /\ \A i \in 1..k : Prompts(more, i) <=> Prompts(layers, i)
      /\ Prompts(more, k + 1) <=> o.prompt # ""
  BY <1>1 DEF Prompts
<1>4. prompts = {i \in 1..k : Prompts(layers, i)}
  BY <1>1
<1>5. prompts2 = {i \in 1..(k + 1) : Prompts(more, i)}
  BY <1>1
<1>6. ASSUME o.prompt # "" PROVE k + 1 \in prompts2
  <2>1. Prompts(more, k + 1)
    BY <1>3, <1>6
  <2>2. k + 1 \in 1..(k + 1)
    BY <1>1
  <2> QED
    BY <1>5, <2>1, <2>2
<1>7. prompts2 \in SUBSET Int /\ \A i \in prompts2 : i <= k + 1
  BY <1>5
<1>8. CASE o.prompt # ""
  <2>1. /\ k + 1 \in prompts2 /\ prompts2 \in SUBSET Int
        /\ \A i \in prompts2 : i <= k + 1
    BY <1>8, <1>6, <1>7
  <2> HIDE DEF prompts2
  <2>2. Max(prompts2) = k + 1
    BY <2>1, MaxIs
  <2>3. prompts2 # {}
    BY <2>1
  <2>4. LastPrompt(more) = more[k + 1].prompt
    BY <1>2, <2>2, <2>3
  <2>5. LastPrompt(more) = o.prompt
    BY <1>1, <2>4
  <2> QED
    BY <1>8, <2>5 DEF more
<1>9. CASE o.prompt = ""
  <2>1. prompts2 = prompts
    <3>1. ~Prompts(more, k + 1)
      BY <1>9, <1>3
    <3>2. \A i \in 1..(k + 1) : i \in 1..k \/ i = k + 1
      BY <1>1
    <3>3. \A i \in 1..k : i \in 1..(k + 1)
      OBVIOUS
    <3>4. ASSUME NEW i \in prompts2 PROVE i \in prompts
      BY <1>3, <1>4, <1>5, <3>1, <3>2
    <3>5. ASSUME NEW i \in prompts PROVE i \in prompts2
      BY <1>3, <1>4, <1>5, <3>3
    <3> QED
      BY <3>4, <3>5
  <2>2. CASE prompts = {}
    BY <1>2, <1>9, <2>1, <2>2 DEF more
  <2>3. CASE prompts # {}
    <3>1. PICK n \in prompts : \A i \in prompts : i <= n
      <4>1. prompts \in SUBSET Nat /\ \A i \in prompts : i <= k
        BY <1>1
      <4> HIDE DEF prompts
      <4> QED
        BY <1>1, <2>3, <4>1, GreatestNumber
    <3>2. n \in 1..k /\ prompts \in SUBSET Int
      BY <1>1
    <3> HIDE DEF prompts, prompts2
    <3>3. Max(prompts) = n
      BY <3>1, <3>2, MaxIs
    <3>4. LastPrompt(layers) = layers[n].prompt /\ LastPrompt(more) = more[n].prompt
      BY <1>2, <2>1, <2>3, <3>3
    <3>5. LastPrompt(more) = LastPrompt(layers)
      BY <1>1, <3>2, <3>4
    <3> QED
      BY <1>9, <3>5 DEF more
  <2> QED
    BY <2>2, <2>3
<1> QED
  BY <1>8, <1>9

LEMMA PromptOne ==
  ASSUME NEW layers \in Seq(Runtime), Len(layers) = 1
  PROVE  LastPrompt(layers) = layers[1].prompt
<1> DEFINE prompts == {i \in DOMAIN layers : Prompts(layers, i)}
<1>1. DOMAIN layers = {1}
  BY LenProperties
<1>2. LastPrompt(layers) = IF prompts = {} THEN "" ELSE layers[Max(prompts)].prompt
  BY DEF LastPrompt, Prompts
<1>3. CASE layers[1].prompt = ""
  <2>1. prompts = {}
    BY <1>1, <1>3 DEF Prompts
  <2> QED
    BY <1>2, <1>3, <2>1
<1>4. CASE layers[1].prompt # ""
  <2>1. prompts = {1}
    BY <1>1, <1>4 DEF Prompts
  <2> HIDE DEF prompts
  <2>2. 1 \in prompts /\ prompts \in SUBSET Int /\ \A i \in prompts : i <= 1
    BY <2>1
  <2>3. Max(prompts) = 1
    BY <2>2, MaxIs
  <2> QED
    BY <1>2, <2>2, <2>3
<1> QED
  BY <1>3, <1>4

(* What the layers have, together.                                         *)
LEMMA FieldsMore ==
  ASSUME NEW layers \in Seq(Runtime), NEW o \in Runtime, Len(layers) # 0
  PROVE  /\ Tools(layers) \in Seq(STRING) /\ Uses(layers) \in Seq(Use)
         /\ Tools(Append(layers, o)) = Tools(layers) \o o.tools
         /\ Uses(Append(layers, o)) = Uses(layers) \o o.middlewares
         /\ Len(layers) = 1 =>
              Tools(layers) = layers[1].tools /\ Uses(layers) = layers[1].middlewares
<1> DEFINE more == Append(layers, o)
           t == [i \in DOMAIN layers |-> layers[i].tools]
           t2 == [i \in DOMAIN more |-> more[i].tools]
           u == [i \in DOMAIN layers |-> layers[i].middlewares]
           u2 == [i \in DOMAIN more |-> more[i].middlewares]
<1>1. /\ Len(layers) \in Nat
      /\ DOMAIN layers = 1..Len(layers) /\ DOMAIN more = 1..(Len(layers) + 1)
      /\ \A i \in 1..Len(layers) : more[i] = layers[i] /\ layers[i] \in Runtime
      /\ more[Len(layers) + 1] = o
  BY LayerMore
<1> HIDE DEF more
<1>2. \A r \in Runtime : r.tools \in Seq(STRING) /\ r.middlewares \in Seq(Use)
  BY DEF Runtime
<1>3. /\ t \in [1..Len(layers) -> Seq(STRING)] /\ u \in [1..Len(layers) -> Seq(Use)]
      /\ t \in Seq(Seq(STRING)) /\ u \in Seq(Seq(Use))
      /\ Len(t) = Len(layers) /\ Len(u) = Len(layers)
      /\ \A i \in 1..Len(layers) : t[i] = layers[i].tools /\ u[i] = layers[i].middlewares
  BY <1>1, <1>2
<1>4. t2 = Append(t, o.tools)
  <2>1. /\ t2 \in Seq(Seq(STRING)) /\ Len(t2) = Len(layers) + 1
        /\ \A i \in 1..(Len(layers) + 1) : t2[i] = more[i].tools
    <3>1. \A i \in 1..(Len(layers) + 1) : more[i] \in Runtime
      BY <1>1
    <3>2. \A i \in 1..(Len(layers) + 1) : more[i].tools \in Seq(STRING)
      BY <1>2, <3>1
    <3> QED
      BY <1>1, <3>2
  <2>2. o.tools \in Seq(STRING)
    BY <1>2
  <2> HIDE DEF t, t2
  <2> DEFINE a == Append(t, o.tools)
  <2>3. /\ a \in Seq(Seq(STRING)) /\ Len(a) = Len(layers) + 1
        /\ \A i \in 1..Len(layers) : a[i] = t[i]
        /\ a[Len(layers) + 1] = o.tools
    BY <1>3, <2>2, AppendProperties
  <2> HIDE DEF a
  <2>4. ASSUME NEW i \in 1..(Len(layers) + 1) PROVE t2[i] = a[i]
    <3>1. i \in 1..Len(layers) \/ i = Len(layers) + 1
      BY <1>1
    <3> QED
      BY <1>1, <1>3, <2>1, <2>3, <3>1
  <2>5. t2 = a
    BY <2>1, <2>3, <2>4, SeqEqual
  <2> QED
    BY <2>5 DEF a
<1>5. u2 = Append(u, o.middlewares)
  <2>1. /\ u2 \in Seq(Seq(Use)) /\ Len(u2) = Len(layers) + 1
        /\ \A i \in 1..(Len(layers) + 1) : u2[i] = more[i].middlewares
    <3>1. \A i \in 1..(Len(layers) + 1) : more[i] \in Runtime
      BY <1>1
    <3>2. \A i \in 1..(Len(layers) + 1) : more[i].middlewares \in Seq(Use)
      BY <1>2, <3>1
    <3> QED
      BY <1>1, <3>2
  <2>2. o.middlewares \in Seq(Use)
    BY <1>2
  <2> HIDE DEF u, u2
  <2> DEFINE a == Append(u, o.middlewares)
  <2>3. /\ a \in Seq(Seq(Use)) /\ Len(a) = Len(layers) + 1
        /\ \A i \in 1..Len(layers) : a[i] = u[i]
        /\ a[Len(layers) + 1] = o.middlewares
    BY <1>3, <2>2, AppendProperties
  <2> HIDE DEF a
  <2>4. ASSUME NEW i \in 1..(Len(layers) + 1) PROVE u2[i] = a[i]
    <3>1. i \in 1..Len(layers) \/ i = Len(layers) + 1
      BY <1>1
    <3> QED
      BY <1>1, <1>3, <2>1, <2>3, <3>1
  <2>5. u2 = a
    BY <2>1, <2>3, <2>4, SeqEqual
  <2> QED
    BY <2>5 DEF a
<1>6. /\ Tools(layers) = FlattenSeq(t) /\ Tools(more) = FlattenSeq(t2)
      /\ Uses(layers) = FlattenSeq(u) /\ Uses(more) = FlattenSeq(u2)
  BY DEF Tools, Uses
<1> HIDE DEF t, t2, u, u2
<1>7. o.tools \in Seq(STRING) /\ o.middlewares \in Seq(Use)
  BY <1>2
<1>8. Len(t) # 0 /\ Len(u) # 0
  BY <1>3
<1>9. FlattenSeq(t) \in Seq(STRING) /\ FlattenSeq(u) \in Seq(Use)
  BY <1>3, FlattenSeqType
<1>10. /\ FlattenSeq(Append(t, o.tools)) = FlattenSeq(t) \o o.tools
       /\ FlattenSeq(Append(u, o.middlewares)) = FlattenSeq(u) \o o.middlewares
  BY <1>3, <1>7, <1>8, FlattenAppend
<1>11. ASSUME Len(layers) = 1
       PROVE  FlattenSeq(t) = layers[1].tools /\ FlattenSeq(u) = layers[1].middlewares
  <2>1. FlattenSeq(t) = t[1] /\ FlattenSeq(u) = u[1]
    <3>1. Len(t) = 1 /\ Len(u) = 1
      BY <1>3, <1>11
    <3> QED
      BY <1>3, <3>1, FlattenOne
  <2> QED
    BY <1>3, <1>11, <2>1
<1> QED
  BY <1>4, <1>5, <1>6, <1>9, <1>10, <1>11 DEF more

(* What layers give so far: nothing, the one there is, or their merge.     *)
PlanOf(r, layers) ==
  IF Len(layers) = 0 THEN r = None
  ELSE r \in Runtime /\ IF Len(layers) = 1 THEN r = layers[1] ELSE Stacks(r, layers)

LEMMA StacksIs ==
  ASSUME NEW r, NEW layers
  PROVE  Stacks(r, layers) <=>
           /\ r.prompt = LastPrompt(layers)
           /\ OnceEach(r.tools, Tools(layers), {""})
           /\ UsesOf(r.middlewares, Uses(layers))
BY DEF Stacks, UsesOf

LEMMA RuntimesAreSome ==
  ASSUME NEW r \in Runtime
  PROVE  r # None /\ r = [prompt |-> r.prompt, middlewares |-> r.middlewares, tools |-> r.tools]
<1>1. r = [prompt |-> r.prompt, middlewares |-> r.middlewares, tools |-> r.tools]
  BY DEF Runtime
<1>2. [prompt |-> r.prompt, middlewares |-> r.middlewares, tools |-> r.tools] # None
  BY DEF None
<1> QED
  BY <1>1, <1>2, Zenon

LEMMA MergeStacks ==
  ASSUME NEW layers \in Seq(Runtime), NEW r, PlanOf(r, layers), NEW o \in Runtime
  PROVE  PlanOf(MergeProfileRuntime(r, o), Append(layers, o))
<1>1. o # None
  BY RuntimesAreSome
<1>2. /\ Append(layers, o) \in Seq(Runtime) /\ Len(Append(layers, o)) = Len(layers) + 1
      /\ Len(layers) \in Nat /\ Append(layers, o)[Len(layers) + 1] = o
  BY LayerMore
<1>3. CASE Len(layers) = 0
  <2>1. MergeProfileRuntime(r, o) = o
    BY <1>3 DEF PlanOf, MergeProfileRuntime
  <2>2. Len(Append(layers, o)) = 1 /\ Append(layers, o)[1] = o
    BY <1>2, <1>3
  <2> QED
    BY <2>1, <2>2 DEF PlanOf
<1>4. CASE Len(layers) # 0
  <2> DEFINE m == MergeProfileRuntime(r, o)
  <2>1. r \in Runtime /\ r # None
    BY <1>4, RuntimesAreSome DEF PlanOf
  <2>2. /\ r.prompt \in STRING /\ r.tools \in Seq(STRING) /\ r.middlewares \in Seq(Use)
        /\ o.prompt \in STRING /\ o.tools \in Seq(STRING) /\ o.middlewares \in Seq(Use)
    BY <2>1 DEF Runtime
  <2>3. m = [prompt |-> IF o.prompt # "" THEN o.prompt ELSE r.prompt,
             middlewares |-> mergeRuntimeMiddlewares(r.middlewares, o.middlewares),
             tools |-> mergeRuntimeTools(r.tools, o.tools)]
    BY <1>1, <2>1 DEF MergeProfileRuntime
  <2>4. /\ m.prompt = IF o.prompt # "" THEN o.prompt ELSE r.prompt
        /\ m.middlewares = mergeRuntimeMiddlewares(r.middlewares, o.middlewares)
        /\ m.tools = mergeRuntimeTools(r.tools, o.tools)
    <3> HIDE DEF m
    <3> QED
      BY <2>3
  <2>5. /\ m.tools \in Seq(STRING) /\ OnceEach(m.tools, r.tools \o o.tools, {""})
        /\ m.middlewares \in Seq(Use) /\ UsesOf(m.middlewares, r.middlewares \o o.middlewares)
    BY <2>2, <2>4, ToolsMerged, UsesMerged
  <2>6. m.prompt \in STRING
    BY <2>2, <2>4
  <2>7. m \in Runtime
    <3>1. m = [prompt |-> m.prompt, middlewares |-> m.middlewares, tools |-> m.tools]
      BY <2>3
    <3> HIDE DEF m
    <3> QED
      BY <2>5, <2>6, <3>1 DEF Runtime
  <2> HIDE DEF m
  <2>8. /\ Tools(layers) \in Seq(STRING) /\ Uses(layers) \in Seq(Use)
        /\ Tools(Append(layers, o)) = Tools(layers) \o o.tools
        /\ Uses(Append(layers, o)) = Uses(layers) \o o.middlewares
    BY <1>4, FieldsMore
  <2>9. /\ r.prompt = LastPrompt(layers)
        /\ r.tools = Tools(layers) \/ OnceEach(r.tools, Tools(layers), {""})
        /\ r.middlewares = Uses(layers) \/ UsesOf(r.middlewares, Uses(layers))
    <3>1. CASE Len(layers) = 1
      <4>1. r = layers[1]
        BY <1>4, <3>1 DEF PlanOf
      <4> QED
        BY <1>4, <3>1, <4>1, PromptOne, FieldsMore
    <3>2. CASE Len(layers) # 1
      <4>1. Stacks(r, layers)
        BY <1>4, <3>2 DEF PlanOf
      <4> QED
        BY <4>1, StacksIs
    <3> QED
      BY <3>1, <3>2
  <2>10. m.prompt = LastPrompt(Append(layers, o))
    BY <2>4, <2>9, PromptMore
  <2>11. OnceEach(m.tools, Tools(layers) \o o.tools, {""})
    BY <2>2, <2>5, <2>8, <2>9, OnceEachJoined
  <2>12. UsesOf(m.middlewares, Uses(layers) \o o.middlewares)
    BY <2>2, <2>5, <2>8, <2>9, UsesOfJoined
  <2>13. Stacks(m, Append(layers, o))
    BY <2>8, <2>10, <2>11, <2>12, StacksIs
  <2>14. Len(Append(layers, o)) # 0 /\ Len(Append(layers, o)) # 1
    BY <1>2, <1>4
  <2>15. PlanOf(m, Append(layers, o))
    BY <2>7, <2>13, <2>14 DEF PlanOf
  <2> QED
    BY <2>15 DEF m
<1> QED
  BY <1>3, <1>4

-----------------------------------------------------------------------------
(* Requests while their stack is read *)

Planned(q) ==
  /\ q.at \in {"overlay", "ensure"} => q.read \in Seq(Runtime)
  /\ q.at = "overlay" =>
       PlanOf(q.runtime, q.read) /\ q.rest \in Seq(Profiles) /\ q.rest # << >>
  /\ q.at = "ensure" =>
       PlanOf(q.runtime, q.read) \/ (Len(q.read) = 0 /\ q.runtime = Empty)
  /\ q.at \in {"ensure", "rebuild", "rekeyed", "refingered"} => q.runtime \in Runtime

PlanIInv ==
  /\ conv # None => conv.runtime \in Runtime
  /\ \A h \in Requests : Planned(request[h])

(* A request that goes on, and the conversation as it was or for it.       *)
LEMMA PlannedStep ==
  ASSUME PlanIInv, Handled, NEW h \in Requests, NEW q, Becomes(h, q), Planned(q),
         conv' # None => (conv' = conv \/ conv'.runtime \in Runtime)
  PROVE  PlanIInv'
<1>1. /\ request'[h] = q
      /\ \A g \in Requests : g # h => request'[g] = request[g]
  BY Becoming
<1>2. ASSUME NEW g \in Requests PROVE Planned(request'[g])
  <2>1. CASE g = h
    BY <1>1, <2>1
  <2>2. CASE g # h
    BY <1>1, <2>2 DEF PlanIInv
  <2> QED
    BY <2>1, <2>2
<1>3. conv' # None => conv'.runtime \in Runtime
  BY DEF PlanIInv
<1> QED
  BY <1>2, <1>3 DEF PlanIInv

LEMMA IdlePlanned == Planned(Idle("done")) /\ Planned(Idle("new"))
BY DEF Planned, Idle

LEMMA PlanInit == Init => PlanIInv
BY IdlePlanned DEF Init, PlanIInv

(* What the registry has for a profile.                                    *)
LEMMA EditionsHaveRuntimes ==
  ASSUME Editions, NEW p \in Profiles
  PROVE  Now(p).runtime \in Runtime \cup {None}
BY SelectionAssumption DEF Editions, Now

LEMMA SelectPlans ==
  ASSUME PlanIInv, Handled, NEW h \in Requests, Select(h)
  PROVE  PlanIInv'
<1>1. PICK slug : Becomes(h, IF slug \in Profiles THEN effectiveProfile(TRUE, slug)
                             ELSE Idle("done"))
                  \/ Becomes(h, IF slug \in Profiles THEN effectiveProfile(FALSE, slug)
                                ELSE Idle("done"))
  BY Zenon DEF Select
<1>2. conv' = conv
  BY DEF Select, conversation
<1>3. ASSUME NEW chat \in BOOLEAN, slug \in Profiles PROVE Planned(effectiveProfile(chat, slug))
  <2> DEFINE q == effectiveProfile(chat, slug)
  <2>1. q.at = "overlay" /\ q.read = << >> /\ q.runtime = None /\ q.rest = Lineage[slug]
    BY DEF effectiveProfile, Idle
  <2>2. Lineage[slug] \in Seq(Profiles) /\ Lineage[slug] # << >>
    BY <1>3, SelectionAssumption
  <2> HIDE DEF q
  <2>3. q.read \in Seq(Runtime) /\ PlanOf(q.runtime, q.read)
    BY <2>1 DEF PlanOf
  <2>4. Planned(q)
    BY <2>1, <2>2, <2>3 DEF Planned
  <2> QED
    BY <2>4 DEF q
<1>4. PICK q : Becomes(h, q) /\ Planned(q)
  BY <1>1, <1>3, IdlePlanned
<1> QED
  BY <1>2, <1>4, PlannedStep

(* The next layer is merged.                                               *)
LEMMA OverlayPlans ==
  ASSUME PlanIInv, Handled, Editions, NEW h \in Requests, Overlay(h)
  PROVE  PlanIInv'
<1> DEFINE p == request[h]
           overlay == Now(Head(p.rest)).runtime
           merged == MergeProfileRuntime(p.runtime, overlay)
           last == Len(p.rest) = 1
           runtime == IF last /\ merged = None THEN Empty ELSE merged
           read == IF overlay = None THEN p.read ELSE Append(p.read, overlay)
           q == [p EXCEPT !.at = IF last THEN "ensure" ELSE "overlay", !.rest = Tail(@),
                          !.read = read, !.runtime = runtime]
<1>1. p.at = "overlay" /\ Becomes(h, q) /\ conv' = conv
  BY DEF Overlay, conversation
<1>2. /\ p.read \in Seq(Runtime) /\ PlanOf(p.runtime, p.read)
      /\ p.rest \in Seq(Profiles) /\ p.rest # << >>
  BY <1>1 DEF PlanIInv, Planned
<1>3. Head(p.rest) \in Profiles /\ Tail(p.rest) \in Seq(Profiles)
      /\ Len(Tail(p.rest)) = Len(p.rest) - 1 /\ Len(p.rest) \in Nat
  BY <1>2, HeadTailProperties, LenProperties
<1>4. overlay \in Runtime \cup {None}
  BY <1>3, EditionsHaveRuntimes
<1>5. /\ q.at = (IF last THEN "ensure" ELSE "overlay") /\ q.rest = Tail(p.rest)
      /\ q.read = read /\ q.runtime = runtime
  <2>1. IsRequest(p)
    BY DEF Handled
  <2> DEFINE at == IF last THEN "ensure" ELSE "overlay"
             tail == Tail(p.rest)
  <2>2. q = [p EXCEPT !.at = at, !.rest = tail, !.read = read, !.runtime = runtime]
    OBVIOUS
  <2> HIDE DEF p, q, at, tail, read, runtime
  <2>3. q.at = at /\ q.rest = tail /\ q.read = read /\ q.runtime = runtime
    BY <2>1, <2>2 DEF IsRequest
  <2> QED
    BY <2>3 DEF at, tail
<1> HIDE DEF q
<1>6. read \in Seq(Runtime) /\ PlanOf(merged, read)
  <2>1. CASE overlay = None
    <3>1. MergeProfileRuntime(p.runtime, overlay) = p.runtime
      BY <2>1 DEF MergeProfileRuntime
    <3> QED
      BY <1>2, <2>1, <3>1
  <2>2. CASE overlay # None
    <3>1. overlay \in Runtime
      BY <1>4, <2>2
    <3> HIDE DEF overlay, merged
    <3>2. PlanOf(MergeProfileRuntime(p.runtime, overlay), Append(p.read, overlay))
      BY <1>2, <3>1, MergeStacks
    <3>3. Append(p.read, overlay) \in Seq(Runtime)
      BY <1>2, <3>1, AppendProperties
    <3> QED
      BY <2>2, <3>2, <3>3 DEF merged
  <2> QED
    BY <2>1, <2>2
<1> HIDE DEF p, overlay, merged, read
<1>7. merged = None => Len(read) = 0
  BY <1>6, RuntimesAreSome DEF PlanOf
<1>8. Empty \in Runtime
  <2>1. << >> \in Seq(Use) /\ << >> \in Seq(STRING)
    BY EmptySeq
  <2>2. "" \in STRING
    BY BlankIsString
  <2> QED
    BY <2>1, <2>2 DEF Empty, Runtime
<1>9. /\ PlanOf(runtime, read) \/ (last /\ Len(read) = 0 /\ runtime = Empty)
      /\ last => runtime \in Runtime
      /\ ~last => PlanOf(runtime, read)
  <2>1. CASE last /\ merged = None
    BY <1>7, <1>8, <2>1
  <2>2. CASE ~(last /\ merged = None)
    <3>1. runtime = merged
      BY <2>2
    <3>2. merged # None => merged \in Runtime
      BY <1>6 DEF PlanOf
    <3> QED
      BY <1>6, <2>2, <3>1, <3>2
  <2> QED
    BY <2>1, <2>2
<1>10. ~last => Tail(p.rest) # << >>
  <2>1. ASSUME ~last, Tail(p.rest) = << >> PROVE FALSE
    <3>1. Len(p.rest) # 0
      BY <1>2, <1>3, EmptySeq
    <3>2. Len(Tail(p.rest)) = 0
      BY <2>1, EmptySeq
    <3> QED
      BY <1>3, <2>1, <3>1, <3>2
  <2> QED
    BY <2>1
<1> HIDE DEF runtime
<1>11. Planned(q)
  <2>1. CASE last
    <3>1. q.at = "ensure" /\ q.read \in Seq(Runtime) /\ q.runtime \in Runtime
          /\ (PlanOf(q.runtime, q.read) \/ (Len(q.read) = 0 /\ q.runtime = Empty))
      BY <1>5, <1>6, <1>9, <2>1
    <3> QED
      BY <3>1 DEF Planned
  <2>2. CASE ~last
    <3>1. /\ q.at = "overlay" /\ q.read \in Seq(Runtime) /\ PlanOf(q.runtime, q.read)
          /\ q.rest \in Seq(Profiles) /\ q.rest # << >>
      BY <1>3, <1>5, <1>6, <1>9, <1>10, <2>2
    <3> QED
      BY <3>1 DEF Planned
  <2> QED
    BY <2>1, <2>2
<1> QED
  BY <1>1, <1>11, PlannedStep

(* GetOrCreate takes what was resolved, and its request forgets the rest.  *)
LEMMA EnsurePlans ==
  ASSUME PlanIInv, Handled, NEW h \in Requests,
         Create(h) \/ Reuse(h) \/ Rebuild(h) \/ Rekey(h) \/ Refingerprint(h), Cached
  PROVE  PlanIInv'
<1>1. request[h].at \in {"ensure", "rebuild", "rekeyed"} /\ request[h].runtime \in Runtime
  <2>1. request[h].at \in {"ensure", "rebuild", "rekeyed"}
    BY DEF Create, Reuse, Rebuild, Rekey, Refingerprint, Enters
  <2> QED
    BY <2>1 DEF PlanIInv, Planned
<1>2. Of(request[h]).runtime \in Runtime
  BY <1>1, OfIsConversation
<1>3. conv # None => IsConversation(conv)
  BY DEF Cached
<1>4. CASE Create(h) \/ Reuse(h)
  <2>1. Becomes(h, Idle("done"))
    BY <1>4 DEF Create, Reuse, Served
  <2>2. conv' # None => conv'.runtime \in Runtime
    <3>1. CASE Create(h)
      BY <1>2, <3>1 DEF Create
    <3>2. CASE Reuse(h)
      BY <1>1, <1>3, <3>2, ResolvedIsConversation DEF Reuse
    <3> QED
      BY <1>4, <3>1, <3>2
  <2> QED
    BY <2>1, <2>2, IdlePlanned, PlannedStep
<1>5. IsRequest(request[h])
  BY DEF Handled
<1>6. CASE Rebuild(h)
  <2>1. Becomes(h, [request[h] EXCEPT !.at = "rebuild", !.read = << >>])
    BY <1>6 DEF Rebuild
  <2>2. Planned([request[h] EXCEPT !.at = "rebuild", !.read = << >>])
    BY <1>1, <1>5 DEF Planned, IsRequest
  <2>3. conv'.runtime \in Runtime
    BY <1>1, <1>3, <1>6, ResolvedIsConversation DEF Rebuild
  <2> QED
    BY <2>1, <2>2, <2>3, PlannedStep
<1>7. CASE Rekey(h)
  <2>1. Becomes(h, [request[h] EXCEPT !.at = "rekeyed"])
    BY <1>7 DEF Rekey
  <2>2. Planned([request[h] EXCEPT !.at = "rekeyed"])
    BY <1>1, <1>5 DEF Planned, IsRequest
  <2>3. conv' # None => conv' = conv \/ conv'.runtime \in Runtime
    <3>1. conv' = [conv EXCEPT !.key = request[h].slug]
      BY <1>7 DEF Rekey
    <3>2. CASE conv # None
      <4>1. conv'.runtime = conv.runtime
        BY <1>3, <3>1, <3>2 DEF IsConversation
      <4> QED
        BY <3>2, <4>1 DEF PlanIInv
    <3>3. CASE conv = None
      BY <3>1, <3>3 DEF None
    <3> QED
      BY <3>2, <3>3
  <2> QED
    BY <2>1, <2>2, <2>3, PlannedStep
<1>8. CASE Refingerprint(h)
  <2>1. Becomes(h, [request[h] EXCEPT !.at = "refingered"])
    BY <1>8 DEF Refingerprint
  <2>2. Planned([request[h] EXCEPT !.at = "refingered"])
    BY <1>1, <1>5 DEF Planned, IsRequest
  <2>3. conv'.runtime \in Runtime
    BY <1>2, <1>8 DEF Refingerprint
  <2> QED
    BY <2>1, <2>2, <2>3, PlannedStep
<1> QED
  BY <1>4, <1>6, <1>7, <1>8

LEMMA PlanStep == IInv /\ PlanIInv /\ [Next]_vars => PlanIInv'
<1> SUFFICES ASSUME IInv, PlanIInv, [Next]_vars PROVE PlanIInv'
  OBVIOUS
<1>1. Handled /\ Editions /\ Cached
  BY DEF IInv
<1>2. ASSUME UNCHANGED <<request, conv>> PROVE PlanIInv'
  BY <1>2 DEF PlanIInv
<1>3. CASE UNCHANGED vars
  BY <1>2, <1>3 DEF vars, conversation
<1>4. ASSUME NEW p \in Profiles, Edit(p) PROVE PlanIInv'
  BY <1>2, <1>4 DEF Edit, conversation
<1>5. CASE Ensure \/ Store \/ StartFails \/ Start \/ Save \/ End
  BY <1>2, <1>5 DEF Ensure, Store, StartFails, Start, Save, End, conversation
<1>6. ASSUME NEW h \in Requests,
             Fail(h) \/ Refuse(h) \/ SubscriberFails(h) \/ Reset(h)
      PROVE  PlanIInv'
  <2>1. Becomes(h, Idle("done")) /\ conv' = conv
    BY <1>6 DEF Fail, Refuse, SubscriberFails, Reset, Served, Unserved, conversation
  <2> QED
    BY <1>1, <2>1, IdlePlanned, PlannedStep
<1>7. ASSUME NEW h \in Requests,
             \/ Select(h) \/ Overlay(h)
             \/ Create(h) \/ Reuse(h) \/ Rebuild(h) \/ Rekey(h) \/ Refingerprint(h)
      PROVE  PlanIInv'
  BY <1>1, <1>7, SelectPlans, OverlayPlans, EnsurePlans
<1> QED
  BY <1>3, <1>4, <1>5, <1>6, <1>7 DEF Next

LEMMA PlanIInvImpliesPlanInv == PlanIInv => PlanInv
<1> SUFFICES ASSUME PlanIInv PROVE PlanInv
  OBVIOUS
<1>1. ASSUME NEW h \in Requests, request[h].at = "ensure"
      PROVE  /\ request[h].runtime \in Runtime
             /\ IF Len(request[h].read) <= 1
                THEN request[h].runtime
                       = IF request[h].read = << >> THEN Empty ELSE request[h].read[1]
                ELSE Stacks(request[h].runtime, request[h].read)
  <2> DEFINE r == request[h].runtime
             layers == request[h].read
  <2>1. /\ layers \in Seq(Runtime) /\ r \in Runtime
        /\ PlanOf(r, layers) \/ (Len(layers) = 0 /\ r = Empty)
    BY <1>1 DEF PlanIInv, Planned
  <2> HIDE DEF r, layers
  <2>2. Len(layers) \in Nat /\ (layers = << >> <=> Len(layers) = 0)
    BY <2>1, EmptySeq, LenProperties
  <2>3. r # None
    BY <2>1, RuntimesAreSome
  <2>4. IF Len(layers) <= 1 THEN r = IF layers = << >> THEN Empty ELSE layers[1]
        ELSE Stacks(r, layers)
    <3>1. CASE Len(layers) = 0
      BY <2>1, <2>2, <2>3, <3>1 DEF PlanOf
    <3>2. CASE Len(layers) # 0
      <4>1. PlanOf(r, layers) /\ layers # << >>
        BY <2>1, <2>2, <3>2
      <4>2. IF Len(layers) = 1 THEN r = layers[1] ELSE Stacks(r, layers)
        BY <3>2, <4>1 DEF PlanOf
      <4>3. Len(layers) <= 1 <=> Len(layers) = 1
        <5>1. \A k \in Nat : k # 0 => (k <= 1 <=> k = 1)
          OBVIOUS
        <5> QED
          BY <2>2, <3>2, <5>1
      <4> QED
        BY <4>1, <4>2, <4>3
    <3> QED
      BY <3>1, <3>2
  <2> QED
    BY <2>1, <2>4 DEF r, layers
<1>2. conv # None => conv.runtime \in Runtime
  BY DEF PlanIInv
<1> QED
  BY <1>1, <1>2 DEF PlanInv

(* Whatever profiles a request is stacked on and however the registry is   *)
(* edited while their runtimes are read, the plan it hands to GetOrCreate  *)
(* is that of the runtimes it has read: the last prompt, each tool once,   *)
(* each middleware once and as last given (resolveEffectiveProfile,        *)
(* MergeProfileRuntime); and a conversation's runtime is one resolved.     *)
THEOREM PlanIsStack == Spec => []PlanInv
<1> HIDE DEF IInv, PlanIInv, PlanInv
<1> QED
  BY PlanInit, PlanStep, PlanIInvImpliesPlanInv, InitIInv, StepIInv, PTL DEF Spec

===============================================================================

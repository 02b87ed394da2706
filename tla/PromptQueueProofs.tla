-------------------------- MODULE PromptQueueProofs --------------------------
(***************************************************************************)
(* Proofs about PromptQueue for any set of keys.                           *)
(***************************************************************************)
EXTENDS PromptQueue, SequenceTheorems, TLAPS

-----------------------------------------------------------------------------
(* Queues without repetitions *)

(* Appending a key that is not queued adds that key and repeats nothing.   *)
LEMMA AppendFresh ==
  ASSUME NEW q \in Seq(Keys), NEW k \in Keys
  PROVE  /\ Append(q, k) \in Seq(Keys)
         /\ Append(q, k) # <<>>
         /\ Range(Append(q, k)) = Range(q) \cup {k}
         /\ NoRepeats(q) /\ k \notin Range(q) => NoRepeats(Append(q, k))
<1>1. /\ Append(q, k) \in Seq(Keys)
      /\ Len(Append(q, k)) = Len(q) + 1
      /\ \A i \in 1..Len(q) : Append(q, k)[i] = q[i]
      /\ Append(q, k)[Len(q) + 1] = k
  BY AppendProperties
<1>2. /\ Len(q) \in Nat
      /\ DOMAIN q = 1..Len(q)
      /\ DOMAIN Append(q, k) = 1..(Len(q) + 1)
  BY <1>1, LenProperties
<1>3. Append(q, k) # <<>>
  BY <1>1, <1>2, EmptySeq
<1>4. Range(Append(q, k)) = Range(q) \cup {k}
  BY <1>1, <1>2 DEF Range
<1>5. NoRepeats(q) /\ k \notin Range(q) => NoRepeats(Append(q, k))
  BY <1>1, <1>2 DEF NoRepeats, Range
<1> QED
  BY <1>1, <1>3, <1>4, <1>5

(* Popping the head of a queue that repeats nothing removes just that key. *)
LEMMA PopHead ==
  ASSUME NEW q \in Seq(Keys), q # <<>>
  PROVE  /\ Head(q) \in Keys
         /\ Head(q) \in Range(q)
         /\ Tail(q) \in Seq(Keys)
         /\ NoRepeats(q) => /\ Range(Tail(q)) = Range(q) \ {Head(q)}
                            /\ NoRepeats(Tail(q))
<1>1. /\ Len(q) \in Nat \ {0}
      /\ DOMAIN q = 1..Len(q)
      /\ Head(q) = q[1]
  BY EmptySeq, LenProperties
<1>2. /\ Tail(q) \in Seq(Keys)
      /\ Len(Tail(q)) = Len(q) - 1
      /\ \A i \in 1..Len(Tail(q)) : Tail(q)[i] = q[i + 1]
  BY HeadTailProperties
<1>3. DOMAIN Tail(q) = 1..(Len(q) - 1)
  BY <1>2, LenProperties
<1>4. Head(q) \in Keys /\ Head(q) \in Range(q)
  BY <1>1, ElementOfSeq DEF Range
<1>5. ASSUME NoRepeats(q)
      PROVE  Range(Tail(q)) = Range(q) \ {Head(q)}
  <2>1. ASSUME NEW x \in Range(Tail(q))
        PROVE  x \in Range(q) \ {Head(q)}
    BY <1>1, <1>2, <1>3, <1>5 DEF Range, NoRepeats
  <2>2. ASSUME NEW x \in Range(q) \ {Head(q)}
        PROVE  x \in Range(Tail(q))
    <3>1. PICK i \in 1..Len(q) : x = q[i] /\ i # 1
      BY <1>1 DEF Range
    <3>2. i - 1 \in 1..(Len(q) - 1) /\ Tail(q)[i - 1] = x
      BY <1>1, <1>2, <3>1
    <3> QED
      BY <1>3, <3>2 DEF Range
  <2> QED
    BY <2>1, <2>2
<1>6. NoRepeats(q) => NoRepeats(Tail(q))
  BY <1>1, <1>2 DEF NoRepeats
<1> QED
  BY <1>2, <1>4, <1>5, <1>6

-----------------------------------------------------------------------------
(* The inductive invariant *)

IInv == TypeOK /\ QueueInv

(* In every initial state the invariant holds.                             *)
LEMMA InitIInv == Init => IInv
BY NoneIsNotAKey, EmptySeq
   DEF Init, IInv, TypeOK, QueueInv, ActiveIsExecuting, QueueMatchesRecords,
       NobodyForgotten, NoRepeats, Range, NoRecord, NoAnswer, PCs, Executing,
       Statuses, Bodies, Terminal

(* Finishing the active prompt frees the conversation and leaves a         *)
(* terminal record whose response agrees with it.                          *)
LEMMA FinishFacts ==
  ASSUME NEW k \in Keys, NEW failed \in BOOLEAN, IInv,
         pc[k] \in Executing, Finish(k, failed)
  PROVE  \E status \in Terminal :
            /\ active' = None
            /\ rec' = [rec EXCEPT ![k] = [status |-> status, body |-> status]]
BY DEF IInv, TypeOK, QueueInv, ActiveIsExecuting, QueueMatchesRecords, Finish,
       ActiveAfter, FinishedRecord, Executing, Terminal

(* Every step keeps the types and the invariant.                           *)
LEMMA StepIInv == IInv /\ [Next]_vars => IInv'
<1> SUFFICES ASSUME IInv, [Next]_vars PROVE IInv'
  OBVIOUS
<1> USE NoneIsNotAKey
<1> USE DEF IInv, TypeOK, QueueInv, PCs, Executing, Statuses, Bodies, Terminal
<1>1. CASE UNCHANGED vars
  BY <1>1 DEF vars, ActiveIsExecuting, QueueMatchesRecords, NobodyForgotten
<1>2. ASSUME NEW k \in Keys, Replay(k) \/ Reply(k)
      PROVE  IInv'
  <2>1. UNCHANGED <<active, queue, rec, pc>>
    BY <1>2 DEF Replay, Reply
  <2>2. /\ answer' \in [Keys -> [http : {0, 200, 202, 500}, body : Bodies]]
        /\ lent' \subseteq Keys
    <3>1. CASE Replay(k)
      BY <3>1 DEF Replay
    <3>2. CASE Reply(k)
      BY <3>2 DEF Reply
    <3> QED
      BY <1>2, <3>1, <3>2
  <2>3. TypeOK'
    BY <2>1, <2>2
  <2>4. QueueInv'
    BY <2>1 DEF ActiveIsExecuting, QueueMatchesRecords, NobodyForgotten
  <2> QED
    BY <2>3, <2>4
<1>3. ASSUME NEW k \in Keys, Enqueue(k)
      PROVE  IInv'
  <2>1. /\ rec[k].status = "none"
        /\ k \notin Range(queue)
        /\ pc[k] = "idle"
        /\ active \in Keys
    BY <1>3 DEF Enqueue, HasRecord, Busy, QueueMatchesRecords
  <2>2. /\ queue' \in Seq(Keys)
        /\ Range(queue') = Range(queue) \cup {k}
        /\ NoRepeats(queue')
    BY <1>3, <2>1, AppendFresh DEF Enqueue, QueueMatchesRecords
  <2>3. TypeOK'
    BY <1>3, <2>2 DEF Enqueue, QueuedRecord
  <2>4. ActiveIsExecuting' /\ NobodyForgotten'
    BY <1>3, <2>1 DEF Enqueue, ActiveIsExecuting, NobodyForgotten
  <2>5. QueueMatchesRecords'
    BY <1>3, <2>1, <2>2 DEF Enqueue, QueuedRecord, QueueMatchesRecords
  <2> QED
    BY <2>3, <2>4, <2>5
<1>4. ASSUME NEW k \in Keys, StartDirectly(k)
      PROVE  IInv'
  <2>1. rec[k].status = "none" /\ k \notin Range(queue) /\ active = None
    BY <1>4 DEF StartDirectly, HasRecord, Busy, QueueMatchesRecords
  <2>2. TypeOK'
    BY <1>4 DEF StartDirectly, RunningRecord
  <2>3. ActiveIsExecuting' /\ NobodyForgotten'
    BY <1>4, <2>1 DEF StartDirectly, ActiveIsExecuting, NobodyForgotten
  <2>4. QueueMatchesRecords'
    BY <1>4, <2>1 DEF StartDirectly, RunningRecord, QueueMatchesRecords
  <2> QED
    BY <2>2, <2>3, <2>4
<1>5. ASSUME NEW k \in Keys, Launch(k)
      PROVE  IInv'
  BY <1>5 DEF Launch, ActiveIsExecuting, QueueMatchesRecords, NobodyForgotten
<1>6. ASSUME NEW k \in Keys, Persist(k)
      PROVE  IInv'
  <2>1. TypeOK'
    BY <1>6 DEF Persist, StartedRecord
  <2>2. ActiveIsExecuting' /\ NobodyForgotten'
    BY <1>6 DEF Persist, ActiveIsExecuting, NobodyForgotten
  <2>3. QueueMatchesRecords'
    BY <1>6 DEF Persist, StartedRecord, QueueMatchesRecords
  <2> QED
    BY <2>1, <2>2, <2>3
<1>7. ASSUME NEW k \in Keys, NEW failed \in BOOLEAN,
             StartFails(k) \/ LaunchFails(k) \/ Complete(k, failed)
      PROVE  IInv'
  <2>1. /\ pc[k] \in Executing
        /\ \E p \in {"abandoned", "draining"} : pc' = [pc EXCEPT ![k] = p]
        /\ queue' = queue /\ lent' = lent
        /\ answer' \in [Keys -> [http : {0, 200, 202, 500}, body : Bodies]]
    <3>1. CASE StartFails(k)
      BY <3>1 DEF StartFails
    <3>2. CASE LaunchFails(k)
      BY <3>2 DEF LaunchFails
    <3>3. CASE Complete(k, failed)
      BY <3>3 DEF Complete, AfterFinish
    <3> QED
      BY <1>7, <3>1, <3>2, <3>3
  <2>2. PICK status \in Terminal :
            /\ active' = None
            /\ rec' = [rec EXCEPT ![k] = [status |-> status, body |-> status]]
    <3>1. Finish(k, TRUE) \/ Finish(k, failed)
      BY <1>7 DEF StartFails, LaunchFails, Complete
    <3>2. pc[k] \in Executing
      BY <2>1
    <3> HIDE DEF IInv, Executing, Terminal
    <3> QED
      BY <3>1, <3>2, FinishFacts
  <2>3. TypeOK'
    BY <2>1, <2>2
  <2>4. ActiveIsExecuting' /\ NobodyForgotten'
    BY <2>1, <2>2 DEF ActiveIsExecuting, NobodyForgotten
  <2>5. QueueMatchesRecords'
    BY <2>1, <2>2 DEF QueueMatchesRecords
  <2> QED
    BY <2>3, <2>4, <2>5
<1>8. ASSUME NEW k \in Keys, DrainStops(k)
      PROVE  IInv'
  <2>1. TypeOK' /\ QueueMatchesRecords'
    BY <1>8 DEF DrainStops, QueueMatchesRecords
  <2>2. ActiveIsExecuting' /\ NobodyForgotten'
    BY <1>8 DEF DrainStops, Busy, ActiveIsExecuting, NobodyForgotten
  <2> QED
    BY <2>1, <2>2
<1>9. ASSUME NEW k \in Keys, Claim(k)
      PROVE  IInv'
  <2> DEFINE h == Head(queue)
  <2>1. /\ h \in Keys /\ h \in Range(queue)
        /\ queue' \in Seq(Keys)
        /\ Range(queue') = Range(queue) \ {h}
        /\ NoRepeats(queue')
    BY <1>9, PopHead DEF Claim, RestOfQueue, QueueMatchesRecords
  <2>2. /\ pc[k] = "draining" /\ k # h
        /\ rec[h].status = "queued" /\ rec[h].body = "queued"
        /\ pc[h] = "idle"
    BY <1>9, <2>1 DEF Claim, QueueMatchesRecords
  <2>3. /\ active = None /\ active' = h
        /\ rec' = [rec EXCEPT ![h] = [status |-> "running", body |-> "queued"]]
        /\ pc' = [pc EXCEPT ![k] = "gone", ![h] = "claimed"]
        /\ UNCHANGED <<answer, lent>>
    BY <1>9, <2>1, <2>2 DEF Claim, Busy, Dequeued, ClaimedRecord
  <2> HIDE DEF h
  <2>4. TypeOK'
    BY <2>1, <2>3
  <2>5. ActiveIsExecuting' /\ NobodyForgotten'
    <3>1. /\ pc'[h] = "claimed" /\ pc'[k] = "gone"
          /\ \A x \in Keys \ {h, k} : pc'[x] = pc[x]
      BY <2>1, <2>2, <2>3
    <3>2. \A x \in Keys : pc[x] \notin Executing
      BY <2>3 DEF ActiveIsExecuting
    <3> QED
      BY <2>1, <2>2, <2>3, <3>1, <3>2 DEF ActiveIsExecuting, NobodyForgotten
  <2>6. QueueMatchesRecords'
    BY <2>1, <2>2, <2>3 DEF QueueMatchesRecords
  <2> QED
    BY <2>4, <2>5, <2>6
<1> HIDE DEF IInv
<1> QED
  BY <1>1, <1>2, <1>3, <1>4, <1>5, <1>6, <1>7, <1>8, <1>9
     DEF Next, Submit, ThreadStep

(* Types and invariant hold in every reachable state.                      *)
THEOREM IInvHolds == Spec => []IInv
BY InitIInv, StepIInv, PTL DEF Spec

(* Whatever the keys, the queue state of a conversation is well formed.    *)
THEOREM TypeCorrect == Spec => []TypeOK
BY IInvHolds, PTL DEF IInv

(* Whatever the keys and the interleaving of handlers, waiters and         *)
(* draining threads: one run at a time, the queue and the records agree,   *)
(* and no queued prompt is left to nobody unless a direct start failed.    *)
THEOREM QueueInvHolds == Spec => []QueueInv
BY IInvHolds, PTL DEF IInv

-----------------------------------------------------------------------------
(* The queue implements the serial executor *)

(* The three sets of the abstract state are what the records say, and the  *)
(* conversation is busy exactly when something runs.                       *)
LEMMA AbstractState ==
  ASSUME IInv
  PROVE  /\ \A k \in Keys :
              /\ k \in WaitingKeys <=> rec[k].status = "queued"
              /\ k \in RunningKeys <=> rec[k].status = "running"
              /\ k \in FinishedKeys <=> rec[k].status \in Terminal
         /\ active = None => RunningKeys = {}
         /\ active # None => RunningKeys = {active}
         /\ WaitingKeys \subseteq Keys
<1>1. WaitingKeys \subseteq Keys
  BY LenProperties DEF IInv, TypeOK, WaitingKeys, Range
<1>2. \A k \in Keys :
         /\ k \in WaitingKeys <=> rec[k].status = "queued"
         /\ k \in RunningKeys <=> rec[k].status = "running"
         /\ k \in FinishedKeys <=> rec[k].status \in Terminal
  BY DEF IInv, QueueInv, QueueMatchesRecords, WaitingKeys, RunningKeys,
         FinishedKeys
<1>3. /\ active = None => RunningKeys = {}
      /\ active # None => RunningKeys = {active}
  BY NoneIsNotAKey DEF IInv, TypeOK, QueueInv, ActiveIsExecuting, RunningKeys
<1> QED
  BY <1>1, <1>2, <1>3

(* The initial states are initial states of the serial executor.           *)
LEMMA InitSerial == Init => Serial!Init
BY EmptySeq DEF Init, Serial!Init, WaitingKeys, RunningKeys, FinishedKeys,
                Range, NoRecord, Executing, Terminal

(* Every step of the queue is a step of the serial executor or leaves its  *)
(* state alone.                                                            *)
LEMMA StepSerial == IInv /\ [Next]_vars => [Serial!Next]_Serial!vars
<1> SUFFICES ASSUME IInv, [Next]_vars PROVE [Serial!Next]_Serial!vars
  OBVIOUS
<1>0. IInv'
  BY StepIInv
<1> USE NoneIsNotAKey DEF Serial!vars, Serial!Known
<1>a. /\ pc \in [Keys -> PCs] /\ queue \in Seq(Keys)
      /\ rec \in [Keys -> [status : Statuses, body : Bodies]]
  BY DEF IInv, TypeOK
<1>1. CASE UNCHANGED vars
  BY <1>1 DEF vars, WaitingKeys, RunningKeys, FinishedKeys
<1>2. ASSUME NEW k \in Keys, UNCHANGED <<queue, rec>>,
             RunningKeys' = RunningKeys
      PROVE  UNCHANGED Serial!vars
  BY <1>2 DEF WaitingKeys, FinishedKeys
<1>3. ASSUME NEW k \in Keys, Enqueue(k)
      PROVE  Serial!Accept(k)
  <2>1. rec[k].status = "none" /\ active # None
    BY <1>3 DEF Enqueue, HasRecord, Busy, IInv, QueueInv, QueueMatchesRecords
  <2>2. WaitingKeys' = WaitingKeys \cup {k}
    BY <1>3, <1>a, AppendFresh DEF Enqueue, WaitingKeys
  <2>3. RunningKeys' = RunningKeys
    BY <1>3 DEF Enqueue, RunningKeys
  <2>4. FinishedKeys' = FinishedKeys
    BY <1>3, <1>a, <2>1 DEF Enqueue, QueuedRecord, FinishedKeys, Terminal
  <2> QED
    BY <2>1, <2>2, <2>3, <2>4, AbstractState DEF Serial!Accept, Terminal
<1>4. ASSUME NEW k \in Keys, StartDirectly(k)
      PROVE  Serial!Begin(k)
  <2>1. rec[k].status = "none" /\ active = None
    BY <1>4 DEF StartDirectly, HasRecord, Busy, IInv, QueueInv,
                QueueMatchesRecords
  <2>2. WaitingKeys' = WaitingKeys
    BY <1>4 DEF StartDirectly, WaitingKeys
  <2>3. RunningKeys = {} /\ RunningKeys' = {k}
    BY <1>0, <1>4, <2>1, AbstractState DEF StartDirectly, IInv, QueueInv,
       ActiveIsExecuting, RunningKeys
  <2>4. FinishedKeys' = FinishedKeys
    BY <1>4, <1>a, <2>1 DEF StartDirectly, RunningRecord, FinishedKeys, Terminal
  <2> QED
    BY <2>1, <2>2, <2>3, <2>4, AbstractState DEF Serial!Begin, Terminal
<1>5. ASSUME NEW k \in Keys, Launch(k)
      PROVE  UNCHANGED Serial!vars
  <2>1. RunningKeys' = RunningKeys
    BY <1>5, <1>a DEF Launch, RunningKeys, Executing
  <2> QED
    BY <1>2, <1>5, <2>1 DEF Launch
<1>6. ASSUME NEW k \in Keys, Persist(k)
      PROVE  UNCHANGED Serial!vars
  <2>1. RunningKeys' = RunningKeys
    BY <1>6, <1>a DEF Persist, RunningKeys, Executing
  <2>2. rec[k].status = "running"
    BY <1>6 DEF Persist, IInv, QueueInv, QueueMatchesRecords, Executing
  <2>3. FinishedKeys' = FinishedKeys
    BY <1>6, <1>a, <2>2 DEF Persist, StartedRecord, FinishedKeys, Terminal
  <2>4. WaitingKeys' = WaitingKeys
    BY <1>6 DEF Persist, WaitingKeys
  <2> QED
    BY <2>1, <2>3, <2>4
<1>7. ASSUME NEW k \in Keys, NEW failed \in BOOLEAN,
             StartFails(k) \/ LaunchFails(k) \/ Complete(k, failed)
      PROVE  Serial!End(k)
  <2>1. /\ pc[k] \in Executing
        /\ queue' = queue
        /\ Finish(k, TRUE) \/ Finish(k, failed)
    <3>1. CASE StartFails(k)
      BY <3>1 DEF StartFails, Executing
    <3>2. CASE LaunchFails(k)
      BY <3>2 DEF LaunchFails, Executing
    <3>3. CASE Complete(k, failed)
      BY <3>3 DEF Complete, Executing
    <3> QED
      BY <1>7, <3>1, <3>2, <3>3
  <2>2. PICK status \in Terminal :
            /\ active' = None
            /\ rec' = [rec EXCEPT ![k] = [status |-> status, body |-> status]]
    BY <2>1, FinishFacts
  <2>3. active = k
    BY <2>1 DEF IInv, QueueInv, ActiveIsExecuting
  <2>4. RunningKeys = {k} /\ RunningKeys' = {}
    BY <1>0, <2>2, <2>3, AbstractState DEF IInv, QueueInv, ActiveIsExecuting,
       RunningKeys
  <2>5. FinishedKeys' = FinishedKeys \cup {k}
    BY <1>a, <2>2 DEF FinishedKeys
  <2>6. WaitingKeys' = WaitingKeys
    BY <2>1 DEF WaitingKeys
  <2> QED
    BY <2>4, <2>5, <2>6 DEF Serial!End
<1>8. ASSUME NEW k \in Keys, DrainStops(k)
      PROVE  UNCHANGED Serial!vars
  <2>1. RunningKeys' = RunningKeys
    BY <1>8, <1>a DEF DrainStops, RunningKeys, Executing
  <2> QED
    BY <1>2, <1>8, <2>1 DEF DrainStops
<1>9. ASSUME NEW k \in Keys, Claim(k)
      PROVE  Serial!Promote(Head(queue))
  <2> DEFINE h == Head(queue)
  <2>1. /\ h \in Keys /\ h \in Range(queue)
        /\ Range(queue') = Range(queue) \ {h}
    BY <1>9, <1>a, PopHead DEF Claim, RestOfQueue, IInv, QueueInv,
       QueueMatchesRecords
  <2>2. rec[h].status = "queued"
    BY <2>1 DEF IInv, QueueInv, QueueMatchesRecords
  <2>3. /\ active = None /\ active' = h
        /\ \E b : rec' = [rec EXCEPT ![h] = [status |-> "running", body |-> b]]
    BY <1>9, <2>1, <2>2 DEF Claim, Busy, Dequeued, ClaimedRecord
  <2> HIDE DEF h
  <2>4. RunningKeys = {} /\ RunningKeys' = {h}
    BY <1>0, <2>1, <2>3, AbstractState DEF IInv, QueueInv, ActiveIsExecuting,
       RunningKeys
  <2>5. FinishedKeys' = FinishedKeys
    BY <1>a, <2>2, <2>3 DEF FinishedKeys, Terminal
  <2>6. h \in WaitingKeys /\ WaitingKeys' = WaitingKeys \ {h}
    BY <2>1 DEF WaitingKeys
  <2>7. Serial!Promote(h)
    BY <2>4, <2>5, <2>6 DEF Serial!Promote
  <2> QED
    BY <2>7 DEF h
<1>b. ASSUME NEW k \in Keys, Replay(k) \/ Reply(k)
      PROVE  UNCHANGED Serial!vars
  BY <1>2, <1>b DEF Replay, Reply, RunningKeys
<1>c. ASSUME NEW k \in Keys, Claim(k)
      PROVE  Head(queue) \in Keys
  BY <1>c, <1>a, PopHead DEF Claim
<1> QED
  BY <1>1, <1>3, <1>4, <1>5, <1>6, <1>7, <1>8, <1>9, <1>b, <1>c
     DEF Next, Submit, ThreadStep, Serial!Next

(* For any set of keys the prompt queue is a serial executor of prompts:   *)
(* each is executed at most once, never two at a time, and a prompt waits  *)
(* only behind one that executes.                                          *)
THEOREM QueueIsSerial == Spec => IsSerial
<1>1. Init => Serial!Init
  BY InitSerial
<1>2. IInv /\ [Next]_vars => [Serial!Next]_Serial!vars
  BY StepSerial
<1> QED
  BY <1>1, <1>2, IInvHolds, PTL DEF Spec, IsSerial, Serial!Spec

-----------------------------------------------------------------------------
(* Waiting prompts are promoted in order *)

(* A step takes no key but the head of the queue out of "queued".          *)
LEMMA OnlyHeadLeaves ==
  ASSUME IInv, [Next]_vars,
         NEW x \in Keys, rec[x].status = "queued", rec'[x].status # "queued"
  PROVE  queue # <<>> /\ x = Head(queue)
<1> USE DEF IInv, TypeOK
<1>1. pc[x] = "idle" /\ rec[x].body = "queued"
  BY DEF QueueInv, QueueMatchesRecords
<1>2. CASE UNCHANGED vars
  BY <1>2 DEF vars
<1>3. ASSUME NEW k \in Keys,
             \/ Replay(k) \/ Reply(k) \/ Launch(k) \/ DrainStops(k)
      PROVE  FALSE
  BY <1>3 DEF Replay, Reply, Launch, DrainStops
<1>4. ASSUME NEW k \in Keys, Enqueue(k) \/ StartDirectly(k)
      PROVE  FALSE
  BY <1>1, <1>4 DEF Enqueue, StartDirectly, HasRecord
<1>5. ASSUME NEW k \in Keys,
             \/ Persist(k) \/ StartFails(k) \/ LaunchFails(k)
             \/ \E failed \in BOOLEAN : Complete(k, failed)
      PROVE  FALSE
  <2>1. k # x
    BY <1>1, <1>5 DEF Persist, StartFails, LaunchFails, Complete
  <2>2. \E r : rec' = [rec EXCEPT ![k] = r]
    BY <1>5 DEF Persist, StartFails, LaunchFails, Complete, Finish
  <2> QED
    BY <2>1, <2>2
<1>6. ASSUME NEW k \in Keys, Claim(k)
      PROVE  queue # <<>> /\ x = Head(queue)
  <2>1. queue # <<>> /\ \E r : rec' = [rec EXCEPT ![Head(queue)] = r]
    BY <1>6 DEF Claim, Dequeued
  <2> QED
    BY <2>1
<1> HIDE DEF IInv, TypeOK
<1> QED
  BY <1>2, <1>3, <1>4, <1>5, <1>6 DEF Next, Submit, ThreadStep

(* Whatever the keys, no prompt leaves the queue while an earlier one      *)
(* still waits.                                                            *)
THEOREM PromotionIsInOrder == Spec => PromotedInOrder
<1>1. ASSUME IInv, [Next]_vars,
             NEW i \in 1..Len(queue), NEW j \in 1..Len(queue), i < j
      PROVE  rec'[queue[j]].status = "queued"
  <2>1. queue \in Seq(Keys) /\ NoRepeats(queue)
    BY <1>1 DEF IInv, TypeOK, QueueInv, QueueMatchesRecords
  <2>2. queue[j] \in Keys /\ queue[j] \in Range(queue)
    BY <2>1, ElementOfSeq, LenProperties DEF Range
  <2>3. rec[queue[j]].status = "queued"
    BY <1>1, <2>2 DEF IInv, QueueInv, QueueMatchesRecords
  <2>4. queue[j] # queue[1]
    BY <1>1, <2>1, LenProperties DEF NoRepeats
  <2>5. queue # <<>> => Head(queue) = queue[1]
    BY <2>1
  <2> QED
    BY <1>1, <2>2, <2>3, <2>4, <2>5, OnlyHeadLeaves
<1>2. IInv /\ [Next]_vars =>
        [\A i, j \in 1..Len(queue) :
           i < j /\ rec'[queue[j]].status # "queued"
             => rec'[queue[i]].status # "queued"]_vars
  BY <1>1
<1> QED
  BY <1>2, IInvHolds, PTL DEF Spec, PromotedInOrder

-----------------------------------------------------------------------------
(* Answers never regress *)

(* Body b is a or comes after it in the life of a prompt, and a body that  *)
(* says how the prompt ended is followed by no other.                      *)
Follows(a, b) ==
  /\ Progress(b) >= Progress(a)
  /\ a \in Terminal => b = a

(* The record is ahead of what the clients have been told.                 *)
RecordsAhead == \A k \in Keys : Follows(answer[k].body, rec[k].body)

(* To follow is reflexive and transitive.                                  *)
LEMMA FollowsOrders ==
  ASSUME NEW a \in Bodies, NEW b \in Bodies, NEW c \in Bodies
  PROVE  /\ Follows(a, a)
         /\ Follows(a, b) /\ Follows(b, c) => Follows(a, c)
BY DEF Follows, Progress, Bodies, Terminal

(* A step moves the response of a record forward only.                     *)
LEMMA RecordsAdvance ==
  ASSUME IInv, [Next]_vars, NEW x \in Keys
  PROVE  Follows(rec[x].body, rec'[x].body)
<1> USE DEF IInv, TypeOK
<1>a. rec[x].body \in Bodies
  OBVIOUS
<1>1. ASSUME rec'[x].body = rec[x].body
      PROVE  Follows(rec[x].body, rec'[x].body)
  BY <1>a, <1>1, FollowsOrders
<1>2. CASE UNCHANGED vars
  BY <1>1, <1>2 DEF vars
<1>3. ASSUME NEW k \in Keys,
             \/ Replay(k) \/ Reply(k) \/ Launch(k) \/ DrainStops(k)
      PROVE  rec'[x].body = rec[x].body
  BY <1>3 DEF Replay, Reply, Launch, DrainStops
<1>4. ASSUME NEW k \in Keys, Enqueue(k) \/ StartDirectly(k)
      PROVE  Follows(rec[x].body, rec'[x].body)
  <2>1. rec[k].body = "none"
    BY <1>4 DEF Enqueue, StartDirectly, HasRecord
  <2>2. \E b \in {"queued", "running"} :
          \E s : rec' = [rec EXCEPT ![k] = [status |-> s, body |-> b]]
    BY <1>4 DEF Enqueue, StartDirectly, QueuedRecord, RunningRecord
  <2>3. CASE x = k
    <3>1. rec'[x].body \in {"queued", "running"}
      BY <2>2, <2>3
    <3> QED
      BY <2>1, <2>3, <3>1 DEF Follows, Progress, Terminal
  <2>4. CASE x # k
    BY <1>1, <2>2, <2>4
  <2> QED
    BY <2>3, <2>4
<1>5. ASSUME NEW k \in Keys,
             \/ Persist(k) \/ StartFails(k) \/ LaunchFails(k)
             \/ \E failed \in BOOLEAN : Complete(k, failed)
      PROVE  Follows(rec[x].body, rec'[x].body)
  <2>1. pc[k] \in Executing
    BY <1>5 DEF Persist, StartFails, LaunchFails, Complete, Executing
  <2>2. rec[k].body \in {"queued", "running", "started"}
    BY <2>1 DEF QueueInv, QueueMatchesRecords
  <2>3. \E b \in {"started"} \cup Terminal :
          \E s : rec' = [rec EXCEPT ![k] = [status |-> s, body |-> b]]
    <3>1. CASE Persist(k)
      BY <3>1 DEF Persist, StartedRecord
    <3>2. CASE \/ StartFails(k) \/ LaunchFails(k)
                \/ \E failed \in BOOLEAN : Complete(k, failed)
      <4>1. \E failed \in BOOLEAN : Finish(k, failed)
        BY <3>2 DEF StartFails, LaunchFails, Complete
      <4> HIDE DEF IInv, TypeOK
      <4> QED
        BY <2>1, <4>1, FinishFacts
    <3> QED
      BY <1>5, <3>1, <3>2
  <2>4. CASE x = k
    <3>1. rec'[x].body \in {"started"} \cup Terminal
      BY <2>3, <2>4
    <3> QED
      BY <2>2, <2>4, <3>1 DEF Follows, Progress, Terminal
  <2>5. CASE x # k
    BY <1>1, <2>3, <2>5
  <2> QED
    BY <2>4, <2>5
<1>6. ASSUME NEW k \in Keys, Claim(k)
      PROVE  rec'[x].body = rec[x].body
  <2>1. Head(queue) \in Keys
    BY <1>6, PopHead DEF Claim
  <2>2. rec' = [rec EXCEPT ![Head(queue)] =
                  [status |-> "running", body |-> rec[Head(queue)].body]]
    BY <1>6, <2>1 DEF Claim, Dequeued, ClaimedRecord
  <2> QED
    BY <2>1, <2>2
<1> HIDE DEF IInv, TypeOK
<1> QED
  BY <1>1, <1>2, <1>3, <1>4, <1>5, <1>6 DEF Next, Submit, ThreadStep

(* A client is told what the record says when it is told.                  *)
LEMMA AnswersAreRecorded ==
  ASSUME IInv, [Next]_vars, NEW x \in Keys
  PROVE  answer'[x].body \in {answer[x].body, rec'[x].body}
<1> USE DEF IInv, TypeOK
<1>1. CASE UNCHANGED vars
  BY <1>1 DEF vars
<1>2. ASSUME NEW k \in Keys, Replay(k)
      PROVE  answer'[x].body \in {answer[x].body, rec'[x].body}
  BY <1>2 DEF Replay
<1>3. ASSUME NEW k \in Keys, Enqueue(k)
      PROVE  answer'[x].body \in {answer[x].body, rec'[x].body}
  BY <1>3 DEF Enqueue, QueuedRecord
<1>4. ASSUME NEW k \in Keys, Persist(k)
      PROVE  answer'[x].body \in {answer[x].body, rec'[x].body}
  BY <1>4 DEF Persist, StartedRecord
<1>5. ASSUME NEW k \in Keys, StartFails(k)
      PROVE  answer'[x].body \in {answer[x].body, rec'[x].body}
  BY <1>5 DEF StartFails, Finish, FinishedRecord
<1>6. ASSUME NEW k \in Keys,
             \/ Reply(k) \/ StartDirectly(k) \/ Launch(k) \/ LaunchFails(k)
             \/ DrainStops(k) \/ Claim(k)
             \/ \E failed \in BOOLEAN : Complete(k, failed)
      PROVE  answer'[x].body = answer[x].body
  BY <1>6 DEF Reply, StartDirectly, Launch, LaunchFails, Complete, DrainStops,
              Claim
<1> HIDE DEF IInv, TypeOK
<1> QED
  BY <1>1, <1>2, <1>3, <1>4, <1>5, <1>6 DEF Next, Submit, ThreadStep

(* The record stays ahead, and what a client is told follows what it was   *)
(* told before.                                                            *)
LEMMA StepAnswers ==
  ASSUME IInv, RecordsAhead, [Next]_vars
  PROVE  /\ RecordsAhead'
         /\ \A k \in Keys : Follows(answer[k].body, answer'[k].body)
<1>1. IInv'
  BY StepIInv
<1>2. ASSUME NEW k \in Keys
      PROVE  /\ Follows(answer'[k].body, rec'[k].body)
             /\ Follows(answer[k].body, answer'[k].body)
  <2>1. /\ answer[k].body \in Bodies /\ answer'[k].body \in Bodies
        /\ rec[k].body \in Bodies /\ rec'[k].body \in Bodies
    BY <1>1 DEF IInv, TypeOK
  <2>2. Follows(rec[k].body, rec'[k].body)
    BY RecordsAdvance
  <2>3. Follows(answer[k].body, rec'[k].body)
    BY <2>1, <2>2, FollowsOrders DEF RecordsAhead
  <2>4. answer'[k].body \in {answer[k].body, rec'[k].body}
    BY AnswersAreRecorded
  <2> QED
    BY <2>1, <2>3, <2>4, FollowsOrders
<1> QED
  BY <1>2 DEF RecordsAhead

(* Whatever the keys, a client that retries never learns less than it      *)
(* knew, and how a prompt ended never changes.                             *)
THEOREM AnswersOnlyAdvance == Spec => AnswersNeverRegress
<1>1. Init => RecordsAhead
  BY DEF Init, RecordsAhead, Follows, NoAnswer, NoRecord, Progress, Terminal
<1>2. IInv /\ RecordsAhead /\ [Next]_vars => RecordsAhead'
  BY StepAnswers
<1>3. IInv /\ RecordsAhead /\ [Next]_vars =>
        [\A k \in Keys :
           /\ Progress(answer'[k].body) >= Progress(answer[k].body)
           /\ answer[k].body \in Terminal
                => answer'[k].body = answer[k].body]_vars
  BY StepAnswers DEF Follows
<1> QED
  BY <1>1, <1>2, <1>3, IInvHolds, PTL DEF Spec, AnswersNeverRegress
=============================================================================

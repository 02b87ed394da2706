------------------------ MODULE StreamCoordinatorProofs ------------------------
(***************************************************************************)
(* Proofs about StreamCoordinator for any number of starts and events and  *)
(* any stream ids.                                                         *)
(***************************************************************************)
EXTENDS StreamCoordinator, SequenceTheorems, TLAPS

-----------------------------------------------------------------------------
(* The invariant *)

Handling(r) == phase[r] = "handling"

(* Only consumers that have been started are ever cancelled.               *)
StartedInv ==
  /\ cancelled \subseteq 1..starts
  /\ cancel <= starts

(* An event that is being handled has a frame of its consumer's, and a     *)
(* number that no other event has.                                         *)
NumbersInv ==
  /\ \A r \in Runs : Handling(r) =>
       /\ current[r] \in Frame /\ current[r].run = r
       /\ current[r].seq <= seq
       /\ \A i \in DOMAIN out : out[i].seq # current[r].seq
       /\ \A q \in Runs : Handling(q) /\ q # r => current[q].seq # current[r].seq
  /\ \A i \in DOMAIN out : out[i].seq <= seq

(* A consumer's subscription holds events in the order published, all      *)
(* after the one it handles, and that one after those it has dispatched.   *)
OrderInv ==
  \A r \in Runs :
    /\ \A i, j \in DOMAIN inbox[r] : i < j => inbox[r][i] < inbox[r][j]
    /\ \A i \in DOMAIN inbox[r] :
         /\ inbox[r][i] <= published
         /\ Handling(r) => current[r].event < inbox[r][i]
         /\ \A k \in DOMAIN out : out[k].run = r => out[k].event < inbox[r][i]
    /\ Handling(r) =>
         /\ current[r].event <= published
         /\ \A k \in DOMAIN out : out[k].run = r =>
              out[k].event < current[r].event /\ out[k].seq < current[r].seq
    /\ \A k \in DOMAIN out : out[k].run = r => out[k].event <= published

IInv ==
  /\ TypeOK /\ StartedInv /\ NumbersInv /\ OrderInv
  /\ RunningInv /\ DispatchInv

-----------------------------------------------------------------------------
(* Sequences of events and of frames *)

(* Appending adds one element at the end and keeps the others.             *)
LEMMA AppendSeq ==
  ASSUME NEW S, NEW s \in Seq(S), NEW e \in S
  PROVE  /\ Append(s, e) \in Seq(S)
         /\ DOMAIN Append(s, e) = DOMAIN s \cup {Len(s) + 1}
         /\ DOMAIN s \subseteq Nat /\ Len(s) + 1 \in Nat
         /\ \A i \in DOMAIN s : i < Len(s) + 1 /\ Append(s, e)[i] = s[i] /\ s[i] \in S
         /\ Append(s, e)[Len(s) + 1] = e
<1>1. /\ Append(s, e) \in Seq(S)
      /\ Len(Append(s, e)) = Len(s) + 1
      /\ \A i \in 1..Len(s) : Append(s, e)[i] = s[i]
      /\ Append(s, e)[Len(s) + 1] = e
  BY AppendProperties
<1>2. /\ Len(s) \in Nat /\ DOMAIN s = 1..Len(s)
      /\ DOMAIN Append(s, e) = 1..(Len(s) + 1)
  BY <1>1, LenProperties
<1>3. \A i \in 1..Len(s) : s[i] \in S
  BY ElementOfSeq
<1> QED
  BY <1>1, <1>2, <1>3

(* Taking the head shifts the rest by one.                                 *)
LEMMA TailSeq ==
  ASSUME NEW S, NEW s \in Seq(S), s # << >>
  PROVE  /\ Head(s) \in S /\ Tail(s) \in Seq(S)
         /\ 1 \in DOMAIN s /\ Head(s) = s[1]
         /\ DOMAIN s \subseteq Nat
         /\ \A i \in DOMAIN Tail(s) :
              i \in Nat /\ 1 < i + 1 /\ i + 1 \in DOMAIN s /\ Tail(s)[i] = s[i + 1]
<1>1. /\ Len(s) \in Nat \ {0} /\ DOMAIN s = 1..Len(s) /\ Head(s) = s[1]
  BY EmptySeq, LenProperties
<1>2. /\ Tail(s) \in Seq(S) /\ Len(Tail(s)) = Len(s) - 1
      /\ \A i \in 1..Len(Tail(s)) : Tail(s)[i] = s[i + 1]
  BY HeadTailProperties
<1>3. DOMAIN Tail(s) = 1..(Len(s) - 1)
  BY <1>2, LenProperties
<1>4. Head(s) \in S
  BY <1>1, ElementOfSeq
<1> QED
  BY <1>1, <1>2, <1>3, <1>4

(* The invariant holds at first.                                           *)
LEMMA InitInv == Init => IInv
<1> SUFFICES ASSUME Init PROVE IInv
  OBVIOUS
<1>1. \A S : << >> \in Seq(S)
  OBVIOUS
<1>2. TypeOK
  <2>1. inbox \in [Runs -> Seq(Events)] /\ out \in Seq(Frame)
    BY <1>1 DEF Init
  <2>2. current \in [Runs -> Frame \cup {NoFrame}]
    BY DEF Init
  <2>3. phase \in [Runs -> {"none", "subscribing", "receiving", "handling",
                            "leaving", "gone"}]
    BY DEF Init
  <2>4. /\ running \in BOOLEAN
        /\ closing \in BOOLEAN /\ subClosed \in BOOLEAN
    BY Zenon DEF Init
  <2>5. /\ cancel \in Runs \cup {NoRun} /\ cancelled \subseteq Runs /\ refused \subseteq Runs
    BY DEF Init
  <2>6. seq \in Nat /\ starts \in 0..MaxStarts /\ published \in 0..MaxEvents
    BY StreamAssumption DEF Init
  <2> QED
    BY <2>1, <2>2, <2>3, <2>4, <2>5, <2>6 DEF TypeOK
<1>3. StartedInv /\ RunningInv
  BY DEF Init, StartedInv, RunningInv, NoRun
<1>4. NumbersInv /\ OrderInv /\ DispatchInv
  BY DEF Init, NumbersInv, OrderInv, DispatchInv, Handling
<1> QED
  BY <1>2, <1>3, <1>4 DEF IInv

-----------------------------------------------------------------------------
(* Every action keeps it *)

(* A Start makes a new consumer, which nobody has cancelled.               *)
LEMMA StartInv ==
  ASSUME IInv, Start
  PROVE  IInv'
<1> USE StreamAssumption DEF IInv
<1>1. TypeOK'
  BY DEF Start, transport, Runs, NoRun, TypeOK
<1>2. StartedInv'
  BY DEF Start, transport, Runs, NoRun, StartedInv, TypeOK, RunningInv
<1>3. RunningInv'
  BY DEF Start, transport, Runs, NoRun, RunningInv, TypeOK, StartedInv
<1>4. NumbersInv'
  BY DEF Start, transport, Runs, NoRun, NumbersInv, Handling, TypeOK
<1>5. OrderInv'
  BY DEF Start, transport, Runs, NoRun, OrderInv, Handling, TypeOK
<1>6. DispatchInv'
  BY DEF Start, transport, Runs, NoRun, DispatchInv
<1> QED
  BY <1>1, <1>2, <1>3, <1>4, <1>5, <1>6

(* A Stop cancels the consumer the coordinator names and names none.       *)
LEMMA StopInv ==
  ASSUME IInv, Stop
  PROVE  IInv'
<1> USE StreamAssumption DEF IInv
<1>1. TypeOK'
  BY DEF Stop, Cancelled, Halted, transport, Runs, NoRun, TypeOK
<1>2. StartedInv'
  BY DEF Stop, Cancelled, Halted, transport, Runs, NoRun, StartedInv, TypeOK, RunningInv
<1>3. RunningInv'
  BY DEF Stop, Cancelled, Halted, transport, Runs, NoRun, RunningInv, TypeOK, StartedInv
<1>4. NumbersInv'
  BY DEF Stop, Cancelled, Halted, transport, Runs, NoRun, NumbersInv, Handling, TypeOK
<1>5. OrderInv'
  BY DEF Stop, Cancelled, Halted, transport, Runs, NoRun, OrderInv, Handling, TypeOK
<1>6. DispatchInv'
  BY DEF Stop, Cancelled, Halted, transport, Runs, NoRun, DispatchInv
<1> QED
  BY <1>1, <1>2, <1>3, <1>4, <1>5, <1>6

(* So does a Close, which leaves the subscriber for later.                 *)
LEMMA CloseInv ==
  ASSUME IInv, Close
  PROVE  IInv'
<1> USE StreamAssumption DEF IInv
<1>1. TypeOK'
  BY DEF Close, Cancelled, Halted, transport, TypeOK
<1>2. StartedInv'
  BY DEF Close, Cancelled, Halted, transport, StartedInv, Runs, TypeOK, RunningInv, NoRun
<1>3. RunningInv'
  BY DEF Close, Cancelled, Halted, transport, RunningInv, Runs, TypeOK, StartedInv, NoRun
<1>4. NumbersInv'
  BY DEF Close, Cancelled, Halted, transport, NumbersInv, Handling, TypeOK
<1>5. OrderInv'
  BY DEF Close, Cancelled, Halted, transport, OrderInv, Handling, TypeOK
<1>6. DispatchInv'
  BY DEF Close, Cancelled, Halted, transport, DispatchInv
<1> QED
  BY <1>1, <1>2, <1>3, <1>4, <1>5, <1>6

(* Closing the subscriber leaves the coordinator as it is.                 *)
LEMMA CloseSubscriberInv ==
  ASSUME IInv, CloseSubscriber
  PROVE  IInv'
<1> USE StreamAssumption DEF IInv
<1>1. TypeOK'
  BY DEF CloseSubscriber, control, TypeOK
<1>2. StartedInv'
  BY DEF CloseSubscriber, control, StartedInv, Runs, TypeOK, RunningInv, NoRun
<1>3. RunningInv'
  BY DEF CloseSubscriber, control, RunningInv, Runs, TypeOK, StartedInv, NoRun
<1>4. NumbersInv'
  BY DEF CloseSubscriber, control, NumbersInv, Handling, TypeOK
<1>5. OrderInv'
  BY DEF CloseSubscriber, control, OrderInv, Handling, TypeOK
<1>6. DispatchInv'
  BY DEF CloseSubscriber, control, DispatchInv
<1> QED
  BY <1>1, <1>2, <1>3, <1>4, <1>5, <1>6

(* A Start whose subscription failed stops whoever runs by now.            *)
LEMMA FailedStartInv ==
  ASSUME IInv, NEW r \in Runs, FailedStart(r)
  PROVE  IInv'
<1> USE StreamAssumption DEF IInv
<1>1. TypeOK'
  BY DEF FailedStart, Cancelled, Halted, transport, TypeOK
<1>2. StartedInv'
  BY DEF FailedStart, Cancelled, Halted, transport, StartedInv, Runs, TypeOK, RunningInv, NoRun
<1>3. RunningInv'
  BY DEF FailedStart, Cancelled, Halted, transport, RunningInv, Runs, TypeOK, StartedInv, NoRun
<1>4. NumbersInv'
  BY DEF FailedStart, Cancelled, Halted, transport, NumbersInv, Handling, TypeOK
<1>5. OrderInv'
  BY DEF FailedStart, Cancelled, Halted, transport, OrderInv, Handling, TypeOK
<1>6. DispatchInv'
  BY DEF FailedStart, Cancelled, Halted, transport, DispatchInv
<1> QED
  BY <1>1, <1>2, <1>3, <1>4, <1>5, <1>6

(* A consumer that subscribes was started.                                 *)
LEMMA SubscribeInv ==
  ASSUME IInv, NEW r \in Runs, Subscribe(r)
  PROVE  IInv'
<1> USE StreamAssumption DEF IInv
<1>1. TypeOK'
  BY DEF Subscribe, control, transport, TypeOK
<1>2. StartedInv'
  BY DEF Subscribe, control, transport, StartedInv, Runs, TypeOK, RunningInv, NoRun
<1>3. RunningInv'
  BY DEF Subscribe, control, transport, RunningInv, Runs, TypeOK, StartedInv, NoRun
<1>4. NumbersInv'
  BY DEF Subscribe, control, transport, NumbersInv, Handling, TypeOK
<1>5. OrderInv'
  BY DEF Subscribe, control, transport, OrderInv, Handling, TypeOK
<1>6. DispatchInv'
  BY DEF Subscribe, control, transport, DispatchInv
<1> QED
  BY <1>1, <1>2, <1>3, <1>4, <1>5, <1>6

(* One whose subscription fails is on its way out.                         *)
LEMMA SubscribeFailsInv ==
  ASSUME IInv, NEW r \in Runs, SubscribeFails(r)
  PROVE  IInv'
<1> USE StreamAssumption DEF IInv
<1>1. TypeOK'
  BY DEF SubscribeFails, control, transport, TypeOK
<1>2. StartedInv'
  BY DEF SubscribeFails, control, transport, StartedInv, Runs, TypeOK, RunningInv, NoRun
<1>3. RunningInv'
  BY DEF SubscribeFails, control, transport, RunningInv, Runs, TypeOK, StartedInv, NoRun
<1>4. NumbersInv'
  BY DEF SubscribeFails, control, transport, NumbersInv, Handling, TypeOK
<1>5. OrderInv'
  BY DEF SubscribeFails, control, transport, OrderInv, Handling, TypeOK
<1>6. DispatchInv'
  BY DEF SubscribeFails, control, transport, DispatchInv
<1> QED
  BY <1>1, <1>2, <1>3, <1>4, <1>5, <1>6

(* The number an event is given is above every number given before.        *)
LEMMA ReceiveInv ==
  ASSUME IInv, NEW r \in Runs, NEW d \in StreamSeqs, Receive(r, d)
  PROVE  IInv'
<1> USE StreamAssumption DEF IInv
<1>1. /\ phase[r] = "receiving" /\ inbox[r] # << >>
      /\ seq' = NextSeq(d)
      /\ current' = [current EXCEPT ![r] = [run |-> r, event |-> Head(inbox[r]), seq |-> NextSeq(d)]]
      /\ inbox' = [inbox EXCEPT ![r] = Tail(inbox[r])]
      /\ phase' = [phase EXCEPT ![r] = "handling"]
      /\ UNCHANGED <<control, published, subClosed, cancelled, refused, closing, out>>
  BY DEF Receive
<1>2. /\ inbox[r] \in Seq(Events)
      /\ Head(inbox[r]) \in Events /\ Tail(inbox[r]) \in Seq(Events)
      /\ 1 \in DOMAIN inbox[r] /\ Head(inbox[r]) = inbox[r][1]
      /\ DOMAIN inbox[r] \subseteq Nat
      /\ \A i \in DOMAIN Tail(inbox[r]) :
           i \in Nat /\ 1 < i + 1 /\ i + 1 \in DOMAIN inbox[r] /\ Tail(inbox[r])[i] = inbox[r][i + 1]
  BY <1>1, TailSeq DEF TypeOK
<1>3. NextSeq(d) \in Nat /\ NextSeq(d) > seq /\ seq \in Nat
  BY DEF NextSeq, TypeOK
<1>4. /\ current'[r] = [run |-> r, event |-> Head(inbox[r]), seq |-> NextSeq(d)]
      /\ current'[r] \in Frame
      /\ current'[r].run = r /\ current'[r].event = inbox[r][1] /\ current'[r].seq = NextSeq(d)
      /\ phase'[r] = "handling" /\ inbox'[r] = Tail(inbox[r])
      /\ \A q \in Runs : q # r => /\ current'[q] = current[q] /\ phase'[q] = phase[q]
                                 /\ inbox'[q] = inbox[q]
  BY <1>1, <1>2, <1>3 DEF TypeOK, Frame
<1>5. TypeOK'
  <2>1. current' \in [Runs -> Frame \cup {NoFrame}]
    BY <1>1, <1>4 DEF TypeOK
  <2>2. inbox' \in [Runs -> Seq(Events)]
    BY <1>1, <1>2 DEF TypeOK
  <2> QED
    BY <1>1, <1>3, <2>1, <2>2 DEF TypeOK, control
<1>6. StartedInv' /\ DispatchInv'
  BY <1>1 DEF StartedInv, DispatchInv, control
<1>7. RunningInv'
  BY <1>1, <1>4 DEF RunningInv, TypeOK, control
<1>8. out' = out /\ \A i \in DOMAIN out : out[i] \in Frame /\ out[i].seq \in Nat /\ out[i].event \in Nat
  <2>1. out' = out /\ out \in Seq(Frame)
    BY <1>1 DEF TypeOK
  <2>2. ASSUME NEW i \in DOMAIN out
        PROVE  out[i] \in Frame /\ out[i].seq \in Nat /\ out[i].event \in Nat
    <3>1. i \in 1..Len(out)
      BY <2>1, <2>2, LenProperties
    <3>2. out[i] \in Frame
      BY <2>1, <3>1, ElementOfSeq
    <3> QED
      BY <3>2 DEF Frame, Events
  <2> QED
    BY <2>1, <2>2
<1>9. NumbersInv'
  <2>1. \A i \in DOMAIN out : out[i].seq <= seq' /\ out[i].seq # NextSeq(d)
    BY <1>1, <1>3, <1>8 DEF NumbersInv
  <2>2. ASSUME NEW q \in Runs, q # r, Handling(q)'
        PROVE  /\ current'[q] \in Frame /\ current'[q].run = q
               /\ current'[q].seq <= seq' /\ current'[q].seq # NextSeq(d)
               /\ \A i \in DOMAIN out : out[i].seq # current'[q].seq
               /\ \A p \in Runs : Handling(p)' /\ p # r /\ p # q => current'[p].seq # current'[q].seq
    <3>1. Handling(q) /\ current'[q] = current[q]
      BY <1>4, <2>2 DEF Handling
    <3>2. current[q].seq \in Nat /\ current[q].seq <= seq
      BY <3>1 DEF NumbersInv, Frame
    <3>3. \A p \in Runs : Handling(p)' /\ p # r => Handling(p) /\ current'[p] = current[p]
      BY <1>4 DEF Handling
    <3> QED
      BY <1>1, <1>3, <3>1, <3>2, <3>3 DEF NumbersInv
  <2> QED
    BY <1>1, <1>3, <1>4, <1>8, <2>1, <2>2 DEF NumbersInv, Handling
<1>10. OrderInv'
  <2>1. ASSUME NEW q \in Runs, q # r
        PROVE  /\ \A i, j \in DOMAIN inbox'[q] : i < j => inbox'[q][i] < inbox'[q][j]
               /\ \A i \in DOMAIN inbox'[q] :
                    /\ inbox'[q][i] <= published'
                    /\ Handling(q)' => current'[q].event < inbox'[q][i]
                    /\ \A k \in DOMAIN out' : out'[k].run = q => out'[k].event < inbox'[q][i]
               /\ Handling(q)' =>
                    /\ current'[q].event <= published'
                    /\ \A k \in DOMAIN out' : out'[k].run = q =>
                         out'[k].event < current'[q].event /\ out'[k].seq < current'[q].seq
               /\ \A k \in DOMAIN out' : out'[k].run = q => out'[k].event <= published'
    <3>1. (Handling(q)' <=> Handling(q)) /\ current'[q] = current[q] /\ inbox'[q] = inbox[q]
      BY <1>4, <2>1 DEF Handling
    <3> QED
      BY <1>1, <3>1 DEF OrderInv
  <2>2. \A i, j \in DOMAIN inbox'[r] : i < j => inbox'[r][i] < inbox'[r][j]
    BY <1>2, <1>4 DEF OrderInv
  <2>3. \A i \in DOMAIN inbox'[r] :
          /\ inbox'[r][i] <= published
          /\ inbox[r][1] < inbox'[r][i]
          /\ \A k \in DOMAIN out : out[k].run = r => out[k].event < inbox'[r][i]
    BY <1>2, <1>4 DEF OrderInv
  <2>4. /\ inbox[r][1] <= published
        /\ \A k \in DOMAIN out : out[k].run = r =>
             out[k].event < inbox[r][1] /\ out[k].seq < NextSeq(d) /\ out[k].event <= published
    BY <1>2, <1>3, <1>8 DEF OrderInv, NumbersInv
  <2> QED
    BY <1>1, <1>4, <2>1, <2>2, <2>3, <2>4 DEF OrderInv
<1> QED
  BY <1>5, <1>6, <1>7, <1>9, <1>10

(* The frame of the event that was handled comes after all others.         *)
LEMMA HandleInv ==
  ASSUME IInv, NEW r \in Runs, Handle(r)
  PROVE  IInv'
<1> USE StreamAssumption DEF IInv
<1>1. /\ phase[r] = "handling"
      /\ out' = IF current[r].event \in BadEvents THEN out ELSE Append(out, current[r])
      /\ phase' = [phase EXCEPT ![r] = "receiving"]
      /\ current' = [current EXCEPT ![r] = NoFrame]
      /\ UNCHANGED <<control, transport, seq, cancelled, refused, closing>>
  BY DEF Handle, AfterAck
<1>2. current[r] \in Frame /\ current[r].run = r /\ current[r].seq <= seq /\ out \in Seq(Frame)
  BY <1>1 DEF NumbersInv, Handling, TypeOK
<1>3. /\ phase'[r] = "receiving"
      /\ \A q \in Runs : q # r => phase'[q] = phase[q] /\ current'[q] = current[q]
      /\ \A q \in Runs : Handling(q)' => q # r /\ Handling(q) /\ current'[q] = current[q]
  BY <1>1 DEF TypeOK, Handling
<1>4. StartedInv' /\ RunningInv'
  BY <1>1, <1>3 DEF StartedInv, RunningInv, TypeOK, control
<1>5. CASE current[r].event \in BadEvents
  <2>1. out' = out /\ inbox' = inbox /\ published' = published /\ seq' = seq
    BY <1>1, <1>5 DEF transport
  <2>2. TypeOK'
    BY <1>1, <2>1 DEF TypeOK, control, transport
  <2>3. NumbersInv'
    BY <1>3, <2>1 DEF NumbersInv
  <2>4. OrderInv'
    BY <1>3, <2>1 DEF OrderInv
  <2>5. DispatchInv'
    BY <2>1 DEF DispatchInv
  <2> QED
    BY <1>4, <2>2, <2>3, <2>4, <2>5
<1>6. CASE current[r].event \notin BadEvents
  <2> DEFINE n == Len(out) + 1
             f == current[r]
  <2>1. /\ out' = Append(out, f)
        /\ inbox' = inbox /\ published' = published /\ seq' = seq
    BY <1>1, <1>6 DEF transport
  <2>2. /\ out' \in Seq(Frame)
        /\ DOMAIN out' = DOMAIN out \cup {n}
        /\ DOMAIN out \subseteq Nat /\ n \in Nat
        /\ \A i \in DOMAIN out : i < n /\ out'[i] = out[i] /\ out[i] \in Frame
        /\ out'[n] = f
    BY <1>2, <2>1, AppendSeq
  <2>3. /\ f \in Frame /\ f.run = r /\ f.seq <= seq
        /\ \A i \in DOMAIN out : /\ out[i].seq # f.seq
                                 /\ out[i].run = r => out[i].event < f.event /\ out[i].seq < f.seq
        /\ f.event <= published
        /\ \A i \in DOMAIN inbox[r] : f.event < inbox[r][i]
        /\ \A q \in Runs : Handling(q) /\ q # r => current[q].seq # f.seq
    BY <1>1, <1>2 DEF NumbersInv, OrderInv, Handling
  <2> HIDE DEF n, f
  <2>4. TypeOK'
    <3>1. current' \in [Runs -> Frame \cup {NoFrame}] /\ phase' \in [Runs ->
            {"none", "subscribing", "receiving", "handling", "leaving", "gone"}]
      BY <1>1 DEF TypeOK
    <3> QED
      BY <1>1, <2>2, <3>1 DEF TypeOK, control, transport
  <2>5. NumbersInv'
    BY <1>3, <2>1, <2>2, <2>3 DEF NumbersInv
  <2>6. OrderInv'
    <3>1. ASSUME NEW q \in Runs, NEW k \in DOMAIN out', out'[k].run = q
          PROVE  /\ out'[k].event <= published'
                 /\ \A i \in DOMAIN inbox'[q] : out'[k].event < inbox'[q][i]
                 /\ Handling(q)' => /\ out'[k].event < current'[q].event
                                    /\ out'[k].seq < current'[q].seq
      <4>1. CASE k = n
        BY <1>3, <2>1, <2>2, <2>3, <3>1, <4>1
      <4>2. CASE k \in DOMAIN out
        BY <1>3, <2>1, <2>2, <3>1, <4>2 DEF OrderInv
      <4> QED
        BY <2>2, <4>1, <4>2
    <3> QED
      BY <1>3, <2>1, <3>1 DEF OrderInv
  <2>7. DispatchInv'
    BY <2>2, <2>3 DEF DispatchInv
  <2> QED
    BY <1>4, <2>4, <2>5, <2>6, <2>7
<1> QED
  BY <1>5, <1>6

(* Events that are not received any more leave the rest in order.          *)
LEMMA ChannelClosesInv ==
  ASSUME IInv, NEW r \in Runs, ChannelCloses(r)
  PROVE  IInv'
<1> USE StreamAssumption DEF IInv
<1>1. TypeOK'
  BY DEF ChannelCloses, control, TypeOK
<1>2. StartedInv'
  BY DEF ChannelCloses, control, StartedInv, Runs, TypeOK, RunningInv, NoRun
<1>3. RunningInv'
  BY DEF ChannelCloses, control, RunningInv, Runs, TypeOK, StartedInv, NoRun
<1>4. NumbersInv'
  BY DEF ChannelCloses, control, NumbersInv, Handling, TypeOK
<1>5. OrderInv'
  BY DEF ChannelCloses, control, OrderInv, Handling, TypeOK
<1>6. DispatchInv'
  BY DEF ChannelCloses, control, DispatchInv
<1> QED
  BY <1>1, <1>2, <1>3, <1>4, <1>5, <1>6

(* A consumer that leaves takes the one that is named with it.             *)
LEMMA LeaveInv ==
  ASSUME IInv, NEW r \in Runs, Leave(r)
  PROVE  IInv'
<1> USE StreamAssumption DEF IInv
<1>1. TypeOK'
  BY DEF Leave, Released, Halted, transport, TypeOK
<1>2. StartedInv'
  BY DEF Leave, Released, Halted, transport, StartedInv, Runs, TypeOK, RunningInv, NoRun
<1>3. RunningInv'
  BY DEF Leave, Released, Halted, transport, RunningInv, Runs, TypeOK, StartedInv, NoRun
<1>4. NumbersInv'
  BY DEF Leave, Released, Halted, transport, NumbersInv, Handling, TypeOK
<1>5. OrderInv'
  BY DEF Leave, Released, Halted, transport, OrderInv, Handling, TypeOK
<1>6. DispatchInv'
  BY DEF Leave, Released, Halted, transport, DispatchInv
<1> QED
  BY <1>1, <1>2, <1>3, <1>4, <1>5, <1>6

(* A new event comes after all events published before it.                 *)
LEMMA PublishInv ==
  ASSUME IInv, Publish
  PROVE  IInv'
<1> USE StreamAssumption DEF IInv
<1>1. /\ published < MaxEvents /\ published' = published + 1
      /\ inbox' = [r \in Runs |-> IF r \in Subscribed THEN Append(inbox[r], published') ELSE inbox[r]]
      /\ UNCHANGED <<control, subClosed, seq, phase, cancelled, current, refused, closing, out>>
  BY DEF Publish
<1>2. published' \in Events /\ published \in Nat /\ published < published'
  BY <1>1 DEF TypeOK, Events
<1>3. \A i \in DOMAIN out : out[i] \in Frame /\ out[i].event \in Nat
  <2>1. out \in Seq(Frame)
    BY DEF TypeOK
  <2>2. ASSUME NEW i \in DOMAIN out
        PROVE  out[i] \in Frame /\ out[i].event \in Nat
    <3>1. i \in 1..Len(out)
      BY <2>1, <2>2, LenProperties
    <3>2. out[i] \in Frame
      BY <2>1, <3>1, ElementOfSeq
    <3> QED
      BY <3>2 DEF Frame, Events
  <2> QED
    BY <2>2
<1>4. \A r \in Runs : Handling(r) => current[r].event \in Nat
  BY DEF NumbersInv, Frame, Events
<1>5. ASSUME NEW r \in Runs
      PROVE  /\ inbox'[r] \in Seq(Events)
             /\ \A i, j \in DOMAIN inbox'[r] : i < j => inbox'[r][i] < inbox'[r][j]
             /\ \A i \in DOMAIN inbox'[r] :
                  \/ i \in DOMAIN inbox[r] /\ inbox'[r][i] = inbox[r][i] /\ inbox[r][i] \in Nat
                  \/ inbox'[r][i] = published'
  <2>1. inbox[r] \in Seq(Events)
    BY DEF TypeOK
  <2>2. CASE r \notin Subscribed
    <3>1. inbox'[r] = inbox[r]
      BY <1>1, <2>2
    <3>2. \A i \in DOMAIN inbox[r] : inbox[r][i] \in Nat
      BY <2>1, ElementOfSeq, LenProperties DEF Events
    <3> QED
      BY <2>1, <3>1, <3>2 DEF OrderInv
  <2>3. CASE r \in Subscribed
    <3> DEFINE n == Len(inbox[r]) + 1
    <3>1. inbox'[r] = Append(inbox[r], published')
      BY <1>1, <2>3
    <3>2. /\ inbox'[r] \in Seq(Events)
          /\ DOMAIN inbox'[r] = DOMAIN inbox[r] \cup {n}
          /\ DOMAIN inbox[r] \subseteq Nat /\ n \in Nat
          /\ \A i \in DOMAIN inbox[r] : i < n /\ inbox'[r][i] = inbox[r][i] /\ inbox[r][i] \in Events
          /\ inbox'[r][n] = published'
      BY <1>2, <2>1, <3>1, AppendSeq
    <3>3. \A i \in DOMAIN inbox[r] : inbox[r][i] \in Nat /\ inbox[r][i] < published'
      BY <1>2, <3>2 DEF OrderInv, Events
    <3> HIDE DEF n
    <3> QED
      BY <3>2, <3>3 DEF OrderInv
  <2> QED
    BY <2>2, <2>3
<1>6. TypeOK'
  <2>1. inbox' \in [Runs -> Seq(Events)]
    BY <1>1, <1>5
  <2> QED
    BY <1>1, <1>2, <2>1 DEF TypeOK, control, Events
<1>7. StartedInv' /\ RunningInv' /\ DispatchInv'
  BY <1>1 DEF StartedInv, RunningInv, DispatchInv, control
<1>8. NumbersInv'
  BY <1>1 DEF NumbersInv, Handling
<1>9. OrderInv'
  <2>1. ASSUME NEW r \in Runs, NEW i \in DOMAIN inbox'[r]
        PROVE  /\ inbox'[r][i] <= published'
               /\ Handling(r)' => current'[r].event < inbox'[r][i]
               /\ \A k \in DOMAIN out' : out'[k].run = r => out'[k].event < inbox'[r][i]
    <3>1. CASE i \in DOMAIN inbox[r] /\ inbox'[r][i] = inbox[r][i] /\ inbox[r][i] \in Nat
      BY <1>1, <1>2, <3>1 DEF OrderInv, Handling
    <3>2. CASE inbox'[r][i] = published'
      BY <1>1, <1>2, <1>3, <1>4, <3>2 DEF OrderInv, Handling
    <3> QED
      BY <1>5, <3>1, <3>2
  <2>2. \A r \in Runs :
          /\ Handling(r)' =>
               /\ current'[r].event <= published'
               /\ \A k \in DOMAIN out' : out'[k].run = r =>
                    out'[k].event < current'[r].event /\ out'[k].seq < current'[r].seq
          /\ \A k \in DOMAIN out' : out'[k].run = r => out'[k].event <= published'
    BY <1>1, <1>2, <1>3, <1>4 DEF OrderInv, Handling
  <2> QED
    BY <1>5, <2>1, <2>2 DEF OrderInv
<1> QED
  BY <1>6, <1>7, <1>8, <1>9

(* Every step keeps it.                                                    *)
LEMMA StepInv == IInv /\ [Next]_vars => IInv'
<1> SUFFICES ASSUME IInv, [Next]_vars PROVE IInv'
  OBVIOUS
<1>1. CASE UNCHANGED vars
  BY <1>1 DEF vars, control, transport, IInv, TypeOK, StartedInv, NumbersInv, OrderInv,
              RunningInv, DispatchInv, Handling
<1> HIDE DEF IInv
<1>2. ASSUME NEW r \in Runs, Consume(r)
      PROVE  IInv'
  BY <1>2, SubscribeInv, SubscribeFailsInv, ReceiveInv, HandleInv, ChannelClosesInv, LeaveInv
     DEF Consume
<1> QED
  BY <1>1, <1>2, StartInv, StopInv, CloseInv, CloseSubscriberInv, PublishInv, FailedStartInv
     DEF Next

(* So it always holds.                                                     *)
LEMMA InvHolds == Spec => []IInv
<1> HIDE DEF IInv
<1> QED
  BY InitInv, StepInv, PTL DEF Spec

(* Every variable keeps to its type.                                       *)
THEOREM StreamTypeCorrect == Spec => []TypeOK
<1>1. IInv => TypeOK
  BY DEF IInv
<1> HIDE DEF IInv
<1> QED
  BY InvHolds, <1>1, PTL

(* A coordinator that says it is running has a consumer to cancel.         *)
THEOREM RunningIsServed == Spec => []RunningInv
<1>1. IInv => RunningInv
  BY DEF IInv
<1> HIDE DEF IInv
<1> QED
  BY InvHolds, <1>1, PTL

(* However consumers overlap, no two frames have the same number and each  *)
(* consumer's frames are in order.                                         *)
THEOREM DispatchInOrder == Spec => []DispatchInv
<1>1. IInv => DispatchInv
  BY DEF IInv
<1> HIDE DEF IInv
<1> QED
  BY InvHolds, <1>1, PTL
=============================================================================

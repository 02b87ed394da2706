--------------------------- MODULE StreamCoordinator ---------------------------
(***************************************************************************)
(* The stream of one conversation, pkg/webchat/stream_coordinator.go: a    *)
(* consumer goroutine per Start, each with its own subscription, stopped   *)
(* by cancelling its context.  Start, Stop and Close are called from       *)
(* AddConn, the runner, the idle timer, a rebuild and the eviction loop.   *)
(* A section under the coordinator's mutex is one step; consumer r is the  *)
(* goroutine of the r-th Start that found the stream stopped.              *)
(*                                                                         *)
(* The in-memory transport gives every live subscription its own copy of   *)
(* an event, one at a time, the next one after the Ack.  An event stands   *)
(* for the frames it is translated to; an undecodable one has none.        *)
(***************************************************************************)
EXTENDS Naturals, Sequences

CONSTANTS MaxStarts,  \* bound: consumers started
          MaxEvents,  \* bound: events published
          BadEvents,  \* the events whose payload cannot be decoded
          StreamSeqs  \* sequence numbers derived from stream ids; 0: no id

ASSUME StreamAssumption ==
  /\ MaxStarts \in Nat /\ MaxEvents \in Nat
  /\ BadEvents \subseteq 1..MaxEvents
  /\ StreamSeqs \subseteq Nat

Runs == 1..MaxStarts
Events == 1..MaxEvents
NoRun == 0

VARIABLES
  running,   \* StreamCoordinator.running
  cancel,    \* the consumer StreamCoordinator.cancel cancels, or NoRun
  seq,       \* StreamCoordinator.seq
  starts,    \* how many consumers have been started
  phase,     \* per consumer: none, subscribing, receiving, handling, leaving, gone
  cancelled, \* consumers whose context is cancelled
  inbox,     \* per consumer, the events its subscription has for it
  current,   \* per consumer, the event it handles and the number it gave it
  refused,   \* consumers whose Start has yet to see the subscription's error
  closing,   \* Close has stopped the stream, the subscriber is still open
  subClosed, \* the subscriber is closed
  published, \* how many events have been published
  out        \* the frames handed to onFrame, in order

control == <<running, cancel, starts>>
transport == <<inbox, published, subClosed>>
vars == <<control, transport, seq, phase, cancelled, current, refused, closing, out>>

Frame == [run : Runs, event : Events, seq : Nat]
NoFrame == [run |-> NoRun]

TypeOK ==
  /\ running \in BOOLEAN /\ cancel \in Runs \cup {NoRun}
  /\ seq \in Nat
  /\ starts \in 0..MaxStarts
  /\ phase \in [Runs -> {"none", "subscribing", "receiving", "handling",
                         "leaving", "gone"}]
  /\ cancelled \subseteq Runs /\ refused \subseteq Runs
  /\ inbox \in [Runs -> Seq(Events)]
  /\ current \in [Runs -> Frame \cup {NoFrame}]
  /\ closing \in BOOLEAN /\ subClosed \in BOOLEAN
  /\ published \in 0..MaxEvents
  /\ out \in Seq(Frame)

Init ==
  /\ running = FALSE /\ cancel = NoRun /\ seq = 0 /\ starts = 0
  /\ phase = [r \in Runs |-> "none"]
  /\ cancelled = {} /\ refused = {}
  /\ inbox = [r \in Runs |-> << >>]
  /\ current = [r \in Runs |-> NoFrame]
  /\ closing = FALSE /\ subClosed = FALSE
  /\ published = 0 /\ out = << >>

-----------------------------------------------------------------------------
(* Mistaken versions of definitions below: a derived number used as it is, *)
(* an undecodable event that is not acknowledged, a consumer that leaves   *)
(* without a trace, a call of a cancel that is nil.                        *)

DerivedAsIs(derived) == IF derived = 0 THEN seq + 1 ELSE derived
NeverAcked(r) == IF current[r].event \in BadEvents THEN "handling" ELSE "receiving"
LeavesQuietly(r) == UNCHANGED <<running, cancel>>
CancelsNil == cancelled' = cancelled \cup {cancel}

-----------------------------------------------------------------------------
(* Starting and stopping *)

Halted == running' = FALSE /\ cancel' = NoRun
Cancelled == cancelled' = cancelled \cup ({cancel} \ {NoRun})

(* A Start that finds the stream running does nothing.                     *)
Start ==
  /\ ~running
  /\ starts < MaxStarts
  /\ starts' = starts + 1
  /\ running' = TRUE
  /\ cancel' = starts'
  /\ phase' = [phase EXCEPT ![starts'] = "subscribing"]
  /\ UNCHANGED <<transport, seq, cancelled, current, refused, closing, out>>

Stop ==
  /\ Cancelled
  /\ Halted
  /\ UNCHANGED <<transport, starts, seq, phase, current, refused, closing, out>>

(* Close is Stop and then, without the lock, the subscriber's Close.       *)
Close ==
  /\ ~closing /\ ~subClosed
  /\ Cancelled
  /\ Halted
  /\ closing' = TRUE
  /\ UNCHANGED <<transport, starts, seq, phase, current, refused, out>>

CloseSubscriber ==
  /\ closing
  /\ closing' = FALSE
  /\ subClosed' = TRUE
  /\ UNCHANGED <<control, inbox, published, seq, phase, cancelled, current, refused, out>>

(* Start has been told that its subscription failed.  It cancels the       *)
(* consumer that cancel names by now.                                      *)
FailedStart(r) ==
  /\ r \in refused
  /\ refused' = refused \ {r}
  /\ Cancelled
  /\ Halted
  /\ UNCHANGED <<transport, starts, seq, phase, current, closing, out>>

-----------------------------------------------------------------------------
(* The consumer *)

Subscribe(r) ==
  /\ phase[r] = "subscribing"
  /\ ~subClosed
  /\ phase' = [phase EXCEPT ![r] = "receiving"]
  /\ UNCHANGED <<control, transport, seq, cancelled, current, refused, closing, out>>

SubscribeFails(r) ==
  /\ phase[r] = "subscribing"
  /\ phase' = [phase EXCEPT ![r] = "leaving"]
  /\ refused' = refused \cup {r}
  /\ UNCHANGED <<control, transport, seq, cancelled, current, closing, out>>

(* nextSeq: the number derived from the stream id, unless it is behind.    *)
NextSeq(derived) == IF derived > seq THEN derived ELSE seq + 1

Receive(r, derived) ==
  /\ phase[r] = "receiving"
  /\ inbox[r] # << >>
  /\ seq' = NextSeq(derived)
  /\ current' = [current EXCEPT ![r] =
                   [run |-> r, event |-> Head(inbox[r]), seq |-> NextSeq(derived)]]
  /\ inbox' = [inbox EXCEPT ![r] = Tail(@)]
  /\ phase' = [phase EXCEPT ![r] = "handling"]
  /\ UNCHANGED <<control, published, subClosed, cancelled, refused, closing, out>>

AfterAck(r) == "receiving"

(* The frames go to onFrame; decodable or not, the event is acknowledged.  *)
Handle(r) ==
  /\ phase[r] = "handling"
  /\ out' = IF current[r].event \in BadEvents THEN out ELSE Append(out, current[r])
  /\ phase' = [phase EXCEPT ![r] = AfterAck(r)]
  /\ current' = IF AfterAck(r) = "receiving"
                THEN [current EXCEPT ![r] = NoFrame] ELSE current
  /\ UNCHANGED <<control, transport, seq, cancelled, refused, closing>>

(* A cancelled consumer may still be handed events before its channel is   *)
(* closed.                                                                 *)
ChannelCloses(r) ==
  /\ phase[r] = "receiving"
  /\ r \in cancelled \/ subClosed
  /\ phase' = [phase EXCEPT ![r] = "leaving"]
  /\ inbox' = [inbox EXCEPT ![r] = << >>]
  /\ UNCHANGED <<control, published, subClosed, seq, cancelled, current, refused,
                 closing, out>>

(* What a consumer does to the coordinator on its way out, whoever it is   *)
(* that runs by now.                                                       *)
Released(r) == Halted

Leave(r) ==
  /\ phase[r] = "leaving"
  /\ Released(r)
  /\ phase' = [phase EXCEPT ![r] = "gone"]
  /\ UNCHANGED <<transport, starts, seq, cancelled, current, refused, closing,
                 out>>

-----------------------------------------------------------------------------
(* The transport: an event goes to every subscription there is.            *)

Subscribed == {r \in Runs : phase[r] \in {"receiving", "handling"}}

Publish ==
  /\ published < MaxEvents
  /\ published' = published + 1
  /\ inbox' = [r \in Runs |-> IF r \in Subscribed
                              THEN Append(inbox[r], published') ELSE inbox[r]]
  /\ UNCHANGED <<control, subClosed, seq, phase, cancelled, current, refused, closing,
                 out>>

-----------------------------------------------------------------------------
Consume(r) ==
  \/ Subscribe(r) \/ SubscribeFails(r)
  \/ \E d \in StreamSeqs : Receive(r, d)
  \/ Handle(r) \/ ChannelCloses(r) \/ Leave(r)

Next ==
  \/ Start \/ Stop \/ Close \/ CloseSubscriber \/ Publish
  \/ \E r \in Runs : Consume(r) \/ FailedStart(r)

Spec == Init /\ [][Next]_vars

(* Goroutines run, and the transport closes the channel of a cancelled     *)
(* subscription even if there always are events for it.                    *)
FairSpec ==
  /\ Spec
  /\ \A r \in Runs : /\ WF_vars(Consume(r))
                     /\ SF_vars(ChannelCloses(r))
                     /\ WF_vars(FailedStart(r))
  /\ WF_vars(CloseSubscriber)

-----------------------------------------------------------------------------
(* Properties *)

(* When the coordinator says it is running, the consumer it would cancel   *)
(* is there and has not been cancelled: AddConn and the runner rely on     *)
(* IsRunning and start nothing when it holds (Start, Stop, consume).       *)
RunningInv ==
  /\ running <=> cancel # NoRun
  /\ running => /\ cancel \notin cancelled
                /\ phase[cancel] \notin {"none", "gone"}
  /\ \A r \in Runs : r > starts => phase[r] = "none"

(* However consumers overlap and whatever ids the events carry, no two     *)
(* frames have the same number, and those of one consumer are in the order *)
(* published and in the order of their numbers (nextSeq, consume): the     *)
(* number becomes the version of the timeline entities they project to.    *)
DispatchInv ==
  \A i, j \in DOMAIN out : i < j =>
    /\ out[i].seq # out[j].seq
    /\ out[i].run = out[j].run => /\ out[i].event < out[j].event
                                  /\ out[i].seq < out[j].seq

(* A subscribed consumer that is not cancelled gets to dispatch what it    *)
(* was sent, after undecodable events too (the Ack on every path).         *)
Pending(r, e) == \E i \in DOMAIN inbox[r] : inbox[r][i] = e
EventsAreHandled ==
  \A r \in Runs, e \in Events \ BadEvents :
    Pending(r, e) ~> \/ r \in cancelled \/ subClosed
                     \/ \E i \in DOMAIN out : out[i].run = r /\ out[i].event = e
=============================================================================

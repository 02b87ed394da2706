---------------------------- MODULE ConnectionPool ----------------------------
(***************************************************************************)
(* The websocket clients of one conversation and their idle timer:         *)
(* pkg/webchat/connection_pool.go, with the goroutines that use it.        *)
(*                                                                         *)
(* Threads: senders broadcast (stream consumers, drained prompts and, for  *)
(* a prompt that starts at once, the goroutine of its HTTP handler); each  *)
(* client has a writer (ConnectionPool.writer) and a reader:               *)
(* StreamHub.AttachWebSocket, which greets it through SendToOne and leaves *)
(* a read loop behind that answers pings the same way.  The evictor calls  *)
(* CloseAll.  A section that holds the pool's mutex is one step; sends on  *)
(* channels and Close happen unlocked.                                     *)
(*                                                                         *)
(* Messages are counted, not kept: a channel is FIFO, so the number of the *)
(* last broadcast of each sender that a client's channel accepted tells    *)
(* what the client gets.  The idle timeout is positive and onIdle is set.  *)
(***************************************************************************)
EXTENDS Naturals, FiniteSets

CONSTANTS Clients,    \* websocket connections, each attached once
          Senders,    \* goroutines that broadcast
          Handlers,   \* those of HTTP handlers, where net/http recovers panics
          Evictor,    \* the goroutine that cleans the conversation up
          NoClient,
          SendBuffer, \* capacity of a client's send channel
          MaxMsgs,    \* bound: broadcasts per sender
          MaxFired    \* bound: timer goroutines at a time

Writer(c) == <<"writer", c>>
Reader(c) == <<"reader", c>>

ASSUME PoolAssumption ==
  /\ NoClient \notin Clients
  /\ Evictor \notin Senders /\ Handlers \subseteq Senders
  /\ \A c \in Clients : {Writer(c), Reader(c)} \cap (Senders \cup {Evictor}) = {}
  /\ SendBuffer \in Nat \ {0}
  /\ MaxMsgs \in Nat
  /\ MaxFired \in Nat \ {0}

Threads == Senders \cup {Evictor}
             \cup {Writer(c) : c \in Clients} \cup {Reader(c) : c \in Clients}

VARIABLES
  conns,      \* ConnectionPool.conns
  attached,   \* clients that have ever been added
  closed,     \* clients whose poolClient.Close has run
  buf,        \* how many messages each send channel holds
  cnt,        \* how many broadcasts each sender has begun
  last,       \* per client and sender, the last broadcast accepted
  stage,      \* where each thread is, one of Stages
  todo,       \* clients a thread still has to send to (or close)
  victim,     \* the client a thread is dropping
  idleTimer,  \* ConnectionPool.idleTimer: nil, ticking or fired
  stray,      \* ticking timers that idleTimer no longer points to
  fired,      \* timer goroutines about to enter triggerIdle
  noticed,    \* emptiness was reported since the last Add (history)
  crashed     \* a send on a closed channel has ended the process

members == <<conns, attached, closed>>
traffic == <<buf, cnt, last>>
timers  == <<idleTimer, stray, fired, noticed>>
vars == <<members, traffic, stage, todo, victim, timers, crashed>>

(* attach and greet: AttachWebSocket before and in SendToOne; panicked: a  *)
(* handler's goroutine that net/http has ended.                            *)
Stages == {"none", "attach", "greet", "run", "drop", "close", "leave", "exit",
           "panicked"}

TypeOK ==
  /\ conns \subseteq attached /\ attached \subseteq Clients
  /\ closed \subseteq attached
  /\ buf \in [Clients -> 0..SendBuffer]
  /\ cnt \in [Senders -> 0..MaxMsgs]
  /\ last \in [Clients -> [Senders -> 0..MaxMsgs]]
  /\ stage \in [Threads -> Stages]
  /\ todo \in [Threads -> SUBSET Clients]
  /\ victim \in [Threads -> Clients \cup {NoClient}]
  /\ idleTimer \in {"nil", "ticking", "fired"}
  /\ stray \in Nat /\ fired \in Nat
  /\ noticed \in BOOLEAN /\ crashed \in BOOLEAN

Init ==
  /\ conns = {} /\ attached = {} /\ closed = {}
  /\ buf = [c \in Clients |-> 0]
  /\ cnt = [s \in Senders |-> 0]
  /\ last = [c \in Clients |-> [s \in Senders |-> 0]]
  /\ stage = [t \in Threads |-> IF t \in Senders \cup {Evictor}
                                THEN "run" ELSE "none"]
  /\ todo = [t \in Threads |-> {}]
  /\ victim = [t \in Threads |-> NoClient]
  /\ idleTimer = "nil"
  /\ stray = 0 /\ fired = 0
  /\ noticed = FALSE /\ crashed = FALSE

-----------------------------------------------------------------------------
(* Mistaken versions of definitions below: a timer scheduled before the    *)
(* client is deleted, a full buffer that loses the message silently, an    *)
(* Add that leaves the timer alone, a buffer that takes one message too    *)
(* many.                                                                   *)

ScheduledBeforeDelete(left) ==
  IF conns # {} THEN idleTimer' = "nil" ELSE idleTimer' = "ticking"
LoseMessage(t, c) == UNCHANGED <<buf, last, stage, victim>>
KeepIdleTimer == UNCHANGED idleTimer
OffByOne(c) == buf[c] <= SendBuffer

-----------------------------------------------------------------------------
(* The idle timer *)

StopIdleTimer == idleTimer' = "nil"

(* Called with the clients that are left; rearms the timer when none is.   *)
ScheduleIdleTimer(left) ==
  IF left # {} THEN StopIdleTimer ELSE idleTimer' = "ticking"

(* The runtime starts triggerIdle in a goroutine of its own; stopping the  *)
(* timer from here on has no effect.                                       *)
TimerFires ==
  /\ fired < MaxFired
  /\ \/ idleTimer = "ticking" /\ idleTimer' = "fired" /\ UNCHANGED stray
     \/ stray > 0 /\ stray' = stray - 1 /\ UNCHANGED idleTimer
  /\ fired' = fired + 1
  /\ UNCHANGED <<members, traffic, stage, todo, victim, noticed, crashed>>

(* The locked part of triggerIdle; onIdle follows it.  It clears idleTimer *)
(* whichever timer that is, so a newer one ticks on untracked.             *)
TriggerIdle ==
  /\ fired > 0
  /\ fired' = fired - 1
  /\ noticed' = (noticed \/ conns = {})
  /\ stray' = stray + (IF idleTimer = "ticking" THEN 1 ELSE 0)
  /\ idleTimer' = "nil"
  /\ UNCHANGED <<members, traffic, stage, todo, victim, crashed>>

-----------------------------------------------------------------------------
(* Clients come *)

(* The client starts with everything broadcast so far behind it.           *)
Add(c) ==
  /\ c \notin attached
  /\ conns' = conns \cup {c}
  /\ attached' = attached \cup {c}
  /\ StopIdleTimer
  /\ last' = [last EXCEPT ![c] = cnt]
  /\ stage' = [stage EXCEPT ![Writer(c)] = "run", ![Reader(c)] = "attach"]
  /\ noticed' = FALSE
  /\ UNCHANGED <<closed, buf, cnt, todo, victim, stray, fired, crashed>>

-----------------------------------------------------------------------------
(* Messages are sent *)

Idle(t) == stage[t] = "run" /\ todo[t] = {}

(* Broadcast copies the clients under the lock and sends outside it.       *)
Broadcast(s) ==
  /\ Idle(s)
  /\ cnt[s] < MaxMsgs
  /\ cnt' = [cnt EXCEPT ![s] = @ + 1]
  /\ todo' = [todo EXCEPT ![s] = conns]
  /\ UNCHANGED <<members, buf, last, stage, victim, timers, crashed>>

(* SendToOne looks the client up under the lock: here for a pong.          *)
SendToOne(c) ==
  /\ Idle(Reader(c))
  /\ c \in conns
  /\ todo' = [todo EXCEPT ![Reader(c)] = {c}]
  /\ UNCHANGED <<members, traffic, stage, victim, timers, crashed>>

(* AttachWebSocket sends a hello, unless that is off or the client is gone *)
(* already, before it starts the read loop.                                *)
Greet(c) ==
  /\ stage[Reader(c)] = "attach"
  /\ \/ /\ c \in conns
        /\ stage' = [stage EXCEPT ![Reader(c)] = "greet"]
        /\ todo' = [todo EXCEPT ![Reader(c)] = {c}]
     \/ stage' = [stage EXCEPT ![Reader(c)] = "run"] /\ UNCHANGED todo
  /\ UNCHANGED <<members, traffic, victim, timers, crashed>>

Sending(t) == stage[t] \in {"run", "greet"} /\ t # Evictor

HasRoom(c) == buf[c] < SendBuffer

Accept(t, c) ==
  /\ buf' = [buf EXCEPT ![c] = @ + 1]
  /\ last' = IF t \in Senders THEN [last EXCEPT ![c][t] = cnt[t]] ELSE last
  /\ stage' = [stage EXCEPT ![t] = "run"]
  /\ UNCHANGED victim

BufferFull(t, c) ==
  /\ stage' = [stage EXCEPT ![t] = "drop"]
  /\ victim' = [victim EXCEPT ![t] = c]
  /\ UNCHANGED <<buf, last>>

(* TrySend never blocks: a full buffer makes the sender drop the client.   *)
TrySend(t, c) ==
  /\ Sending(t)
  /\ c \in todo[t] \ closed
  /\ todo' = [todo EXCEPT ![t] = @ \ {c}]
  /\ IF HasRoom(c) THEN Accept(t, c) ELSE BufferFull(t, c)
  /\ UNCHANGED <<members, cnt, timers, crashed>>

(* Sending on a closed channel panics.  In the goroutine of an HTTP        *)
(* handler net/http recovers: the handler ends where it is, and whoever it *)
(* has not got to goes without its message (and a client being greeted,    *)
(* without a read loop).  In any other goroutine the process ends.         *)
SendOnClosed(t, c) ==
  /\ Sending(t)
  /\ c \in todo[t] \cap closed
  /\ IF t \in Handlers \/ stage[t] = "greet"
     THEN stage' = [stage EXCEPT ![t] = "panicked"] /\ UNCHANGED crashed
     ELSE crashed' = TRUE /\ UNCHANGED stage
  /\ UNCHANGED <<members, traffic, todo, victim, timers>>

(* The writer takes a message from the channel and writes it.  Once its    *)
(* client is closed and out of the pool it only fails and ends, and        *)
(* changes nothing.                                                        *)
Write(c) ==
  /\ stage[Writer(c)] = "run"
  /\ buf[c] > 0
  /\ c \notin closed
  /\ buf' = [buf EXCEPT ![c] = @ - 1]
  /\ UNCHANGED <<members, cnt, last, stage, todo, victim, timers, crashed>>

WriteFails(c) ==
  /\ stage[Writer(c)] = "run"
  /\ buf[c] > 0
  /\ c \notin closed
  /\ buf' = [buf EXCEPT ![c] = @ - 1]
  /\ stage' = [stage EXCEPT ![Writer(c)] = "drop"]
  /\ victim' = [victim EXCEPT ![Writer(c)] = c]
  /\ UNCHANGED <<members, cnt, last, todo, timers, crashed>>

-----------------------------------------------------------------------------
(* Clients go *)

(* The locked part of dropClient.                                          *)
Drop(t) ==
  LET c == victim[t] IN
  /\ stage[t] = "drop"
  /\ conns' = conns \ {c}
  /\ IF c \in conns THEN ScheduleIdleTimer(conns') ELSE UNCHANGED idleTimer
  /\ stage' = [stage EXCEPT ![t] = "close"]
  /\ UNCHANGED <<attached, closed, traffic, todo, victim, stray, fired,
                 noticed, crashed>>

(* The read loop ends; the locked part of Remove.  It schedules the timer  *)
(* even for a client that has been dropped, and then there is nothing to   *)
(* close.                                                                  *)
Remove(c) ==
  /\ Idle(Reader(c))
  /\ conns' = conns \ {c}
  /\ ScheduleIdleTimer(conns')
  /\ IF c \in conns
     THEN /\ stage' = [stage EXCEPT ![Reader(c)] = "leave"]
          /\ victim' = [victim EXCEPT ![Reader(c)] = c]
     ELSE /\ stage' = [stage EXCEPT ![Reader(c)] = "exit"]
          /\ UNCHANGED victim
  /\ UNCHANGED <<attached, closed, traffic, todo, stray, fired, noticed,
                 crashed>>

(* poolClient.Close, once per client; the thread goes on or ends.          *)
Close(t) ==
  /\ stage[t] \in {"close", "leave"}
  /\ closed' = closed \cup {victim[t]}
  /\ stage' = [stage EXCEPT ![t] =
                 IF @ = "leave" \/ t = Writer(victim[t]) THEN "exit" ELSE "run"]
  /\ victim' = [victim EXCEPT ![t] = NoClient]
  /\ UNCHANGED <<conns, attached, traffic, todo, timers, crashed>>

(* CloseAll, when the conversation is evicted or the manager closes.       *)
CloseAll ==
  /\ stage[Evictor] = "run"
  /\ todo' = [todo EXCEPT ![Evictor] = conns]
  /\ conns' = {}
  /\ StopIdleTimer
  /\ stage' = [stage EXCEPT ![Evictor] = "exit"]
  /\ UNCHANGED <<attached, closed, traffic, victim, stray, fired, noticed,
                 crashed>>

CloseNext(c) ==
  /\ c \in todo[Evictor]
  /\ closed' = closed \cup {c}
  /\ todo' = [todo EXCEPT ![Evictor] = @ \ {c}]
  /\ UNCHANGED <<conns, attached, traffic, stage, victim, timers, crashed>>

-----------------------------------------------------------------------------
TimerStep == TimerFires \/ TriggerIdle

Next ==
  /\ ~crashed
  /\ \/ TimerStep
     \/ CloseAll
     \/ \E s \in Senders : Broadcast(s)
     \/ \E t \in Threads : Drop(t) \/ Close(t)
     \/ \E t \in Threads, c \in Clients : TrySend(t, c) \/ SendOnClosed(t, c)
     \/ \E c \in Clients :
          \/ Add(c) \/ Greet(c) \/ SendToOne(c) \/ Remove(c) \/ CloseNext(c)
          \/ Write(c) \/ WriteFails(c)

Spec == Init /\ [][Next]_vars

-----------------------------------------------------------------------------
(* Properties *)

(* A client in the pool has been handed every broadcast begun since it was *)
(* added, but for one its sender still has for it, is dropping it over, or *)
(* left undelivered when its HTTP handler panicked on another client.  So  *)
(* a client that cannot keep up is cut off and never left with a gap, and  *)
(* only the last message of a handler that panicked makes one (Broadcast,  *)
(* TrySend, dropClient).                                                   *)
NothingMissed ==
  \A c \in conns, s \in Senders :
    \/ last[c][s] = cnt[s]
    \/ /\ last[c][s] + 1 = cnt[s]
       /\ \/ c \in todo[s] /\ (stage[s] = "panicked" => todo[s] \cap closed # {})
          \/ stage[s] = "drop" /\ victim[s] = c

(* Who is in the pool is not closed, has a writer that serves it or is     *)
(* about to drop it, and keeps the conversation's idle timer off (Add,     *)
(* Remove, dropClient, CloseAll).                                          *)
PoolInv ==
  /\ conns \cap closed = {}
  /\ \A c \in conns : \/ stage[Writer(c)] = "run"
                      \/ stage[Writer(c)] = "drop" /\ victim[Writer(c)] = c
  /\ conns # {} => idleTimer = "nil"

(* When the last client has gone and the pool has not been seen empty      *)
(* since, some timer is on its way to see it, whatever timers were         *)
(* stopped, late or lost track of meanwhile; only CloseAll, the end of the *)
(* conversation, stops them all (scheduleIdleTimerLocked, triggerIdle).    *)
EmptyIsNoticed ==
  attached # {} /\ conns = {} /\ ~noticed =>
    \/ idleTimer = "ticking" \/ stray > 0 \/ fired > 0
    \/ stage[Evictor] = "exit"
=============================================================================

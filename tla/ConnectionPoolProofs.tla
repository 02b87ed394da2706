------------------------- MODULE ConnectionPoolProofs -------------------------
(***************************************************************************)
(* Proofs about ConnectionPool for any clients, senders and bounds. *)
(***************************************************************************)
EXTENDS ConnectionPool, TLAPS

-----------------------------------------------------------------------------
(* The invariant                                                         *)

(* Where the threads are: who drops or closes a client has taken it out of *)
(* the pool first; a writer sends to nobody; a reader sends to its own *)
(* client and leaves with it; the evictor closes what it took out. *)
ThreadsInv ==
  /\ \A t \in Threads :
       /\ todo[t] \subseteq attached
       /\ stage[t] \in {"drop", "close", "leave"} => victim[t] \in attached
       /\ stage[t] \in {"close", "leave"} => victim[t] \notin conns
  /\ \A c \in Clients : /\ todo[Writer(c)] = {}
                        /\ stage[Writer(c)] # "none" => c \in attached
  /\ todo[Evictor] \cap conns = {}
  /\ stage[Evictor] \in {"run", "exit"}

IInv == TypeOK /\ ThreadsInv /\ NothingMissed /\ PoolInv /\ EmptyIsNoticed

-----------------------------------------------------------------------------
(* Threads are told apart                                                *)

(* No two threads, and no writer and reader, are the same. *)
LEMMA ThreadsDiffer ==
  ASSUME NEW c \in Clients
  PROVE  /\ Writer(c) \in Threads /\ Reader(c) \in Threads
         /\ Writer(c) \notin Senders /\ Reader(c) \notin Senders
         /\ Writer(c) # Evictor /\ Reader(c) # Evictor
         /\ \A d \in Clients : /\ Writer(c) # Reader(d)
                               /\ Writer(c) = Writer(d) => c = d
                               /\ Reader(c) = Reader(d) => c = d
BY PoolAssumption DEF Threads, Writer, Reader

(* Senders and the evictor are threads of their own. *)
LEMMA OtherThreads == Senders \subseteq Threads /\ Evictor \in Threads /\ Evictor \notin Senders
BY PoolAssumption DEF Threads

(* The invariant holds at first. *)
LEMMA InitInv == Init => IInv
<1> SUFFICES ASSUME Init PROVE IInv
  OBVIOUS
<1> USE PoolAssumption, ThreadsDiffer, OtherThreads
<1>1. TypeOK
  <2>1. stage \in [Threads -> Stages]
    BY DEF Init, Stages
  <2>2. last \in [Clients -> [Senders -> 0..MaxMsgs]] /\ cnt \in [Senders -> 0..MaxMsgs]
    BY DEF Init
  <2>3. buf \in [Clients -> 0..SendBuffer] /\ todo \in [Threads -> SUBSET Clients]
    BY DEF Init
  <2>4. victim \in [Threads -> Clients \cup {NoClient}]
    BY DEF Init
  <2>5. conns = {} /\ attached = {} /\ closed = {} /\ idleTimer = "nil"
        /\ stray = 0 /\ fired = 0 /\ noticed = FALSE /\ crashed = FALSE
    BY DEF Init
  <2> QED
    BY <2>1, <2>2, <2>3, <2>4, <2>5 DEF TypeOK
<1>2. ThreadsInv
  BY DEF Init, ThreadsInv
<1>3. NothingMissed /\ PoolInv /\ EmptyIsNoticed
  BY DEF Init, NothingMissed, PoolInv, EmptyIsNoticed
<1> QED
  BY <1>1, <1>2, <1>3 DEF IInv

-----------------------------------------------------------------------------
(* Every action keeps it                                                 *)

(* A timer that fires becomes a goroutine about to look at the pool. *)
LEMMA TimerFiresInv ==
  ASSUME IInv, TimerFires
  PROVE  IInv'
<1> USE PoolAssumption, ThreadsDiffer, OtherThreads DEF IInv
<1>1. TypeOK'
  BY DEF TimerFires, members, traffic, TypeOK, Stages
<1>2. ThreadsInv'
  BY DEF TimerFires, members, traffic, TypeOK, ThreadsInv
<1>3. NothingMissed'
  BY DEF TimerFires, members, traffic, TypeOK, ThreadsInv, NothingMissed
<1>4. PoolInv'
  BY DEF TimerFires, members, traffic, TypeOK, ThreadsInv, PoolInv
<1>5. EmptyIsNoticed'
  BY DEF TimerFires, members, traffic, TypeOK, ThreadsInv, EmptyIsNoticed, PoolInv
<1> QED
  BY <1>1, <1>2, <1>3, <1>4, <1>5

(* Looking at an empty pool notices it; a full one needs no timer. *)
LEMMA TriggerIdleInv ==
  ASSUME IInv, TriggerIdle
  PROVE  IInv'
<1> USE PoolAssumption, ThreadsDiffer, OtherThreads DEF IInv
<1>1. TypeOK'
  BY DEF TriggerIdle, members, traffic, TypeOK, Stages
<1>2. ThreadsInv'
  BY DEF TriggerIdle, members, traffic, TypeOK, ThreadsInv
<1>3. NothingMissed'
  BY DEF TriggerIdle, members, traffic, TypeOK, ThreadsInv, NothingMissed
<1>4. PoolInv'
  BY DEF TriggerIdle, members, traffic, TypeOK, ThreadsInv, PoolInv
<1>5. EmptyIsNoticed'
  BY DEF TriggerIdle, members, traffic, TypeOK, ThreadsInv, EmptyIsNoticed, PoolInv
<1> QED
  BY <1>1, <1>2, <1>3, <1>4, <1>5

(* After CloseAll no timer is needed, and the evictor holds the clients. *)
LEMMA CloseAllInv ==
  ASSUME IInv, CloseAll
  PROVE  IInv'
<1> USE PoolAssumption, ThreadsDiffer, OtherThreads DEF IInv
<1>1. TypeOK'
  BY DEF CloseAll, StopIdleTimer, traffic, TypeOK, Stages
<1>2. ThreadsInv'
  BY DEF CloseAll, StopIdleTimer, traffic, TypeOK, ThreadsInv
<1>3. NothingMissed'
  BY DEF CloseAll, StopIdleTimer, traffic, TypeOK, ThreadsInv, NothingMissed
<1>4. PoolInv'
  BY DEF CloseAll, StopIdleTimer, traffic, TypeOK, ThreadsInv, PoolInv
<1>5. EmptyIsNoticed'
  BY DEF CloseAll, StopIdleTimer, traffic, TypeOK, ThreadsInv, EmptyIsNoticed, PoolInv
<1> QED
  BY <1>1, <1>2, <1>3, <1>4, <1>5

(* A sender begins a broadcast only when every client has the last one. *)
LEMMA BroadcastInv ==
  ASSUME IInv, NEW s \in Senders, Broadcast(s)
  PROVE  IInv'
<1> USE PoolAssumption, ThreadsDiffer, OtherThreads DEF IInv
<1>1. TypeOK'
  BY DEF Broadcast, Idle, members, timers, TypeOK, Stages
<1>2. ThreadsInv'
  BY DEF Broadcast, Idle, members, timers, TypeOK, Stages, ThreadsInv
<1>3. NothingMissed'
  BY DEF Broadcast, Idle, members, timers, TypeOK, ThreadsInv, NothingMissed
<1>4. PoolInv'
  BY DEF Broadcast, Idle, members, timers, TypeOK, ThreadsInv, PoolInv
<1>5. EmptyIsNoticed'
  BY DEF Broadcast, Idle, members, timers, TypeOK, ThreadsInv, EmptyIsNoticed, PoolInv
<1> QED
  BY <1>1, <1>2, <1>3, <1>4, <1>5

(* Taking the last client out arms the timer. *)
LEMMA DropInv ==
  ASSUME IInv, NEW t \in Threads, Drop(t)
  PROVE  IInv'
<1> USE PoolAssumption, ThreadsDiffer, OtherThreads DEF IInv
<1>1. TypeOK'
  BY DEF Drop, ScheduleIdleTimer, StopIdleTimer, traffic, TypeOK, Stages
<1>2. ThreadsInv'
  BY DEF Drop, ScheduleIdleTimer, StopIdleTimer, traffic, TypeOK, ThreadsInv
<1>3. NothingMissed'
  BY DEF Drop, ScheduleIdleTimer, StopIdleTimer, traffic, TypeOK, ThreadsInv, NothingMissed
<1>4. PoolInv'
  BY DEF Drop, ScheduleIdleTimer, StopIdleTimer, traffic, TypeOK, ThreadsInv, PoolInv
<1>5. EmptyIsNoticed'
  BY DEF Drop, ScheduleIdleTimer, StopIdleTimer, traffic, TypeOK, ThreadsInv, EmptyIsNoticed, PoolInv
<1> QED
  BY <1>1, <1>2, <1>3, <1>4, <1>5

(* Only clients that are out of the pool are closed. *)
LEMMA CloseInv ==
  ASSUME IInv, NEW t \in Threads, Close(t)
  PROVE  IInv'
<1> USE PoolAssumption, ThreadsDiffer, OtherThreads DEF IInv
<1>1. TypeOK'
  BY DEF Close, traffic, timers, TypeOK, Stages, ThreadsInv
<1>2. ThreadsInv'
  BY DEF Close, traffic, timers, TypeOK, Stages, ThreadsInv
<1>3. NothingMissed'
  BY DEF Close, traffic, timers, TypeOK, ThreadsInv, NothingMissed
<1>4. PoolInv'
  BY DEF Close, traffic, timers, TypeOK, ThreadsInv, PoolInv
<1>5. EmptyIsNoticed'
  BY DEF Close, traffic, timers, TypeOK, ThreadsInv, EmptyIsNoticed, PoolInv
<1> QED
  BY <1>1, <1>2, <1>3, <1>4, <1>5

(* A client either gets the message or is about to be dropped. *)
LEMMA TrySendInv ==
  ASSUME IInv, NEW t \in Threads, NEW c \in Clients, TrySend(t, c)
  PROVE  IInv'
<1> USE PoolAssumption, ThreadsDiffer, OtherThreads DEF IInv
<1>1. /\ todo' = [todo EXCEPT ![t] = @ \ {c}]
      /\ stage[t] \in {"run", "greet"} /\ t # Evictor /\ c \in todo[t] /\ c \notin closed
      /\ c \in attached
      /\ UNCHANGED <<members, cnt, timers, crashed>>
  BY DEF TrySend, Sending, ThreadsInv
<1>4. ASSUME NEW d \in Clients
      PROVE  t # Writer(d)
  <2>1. todo[Writer(d)] = {}
    BY DEF ThreadsInv
  <2> QED
    BY <1>1, <2>1
<1>2. CASE HasRoom(c)
  <2>1. /\ stage' = [stage EXCEPT ![t] = "run"] /\ UNCHANGED victim
        /\ buf' = [buf EXCEPT ![c] = @ + 1]
        /\ last' = IF t \in Senders THEN [last EXCEPT ![c][t] = cnt[t]] ELSE last
    BY <1>2 DEF TrySend, Accept
  <2>8. /\ \A u \in Threads : u # t => stage'[u] = stage[u]
        /\ stage'[t] = "run"
    BY <2>1 DEF TypeOK
  <2>2. last' \in [Clients -> [Senders -> 0..MaxMsgs]]
    BY <2>1 DEF TypeOK
  <2>3. buf' \in [Clients -> 0..SendBuffer]
    BY <1>2, <2>1 DEF TypeOK, HasRoom
  <2>4. TypeOK'
    BY <1>1, <2>1, <2>2, <2>3 DEF TypeOK, Stages, members, timers
  <2>5. ThreadsInv'
    BY <1>1, <1>4, <2>1, <2>8 DEF TypeOK, ThreadsInv, members, timers
  <2>6. NothingMissed'
    BY <1>1, <2>1, <2>8 DEF TypeOK, NothingMissed, members, timers
  <2>7. PoolInv' /\ EmptyIsNoticed'
    BY <1>1, <1>4, <2>1, <2>8 DEF TypeOK, PoolInv, EmptyIsNoticed, members, timers
  <2> QED
    BY <2>4, <2>5, <2>6, <2>7
<1>3. CASE ~HasRoom(c)
  <2>1. /\ UNCHANGED <<buf, last>>
        /\ stage' = [stage EXCEPT ![t] = "drop"]
        /\ victim' = [victim EXCEPT ![t] = c]
    BY <1>3 DEF TrySend, BufferFull
  <2>2. TypeOK'
    BY <1>1, <2>1 DEF TypeOK, Stages, members, timers
  <2>3. \A u \in Threads : u # t => stage'[u] = stage[u] /\ victim'[u] = victim[u]
    BY <2>1 DEF TypeOK
  <2>4. stage'[t] = "drop" /\ victim'[t] = c
    BY <2>1 DEF TypeOK
  <2>5. ThreadsInv'
    BY <1>1, <1>4, <2>1, <2>3, <2>4 DEF TypeOK, ThreadsInv, members, timers
  <2>6. NothingMissed'
    BY <1>1, <2>1 DEF TypeOK, NothingMissed, members, timers
  <2>8. PoolInv' /\ EmptyIsNoticed'
    BY <1>1, <1>4, <2>3 DEF TypeOK, PoolInv, EmptyIsNoticed, members, timers
  <2> QED
    BY <2>2, <2>5, <2>6, <2>8
<1> QED
  BY <1>2, <1>3

(* A panic ends the process or the goroutine of a handler, which keeps    *)
(* what it has not sent, among it the client that had been closed.        *)
LEMMA SendOnClosedInv ==
  ASSUME IInv, NEW t \in Threads, NEW c \in Clients, SendOnClosed(t, c)
  PROVE  IInv'
<1> USE PoolAssumption, ThreadsDiffer, OtherThreads DEF IInv
<1>1. /\ stage[t] \in {"run", "greet"} /\ t # Evictor /\ c \in todo[t] /\ c \in closed
      /\ UNCHANGED <<members, traffic, todo, victim, timers>>
      /\ crashed' \in BOOLEAN
      /\ stage' = [stage EXCEPT ![t] = "panicked"] \/ stage' = stage
  BY DEF SendOnClosed, Sending, TypeOK
<1>2. ASSUME NEW d \in Clients
      PROVE  t # Writer(d)
  <2>1. todo[Writer(d)] = {}
    BY DEF ThreadsInv
  <2> QED
    BY <1>1, <2>1
<1>3. /\ \A u \in Threads : u # t => stage'[u] = stage[u]
      /\ stage'[t] \in {"run", "greet", "panicked"}
  BY <1>1 DEF TypeOK
<1>4. TypeOK'
  BY <1>1 DEF members, traffic, timers, TypeOK, Stages
<1>5. ThreadsInv'
  BY <1>1, <1>2, <1>3 DEF members, traffic, timers, TypeOK, ThreadsInv
<1>6. NothingMissed'
  BY <1>1, <1>3 DEF members, traffic, timers, TypeOK, NothingMissed
<1>7. PoolInv' /\ EmptyIsNoticed'
  BY <1>1, <1>2, <1>3 DEF members, traffic, timers, TypeOK, PoolInv, EmptyIsNoticed
<1> QED
  BY <1>4, <1>5, <1>6, <1>7

(* A new client has nothing behind it, and stops the timer. *)
LEMMA AddInv ==
  ASSUME IInv, NEW c \in Clients, Add(c)
  PROVE  IInv'
<1> USE PoolAssumption, ThreadsDiffer, OtherThreads DEF IInv
<1>1. TypeOK'
  BY DEF Add, StopIdleTimer, TypeOK, Stages
<1>2. ThreadsInv'
  BY DEF Add, StopIdleTimer, TypeOK, ThreadsInv
<1>3. NothingMissed'
  BY DEF Add, StopIdleTimer, TypeOK, ThreadsInv, NothingMissed
<1>4. PoolInv'
  BY DEF Add, StopIdleTimer, TypeOK, ThreadsInv, PoolInv
<1>5. EmptyIsNoticed'
  BY DEF Add, StopIdleTimer, TypeOK, ThreadsInv, EmptyIsNoticed, PoolInv
<1> QED
  BY <1>1, <1>2, <1>3, <1>4, <1>5

(* A reader may send to its own client. *)
LEMMA SendToOneInv ==
  ASSUME IInv, NEW c \in Clients, SendToOne(c)
  PROVE  IInv'
<1> USE PoolAssumption, ThreadsDiffer, OtherThreads DEF IInv
<1>1. TypeOK'
  BY DEF SendToOne, Idle, members, traffic, timers, TypeOK, Stages
<1>2. ThreadsInv'
  BY DEF SendToOne, Idle, members, traffic, timers, TypeOK, Stages, ThreadsInv
<1>3. NothingMissed'
  BY DEF SendToOne, Idle, members, traffic, timers, TypeOK, ThreadsInv, NothingMissed
<1>4. PoolInv'
  BY DEF SendToOne, Idle, members, traffic, timers, TypeOK, ThreadsInv, PoolInv
<1>5. EmptyIsNoticed'
  BY DEF SendToOne, Idle, members, traffic, timers, TypeOK, ThreadsInv, EmptyIsNoticed, PoolInv
<1> QED
  BY <1>1, <1>2, <1>3, <1>4, <1>5

(* A client is greeted by its own reader or goes without. *)
LEMMA GreetInv ==
  ASSUME IInv, NEW c \in Clients, Greet(c)
  PROVE  IInv'
<1> USE PoolAssumption, ThreadsDiffer, OtherThreads DEF IInv
<1>6. stage' \in [Threads -> Stages] /\ todo' \in [Threads -> SUBSET Clients]
  <2>1. PICK v \in Stages : stage' = [stage EXCEPT ![Reader(c)] = v]
    BY DEF Greet, Stages
  <2>2. todo' \in [Threads -> SUBSET Clients]
    <3>1. CASE todo' = [todo EXCEPT ![Reader(c)] = {c}]
      BY <3>1 DEF TypeOK
    <3>2. CASE todo' = todo
      BY <3>2 DEF TypeOK
    <3> QED
      BY <3>1, <3>2 DEF Greet
  <2> QED
    BY <2>1, <2>2 DEF TypeOK
<1>1. TypeOK'
  BY <1>6 DEF Greet, members, traffic, timers, TypeOK
<1>2. ThreadsInv'
  BY DEF Greet, members, traffic, timers, TypeOK, Stages, ThreadsInv
<1>3. NothingMissed'
  BY DEF Greet, members, traffic, timers, TypeOK, ThreadsInv, NothingMissed
<1>4. PoolInv'
  BY DEF Greet, members, traffic, timers, TypeOK, ThreadsInv, PoolInv
<1>5. EmptyIsNoticed'
  BY DEF Greet, members, traffic, timers, TypeOK, ThreadsInv, EmptyIsNoticed, PoolInv
<1> QED
  BY <1>1, <1>2, <1>3, <1>4, <1>5

(* Removing the last client arms the timer. *)
LEMMA RemoveInv ==
  ASSUME IInv, NEW c \in Clients, Remove(c)
  PROVE  IInv'
<1> USE PoolAssumption, ThreadsDiffer, OtherThreads DEF IInv
<1>6. stage' \in [Threads -> Stages] /\ victim' \in [Threads -> Clients \cup {NoClient}]
  <2>1. PICK v \in Stages : stage' = [stage EXCEPT ![Reader(c)] = v]
    BY DEF Remove, Stages
  <2>2. victim' \in [Threads -> Clients \cup {NoClient}]
    <3>1. CASE victim' = [victim EXCEPT ![Reader(c)] = c]
      BY <3>1 DEF TypeOK
    <3>2. CASE victim' = victim
      BY <3>2 DEF TypeOK
    <3> QED
      BY <3>1, <3>2 DEF Remove
  <2> QED
    BY <2>1, <2>2 DEF TypeOK
<1>1. TypeOK'
  BY <1>6 DEF Remove, Idle, ScheduleIdleTimer, StopIdleTimer, traffic, TypeOK
<1>2. ThreadsInv'
  BY DEF Remove, Idle, ScheduleIdleTimer, StopIdleTimer, traffic, TypeOK, ThreadsInv
<1>3. NothingMissed'
  BY DEF Remove, Idle, ScheduleIdleTimer, StopIdleTimer, traffic, TypeOK, ThreadsInv, NothingMissed
<1>4. PoolInv'
  BY DEF Remove, Idle, ScheduleIdleTimer, StopIdleTimer, traffic, TypeOK, ThreadsInv, PoolInv
<1>5. EmptyIsNoticed'
  BY DEF Remove, Idle, ScheduleIdleTimer, StopIdleTimer, traffic, TypeOK, ThreadsInv, EmptyIsNoticed, PoolInv
<1> QED
  BY <1>1, <1>2, <1>3, <1>4, <1>5

(* The evictor closes what it took out of the pool. *)
LEMMA CloseNextInv ==
  ASSUME IInv, NEW c \in Clients, CloseNext(c)
  PROVE  IInv'
<1> USE PoolAssumption, ThreadsDiffer, OtherThreads DEF IInv
<1>1. TypeOK'
  BY DEF CloseNext, traffic, timers, TypeOK, Stages, ThreadsInv
<1>2. ThreadsInv'
  BY DEF CloseNext, traffic, timers, TypeOK, Stages, ThreadsInv
<1>3. NothingMissed'
  BY DEF CloseNext, traffic, timers, TypeOK, ThreadsInv, NothingMissed
<1>4. PoolInv'
  BY DEF CloseNext, traffic, timers, TypeOK, ThreadsInv, PoolInv
<1>5. EmptyIsNoticed'
  BY DEF CloseNext, traffic, timers, TypeOK, ThreadsInv, EmptyIsNoticed, PoolInv
<1> QED
  BY <1>1, <1>2, <1>3, <1>4, <1>5

(* Writing a message makes room. *)
LEMMA WriteInv ==
  ASSUME IInv, NEW c \in Clients, Write(c)
  PROVE  IInv'
<1> USE PoolAssumption, ThreadsDiffer, OtherThreads DEF IInv
<1>1. TypeOK'
  BY DEF Write, members, timers, TypeOK, Stages
<1>2. ThreadsInv'
  BY DEF Write, members, timers, TypeOK, Stages, ThreadsInv
<1>3. NothingMissed'
  BY DEF Write, members, timers, TypeOK, ThreadsInv, NothingMissed
<1>4. PoolInv'
  BY DEF Write, members, timers, TypeOK, ThreadsInv, PoolInv
<1>5. EmptyIsNoticed'
  BY DEF Write, members, timers, TypeOK, ThreadsInv, EmptyIsNoticed, PoolInv
<1> QED
  BY <1>1, <1>2, <1>3, <1>4, <1>5

(* A writer that fails is about to drop its own client. *)
LEMMA WriteFailsInv ==
  ASSUME IInv, NEW c \in Clients, WriteFails(c)
  PROVE  IInv'
<1> USE PoolAssumption, ThreadsDiffer, OtherThreads DEF IInv
<1>1. /\ UNCHANGED <<members, cnt, last, todo, timers, crashed>>
      /\ buf[c] > 0 /\ buf' = [buf EXCEPT ![c] = @ - 1]
      /\ stage' = [stage EXCEPT ![Writer(c)] = "drop"]
      /\ victim' = [victim EXCEPT ![Writer(c)] = c]
  BY DEF WriteFails
<1>7. stage[Writer(c)] # "none" /\ c \in attached
  <2>1. stage[Writer(c)] = "run"
    BY DEF WriteFails
  <2> QED
    BY <2>1 DEF ThreadsInv
<1>2. /\ \A t \in Threads : t # Writer(c) => stage'[t] = stage[t] /\ victim'[t] = victim[t]
      /\ stage'[Writer(c)] = "drop" /\ victim'[Writer(c)] = c
  BY <1>1 DEF TypeOK
<1>3. TypeOK'
  BY <1>1 DEF TypeOK, Stages, members, timers
<1>4. ThreadsInv'
  BY <1>1, <1>2, <1>7 DEF TypeOK, ThreadsInv, members, timers
<1>5. NothingMissed'
  BY <1>1, <1>2 DEF TypeOK, NothingMissed, members, timers
<1>6. PoolInv' /\ EmptyIsNoticed'
  BY <1>1, <1>2 DEF TypeOK, PoolInv, EmptyIsNoticed, members, timers
<1> QED
  BY <1>3, <1>4, <1>5, <1>6

-----------------------------------------------------------------------------
(* The theorem                                                           *)

(* Every step keeps it. *)
LEMMA StepInv == IInv /\ [Next]_vars => IInv'
<1> SUFFICES ASSUME IInv, [Next]_vars PROVE IInv'
  OBVIOUS
<1>1. CASE UNCHANGED vars
  BY <1>1 DEF vars, members, traffic, timers, IInv, TypeOK, ThreadsInv, NothingMissed, PoolInv, EmptyIsNoticed
<1> HIDE DEF IInv
<1>2. CASE TimerStep
  BY <1>2, TimerFiresInv, TriggerIdleInv DEF TimerStep
<1>3. ASSUME NEW t \in Threads, NEW c \in Clients, TrySend(t, c) \/ SendOnClosed(t, c)
      PROVE  IInv'
  BY <1>3, TrySendInv, SendOnClosedInv
<1>4. ASSUME NEW t \in Threads, Drop(t) \/ Close(t)
      PROVE  IInv'
  BY <1>4, DropInv, CloseInv
<1>5. ASSUME NEW c \in Clients,
             \/ Add(c) \/ Greet(c) \/ SendToOne(c) \/ Remove(c) \/ CloseNext(c)
             \/ Write(c) \/ WriteFails(c)
      PROVE  IInv'
  BY <1>5, AddInv, GreetInv, SendToOneInv, RemoveInv, CloseNextInv, WriteInv, WriteFailsInv
<1> QED
  BY <1>1, <1>2, <1>3, <1>4, <1>5, CloseAllInv, BroadcastInv DEF Next

(* So it always holds. *)
LEMMA InvHolds == Spec => []IInv
<1> HIDE DEF IInv
<1> QED
  BY InitInv, StepInv, PTL DEF Spec

(* Every variable keeps to its type. *)
THEOREM PoolTypeCorrect == Spec => []TypeOK
<1>1. IInv => TypeOK
  BY DEF IInv
<1> HIDE DEF IInv
<1> QED
  BY InvHolds, <1>1, PTL

(* No client that stays in the pool has a gap in what it was sent, but for *)
(* the last message of an HTTP handler that panicked on another client.    *)
THEOREM NoGap == Spec => []NothingMissed
<1>1. IInv => NothingMissed
  BY DEF IInv
<1> HIDE DEF IInv
<1> QED
  BY InvHolds, <1>1, PTL

(* Whoever is in the pool is open, is served and keeps the idle timer off. *)
THEOREM PoolInvHolds == Spec => []PoolInv
<1>1. IInv => PoolInv
  BY DEF IInv
<1> HIDE DEF IInv
<1> QED
  BY InvHolds, <1>1, PTL

(* An empty pool has a timer on its way to notice it. *)
THEOREM EmptinessIsNoticed == Spec => []EmptyIsNoticed
<1>1. IInv => EmptyIsNoticed
  BY DEF IInv
<1> HIDE DEF IInv
<1> QED
  BY InvHolds, <1>1, PTL
=============================================================================

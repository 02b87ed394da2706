----------------------- MODULE TimelineProjectorProofs -----------------------
(***************************************************************************)
(* Proofs about TimelineProjector: that its variables are typed, that what *)
(* the websockets and lastSeenVersion say of the timeline is true, that a  *)
(* message that has ended is not opened again, and that the timeline says  *)
(* what was published.                                                     *)
(*                                                                         *)
(* Several consumers and the runner write at once, so the invariant has to *)
(* say whose write may meet whose.  A consumer that writes a message has   *)
(* projected an event onto it (Writes), so of the writes of a message with *)
(* one consumer, one is that consumer's and any other is the runner's;     *)
(* the runner writes the messages of users only, and there both write the  *)
(* same (Writes, Shows).  For NeverReopened, Ends looks ahead in what the  *)
(* consumer still has of its event and in the events after it: once the    *)
(* row, or the write in flight, has ended the message, every frame to come *)
(* ends it too.  InStep says that what is left of an event is a tail of    *)
(* it, without which the frames at hand could be any.                      *)
(*                                                                         *)
(* For Projected, Done is what a consumer has come to of a message, in the *)
(* middle of an event too, and Faithful relates three things to the last   *)
(* event done: the caches (Known), the write in flight and the row (Kept). *)
(* The caches are why it holds: a throttled delta leaves the row behind,   *)
(* and a final without text can complete it only from what they remember.  *)
(* The lemmas about the script say what an event adds to the ideal text    *)
(* (IdealFirst, IdealDelta, IdealFinal, IdealSummary); each kind of frame  *)
(* has one lemma that shows that its action does the same (StartSays to    *)
(* OtherSays).  Recorded is what lets a record with no gap be followed     *)
(* back to the event before, at which the invariant held (WholeBefore).    *)
(***************************************************************************)
EXTENDS TimelineProjector, FiniteSetTheorems, SequenceTheorems, WellFoundedInduction, TLAPS

Writers == Consumers \cup {0}
Writing(t) == IF t = 0 THEN runner \in {"storing", "telling"}
              ELSE phase[t] \in {"storing", "telling"}
Telling(t) == IF t = 0 THEN runner = "telling" ELSE phase[t] = "telling"
Busy(c) == phase[c] \in {"projecting", "storing", "telling"}
Numbered == Frames \X (Nat \ {0})
Row == [version : Nat \ {0}, entity : Entity]

Consumption ==
  /\ published \in 0..Len(Script) /\ started \in 0..MaxConsumers
  /\ cancelled \subseteq 1..started /\ late \in 0..MaxLate
  /\ stream \in [Consumers -> Consumers] /\ seq \in [Consumers -> Nat]
  /\ phase \in [Consumers -> {"none", "receiving", "projecting", "storing",
                              "telling", "gone"}]
  /\ event \in [Consumers -> 0..Len(Script)]
  /\ frames \in [Consumers -> Seq(Numbered)]
  /\ \A c \in Consumers : c > started => phase[c] = "none"
  /\ \A c \in Consumers : Busy(c) => event[c] \in Events
  /\ \A c \in Consumers : phase[c] = "projecting" => frames[c] # << >>

Caches ==
  /\ roles \in [Ids -> Labels] /\ contents \in [Ids -> Seq(Events)]
  /\ recent \subseteq Ids /\ toolNames \in [Ids -> {"", "tool"}]

Storage ==
  /\ lastSeen \in Nat
  /\ rows \in [Ids -> {NoRow} \cup Row]
  /\ shown \in [Ids -> Entity \cup {NoEntity}]
  /\ taken \in [Ids -> SUBSET (Consumers \X Events)] /\ unwritten \subseteq Ids
  /\ \A i \in Ids : \A x \in taken[i] : x[1] <= started

(* What is being written, and by whom. *)
Writes ==
  /\ runner \in {"idle", "reading", "storing", "telling", "failed"}
  /\ runner = "reading" => published \in Events /\ IsUserEvent(published)
  /\ write \in [Writers -> Write \cup {NoWrite}]
  /\ \A t \in Writers : Writing(t) <=> write[t] # NoWrite
  /\ \A t \in Writers : Writing(t) /\ write[t].id \in UserIds => write[t].entity = UserMessage
  /\ Writing(0) => write[0].id \in UserIds
  /\ \A c \in Consumers : Writing(c) => \E k \in Events : <<c, k>> \in taken[write[c].id]

(* Once the row is written, the websockets are behind by at most it. *)
Told(i) == ~\E t \in Writers : Telling(t) /\ write[t].id = i
Shows ==
  \A i \in Ids : OneConsumer(i) =>
    /\ \A t \in Writers : Telling(t) /\ write[t].id = i => rows[i].entity = write[t].entity
    /\ Told(i) => shown[i] = rows[i].entity

Sees ==
  \A i \in Ids \ UserIds :
    \/ rows[i].version <= lastSeen
    \/ \E c \in Consumers : /\ phase[c] = "telling" /\ write[c].id = i
                            /\ write[c].version = rows[i].version

(* Frames are left of the event in the order they have in it. *)
Left(c) == Len(Script[event[c]]) - Len(frames[c])
InStep ==
  \A c \in Consumers : Busy(c) =>
    /\ Len(frames[c]) <= Len(Script[event[c]])
    /\ \A j \in DOMAIN frames[c] : frames[c][j][1] = Script[event[c]][Left(c) + j]

(* What c has yet to project says no more of i but that it has ended. *)
EndsAhead(c, i) ==
  /\ \A j \in DOMAIN frames[c] : EntityId(frames[c][j][1]) = i => frames[c][j][1].kind \in Closing
  /\ \A k \in Events : k > event[c] =>
       \A j \in DOMAIN Script[k] : EntityId(Script[k][j]) = i => Script[k][j].kind \in Closing
Closed(entity) == ~entity.open
RowClosed(i) == rows[i] # NoRow /\ Closed(rows[i].entity)
WritesOn(c, i) == Writing(c) /\ write[c].id = i
TakenBy(c, i) == \E k \in Events : <<c, k>> \in taken[i]
Ends ==
  /\ \A i \in Ids \ UserIds : rows[i] # NoRow => taken[i] # {}
  /\ \A i \in UserIds : rows[i] # NoRow => rows[i].entity = UserMessage
  /\ \A c \in Consumers, i \in EndOnce \ UserIds :
       OneConsumer(i) /\ TakenBy(c, i) /\ phase[c] # "gone" =>
       /\ RowClosed(i) \/ (WritesOn(c, i) /\ Closed(write[c].entity)) => EndsAhead(c, i)
       /\ RowClosed(i) /\ WritesOn(c, i) => Closed(write[c].entity)

IInv == Consumption /\ Caches /\ Storage /\ Writes /\ Shows /\ Sees /\ InStep /\ Ends

-----------------------------------------------------------------------------
(* What the script is made of. *)
LEMMA FramesTyped ==
  /\ \A f \in Frames : f.kind \in Kinds /\ f.full \in BOOLEAN /\ EntityId(f) \in Ids
  /\ \A k \in Events : /\ Script[k] \in Seq(Frames) /\ Len(Script[k]) \in Nat \ {0}
                       /\ Head(Script[k]) \in Frames
  /\ Len(Script) \in Nat /\ Events = 1..Len(Script)
<1>1. Script \in Seq(Seq([kind : Kinds, id : STRING, full : BOOLEAN]))
  BY ProjectorAssumption
<1>2. Len(Script) \in Nat /\ Events = 1..Len(Script)
  BY <1>1, LenProperties DEF Events
<1>3. ASSUME NEW k \in Events
      PROVE  /\ Script[k] \in Seq([kind : Kinds, id : STRING, full : BOOLEAN])
             /\ Script[k] # << >>
  BY <1>1, <1>2, ElementOfSeq, ProjectorAssumption DEF Events
<1>4. ASSUME NEW k \in Events
      PROVE  /\ Script[k] \in Seq(Frames) /\ Len(Script[k]) \in Nat \ {0}
             /\ Head(Script[k]) \in Frames
  <2>1. Len(Script[k]) \in Nat /\ DOMAIN Script[k] = 1..Len(Script[k]) /\ Len(Script[k]) # 0
    BY <1>3, LenProperties, EmptySeq
  <2>2. \A j \in 1..Len(Script[k]) : Script[k][j] \in Frames
    BY <2>1 DEF Frames
  <2>3. Script[k] \in Seq(Frames)
    BY <1>3, <2>1, <2>2
  <2> QED
    BY <1>3, <2>1, <2>2, <2>3
<1>5. ASSUME NEW f \in Frames
      PROVE  f.kind \in Kinds /\ f.full \in BOOLEAN /\ EntityId(f) \in Ids
  <2>1. PICK k \in Events : \E j \in DOMAIN Script[k] : f = Script[k][j]
    BY DEF Frames
  <2>2. PICK j \in DOMAIN Script[k] : f = Script[k][j]
    BY <2>1
  <2>3. f \in [kind : Kinds, id : STRING, full : BOOLEAN]
    <3>1. j \in 1..Len(Script[k])
      BY <1>3, <2>2, LenProperties
    <3> QED
      BY <1>3, <2>2, <3>1, ElementOfSeq
  <2> QED
    BY <2>3 DEF Ids
<1> QED
  BY <1>2, <1>4, <1>5

LEMMA UserFrames ==
  /\ UserIds \subseteq Ids
  /\ \A f \in Frames : f.kind = "chat.message" => EntityId(f) \in UserIds
  /\ UserMessage \in Entity /\ ~UserMessage.open
<1>1. UserIds \subseteq Ids
  BY DEF UserIds, Ids
<1>2. \A f \in Frames : f.kind = "chat.message" => EntityId(f) \in UserIds
  BY DEF UserIds
<1>3. << >> \in Seq(Events)
  BY EmptySeq
<1>4. UserMessage \in Entity /\ ~UserMessage.open
  BY <1>3 DEF UserMessage, Entity, Labels
<1> QED
  BY <1>1, <1>2, <1>4

LEMMA LeastNumber ==
  ASSUME NEW T \in SUBSET Nat, T # {}
  PROVE  \E m \in T : \A n \in T : m <= n
<1> DEFINE R == OpToRel(<, Nat)
<1>1. IsWellFoundedOn(R, Nat)
  BY NatLessThanWellFounded
<1>2. \A x, y \in Nat : y < x => <<y, x>> \in R
  BY DEF OpToRel
<1> HIDE DEF R
<1>3. PICK m \in T : \A n \in T : ~(<<n, m>> \in R)
  BY <1>1, WFMin, Zenon
<1>4. \A n \in T : ~(n < m)
  BY <1>2, <1>3, Zenon
<1> QED
  BY <1>4

(* The texts up to an event can be put in order.                           *)
Texts(k, i) == {j \in 1..k : HasText(j, i)}
IsOrder(s, S) == /\ s \in [1..Cardinality(S) -> S]
                 /\ \A a, b \in 1..Cardinality(S) : a < b => s[a] < s[b]

LEMMA OneTextMore ==
  ASSUME NEW S, IsFiniteSet(S), NEW k \in Nat \ {0}, S \subseteq 1..(k - 1),
         NEW s, IsOrder(s, S)
  PROVE  \E t : IsOrder(t, S \cup {k})
<1> DEFINE n == Cardinality(S)
           U == S \cup {k}
           t == [a \in 1..(n + 1) |-> IF a = n + 1 THEN k ELSE s[a]]
<1>1. n \in Nat /\ Cardinality(U) = n + 1
  <2>1. k \notin S
    OBVIOUS
  <2> QED
    BY <2>1, FS_AddElement, FS_CardinalityType
<1>2. s \in [1..n -> S] /\ \A a, b \in 1..n : a < b => s[a] < s[b]
  BY DEF IsOrder
<1>3. \A a \in 1..n : s[a] \in S /\ s[a] \in Nat /\ s[a] < k
  <2>1. \A x \in S : x \in Nat /\ x < k
    OBVIOUS
  <2> HIDE DEF n
  <2> QED
    BY <1>2, <2>1
<1> HIDE DEF n, U
<1>4. ASSUME NEW a \in 1..(n + 1), a # n + 1 PROVE a \in 1..n
  BY <1>1, <1>4
<1>5. t \in [1..(n + 1) -> U]
  BY <1>1, <1>3, <1>4 DEF U
<1>6. ASSUME NEW a \in 1..(n + 1), NEW b \in 1..(n + 1), a < b PROVE t[a] < t[b]
  <2>1. a # n + 1 /\ a \in 1..n
    BY <1>1, <1>6
  <2>2. CASE b = n + 1
    BY <1>3, <2>1, <2>2
  <2>3. CASE b # n + 1
    BY <1>2, <1>4, <1>6, <2>1, <2>3
  <2> QED
    BY <2>2, <2>3
<1> HIDE DEF t
<1>7. IsOrder(t, U)
  BY <1>1, <1>5, <1>6 DEF IsOrder
<1> QED
  BY <1>7 DEF U

LEMMA OrderExists ==
  ASSUME NEW i, NEW k \in Nat
  PROVE  \E s : IsOrder(s, Texts(k, i))
<1> DEFINE T == {m \in Nat : ~\E s : IsOrder(s, Texts(m, i))}
<1> SUFFICES ASSUME T # {} PROVE FALSE
  OBVIOUS
<1>1. PICK m \in T : \A n \in T : m <= n
  BY LeastNumber
<1>2. m \in Nat /\ ~\E s : IsOrder(s, Texts(m, i))
  OBVIOUS
<1>3. CASE m = 0
  <2>1. Texts(0, i) = {}
    BY DEF Texts
  <2>2. Cardinality(Texts(0, i)) = 0
    BY <2>1, FS_EmptySet
  <2>3. [a \in 1..0 |-> a] \in [1..0 -> Texts(0, i)]
    OBVIOUS
  <2>4. IsOrder([a \in 1..0 |-> a], Texts(0, i))
    BY <2>2, <2>3 DEF IsOrder
  <2> QED
    BY <1>2, <1>3, <2>4
<1>4. CASE m # 0
  <2>1. m - 1 \in Nat /\ m - 1 \notin T
    BY <1>1, <1>2, <1>4
  <2>2. PICK s : IsOrder(s, Texts(m - 1, i))
    BY <2>1
  <2> HIDE DEF T
  <2>3. Texts(m - 1, i) \subseteq 1..(m - 1) /\ IsFiniteSet(Texts(m - 1, i))
    <3>1. IsFiniteSet(1..(m - 1))
      BY <2>1, FS_Interval
    <3>2. Texts(m - 1, i) \subseteq 1..(m - 1)
      BY DEF Texts
    <3> QED
      BY <3>1, <3>2, FS_Subset
  <2>4. CASE HasText(m, i)
    <3>1. Texts(m, i) = Texts(m - 1, i) \cup {m}
      BY <1>2, <1>4, <2>4 DEF Texts
    <3> QED
      BY <1>2, <1>4, <2>2, <2>3, <3>1, OneTextMore
  <2>5. CASE ~HasText(m, i)
    <3>1. Texts(m, i) = Texts(m - 1, i)
      BY <1>2, <1>4, <2>5 DEF Texts
    <3> QED
      BY <1>2, <2>2, <3>1
  <2> QED
    BY <2>4, <2>5
<1> QED
  BY <1>3, <1>4

LEMMA SaidTyped ==
  ASSUME NEW i \in Ids, NEW k \in Events
  PROVE  Said[i][k] \in Seq(Events)
<1>1. k \in Nat /\ Texts(k, i) \subseteq Events
  BY FramesTyped DEF Texts
<1>2. \E s : IsOrder(s, Texts(k, i))
  BY <1>1, OrderExists
<1>3. Said[i][k] = InOrder(Texts(k, i))
  BY DEF Said, Texts
<1>4. IsOrder(InOrder(Texts(k, i)), Texts(k, i))
  BY <1>2 DEF InOrder, IsOrder
<1>5. Cardinality(Texts(k, i)) \in Nat
  <2>1. IsFiniteSet(1..k) /\ Texts(k, i) \subseteq 1..k
    BY <1>1, FS_Interval DEF Texts
  <2> QED
    BY <2>1, FS_Subset, FS_CardinalityType
<1> QED
  BY <1>1, <1>3, <1>4, <1>5 DEF IsOrder

-----------------------------------------------------------------------------
LEMMA InitIInv == Init => IInv
<1> SUFFICES ASSUME Init PROVE IInv
  OBVIOUS
<1>1. /\ 0 \in 0..Len(Script) /\ 0 \in 0..MaxConsumers /\ 0 \in 0..MaxLate
      /\ \A c \in Consumers : 1 \in Consumers
  <2>1. Len(Script) \in Nat
    BY FramesTyped
  <2>2. MaxConsumers \in Nat /\ MaxLate \in Nat
    BY ProjectorAssumption
  <2> QED
    BY <2>1, <2>2 DEF Consumers
<1> USE DEF Init
<1>2. \A c \in Consumers : phase[c] = "none" /\ ~Busy(c)
  BY DEF Busy
<1>3. Consumption
  <2>1. << >> \in Seq(Numbered)
    BY EmptySeq
  <2>3. /\ stream \in [Consumers -> Consumers] /\ seq \in [Consumers -> Nat]
        /\ event \in [Consumers -> 0..Len(Script)] /\ frames \in [Consumers -> Seq(Numbered)]
    BY <1>1, <2>1
  <2>4. /\ published \in 0..Len(Script) /\ started \in 0..MaxConsumers
        /\ cancelled \subseteq 1..started /\ late \in 0..MaxLate
    BY <1>1
  <2>5. phase \in [Consumers -> {"none", "receiving", "projecting", "storing",
                                 "telling", "gone"}]
    OBVIOUS
  <2> QED
    BY <1>2, <2>3, <2>4, <2>5 DEF Consumption
<1>4. Caches
  <2>1. << >> \in Seq(Events)
    BY EmptySeq
  <2> QED
    BY <2>1 DEF Caches, Labels
<1>5. Storage
  BY DEF Storage
<1>6. Writes
  <2>1. ASSUME NEW t \in Writers PROVE ~Writing(t) /\ write[t] = NoWrite
    BY <1>2, <2>1 DEF Writing, Writers, Consumers
  <2>2. ~Writing(0)
    BY DEF Writing
  <2>3. \A c \in Consumers : c \in Writers
    BY DEF Writers
  <2>4. write \in [Writers -> Write \cup {NoWrite}]
    BY DEF Writers
  <2>5. runner = "idle"
    OBVIOUS
  <2> QED
    BY <2>1, <2>2, <2>3, <2>4, <2>5 DEF Writes
<1>7. Shows
  <2>1. \A t \in Writers : ~Telling(t)
    BY <1>2 DEF Telling, Writers, Consumers
  <2>2. \A i \in Ids : shown[i] = NoEntity /\ rows[i].entity = NoEntity
    BY DEF NoRow
  <2> QED
    BY <2>1, <2>2 DEF Shows
<1>8. Sees
  <2>1. ASSUME NEW i \in Ids PROVE rows[i].version <= lastSeen
    <3>1. rows[i].version = 0 /\ lastSeen = 0
      BY DEF NoRow
    <3> HIDE DEF Init
    <3> QED
      BY <3>1
  <2> QED
    BY <2>1 DEF Sees
<1>9. InStep
  BY <1>2 DEF InStep
<1>10. Ends
  <2>1. ASSUME NEW i \in Ids PROVE rows[i] = NoRow /\ \A c \in Consumers : ~TakenBy(c, i)
    BY DEF TakenBy
  <2>2. UserIds \subseteq Ids
    BY UserFrames
  <2>3. \A i \in EndOnce : i \in Ids
    BY DEF EndOnce
  <2> QED
    BY <2>1, <2>2, <2>3 DEF Ends
<1> QED
  BY <1>3, <1>4, <1>5, <1>6, <1>7, <1>8, <1>9, <1>10 DEF IInv

-----------------------------------------------------------------------------
(* A frame is projected: what each kind of frame has in common.            *)
Projection(c) ==
  /\ phase[c] = "projecting"
  /\ frames' = [frames EXCEPT ![c] = Tail(@)]
  /\ taken' = [taken EXCEPT ![EntityId(Frame(c))] = @ \cup {<<c, event[c]>>}]
  /\ UNCHANGED <<transport, unwritten, event, lastSeen, runner, rows, shown>>
  /\ \/ \E entity \in Entity :
          /\ Upserts(c, EntityId(Frame(c)), entity)
          /\ Closed(entity) <=> Frame(c).kind \in Closing
          /\ Frame(c).kind = "chat.message" => entity = UserMessage
     \/ /\ Frame(c).kind \notin Closing
        /\ phase' = [phase EXCEPT ![c] = NextPhase(Tail(frames[c]))]
        /\ UNCHANGED write

LEMMA FrameTyped ==
  ASSUME Consumption, NEW c \in Consumers, phase[c] = "projecting"
  PROVE  /\ frames[c] \in Seq(Numbered) /\ frames[c] # << >>
         /\ Frame(c) \in Frames /\ Number(c) \in Nat \ {0}
         /\ EntityId(Frame(c)) \in Ids
         /\ event[c] \in Events
<1>1. frames[c] \in Seq(Numbered) /\ frames[c] # << >> /\ event[c] \in Events
  BY DEF Consumption, Busy
<1>2. Head(frames[c]) \in Numbered
  BY <1>1, HeadTailProperties
<1>3. Frame(c) \in Frames /\ Number(c) \in Nat \ {0}
  BY <1>2 DEF Frame, Number, Numbered
<1> QED
  BY <1>1, <1>3, FramesTyped

LEMMA EntityTyped ==
  ASSUME NEW label \in Labels, NEW content \in Seq(Events), NEW open \in BOOLEAN
  PROVE  /\ [label |-> label, content |-> content, open |-> open] \in Entity
         /\ [label |-> label, content |-> content, open |-> open].open = open
BY DEF Entity

LEMMA ProjectStep ==
  ASSUME Consumption, Caches, NEW c \in Consumers, Project(c)
  PROVE  Projection(c) /\ Caches'
<1> DEFINE f == Frame(c)
           i == EntityId(f)
<1>1. phase[c] = "projecting"
  BY DEF Project, LlmStart, LlmDelta, LlmFinal, ToolStart, ToolDone, ToolResult, ChatMessage,
         Projects
<1>2. f \in Frames /\ i \in Ids /\ event[c] \in Events /\ << >> \in Seq(Events)
  BY <1>1, FrameTyped, EmptySeq
<1>3. f.full \in BOOLEAN
  BY <1>2, FramesTyped
<1>4. ASSUME NEW kinds, Projects(c, kinds)
      PROVE  /\ f.kind \in kinds
             /\ frames' = [frames EXCEPT ![c] = Tail(@)]
             /\ taken' = [taken EXCEPT ![i] = @ \cup {<<c, event[c]>>}]
             /\ UNCHANGED <<transport, unwritten, event, lastSeen, runner, rows, shown>>
  BY <1>4 DEF Projects
<1>5. roles[i] \in Labels /\ toolNames[i] \in Labels /\ contents[i] \in Seq(Events)
  BY <1>2 DEF Caches, Labels
<1>6. \A default \in Labels : RoleOr(i, default) \in Labels
  BY <1>5 DEF RoleOr
<1> HIDE DEF f, i
<1>7. CASE LlmStart(c)
  <2> DEFINE role == IF f.kind = "llm.start" THEN "assistant" ELSE "thinking"
             entity == [label |-> role, content |-> << >>, open |-> TRUE]
  <2>1. /\ Projects(c, {"llm.start", "llm.thinking.start"})
        /\ roles' = [roles EXCEPT ![i] = role]
        /\ contents' = [contents EXCEPT ![i] = << >>]
        /\ Upserts(c, i, entity) /\ UNCHANGED <<recent, toolNames>>
    BY <1>7 DEF LlmStart, f, i
  <2>2. role \in Labels
    BY DEF Labels
  <2>3. Caches'
    BY <1>2, <2>1, <2>2 DEF Caches
  <2>4. entity \in Entity /\ entity.open = TRUE
    BY <1>2, <2>2, EntityTyped
  <2> HIDE DEF entity
  <2>5. f.kind \notin Closing /\ f.kind # "chat.message"
    BY <1>4, <2>1 DEF Closing
  <2> QED
    BY <1>1, <1>4, <2>1, <2>3, <2>4, <2>5 DEF Projection, Closed, f, i
<1>8. CASE LlmDelta(c)
  <2> DEFINE text == IF f.full THEN Said[i][event[c]] ELSE Append(contents[i], event[c])
             entity == [label |-> RoleOr(i, "assistant"), content |-> text, open |-> TRUE]
  <2>1. /\ Projects(c, {"llm.delta", "llm.thinking.delta"})
        /\ contents' = [contents EXCEPT ![i] = text]
        /\ recent' = recent \cup {i} /\ UNCHANGED <<roles, toolNames>>
        /\ IF i \in recent
           THEN phase' = [phase EXCEPT ![c] = NextPhase(Tail(frames[c]))] /\ UNCHANGED write
           ELSE Upserts(c, i, entity)
    BY <1>8 DEF LlmDelta, Remembered, f, i
  <2>2. text \in Seq(Events)
    BY <1>2, <1>5, SaidTyped, AppendProperties
  <2> HIDE DEF text
  <2>3. Caches'
    BY <1>2, <2>1, <2>2 DEF Caches
  <2>4. entity \in Entity /\ entity.open = TRUE
    BY <1>6, <2>2, EntityTyped DEF Labels
  <2> HIDE DEF entity
  <2>5. f.kind \notin Closing /\ f.kind # "chat.message"
    BY <1>4, <2>1 DEF Closing
  <2> QED
    BY <1>1, <1>4, <2>1, <2>3, <2>4, <2>5 DEF Projection, Closed, f, i
<1>9. CASE LlmFinal(c)
  <2> DEFINE text == CASE f.kind = "llm.thinking.final" \/ ~f.full -> contents[i]
                       [] f.kind = "llm.final"                     -> Said[i][event[c]]
                       [] OTHER                                    -> <<event[c]>>
             label == RoleOr(i, IF f.kind = "llm.final" THEN "assistant" ELSE "thinking")
             entity == [label |-> label, content |-> text, open |-> FALSE]
  <2>1. /\ Projects(c, {"llm.final", "llm.thinking.final", "llm.thinking.summary"})
        /\ contents' = [contents EXCEPT ![i] = text]
        /\ recent' = recent \ {i} /\ UNCHANGED <<roles, toolNames>>
        /\ Upserts(c, i, entity)
    BY <1>9 DEF LlmFinal, StreamsOn, f, i
  <2>2. text \in Seq(Events)
    <3>1. <<event[c]>> \in Seq(Events) /\ Said[i][event[c]] \in Seq(Events)
      BY <1>2, SaidTyped
    <3> QED
      BY <1>5, <3>1
  <2>3. label \in Labels
    BY <1>6 DEF Labels
  <2> HIDE DEF text, label
  <2>4. Caches'
    BY <1>2, <2>1, <2>2 DEF Caches
  <2>5. entity \in Entity /\ entity.open = FALSE
    BY <2>2, <2>3, EntityTyped
  <2> HIDE DEF entity
  <2>6. f.kind \in Closing /\ f.kind # "chat.message"
    BY <1>4, <2>1 DEF Closing
  <2> QED
    BY <1>1, <1>4, <2>1, <2>4, <2>5, <2>6 DEF Projection, Closed, f, i
<1>10. CASE ToolStart(c)
  <2> DEFINE entity == [label |-> "tool", content |-> << >>, open |-> TRUE]
  <2>1. /\ Projects(c, {"tool.start"}) /\ Upserts(c, i, entity)
        /\ toolNames' = [toolNames EXCEPT ![i] = "tool"] /\ UNCHANGED <<roles, contents, recent>>
    BY <1>10 DEF ToolStart, f, i
  <2>2. Caches'
    BY <1>2, <2>1 DEF Caches
  <2>3. entity \in Entity /\ entity.open = TRUE
    BY <1>2, EntityTyped DEF Labels
  <2> HIDE DEF entity
  <2>4. f.kind \notin Closing /\ f.kind # "chat.message"
    BY <1>4, <2>1 DEF Closing
  <2> QED
    BY <1>1, <1>4, <2>1, <2>2, <2>3, <2>4 DEF Projection, Closed, f, i
<1>11. CASE ToolDone(c) \/ ToolResult(c)
  <2> DEFINE label == IF f.kind = "tool.done" THEN toolNames[i] ELSE "result"
             entity == [label |-> label, content |-> << >>, open |-> FALSE]
  <2>1. /\ Projects(c, {"tool.done", "tool.result"}) /\ Upserts(c, i, entity)
        /\ UNCHANGED projector
    BY <1>11 DEF ToolDone, ToolResult, Projects, f, i
  <2>2. Caches'
    BY <2>1 DEF Caches, projector
  <2>3. label \in Labels
    BY <1>5 DEF Labels
  <2> HIDE DEF label
  <2>4. entity \in Entity /\ entity.open = FALSE
    BY <1>2, <2>3, EntityTyped
  <2> HIDE DEF entity
  <2>5. f.kind \in Closing /\ f.kind # "chat.message"
    BY <1>4, <2>1 DEF Closing
  <2> QED
    BY <1>1, <1>4, <2>1, <2>2, <2>4, <2>5 DEF Projection, Closed, f, i
<1>12. CASE ChatMessage(c)
  <2>1. /\ Projects(c, {"chat.message"}) /\ Upserts(c, i, UserMessage) /\ UNCHANGED projector
    BY <1>12 DEF ChatMessage, f, i
  <2>2. Caches'
    BY <2>1 DEF Caches, projector
  <2>3. f.kind \in Closing
    BY <1>4, <2>1 DEF Closing
  <2>4. UserMessage \in Entity /\ ~UserMessage.open
    BY UserFrames
  <2> QED
    BY <1>1, <1>4, <2>1, <2>2, <2>3, <2>4 DEF Projection, Closed, f, i
<1> QED
  BY <1>7, <1>8, <1>9, <1>10, <1>11, <1>12 DEF Project

(* Where a projection leaves the consumer and its write. *)
LEMMA AfterProjection ==
  ASSUME IInv, NEW c \in Consumers, Projection(c)
  PROVE  LET i == EntityId(Frame(c)) IN
         /\ phase'[c] \in {"receiving", "projecting", "storing"}
         /\ phase'[c] = "projecting" => Tail(frames[c]) # << >>
         /\ \A d \in Consumers : d # c => phase'[d] = phase[d]
         /\ \A t \in Writers : t # c => write'[t] = write[t]
         /\ phase' \in [Consumers -> {"none", "receiving", "projecting", "storing",
                                      "telling", "gone"}]
         /\ write' \in [Writers -> Write \cup {NoWrite}]
         /\ IF phase'[c] = "storing"
            THEN /\ write'[c] \in Write /\ write'[c].id = i /\ write'[c].version \in Nat \ {0}
                 /\ write'[c].entity \in Entity
                 /\ Closed(write'[c].entity) <=> Frame(c).kind \in Closing
                 /\ i \in UserIds => write'[c].entity = UserMessage
            ELSE write'[c] = NoWrite
         /\ phase'[c] # "storing" => Frame(c).kind \notin Closing
<1> DEFINE i == EntityId(Frame(c))
<1>1. phase[c] = "projecting" /\ Consumption /\ Writes
  BY DEF Projection, IInv
<1>2. /\ Frame(c) \in Frames /\ Number(c) \in Nat \ {0} /\ i \in Ids
  BY <1>1, FrameTyped
<1>3. i \in UserIds => Frame(c).kind = "chat.message"
  BY <1>2, UserAssumption
<1>4. c \in Writers /\ c # 0 /\ write[c] = NoWrite
  <2>1. c \in Writers /\ c # 0
    BY DEF Writers, Consumers
  <2>2. ~Writing(c)
    BY <1>1, <2>1 DEF Writing
  <2> QED
    BY <1>1, <2>1, <2>2 DEF Writes
<1>5. /\ phase \in [Consumers -> {"none", "receiving", "projecting", "storing",
                                  "telling", "gone"}]
      /\ write \in [Writers -> Write \cup {NoWrite}]
  BY <1>1 DEF Consumption, Writes
<1> HIDE DEF i
<1>6. CASE \E entity \in Entity :
             /\ Upserts(c, i, entity)
             /\ Closed(entity) <=> Frame(c).kind \in Closing
             /\ Frame(c).kind = "chat.message" => entity = UserMessage
  <2>1. PICK entity \in Entity : /\ Upserts(c, i, entity)
                                 /\ Closed(entity) <=> Frame(c).kind \in Closing
                                 /\ Frame(c).kind = "chat.message" => entity = UserMessage
    BY <1>6
  <2> DEFINE w == [id |-> i, version |-> Number(c), entity |-> entity]
  <2>2. w \in Write /\ w.id = i /\ w.version \in Nat \ {0} /\ w.entity = entity
    BY <1>2 DEF Write
  <2>3. write' = [write EXCEPT ![c] = w] /\ phase' = [phase EXCEPT ![c] = "storing"]
    BY <2>1 DEF Upserts
  <2> HIDE DEF w
  <2>4. write'[c] = w /\ phase'[c] = "storing"
    BY <1>4, <1>5, <2>3
  <2>5. /\ write' \in [Writers -> Write \cup {NoWrite}]
        /\ \A t \in Writers : t # c => write'[t] = write[t]
    BY <1>5, <2>2, <2>3
  <2>6. /\ phase' \in [Consumers -> {"none", "receiving", "projecting", "storing",
                                    "telling", "gone"}]
        /\ \A d \in Consumers : d # c => phase'[d] = phase[d]
    BY <1>5, <2>3
  <2> QED
    BY <1>3, <2>1, <2>2, <2>4, <2>5, <2>6 DEF i
<1>7. CASE /\ Frame(c).kind \notin Closing
           /\ phase' = [phase EXCEPT ![c] = NextPhase(Tail(frames[c]))]
           /\ UNCHANGED write
  <2>1. phase'[c] = NextPhase(Tail(frames[c]))
    BY <1>5, <1>7
  <2>2. /\ NextPhase(Tail(frames[c])) \in {"receiving", "projecting"}
        /\ NextPhase(Tail(frames[c])) = "projecting" => Tail(frames[c]) # << >>
    BY DEF NextPhase
  <2>3. \A d \in Consumers : d # c => phase'[d] = phase[d]
    BY <1>5, <1>7
  <2>4. phase' \in [Consumers -> {"none", "receiving", "projecting", "storing",
                                  "telling", "gone"}]
    BY <1>5, <1>7, <2>2
  <2>5. write' \in [Writers -> Write \cup {NoWrite}] /\ write' = write
    BY <1>5, <1>7
  <2> QED
    BY <1>4, <1>7, <2>1, <2>2, <2>3, <2>4, <2>5
<1> QED
  BY <1>6, <1>7 DEF Projection, i

LEMMA TakenAfter ==
  ASSUME IInv, NEW c \in Consumers, Projection(c)
  PROVE  /\ taken' \in [Ids -> SUBSET (Consumers \X Events)]
         /\ taken'[EntityId(Frame(c))] = taken[EntityId(Frame(c))] \cup {<<c, event[c]>>}
         /\ \A i \in Ids : i # EntityId(Frame(c)) => taken'[i] = taken[i]
         /\ \A i \in Ids : taken[i] \subseteq taken'[i]
         /\ \A i \in Ids : OneConsumer(i)' => OneConsumer(i)
         /\ <<c, event[c]>>[1] = c
<1>1. /\ EntityId(Frame(c)) \in Ids /\ event[c] \in Events
      /\ taken \in [Ids -> SUBSET (Consumers \X Events)]
      /\ taken' = [taken EXCEPT ![EntityId(Frame(c))] = @ \cup {<<c, event[c]>>}]
  BY FrameTyped DEF Projection, IInv, Storage
<1>2. /\ taken' \in [Ids -> SUBSET (Consumers \X Events)]
      /\ taken'[EntityId(Frame(c))] = taken[EntityId(Frame(c))] \cup {<<c, event[c]>>}
      /\ \A i \in Ids : i # EntityId(Frame(c)) => taken'[i] = taken[i]
  BY <1>1
<1>3. \A i \in Ids : taken[i] \subseteq taken'[i]
  BY <1>2
<1> QED
  BY <1>2, <1>3 DEF OneConsumer

LEMMA FramesAfter ==
  ASSUME IInv, NEW c \in Consumers, Projection(c)
  PROVE  /\ frames' \in [Consumers -> Seq(Numbered)]
         /\ frames'[c] = Tail(frames[c])
         /\ \A d \in Consumers : d # c => frames'[d] = frames[d]
         /\ Len(frames'[c]) = Len(frames[c]) - 1
         /\ Len(frames[c]) \in Nat \ {0} /\ DOMAIN frames[c] = 1..Len(frames[c])
         /\ DOMAIN frames'[c] = 1..(Len(frames[c]) - 1)
         /\ \A j \in 1..(Len(frames[c]) - 1) : frames'[c][j] = frames[c][j + 1]
<1>1. /\ frames[c] \in Seq(Numbered) /\ frames[c] # << >>
      /\ frames \in [Consumers -> Seq(Numbered)]
      /\ frames' = [frames EXCEPT ![c] = Tail(frames[c])]
  BY FrameTyped DEF Projection, IInv, Consumption
<1>2. /\ Tail(frames[c]) \in Seq(Numbered)
      /\ Len(Tail(frames[c])) = Len(frames[c]) - 1
      /\ \A j \in 1..Len(Tail(frames[c])) : Tail(frames[c])[j] = frames[c][j + 1]
  BY <1>1, HeadTailProperties
<1>3. /\ Len(frames[c]) \in Nat \ {0} /\ DOMAIN frames[c] = 1..Len(frames[c])
      /\ DOMAIN Tail(frames[c]) = 1..Len(Tail(frames[c]))
  BY <1>1, <1>2, LenProperties, EmptySeq
<1> DEFINE s == Tail(frames[c])
<1>4. s = Tail(frames[c])
  OBVIOUS
<1> HIDE DEF s
<1>5. /\ frames' \in [Consumers -> Seq(Numbered)] /\ frames'[c] = s
      /\ \A d \in Consumers : d # c => frames'[d] = frames[d]
  BY <1>1, <1>2, <1>4
<1> QED
  BY <1>2, <1>3, <1>4, <1>5

LEMMA WriteIsSome == \A w \in Write : w # NoWrite
BY DEF Write, NoWrite

LEMMA ProjectionConsumes ==
  ASSUME IInv, NEW c \in Consumers, Projection(c)
  PROVE  Consumption' /\ InStep'
<1>1. Consumption /\ InStep /\ phase[c] = "projecting" /\ event[c] \in Events
  BY FrameTyped DEF Projection, IInv
<1>2. /\ phase'[c] \in {"receiving", "projecting", "storing"}
      /\ phase'[c] = "projecting" => Tail(frames[c]) # << >>
      /\ \A d \in Consumers : d # c => phase'[d] = phase[d]
      /\ phase' \in [Consumers -> {"none", "receiving", "projecting", "storing",
                                   "telling", "gone"}]
  BY AfterProjection
<1>3. /\ frames' \in [Consumers -> Seq(Numbered)]
      /\ frames'[c] = Tail(frames[c])
      /\ \A d \in Consumers : d # c => frames'[d] = frames[d]
      /\ Len(frames'[c]) = Len(frames[c]) - 1
      /\ Len(frames[c]) \in Nat \ {0}
      /\ DOMAIN frames'[c] = 1..(Len(frames[c]) - 1)
      /\ DOMAIN frames[c] = 1..Len(frames[c])
      /\ \A j \in 1..(Len(frames[c]) - 1) : frames'[c][j] = frames[c][j + 1]
  BY FramesAfter
<1>4. UNCHANGED <<published, started, cancelled, late, stream, seq, event>>
  BY DEF Projection, transport
<1>5. \A d \in Consumers : d > started => phase'[d] = "none"
  BY <1>1, <1>2 DEF Consumption
<1>6. \A d \in Consumers : Busy(d)' => Busy(d)
  BY <1>1, <1>2 DEF Busy
<1>7. \A d \in Consumers : phase'[d] = "projecting" => frames'[d] # << >>
  BY <1>1, <1>2, <1>3 DEF Consumption
<1>8. Consumption'
  BY <1>1, <1>2, <1>3, <1>4, <1>5, <1>6, <1>7 DEF Consumption
<1>9. ASSUME NEW d \in Consumers, Busy(d)'
      PROVE  /\ Len(frames'[d]) <= Len(Script[event'[d]])
             /\ \A j \in DOMAIN frames'[d] : frames'[d][j][1] = Script[event'[d]][Left(d)' + j]
  <2>1. CASE d # c
    <3>1. event' = event /\ frames'[d] = frames[d] /\ Busy(d)
      BY <1>3, <1>4, <1>6, <1>9, <2>1
    <3>2. Left(d)' = Left(d)
      BY <3>1 DEF Left
    <3> QED
      BY <1>1, <3>1, <3>2 DEF InStep
  <2>2. CASE d = c
    <3>1. /\ Len(frames[c]) <= Len(Script[event[c]])
          /\ \A j \in DOMAIN frames[c] : frames[c][j][1] = Script[event[c]][Left(c) + j]
      BY <1>1 DEF InStep, Busy
    <3>2. Len(Script[event[c]]) \in Nat
      BY <1>1, FramesTyped
    <3>3. event' = event /\ DOMAIN frames'[c] = 1..(Len(frames[c]) - 1)
      BY <1>3, <1>4
    <3>4. Left(c) = Len(Script[event[c]]) - Len(frames[c])
          /\ Left(c)' = Len(Script[event[c]]) - (Len(frames[c]) - 1)
      BY <1>3, <3>3 DEF Left
    <3>5. Left(c) \in Nat /\ Left(c)' = Left(c) + 1
      BY <1>3, <3>1, <3>2, <3>4
    <3>6. ASSUME NEW j \in 1..(Len(frames[c]) - 1)
          PROVE  frames'[c][j][1] = Script[event[c]][Left(c)' + j]
      <4>1. j + 1 \in DOMAIN frames[c] /\ frames'[c][j] = frames[c][j + 1]
        BY <1>3
      <4>2. Left(c) + (j + 1) = Left(c)' + j
        BY <1>3, <3>5
      <4> QED
        BY <3>1, <4>1, <4>2
    <3> QED
      <4>1. Len(frames'[c]) <= Len(Script[event[c]])
        BY <1>3, <3>1, <3>2
      <4> QED
        BY <2>2, <3>3, <3>6, <4>1
  <2> QED
    BY <2>1, <2>2
<1> QED
  BY <1>8, <1>9 DEF InStep

LEMMA ProjectionWrites ==
  ASSUME IInv, NEW c \in Consumers, Projection(c)
  PROVE  Storage' /\ Writes' /\ Sees'
<1> DEFINE i0 == EntityId(Frame(c))
<1>1. /\ Storage /\ Writes /\ Sees /\ phase[c] = "projecting" /\ c # 0 /\ c \in Writers
      /\ event[c] \in Events /\ 0 \in Writers /\ Consumption
  BY FrameTyped DEF Projection, IInv, Writers, Consumers
<1>2. /\ phase'[c] \in {"receiving", "projecting", "storing"}
      /\ \A d \in Consumers : d # c => phase'[d] = phase[d]
      /\ \A t \in Writers : t # c => write'[t] = write[t]
      /\ write' \in [Writers -> Write \cup {NoWrite}]
      /\ IF phase'[c] = "storing"
         THEN /\ write'[c] \in Write /\ write'[c].id = i0
              /\ i0 \in UserIds => write'[c].entity = UserMessage
         ELSE write'[c] = NoWrite
  BY AfterProjection
<1>3. /\ taken' \in [Ids -> SUBSET (Consumers \X Events)]
      /\ taken'[i0] = taken[i0] \cup {<<c, event[c]>>}
      /\ \A i \in Ids : i # i0 => taken'[i] = taken[i]
      /\ \A i \in Ids : taken[i] \subseteq taken'[i]
      /\ <<c, event[c]>>[1] = c
  BY TakenAfter
<1>4. UNCHANGED <<published, started, unwritten, event, lastSeen, runner, rows, shown>>
  BY DEF Projection, transport
<1> HIDE DEF i0
<1>5. c <= started
  <2>1. ~(c > started) /\ started \in Nat
    BY <1>1 DEF Consumption
  <2>2. c \in Nat
    BY DEF Consumers
  <2> QED
    BY <2>1, <2>2
<1>6. Storage'
  <2>1. ASSUME NEW i \in Ids, NEW x \in taken'[i] PROVE x[1] <= started
    BY <1>1, <1>3, <1>5 DEF Storage
  <2> QED
    BY <1>1, <1>3, <1>4, <2>1 DEF Storage
<1>7. Writes'
  <2>1. ASSUME NEW t \in Writers
        PROVE  /\ Writing(t)' <=> write'[t] # NoWrite
               /\ Writing(t)' /\ write'[t].id \in UserIds => write'[t].entity = UserMessage
    <3>1. CASE t = c
      <4>1. Writing(t)' <=> phase'[c] = "storing"
        BY <1>1, <1>2, <3>1 DEF Writing
      <4> QED
        BY <1>2, <3>1, <4>1, WriteIsSome
    <3>2. CASE t # c
      <4>1. Writing(t)' <=> Writing(t)
        BY <1>2, <1>4, <3>2 DEF Writing, Writers
      <4> QED
        BY <1>1, <1>2, <3>2, <4>1 DEF Writes
    <3> QED
      BY <3>1, <3>2
  <2>2. Writing(0)' => write'[0].id \in UserIds
    BY <1>1, <1>2, <1>4 DEF Writes, Writing
  <2>3. ASSUME NEW d \in Consumers, Writing(d)'
        PROVE  \E k \in Events : <<d, k>> \in taken'[write'[d].id]
    <3>1. CASE d = c
      <4>1. phase'[c] = "storing"
        BY <1>1, <1>2, <2>3, <3>1 DEF Writing
      <4> QED
        BY <1>1, <1>2, <1>3, <3>1, <4>1
    <3>2. CASE d # c
      <4>1. Writing(d) /\ write'[d] = write[d] /\ d \in Writers
        BY <1>2, <1>4, <2>3, <3>2 DEF Writing, Writers
      <4>2. write[d] \in Write
        BY <1>1, <4>1 DEF Writes
      <4>3. write[d].id \in Ids
        BY <4>2 DEF Write
      <4> QED
        BY <1>1, <1>3, <4>1, <4>3 DEF Writes
    <3> QED
      BY <3>1, <3>2
  <2> QED
    BY <1>1, <1>2, <1>4, <2>1, <2>2, <2>3 DEF Writes
<1>8. Sees'
  <2>1. ASSUME NEW i \in Ids \ UserIds
        PROVE  \/ rows'[i].version <= lastSeen'
               \/ \E d \in Consumers : /\ phase'[d] = "telling" /\ write'[d].id = i
                                       /\ write'[d].version = rows'[i].version
    <3>1. CASE rows[i].version <= lastSeen
      BY <1>4, <3>1
    <3>2. CASE ~(rows[i].version <= lastSeen)
      <4>1. PICK d \in Consumers : /\ phase[d] = "telling" /\ write[d].id = i
                                   /\ write[d].version = rows[i].version
        BY <1>1, <3>2 DEF Sees
      <4>2. d # c /\ d \in Writers
        BY <1>1, <4>1 DEF Writers
      <4> QED
        BY <1>2, <1>4, <4>1, <4>2
    <3> QED
      BY <3>1, <3>2
  <2> QED
    BY <2>1 DEF Sees
<1> QED
  BY <1>6, <1>7, <1>8

LEMMA ProjectionShows ==
  ASSUME IInv, NEW c \in Consumers, Projection(c)
  PROVE  Shows'
<1>1. Shows /\ phase[c] = "projecting" /\ c # 0 /\ c \in Writers
  BY DEF Projection, IInv, Writers, Consumers
<1>2. /\ phase'[c] # "telling"
      /\ \A d \in Consumers : d # c => phase'[d] = phase[d]
      /\ \A t \in Writers : t # c => write'[t] = write[t]
  BY AfterProjection
<1>3. UNCHANGED <<runner, rows, shown>>
  BY DEF Projection
<1>4. \A i \in Ids : OneConsumer(i)' => OneConsumer(i)
  BY TakenAfter
<1>5. ASSUME NEW t \in Writers
      PROVE  /\ Telling(t)' <=> Telling(t)
             /\ Telling(t) => write'[t] = write[t]
  <2>1. CASE t = c
    BY <1>1, <1>2, <2>1 DEF Telling
  <2>2. CASE t # c
    BY <1>2, <1>3, <2>2 DEF Telling, Writers
  <2> QED
    BY <2>1, <2>2
<1>6. \A i \in Ids : Told(i)' <=> Told(i)
  BY <1>5 DEF Told
<1> QED
  BY <1>1, <1>3, <1>4, <1>5, <1>6 DEF Shows

LEMMA Positions ==
  ASSUME NEW p \in Nat, NEW q \in Nat \ {0}, q <= p
  PROVE  /\ (p - q) + 1 \in 1..p
         /\ \A j \in 1..(q - 1) : /\ j + 1 \in 1..q /\ j \in Nat
                                  /\ (p - q) + (j + 1) = ((p - q) + 1) + j
                                  /\ ((p - q) + 1) + j \in 1..p
                                  /\ (p - q) + 1 < ((p - q) + 1) + j
OBVIOUS

(* The frame that is projected is one of its event's, and those left are   *)
(* the next ones.                                                          *)
AtFrame(c, e, n, p, q) ==
  /\ p \in Nat /\ q \in Nat \ {0}
  /\ e = event[c] /\ e \in Events /\ event'[c] = e /\ Events \subseteq Nat
  /\ DOMAIN Script[e] = 1..p /\ n \in 1..p /\ DOMAIN frames'[c] = 1..(q - 1)
  /\ Script[e][n] = Frame(c)
  /\ \A j \in 1..(q - 1) : /\ frames'[c][j][1] = Script[e][n + j]
                           /\ n + j \in 1..p /\ n < n + j

LEMMA FrameOfEvent ==
  ASSUME IInv, NEW c \in Consumers, Projection(c)
  PROVE  \E e, n, p, q : AtFrame(c, e, n, p, q)
<1>1. PICK e \in Events : e = event[c] /\ InStep /\ phase[c] = "projecting" /\ event'[c] = e
  BY FrameTyped DEF Projection, IInv
<1>2. PICK q \in Nat \ {0} :
        /\ q = Len(frames[c]) /\ DOMAIN frames[c] = 1..q /\ DOMAIN frames'[c] = 1..(q - 1)
        /\ \A j \in 1..(q - 1) : frames'[c][j] = frames[c][j + 1]
  BY FramesAfter
<1>3. PICK p \in Nat : p = Len(Script[e]) /\ DOMAIN Script[e] = 1..p /\ Events \subseteq Nat
  <2>1. Script[e] \in Seq(Frames)
    BY <1>1, FramesTyped
  <2> QED
    BY <2>1, LenProperties, FramesTyped
<1>4. q <= p
  BY <1>1, <1>2, <1>3 DEF InStep, Busy
<1>5. \A j \in 1..q : frames[c][j][1] = Script[e][(p - q) + j]
  <2>1. Left(c) = p - q
    BY <1>1, <1>2, <1>3 DEF Left
  <2> QED
    BY <1>1, <1>2, <2>1 DEF InStep, Busy
<1>6. PICK n \in 1..p :
        /\ Script[e][n] = Frame(c)
        /\ \A j \in 1..(q - 1) : /\ frames'[c][j][1] = Script[e][n + j]
                                 /\ n + j \in 1..p /\ n < n + j
  <2> DEFINE m == (p - q) + 1
  <2>1. /\ m \in 1..p
        /\ \A j \in 1..(q - 1) : /\ j + 1 \in 1..q /\ (p - q) + (j + 1) = m + j
                                 /\ m + j \in 1..p /\ m < m + j
    BY <1>4, Positions
  <2>2. Script[e][m] = Frame(c)
    <3>1. 1 \in 1..q
      OBVIOUS
    <3>2. frames[c][1][1] = Script[e][m]
      BY <1>5, <3>1
    <3>3. Frame(c) = frames[c][1][1]
      BY DEF Frame
    <3> QED
      BY <3>2, <3>3
  <2>3. ASSUME NEW j \in 1..(q - 1) PROVE frames'[c][j][1] = Script[e][m + j]
    <3>1. frames[c][j + 1][1] = Script[e][(p - q) + (j + 1)]
      BY <1>5, <2>1
    <3> HIDE DEF m
    <3> QED
      BY <1>2, <2>1, <3>1
  <2> HIDE DEF m
  <2> QED
    BY <2>1, <2>2, <2>3
<1> QED
  BY <1>1, <1>2, <1>3, <1>6 DEF AtFrame

(* What follows a frame that ends a message says no more of it.            *)
LEMMA ClosingEnds ==
  ASSUME IInv, NEW c \in Consumers, Projection(c), NEW i \in EndOnce,
         i = EntityId(Frame(c)), Frame(c).kind \in Closing
  PROVE  EndsAhead(c, i)'
<1>1. PICK e, n, p, q : AtFrame(c, e, n, p, q)
  BY FrameOfEvent
<1>2. /\ p \in Nat /\ q \in Nat \ {0}
      /\ e = event[c] /\ e \in Events /\ event'[c] = e /\ Events \subseteq Nat
      /\ DOMAIN Script[e] = 1..p /\ n \in 1..p /\ DOMAIN frames'[c] = 1..(q - 1)
      /\ Script[e][n] = Frame(c)
      /\ \A j \in 1..(q - 1) : /\ frames'[c][j][1] = Script[e][n + j]
                               /\ n + j \in 1..p /\ n < n + j
  BY <1>1 DEF AtFrame
<1>3. ASSUME NEW l \in Events, NEW b \in DOMAIN Script[l], Follows(e, n, l, b),
             EntityId(Script[l][b]) = i
      PROVE  Script[l][b].kind \in Closing
  BY <1>2, <1>3 DEF EndOnce
<1>4. ASSUME NEW j \in 1..(q - 1), EntityId(frames'[c][j][1]) = i
      PROVE  frames'[c][j][1].kind \in Closing
  <2>1. Follows(e, n, e, n + j)
    BY <1>2 DEF Follows
  <2> QED
    BY <1>2, <1>3, <1>4, <2>1
<1>5. ASSUME NEW k \in Events, k > e, NEW j \in DOMAIN Script[k], EntityId(Script[k][j]) = i
      PROVE  Script[k][j].kind \in Closing
  <2>1. Follows(e, n, k, j)
    BY <1>2, <1>5 DEF Follows
  <2> QED
    BY <1>3, <1>5, <2>1
<1> QED
  BY <1>2, <1>4, <1>5 DEF EndsAhead

(* A consumer that goes on with what it has left. *)
LEMMA EndsGoOn ==
  ASSUME NEW c \in Consumers, NEW i, EndsAhead(c, i),
         event' = event,
         \/ frames'[c] = frames[c]
         \/ /\ Len(frames[c]) \in Nat \ {0} /\ DOMAIN frames[c] = 1..Len(frames[c])
            /\ DOMAIN frames'[c] = 1..(Len(frames[c]) - 1)
            /\ \A j \in 1..(Len(frames[c]) - 1) : frames'[c][j] = frames[c][j + 1]
  PROVE  EndsAhead(c, i)'
<1>1. ASSUME NEW j \in DOMAIN frames'[c], EntityId(frames'[c][j][1]) = i
      PROVE  frames'[c][j][1].kind \in Closing
  <2>1. CASE frames'[c] = frames[c]
    BY <1>1, <2>1 DEF EndsAhead
  <2>2. CASE frames'[c] # frames[c]
    <3>1. j + 1 \in DOMAIN frames[c] /\ frames'[c][j] = frames[c][j + 1]
      BY <2>2
    <3> QED
      BY <1>1, <3>1 DEF EndsAhead
  <2> QED
    BY <2>1, <2>2
<1>2. \A k \in Events : k > event'[c] =>
         \A j \in DOMAIN Script[k] : EntityId(Script[k][j]) = i => Script[k][j].kind \in Closing
  BY DEF EndsAhead
<1>3. (\A j \in DOMAIN frames'[c] :
         EntityId(frames'[c][j][1]) = i => frames'[c][j][1].kind \in Closing)
      /\ \A k \in Events : k > event'[c] =>
           \A j \in DOMAIN Script[k] : EntityId(Script[k][j]) = i => Script[k][j].kind \in Closing
  BY <1>1, <1>2
<1> QED
  BY <1>3 DEF EndsAhead

LEMMA ProjectionEnds ==
  ASSUME IInv, NEW c \in Consumers, Projection(c)
  PROVE  Ends'
<1> DEFINE i0 == EntityId(Frame(c))
<1>1. /\ Ends /\ Storage /\ Writes /\ phase[c] = "projecting" /\ c # 0 /\ c \in Writers
      /\ i0 \in Ids /\ ~Writing(c)
  BY FrameTyped DEF Projection, IInv, Writers, Consumers, Writing
<1>2. /\ phase'[c] \in {"receiving", "projecting", "storing"}
      /\ \A d \in Consumers : d # c => phase'[d] = phase[d]
      /\ \A t \in Writers : t # c => write'[t] = write[t]
      /\ phase'[c] = "storing" =>
           /\ write'[c].id = i0
           /\ Closed(write'[c].entity) <=> Frame(c).kind \in Closing
  BY AfterProjection
<1>3. /\ taken'[i0] = taken[i0] \cup {<<c, event[c]>>}
      /\ \A i \in Ids : i # i0 => taken'[i] = taken[i]
      /\ \A i \in Ids : taken[i] \subseteq taken'[i]
      /\ \A i \in Ids : OneConsumer(i)' => OneConsumer(i)
      /\ <<c, event[c]>>[1] = c
      /\ taken \in [Ids -> SUBSET (Consumers \X Events)]
  BY TakenAfter DEF IInv, Storage
<1>4. UNCHANGED <<event, rows>> /\ event[c] \in Events
  BY FrameTyped DEF Projection, IInv
<1>5. /\ Len(frames[c]) \in Nat \ {0} /\ DOMAIN frames[c] = 1..Len(frames[c])
      /\ DOMAIN frames'[c] = 1..(Len(frames[c]) - 1)
      /\ \A j \in 1..(Len(frames[c]) - 1) : frames'[c][j] = frames[c][j + 1]
      /\ \A d \in Consumers : d # c => frames'[d] = frames[d]
  BY FramesAfter
<1>6. UserIds \subseteq Ids /\ EndOnce \subseteq Ids
  BY UserFrames DEF EndOnce
<1>7. Frame(c) = frames[c][1][1] /\ 1 \in DOMAIN frames[c]
  BY <1>5 DEF Frame
<1>8. \A i : WritesOn(c, i)' => (Closed(write'[c].entity) <=> Frame(c).kind \in Closing)
  BY <1>1, <1>2 DEF WritesOn, Writing
<1>9. \A i : WritesOn(c, i)' => i = i0
  BY <1>1, <1>2 DEF WritesOn, Writing
<1>10. \A i \in EndOnce : i = i0 /\ Frame(c).kind \in Closing => EndsAhead(c, i)'
  BY ClosingEnds
<1>11. ASSUME NEW i \in EndOnce, EndsAhead(c, i) PROVE EndsAhead(c, i)'
  BY <1>4, <1>5, <1>11, EndsGoOn
<1>12. \A i : RowClosed(i)' <=> RowClosed(i)
  BY <1>4 DEF RowClosed
<1> HIDE DEF i0
<1>13. ASSUME NEW d \in Consumers, NEW i \in EndOnce \ UserIds, OneConsumer(i)', TakenBy(d, i)',
              phase'[d] # "gone"
       PROVE  /\ RowClosed(i)' \/ (WritesOn(d, i)' /\ Closed(write'[d].entity)) => EndsAhead(d, i)'
              /\ RowClosed(i)' /\ WritesOn(d, i)' => Closed(write'[d].entity)
  <2>1. OneConsumer(i) /\ i \in Ids
    BY <1>3, <1>6, <1>13
  <2>2. CASE d # c
    <3>1. i # i0
      <4>1. PICK k \in Events : <<d, k>> \in taken'[i]
        BY <1>13 DEF TakenBy
      <4>2. <<d, k>>[1] = d
        OBVIOUS
      <4> QED
        BY <1>3, <1>13, <2>2, <4>1, <4>2 DEF OneConsumer
    <3>2. TakenBy(d, i) /\ phase[d] # "gone"
      BY <1>2, <1>3, <1>13, <2>1, <2>2, <3>1 DEF TakenBy
    <3>3. WritesOn(d, i)' <=> WritesOn(d, i)
      <4>1. d # 0 /\ d \in Writers
        BY DEF Writers, Consumers
      <4> QED
        BY <1>2, <2>2, <4>1 DEF WritesOn, Writing
    <3>4. write'[d] = write[d]
      BY <1>2, <2>2 DEF Writers
    <3>5. EndsAhead(d, i) => EndsAhead(d, i)'
      BY <1>4, <1>5, <2>2, EndsGoOn
    <3> QED
      BY <1>1, <1>12, <2>1, <3>2, <3>3, <3>4, <3>5 DEF Ends
  <2>3. CASE d = c /\ i # i0
    <3>1. TakenBy(c, i) /\ phase[c] # "gone"
      BY <1>1, <1>3, <1>13, <2>1, <2>3 DEF TakenBy
    <3> QED
      BY <1>1, <1>9, <1>11, <1>12, <2>1, <2>3, <3>1 DEF Ends
  <2>4. CASE d = c /\ i = i0
    <3>1. RowClosed(i) => Frame(c).kind \in Closing
      <4> SUFFICES ASSUME RowClosed(i) PROVE Frame(c).kind \in Closing
        OBVIOUS
      <4>1. taken[i] # {}
        BY <1>1, <2>1 DEF Ends, RowClosed
      <4>2. PICK x \in taken[i] : TRUE
        BY <4>1
      <4>3. x[1] = c
        BY <1>3, <1>13, <2>1, <2>4, <4>2 DEF OneConsumer
      <4>4. x \in Consumers \X Events
        BY <1>3, <2>1, <4>2
      <4>5. TakenBy(c, i)
        BY <4>2, <4>3, <4>4 DEF TakenBy
      <4>6. EndsAhead(c, i)
        BY <1>1, <2>1, <4>5 DEF Ends
      <4> QED
        BY <1>7, <2>4, <4>6 DEF EndsAhead, i0
    <3> QED
      BY <1>8, <1>10, <1>12, <1>13, <2>4, <3>1
  <2> QED
    BY <2>2, <2>3, <2>4
<1>14. \A i \in Ids \ UserIds : rows'[i] # NoRow => taken'[i] # {}
  BY <1>1, <1>3, <1>4 DEF Ends
<1> QED
  BY <1>1, <1>4, <1>13, <1>14 DEF Ends

LEMMA ProjectingStep ==
  ASSUME IInv, NEW c \in Consumers, Project(c) PROVE IInv'
<1>1. Projection(c) /\ Caches'
  BY ProjectStep DEF IInv
<1> QED
  BY <1>1, ProjectionConsumes, ProjectionWrites, ProjectionShows, ProjectionEnds DEF IInv

-----------------------------------------------------------------------------
(* Steps that write nothing, read no version and tell nobody.              *)
LEMMA WritesStand ==
  ASSUME IInv, started' \in Nat, started <= started',
         runner' \in {"idle", "reading", "storing", "telling", "failed"},
         runner' = "reading" => published' \in Events /\ IsUserEvent(published'),
         UNCHANGED <<history, lastSeen, write, rows, shown>>,
         \A t \in Writers : (Writing(t)' <=> Writing(t)) /\ (Telling(t)' <=> Telling(t))
  PROVE  Storage' /\ Writes' /\ Shows' /\ Sees'
<1>1. Storage /\ Writes /\ Shows /\ Sees /\ started \in Nat
  BY DEF IInv, Consumption
<1>2. /\ taken' = taken /\ unwritten' = unwritten /\ lastSeen' = lastSeen /\ write' = write
      /\ rows' = rows /\ shown' = shown
  BY DEF history
<1>3. Storage'
  <2>1. ASSUME NEW i \in Ids, NEW x \in taken[i] PROVE x[1] <= started'
    <3>1. x \in Consumers \X Events /\ x[1] <= started
      BY <1>1 DEF Storage
    <3>2. x[1] \in Nat
      BY <3>1 DEF Consumers
    <3> QED
      BY <1>1, <3>1, <3>2
  <2> QED
    BY <1>1, <1>2, <2>1 DEF Storage
<1>4. 0 \in Writers /\ Consumers \subseteq Writers
  BY DEF Writers
<1>5. Writes'
  BY <1>1, <1>2, <1>4 DEF Writes
<1>6. \A i : Told(i)' <=> Told(i)
  BY <1>2 DEF Told
<1>7. \A i : OneConsumer(i)' <=> OneConsumer(i)
  BY <1>2 DEF OneConsumer
<1>8. Shows'
  BY <1>1, <1>2, <1>6, <1>7 DEF Shows
<1>9. \A c \in Consumers : phase[c] = "telling" => phase'[c] = "telling"
  BY <1>4 DEF Telling, Consumers
<1>10. Sees'
  BY <1>1, <1>2, <1>9 DEF Sees
<1> QED
  BY <1>3, <1>5, <1>8, <1>10

LEMMA EndsStand ==
  ASSUME IInv, UNCHANGED <<history, write, rows>>,
         \A t \in Writers : Writing(t)' <=> Writing(t),
         \A c \in Consumers : phase'[c] # "gone" => phase[c] # "gone",
         \A c \in Consumers, i \in EndOnce \ UserIds :
           TakenBy(c, i) /\ phase'[c] # "gone" /\ EndsAhead(c, i) => EndsAhead(c, i)'
  PROVE  Ends'
<1>1. Ends /\ Consumers \subseteq Writers
  BY DEF IInv, Writers
<1>2. taken' = taken /\ write' = write /\ rows' = rows
  BY DEF history
<1>3. ASSUME NEW c \in Consumers, NEW i \in EndOnce \ UserIds,
             OneConsumer(i)', TakenBy(c, i)', phase'[c] # "gone"
      PROVE  /\ RowClosed(i)' \/ (WritesOn(c, i)' /\ Closed(write'[c].entity)) => EndsAhead(c, i)'
             /\ RowClosed(i)' /\ WritesOn(c, i)' => Closed(write'[c].entity)
  <2>1. OneConsumer(i) /\ TakenBy(c, i) /\ phase[c] # "gone"
    BY <1>2, <1>3 DEF OneConsumer, TakenBy
  <2>2. (RowClosed(i)' <=> RowClosed(i)) /\ (WritesOn(c, i)' <=> WritesOn(c, i))
    BY <1>1, <1>2 DEF RowClosed, WritesOn
  <2> QED
    BY <1>1, <1>2, <1>3, <2>1, <2>2 DEF Ends
<1> QED
  BY <1>1, <1>2, <1>3 DEF Ends

LEMMA ConsumingStands ==
  ASSUME IInv, UNCHANGED <<stream, seq, consuming, started>>, published' \in 0..Len(Script),
         cancelled' \subseteq 1..started, late' \in 0..MaxLate
  PROVE  Consumption' /\ InStep'
<1>1. /\ Consumption /\ InStep /\ phase' = phase /\ event' = event /\ frames' = frames
      /\ stream' = stream /\ seq' = seq /\ started' = started
  BY DEF IInv, consuming
<1>2. \A c \in Consumers : (Busy(c)' <=> Busy(c)) /\ Left(c)' = Left(c)
  BY <1>1 DEF Busy, Left
<1>3. Consumption'
  BY <1>1, <1>2 DEF Consumption
<1> QED
  BY <1>1, <1>2, <1>3 DEF InStep

LEMMA SameEnds ==
  ASSUME NEW c \in Consumers, NEW i, EndsAhead(c, i), event'[c] = event[c], frames'[c] = frames[c]
  PROVE  EndsAhead(c, i)'
BY DEF EndsAhead

LEMMA BeginStep ==
  ASSUME IInv, started < MaxConsumers, NEW s \in Consumers, Begin(started + 1, s),
         cancelled' \subseteq 1..started,
         UNCHANGED <<projector, history, published, late, seq, frames, lastSeen, runner,
                     write, rows, shown>>
  PROVE  IInv'
<1>1. /\ Consumption /\ Caches /\ Storage /\ Writes /\ InStep
      /\ started \in Nat /\ MaxConsumers \in Nat
  BY ProjectorAssumption DEF IInv, Consumption
<1>2. /\ started' = started + 1 /\ stream' = [stream EXCEPT ![started + 1] = s]
      /\ phase' = [phase EXCEPT ![started + 1] = "receiving"]
      /\ event' = [event EXCEPT ![started + 1] = published]
      /\ published' = published /\ late' = late /\ seq' = seq /\ frames' = frames
      /\ runner' = runner
  BY DEF Begin
<1>3. PICK n \in Consumers : n = started + 1
  BY <1>1 DEF Consumers
<1>4. phase[n] = "none" /\ phase'[n] = "receiving" /\ n > started
  BY <1>1, <1>2, <1>3 DEF Consumption
<1>5. \A d \in Consumers : d # n => phase'[d] = phase[d] /\ event'[d] = event[d]
  BY <1>1, <1>2, <1>3 DEF Consumption
<1>6. \A t \in Writers : (Writing(t)' <=> Writing(t)) /\ (Telling(t)' <=> Telling(t))
  BY <1>2, <1>4, <1>5 DEF Writing, Telling, Writers
<1>7. \A d \in Consumers : (Busy(d)' => Busy(d) /\ d # n)
  BY <1>4, <1>5 DEF Busy
<1>8. Consumption'
  <2>1. /\ phase' \in [Consumers -> {"none", "receiving", "projecting", "storing",
                                     "telling", "gone"}]
        /\ event' \in [Consumers -> 0..Len(Script)] /\ stream' \in [Consumers -> Consumers]
        /\ published' \in 0..Len(Script) /\ late' \in 0..MaxLate
        /\ seq' \in [Consumers -> Nat] /\ frames' \in [Consumers -> Seq(Numbered)]
    BY <1>1, <1>2, <1>3 DEF Consumption
  <2>2. started' \in 0..MaxConsumers /\ cancelled' \subseteq 1..started'
    BY <1>1, <1>2
  <2>3. \A c \in Consumers : c > started' => phase'[c] = "none"
    <3>1. \A c \in Consumers : c > started + 1 => c # n /\ c > started
      BY <1>1, <1>3 DEF Consumers
    <3> QED
      BY <1>1, <1>2, <1>5, <3>1 DEF Consumption
  <2>4. \A c \in Consumers : Busy(c)' => event'[c] \in Events
    BY <1>1, <1>5, <1>7 DEF Consumption
  <2>5. \A c \in Consumers : phase'[c] = "projecting" => frames'[c] # << >>
    BY <1>1, <1>2, <1>4, <1>5 DEF Consumption
  <2> QED
    BY <2>1, <2>2, <2>3, <2>4, <2>5 DEF Consumption
<1>9. Caches'
  BY <1>1 DEF Caches, projector
<1>10. InStep'
  <2>1. \A d \in Consumers : Busy(d)' => Busy(d) /\ event'[d] = event[d] /\ frames'[d] = frames[d]
    BY <1>2, <1>5, <1>7
  <2>2. \A d \in Consumers : Busy(d)' => Left(d)' = Left(d)
    BY <2>1 DEF Left
  <2> QED
    BY <1>1, <2>1, <2>2 DEF InStep
<1>11. Storage' /\ Writes' /\ Shows' /\ Sees'
  <2>1. started' \in Nat /\ started <= started'
    BY <1>1, <1>2
  <2>2. /\ runner' \in {"idle", "reading", "storing", "telling", "failed"}
        /\ runner' = "reading" => published' \in Events /\ IsUserEvent(published')
    BY <1>1, <1>2 DEF Writes
  <2> QED
    BY <1>6, <2>1, <2>2, WritesStand
<1>12. Ends'
  <2>1. \A i \in Ids : ~TakenBy(n, i)
    <3> SUFFICES ASSUME NEW i \in Ids, NEW k \in Events, <<n, k>> \in taken[i] PROVE FALSE
      BY DEF TakenBy
    <3>1. <<n, k>>[1] <= started /\ <<n, k>>[1] = n
      BY <1>1 DEF Storage
    <3>2. n \in Nat
      BY DEF Consumers
    <3> QED
      BY <1>1, <1>4, <3>1, <3>2
  <2>2. EndOnce \subseteq Ids
    BY DEF EndOnce
  <2>3. \A c \in Consumers : phase'[c] # "gone" => phase[c] # "gone"
    BY <1>4, <1>5
  <2>4. ASSUME NEW c \in Consumers, NEW i \in EndOnce \ UserIds, TakenBy(c, i), EndsAhead(c, i)
        PROVE  EndsAhead(c, i)'
    <3>1. c # n
      BY <2>1, <2>2, <2>4
    <3> QED
      BY <1>2, <1>5, <2>4, <3>1, SameEnds
  <2> QED
    BY <1>6, <2>3, <2>4, EndsStand
<1> QED
  BY <1>8, <1>9, <1>10, <1>11, <1>12 DEF IInv

LEMMA StartStep == ASSUME IInv, Start PROVE IInv'
<1>1. /\ started < MaxConsumers /\ cancelled' = 1..started
      /\ Begin(started + 1, IF started = 0 THEN 1 ELSE stream[started])
      /\ UNCHANGED <<projector, history, published, late, seq, frames, lastSeen, runner,
                     write, rows, shown>>
  BY DEF Start
<1>2. (IF started = 0 THEN 1 ELSE stream[started]) \in Consumers
  <2>1. /\ started \in Nat /\ MaxConsumers \in Nat
        /\ stream \in [Consumers -> Consumers]
    BY ProjectorAssumption DEF IInv, Consumption
  <2>2. 1 \in Consumers /\ (started # 0 => started \in Consumers)
    BY <1>1, <2>1 DEF Consumers
  <2> QED
    BY <2>1, <2>2
<1> QED
  BY <1>1, <1>2, BeginStep

LEMMA RebuildStep == ASSUME IInv, Rebuild PROVE IInv'
<1>1. /\ started \in 1..(MaxConsumers - 1) /\ cancelled' = 1..started
      /\ Begin(started + 1, started + 1)
      /\ UNCHANGED <<projector, history, published, late, seq, frames, lastSeen, runner,
                     write, rows, shown>>
  BY DEF Rebuild
<1>2. MaxConsumers \in Nat
  BY ProjectorAssumption
<1>3. started < MaxConsumers /\ started + 1 \in Consumers
  BY <1>1, <1>2 DEF Consumers
<1> QED
  BY <1>1, <1>3, BeginStep

(* Steps beside what the consumers do: their phases, events and frames.    *)
LEMMA AsideStep ==
  ASSUME IInv, UNCHANGED <<history, stream, seq, consuming, started, lastSeen, write, rows, shown>>,
         published' \in 0..Len(Script), cancelled' \subseteq 1..started, late' \in 0..MaxLate,
         runner' \in {"idle", "reading", "storing", "telling", "failed"},
         runner' = "reading" => published' \in Events /\ IsUserEvent(published'),
         (Writing(0)' <=> Writing(0)) /\ (Telling(0)' <=> Telling(0)), Caches'
  PROVE  IInv'
<1>1. /\ phase' = phase /\ event' = event /\ frames' = frames /\ started' = started
      /\ started \in Nat
  BY DEF consuming, IInv, Consumption
<1>2. \A t \in Writers : (Writing(t)' <=> Writing(t)) /\ (Telling(t)' <=> Telling(t))
  BY <1>1 DEF Writing, Telling, Writers
<1>3. Storage' /\ Writes' /\ Shows' /\ Sees'
  BY <1>1, <1>2, WritesStand
<1>4. \A c \in Consumers, i \in EndOnce \ UserIds : EndsAhead(c, i) => EndsAhead(c, i)'
  BY <1>1, SameEnds
<1>5. Ends'
  BY <1>1, <1>2, <1>4, EndsStand
<1>6. Consumption' /\ InStep'
  BY <1>1, ConsumingStands
<1> QED
  BY <1>3, <1>5, <1>6 DEF IInv

LEMMA StopStep == ASSUME IInv, Stop PROVE IInv'
<1>1. /\ Caches /\ published \in 0..Len(Script) /\ late \in 0..MaxLate
      /\ runner \in {"idle", "reading", "storing", "telling", "failed"}
      /\ runner = "reading" => published \in Events /\ IsUserEvent(published)
  BY DEF IInv, Consumption, Writes
<1>2. /\ cancelled' = 1..started
      /\ UNCHANGED <<projector, history, consuming, published, started, late, stream, seq,
                     lastSeen, runner, write, rows, shown>>
  BY DEF Stop
<1>3. Caches'
  BY <1>1, <1>2 DEF Caches, projector
<1>4. (Writing(0)' <=> Writing(0)) /\ (Telling(0)' <=> Telling(0))
  BY <1>2 DEF Writing, Telling
<1> QED
  BY <1>1, <1>2, <1>3, <1>4, AsideStep

LEMMA TimePassesStep == ASSUME IInv, TimePasses PROVE IInv'
<1>1. /\ Caches /\ published \in 0..Len(Script) /\ late \in 0..MaxLate
      /\ cancelled \subseteq 1..started
      /\ runner \in {"idle", "reading", "storing", "telling", "failed"}
      /\ runner = "reading" => published \in Events /\ IsUserEvent(published)
  BY DEF IInv, Consumption, Writes
<1>2. /\ recent' \subseteq recent
      /\ published' = published /\ started' = started /\ cancelled' = cancelled /\ late' = late
      /\ stream' = stream /\ seq' = seq /\ runner' = runner
      /\ UNCHANGED <<history, consuming, roles, contents, toolNames, lastSeen, write, rows, shown>>
  BY DEF TimePasses, transport
<1>3. Caches'
  BY <1>1, <1>2 DEF Caches
<1>4. (Writing(0)' <=> Writing(0)) /\ (Telling(0)' <=> Telling(0))
  BY <1>2 DEF Writing, Telling
<1> QED
  BY <1>1, <1>2, <1>3, <1>4, AsideStep

LEMMA PublishStep == ASSUME IInv, Publish PROVE IInv'
<1>1. /\ Caches /\ published \in 0..Len(Script) /\ late \in 0..MaxLate
      /\ cancelled \subseteq 1..started
  BY DEF IInv, Consumption
<1>2. /\ runner = "idle" /\ published < Len(Script) /\ published' = published + 1
      /\ runner' = IF IsUserEvent(published') THEN "reading" ELSE "idle"
      /\ UNCHANGED <<projector, history, consuming, started, cancelled, late, stream, seq, lastSeen,
                     write, rows, shown>>
  BY DEF Publish
<1>3. published' \in 0..Len(Script) /\ published' \in Events
  BY <1>1, <1>2, FramesTyped
<1>4. Caches'
  BY <1>1, <1>2 DEF Caches, projector
<1>5. /\ runner' \in {"idle", "reading", "storing", "telling", "failed"}
      /\ runner' = "reading" => published' \in Events /\ IsUserEvent(published')
      /\ runner' \notin {"storing", "telling"}
  BY <1>2, <1>3
<1>6. (Writing(0)' <=> Writing(0)) /\ (Telling(0)' <=> Telling(0))
  BY <1>2, <1>5 DEF Writing, Telling
<1> QED
  BY <1>1, <1>2, <1>3, <1>4, <1>5, <1>6, AsideStep

LEMMA ChannelClosesStep == ASSUME IInv, NEW c \in Consumers, ChannelCloses(c) PROVE IInv'
<1>1. /\ Consumption /\ Caches /\ Writes /\ InStep /\ started \in Nat
  BY DEF IInv, Consumption
<1>2. /\ phase[c] = "receiving" /\ phase' = [phase EXCEPT ![c] = "gone"]
      /\ event' = [event EXCEPT ![c] = 0]
      /\ published' = published /\ started' = started /\ cancelled' = cancelled /\ late' = late
      /\ stream' = stream /\ seq' = seq /\ frames' = frames /\ runner' = runner
      /\ UNCHANGED <<projector, history, lastSeen, write, rows, shown>>
  BY DEF ChannelCloses, transport
<1>3. /\ phase'[c] = "gone"
      /\ \A d \in Consumers : d # c => phase'[d] = phase[d] /\ event'[d] = event[d]
      /\ phase' \in [Consumers -> {"none", "receiving", "projecting", "storing",
                                   "telling", "gone"}]
      /\ event' \in [Consumers -> 0..Len(Script)]
  <2>1. 0 \in 0..Len(Script)
    BY FramesTyped
  <2> QED
    BY <1>1, <1>2, <2>1 DEF Consumption
<1>4. \A d \in Consumers : Busy(d)' => Busy(d) /\ event'[d] = event[d]
  BY <1>3 DEF Busy
<1>5. \A t \in Writers : (Writing(t)' <=> Writing(t)) /\ (Telling(t)' <=> Telling(t))
  BY <1>2, <1>3 DEF Writing, Telling, Writers
<1>6. Consumption'
  <2>1. \A d \in Consumers : d > started' => phase'[d] = "none"
    BY <1>1, <1>2, <1>3 DEF Consumption
  <2>2. \A d \in Consumers : Busy(d)' => event'[d] \in Events
    BY <1>1, <1>4 DEF Consumption
  <2>3. \A d \in Consumers : phase'[d] = "projecting" => frames'[d] # << >>
    BY <1>1, <1>2, <1>3 DEF Consumption
  <2> QED
    BY <1>1, <1>2, <1>3, <2>1, <2>2, <2>3 DEF Consumption
<1>7. Caches'
  BY <1>1, <1>2 DEF Caches, projector
<1>8. InStep'
  <2>1. \A d \in Consumers : Busy(d)' => Left(d)' = Left(d)
    BY <1>2, <1>4 DEF Left
  <2> QED
    BY <1>1, <1>2, <1>4, <2>1 DEF InStep
<1>9. Storage' /\ Writes' /\ Shows' /\ Sees'
  <2>1. /\ runner' \in {"idle", "reading", "storing", "telling", "failed"}
        /\ runner' = "reading" => published' \in Events /\ IsUserEvent(published')
    BY <1>1, <1>2 DEF Writes
  <2>2. started' \in Nat /\ started <= started'
    BY <1>1, <1>2
  <2> QED
    BY <1>2, <1>5, <2>1, <2>2, WritesStand
<1>10. Ends'
  <2>1. \A d \in Consumers : phase'[d] # "gone" => phase[d] # "gone" /\ d # c
    BY <1>3
  <2>2. \A d \in Consumers, i \in EndOnce \ UserIds :
           TakenBy(d, i) /\ phase'[d] # "gone" /\ EndsAhead(d, i) => EndsAhead(d, i)'
    BY <1>2, <1>3, <2>1, SameEnds
  <2> QED
    BY <1>2, <1>5, <2>1, <2>2, EndsStand
<1> QED
  BY <1>6, <1>7, <1>8, <1>9, <1>10 DEF IInv

(* What Receive gives a consumer to project. *)
LEMMA ReceivedFrames ==
  ASSUME NEW k \in Events, NEW n \in Nat \ {0}, NEW s,
         s = [j \in DOMAIN Script[k] |-> <<Script[k][j], n>>]
  PROVE  /\ s \in Seq(Numbered) /\ s # << >>
         /\ Len(s) = Len(Script[k]) /\ DOMAIN s = DOMAIN Script[k]
         /\ \A j \in DOMAIN s : s[j][1] = Script[k][j]
<1>1. Script[k] \in Seq(Frames) /\ Len(Script[k]) \in Nat \ {0}
  BY FramesTyped
<1>2. DOMAIN Script[k] = 1..Len(Script[k]) /\ \A j \in DOMAIN Script[k] : Script[k][j] \in Frames
  BY <1>1, LenProperties, ElementOfSeq
<1>3. \A j \in 1..Len(Script[k]) : <<Script[k][j], n>> \in Numbered
  BY <1>2 DEF Numbered
<1>4. s \in [1..Len(Script[k]) -> Numbered]
  BY <1>2, <1>3
<1>5. s \in Seq(Numbered)
  BY <1>1, <1>4, SeqDef
<1>6. Len(s) = Len(Script[k])
  BY <1>1, <1>4, <1>5, LenProperties
<1>7. s # << >>
  BY <1>1, <1>6, EmptySeq
<1> QED
  BY <1>2, <1>5, <1>6, <1>7

LEMMA ReceiveStep == ASSUME IInv, NEW c \in Consumers, Receive(c) PROVE IInv'
<1>1. /\ Consumption /\ Caches /\ Writes /\ InStep /\ started \in Nat
      /\ event[c] \in Nat /\ published \in 0..Len(Script) /\ stream[c] \in Consumers
      /\ seq[stream[c]] \in Nat /\ Events = 1..Len(Script) /\ Len(Script) \in Nat
  BY FramesTyped DEF IInv, Consumption
<1>2. /\ phase[c] = "receiving" /\ event[c] < published
      /\ late' = (IF c \in cancelled THEN late + 1 ELSE late) /\ late' <= MaxLate
      /\ event' = [event EXCEPT ![c] = event[c] + 1]
      /\ seq' = [seq EXCEPT ![stream[c]] = seq[stream[c]] + 1]
      /\ frames' = [frames EXCEPT ![c] =
                      [j \in DOMAIN Script[event'[c]] |->
                         <<Script[event'[c]][j], seq'[stream[c]]>>]]
      /\ phase' = [phase EXCEPT ![c] = "projecting"]
      /\ published' = published /\ started' = started /\ cancelled' = cancelled
      /\ stream' = stream /\ runner' = runner
      /\ UNCHANGED <<projector, history, lastSeen, write, rows, shown>>
  BY DEF Receive
<1>3. PICK k \in Events : k = event[c] + 1
  BY <1>1, <1>2
<1>4. PICK n \in Nat \ {0} : n = seq[stream[c]] + 1
  BY <1>1
<1>5. event \in [Consumers -> 0..Len(Script)] /\ seq \in [Consumers -> Nat]
  BY <1>1 DEF Consumption
<1>6. /\ event'[c] = k /\ event' \in [Consumers -> 0..Len(Script)]
      /\ \A d \in Consumers : d # c => event'[d] = event[d]
  BY <1>1, <1>2, <1>3, <1>5
<1>7. seq'[stream[c]] = n /\ seq' \in [Consumers -> Nat]
  BY <1>1, <1>2, <1>4, <1>5
<1>8. PICK s : s = [j \in DOMAIN Script[k] |-> <<Script[k][j], n>>]
  OBVIOUS
<1>9. frames' = [frames EXCEPT ![c] = s]
  <2> DEFINE r == [j \in DOMAIN Script[event'[c]] |-> <<Script[event'[c]][j], seq'[stream[c]]>>]
  <2>1. frames' = [frames EXCEPT ![c] = r]
    BY <1>2
  <2>2. r = s
    BY <1>6, <1>7, <1>8
  <2> HIDE DEF r
  <2> QED
    BY <2>1, <2>2
<1>10. /\ s \in Seq(Numbered) /\ s # << >>
       /\ Len(s) = Len(Script[k]) /\ DOMAIN s = DOMAIN Script[k]
       /\ \A j \in DOMAIN s : s[j][1] = Script[k][j]
  BY <1>8, ReceivedFrames
<1>11. /\ frames'[c] = s /\ frames' \in [Consumers -> Seq(Numbered)]
       /\ \A d \in Consumers : d # c => frames'[d] = frames[d]
  <2>1. frames \in [Consumers -> Seq(Numbered)]
    BY <1>1 DEF Consumption
  <2> QED
    BY <1>9, <1>10, <2>1
<1>12. /\ phase'[c] = "projecting"
       /\ \A d \in Consumers : d # c => phase'[d] = phase[d]
       /\ phase' \in [Consumers -> {"none", "receiving", "projecting", "storing",
                                    "telling", "gone"}]
  BY <1>1, <1>2 DEF Consumption
<1>13. \A t \in Writers : (Writing(t)' <=> Writing(t)) /\ (Telling(t)' <=> Telling(t))
  BY <1>2, <1>12 DEF Writing, Telling, Writers
<1>14. late' \in 0..MaxLate
  BY <1>1, <1>2, ProjectorAssumption DEF Consumption
<1>15. \A d \in Consumers : d # c => (Busy(d)' <=> Busy(d))
  BY <1>12 DEF Busy
<1>16. Consumption'
  <2>1. \A d \in Consumers : d > started' => phase'[d] = "none"
    BY <1>1, <1>2, <1>12 DEF Consumption
  <2>2. \A d \in Consumers : Busy(d)' => event'[d] \in Events
    BY <1>1, <1>6, <1>15 DEF Consumption
  <2>3. \A d \in Consumers : phase'[d] = "projecting" => frames'[d] # << >>
    BY <1>1, <1>10, <1>11, <1>12 DEF Consumption
  <2> QED
    BY <1>1, <1>2, <1>6, <1>7, <1>11, <1>12, <1>14, <2>1, <2>2, <2>3 DEF Consumption
<1>17. Caches'
  BY <1>1, <1>2 DEF Caches, projector
<1>18. InStep'
  <2>1. ASSUME NEW d \in Consumers, Busy(d)'
        PROVE  /\ Len(frames'[d]) <= Len(Script[event'[d]])
               /\ \A j \in DOMAIN frames'[d] : frames'[d][j][1] = Script[event'[d]][Left(d)' + j]
    <3>1. CASE d = c
      <4>1. PICK p \in Nat : p = Len(Script[k]) /\ DOMAIN Script[k] = 1..p
        <5>1. Script[k] \in Seq(Frames)
          BY FramesTyped
        <5> QED
          BY <5>1, LenProperties
      <4>2. Left(c)' = 0 /\ Len(s) = p /\ DOMAIN s = 1..p
        <5>1. Left(c)' = p - p
          BY <1>6, <1>10, <1>11, <4>1 DEF Left
        <5> QED
          BY <1>10, <4>1, <5>1
      <4>3. \A j \in 1..p : 0 + j = j
        OBVIOUS
      <4>4. p <= p
        OBVIOUS
      <4> QED
        BY <1>6, <1>10, <1>11, <3>1, <4>1, <4>2, <4>3, <4>4
    <3>2. CASE d # c
      <4>1. Left(d)' = Left(d)
        BY <1>6, <1>11, <3>2 DEF Left
      <4>2. Busy(d) /\ event'[d] = event[d] /\ frames'[d] = frames[d]
        BY <1>6, <1>11, <1>15, <2>1, <3>2
      <4>3. /\ Len(frames[d]) <= Len(Script[event[d]])
            /\ \A j \in DOMAIN frames[d] : frames[d][j][1] = Script[event[d]][Left(d) + j]
        BY <1>1, <4>2 DEF InStep
      <4> QED
        BY <4>1, <4>2, <4>3
    <3> QED
      BY <3>1, <3>2
  <2> QED
    BY <2>1 DEF InStep
<1>19. Storage' /\ Writes' /\ Shows' /\ Sees'
  <2>1. /\ runner' \in {"idle", "reading", "storing", "telling", "failed"}
        /\ runner' = "reading" => published' \in Events /\ IsUserEvent(published')
    BY <1>1, <1>2 DEF Writes
  <2>2. started' \in Nat /\ started <= started'
    BY <1>1, <1>2
  <2> QED
    BY <1>2, <1>13, <2>1, <2>2, WritesStand
<1>20. Ends'
  <2>1. \A d \in Consumers : phase'[d] # "gone" => phase[d] # "gone"
    BY <1>2, <1>12
  <2>2. ASSUME NEW i, EndsAhead(c, i) PROVE EndsAhead(c, i)'
    <3>1. k > event[c]
      BY <1>1, <1>3
    <3>2. \A j \in DOMAIN Script[k] : EntityId(Script[k][j]) = i => Script[k][j].kind \in Closing
      BY <2>2, <3>1 DEF EndsAhead
    <3>3. \A l \in Events : l > k => l > event[c]
      BY <1>1, <1>3
    <3>4. \A l \in Events : l > k =>
            \A j \in DOMAIN Script[l] : EntityId(Script[l][j]) = i => Script[l][j].kind \in Closing
      BY <2>2, <3>3 DEF EndsAhead
    <3> QED
      BY <1>6, <1>10, <1>11, <3>2, <3>4 DEF EndsAhead
  <2>3. \A d \in Consumers, i \in EndOnce \ UserIds : EndsAhead(d, i) => EndsAhead(d, i)'
    BY <1>6, <1>11, <2>2, SameEnds
  <2> QED
    BY <1>2, <1>13, <2>1, <2>3, EndsStand
<1> QED
  BY <1>16, <1>17, <1>18, <1>19, <1>20 DEF IInv

-----------------------------------------------------------------------------
(* Two who write the same message, of which there is one consumer, are     *)
(* that consumer and the runner: both have the user's message.             *)
LEMMA WritersAgree ==
  ASSUME Writes, Storage, NEW t \in Writers, NEW u \in Writers, Writing(t), Writing(u), t # u,
         write[t].id = write[u].id, OneConsumer(write[t].id)
  PROVE  write[t].entity = write[u].entity
<1>1. CASE t = 0 \/ u = 0
  BY <1>1 DEF Writes
<1>2. CASE t # 0 /\ u # 0
  <2>1. t \in Consumers /\ u \in Consumers
    BY <1>2 DEF Writers
  <2>2. PICK k \in Events, l \in Events :
           <<t, k>> \in taken[write[t].id] /\ <<u, l>> \in taken[write[t].id]
    BY <2>1 DEF Writes
  <2>3. <<t, k>>[1] = t /\ <<u, l>>[1] = u
    OBVIOUS
  <2> QED
    BY <2>2, <2>3 DEF OneConsumer
<1> QED
  BY <1>1, <1>2

LEMMA WriteTyped ==
  ASSUME Writes, NEW t \in Writers, Writing(t)
  PROVE  /\ write[t] \in Write /\ write[t].id \in Ids /\ write[t].version \in Nat \ {0}
         /\ write[t].entity \in Entity
<1>1. write[t] \in Write
  BY DEF Writes
<1> QED
  BY <1>1 DEF Write

(* A row is written: the store of a consumer's write or of the runner's.   *)
StoresRow(t) ==
  /\ Writing(t) /\ ~Telling(t) /\ Telling(t)'
  /\ Stored(t)
  /\ \A u \in Writers : u # t => (Telling(u)' <=> Telling(u))
  /\ \A u \in Writers : Writing(u)' <=> Writing(u)
  /\ \A c \in Consumers : phase'[c] # "gone" => phase[c] # "gone"
  /\ runner' \in {"idle", "reading", "storing", "telling", "failed"}
  /\ runner' = "reading" => runner = "reading"
  /\ UNCHANGED <<published, started, history, event, frames, lastSeen, write, shown>>

LEMMA RowStored ==
  ASSUME IInv, NEW t \in Writers, StoresRow(t)
  PROVE  /\ rows' \in [Ids -> {NoRow} \cup Row]
         /\ rows'[write[t].id].entity = write[t].entity
         /\ rows'[write[t].id].version = write[t].version
         /\ rows'[write[t].id] # NoRow
         /\ \A i \in Ids : i # write[t].id => rows'[i] = rows[i]
<1>1. /\ Writing(t) /\ Writes /\ rows \in [Ids -> {NoRow} \cup Row]
      /\ rows' = [rows EXCEPT ![write[t].id] = [version |-> write[t].version,
                                                entity |-> write[t].entity]]
  BY DEF StoresRow, Stored, IInv, Storage
<1>2. /\ write[t].id \in Ids /\ write[t].version \in Nat \ {0} /\ write[t].entity \in Entity
  BY <1>1, WriteTyped
<1> DEFINE r == [version |-> write[t].version, entity |-> write[t].entity]
<1>3. r \in Row /\ r.version = write[t].version /\ r.entity = write[t].entity /\ r # NoRow
  BY <1>2 DEF Row, NoRow
<1>4. rows' = [rows EXCEPT ![write[t].id] = r]
  BY <1>1
<1> HIDE DEF r
<1>5. rows'[write[t].id] = r /\ \A i \in Ids : i # write[t].id => rows'[i] = rows[i]
  BY <1>1, <1>2, <1>4
<1>6. rows' \in [Ids -> {NoRow} \cup Row]
  BY <1>1, <1>2, <1>3, <1>4
<1> QED
  BY <1>3, <1>5, <1>6

LEMMA StoresRowWrites ==
  ASSUME IInv, NEW t \in Writers, StoresRow(t)
  PROVE  Storage' /\ Writes' /\ Shows' /\ Sees'
<1>1. /\ Storage /\ Writes /\ Shows /\ Sees /\ Writing(t) /\ ~Telling(t) /\ Telling(t)'
      /\ \A u \in Writers : u # t => (Telling(u)' <=> Telling(u))
      /\ \A u \in Writers : Writing(u)' <=> Writing(u)
      /\ \A u \in Writers : Telling(u) => Writing(u)
  BY DEF StoresRow, IInv, Telling, Writing
<1>2. /\ taken' = taken /\ unwritten' = unwritten /\ lastSeen' = lastSeen /\ write' = write
      /\ shown' = shown /\ started' = started /\ published' = published
      /\ runner' \in {"idle", "reading", "storing", "telling", "failed"}
      /\ runner' = "reading" => runner = "reading"
  BY DEF StoresRow, history
<1>3. /\ rows' \in [Ids -> {NoRow} \cup Row]
      /\ rows'[write[t].id].entity = write[t].entity
      /\ rows'[write[t].id].version = write[t].version
      /\ \A i \in Ids : i # write[t].id => rows'[i] = rows[i]
  BY RowStored
<1>4. Storage'
  BY <1>1, <1>2, <1>3 DEF Storage
<1>5. Writes'
  <2>1. 0 \in Writers /\ Consumers \subseteq Writers
    BY DEF Writers
  <2> QED
    BY <1>1, <1>2, <2>1 DEF Writes
<1>6. Shows'
  <2>1. ASSUME NEW i \in Ids, OneConsumer(i)', NEW u \in Writers, Telling(u)', write[u].id = i
        PROVE  rows'[i].entity = write[u].entity
    <3>1. OneConsumer(i)
      BY <1>2, <2>1 DEF OneConsumer
    <3>2. CASE u = t
      BY <1>3, <2>1, <3>2
    <3>3. CASE u # t /\ i = write[t].id
      <4>1. Writing(u)
        BY <1>1, <2>1, <3>3
      <4> QED
        BY <1>1, <1>3, <2>1, <3>1, <3>3, <4>1, WritersAgree
    <3>4. CASE u # t /\ i # write[t].id
      BY <1>1, <1>3, <2>1, <3>1, <3>4 DEF Shows
    <3> QED
      BY <3>2, <3>3, <3>4
  <2>2. ASSUME NEW i \in Ids, OneConsumer(i)', Told(i)'
        PROVE  shown'[i] = rows'[i].entity
    <3>1. OneConsumer(i)
      BY <1>2, <2>2 DEF OneConsumer
    <3>2. i # write[t].id
      BY <1>1, <1>2, <2>2 DEF Told
    <3>3. Told(i)
      BY <1>1, <1>2, <2>2 DEF Told
    <3> QED
      BY <1>1, <1>2, <1>3, <3>1, <3>2, <3>3 DEF Shows
  <2> QED
    BY <1>2, <2>1, <2>2 DEF Shows
<1>7. Sees'
  <2>1. ASSUME NEW i \in Ids \ UserIds
        PROVE  \/ rows'[i].version <= lastSeen'
               \/ \E c \in Consumers : /\ phase'[c] = "telling" /\ write'[c].id = i
                                       /\ write'[c].version = rows'[i].version
    <3>1. CASE i = write[t].id
      <4>1. t \in Consumers /\ t # 0
        BY <1>1, <2>1, <3>1 DEF Writes, Writers, Consumers
      <4>2. phase'[t] = "telling"
        BY <1>1, <4>1 DEF Telling
      <4> QED
        BY <1>2, <1>3, <3>1, <4>1, <4>2
    <3>2. CASE i # write[t].id
      <4>1. ASSUME NEW c \in Consumers, phase[c] = "telling" PROVE phase'[c] = "telling"
        <5>1. c \in Writers /\ c # 0
          BY DEF Writers, Consumers
        <5> QED
          BY <1>1, <4>1, <5>1 DEF Telling
      <4> QED
        BY <1>1, <1>2, <1>3, <3>2, <4>1 DEF Sees
    <3> QED
      BY <3>1, <3>2
  <2> QED
    BY <2>1 DEF Sees
<1> QED
  BY <1>4, <1>5, <1>6, <1>7

LEMMA StoresRowEnds ==
  ASSUME IInv, NEW t \in Writers, StoresRow(t)
  PROVE  Ends'
<1>1. /\ Ends /\ Writes /\ Storage /\ Writing(t)
      /\ \A u \in Writers : Writing(u)' <=> Writing(u)
      /\ \A c \in Consumers : phase'[c] # "gone" => phase[c] # "gone"
      /\ write[t].id \in Ids /\ Consumers \subseteq Writers
  BY WriteTyped DEF StoresRow, IInv, Writers
<1>2. taken' = taken /\ write' = write /\ event' = event /\ frames' = frames
  BY DEF StoresRow, history
<1>3. /\ rows'[write[t].id].entity = write[t].entity
      /\ rows'[write[t].id] # NoRow
      /\ \A i \in Ids : i # write[t].id => rows'[i] = rows[i]
  BY RowStored
<1>4. ASSUME write[t].id \notin UserIds PROVE t \in Consumers
  BY <1>1, <1>4 DEF Writes, Writers
<1>5. \A i \in Ids \ UserIds : rows'[i] # NoRow => taken'[i] # {}
  <2>1. write[t].id \notin UserIds => taken[write[t].id] # {}
    BY <1>1, <1>4 DEF Writes
  <2> QED
    BY <1>1, <1>2, <1>3, <2>1 DEF Ends
<1>6. \A i \in UserIds : rows'[i] # NoRow => rows'[i].entity = UserMessage
  <2>1. UserIds \subseteq Ids
    BY UserFrames
  <2>2. write[t].id \in UserIds => write[t].entity = UserMessage
    BY <1>1 DEF Writes
  <2> QED
    BY <1>1, <1>3, <2>1, <2>2 DEF Ends
<1>7. ASSUME NEW c \in Consumers, NEW i \in EndOnce \ UserIds,
             OneConsumer(i)', TakenBy(c, i)', phase'[c] # "gone"
      PROVE  /\ RowClosed(i)' \/ (WritesOn(c, i)' /\ Closed(write'[c].entity)) => EndsAhead(c, i)'
             /\ RowClosed(i)' /\ WritesOn(c, i)' => Closed(write'[c].entity)
  <2>1. OneConsumer(i) /\ TakenBy(c, i) /\ phase[c] # "gone" /\ i \in Ids
    BY <1>1, <1>2, <1>7 DEF OneConsumer, TakenBy, EndOnce
  <2>2. /\ RowClosed(i) \/ (WritesOn(c, i) /\ Closed(write[c].entity)) => EndsAhead(c, i)
        /\ RowClosed(i) /\ WritesOn(c, i) => Closed(write[c].entity)
    BY <1>1, <2>1 DEF Ends
  <2>3. WritesOn(c, i)' <=> WritesOn(c, i)
    BY <1>1, <1>2 DEF WritesOn
  <2>4. EndsAhead(c, i) => EndsAhead(c, i)'
    BY <1>2, SameEnds
  <2>5. CASE i # write[t].id
    <3>1. RowClosed(i)' <=> RowClosed(i)
      BY <1>3, <2>1, <2>5 DEF RowClosed
    <3> QED
      BY <1>2, <2>2, <2>3, <2>4, <3>1
  <2>6. CASE i = write[t].id
    <3>1. t = c
      <4>1. t \in Consumers
        BY <1>4, <2>6
      <4>2. PICK k \in Events, l \in Events : <<t, k>> \in taken[i] /\ <<c, l>> \in taken[i]
        BY <1>1, <2>1, <2>6, <4>1 DEF Writes, TakenBy
      <4>3. <<t, k>>[1] = t /\ <<c, l>>[1] = c
        OBVIOUS
      <4> QED
        BY <2>1, <4>2, <4>3 DEF OneConsumer
    <3>2. WritesOn(c, i)
      BY <1>1, <2>6, <3>1 DEF WritesOn
    <3>3. RowClosed(i)' <=> Closed(write[c].entity)
      BY <1>3, <2>6, <3>1 DEF RowClosed, Closed
    <3> QED
      BY <1>2, <2>2, <2>3, <2>4, <3>2, <3>3
  <2> QED
    BY <2>5, <2>6
<1> QED
  BY <1>5, <1>6, <1>7 DEF Ends

(* A write is over: told to the websockets, or failed.                     *)
EndsWrite(t) ==
  /\ Writing(t) /\ ~Writing(t)' /\ ~Telling(t)'
  /\ write' = [write EXCEPT ![t] = NoWrite]
  /\ \A u \in Writers : u # t => (Writing(u)' <=> Writing(u)) /\ (Telling(u)' <=> Telling(u))
  /\ \A c \in Consumers : phase'[c] # "gone" => phase[c] # "gone"
  /\ runner' \in {"idle", "reading", "storing", "telling", "failed"}
  /\ runner' = "reading" => runner = "reading"
  /\ lastSeen' \in Nat /\ lastSeen <= lastSeen'
  /\ unwritten' \subseteq Ids
  /\ UNCHANGED <<published, started, taken, event, frames, rows>>

Failed(t) == ~Telling(t) /\ shown' = shown
HasTold(t) ==
  Telling(t) /\ Announced(t) /\ (t \in Consumers => write[t].version <= lastSeen')

LEMMA WriteEnded ==
  ASSUME IInv, NEW t \in Writers, EndsWrite(t)
  PROVE  /\ write' \in [Writers -> Write \cup {NoWrite}] /\ write'[t] = NoWrite
         /\ \A u \in Writers : u # t => write'[u] = write[u]
         /\ \A u \in Writers : Writing(u)' => u # t /\ Writing(u)
         /\ \A u \in Writers : Telling(u)' => u # t /\ Telling(u)
         /\ \A u \in Writers : Telling(u) => Writing(u)
<1>1. write \in [Writers -> Write \cup {NoWrite}] /\ write' = [write EXCEPT ![t] = NoWrite]
  BY DEF IInv, Writes, EndsWrite
<1> QED
  BY <1>1 DEF EndsWrite, Writing, Telling

LEMMA EndsWriteWrites ==
  ASSUME IInv, NEW t \in Writers, EndsWrite(t), shown' \in [Ids -> Entity \cup {NoEntity}]
  PROVE  Storage' /\ Writes' /\ Ends'
<1>1. /\ Storage /\ Writes /\ Ends
      /\ ~Writing(t)' /\ Consumers \subseteq Writers /\ 0 \in Writers
      /\ \A u \in Writers : u # t => (Writing(u)' <=> Writing(u))
      /\ \A c \in Consumers : phase'[c] # "gone" => phase[c] # "gone"
      /\ runner' \in {"idle", "reading", "storing", "telling", "failed"}
      /\ runner' = "reading" => runner = "reading"
      /\ lastSeen' \in Nat /\ unwritten' \subseteq Ids
  BY DEF EndsWrite, IInv, Writers
<1>2. /\ taken' = taken /\ rows' = rows /\ started' = started /\ published' = published
      /\ event' = event /\ frames' = frames
  BY DEF EndsWrite
<1>3. /\ write' \in [Writers -> Write \cup {NoWrite}] /\ write'[t] = NoWrite
      /\ \A u \in Writers : u # t => write'[u] = write[u]
      /\ \A u \in Writers : Writing(u)' => u # t /\ Writing(u)
  BY WriteEnded
<1>4. Storage'
  BY <1>1, <1>2 DEF Storage
<1>5. Writes'
  <2>1. ASSUME NEW u \in Writers
        PROVE  /\ Writing(u)' <=> write'[u] # NoWrite
               /\ Writing(u)' /\ write'[u].id \in UserIds => write'[u].entity = UserMessage
    <3>1. CASE u = t
      BY <1>1, <1>3, <3>1
    <3>2. CASE u # t
      BY <1>1, <1>3, <3>2 DEF Writes
    <3> QED
      BY <3>1, <3>2
  <2>2. Writing(0)' => write'[0].id \in UserIds
    BY <1>1, <1>3 DEF Writes
  <2>3. \A c \in Consumers : Writing(c)' => \E k \in Events : <<c, k>> \in taken'[write'[c].id]
    BY <1>1, <1>2, <1>3 DEF Writes
  <2> QED
    BY <1>1, <1>2, <1>3, <2>1, <2>2, <2>3 DEF Writes
<1>6. ASSUME NEW c \in Consumers, NEW i \in EndOnce \ UserIds,
             OneConsumer(i)', TakenBy(c, i)', phase'[c] # "gone"
      PROVE  /\ RowClosed(i)' \/ (WritesOn(c, i)' /\ Closed(write'[c].entity)) => EndsAhead(c, i)'
             /\ RowClosed(i)' /\ WritesOn(c, i)' => Closed(write'[c].entity)
  <2>1. OneConsumer(i) /\ TakenBy(c, i) /\ phase[c] # "gone"
    BY <1>1, <1>2, <1>6 DEF OneConsumer, TakenBy
  <2>2. RowClosed(i)' <=> RowClosed(i)
    BY <1>2 DEF RowClosed
  <2>3. WritesOn(c, i)' => WritesOn(c, i) /\ write'[c] = write[c]
    BY <1>1, <1>3 DEF WritesOn
  <2>4. EndsAhead(c, i) => EndsAhead(c, i)'
    BY <1>2, SameEnds
  <2> QED
    BY <1>1, <2>1, <2>2, <2>3, <2>4 DEF Ends
<1>7. Ends'
  BY <1>1, <1>2, <1>6 DEF Ends
<1> QED
  BY <1>4, <1>5, <1>7

LEMMA FailedShows ==
  ASSUME IInv, NEW t \in Writers, EndsWrite(t), Failed(t)
  PROVE  shown' \in [Ids -> Entity \cup {NoEntity}] /\ Shows' /\ Sees'
<1>1. /\ Storage /\ Shows /\ Sees /\ ~Telling(t) /\ shown' = shown /\ taken' = taken /\ rows' = rows
      /\ \A u \in Writers : Telling(u)' <=> Telling(u)
      /\ lastSeen \in Nat /\ lastSeen' \in Nat /\ lastSeen <= lastSeen'
  BY DEF IInv, EndsWrite, Failed, Storage
<1>2. \A u \in Writers : Telling(u) => write'[u] = write[u]
  BY <1>1, WriteEnded
<1>3. \A i \in Ids : Told(i)' <=> Told(i)
  BY <1>1, <1>2 DEF Told
<1>4. \A i \in Ids : OneConsumer(i)' <=> OneConsumer(i)
  BY <1>1 DEF OneConsumer
<1>5. Shows'
  BY <1>1, <1>2, <1>3, <1>4 DEF Shows
<1>6. ASSUME NEW i \in Ids \ UserIds
      PROVE  \/ rows'[i].version <= lastSeen'
             \/ \E c \in Consumers : /\ phase'[c] = "telling" /\ write'[c].id = i
                                     /\ write'[c].version = rows'[i].version
  <2>1. CASE rows[i].version <= lastSeen
    <3>1. rows[i].version \in Nat
      BY <1>1 DEF Storage, NoRow, Row
    <3> QED
      BY <1>1, <2>1, <3>1
  <2>2. CASE ~(rows[i].version <= lastSeen)
    <3>1. PICK c \in Consumers : /\ phase[c] = "telling" /\ write[c].id = i
                                 /\ write[c].version = rows[i].version
      BY <1>1, <2>2 DEF Sees
    <3>2. c \in Writers /\ c # 0
      BY DEF Writers, Consumers
    <3>3. Telling(c)
      BY <3>1, <3>2 DEF Telling
    <3>4. phase'[c] = "telling"
      BY <1>1, <3>2, <3>3 DEF Telling
    <3> QED
      BY <1>1, <1>2, <3>1, <3>2, <3>3, <3>4
  <2> QED
    BY <2>1, <2>2
<1> QED
  BY <1>1, <1>5, <1>6 DEF Storage, Sees

LEMMA ToldShows ==
  ASSUME IInv, NEW t \in Writers, EndsWrite(t), HasTold(t)
  PROVE  shown' \in [Ids -> Entity \cup {NoEntity}] /\ Shows' /\ Sees'
<1>1. /\ Storage /\ Shows /\ Sees /\ Writes /\ Writing(t) /\ Telling(t) /\ ~Telling(t)'
      /\ taken' = taken /\ rows' = rows
      /\ \A u \in Writers : u # t => (Telling(u)' <=> Telling(u))
      /\ lastSeen \in Nat /\ lastSeen' \in Nat /\ lastSeen <= lastSeen'
      /\ t \in Consumers => write[t].version <= lastSeen'
      /\ shown' = [shown EXCEPT ![write[t].id] = write[t].entity]
      /\ shown \in [Ids -> Entity \cup {NoEntity}]
  BY DEF IInv, EndsWrite, HasTold, Storage, Announced
<1>2. write[t].id \in Ids /\ write[t].entity \in Entity
  BY <1>1, WriteTyped
<1>3. /\ shown' \in [Ids -> Entity \cup {NoEntity}]
      /\ shown'[write[t].id] = write[t].entity
      /\ \A i \in Ids : i # write[t].id => shown'[i] = shown[i]
  BY <1>1, <1>2
<1>4. /\ \A u \in Writers : u # t => write'[u] = write[u]
      /\ \A u \in Writers : Telling(u)' => u # t /\ Telling(u)
  BY WriteEnded
<1>5. ASSUME NEW i \in Ids, OneConsumer(i)'
      PROVE  /\ \A u \in Writers :
                  Telling(u)' /\ write'[u].id = i => rows'[i].entity = write'[u].entity
             /\ Told(i)' => shown'[i] = rows'[i].entity
  <2>1. OneConsumer(i)
    BY <1>1, <1>5 DEF OneConsumer
  <2>2. \A u \in Writers : Telling(u)' /\ write'[u].id = i => rows'[i].entity = write'[u].entity
    BY <1>1, <1>4, <2>1 DEF Shows
  <2>3. CASE i = write[t].id
    BY <1>1, <1>3, <2>1, <2>2, <2>3 DEF Shows
  <2>4. CASE i # write[t].id
    <3>1. Told(i)' => Told(i)
      BY <1>1, <1>4, <2>4 DEF Told
    <3> QED
      BY <1>1, <1>3, <2>1, <2>2, <2>4, <3>1 DEF Shows
  <2> QED
    BY <2>3, <2>4
<1>6. ASSUME NEW i \in Ids \ UserIds
      PROVE  \/ rows'[i].version <= lastSeen'
             \/ \E c \in Consumers : /\ phase'[c] = "telling" /\ write'[c].id = i
                                     /\ write'[c].version = rows'[i].version
  <2>1. CASE rows[i].version <= lastSeen
    <3>1. rows[i].version \in Nat
      BY <1>1 DEF Storage, NoRow, Row
    <3> QED
      BY <1>1, <2>1, <3>1
  <2>2. CASE ~(rows[i].version <= lastSeen)
    <3>1. PICK c \in Consumers : /\ phase[c] = "telling" /\ write[c].id = i
                                 /\ write[c].version = rows[i].version
      BY <1>1, <2>2 DEF Sees
    <3>2. c \in Writers /\ c # 0
      BY DEF Writers, Consumers
    <3>3. CASE c = t
      BY <1>1, <3>1, <3>3
    <3>4. CASE c # t
      <4>1. Telling(c)
        BY <3>1, <3>2 DEF Telling
      <4>2. phase'[c] = "telling"
        BY <1>1, <3>2, <3>4, <4>1 DEF Telling
      <4> QED
        BY <1>1, <1>4, <3>1, <3>2, <3>4, <4>2
    <3> QED
      BY <3>3, <3>4
  <2> QED
    BY <2>1, <2>2
<1> QED
  BY <1>3, <1>5, <1>6 DEF Shows, Sees

(* A consumer goes from one phase of its event to another. *)
LEMMA PhaseStep ==
  ASSUME IInv, NEW c \in Consumers, Busy(c), NEW v \in {"receiving", "projecting", "telling"},
         v = "projecting" => frames[c] # << >>,
         phase' = [phase EXCEPT ![c] = v],
         UNCHANGED <<transport, projector, event, frames>>
  PROVE  /\ Consumption' /\ InStep' /\ Caches'
         /\ phase'[c] = v /\ \A d \in Consumers : d # c => phase'[d] = phase[d]
<1>1. /\ Consumption /\ InStep /\ Caches /\ event' = event /\ frames' = frames
      /\ published' = published /\ started' = started /\ cancelled' = cancelled /\ late' = late
      /\ stream' = stream /\ seq' = seq
  BY DEF IInv, transport
<1>2. /\ phase'[c] = v /\ \A d \in Consumers : d # c => phase'[d] = phase[d]
      /\ phase' \in [Consumers -> {"none", "receiving", "projecting", "storing",
                                   "telling", "gone"}]
  BY <1>1 DEF Consumption
<1>3. \A d \in Consumers : (Busy(d)' => Busy(d)) /\ Left(d)' = Left(d)
  BY <1>1, <1>2 DEF Busy, Left
<1>4. \A d \in Consumers : phase'[d] = "projecting" => frames'[d] # << >>
  BY <1>1, <1>2 DEF Consumption
<1>5. \A d \in Consumers : d > started => phase'[d] = "none"
  BY <1>1, <1>2 DEF Consumption, Busy
<1>6. Consumption'
  BY <1>1, <1>2, <1>3, <1>4, <1>5 DEF Consumption
<1>7. InStep'
  BY <1>1, <1>3 DEF InStep
<1>8. Caches'
  BY <1>1 DEF Caches, projector
<1> QED
  BY <1>2, <1>6, <1>7, <1>8

LEMMA AfterFrames ==
  ASSUME NEW rest
  PROVE  /\ NextPhase(rest) \in {"receiving", "projecting", "telling"}
         /\ NextPhase(rest) = "projecting" => rest # << >>
         /\ NextPhase(rest) \notin {"storing", "telling", "gone"}
BY DEF NextPhase

LEMMA RunnerKinds ==
  ASSUME IInv
  PROVE  /\ runner \in {"idle", "reading", "storing", "telling", "failed"}
         /\ lastSeen \in Nat /\ shown \in [Ids -> Entity \cup {NoEntity}] /\ unwritten \subseteq Ids
         /\ started \in Nat /\ published \in 0..Len(Script) /\ cancelled \subseteq 1..started
         /\ late \in 0..MaxLate /\ Caches
         /\ 0 \in Writers /\ 0 \notin Consumers
         /\ \A c \in Consumers : c \in Writers /\ c # 0
BY DEF IInv, Storage, Writes, Consumption, Writers, Consumers

LEMMA StoreStores ==
  ASSUME IInv, NEW c \in Consumers, Store(c)
  PROVE  Consumption' /\ InStep' /\ Caches' /\ StoresRow(c)
<1>1. /\ phase[c] = "storing" /\ Stored(c) /\ phase' = [phase EXCEPT ![c] = "telling"]
      /\ UNCHANGED <<transport, projector, history, event, frames, lastSeen, runner, write, shown>>
      /\ published' = published /\ started' = started
  BY DEF Store, transport
<1>2. /\ Consumption' /\ InStep' /\ Caches'
      /\ phase'[c] = "telling" /\ \A d \in Consumers : d # c => phase'[d] = phase[d]
  BY <1>1, PhaseStep DEF Busy
<1>3. c \in Writers /\ c # 0
  BY RunnerKinds
<1>4. \A u \in Writers : /\ u # c => (Telling(u)' <=> Telling(u))
                         /\ Writing(u)' <=> Writing(u)
  BY <1>1, <1>2 DEF Telling, Writing, Writers
<1>5. Writing(c) /\ ~Telling(c) /\ Telling(c)'
  BY <1>1, <1>2, <1>3 DEF Telling, Writing
<1>6. \A d \in Consumers : phase'[d] # "gone" => phase[d] # "gone"
  BY <1>1, <1>2
<1>7. StoresRow(c)
  BY <1>1, <1>4, <1>5, <1>6, RunnerKinds DEF StoresRow
<1> QED
  BY <1>2, <1>7

LEMMA RunnerStoresStores ==
  ASSUME IInv, RunnerStores
  PROVE  Consumption' /\ InStep' /\ Caches' /\ StoresRow(0)
<1>1. /\ runner = "storing" /\ Stored(0) /\ runner' = "telling"
      /\ UNCHANGED <<transport, projector, history, consuming, lastSeen, write, shown>>
      /\ published' = published /\ started' = started /\ cancelled' = cancelled /\ late' = late
      /\ stream' = stream /\ seq' = seq
      /\ phase' = phase /\ event' = event /\ frames' = frames
  BY DEF RunnerStores, transport, consuming
<1>2. \A u \in Writers : /\ u # 0 => (Telling(u)' <=> Telling(u))
                         /\ Writing(u)' <=> Writing(u)
  BY <1>1 DEF Telling, Writing
<1>3. Writing(0) /\ ~Telling(0) /\ Telling(0)'
  BY <1>1 DEF Telling, Writing
<1>4. StoresRow(0)
  BY <1>1, <1>2, <1>3 DEF StoresRow
<1>5. Consumption' /\ InStep'
  BY <1>1, RunnerKinds, ConsumingStands
<1>6. Caches'
  BY <1>1, RunnerKinds DEF Caches, projector
<1> QED
  BY <1>4, <1>5, <1>6

LEMMA StoreStep == ASSUME IInv, NEW c \in Consumers, Store(c) PROVE IInv'
BY StoreStores, RunnerKinds, StoresRowWrites, StoresRowEnds DEF IInv

LEMMA RunnerStoresStep == ASSUME IInv, RunnerStores PROVE IInv'
BY RunnerStoresStores, RunnerKinds, StoresRowWrites, StoresRowEnds DEF IInv

LEMMA StoreFailsEnds ==
  ASSUME IInv, NEW c \in Consumers, StoreFails(c)
  PROVE  Consumption' /\ InStep' /\ Caches' /\ EndsWrite(c) /\ Failed(c)
<1>1. /\ phase[c] = "storing" /\ write' = [write EXCEPT ![c] = NoWrite]
      /\ unwritten' = unwritten \cup {write[c].id}
      /\ phase' = [phase EXCEPT ![c] = NextPhase(frames[c])]
      /\ UNCHANGED <<transport, projector, taken, event, frames, lastSeen, runner, rows>>
      /\ shown' = shown /\ published' = published /\ started' = started
  BY DEF StoreFails, Unannounced, transport
<1>2. /\ Consumption' /\ InStep' /\ Caches'
      /\ phase'[c] = NextPhase(frames[c]) /\ \A d \in Consumers : d # c => phase'[d] = phase[d]
  BY <1>1, PhaseStep, AfterFrames DEF Busy
<1>3. c \in Writers /\ c # 0
  BY RunnerKinds
<1>4. \A u \in Writers : u # c => (Telling(u)' <=> Telling(u)) /\ (Writing(u)' <=> Writing(u))
  BY <1>1, <1>2 DEF Telling, Writing, Writers
<1>5. Writing(c) /\ ~Telling(c) /\ ~Writing(c)' /\ ~Telling(c)'
  BY <1>1, <1>2, <1>3, AfterFrames DEF Telling, Writing
<1>6. \A d \in Consumers : phase'[d] # "gone" => phase[d] # "gone"
  BY <1>1, <1>2
<1>7. unwritten' \subseteq Ids
  BY <1>1, <1>3, <1>5, RunnerKinds, WriteTyped DEF IInv
<1>8. lastSeen' \in Nat /\ lastSeen <= lastSeen'
  BY <1>1, RunnerKinds
<1>9. EndsWrite(c)
  BY <1>1, <1>4, <1>5, <1>6, <1>7, <1>8, RunnerKinds DEF EndsWrite
<1>10. Failed(c)
  BY <1>1, <1>5 DEF Failed
<1> QED
  BY <1>2, <1>9, <1>10

LEMMA StoreFailsStep == ASSUME IInv, NEW c \in Consumers, StoreFails(c) PROVE IInv'
BY StoreFailsEnds, RunnerKinds, EndsWriteWrites, FailedShows DEF IInv

LEMMA TellEnds ==
  ASSUME IInv, NEW c \in Consumers, Tell(c)
  PROVE  Consumption' /\ InStep' /\ Caches' /\ EndsWrite(c) /\ HasTold(c)
<1>1. /\ phase[c] = "telling" /\ write' = [write EXCEPT ![c] = NoWrite]
      /\ lastSeen' = Larger(write[c].version) /\ Announced(c)
      /\ phase' = [phase EXCEPT ![c] = NextPhase(frames[c])]
      /\ UNCHANGED <<transport, projector, history, event, frames, runner, rows>>
      /\ taken' = taken /\ unwritten' = unwritten /\ published' = published /\ started' = started
  BY DEF Tell, transport, history
<1>2. /\ Consumption' /\ InStep' /\ Caches'
      /\ phase'[c] = NextPhase(frames[c]) /\ \A d \in Consumers : d # c => phase'[d] = phase[d]
  BY <1>1, PhaseStep, AfterFrames DEF Busy
<1>3. c \in Writers /\ c # 0
  BY RunnerKinds
<1>4. \A u \in Writers : u # c => (Telling(u)' <=> Telling(u)) /\ (Writing(u)' <=> Writing(u))
  BY <1>1, <1>2 DEF Telling, Writing, Writers
<1>5. Writing(c) /\ Telling(c) /\ ~Writing(c)' /\ ~Telling(c)'
  BY <1>1, <1>2, <1>3, AfterFrames DEF Telling, Writing
<1>6. \A d \in Consumers : phase'[d] # "gone" => phase[d] # "gone"
  BY <1>1, <1>2
<1>7. lastSeen' \in Nat /\ lastSeen <= lastSeen' /\ write[c].version <= lastSeen'
  <2>1. write[c].version \in Nat \ {0} /\ lastSeen \in Nat
    BY <1>3, <1>5, RunnerKinds, WriteTyped DEF IInv
  <2> QED
    BY <1>1, <2>1 DEF Larger
<1>8. EndsWrite(c)
  BY <1>1, <1>4, <1>5, <1>6, <1>7, RunnerKinds DEF EndsWrite
<1>9. HasTold(c)
  BY <1>1, <1>5, <1>7 DEF HasTold
<1> QED
  BY <1>2, <1>8, <1>9

LEMMA TellStep == ASSUME IInv, NEW c \in Consumers, Tell(c) PROVE IInv'
BY TellEnds, RunnerKinds, EndsWriteWrites, ToldShows DEF IInv

(* The runner's write is over. *)
LEMMA RunnerEndsWrite ==
  ASSUME IInv, runner \in {"storing", "telling"}, runner' \in {"idle", "failed"},
         write' = [write EXCEPT ![0] = NoWrite],
         UNCHANGED <<transport, projector, history, consuming, lastSeen, rows>>
  PROVE  Consumption' /\ InStep' /\ Caches' /\ EndsWrite(0)
<1>1. /\ taken' = taken /\ unwritten' = unwritten
      /\ published' = published /\ started' = started /\ cancelled' = cancelled /\ late' = late
      /\ stream' = stream /\ seq' = seq
      /\ phase' = phase /\ event' = event /\ frames' = frames
  BY DEF transport, consuming, history
<1>2. \A u \in Writers : u # 0 => (Telling(u)' <=> Telling(u)) /\ (Writing(u)' <=> Writing(u))
  BY <1>1 DEF Telling, Writing
<1>3. Writing(0) /\ ~Writing(0)' /\ ~Telling(0)'
  BY DEF Telling, Writing
<1>4. lastSeen' \in Nat /\ lastSeen <= lastSeen'
  BY RunnerKinds
<1>5. EndsWrite(0)
  BY <1>1, <1>2, <1>3, <1>4, RunnerKinds DEF EndsWrite
<1>6. Consumption' /\ InStep'
  BY <1>1, RunnerKinds, ConsumingStands
<1>7. Caches'
  BY RunnerKinds DEF Caches, projector
<1> QED
  BY <1>5, <1>6, <1>7

LEMMA RunnerStoreFailsStep == ASSUME IInv, RunnerStoreFails PROVE IInv'
<1>1. /\ runner = "storing" /\ runner' = "failed" /\ write' = [write EXCEPT ![0] = NoWrite]
      /\ UNCHANGED <<transport, projector, history, consuming, lastSeen, rows>> /\ shown' = shown
  BY DEF RunnerStoreFails
<1>2. Consumption' /\ InStep' /\ Caches' /\ EndsWrite(0)
  BY <1>1, RunnerEndsWrite
<1>3. Failed(0)
  BY <1>1 DEF Failed, Telling
<1> QED
  BY <1>2, <1>3, RunnerKinds, EndsWriteWrites, FailedShows DEF IInv

LEMMA RunnerTellsStep == ASSUME IInv, RunnerTells PROVE IInv'
<1>1. /\ runner = "telling" /\ runner' = "idle" /\ write' = [write EXCEPT ![0] = NoWrite]
      /\ UNCHANGED <<transport, projector, history, consuming, lastSeen, rows>> /\ Announced(0)
  BY DEF RunnerTells
<1>2. Consumption' /\ InStep' /\ Caches' /\ EndsWrite(0)
  BY <1>1, RunnerEndsWrite
<1>3. HasTold(0)
  BY <1>1, RunnerKinds DEF HasTold, Telling
<1> QED
  BY <1>2, <1>3, RunnerKinds, EndsWriteWrites, ToldShows DEF IInv

LEMMA ReadVersionStep == ASSUME IInv, ReadVersion PROVE IInv'
<1>1. /\ Storage /\ Writes /\ Shows /\ Sees /\ runner = "reading" /\ runner' = "storing"
      /\ published \in Events /\ IsUserEvent(published) /\ lastSeen \in Nat
      /\ write \in [Writers -> Write \cup {NoWrite}]
  BY RunnerKinds DEF ReadVersion, IInv, Writes
<1>2. /\ UNCHANGED <<transport, projector, history, consuming, lastSeen, rows, shown>>
      /\ taken' = taken /\ unwritten' = unwritten
      /\ published' = published /\ started' = started /\ cancelled' = cancelled /\ late' = late
      /\ stream' = stream /\ seq' = seq
      /\ phase' = phase /\ event' = event /\ frames' = frames
      /\ lastSeen' = lastSeen /\ rows' = rows /\ shown' = shown
  BY DEF ReadVersion, transport, history, consuming
<1> DEFINE f == Head(Script[published])
           w == [id |-> EntityId(f), version |-> UserVersion, entity |-> UserMessage]
<1>3. f \in Frames /\ f.kind = "chat.message"
  BY <1>1, FramesTyped DEF IsUserEvent
<1>4. w \in Write /\ w.id \in UserIds /\ w.entity = UserMessage
  <2>1. EntityId(f) \in UserIds /\ EntityId(f) \in Ids
    BY <1>3, UserFrames
  <2>2. UserVersion \in Nat \ {0}
    BY <1>1 DEF UserVersion
  <2> HIDE DEF f
  <2> QED
    BY <2>1, <2>2, UserFrames DEF Write
<1>5. write' = [write EXCEPT ![0] = w]
  BY DEF ReadVersion
<1> HIDE DEF w
<1>6. /\ write'[0] = w /\ write' \in [Writers -> Write \cup {NoWrite}]
      /\ \A u \in Writers : u # 0 => write'[u] = write[u]
  BY <1>1, <1>4, <1>5, RunnerKinds
<1>7. /\ Writing(0)' /\ ~Writing(0)
      /\ \A u \in Writers : u # 0 => (Writing(u)' <=> Writing(u))
      /\ \A u \in Writers : Telling(u)' <=> Telling(u)
      /\ ~Telling(0)
  BY <1>1, <1>2 DEF Writing, Telling
<1>8. Writes'
  <2>1. ASSUME NEW u \in Writers
        PROVE  /\ Writing(u)' <=> write'[u] # NoWrite
               /\ Writing(u)' /\ write'[u].id \in UserIds => write'[u].entity = UserMessage
    <3>1. CASE u = 0
      BY <1>4, <1>6, <1>7, <3>1, WriteIsSome
    <3>2. CASE u # 0
      BY <1>1, <1>6, <1>7, <3>2 DEF Writes
    <3> QED
      BY <3>1, <3>2
  <2>2. \A c \in Consumers : Writing(c)' => \E k \in Events : <<c, k>> \in taken'[write'[c].id]
    BY <1>1, <1>2, <1>6, <1>7, RunnerKinds DEF Writes
  <2> QED
    BY <1>1, <1>4, <1>6, <2>1, <2>2 DEF Writes
<1>9. Storage'
  BY <1>1, <1>2 DEF Storage
<1>10. \A u \in Writers : Telling(u) => write'[u] = write[u]
  BY <1>6, <1>7
<1>11. Shows'
  <2>1. \A i \in Ids : (Told(i)' <=> Told(i)) /\ (OneConsumer(i)' <=> OneConsumer(i))
    BY <1>2, <1>7, <1>10 DEF Told, OneConsumer
  <2> QED
    BY <1>1, <1>2, <1>7, <1>10, <2>1 DEF Shows
<1>12. Sees'
  BY <1>1, <1>2, <1>6, RunnerKinds DEF Sees
<1>13. Ends'
  <2>1. \A c \in Consumers : write'[c] = write[c] /\ (Writing(c)' <=> Writing(c))
    BY <1>6, <1>7, RunnerKinds
  <2>2. ASSUME NEW c \in Consumers, NEW i \in EndOnce \ UserIds,
               OneConsumer(i)', TakenBy(c, i)', phase'[c] # "gone"
        PROVE  /\ RowClosed(i)' \/ (WritesOn(c, i)' /\ Closed(write'[c].entity)) => EndsAhead(c, i)'
               /\ RowClosed(i)' /\ WritesOn(c, i)' => Closed(write'[c].entity)
    <3>1. OneConsumer(i) /\ TakenBy(c, i) /\ phase[c] # "gone"
      BY <1>2, <2>2 DEF OneConsumer, TakenBy
    <3>2. (RowClosed(i)' <=> RowClosed(i)) /\ (WritesOn(c, i)' <=> WritesOn(c, i))
      BY <1>2, <2>1 DEF RowClosed, WritesOn
    <3>3. EndsAhead(c, i) => EndsAhead(c, i)'
      BY <1>2, SameEnds
    <3> QED
      BY <2>1, <3>1, <3>2, <3>3 DEF IInv, Ends
  <2> QED
    BY <1>2, <2>2 DEF IInv, Ends
<1>14. Consumption' /\ InStep'
  BY <1>2, RunnerKinds, ConsumingStands
<1>15. Caches'
  BY <1>2, RunnerKinds DEF Caches, projector
<1> QED
  BY <1>8, <1>9, <1>11, <1>12, <1>13, <1>14, <1>15 DEF IInv

-----------------------------------------------------------------------------
LEMMA IdleIInv == ASSUME IInv, UNCHANGED vars PROVE IInv'
<1>1. /\ published' = published /\ started' = started /\ cancelled' = cancelled /\ late' = late
      /\ stream' = stream /\ seq' = seq /\ runner' = runner
      /\ roles' = roles /\ contents' = contents /\ recent' = recent /\ toolNames' = toolNames
      /\ UNCHANGED <<history, consuming, lastSeen, write, rows, shown>>
  BY DEF vars, transport, projector
<1>2. /\ published \in 0..Len(Script) /\ late \in 0..MaxLate /\ cancelled \subseteq 1..started
      /\ Caches /\ runner \in {"idle", "reading", "storing", "telling", "failed"}
      /\ runner = "reading" => published \in Events /\ IsUserEvent(published)
  BY RunnerKinds DEF IInv, Writes
<1>3. Caches'
  BY <1>1, <1>2 DEF Caches
<1>4. (Writing(0)' <=> Writing(0)) /\ (Telling(0)' <=> Telling(0))
  BY <1>1 DEF Writing, Telling
<1> QED
  BY <1>1, <1>2, <1>3, <1>4, AsideStep

LEMMA NextIInv == ASSUME IInv, [Next]_vars PROVE IInv'
<1>1. CASE Start
  BY <1>1, StartStep
<1>2. CASE Stop
  BY <1>2, StopStep
<1>3. CASE Rebuild
  BY <1>3, RebuildStep
<1>4. CASE TimePasses
  BY <1>4, TimePassesStep
<1>5. CASE Publish
  BY <1>5, PublishStep
<1>6. CASE Run
  BY <1>6, ReadVersionStep, RunnerStoresStep, RunnerStoreFailsStep, RunnerTellsStep DEF Run
<1>7. ASSUME NEW c \in Consumers, Consume(c) PROVE IInv'
  BY <1>7, ReceiveStep, ChannelClosesStep, ProjectingStep, StoreStep, StoreFailsStep, TellStep
  DEF Consume
<1>8. CASE UNCHANGED vars
  BY <1>8, IdleIInv
<1> QED
  BY <1>1, <1>2, <1>3, <1>4, <1>5, <1>6, <1>7, <1>8 DEF Next

LEMMA AlwaysIInv == Spec => []IInv
<1>1. IInv /\ [Next]_vars => IInv'
  BY NextIInv
<1> HIDE DEF IInv, Init, Next
<1> QED
  BY InitIInv, <1>1, PTL DEF Spec

LEMMA NumberedFrames == \A s \in Seq(Numbered) : s \in Seq(Frames \X Nat)
<1> SUFFICES ASSUME NEW s \in Seq(Numbered) PROVE s \in Seq(Frames \X Nat)
  OBVIOUS
<1>1. PICK n \in Nat : s \in [1..n -> Numbered]
  BY SeqDef
<1>2. s \in [1..n -> Frames \X Nat]
  BY <1>1 DEF Numbered
<1> QED
  BY <1>2, SeqDef

(* Every variable keeps its type: what a consumer, the projector's caches, *)
(* the store, lastSeenVersion and the websockets hold is what the code can *)
(* put there.                                                              *)
THEOREM ProjectorTypeCorrect == Spec => []TypeOK
<1>1. IInv => TypeOK
  <2> SUFFICES ASSUME IInv PROVE TypeOK
    OBVIOUS
  <2>1. \A c \in Consumers : frames[c] \in Seq(Frames \X Nat)
    BY NumberedFrames DEF IInv, Consumption
  <2>2. \A i \in Ids :
          rows[i] = NoRow \/ (rows[i].version \in Nat \ {0} /\ rows[i].entity \in Entity)
    BY DEF IInv, Storage, Row
  <2>3. write \in [Consumers \cup {0} -> Write \cup {NoWrite}]
    BY DEF IInv, Writes, Writers
  <2> QED
    BY <2>1, <2>2, <2>3 DEF IInv, Consumption, Caches, Storage, Writes, TypeOK
<1> HIDE DEF IInv, TypeOK
<1> QED
  BY <1>1, AlwaysIInv, PTL

LEMMA TellersWrite ==
  ASSUME IInv, NEW t \in Writers, Telling(t) PROVE write[t] # NoWrite
BY DEF IInv, Writes, Writing, Telling

(* Whatever writes of the consumers and the runner overlap and fail, what  *)
(* the websockets were last sent is what the store has, and lastSeenVersion*)
(* covers every row of the projector's: the hooks of                       *)
(* timelineProjectorUpsertHook.                                            *)
THEOREM ClientsAreTold == Spec => []ClientsInv
<1>1. IInv => ClientsInv
  <2> SUFFICES ASSUME IInv PROVE ClientsInv
    OBVIOUS
  <2>1. ShownIsStored
    <3> SUFFICES ASSUME NEW i \in Ids, OneConsumer(i), ~InFlight(i)
                 PROVE  shown[i] = rows[i].entity
      BY DEF ShownIsStored
    <3>1. Told(i)
      BY TellersWrite DEF Told, InFlight, Writers
    <3> QED
      BY <3>1 DEF IInv, Shows
  <2>2. LastSeenCovers
    BY DEF IInv, Sees, LastSeenCovers
  <2> QED
    BY <2>1, <2>2 DEF ClientsInv
<1> HIDE DEF IInv, ClientsInv
<1> QED
  BY <1>1, AlwaysIInv, PTL

Reopens(i) == /\ OneConsumer(i)' /\ rows[i] # NoRow /\ ~rows[i].entity.open
              /\ rows'[i].entity.open

LEMMA OnlyStoresWrite ==
  ASSUME IInv, [Next]_vars
  PROVE  rows' = rows \/ \E t \in Writers : StoresRow(t)
<1>1. CASE Start \/ Stop \/ Rebuild \/ TimePasses \/ Publish
  BY <1>1 DEF Start, Stop, Rebuild, TimePasses, Publish
<1>2. CASE Run
  <2>1. CASE RunnerStores
    BY <2>1, RunnerStoresStores, RunnerKinds
  <2>2. CASE ReadVersion \/ RunnerStoreFails \/ RunnerTells
    BY <2>2 DEF ReadVersion, RunnerStoreFails, RunnerTells
  <2> QED
    BY <1>2, <2>1, <2>2 DEF Run
<1>3. ASSUME NEW c \in Consumers, Consume(c)
      PROVE  rows' = rows \/ \E t \in Writers : StoresRow(t)
  <2>1. CASE Store(c)
    BY <2>1, StoreStores, RunnerKinds
  <2>2. CASE Receive(c) \/ ChannelCloses(c) \/ StoreFails(c) \/ Tell(c)
    BY <2>2 DEF Receive, ChannelCloses, StoreFails, Tell
  <2>3. CASE Project(c)
    BY <2>3, ProjectStep DEF Projection, IInv
  <2> QED
    BY <1>3, <2>1, <2>2, <2>3 DEF Consume
<1>4. CASE UNCHANGED vars
  BY <1>4 DEF vars
<1> QED
  BY <1>1, <1>2, <1>3, <1>4 DEF Next

LEMMA NothingReopens ==
  ASSUME IInv, [Next]_vars, NEW i \in EndOnce
  PROVE  ~Reopens(i)
<1> SUFFICES ASSUME Reopens(i) PROVE FALSE
  OBVIOUS
<1>1. PICK t \in Writers : StoresRow(t)
  BY OnlyStoresWrite DEF Reopens
<1>2. /\ rows'[write[t].id].entity = write[t].entity
      /\ \A j \in Ids : j # write[t].id => rows'[j] = rows[j]
  BY <1>1, RowStored
<1>3. i \in Ids /\ i = write[t].id
  BY <1>2 DEF Reopens, EndOnce
<1>4. /\ Writing(t) /\ Writes /\ Ends /\ OneConsumer(i) /\ RowClosed(i)
      /\ write[t].entity.open
  BY <1>1, <1>2, <1>3 DEF StoresRow, history, OneConsumer, Reopens, RowClosed, Closed, IInv
<1>5. i \notin UserIds
  BY <1>3, <1>4, UserFrames DEF Writes
<1>6. t \in Consumers
  BY <1>3, <1>4, <1>5 DEF Writes, Writers
<1>7. TakenBy(t, i) /\ WritesOn(t, i) /\ phase[t] # "gone"
  <2>1. t # 0
    BY <1>6 DEF Consumers
  <2> QED
    BY <1>3, <1>4, <1>6, <2>1 DEF Writes, TakenBy, WritesOn, Writing
<1>8. Closed(write[t].entity)
  BY <1>4, <1>5, <1>6, <1>7 DEF Ends
<1> QED
  BY <1>4, <1>8 DEF Closed

(* "we never reopen thinking stream state after llm.thinking.final": a     *)
(* message that ends for good and that one consumer sees to is never open  *)
(* again in the store, whichever of its frames' writes fail.               *)
THEOREM EndedStaysEnded == Spec => NeverReopened
<1>1. IInv /\ [Next]_vars =>
        [\A i \in EndOnce : OneConsumer(i)' /\ rows[i] # NoRow /\ ~rows[i].entity.open
                            => ~rows'[i].entity.open]_vars
  <2> SUFFICES ASSUME IInv, [Next]_vars, NEW i \in EndOnce, OneConsumer(i)', rows[i] # NoRow,
                      ~rows[i].entity.open, rows'[i].entity.open
               PROVE  FALSE
    OBVIOUS
  <2> QED
    BY NothingReopens DEF Reopens
<1> HIDE DEF IInv, Next
<1> QED
  BY <1>1, AlwaysIInv, PTL DEF Spec, NeverReopened

-----------------------------------------------------------------------------
(* That the timeline is faithful: what scripts say. *)
(* There is one order of a set of events.                                  *)
LEMMA OrderIsOne ==
  ASSUME NEW S \in SUBSET Nat, IsFiniteSet(S), NEW s, NEW t, IsOrder(s, S), IsOrder(t, S)
  PROVE  s = t
<1>1. PICK n \in Nat : n = Cardinality(S)
  BY FS_CardinalityType
<1>2. ASSUME NEW u, IsOrder(u, S)
      PROVE  /\ u \in [1..n -> S]
             /\ \A a, b \in 1..n : a < b => u[a] < u[b]
             /\ \A a \in 1..n : u[a] \in Nat
             /\ \A x \in S : \E a \in 1..n : u[a] = x
  <2>1. u \in [1..n -> S] /\ \A a, b \in 1..n : a < b => u[a] < u[b]
    BY <1>1, <1>2 DEF IsOrder
  <2>2. \A a \in 1..n : u[a] \in Nat
    BY <2>1
  <2>3. \A a, b \in 1..n : u[a] = u[b] => a = b
    <3> SUFFICES ASSUME NEW a \in 1..n, NEW b \in 1..n, u[a] = u[b], a # b PROVE FALSE
      OBVIOUS
    <3>1. a < b \/ b < a
      OBVIOUS
    <3>2. u[a] < u[b] \/ u[b] < u[a]
      BY <2>1, <3>1
    <3> QED
      BY <2>2, <3>2
  <2>4. u \in Injection(1..n, S)
    BY <2>1, <2>3 DEF Injection, IsInjective
  <2>5. Cardinality(1..n) = n
    BY FS_Interval
  <2>6. u \in Surjection(1..n, S)
    BY <1>1, <2>4, <2>5, FS_Injection
  <2> QED
    BY <2>1, <2>2, <2>6 DEF Surjection
<1>3. /\ s \in [1..n -> S] /\ t \in [1..n -> S]
      /\ \A a, b \in 1..n : a < b => s[a] < s[b] /\ t[a] < t[b]
      /\ \A a \in 1..n : s[a] \in Nat /\ t[a] \in Nat
      /\ \A x \in S : (\E a \in 1..n : s[a] = x) /\ \E a \in 1..n : t[a] = x
  BY <1>2
<1> DEFINE D == {a \in 1..n : s[a] # t[a]}
<1>4. CASE D = {}
  <2>1. \A a \in 1..n : s[a] = t[a]
    BY <1>4
  <2> HIDE DEF D
  <2> QED
    BY <1>3, <2>1
<1>5. CASE D # {}
  <2>1. D \in SUBSET Nat
    OBVIOUS
  <2>2. PICK m \in D : \A a \in D : m <= a
    BY <1>5, <2>1, LeastNumber
  <2>3. m \in 1..n /\ s[m] # t[m] /\ \A a \in 1..n : a < m => s[a] = t[a]
    BY <2>2
  <2>4. PICK a \in 1..n : t[a] = s[m]
    BY <1>3, <2>3
  <2>5. PICK b \in 1..n : s[b] = t[m]
    BY <1>3, <2>3
  <2>6. a > m
    <3>1. ~(a < m)
      <4> SUFFICES ASSUME a < m PROVE FALSE
        OBVIOUS
      <4>1. s[a] = t[a] /\ s[a] < s[m]
        BY <1>3, <2>3
      <4> QED
        BY <1>3, <2>3, <2>4, <4>1
    <3>2. a # m
      BY <2>3, <2>4
    <3> QED
      BY <2>3, <3>1, <3>2
  <2>7. b > m
    <3>1. ~(b < m)
      <4> SUFFICES ASSUME b < m PROVE FALSE
        OBVIOUS
      <4>1. s[b] = t[b] /\ t[b] < t[m]
        BY <1>3, <2>3
      <4> QED
        BY <1>3, <2>3, <2>5, <4>1
    <3>2. b # m
      BY <2>3, <2>5
    <3> QED
      BY <2>3, <3>1, <3>2
  <2>8. t[m] < s[m] /\ s[m] < t[m]
    BY <1>3, <2>3, <2>4, <2>5, <2>6, <2>7
  <2>9. s[m] \in Nat /\ t[m] \in Nat
    BY <1>3, <2>3
  <2> QED
    BY <2>8, <2>9
<1> QED
  BY <1>4, <1>5

(* All the text of a message, with a later event appended.                 *)
LEMMA SaidIsOrder ==
  ASSUME NEW i \in Ids, NEW k \in Events
  PROVE  /\ IsOrder(Said[i][k], Texts(k, i)) /\ IsFiniteSet(Texts(k, i))
         /\ Texts(k, i) \in SUBSET Nat
         /\ Said[i][k] \in Seq(Events) /\ k \in Nat \ {0}
<1>1. k \in Nat \ {0} /\ Texts(k, i) \subseteq Events
  BY FramesTyped DEF Texts
<1>2. \E s : IsOrder(s, Texts(k, i))
  BY <1>1, OrderExists
<1>3. Said[i][k] = InOrder(Texts(k, i))
  BY DEF Said, Texts
<1>4. IsOrder(InOrder(Texts(k, i)), Texts(k, i))
  BY <1>2 DEF InOrder, IsOrder
<1>5. IsFiniteSet(Texts(k, i)) /\ Texts(k, i) \in SUBSET Nat
  <2>1. IsFiniteSet(1..k) /\ Texts(k, i) \in SUBSET (1..k)
    BY <1>1, FS_Interval DEF Texts
  <2>2. Texts(k, i) \in SUBSET Nat
    BY DEF Texts
  <2> QED
    BY <2>1, <2>2, FS_Subset
<1> QED
  BY <1>1, <1>3, <1>4, <1>5, SaidTyped

Silent(i, k, l) == \A j \in (k + 1)..l : ~HasText(j, i)

LEMMA SaidNoMore ==
  ASSUME NEW i \in Ids, NEW k \in Events, NEW l \in Events, k <= l, Silent(i, k, l)
  PROVE  Said[i][l] = Said[i][k]
<1>1. k \in Nat \ {0} /\ l \in Nat \ {0}
  BY SaidIsOrder
<1>2. Texts(l, i) = Texts(k, i)
  <2>1. \A j \in 1..l : j \in 1..k \/ j \in (k + 1)..l
    BY <1>1
  <2>2. \A j \in 1..k : j \in 1..l
    BY <1>1
  <2> QED
    BY <2>1, <2>2 DEF Texts, Silent
<1> QED
  BY <1>2, SaidIsOrder, OrderIsOne

LEMMA NothingSaid ==
  ASSUME NEW i \in Ids, NEW l \in Events, Silent(i, 0, l)
  PROVE  Said[i][l] = << >>
<1>1. l \in Nat \ {0} /\ IsOrder(Said[i][l], Texts(l, i)) /\ Said[i][l] \in Seq(Events)
  BY SaidIsOrder
<1>2. Texts(l, i) = {}
  BY <1>1 DEF Texts, Silent
<1>3. Cardinality(Texts(l, i)) = 0
  BY <1>2, FS_EmptySet
<1>4. DOMAIN Said[i][l] = 1..0
  BY <1>1, <1>3 DEF IsOrder
<1>5. Len(Said[i][l]) = 0
  <2>1. PICK p \in Nat : p = Len(Said[i][l]) /\ DOMAIN Said[i][l] = 1..p
    BY <1>1, LenProperties
  <2>2. 1 \notin 1..p
    <3>1. 1..p = 1..0
      BY <1>4, <2>1
    <3> QED
      BY <3>1
  <2> QED
    BY <2>1, <2>2
<1> QED
  BY <1>1, <1>5, EmptySeq

LEMMA AppendsText ==
  ASSUME NEW S, IsFiniteSet(S), S \subseteq Events, NEW k \in Events, \A x \in S : x < k,
         NEW s \in Seq(Events), IsOrder(s, S)
  PROVE  IsOrder(Append(s, k), S \cup {k})
<1> DEFINE n == Cardinality(S)
           t == Append(s, k)
           U == S \cup {k}
<1>1. n \in Nat /\ Cardinality(U) = n + 1 /\ k \in Nat /\ Events \subseteq Nat
  <2>1. k \notin S /\ k \in Nat /\ Events \subseteq Nat
    BY FramesTyped
  <2> QED
    BY <2>1, FS_AddElement, FS_CardinalityType
<1>2. s \in [1..n -> S] /\ \A a, b \in 1..n : a < b => s[a] < s[b]
  BY DEF IsOrder
<1>3. \A a \in 1..n : s[a] \in S /\ s[a] \in Nat /\ s[a] < k
  BY <1>1, <1>2
<1> HIDE DEF n, U
<1>4. Len(s) = n
  BY <1>1, <1>2, LenProperties
<1>5. /\ t \in Seq(Events) /\ Len(t) = n + 1 /\ t[n + 1] = k
      /\ \A a \in 1..n : t[a] = s[a]
  BY <1>4, AppendProperties
<1>6. ASSUME NEW a \in 1..(n + 1), a # n + 1 PROVE a \in 1..n
  BY <1>1, <1>6
<1> HIDE DEF t
<1>7. t \in [1..(n + 1) -> U]
  <2>1. DOMAIN t = 1..(n + 1) /\ t \in [1..(n + 1) -> Events]
    BY <1>5, LenProperties
  <2>2. ASSUME NEW a \in 1..(n + 1) PROVE t[a] \in U
    BY <1>3, <1>5, <1>6 DEF U
  <2> QED
    BY <2>1, <2>2
<1>8. ASSUME NEW a \in 1..(n + 1), NEW b \in 1..(n + 1), a < b PROVE t[a] < t[b]
  <2>1. a # n + 1 /\ a \in 1..n
    BY <1>1, <1>8
  <2>2. CASE b = n + 1
    BY <1>3, <1>5, <2>1, <2>2
  <2>3. CASE b # n + 1
    BY <1>2, <1>5, <1>6, <1>8, <2>1, <2>3
  <2> QED
    BY <2>2, <2>3
<1>9. IsOrder(t, U)
  BY <1>1, <1>7, <1>8 DEF IsOrder
<1> QED
  BY <1>9 DEF U, t

LEMMA SaidOneMore ==
  ASSUME NEW i \in Ids, NEW k \in Events, NEW l \in Events, k < l, Silent(i, k, l - 1),
         HasText(l, i)
  PROVE  Said[i][l] = Append(Said[i][k], l)
<1>1. /\ k \in Nat \ {0} /\ l \in Nat \ {0} /\ Said[i][k] \in Seq(Events)
      /\ IsOrder(Said[i][k], Texts(k, i)) /\ IsFiniteSet(Texts(k, i))
      /\ IsOrder(Said[i][l], Texts(l, i)) /\ IsFiniteSet(Texts(l, i))
      /\ Texts(l, i) \in SUBSET Nat
  BY SaidIsOrder
<1>2. Texts(l, i) = Texts(k, i) \cup {l}
  <2>1. \A j \in 1..l : j = l \/ j \in 1..k \/ j \in (k + 1)..(l - 1)
    BY <1>1
  <2>2. l \in 1..l /\ \A j \in 1..k : j \in 1..l
    BY <1>1
  <2> QED
    BY <2>1, <2>2 DEF Texts, Silent
<1>3. Texts(k, i) \subseteq Events /\ \A x \in Texts(k, i) : x < l
  BY <1>1, FramesTyped DEF Texts
<1>4. IsOrder(Append(Said[i][k], l), Texts(l, i))
  BY <1>1, <1>2, <1>3, AppendsText
<1> QED
  BY <1>1, <1>4, OrderIsOne

-----------------------------------------------------------------------------
(* Well-formed scripts *)

LEMMA TouchingTyped ==
  ASSUME NEW i \in Ids
  PROVE  /\ Touching[i] \in SUBSET Events /\ Touching[i] \in SUBSET Nat /\ Touching[i] # {}
         /\ \A k \in Events : k \in Touching[i] <=>
              \E a \in DOMAIN Script[k] : EntityId(Script[k][a]) = i
<1>1. PICK f \in Frames : EntityId(f) = i
  BY DEF Ids
<1>2. PICK k \in Events : \E a \in DOMAIN Script[k] : f = Script[k][a]
  BY DEF Frames
<1>3. Touching[i] = {l \in Events : \E a \in DOMAIN Script[l] : EntityId(Script[l][a]) = i}
  BY DEF Touching
<1>4. Events \subseteq Nat
  BY FramesTyped
<1> QED
  BY <1>1, <1>2, <1>3, <1>4

LEMMA KindOfFrame ==
  ASSUME WellFormed, NEW k \in Events, NEW a \in DOMAIN Script[k], NEW i,
         EntityId(Script[k][a]) = i
  PROVE  /\ i \in Ids /\ k \in Touching[i] /\ Script[k][a] \in Frames
         /\ FrameAt(i, k) = Script[k][a]
         /\ KindAt(i, k) = Script[k][a].kind
         /\ \A b \in DOMAIN Script[k] : EntityId(Script[k][b]) = i => b = a
<1>1. Script[k][a] \in Frames
  BY DEF Frames
<1>2. i \in Ids
  BY <1>1, FramesTyped
<1>3. k \in Touching[i]
  BY <1>2, TouchingTyped
<1>4. \A b \in DOMAIN Script[k] : EntityId(Script[k][b]) = i => b = a
  BY <1>2 DEF WellFormed
<1>5. a \in Nat
  BY FramesTyped, LenProperties
<1>6. {b \in DOMAIN Script[k] : EntityId(Script[k][b]) = i} = {a}
  BY <1>4
<1>7. (CHOOSE j \in {a} : \A l \in {a} : l <= j) = a
  BY <1>5
<1>8. FrameAt(i, k) = Script[k][a] /\ KindAt(i, k) = Script[k][a].kind
  BY <1>6, <1>7 DEF FrameAt, KindAt
<1> QED
  BY <1>1, <1>2, <1>3, <1>4, <1>8

LEMMA KindTyped ==
  ASSUME WellFormed, NEW i \in Ids, NEW k \in Touching[i]
  PROVE  /\ KindAt(i, k) \in Kinds
         /\ \E f \in Frames : EntityId(f) = i /\ KindAt(i, k) = f.kind
<1>1. PICK a \in DOMAIN Script[k] : EntityId(Script[k][a]) = i /\ k \in Events
  BY TouchingTyped
<1> QED
  BY <1>1, KindOfFrame, FramesTyped

(* The first event that touches an entity begins it.                       *)
LEMMA FirstTouch ==
  ASSUME WellFormed, NEW i \in Ids
  PROVE  \E k \in Touching[i] :
           KindAt(i, k) \in Beginnings \cup {"tool.result", "chat.message"}
<1>1. PICK k \in Touching[i] : \A l \in Touching[i] : k <= l
  BY TouchingTyped, LeastNumber
<1> QED
  BY <1>1 DEF WellFormed

LEMMA LabelIsFamily ==
  ASSUME WellFormed, NEW i \in Ids, NEW k \in Touching[i]
  PROVE  LabelOf(i) = Family(KindAt(i, k))
<1> DEFINE kinds == {f.kind : f \in {g \in Frames : EntityId(g) = i}}
<1>1. ASSUME NEW l \in Touching[i]
      PROVE  KindAt(i, l) \in kinds /\ Family(KindAt(i, l)) = Family(KindAt(i, k))
  <2>1. PICK f \in Frames : EntityId(f) = i /\ KindAt(i, l) = f.kind
    BY KindTyped
  <2> QED
    BY <2>1 DEF WellFormed
<1>2. ASSUME NEW kind \in kinds PROVE Family(kind) = Family(KindAt(i, k))
  <2>1. PICK f \in Frames : EntityId(f) = i /\ kind = f.kind
    OBVIOUS
  <2>2. PICK l \in Events : \E a \in DOMAIN Script[l] : f = Script[l][a]
    BY DEF Frames
  <2>3. PICK a \in DOMAIN Script[l] : f = Script[l][a]
    BY <2>2
  <2>4. l \in Touching[i] /\ KindAt(i, l) = kind
    BY <2>1, <2>3, KindOfFrame
  <2> QED
    BY <1>1, <2>4
<1>3. LabelOf(i) = CASE "llm.start" \in kinds -> "assistant"
                     [] "llm.thinking.start" \in kinds -> "thinking"
                     [] "tool.start" \in kinds -> "tool"
                     [] "chat.message" \in kinds -> "user"
                     [] OTHER -> "result"
  BY DEF LabelOf
<1>4. PICK first \in kinds : first \in Beginnings \cup {"tool.result", "chat.message"}
  BY <1>1, FirstTouch
<1> HIDE DEF kinds
<1>5. Family(first) = Family(KindAt(i, k))
  BY <1>2
<1>6. /\ "llm.start" \in kinds => Family(first) = "assistant"
      /\ "llm.thinking.start" \in kinds => Family(first) = "thinking"
      /\ "tool.start" \in kinds => Family(first) = "tool"
      /\ "chat.message" \in kinds => Family(first) = "user"
  BY <1>2, <1>5 DEF Family
<1>7. LabelOf(i) = Family(first)
  BY <1>3, <1>4, <1>6 DEF Family, Beginnings
<1> QED
  BY <1>5, <1>7

(* What the timeline should say, event by event.                           *)
Summaries(i, k) == {j \in Touching[i] : j <= k /\ SumsUp(i, j)}
First(i, l) == l \in Touching[i] /\ \A j \in Touching[i] : l <= j
NextTouch(i, k, l) == /\ k \in Touching[i] /\ l \in Touching[i] /\ k < l
                      /\ \A j \in Touching[i] : j <= k \/ l <= j

LEMMA IdealAt ==
  ASSUME NEW i \in Ids, NEW k \in Touching[i]
  PROVE  /\ Ideal[i][k].label = LabelOf(i)
         /\ Ideal[i][k].open = (KindAt(i, k) \notin Closing)
         /\ Ideal[i][k].content =
              IF \E j \in LastSummary(i, k) : j <= k
              THEN <<CHOOSE j \in LastSummary(i, k) : j <= k>> ELSE Said[i][k]
BY DEF Ideal

LEMMA DeltasHaveText ==
  ASSUME WellFormed, NEW i \in Ids, NEW k \in Events
  PROVE  HasText(k, i) <=> k \in Touching[i] /\ KindAt(i, k) \in Deltas
<1>1. ASSUME NEW a \in DOMAIN Script[k], EntityId(Script[k][a]) = i
      PROVE  k \in Touching[i] /\ KindAt(i, k) = Script[k][a].kind
  BY <1>1, KindOfFrame
<1>2. HasText(k, i) <=> \E a \in DOMAIN Script[k] : /\ EntityId(Script[k][a]) = i
                                                   /\ Script[k][a].kind \in Deltas
  BY DEF HasText, Deltas
<1>3. ASSUME k \in Touching[i] PROVE \E a \in DOMAIN Script[k] : EntityId(Script[k][a]) = i
  BY <1>3, TouchingTyped
<1> QED
  BY <1>1, <1>2, <1>3

LEMMA NoSummarySoFar ==
  ASSUME NEW i \in Ids, NEW k \in Touching[i], Summaries(i, k) = {}
  PROVE  Ideal[i][k].content = Said[i][k]
<1>1. ~\E j \in LastSummary(i, k) : j <= k
  BY DEF LastSummary, Summaries
<1> QED
  BY <1>1, IdealAt

LEMMA SummaryIsLast ==
  ASSUME NEW i \in Ids, NEW k \in Touching[i], NEW j \in Summaries(i, k),
         \A l \in Summaries(i, k) : l <= j
  PROVE  Ideal[i][k].content = <<j>>
<1>1. Touching[i] \in SUBSET Nat
  BY TouchingTyped
<1>2. j \in Touching[i] /\ j \in Nat /\ k \in Nat /\ j <= k
  BY <1>1 DEF Summaries
<1>3. ASSUME NEW l \in Touching[i], l \in (j + 1)..k
      PROVE  ~SumsUp(i, l)
  <2>1. l \in Nat /\ l <= k /\ ~(l <= j)
    BY <1>1, <1>2, <1>3
  <2> QED
    BY <2>1 DEF Summaries
<1>4. j \in LastSummary(i, k)
  BY <1>2, <1>3 DEF LastSummary, Summaries
<1>5. ASSUME NEW l \in LastSummary(i, k), l <= k PROVE l = j
  <2>1. l \in Summaries(i, k) /\ l \in Nat
    BY <1>1, <1>5 DEF LastSummary, Summaries
  <2>2. l <= j
    BY <2>1
  <2>3. j \notin (l + 1)..k
    BY <1>5 DEF LastSummary, Summaries
  <2> QED
    BY <1>2, <2>1, <2>2, <2>3
<1>6. (CHOOSE l \in LastSummary(i, k) : l <= k) = j
  BY <1>2, <1>4, <1>5
<1> QED
  BY <1>2, <1>4, <1>6, IdealAt

(* Of the events up to the last summary there is a last.                   *)
LEMMA LastNumber ==
  ASSUME NEW S \in SUBSET Nat, S # {}, NEW n \in Nat, \A x \in S : x <= n
  PROVE  \E m \in S : \A x \in S : x <= m
<1> DEFINE B == {b \in Nat : \A x \in S : x <= b}
<1>1. PICK m \in B : \A b \in B : m <= b
  <2>1. B \in SUBSET Nat /\ n \in B
    OBVIOUS
  <2> HIDE DEF B
  <2> QED
    BY <2>1, LeastNumber
<1>2. m \in Nat /\ \A x \in S : x <= m
  OBVIOUS
<1>3. m \in S
  <2> SUFFICES ASSUME m \notin S PROVE FALSE
    OBVIOUS
  <2>1. \A x \in S : x \in Nat /\ x <= m - 1
    BY <1>2
  <2>2. m - 1 \in Nat
    <3>1. PICK x \in S : TRUE
      OBVIOUS
    <3>2. x \in Nat /\ x <= m - 1 /\ m \in Nat
      BY <1>2, <2>1
    <3> HIDE DEF B
    <3> QED
      BY <3>2
  <2>3. m - 1 \in B
    BY <2>1, <2>2
  <2>4. m <= m - 1
    BY <1>1, <2>3
  <2> HIDE DEF B
  <2> QED
    BY <1>2, <2>4
<1> QED
  BY <1>2, <1>3

LEMMA SummariesTyped ==
  ASSUME NEW i \in Ids, NEW k \in Touching[i]
  PROVE  /\ Summaries(i, k) \in SUBSET Nat /\ k \in Nat /\ k \in Events
         /\ \A j \in Summaries(i, k) : j <= k /\ j \in Touching[i]
BY TouchingTyped DEF Summaries

LEMMA IdealFirst ==
  ASSUME WellFormed, NEW i \in Ids, NEW l, First(i, l)
  PROVE  /\ Ideal[i][l].content = << >>
         /\ KindAt(i, l) \in Beginnings \cup {"tool.result", "chat.message"}
<1>1. l \in Touching[i] /\ l \in Events /\ l \in Nat /\ \A j \in Touching[i] : j \in Nat
  BY TouchingTyped DEF First
<1>2. KindAt(i, l) \in Beginnings \cup {"tool.result", "chat.message"}
  BY <1>1 DEF WellFormed, First
<1>3. Summaries(i, l) = {}
  <2> SUFFICES ASSUME NEW j \in Summaries(i, l) PROVE FALSE
    OBVIOUS
  <2>1. j \in Touching[i] /\ j <= l /\ l <= j /\ KindAt(i, j) = "llm.thinking.summary"
    BY DEF Summaries, First, SumsUp
  <2>2. j = l
    BY <1>1, <2>1
  <2> QED
    BY <1>2, <2>1, <2>2 DEF Beginnings
<1>4. Silent(i, 0, l)
  <2> SUFFICES ASSUME NEW j \in (0 + 1)..l, HasText(j, i) PROVE FALSE
    BY DEF Silent
  <2>1. j \in Events /\ j <= l
    BY <1>1, FramesTyped
  <2>2. j \in Touching[i] /\ KindAt(i, j) \in Deltas
    BY <2>1, DeltasHaveText
  <2>3. j = l
    BY <1>1, <2>1, <2>2 DEF First
  <2> QED
    BY <1>2, <2>2, <2>3 DEF Deltas, Beginnings
<1>5. Said[i][l] = << >>
  BY <1>1, <1>4, NothingSaid
<1> QED
  BY <1>1, <1>2, <1>3, <1>5, NoSummarySoFar

LEMMA QuietBetween ==
  ASSUME WellFormed, NEW i \in Ids, NEW k, NEW l, NextTouch(i, k, l)
  PROVE  /\ Silent(i, k, l - 1)
         /\ KindAt(i, l) \notin Deltas => Silent(i, k, l)
         /\ k \in Events /\ l \in Events /\ k \in Nat /\ l \in Nat
         /\ k \in Touching[i] /\ l \in Touching[i] /\ k < l
         /\ KindAt(i, l) \notin Beginnings
<1>1. /\ k \in Touching[i] /\ l \in Touching[i] /\ k < l /\ k \in Nat /\ l \in Nat
      /\ k \in Events /\ l \in Events
  BY TouchingTyped DEF NextTouch
<1>2. ASSUME NEW j \in (k + 1)..l, HasText(j, i) PROVE j = l /\ KindAt(i, l) \in Deltas
  <2>1. j \in Events /\ j > k /\ j <= l
    BY <1>1, FramesTyped
  <2>2. j \in Touching[i] /\ KindAt(i, j) \in Deltas
    BY <1>2, <2>1, DeltasHaveText
  <2>3. j = l
    BY <1>1, <2>1, <2>2 DEF NextTouch
  <2> QED
    BY <2>2, <2>3
<1>3. \A j \in (k + 1)..(l - 1) : j \in (k + 1)..l /\ j # l
  BY <1>1
<1>4. KindAt(i, l) \notin Beginnings
  <2>1. KindAt(i, l) \in Beginnings => l <= k
    BY <1>1 DEF WellFormed
  <2> QED
    BY <1>1, <2>1
<1> QED
  BY <1>1, <1>2, <1>3, <1>4 DEF Silent

LEMMA IdealDelta ==
  ASSUME WellFormed, NEW i \in Ids, NEW k, NEW l, NextTouch(i, k, l), KindAt(i, l) \in Deltas
  PROVE  /\ Ideal[i][l].content = Said[i][l]
         /\ Ideal[i][l].content = Append(Ideal[i][k].content, l)
         /\ Ideal[i][k].content \in Seq(Events)
<1>1. /\ Silent(i, k, l - 1) /\ k \in Events /\ l \in Events /\ k < l /\ k \in Nat /\ l \in Nat
      /\ k \in Touching[i] /\ l \in Touching[i]
  BY QuietBetween
<1>2. ASSUME NEW j \in Touching[i], j <= l PROVE ~SumsUp(i, j)
  <2>1. CASE j = l
    BY <2>1 DEF Deltas, SumsUp
  <2>2. CASE j # l
    <3>1. j < l
      BY <1>1, <1>2, <2>2, TouchingTyped
    <3> QED
      BY <1>1, <3>1 DEF WellFormed
  <2> QED
    BY <2>1, <2>2
<1>3. Summaries(i, l) = {} /\ Summaries(i, k) = {}
  <2>1. \A j \in Touching[i] : j \in Nat
    BY TouchingTyped
  <2>2. \A j \in Touching[i] : j <= k => j <= l
    BY <1>1, <2>1
  <2> QED
    BY <1>2, <2>2 DEF Summaries
<1>4. HasText(l, i)
  BY <1>1, DeltasHaveText
<1>5. Said[i][l] = Append(Said[i][k], l)
  BY <1>1, <1>4, SaidOneMore
<1> QED
  BY <1>1, <1>3, <1>5, NoSummarySoFar, SaidTyped

LEMMA IdealSummary ==
  ASSUME NEW i \in Ids, NEW l \in Touching[i], SumsUp(i, l)
  PROVE  Ideal[i][l].content = <<l>>
<1>1. l \in Summaries(i, l)
  BY TouchingTyped DEF Summaries
<1> QED
  BY <1>1, SummaryIsLast, SummariesTyped

LEMMA IdealFinal ==
  ASSUME WellFormed, NEW i \in Ids, NEW k, NEW l, NextTouch(i, k, l),
         KindAt(i, l) \notin Deltas, ~SumsUp(i, l)
  PROVE  /\ Ideal[i][l].content = Ideal[i][k].content
         /\ KindAt(i, l) = "llm.final" => Ideal[i][l].content = Said[i][l]
<1>1. /\ Silent(i, k, l) /\ k \in Events /\ l \in Events /\ k < l /\ k \in Nat /\ l \in Nat
      /\ k \in Touching[i] /\ l \in Touching[i]
  BY QuietBetween
<1>2. Summaries(i, l) = Summaries(i, k)
  <2>1. ASSUME NEW j \in Touching[i], SumsUp(i, j)
        PROVE  j <= l <=> j <= k
    <3>1. j # l /\ j \in Nat
      BY <2>1, TouchingTyped
    <3>2. j <= k \/ l <= j
      BY DEF NextTouch
    <3> QED
      BY <1>1, <3>1, <3>2
  <2> QED
    BY <2>1 DEF Summaries
<1>3. Said[i][l] = Said[i][k]
  BY <1>1, SaidNoMore
<1>4. CASE Summaries(i, k) = {}
  BY <1>1, <1>2, <1>3, <1>4, NoSummarySoFar
<1>5. CASE Summaries(i, k) # {}
  <2>1. PICK j \in Summaries(i, k) : \A x \in Summaries(i, k) : x <= j
    BY <1>1, <1>5, SummariesTyped, LastNumber
  <2>2. Ideal[i][l].content = <<j>> /\ Ideal[i][k].content = <<j>>
    BY <1>1, <1>2, <2>1, SummaryIsLast
  <2>3. KindAt(i, l) # "llm.final"
    <3>1. j \in Touching[i] /\ KindAt(i, j) = "llm.thinking.summary"
      BY DEF Summaries, SumsUp
    <3>2. Family(KindAt(i, j)) = Family(KindAt(i, l))
      BY <1>1, <3>1 DEF WellFormed
    <3> QED
      BY <3>1, <3>2 DEF Family
  <2> QED
    BY <2>2, <2>3
<1> QED
  BY <1>4, <1>5

(* Only messages have text.                                                *)
LEMMA IdealPlain ==
  ASSUME WellFormed, NEW i \in Ids, NEW l \in Touching[i],
         LabelOf(i) \notin {"assistant", "thinking"}
  PROVE  Ideal[i][l].content = << >>
<1>1. l \in Events /\ l \in Nat
  BY TouchingTyped
<1>2. \A j \in Touching[i] : KindAt(i, j) \notin Deltas \cup {"llm.thinking.summary"}
  BY LabelIsFamily DEF Family, Deltas
<1>3. Summaries(i, l) = {}
  BY <1>2 DEF Summaries, SumsUp
<1>4. Silent(i, 0, l)
  <2> SUFFICES ASSUME NEW j \in (0 + 1)..l, HasText(j, i) PROVE FALSE
    BY DEF Silent
  <2>1. j \in Events
    BY <1>1, FramesTyped
  <2> QED
    BY <1>2, <2>1, DeltasHaveText
<1> QED
  BY <1>1, <1>3, <1>4, NothingSaid, NoSummarySoFar

-----------------------------------------------------------------------------
(* What a consumer has projected, and what comes of it. *)
(* Between events a consumer has no frames left.                           *)
Rest == \A c \in Consumers : ~Busy(c) => frames[c] = << >>

(* What c has projected of i: all there is up to its event, but for a      *)
(* frame it still has to come to.                                          *)
Pending(c, i) == \E j \in DOMAIN frames[c] : EntityId(frames[c][j][1]) = i
Done(c, i) == {k \in Touching[i] : k < event[c] \/ (k = event[c] /\ ~Pending(c, i))}
Recorded ==
  \A c \in Consumers, i \in Ids, k \in Events :
    <<c, k>> \in taken[i] /\ phase[c] # "gone" => k \in Done(c, i)
Whole(c, i) == taken[i] # {} /\ taken[i] = {c} \X Done(c, i)
IsLast(k, S) == k \in S /\ \A l \in S : l <= k

(* An entity that says what the timeline should, or a beginning of it.     *)
Says(e, ideal) ==
  /\ e.label = ideal.label /\ e.open = ideal.open
  /\ IF e.open THEN IsPrefixOf(e.content, ideal.content) ELSE e.content = ideal.content

(* The caches hold what the next frame of i needs, all the text included.  *)
Known(i, k) ==
  /\ LabelOf(i) \in {"assistant", "thinking"} =>
       /\ roles[i] = LabelOf(i) /\ contents[i] = Ideal[i][k].content
       /\ i \in recent => Ideal[i][k].open
  /\ LabelOf(i) = "tool" => toolNames[i] = "tool"

(* The row, or the write that c is about to store, says it.                *)
Kept(c, i, k) ==
  i \notin unwritten =>
    /\ WritesOn(c, i) => Says(write[c].entity, Ideal[i][k])
    /\ (WritesOn(c, i) /\ phase[c] = "storing") \/ Says(rows[i].entity, Ideal[i][k])
Faithful ==
  \A c \in Consumers, i \in Ids : Whole(c, i) =>
    \A k \in Events : IsLast(k, Done(c, i)) => Known(i, k) /\ Kept(c, i, k)

FInv == IInv /\ Rest /\ Recorded /\ Faithful

-----------------------------------------------------------------------------
LEMMA DoneTyped ==
  ASSUME NEW c \in Consumers, NEW i \in Ids
  PROVE  /\ Done(c, i) \subseteq Touching[i]
         /\ Done(c, i) \in SUBSET Nat /\ Done(c, i) \in SUBSET Events
BY TouchingTyped DEF Done

(* What a user says is said in one way.                                    *)
LEMMA UsersSay ==
  ASSUME WellFormed, NEW i \in UserIds, NEW k \in Touching[i]
  PROVE  Says(UserMessage, Ideal[i][k]) /\ LabelOf(i) = "user"
<1>1. i \in Ids
  BY UserFrames
<1>2. PICK f \in Frames : EntityId(f) = i /\ KindAt(i, k) = f.kind
  BY <1>1, KindTyped
<1>3. KindAt(i, k) = "chat.message"
  BY <1>2, UserAssumption
<1>4. LabelOf(i) = "user"
  BY <1>1, <1>3, LabelIsFamily DEF Family
<1>5. Ideal[i][k].content = << >>
  BY <1>1, <1>4, IdealPlain
<1>6. Ideal[i][k].label = "user" /\ Ideal[i][k].open = FALSE
  BY <1>1, <1>3, <1>4, IdealAt DEF Closing
<1> QED
  BY <1>4, <1>5, <1>6 DEF Says, UserMessage

(* A step that projects nothing leaves what has been projected as it was.  *)
LEMMA RecordedStands ==
  ASSUME Recorded, taken' = taken,
         \A c \in Consumers : phase'[c] # "gone" =>
           phase[c] # "gone" /\ \A i \in Ids : TakenBy(c, i) => Done(c, i)' = Done(c, i)
  PROVE  Recorded'
<1> SUFFICES ASSUME NEW c \in Consumers, NEW i \in Ids, NEW k \in Events,
                    <<c, k>> \in taken[i], phase'[c] # "gone"
             PROVE  k \in Done(c, i)'
  BY DEF Recorded
<1> QED
  BY DEF Recorded, TakenBy

LEMMA FaithStands ==
  ASSUME Faithful, taken' = taken,
         roles' = roles, contents' = contents, toolNames' = toolNames, recent' \subseteq recent,
         \A c \in Consumers, i \in Ids : Whole(c, i)' => Done(c, i)' = Done(c, i),
         \A c \in Consumers, i \in Ids, k \in Events :
           Whole(c, i) /\ k \in Touching[i] /\ Kept(c, i, k) => Kept(c, i, k)'
  PROVE  Faithful'
<1> SUFFICES ASSUME NEW c \in Consumers, NEW i \in Ids, Whole(c, i)',
                    NEW k \in Events, IsLast(k, Done(c, i)')
             PROVE  Known(i, k)' /\ Kept(c, i, k)'
  BY DEF Faithful, IsLast
<1>1. Done(c, i)' = Done(c, i)
  OBVIOUS
<1>2. Whole(c, i)
  BY <1>1 DEF Whole
<1>3. Known(i, k) /\ Kept(c, i, k)
  BY <1>1, <1>2 DEF Faithful
<1>4. k \in Touching[i]
  BY <1>1, DoneTyped DEF IsLast
<1>5. Known(i, k)'
  BY <1>3 DEF Known
<1> QED
  BY <1>2, <1>3, <1>4, <1>5

LEMMA SameDone ==
  ASSUME NEW c, NEW i, event'[c] = event[c], frames'[c] = frames[c]
  PROVE  Done(c, i)' = Done(c, i)
BY DEF Done, Pending

(* The steps of others: no consumer, and no row, is concerned.             *)
LEMMA AsideKeeps ==
  ASSUME Rest, Recorded, Faithful, UNCHANGED <<history, consuming, rows>>,
         roles' = roles, contents' = contents, toolNames' = toolNames, recent' \subseteq recent,
         \A c \in Consumers : write'[c] = write[c]
  PROVE  Rest' /\ Recorded' /\ Faithful'
<1>1. /\ taken' = taken /\ unwritten' = unwritten /\ rows' = rows
      /\ phase' = phase /\ event' = event /\ frames' = frames
  BY DEF history, consuming
<1>2. \A c \in Consumers, i \in Ids : Done(c, i)' = Done(c, i)
  BY <1>1, SameDone
<1>3. Rest'
  BY <1>1 DEF Rest, Busy
<1>4. Recorded'
  BY <1>1, <1>2, RecordedStands
<1>5. \A c \in Consumers, i \in Ids, k \in Events : Kept(c, i, k) => Kept(c, i, k)'
  <2>1. \A c \in Consumers, i \in Ids : WritesOn(c, i)' <=> WritesOn(c, i)
    <3>1. 0 \notin Consumers
      BY DEF Consumers
    <3> QED
      BY <1>1, <3>1 DEF WritesOn, Writing
  <2> QED
    BY <1>1, <2>1 DEF Kept
<1>6. Faithful'
  BY <1>1, <1>2, <1>5, FaithStands
<1> QED
  BY <1>3, <1>4, <1>6

(* A new consumer has projected nothing.                                   *)
LEMMA BeginKeeps ==
  ASSUME FInv, NEW s, Begin(started + 1, s), started < MaxConsumers,
         UNCHANGED <<projector, history, frames, write, rows>>
  PROVE  Rest' /\ Recorded' /\ Faithful'
<1>0. PICK n : n = started + 1
  OBVIOUS
<1>1. /\ taken' = taken /\ unwritten' = unwritten /\ rows' = rows /\ frames' = frames
      /\ roles' = roles /\ contents' = contents /\ recent' = recent /\ toolNames' = toolNames
      /\ write' = write
  BY DEF history, projector
<1>2. IInv /\ started \in Nat /\ n \in Consumers /\ phase[n] = "none"
  <2>1. started \in Nat /\ started + 1 > started /\ MaxConsumers \in Nat
    BY RunnerKinds, ProjectorAssumption DEF FInv
  <2>2. n \in Consumers /\ n > started
    BY <1>0, <2>1 DEF Consumers
  <2> QED
    BY <2>1, <2>2 DEF FInv, IInv, Consumption
<1>3. /\ phase'[n] = "receiving"
      /\ \A c \in Consumers : c # n => phase'[c] = phase[c] /\ event'[c] = event[c]
  BY <1>0, <1>2 DEF Begin, IInv, Consumption
<1>4. \A i \in Ids : ~TakenBy(n, i)
  <2>1. \A i \in Ids : \A x \in taken[i] : x[1] <= started
    BY <1>2 DEF IInv, Storage
  <2> SUFFICES ASSUME NEW i \in Ids, NEW k \in Events, <<n, k>> \in taken[i] PROVE FALSE
    BY DEF TakenBy
  <2>2. <<n, k>>[1] <= started
    BY <2>1
  <2> QED
    BY <1>0, <1>2, <2>2
<1>5. Rest'
  BY <1>1, <1>2, <1>3 DEF FInv, Rest, Busy
<1>6. \A c \in Consumers, i \in Ids : c # n => Done(c, i)' = Done(c, i)
  BY <1>1, <1>3, SameDone
<1>7. Recorded'
  <2>1. Recorded
    BY DEF FInv
  <2> QED
    BY <1>1, <1>2, <1>3, <1>4, <1>6, <2>1, RecordedStands
<1>8. \A i \in Ids : ~Whole(n, i)'
  <2> SUFFICES ASSUME NEW i \in Ids, Whole(n, i)' PROVE FALSE
    OBVIOUS
  <2>1. PICK x \in taken[i] : x \in {n} \X Done(n, i)'
    BY <1>1 DEF Whole
  <2>2. PICK k \in Done(n, i)' : x = <<n, k>>
    BY <2>1
  <2>3. k \in Events
    BY TouchingTyped DEF Done
  <2> QED
    BY <1>4, <2>1, <2>2, <2>3 DEF TakenBy
<1>9. \A c \in Consumers, i \in Ids : Whole(c, i)' => Done(c, i)' = Done(c, i)
  BY <1>6, <1>8
<1>10. \A c \in Consumers, i \in Ids, k \in Events : Kept(c, i, k) => Kept(c, i, k)'
  <2>1. \A c \in Consumers : /\ phase'[c] = "storing" <=> phase[c] = "storing"
                             /\ phase'[c] = "telling" <=> phase[c] = "telling"
    BY <1>2, <1>3
  <2>2. 0 \notin Consumers
    BY DEF Consumers
  <2>3. \A c \in Consumers, i \in Ids : WritesOn(c, i)' <=> WritesOn(c, i)
    BY <1>1, <2>1, <2>2 DEF WritesOn, Writing
  <2> QED
    BY <1>1, <2>1, <2>3 DEF Kept
<1>11. Faithful'
  <2>1. Faithful
    BY DEF FInv
  <2> QED
    BY <1>1, <1>9, <1>10, <2>1, FaithStands
<1> QED
  BY <1>5, <1>7, <1>11

(* An event received is all still to be projected.                         *)
LEMMA ReceiveKeeps ==
  ASSUME FInv, NEW c \in Consumers, Receive(c)
  PROVE  Rest' /\ Recorded' /\ Faithful'
<1>1. /\ phase[c] = "receiving" /\ phase' = [phase EXCEPT ![c] = "projecting"]
      /\ event' = [event EXCEPT ![c] = event[c] + 1] /\ event[c] < published
      /\ taken' = taken /\ unwritten' = unwritten /\ rows' = rows
      /\ roles' = roles /\ contents' = contents /\ recent' = recent /\ toolNames' = toolNames
      /\ write' = write
      /\ \E n : frames' = [frames EXCEPT ![c] =
                  [j \in DOMAIN Script[event'[c]] |-> <<Script[event'[c]][j], n>>]]
  BY DEF Receive, history, projector
<1>2. IInv /\ Rest /\ Recorded /\ Faithful /\ published \in Nat
  BY RunnerKinds, FramesTyped DEF FInv
<1>3. /\ phase'[c] = "projecting" /\ event'[c] = event[c] + 1 /\ event[c] \in Nat
      /\ \A d \in Consumers : d # c => /\ phase'[d] = phase[d] /\ event'[d] = event[d]
                                       /\ frames'[d] = frames[d]
      /\ \E n : frames'[c] = [j \in DOMAIN Script[event'[c]] |-> <<Script[event'[c]][j], n>>]
  <2>1. /\ frames \in [Consumers -> Seq(Numbered)] /\ event \in [Consumers -> 0..Len(Script)]
        /\ DOMAIN phase = Consumers /\ Len(Script) \in Nat
    BY <1>2, FramesTyped DEF IInv, Consumption
  <2>2. PICK n : frames' = [frames EXCEPT ![c] =
                      [j \in DOMAIN Script[event'[c]] |-> <<Script[event'[c]][j], n>>]]
    BY <1>1
  <2> DEFINE r == [j \in DOMAIN Script[event'[c]] |-> <<Script[event'[c]][j], n>>]
  <2> HIDE DEF r
  <2>3. frames'[c] = r /\ \A d \in Consumers : d # c => frames'[d] = frames[d]
    BY <2>1, <2>2 DEF r
  <2>4. /\ phase'[c] = "projecting" /\ event'[c] = event[c] + 1 /\ event[c] \in Nat
        /\ \A d \in Consumers : d # c => phase'[d] = phase[d] /\ event'[d] = event[d]
    BY <1>1, <2>1
  <2> QED
    BY <2>3, <2>4 DEF r
<1>4. event[c] + 1 \in Events
  BY <1>1, <1>2, <1>3, RunnerKinds, FramesTyped
<1>5. frames[c] = << >>
  BY <1>1, <1>2 DEF Rest, Busy
<1>6. ASSUME NEW i \in Ids PROVE Done(c, i)' = Done(c, i)
  <2>1. ~Pending(c, i)
    BY <1>5 DEF Pending
  <2>2. event[c] + 1 \in Touching[i] => Pending(c, i)'
    <3> SUFFICES ASSUME event[c] + 1 \in Touching[i] PROVE Pending(c, i)'
      OBVIOUS
    <3>1. PICK a \in DOMAIN Script[event'[c]] : EntityId(Script[event'[c]][a]) = i
      BY <1>3, <1>4, TouchingTyped
    <3> QED
      BY <1>3, <3>1 DEF Pending
  <2>3. ASSUME NEW k \in Touching[i] PROVE k \in Done(c, i)' <=> k \in Done(c, i)
    <3>1. k \in Nat
      BY TouchingTyped
    <3>2. k \in Done(c, i) <=> k <= event[c]
      BY <1>3, <2>1, <3>1 DEF Done
    <3>3. k \in Done(c, i)' <=> k < event[c] + 1
      BY <1>3, <2>2 DEF Done
    <3> QED
      BY <1>3, <3>1, <3>2, <3>3
  <2> QED
    BY <2>3 DEF Done
<1>7. \A d \in Consumers, i \in Ids : Done(d, i)' = Done(d, i)
  BY <1>3, <1>6, SameDone
<1>8. Rest'
  BY <1>2, <1>3 DEF Rest, Busy
<1>9. Recorded'
  BY <1>1, <1>2, <1>3, <1>7, RecordedStands
<1>10. \A d \in Consumers, i \in Ids, k \in Events : Kept(d, i, k) => Kept(d, i, k)'
  <2>1. \A d \in Consumers : /\ phase'[d] = "storing" <=> phase[d] = "storing"
                             /\ phase'[d] = "telling" <=> phase[d] = "telling"
    BY <1>1, <1>3
  <2>2. 0 \notin Consumers
    BY DEF Consumers
  <2>3. \A d \in Consumers, i \in Ids : WritesOn(d, i)' <=> WritesOn(d, i)
    BY <1>1, <2>1, <2>2 DEF WritesOn, Writing
  <2> QED
    BY <1>1, <2>1, <2>3 DEF Kept
<1>11. Faithful'
  BY <1>1, <1>2, <1>7, <1>10, FaithStands
<1> QED
  BY <1>8, <1>9, <1>11

(* A consumer that has gone is no longer followed.                         *)
LEMMA ChannelClosesKeeps ==
  ASSUME FInv, NEW c \in Consumers, ChannelCloses(c)
  PROVE  Rest' /\ Recorded' /\ Faithful'
<1>1. /\ phase[c] = "receiving" /\ phase' = [phase EXCEPT ![c] = "gone"]
      /\ event' = [event EXCEPT ![c] = 0] /\ frames' = frames
      /\ taken' = taken /\ unwritten' = unwritten /\ rows' = rows
      /\ roles' = roles /\ contents' = contents /\ recent' = recent /\ toolNames' = toolNames
      /\ write' = write
  BY DEF ChannelCloses, history, projector
<1>2. IInv /\ Rest /\ Recorded /\ Faithful
  BY DEF FInv
<1>3. /\ phase'[c] = "gone" /\ event'[c] = 0
      /\ \A d \in Consumers : d # c => phase'[d] = phase[d] /\ event'[d] = event[d]
  BY <1>1, <1>2 DEF IInv, Consumption
<1>4. \A i \in Ids : ~Whole(c, i)'
  <2> SUFFICES ASSUME NEW i \in Ids, Whole(c, i)' PROVE FALSE
    OBVIOUS
  <2>1. PICK x \in {c} \X Done(c, i)' : TRUE
    BY DEF Whole
  <2>2. PICK k \in Done(c, i)' : x = <<c, k>>
    BY <2>1
  <2>3. k \in Touching[i] /\ (k < 0 \/ k = 0)
    BY <1>3 DEF Done
  <2>4. k \in Events /\ k \in Nat \ {0}
    BY <2>3, TouchingTyped, FramesTyped
  <2> QED
    BY <2>3, <2>4
<1>5. \A d \in Consumers, i \in Ids : d # c => Done(d, i)' = Done(d, i)
  BY <1>1, <1>3, SameDone
<1>6. Rest'
  BY <1>1, <1>2, <1>3 DEF Rest, Busy
<1>7. Recorded'
  BY <1>1, <1>2, <1>3, <1>5, RecordedStands
<1>8. \A d \in Consumers, i \in Ids, k \in Events : Kept(d, i, k) => Kept(d, i, k)'
  <2>1. \A d \in Consumers : /\ phase'[d] = "storing" <=> phase[d] = "storing"
                             /\ phase'[d] = "telling" <=> phase[d] = "telling"
    BY <1>1, <1>3
  <2>2. 0 \notin Consumers
    BY DEF Consumers
  <2>3. \A d \in Consumers, i \in Ids : WritesOn(d, i)' <=> WritesOn(d, i)
    BY <1>1, <2>1, <2>2 DEF WritesOn, Writing
  <2> QED
    BY <1>1, <2>1, <2>3 DEF Kept
<1>9. \A d \in Consumers, i \in Ids : Whole(d, i)' => Done(d, i)' = Done(d, i)
  BY <1>4, <1>5
<1>10. Faithful'
  BY <1>1, <1>2, <1>8, <1>9, FaithStands
<1> QED
  BY <1>6, <1>7, <1>10

(* A row is stored by the consumer that has projected i, or it is a user's.*)
LEMMA StoresKeeps ==
  ASSUME FInv, WellFormed, NEW t \in Writers, StoresRow(t), UNCHANGED projector,
         \A d \in Consumers : d # t => phase'[d] = phase[d]
  PROVE  Rest' /\ Recorded' /\ Faithful'
<1>1. /\ taken' = taken /\ unwritten' = unwritten /\ event' = event /\ frames' = frames
      /\ roles' = roles /\ contents' = contents /\ recent' = recent /\ toolNames' = toolNames
      /\ write' = write /\ Writing(t) /\ ~Telling(t) /\ Telling(t)'
      /\ \A d \in Writers : Writing(d)' <=> Writing(d)
      /\ \A d \in Consumers : phase'[d] # "gone" => phase[d] # "gone"
  BY DEF StoresRow, history, projector
<1>2. IInv /\ Rest /\ Recorded /\ Faithful /\ Writes /\ 0 \notin Consumers
      /\ \A d \in Consumers : d \in Writers
  BY RunnerKinds DEF FInv, IInv
<1>3. /\ rows'[write[t].id].entity = write[t].entity
      /\ \A i \in Ids : i # write[t].id => rows'[i] = rows[i]
  BY <1>2, RowStored
<1>4. \A d \in Consumers, i \in Ids : Done(d, i)' = Done(d, i)
  BY <1>1, SameDone
<1>5. Rest'
  <2>1. \A d \in Consumers : Busy(d)' <=> Busy(d)
    BY <1>1, <1>2 DEF Busy, Writing, Telling
  <2> QED
    BY <1>1, <1>2, <2>1 DEF Rest
<1>6. Recorded'
  BY <1>1, <1>2, <1>4, RecordedStands
<1>7. \A d \in Consumers, i \in Ids : WritesOn(d, i)' <=> WritesOn(d, i)
  BY <1>1, <1>2 DEF WritesOn
<1>8. ASSUME NEW d \in Consumers, NEW i \in Ids, NEW k \in Events, Whole(d, i),
             k \in Touching[i], Kept(d, i, k)
      PROVE  Kept(d, i, k)'
  <2> SUFFICES ASSUME i \notin unwritten
               PROVE  /\ WritesOn(d, i) => Says(write[d].entity, Ideal[i][k])
                      /\ \/ WritesOn(d, i) /\ phase'[d] = "storing"
                         \/ Says(rows'[i].entity, Ideal[i][k])
    BY <1>1, <1>7 DEF Kept, Says
  <2>1. /\ WritesOn(d, i) => Says(write[d].entity, Ideal[i][k])
        /\ (WritesOn(d, i) /\ phase[d] = "storing") \/ Says(rows[i].entity, Ideal[i][k])
    BY <1>8 DEF Kept
  <2>2. CASE i # write[t].id
    <3>1. d = t => ~WritesOn(d, i)
      BY <2>2 DEF WritesOn
    <3> QED
      BY <1>3, <2>1, <2>2, <3>1
  <2>3. CASE i = write[t].id /\ t = 0
    <3>1. i \in UserIds /\ write[t].entity = UserMessage
      BY <1>1, <1>2, <2>3 DEF Writes
    <3>2. Says(rows'[i].entity, Ideal[i][k])
      BY <1>3, <1>8, <2>3, <3>1, UsersSay
    <3> QED
      BY <2>1, <3>2
  <2>4. CASE i = write[t].id /\ t # 0
    <3>1. t \in Consumers
      BY <2>4 DEF Writers
    <3>2. PICK j \in Events : <<t, j>> \in taken[i]
      BY <1>1, <1>2, <2>4, <3>1 DEF Writes
    <3>3. t = d
      BY <1>8, <3>2 DEF Whole
    <3>4. WritesOn(d, i)
      BY <1>1, <2>4, <3>3 DEF WritesOn
    <3> QED
      BY <1>3, <2>1, <2>4, <3>3, <3>4
  <2> QED
    BY <2>2, <2>3, <2>4
<1>9. Faithful'
  BY <1>1, <1>2, <1>4, <1>8, FaithStands
<1> QED
  BY <1>5, <1>6, <1>9

(* A write is over: the row has it, or it has failed.                      *)
LEMMA EndsKeeps ==
  ASSUME FInv, NEW t \in Writers, EndsWrite(t), UNCHANGED projector,
         \A d \in Consumers : d # t => phase'[d] = phase[d],
         t \in Consumers => Busy(t) /\ (Busy(t)' \/ frames[t] = << >>),
         unwritten \subseteq unwritten',
         t \in Consumers /\ phase[t] = "storing" => write[t].id \in unwritten'
  PROVE  Rest' /\ Recorded' /\ Faithful'
<1>1. /\ taken' = taken /\ event' = event /\ frames' = frames /\ rows' = rows
      /\ roles' = roles /\ contents' = contents /\ recent' = recent /\ toolNames' = toolNames
      /\ ~Writing(t)'
      /\ \A d \in Writers : d # t => (Writing(d)' <=> Writing(d))
      /\ \A d \in Consumers : phase'[d] # "gone" => phase[d] # "gone"
  BY DEF EndsWrite, projector
<1>2. IInv /\ Rest /\ Recorded /\ Faithful /\ 0 \notin Consumers
      /\ \A d \in Consumers : d \in Writers
  BY RunnerKinds DEF FInv
<1>3. \A d \in Consumers, i \in Ids : Done(d, i)' = Done(d, i)
  BY <1>1, SameDone
<1>4. Rest'
  <2>1. \A d \in Consumers : d # t => (Busy(d)' <=> Busy(d))
    BY DEF Busy
  <2> QED
    BY <1>1, <1>2, <2>1 DEF Rest
<1>5. Recorded'
  BY <1>1, <1>2, <1>3, RecordedStands
<1>6. /\ \A d \in Consumers : d # t => write'[d] = write[d]
      /\ \A i \in Ids : ~WritesOn(t, i)'
  BY <1>1, <1>2, WriteEnded DEF WritesOn
<1>7. ASSUME NEW d \in Consumers, NEW i \in Ids, NEW k \in Events, Kept(d, i, k)
      PROVE  Kept(d, i, k)'
  <2> SUFFICES ASSUME i \notin unwritten'
               PROVE  /\ WritesOn(d, i)' => Says(write'[d].entity, Ideal[i][k])
                      /\ \/ WritesOn(d, i)' /\ phase'[d] = "storing"
                         \/ Says(rows[i].entity, Ideal[i][k])
    BY <1>1 DEF Kept, Says
  <2>1. /\ WritesOn(d, i) => Says(write[d].entity, Ideal[i][k])
        /\ (WritesOn(d, i) /\ phase[d] = "storing") \/ Says(rows[i].entity, Ideal[i][k])
    BY <1>7 DEF Kept
  <2>2. CASE d # t
    <3>1. WritesOn(d, i)' <=> WritesOn(d, i)
      BY <1>1, <1>2, <1>6, <2>2 DEF WritesOn
    <3> QED
      BY <1>6, <2>1, <2>2, <3>1
  <2>3. CASE d = t
    <3>1. ~(WritesOn(d, i) /\ phase[d] = "storing")
      BY <2>3 DEF WritesOn
    <3> QED
      BY <1>6, <2>1, <2>3, <3>1
  <2> QED
    BY <2>2, <2>3
<1>8. Faithful'
  BY <1>1, <1>2, <1>3, <1>7, FaithStands
<1> QED
  BY <1>4, <1>5, <1>8

LEMMA StoreKeeps ==
  ASSUME FInv, WellFormed, NEW c \in Consumers, Store(c) PROVE Rest' /\ Recorded' /\ Faithful'
<1>1. IInv /\ c \in Writers
  BY RunnerKinds DEF FInv
<1>2. StoresRow(c) /\ UNCHANGED projector
  BY <1>1, StoreStores DEF Store
<1>3. \A d \in Consumers : d # c => phase'[d] = phase[d]
  BY <1>1 DEF Store, IInv, Consumption
<1> QED
  BY <1>1, <1>2, <1>3, StoresKeeps

LEMMA RunnerStoresKeeps ==
  ASSUME FInv, WellFormed, RunnerStores PROVE Rest' /\ Recorded' /\ Faithful'
<1>1. IInv /\ 0 \in Writers
  BY RunnerKinds DEF FInv
<1>2. StoresRow(0) /\ UNCHANGED projector /\ phase' = phase
  BY <1>1, RunnerStoresStores DEF RunnerStores, consuming
<1> QED
  BY <1>1, <1>2, StoresKeeps

LEMMA StoreFailsKeeps ==
  ASSUME FInv, NEW c \in Consumers, StoreFails(c) PROVE Rest' /\ Recorded' /\ Faithful'
<1>1. IInv /\ c \in Writers
  BY RunnerKinds DEF FInv
<1>2. EndsWrite(c)
  BY <1>1, StoreFailsEnds
<1>3. /\ phase[c] = "storing" /\ unwritten' = unwritten \cup {write[c].id} /\ UNCHANGED projector
      /\ phase'[c] = NextPhase(frames[c])
      /\ \A d \in Consumers : d # c => phase'[d] = phase[d]
  BY <1>1 DEF StoreFails, IInv, Consumption
<1>4. Busy(c) /\ (Busy(c)' \/ frames[c] = << >>)
  BY <1>3 DEF Busy, NextPhase
<1> QED
  BY <1>1, <1>2, <1>3, <1>4, EndsKeeps

LEMMA TellKeeps ==
  ASSUME FInv, NEW c \in Consumers, Tell(c) PROVE Rest' /\ Recorded' /\ Faithful'
<1>1. IInv /\ c \in Writers
  BY RunnerKinds DEF FInv
<1>2. EndsWrite(c)
  BY <1>1, TellEnds
<1>3. /\ phase[c] = "telling" /\ unwritten' = unwritten /\ UNCHANGED projector
      /\ phase'[c] = NextPhase(frames[c])
      /\ \A d \in Consumers : d # c => phase'[d] = phase[d]
  BY <1>1 DEF Tell, history, IInv, Consumption
<1>4. Busy(c) /\ (Busy(c)' \/ frames[c] = << >>)
  BY <1>3 DEF Busy, NextPhase
<1> QED
  BY <1>1, <1>2, <1>3, <1>4, EndsKeeps

LEMMA RunnerEndsKeeps ==
  ASSUME FInv, RunnerStoreFails \/ RunnerTells PROVE Rest' /\ Recorded' /\ Faithful'
<1>1. IInv /\ 0 \in Writers /\ 0 \notin Consumers
  BY RunnerKinds DEF FInv
<1>2. /\ runner \in {"storing", "telling"} /\ runner' \in {"idle", "failed"}
      /\ write' = [write EXCEPT ![0] = NoWrite]
      /\ UNCHANGED <<transport, projector, history, consuming, lastSeen, rows>>
  BY DEF RunnerStoreFails, RunnerTells
<1>3. EndsWrite(0)
  BY <1>1, <1>2, RunnerEndsWrite
<1>4. phase' = phase /\ unwritten' = unwritten
  BY <1>2 DEF consuming, history
<1> QED
  BY <1>1, <1>2, <1>3, <1>4, EndsKeeps

(* A projected frame is the one frame of its entity in the event: with it, *)
(* the consumer has done the event as far as the entity goes.              *)
LEMMA ProjectionDone ==
  ASSUME IInv, WellFormed, NEW c \in Consumers, Projection(c), NEW i, i = EntityId(Frame(c)),
         NEW l, l = event[c]
  PROVE  /\ i \in Ids /\ l \in Events /\ l \in Touching[i] /\ FrameAt(i, l) = Frame(c)
         /\ Done(c, i) = {k \in Touching[i] : k < l}
         /\ Done(c, i)' = Done(c, i) \cup {l}
         /\ \A h \in Ids : h # i => Done(c, h)' = Done(c, h)
         /\ \A d \in Consumers, h \in Ids : d # c => Done(d, h)' = Done(d, h)
<1>1. PICK e, n, p, q : AtFrame(c, e, n, p, q)
  BY FrameOfEvent
<1>2. /\ p \in Nat /\ q \in Nat \ {0}
      /\ e = l /\ l \in Events /\ event'[c] = l /\ Events \subseteq Nat
      /\ DOMAIN Script[l] = 1..p /\ n \in 1..p /\ DOMAIN frames'[c] = 1..(q - 1)
      /\ Script[l][n] = Frame(c)
      /\ \A j \in 1..(q - 1) : /\ frames'[c][j][1] = Script[l][n + j]
                               /\ n + j \in 1..p /\ n < n + j
  BY <1>1 DEF AtFrame
<1>3. /\ i \in Ids /\ l \in Touching[i] /\ FrameAt(i, l) = Frame(c)
      /\ \A b \in 1..p : EntityId(Script[l][b]) = i => b = n
  BY <1>2, KindOfFrame
<1>4. /\ DOMAIN frames[c] = 1..q /\ frames[c][1][1] = Frame(c)
      /\ \A j \in 1..(q - 1) : frames'[c][j] = frames[c][j + 1]
  <2>1. PICK r \in Nat \ {0} : /\ DOMAIN frames[c] = 1..r /\ DOMAIN frames'[c] = 1..(r - 1)
                               /\ \A j \in 1..(r - 1) : frames'[c][j] = frames[c][j + 1]
    BY FramesAfter
  <2>2. r = q
    <3>1. 1..(r - 1) = 1..(q - 1)
      BY <1>2, <2>1
    <3>2. ~(r < q)
      <4> SUFFICES ASSUME r < q PROVE FALSE
        OBVIOUS
      <4>1. q - 1 \in 1..(q - 1)
        BY <1>2, <2>1
      <4> QED
        BY <1>2, <2>1, <3>1, <4>1
    <3>3. ~(q < r)
      <4> SUFFICES ASSUME q < r PROVE FALSE
        OBVIOUS
      <4>1. r - 1 \in 1..(r - 1)
        BY <1>2, <2>1
      <4> QED
        BY <1>2, <2>1, <3>1, <4>1
    <3> QED
      BY <1>2, <2>1, <3>2, <3>3
  <2>3. frames[c][1][1] = Frame(c)
    BY DEF Frame
  <2> QED
    BY <2>1, <2>2, <2>3
<1>5. Pending(c, i) /\ ~Pending(c, i)'
  <2>1. Pending(c, i)
    BY <1>2, <1>4 DEF Pending
  <2>2. ~Pending(c, i)'
    <3> SUFFICES ASSUME NEW j \in 1..(q - 1), EntityId(frames'[c][j][1]) = i PROVE FALSE
      BY <1>2 DEF Pending
    <3>1. n + j = n
      BY <1>2, <1>3
    <3> QED
      BY <1>2, <3>1
  <2> QED
    BY <2>1, <2>2
<1>6. ASSUME NEW h, h # i PROVE Pending(c, h)' <=> Pending(c, h)
  <2>1. ASSUME NEW j \in 1..q, EntityId(frames[c][j][1]) = h PROVE Pending(c, h)'
    <3>1. j # 1
      BY <1>4, <1>6, <2>1
    <3>2. j - 1 \in 1..(q - 1) /\ (j - 1) + 1 = j
      BY <1>2, <3>1
    <3>3. frames'[c][j - 1] = frames[c][j]
      BY <1>4, <3>2
    <3> QED
      BY <1>2, <2>1, <3>2, <3>3 DEF Pending
  <2>2. ASSUME NEW j \in 1..(q - 1), EntityId(frames'[c][j][1]) = h PROVE Pending(c, h)
    <3>1. j + 1 \in 1..q
      BY <1>2
    <3> QED
      BY <1>4, <2>2, <3>1 DEF Pending
  <2> QED
    BY <1>2, <1>4, <2>1, <2>2 DEF Pending
<1>7. Done(c, i) = {k \in Touching[i] : k < l}
  BY <1>5 DEF Done
<1>8. Done(c, i)' = Done(c, i) \cup {l}
  <2>1. Done(c, i)' = {k \in Touching[i] : k < l \/ k = l}
    BY <1>2, <1>5 DEF Done
  <2> QED
    BY <1>3, <1>7, <2>1
<1>9. \A h \in Ids : h # i => Done(c, h)' = Done(c, h)
  BY <1>2, <1>6 DEF Done
<1>10. \A d \in Consumers, h \in Ids : d # c => Done(d, h)' = Done(d, h)
  <2>1. event' = event /\ \A d \in Consumers : d # c => frames'[d] = frames[d]
    BY FramesAfter DEF Projection
  <2> QED
    BY <2>1, SameDone
<1> QED
  BY <1>2, <1>3, <1>7, <1>8, <1>9, <1>10

-----------------------------------------------------------------------------
(* What one frame makes of the caches and of what is written.              *)
Before(i, k) == Known(i, k) /\ (i \notin unwritten => Says(rows[i].entity, Ideal[i][k]))
Prepared(i, l) == First(i, l) \/ \E k : NextTouch(i, k, l) /\ Before(i, k)
Projecting(c, i, l) ==
  /\ c \in Consumers /\ i = EntityId(Frame(c)) /\ l = event[c] /\ phase[c] = "projecting"
  /\ i \in Ids /\ l \in Touching[i] /\ FrameAt(i, l) = Frame(c) /\ Prepared(i, l)

LEMMA SaysIt ==
  ASSUME NEW ideal, ideal.content \in Seq(Events)
  PROVE  Says([label |-> ideal.label, content |-> ideal.content, open |-> ideal.open], ideal)
<1>1. Len(ideal.content) \in Nat
  BY LenProperties
<1>2. IsPrefixOf(ideal.content, ideal.content)
  BY <1>1 DEF IsPrefixOf
<1> QED
  BY <1>2 DEF Says

LEMMA UpsertKept ==
  ASSUME IInv, NEW c \in Consumers, NEW i \in Ids, NEW l, NEW entity, Upserts(c, i, entity),
         Says(entity, Ideal[i][l])
  PROVE  Kept(c, i, l)'
<1>1. c # 0 /\ c \in Writers
  BY RunnerKinds
<1>2. write'[c].id = i /\ write'[c].entity = entity /\ phase'[c] = "storing"
  BY <1>1 DEF Upserts, IInv, Writes, Consumption
<1>3. WritesOn(c, i)'
  BY <1>1, <1>2 DEF WritesOn, Writing
<1>4. Says(write'[c].entity, Ideal[i][l])
  BY <1>2
<1> QED
  BY <1>2, <1>3, <1>4 DEF Kept, Says

LEMMA KindProjected ==
  ASSUME WellFormed, NEW c, NEW i, NEW l, Projecting(c, i, l)
  PROVE  /\ KindAt(i, l) = Frame(c).kind /\ LabelOf(i) = Family(Frame(c).kind)
         /\ SumsUp(i, l) <=> Frame(c).kind = "llm.thinking.summary" /\ Frame(c).full
         /\ Ideal[i][l].label = LabelOf(i)
         /\ i \in Ids /\ l \in Events /\ l \in Touching[i] /\ c \in Consumers
         /\ << >> \in Seq(Events)
<1>1. KindAt(i, l) = Frame(c).kind
  BY DEF Projecting, KindAt
<1>2. i \in Ids /\ l \in Touching[i] /\ c \in Consumers /\ FrameAt(i, l) = Frame(c)
  BY DEF Projecting
<1>3. l \in Events /\ << >> \in Seq(Events)
  BY <1>2, TouchingTyped, EmptySeq
<1>4. LabelOf(i) = Family(Frame(c).kind)
  BY <1>1, <1>2, LabelIsFamily
<1>5. SumsUp(i, l) <=> Frame(c).kind = "llm.thinking.summary" /\ Frame(c).full
  BY <1>1, <1>2 DEF SumsUp
<1>6. Ideal[i][l].label = LabelOf(i)
  BY <1>1, <1>2, IdealAt
<1> QED
  BY <1>1, <1>2, <1>3, <1>4, <1>5, <1>6

LEMMA OpenProjected ==
  ASSUME WellFormed, NEW c, NEW i, NEW l, Projecting(c, i, l)
  PROVE  IF Frame(c).kind \in Closing THEN Ideal[i][l].open = FALSE ELSE Ideal[i][l].open = TRUE
<1>1. i \in Ids /\ l \in Touching[i]
  BY DEF Projecting
<1>2. Ideal[i][l].open = (KindAt(i, l) \notin Closing)
  BY <1>1, IdealAt
<1>3. KindAt(i, l) = Frame(c).kind
  BY KindProjected
<1> QED
  BY <1>2, <1>3

(* A frame that goes on with an entity finds it begun.                     *)
LEMMA GoesOn ==
  ASSUME WellFormed, NEW c, NEW i, NEW l, Projecting(c, i, l),
         Frame(c).kind \notin Beginnings \cup {"tool.result", "chat.message"}
  PROVE  \E k : NextTouch(i, k, l) /\ Before(i, k)
<1>1. ~First(i, l)
  BY KindProjected, IdealFirst
<1> QED
  BY <1>1 DEF Projecting, Prepared

LEMMA Begins ==
  ASSUME WellFormed, NEW c, NEW i, NEW l, Projecting(c, i, l), Frame(c).kind \in Beginnings
  PROVE  Ideal[i][l].content = << >>
<1>1. \A k : ~NextTouch(i, k, l)
  BY KindProjected, QuietBetween
<1> QED
  BY <1>1, KindProjected, IdealFirst DEF Projecting, Prepared

LEMMA StartSays ==
  ASSUME IInv, WellFormed, NEW c, NEW i, NEW l, Projecting(c, i, l), LlmStart(c)
  PROVE  Known(i, l)' /\ Kept(c, i, l)'
<1> DEFINE role == IF Frame(c).kind = "llm.start" THEN "assistant" ELSE "thinking"
           entity == [label |-> role, content |-> << >>, open |-> TRUE]
<1>1. /\ Frame(c).kind \in {"llm.start", "llm.thinking.start"}
      /\ roles' = [roles EXCEPT ![i] = role] /\ contents' = [contents EXCEPT ![i] = << >>]
      /\ Upserts(c, i, entity)
  BY DEF LlmStart, Projects, Projecting
<1>2. Frame(c).kind \in Beginnings /\ Frame(c).kind \notin Closing /\ LabelOf(i) = role
  BY <1>1, KindProjected DEF Beginnings, Closing, Family
<1>3. /\ Ideal[i][l].content = << >> /\ Ideal[i][l].label = role /\ Ideal[i][l].open = TRUE
      /\ i \in Ids /\ c \in Consumers /\ << >> \in Seq(Events)
  <2>1. Ideal[i][l].open = TRUE
    BY <1>2, OpenProjected
  <2> QED
    BY <1>2, <2>1, Begins, KindProjected
<1>4. roles'[i] = role /\ contents'[i] = << >>
  BY <1>1, <1>3 DEF IInv, Caches
<1> HIDE DEF role
<1>5. Says(entity, Ideal[i][l])
  BY <1>3, SaysIt
<1> HIDE DEF entity
<1>6. Kept(c, i, l)'
  BY <1>1, <1>3, <1>5, UpsertKept
<1>7. role # "tool"
  BY DEF role
<1> QED
  BY <1>2, <1>3, <1>4, <1>6, <1>7 DEF Known

(* A throttled delta leaves the row a beginning.                           *)
LEMMA LongerPrefix ==
  ASSUME NEW s, NEW t \in Seq(Events), NEW x \in Events, Len(s) \in Nat, IsPrefixOf(s, t)
  PROVE  IsPrefixOf(s, Append(t, x))
<1>1. /\ Len(t) \in Nat /\ Len(Append(t, x)) = Len(t) + 1
      /\ \A j \in 1..Len(t) : Append(t, x)[j] = t[j]
  BY AppendProperties, LenProperties
<1>2. \A j \in 1..Len(s) : j \in 1..Len(t)
  BY <1>1 DEF IsPrefixOf
<1> QED
  BY <1>1, <1>2 DEF IsPrefixOf

LEMMA DeltaSays ==
  ASSUME IInv, WellFormed, NEW c, NEW i, NEW l, Projecting(c, i, l), LlmDelta(c)
  PROVE  Known(i, l)' /\ Kept(c, i, l)'
<1> DEFINE text == IF Frame(c).full THEN Said[i][l] ELSE Append(contents[i], l)
           entity == [label |-> RoleOr(i, "assistant"), content |-> text, open |-> TRUE]
<1>1. /\ Frame(c).kind \in Deltas
      /\ contents' = [contents EXCEPT ![i] = text] /\ roles' = roles
      /\ IF i \in recent
         THEN phase' = [phase EXCEPT ![c] = NextPhase(Tail(frames[c]))] /\ UNCHANGED write
         ELSE Upserts(c, i, entity)
      /\ unwritten' = unwritten /\ rows' = rows
  BY DEF LlmDelta, Projects, Projecting, Remembered, Deltas
<1>2. /\ Frame(c).kind \notin Beginnings \cup {"tool.result", "chat.message"}
      /\ Frame(c).kind \notin Closing
      /\ Family(Frame(c).kind) \in {"assistant", "thinking"}
  BY <1>1 DEF Beginnings, Closing, Family, Deltas
<1>3. /\ LabelOf(i) \in {"assistant", "thinking"} /\ Ideal[i][l].label = LabelOf(i)
      /\ Ideal[i][l].open = TRUE /\ i \in Ids /\ l \in Events /\ c \in Consumers
      /\ KindAt(i, l) \in Deltas
  <2>1. Ideal[i][l].open = TRUE
    BY <1>2, OpenProjected
  <2> QED
    BY <1>1, <1>2, <2>1, KindProjected
<1>4. PICK k : NextTouch(i, k, l) /\ Before(i, k)
  BY <1>2, GoesOn
<1>5. /\ roles[i] = LabelOf(i) /\ contents[i] = Ideal[i][k].content
      /\ i \in recent => Ideal[i][k].open
      /\ i \notin unwritten => Says(rows[i].entity, Ideal[i][k])
  BY <1>3, <1>4 DEF Before, Known
<1>6. /\ Ideal[i][l].content = Said[i][l]
      /\ Ideal[i][l].content = Append(Ideal[i][k].content, l)
      /\ Ideal[i][k].content \in Seq(Events)
  BY <1>3, <1>4, IdealDelta
<1>7. text = Ideal[i][l].content /\ text \in Seq(Events) /\ RoleOr(i, "assistant") = LabelOf(i)
  BY <1>3, <1>5, <1>6, SaidTyped DEF RoleOr
<1> HIDE DEF text
<1>8. Known(i, l)'
  <2>1. contents'[i] = Ideal[i][l].content
    BY <1>1, <1>3, <1>7 DEF IInv, Caches
  <2> QED
    BY <1>1, <1>3, <1>5, <2>1 DEF Known
<1>9. CASE i \in recent
  <2>1. ~WritesOn(c, i)'
    <3>1. phase'[c] = NextPhase(Tail(frames[c])) /\ c # 0
      BY <1>1, <1>3, <1>9, RunnerKinds DEF IInv, Consumption
    <3> QED
      BY <3>1, AfterFrames DEF WritesOn, Writing
  <2>2. ASSUME i \notin unwritten PROVE Says(rows[i].entity, Ideal[i][l])
    <3>1. Says(rows[i].entity, Ideal[i][k]) /\ Ideal[i][k].open = TRUE
      <4>1. Ideal[i][k].open \in BOOLEAN
        BY <1>3, <1>4, QuietBetween, IdealAt
      <4> QED
        BY <1>5, <1>9, <2>2, <4>1
    <3>2. Ideal[i][k].label = LabelOf(i)
      BY <1>3, <1>4, QuietBetween, IdealAt
    <3>3. rows[i].entity.label = LabelOf(i) /\ rows[i].entity.open = TRUE
          /\ IsPrefixOf(rows[i].entity.content, Ideal[i][k].content)
      BY <3>1, <3>2 DEF Says
    <3>4. Len(rows[i].entity.content) \in Nat
      <4>1. rows[i] # NoRow
        BY <1>3, <3>3 DEF NoRow, NoEntity
      <4>2. rows[i].entity.content \in Seq(Events)
        BY <1>3, <4>1 DEF IInv, Storage, Row, Entity
      <4> QED
        BY <4>2, LenProperties
    <3>5. IsPrefixOf(rows[i].entity.content, Ideal[i][l].content)
      BY <1>3, <1>6, <3>3, <3>4, LongerPrefix
    <3> QED
      BY <1>3, <3>3, <3>5 DEF Says
  <2>3. Kept(c, i, l)'
    BY <1>1, <2>1, <2>2 DEF Kept, Says
  <2> QED
    BY <1>8, <2>3
<1>10. CASE i \notin recent
  <2>1. Says(entity, Ideal[i][l])
    BY <1>3, <1>7, SaysIt
  <2> HIDE DEF entity
  <2> QED
    BY <1>1, <1>3, <1>8, <1>10, <2>1, UpsertKept
<1> QED
  BY <1>9, <1>10

LEMMA FinalSays ==
  ASSUME IInv, WellFormed, NEW c, NEW i, NEW l, Projecting(c, i, l), LlmFinal(c)
  PROVE  Known(i, l)' /\ Kept(c, i, l)'
<1> DEFINE kind == Frame(c).kind
           text == CASE kind = "llm.thinking.final" \/ ~Frame(c).full -> contents[i]
                     [] kind = "llm.final"                            -> Said[i][l]
                     [] OTHER                                         -> <<l>>
           label == RoleOr(i, IF kind = "llm.final" THEN "assistant" ELSE "thinking")
           entity == [label |-> label, content |-> text, open |-> FALSE]
<1>1. /\ kind \in {"llm.final", "llm.thinking.final", "llm.thinking.summary"}
      /\ contents' = [contents EXCEPT ![i] = text] /\ roles' = roles
      /\ recent' = recent \ {i}
      /\ Upserts(c, i, entity)
  BY DEF LlmFinal, Projects, Projecting, StreamsOn
<1> HIDE DEF kind
<1>2. /\ kind \notin Beginnings \cup {"tool.result", "chat.message"}
      /\ kind \in Closing /\ kind \notin Deltas
      /\ Family(kind) \in {"assistant", "thinking"}
  BY <1>1 DEF Beginnings, Closing, Family, Deltas
<1>3. /\ LabelOf(i) \in {"assistant", "thinking"} /\ Ideal[i][l].label = LabelOf(i)
      /\ Ideal[i][l].open = FALSE /\ i \in Ids /\ l \in Events /\ c \in Consumers
      /\ KindAt(i, l) = kind /\ l \in Touching[i]
      /\ SumsUp(i, l) <=> kind = "llm.thinking.summary" /\ Frame(c).full
  <2>1. Ideal[i][l].open = FALSE
    BY <1>2, OpenProjected DEF kind
  <2> QED
    BY <1>2, <2>1, KindProjected DEF kind
<1>4. PICK k : NextTouch(i, k, l) /\ Before(i, k)
  BY <1>2, GoesOn DEF kind
<1>5. roles[i] = LabelOf(i) /\ contents[i] = Ideal[i][k].content
  BY <1>3, <1>4 DEF Before, Known
<1>6. contents[i] \in Seq(Events) /\ Said[i][l] \in Seq(Events)
  BY <1>3, SaidTyped DEF IInv, Caches
<1>7. text = Ideal[i][l].content /\ text \in Seq(Events)
  <2>1. CASE SumsUp(i, l)
    <3>1. Ideal[i][l].content = <<l>> /\ <<l>> \in Seq(Events)
      BY <1>3, <2>1, IdealSummary
    <3>2. text = <<l>>
      BY <1>3, <2>1
    <3> HIDE DEF text
    <3> QED
      BY <3>1, <3>2
  <2>2. CASE ~SumsUp(i, l)
    <3>1. /\ Ideal[i][l].content = Ideal[i][k].content
          /\ kind = "llm.final" => Ideal[i][l].content = Said[i][l]
      BY <1>2, <1>3, <1>4, <2>2, IdealFinal
    <3>2. text = contents[i] \/ (kind = "llm.final" /\ text = Said[i][l])
      BY <1>1, <1>3, <2>2
    <3> HIDE DEF text
    <3> QED
      BY <1>5, <1>6, <3>1, <3>2
  <2> QED
    BY <2>1, <2>2
<1>8. label = LabelOf(i)
  BY <1>3, <1>5 DEF RoleOr
<1> HIDE DEF text, label
<1>9. contents'[i] = Ideal[i][l].content
  BY <1>1, <1>3, <1>7 DEF IInv, Caches
<1>10. Known(i, l)'
  BY <1>1, <1>3, <1>5, <1>9 DEF Known
<1>11. Says(entity, Ideal[i][l])
  BY <1>3, <1>7, <1>8, SaysIt
<1> HIDE DEF entity
<1> QED
  BY <1>1, <1>3, <1>10, <1>11, UpsertKept

(* Tools and users have no text.                                           *)
LEMMA PlainSays ==
  ASSUME IInv, WellFormed, NEW c, NEW i, NEW l, Projecting(c, i, l), NEW label, NEW open,
         label = LabelOf(i), label \notin {"assistant", "thinking"},
         open = (Frame(c).kind \notin Closing),
         Upserts(c, i, [label |-> label, content |-> << >>, open |-> open])
  PROVE  Kept(c, i, l)'
<1> DEFINE entity == [label |-> label, content |-> << >>, open |-> open]
<1>1. /\ Ideal[i][l].label = label /\ i \in Ids /\ l \in Touching[i] /\ c \in Consumers
      /\ << >> \in Seq(Events)
  BY KindProjected
<1>2. Ideal[i][l].content = << >>
  BY <1>1, IdealPlain
<1>3. Ideal[i][l].open = open
  BY OpenProjected
<1>4. Says(entity, Ideal[i][l])
  BY <1>1, <1>2, <1>3, SaysIt
<1> HIDE DEF entity
<1>5. Upserts(c, i, entity)
  BY DEF entity
<1> QED
  BY <1>1, <1>4, <1>5, UpsertKept

LEMMA ToolSays ==
  ASSUME IInv, WellFormed, NEW c, NEW i, NEW l, Projecting(c, i, l), ToolStart(c) \/ ToolDone(c)
  PROVE  Known(i, l)' /\ Kept(c, i, l)'
<1>1. Frame(c).kind \in {"tool.start", "tool.done"}
  BY DEF ToolStart, ToolDone, Projects
<1>2. LabelOf(i) = "tool" /\ i \in Ids
  BY <1>1, KindProjected DEF Family
<1>3. CASE ToolStart(c)
  <2>1. /\ Frame(c).kind = "tool.start" /\ toolNames' = [toolNames EXCEPT ![i] = "tool"]
        /\ Upserts(c, i, [label |-> "tool", content |-> << >>, open |-> TRUE])
    BY <1>3 DEF ToolStart, Projects, Projecting
  <2>2. toolNames'[i] = "tool"
    BY <1>2, <2>1 DEF IInv, Caches
  <2>3. TRUE = (Frame(c).kind \notin Closing)
    BY <2>1 DEF Closing
  <2>4. Kept(c, i, l)'
    BY <1>2, <2>1, <2>3, PlainSays
  <2> QED
    BY <1>2, <2>2, <2>4 DEF Known
<1>4. CASE ToolDone(c)
  <2>1. /\ Frame(c).kind = "tool.done" /\ toolNames' = toolNames
        /\ Upserts(c, i, [label |-> toolNames[i], content |-> << >>, open |-> FALSE])
    BY <1>4 DEF ToolDone, Projects, Projecting, projector
  <2>2. PICK k : NextTouch(i, k, l) /\ Before(i, k)
    BY <2>1, GoesOn DEF Beginnings
  <2>3. toolNames[i] = "tool"
    BY <1>2, <2>2 DEF Before, Known
  <2>4. FALSE = (Frame(c).kind \notin Closing)
    BY <2>1 DEF Closing
  <2>5. Kept(c, i, l)'
    BY <1>2, <2>1, <2>3, <2>4, PlainSays
  <2> QED
    BY <1>2, <2>1, <2>3, <2>5 DEF Known
<1> QED
  BY <1>3, <1>4

LEMMA OtherSays ==
  ASSUME IInv, WellFormed, NEW c, NEW i, NEW l, Projecting(c, i, l),
         ToolResult(c) \/ ChatMessage(c)
  PROVE  Known(i, l)' /\ Kept(c, i, l)'
<1>1. PICK label \in {"result", "user"} :
        /\ Frame(c).kind = (IF label = "result" THEN "tool.result" ELSE "chat.message")
        /\ Upserts(c, i, [label |-> label, content |-> << >>, open |-> FALSE])
  <2>1. CASE ToolResult(c)
    BY <2>1 DEF ToolResult, Projects, Projecting
  <2>2. CASE ChatMessage(c)
    BY <2>2 DEF ChatMessage, UserMessage, Projects, Projecting
  <2> QED
    BY <2>1, <2>2
<1>2. LabelOf(i) = label
  BY <1>1, KindProjected DEF Family
<1>3. FALSE = (Frame(c).kind \notin Closing)
  BY <1>1 DEF Closing
<1>4. Kept(c, i, l)'
  BY <1>1, <1>2, <1>3, PlainSays
<1> QED
  BY <1>2, <1>4 DEF Known

LEMMA ProjectSays ==
  ASSUME IInv, WellFormed, NEW c, NEW i, NEW l, Projecting(c, i, l), Project(c)
  PROVE  Known(i, l)' /\ Kept(c, i, l)'
BY StartSays, DeltaSays, FinalSays, ToolSays, OtherSays DEF Project

(* The caches are per message.                                             *)
LEMMA OtherCaches ==
  ASSUME IInv, NEW c \in Consumers, Project(c), NEW h \in Ids, h # EntityId(Frame(c))
  PROVE  /\ roles'[h] = roles[h] /\ contents'[h] = contents[h] /\ toolNames'[h] = toolNames[h]
         /\ h \in recent' <=> h \in recent
<1>1. Caches
  BY DEF IInv
<1> DEFINE i == EntityId(Frame(c))
<1>2. /\ roles' = roles \/ \E r : roles' = [roles EXCEPT ![i] = r]
      /\ contents' = contents \/ \E r : contents' = [contents EXCEPT ![i] = r]
      /\ toolNames' = toolNames \/ \E r : toolNames' = [toolNames EXCEPT ![i] = r]
      /\ recent' = recent \/ recent' = recent \cup {i} \/ recent' = recent \ {i}
  <2>1. CASE LlmStart(c)
    BY <2>1 DEF LlmStart
  <2>2. CASE LlmDelta(c)
    BY <2>2 DEF LlmDelta
  <2>3. CASE LlmFinal(c)
    BY <2>3 DEF LlmFinal
  <2>4. CASE ToolStart(c)
    BY <2>4 DEF ToolStart
  <2>5. CASE ToolDone(c) \/ ToolResult(c) \/ ChatMessage(c)
    BY <2>5 DEF ToolDone, ToolResult, ChatMessage, projector
  <2> QED
    BY <2>1, <2>2, <2>3, <2>4, <2>5 DEF Project
<1> HIDE DEF i
<1>3. h # i
  BY DEF i
<1>4. roles'[h] = roles[h]
  BY <1>1, <1>2, <1>3 DEF Caches
<1>5. contents'[h] = contents[h]
  BY <1>1, <1>2, <1>3 DEF Caches
<1>6. toolNames'[h] = toolNames[h]
  BY <1>1, <1>2, <1>3 DEF Caches
<1> QED
  BY <1>2, <1>3, <1>4, <1>5, <1>6

(* The consumer's record of i has no gap: then the frame follows the last  *)
(* one of i it has projected.                                              *)
LEMMA WholeBefore ==
  ASSUME FInv, WellFormed, NEW c \in Consumers, Projection(c), NEW i, i = EntityId(Frame(c)),
         NEW l, l = event[c], Whole(c, i)'
  PROVE  Prepared(i, l)
<1>1. /\ i \in Ids /\ l \in Events /\ l \in Touching[i]
      /\ Done(c, i) = {k \in Touching[i] : k < l} /\ Done(c, i)' = Done(c, i) \cup {l}
  BY ProjectionDone DEF FInv
<1>2. /\ taken'[i] = taken[i] \cup {<<c, l>>} /\ taken'[i] = {c} \X Done(c, i)'
      /\ phase[c] = "projecting"
  BY TakenAfter DEF FInv, Whole, Projection
<1>3. Touching[i] \in SUBSET Nat /\ l \in Nat
  BY <1>1, TouchingTyped
<1>4. l \notin Done(c, i)
  BY <1>1, <1>3
<1>5. <<c, l>> \notin taken[i]
  BY <1>1, <1>2, <1>4 DEF FInv, Recorded
<1>6. taken[i] = {c} \X Done(c, i)
  BY <1>1, <1>2, <1>4, <1>5
<1>7. CASE Done(c, i) = {}
  <2>1. \A j \in Touching[i] : l <= j
    <3> SUFFICES ASSUME NEW j \in Touching[i], j < l PROVE FALSE
      BY <1>3
    <3> QED
      BY <1>1, <1>7
  <2> QED
    BY <1>1, <2>1 DEF Prepared, First
<1>8. CASE Done(c, i) # {}
  <2>1. Done(c, i) \in SUBSET Nat /\ Done(c, i) \subseteq Touching[i]
        /\ \A x \in Done(c, i) : x <= l
    BY <1>1, <1>3
  <2>2. PICK k \in Done(c, i) : \A x \in Done(c, i) : x <= k
    BY <1>3, <1>8, <2>1, LastNumber
  <2>3. NextTouch(i, k, l)
    <3>1. k \in Touching[i] /\ k < l
      BY <1>1, <2>2
    <3>2. ASSUME NEW j \in Touching[i] PROVE j <= k \/ l <= j
      BY <1>1, <1>3, <2>2
    <3> QED
      BY <1>1, <3>1, <3>2 DEF NextTouch
  <2>4. Whole(c, i)
    <3>1. <<c, k>> \in taken[i]
      BY <1>6, <2>2
    <3> QED
      BY <1>6, <3>1 DEF Whole
  <2>5. k \in Events /\ IsLast(k, Done(c, i))
    BY <1>1, <2>2, DoneTyped DEF IsLast
  <2>6. Known(i, k) /\ Kept(c, i, k)
    BY <1>1, <2>4, <2>5 DEF FInv, Faithful
  <2>7. ~WritesOn(c, i)
    <3>1. c # 0
      BY RunnerKinds DEF FInv
    <3> QED
      BY <1>2, <3>1 DEF WritesOn, Writing
  <2>8. Before(i, k)
    BY <2>6, <2>7 DEF Before, Kept
  <2> QED
    BY <2>3, <2>8 DEF Prepared
<1> QED
  BY <1>7, <1>8

LEMMA ProjectKeeps ==
  ASSUME FInv, WellFormed, NEW c \in Consumers, Project(c)
  PROVE  Rest' /\ Recorded' /\ Faithful'
<1>1. /\ IInv /\ Rest /\ Recorded /\ Faithful /\ Projection(c) /\ phase[c] = "projecting"
      /\ 0 \notin Consumers /\ c \in Writers /\ c # 0
  BY ProjectStep, RunnerKinds DEF FInv, IInv, Projection
<1>2. PICK i, l : i = EntityId(Frame(c)) /\ l = event[c]
  OBVIOUS
<1>3. /\ i \in Ids /\ l \in Events /\ l \in Touching[i] /\ FrameAt(i, l) = Frame(c)
      /\ Done(c, i) = {k \in Touching[i] : k < l}
      /\ Done(c, i)' = Done(c, i) \cup {l}
      /\ \A h \in Ids : h # i => Done(c, h)' = Done(c, h)
      /\ \A d \in Consumers, h \in Ids : d # c => Done(d, h)' = Done(d, h)
  BY <1>1, <1>2, ProjectionDone
<1>4. /\ taken'[i] = taken[i] \cup {<<c, l>>}
      /\ \A h \in Ids : h # i => taken'[h] = taken[h]
  BY <1>1, <1>2, TakenAfter
<1>5. /\ phase'[c] \in {"receiving", "projecting", "storing"}
      /\ \A d \in Consumers : d # c => phase'[d] = phase[d]
      /\ \A t \in Writers : t # c => write'[t] = write[t]
      /\ phase'[c] = "storing" => write'[c].id = i
      /\ phase'[c] = "receiving" => Tail(frames[c]) = << >>
  <2>1. phase'[c] = "receiving" => Tail(frames[c]) = << >>
    BY <1>1 DEF Projection, Upserts, NextPhase, IInv, Consumption
  <2> QED
    BY <1>1, <1>2, <2>1, AfterProjection
<1>6. /\ frames'[c] = Tail(frames[c]) /\ \A d \in Consumers : d # c => frames'[d] = frames[d]
      /\ rows' = rows /\ unwritten' = unwritten
  BY <1>1, FramesAfter DEF Projection
<1>7. Rest'
  BY <1>1, <1>5, <1>6 DEF Rest, Busy
<1>8. Recorded'
  <2> SUFFICES ASSUME NEW d \in Consumers, NEW h \in Ids, NEW k \in Events,
                      <<d, k>> \in taken'[h], phase'[d] # "gone"
               PROVE  k \in Done(d, h)'
    BY DEF Recorded
  <2>1. Done(d, h) \subseteq Done(d, h)'
    BY <1>3
  <2>2. phase[d] # "gone"
    BY <1>1, <1>5
  <2>3. CASE <<d, k>> \in taken[h]
    BY <1>1, <2>1, <2>2, <2>3 DEF Recorded
  <2>4. CASE <<d, k>> \notin taken[h]
    <3>1. h = i /\ d = c /\ k = l
      BY <1>4, <2>4
    <3> QED
      BY <1>3, <3>1
  <2> QED
    BY <2>3, <2>4
<1>9. ASSUME NEW d \in Consumers, NEW h \in Ids, h # i, Whole(d, h)',
             NEW k \in Events, IsLast(k, Done(d, h)')
      PROVE  Known(h, k)' /\ Kept(d, h, k)'
  <2>1. Done(d, h)' = Done(d, h) /\ taken'[h] = taken[h]
    BY <1>3, <1>4, <1>9
  <2>2. Known(h, k) /\ Kept(d, h, k)
    BY <1>1, <1>9, <2>1 DEF Faithful, Whole
  <2>3. Known(h, k)'
    <3>1. /\ roles'[h] = roles[h] /\ contents'[h] = contents[h] /\ toolNames'[h] = toolNames[h]
          /\ h \in recent' <=> h \in recent
      BY <1>1, <1>2, <1>9, OtherCaches
    <3> QED
      BY <2>2, <3>1 DEF Known
  <2>4. Kept(d, h, k)'
    <3>1. CASE d = c
      <4>1. ~WritesOn(c, h) /\ ~WritesOn(c, h)'
        BY <1>1, <1>5, <1>9 DEF WritesOn, Writing
      <4> QED
        BY <1>6, <2>2, <3>1, <4>1 DEF Kept, Says
    <3>2. CASE d # c
      <4>1. phase'[d] = phase[d] /\ write'[d] = write[d]
        BY <1>1, <1>5, <3>2, RunnerKinds
      <4>2. WritesOn(d, h)' <=> WritesOn(d, h)
        BY <1>1, <4>1 DEF WritesOn, Writing
      <4> QED
        BY <1>6, <2>2, <4>1, <4>2 DEF Kept, Says
    <3> QED
      BY <3>1, <3>2
  <2> QED
    BY <2>3, <2>4
<1>10. ASSUME NEW d \in Consumers, Whole(d, i)', NEW k \in Events, IsLast(k, Done(d, i)')
       PROVE  Known(i, k)' /\ Kept(d, i, k)'
  <2>1. d = c
    <3>1. <<c, l>> \in taken'[i] /\ taken'[i] = {d} \X Done(d, i)'
      BY <1>4, <1>10 DEF Whole
    <3> QED
      BY <3>1
  <2>2. Prepared(i, l)
    BY <1>1, <1>2, <1>10, <2>1, WholeBefore
  <2>3. k = l
    <3>1. k \in Done(c, i)' /\ l <= k
      BY <1>3, <1>10, <2>1 DEF IsLast
    <3>2. k = l \/ k < l
      BY <1>3, <3>1
    <3>3. k \in Nat /\ l \in Nat
      BY <1>3, TouchingTyped, FramesTyped
    <3> QED
      BY <3>1, <3>2, <3>3
  <2>4. Projecting(c, i, l)
    BY <1>1, <1>2, <1>3, <2>2 DEF Projecting
  <2> QED
    BY <1>1, <2>1, <2>3, <2>4, ProjectSays
<1>11. Faithful'
  BY <1>9, <1>10 DEF Faithful
<1> QED
  BY <1>7, <1>8, <1>11

LEMMA InitFInv == Init => FInv
<1> SUFFICES ASSUME Init PROVE FInv
  OBVIOUS
<1>1. IInv
  BY InitIInv
<1>2. Rest
  BY DEF Init, Rest
<1>3. \A i \in Ids : taken[i] = {}
  BY DEF Init
<1>4. Recorded /\ Faithful
  BY <1>3 DEF Recorded, Faithful, Whole
<1> QED
  BY <1>1, <1>2, <1>4 DEF FInv

LEMMA NextFInv == ASSUME WellFormed, FInv, [Next]_vars PROVE FInv'
<1>1. IInv /\ Rest /\ Recorded /\ Faithful
  BY DEF FInv
<1>2. IInv'
  BY <1>1, NextIInv
<1>3. CASE Start
  <2>1. started < MaxConsumers /\ (\E s : Begin(started + 1, s))
        /\ UNCHANGED <<projector, history, frames, write, rows>>
    BY <1>3 DEF Start
  <2> QED
    BY <1>2, <2>1, BeginKeeps DEF FInv
<1>4. CASE Rebuild
  <2>1. started < MaxConsumers /\ (\E s : Begin(started + 1, s))
        /\ UNCHANGED <<projector, history, frames, write, rows>>
    BY <1>4, ProjectorAssumption DEF Rebuild
  <2> QED
    BY <1>2, <2>1, BeginKeeps DEF FInv
<1>5. CASE Stop \/ TimePasses \/ Publish \/ ReadVersion \/ UNCHANGED vars
  <2>1. /\ UNCHANGED <<history, consuming, rows>>
        /\ roles' = roles /\ contents' = contents /\ toolNames' = toolNames
        /\ recent' \subseteq recent
    BY <1>5 DEF Stop, TimePasses, Publish, ReadVersion, vars, projector
  <2>2. \A c \in Consumers : write'[c] = write[c]
    <3>1. write' = write \/ \E w : write' = [write EXCEPT ![0] = w]
      BY <1>5 DEF Stop, TimePasses, Publish, ReadVersion, vars
    <3>2. write \in [Writers -> Write \cup {NoWrite}] /\ \A c \in Consumers : c \in Writers /\ c # 0
      BY <1>1, RunnerKinds DEF IInv, Writes
    <3> QED
      BY <3>1, <3>2
  <2> QED
    BY <1>1, <1>2, <2>1, <2>2, AsideKeeps DEF FInv
<1>6. CASE RunnerStores \/ RunnerStoreFails \/ RunnerTells
  BY <1>2, <1>6, RunnerStoresKeeps, RunnerEndsKeeps DEF FInv
<1>7. ASSUME NEW c \in Consumers, Consume(c) PROVE FInv'
  <2>1. Rest' /\ Recorded' /\ Faithful'
    BY <1>7, ReceiveKeeps, ChannelClosesKeeps, ProjectKeeps, StoreKeeps, StoreFailsKeeps,
       TellKeeps DEF Consume
  <2> QED
    BY <1>2, <2>1 DEF FInv
<1> HIDE DEF FInv
<1> QED
  BY <1>3, <1>4, <1>5, <1>6, <1>7 DEF Next, Run

LEMMA FaithfulSays ==
  ASSUME FInv, WellFormed PROVE Projected
<1> SUFFICES ASSUME NEW c \in Consumers, NEW i \in Ids, ProjectedBy(c, i)
             PROVE  \E x \in taken[i] :
                      /\ \A y \in taken[i] : y[2] <= x[2]
                      /\ rows[i].entity.label = Ideal[i][x[2]].label
                      /\ rows[i].entity.open = Ideal[i][x[2]].open
                      /\ IF rows[i].entity.open
                         THEN IsPrefixOf(rows[i].entity.content, Ideal[i][x[2]].content)
                         ELSE rows[i].entity.content = Ideal[i][x[2]].content
  BY DEF Projected
<1>1. /\ phase[c] = "receiving" /\ i \notin unwritten /\ taken[i] # {}
      /\ taken[i] = {c} \X {k \in Touching[i] : k <= event[c]}
  BY DEF ProjectedBy
<1>2. Done(c, i) = {k \in Touching[i] : k <= event[c]}
  <2>1. frames[c] = << >>
    BY <1>1 DEF FInv, Rest, Busy
  <2>2. event[c] \in Nat /\ Touching[i] \in SUBSET Nat
    BY FramesTyped, TouchingTyped DEF FInv, IInv, Consumption
  <2>3. ~Pending(c, i)
    BY <2>1 DEF Pending
  <2> QED
    BY <2>2, <2>3 DEF Done
<1>3. Whole(c, i)
  BY <1>1, <1>2 DEF Whole
<1>4. PICK k \in Done(c, i) : \A x \in Done(c, i) : x <= k
  <2>1. Done(c, i) # {}
    BY <1>1, <1>2
  <2>2. event[c] \in Nat /\ \A x \in Done(c, i) : x <= event[c]
    BY <1>2, FramesTyped DEF FInv, IInv, Consumption
  <2> QED
    BY <2>1, <2>2, DoneTyped, LastNumber
<1>5. k \in Events /\ Kept(c, i, k)
  BY <1>3, <1>4, DoneTyped DEF FInv, Faithful, IsLast
<1>6. Says(rows[i].entity, Ideal[i][k])
  <2>1. phase[c] # "storing"
    BY <1>1
  <2> QED
    BY <1>1, <1>5, <2>1 DEF Kept
<1> DEFINE z == <<c, k>>
<1>7. z \in taken[i] /\ z[2] = k /\ \A y \in taken[i] : y[2] <= k
  BY <1>1, <1>2, <1>4
<1> HIDE DEF z
<1> QED
  BY <1>6, <1>7 DEF Says

(* For any script of well-formed messages, whatever consumers come and go, *)
(* the stored timeline says what was published: all of a message once it   *)
(* has ended, what was throttled included (the caches of ApplySemFrame).   *)
THEOREM TimelineIsFaithful == WellFormed => (Spec => []Projected)
<1> SUFFICES ASSUME WellFormed PROVE Spec => []Projected
  OBVIOUS
<1>1. FInv /\ [Next]_vars => FInv'
  BY NextFInv
<1>2. FInv => Projected
  BY FaithfulSays
<1> HIDE DEF FInv, Init, Next, Projected
<1> QED
  BY InitFInv, <1>1, <1>2, PTL DEF Spec

===============================================================================

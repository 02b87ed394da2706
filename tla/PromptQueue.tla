----------------------------- MODULE PromptQueue -----------------------------
(***************************************************************************)
(* The prompt queue of one Conversation: ChatService                       *)
(* (pkg/webchat/chat_service.go) over the state that                       *)
(* pkg/webchat/send_queue.go keeps under Conversation.mu.                  *)
(*                                                                         *)
(* Every section that holds Conversation.mu is one step.  Between two such *)
(* sections a thread runs unlocked and any other thread may step.  pc[k]   *)
(* is where the one thread that works for prompt k is:                     *)
(*                                                                         *)
(*   idle       no thread works for k (unknown, or waiting in the queue)   *)
(*   starting   the HTTP handler of k, before runner.Start returns         *)
(*   claimed    a draining thread that popped k, before runner.Start       *)
(*              returns                                                    *)
(*   launched   the handler, runner.Start has returned nil                 *)
(*   promoted   the draining thread, runner.Start has returned nil         *)
(*   running    waitForPromptCompletion, inside Handle.Wait                *)
(*   draining   finish is over, the thread is about to claim               *)
(*   gone       the thread has returned                                    *)
(*   abandoned  the handler returned because runner.Start failed           *)
(*                                                                         *)
(* A thread that drains turns from its own prompt to the one it claims:    *)
(* the former is then "gone" and the latter "claimed".                     *)
(*                                                                         *)
(* Abstracted: payloads, metadata, timestamps and the other fields of a    *)
(* response.  A key stands for one prompt, sent once or retried; an empty  *)
(* key is replaced by a fresh UUID and is then a key like any other.       *)
(***************************************************************************)
EXTENDS Naturals, Sequences, FiniteSets, Functions

CONSTANTS Keys,   \* the idempotency keys clients use
          None    \* stands for the empty activeRequestKey

ASSUME NoneIsNotAKey == None \notin Keys

VARIABLES active,    \* Conversation.activeRequestKey
          queue,     \* Conversation.queue, keys only
          rec,       \* Conversation.requests: status and Response["status"]
          pc,        \* the thread that works for each prompt
          answer,    \* the last answer to a submission of each key (history)
          lent       \* keys whose Response map an unlocked handler also holds

vars == <<active, queue, rec, pc, answer, lent>>

-----------------------------------------------------------------------------
(* Values.  A prompt is in Executing from the moment it is allowed to run  *)
(* until its run has been declared over.                                   *)

Terminal  == {"completed", "error"}
Statuses  == {"none", "queued", "running"} \cup Terminal
Bodies    == {"none", "queued", "running", "started"} \cup Terminal
Executing == {"starting", "claimed", "launched", "promoted", "running"}
PCs       == {"idle", "draining", "gone", "abandoned"} \cup Executing

NoRecord == [status |-> "none", body |-> "none"]
NoAnswer == [http |-> 0, body |-> "none"]

TypeOK ==
  /\ active \in Keys \cup {None}
  /\ queue \in Seq(Keys)
  /\ rec \in [Keys -> [status : Statuses, body : Bodies]]
  /\ pc \in [Keys -> PCs]
  /\ answer \in [Keys -> [http : {0, 200, 202, 500}, body : Bodies]]
  /\ lent \subseteq Keys

Init ==
  /\ active = None
  /\ queue = <<>>
  /\ rec = [k \in Keys |-> NoRecord]
  /\ pc = [k \in Keys |-> "idle"]
  /\ answer = [k \in Keys |-> NoAnswer]
  /\ lent = {}

-----------------------------------------------------------------------------
(* Mistaken versions of the definitions below, each of which some property *)
(* must catch: a busy test that never fires, records that are not found,   *)
(* the wrong end of the queue, a status taken from the response, an active *)
(* key that is not cleared, a waiter that forgets to drain.                *)

NeverBusy == FALSE
FindsNoRecord(k) == FALSE
Newest == queue[Len(queue)]
StatusFromResponse == [status |-> "started", body |-> "started"]
StaysActive(k) == active
ReturnsAtOnce == "gone"

-----------------------------------------------------------------------------
(* The helpers of send_queue.go *)

Busy == active # None

HasRecord(k) == rec[k].body # "none"

Dequeued == Head(queue)

RestOfQueue == Tail(queue)

ClaimedRecord(r) == [status |-> "running", body |-> r.body]

QueuedRecord  == [status |-> "queued",  body |-> "queued"]
RunningRecord == [status |-> "running", body |-> "running"]

StartedRecord == [status |-> "running", body |-> "started"]

FinishedRecord(r, failed) ==
  LET status == IF failed THEN "error"
                ELSE IF r.status = "running" THEN "completed" ELSE r.status
  IN  [status |-> status, body |-> status]

-----------------------------------------------------------------------------
(* A submission: SubmitPrompt, StartPromptWithRunner up to runner.Start *)

(* The key is known: the submission is a retry and gets a copy of the      *)
(* recorded response, with 202 while the record still says "queued".       *)
Replay(k) ==
  /\ HasRecord(k)
  /\ answer' = [answer EXCEPT ![k] =
                  [http |-> IF rec[k].status = "queued" THEN 202 ELSE 200,
                   body |-> rec[k].body]]
  /\ UNCHANGED <<active, queue, rec, pc, lent>>

(* The conversation is busy: the prompt waits.  The map put in the record  *)
(* is also the one the handler goes on to extend and encode.               *)
Enqueue(k) ==
  /\ ~HasRecord(k)
  /\ Busy
  /\ queue' = Append(queue, k)
  /\ rec' = [rec EXCEPT ![k] = QueuedRecord]
  /\ lent' = lent \cup {k}
  /\ answer' = [answer EXCEPT ![k] = [http |-> 202, body |-> "queued"]]
  /\ UNCHANGED <<active, pc>>

(* The handler of a queued prompt has written and encoded its response.    *)
Reply(k) ==
  /\ k \in lent
  /\ lent' = lent \ {k}
  /\ UNCHANGED <<active, queue, rec, pc, answer>>

(* The conversation is free: the handler takes it.                         *)
StartDirectly(k) ==
  /\ ~HasRecord(k)
  /\ ~Busy
  /\ active' = k
  /\ rec' = [rec EXCEPT ![k] = RunningRecord]
  /\ pc' = [pc EXCEPT ![k] = "starting"]
  /\ UNCHANGED <<queue, answer, lent>>

-----------------------------------------------------------------------------
(* The life of a run *)

(* runner.Start returns nil, to the handler or to a draining thread.       *)
Launch(k) ==
  /\ \/ pc[k] = "starting" /\ pc' = [pc EXCEPT ![k] = "launched"]
     \/ pc[k] = "claimed"  /\ pc' = [pc EXCEPT ![k] = "promoted"]
  /\ UNCHANGED <<active, queue, rec, answer, lent>>

(* persistPromptStartResult puts a new Response in the record; then the    *)
(* waiter is spawned.  A handler answers its client with that response.    *)
Persist(k) ==
  /\ \/ /\ pc[k] = "launched"
        /\ answer' = [answer EXCEPT ![k] = [http |-> 200, body |-> "started"]]
     \/ /\ pc[k] = "promoted"
        /\ UNCHANGED answer
  /\ rec' = [rec EXCEPT ![k] = StartedRecord]
  /\ lent' = lent \ {k}
  /\ pc' = [pc EXCEPT ![k] = "running"]
  /\ UNCHANGED <<active, queue>>

(* finishPromptSubmission, the step all the ends of a run share.           *)
ActiveAfter(k) == IF active = k THEN None ELSE active

Finish(k, failed) ==
  /\ active' = ActiveAfter(k)
  /\ rec' = [rec EXCEPT ![k] = FinishedRecord(@, failed)]

(* runner.Start failed in the handler: finish, answer 500 and return.      *)
(* Nobody looks at the queue.                                              *)
StartFails(k) ==
  /\ pc[k] = "starting"
  /\ Finish(k, TRUE)
  /\ answer' = [answer EXCEPT ![k] = [http |-> 500, body |-> "error"]]
  /\ pc' = [pc EXCEPT ![k] = "abandoned"]
  /\ UNCHANGED <<queue, lent>>

(* The conversation is not found any more, or runner.Start failed, in a    *)
(* draining thread: finish and go round the loop.                          *)
LaunchFails(k) ==
  /\ pc[k] = "claimed"
  /\ Finish(k, TRUE)
  /\ pc' = [pc EXCEPT ![k] = "draining"]
  /\ UNCHANGED <<queue, answer, lent>>

(* Handle.Wait returns, with or without an error; finish, then drain.      *)
AfterFinish == "draining"

Complete(k, failed) ==
  /\ pc[k] = "running"
  /\ Finish(k, failed)
  /\ pc' = [pc EXCEPT ![k] = AfterFinish]
  /\ UNCHANGED <<queue, answer, lent>>

-----------------------------------------------------------------------------
(* The loop of tryDrainQueue *)

(* claimNextQueuedPrompt finds the conversation taken, or nothing queued.  *)
DrainStops(k) ==
  /\ pc[k] = "draining"
  /\ Busy \/ queue = <<>>
  /\ pc' = [pc EXCEPT ![k] = "gone"]
  /\ UNCHANGED <<active, queue, rec, answer, lent>>

(* claimNextQueuedPrompt pops a prompt and takes the conversation for it.  *)
(* The recorded response still says "queued".                              *)
Claim(k) ==
  /\ pc[k] = "draining"
  /\ ~Busy
  /\ queue # <<>>
  /\ queue' = RestOfQueue
  /\ active' = Dequeued
  /\ rec' = [rec EXCEPT ![Dequeued] = ClaimedRecord(@)]
  /\ pc' = [pc EXCEPT ![k] = "gone", ![Dequeued] = "claimed"]
  /\ UNCHANGED <<answer, lent>>

-----------------------------------------------------------------------------
Submit(k) == Replay(k) \/ Enqueue(k) \/ StartDirectly(k)

ThreadStep(k) ==
  \/ Launch(k)
  \/ Persist(k)
  \/ StartFails(k)
  \/ LaunchFails(k)
  \/ \E failed \in BOOLEAN : Complete(k, failed)
  \/ DrainStops(k)
  \/ Claim(k)

Next == \E k \in Keys : Submit(k) \/ Reply(k) \/ ThreadStep(k)

Spec == Init /\ [][Next]_vars

(* Goroutines are scheduled, runner.Start and Handle.Wait return: every    *)
(* thread that can step does.  Clients are not obliged to submit.          *)
FairSpec == Spec /\ \A k \in Keys : WF_vars(ThreadStep(k))
-----------------------------------------------------------------------------
(* Safety *)

(* The flag that makes a conversation busy tells the truth: it names the   *)
(* one prompt whose thread is between its start and its finish, so no two  *)
(* runs of a conversation overlap.                                         *)
ActiveIsExecuting ==
  \A k \in Keys : active = k <=> pc[k] \in Executing

NoRepeats(s) == \A i, j \in 1..Len(s) : s[i] = s[j] => i = j

(* The queue, the records and the threads tell the same story: a key is in *)
(* the queue once, exactly while its record says "queued"; it is "running" *)
(* exactly while a thread carries its run; once it is over, the recorded   *)
(* response says so too.                                                   *)
QueueMatchesRecords ==
  /\ NoRepeats(queue)
  /\ \A k \in Keys :
       /\ rec[k].status = "queued" <=> k \in Range(queue)
       /\ rec[k].status \in {"none", "queued"} <=> pc[k] = "idle"
       /\ rec[k].status = "running" <=> pc[k] \in Executing
       /\ IF rec[k].status = "running"
          THEN rec[k].body \in {"queued", "running", "started"}
          ELSE rec[k].body = rec[k].status

(* A queued prompt is not forgotten: some thread will look at the queue    *)
(* when its own work is over, unless a direct start failed.                *)
NobodyForgotten ==
  queue # <<>> =>
    \E k \in Keys : pc[k] \in Executing \cup {"draining", "abandoned"}

QueueInv == ActiveIsExecuting /\ QueueMatchesRecords /\ NobodyForgotten

(* Waiting prompts are promoted in the order they were accepted: none      *)
(* leaves the queue while an earlier one still waits.                      *)
PromotedInOrder ==
  [][\A i, j \in 1..Len(queue) :
       i < j /\ rec'[queue[j]].status # "queued"
         => rec'[queue[i]].status # "queued"]_vars

(* What a client learns by sending a prompt and retrying it with the same  *)
(* key only moves forward: a prompt it saw started is never queued again,  *)
(* one it saw finished stays finished.                                     *)
Progress(body) ==
  CASE body = "none"    -> 0
    [] body = "queued"  -> 1
    [] body = "running" -> 2
    [] body = "started" -> 3
    [] OTHER            -> 4

AnswersNeverRegress ==
  [][\A k \in Keys :
       /\ Progress(answer'[k].body) >= Progress(answer[k].body)
       /\ answer[k].body \in Terminal => answer'[k].body = answer[k].body]_vars

(* The service is a serial executor of prompts, each executed at most      *)
(* once.  What runs is taken from the threads, not from the busy flag.     *)
WaitingKeys  == Range(queue)
RunningKeys  == {k \in Keys : pc[k] \in Executing}
FinishedKeys == {k \in Keys : rec[k].status \in Terminal}

Serial == INSTANCE SerialPrompts WITH
            waiting  <- WaitingKeys,
            running  <- RunningKeys,
            finished <- FinishedKeys

IsSerial == Serial!Spec

-----------------------------------------------------------------------------
(* Liveness *)

(* As long as no direct start fails, every prompt a client was told is     *)
(* queued gets executed: whoever holds the conversation drains the queue.  *)
QueuedGetsExecuted ==
  [](\A k \in Keys : pc[k] # "abandoned")
    => \A k \in Keys : rec[k].status = "queued" ~> rec[k].status \in Terminal

-----------------------------------------------------------------------------
(* What the code says of itself and does not do *)

(* conversation.go:43-44, "All fields below are guarded by mu": while a    *)
(* handler that has released mu still writes and reads the response map of *)
(* a record, nobody changes that map.                                      *)
FieldsGuardedByMu ==
  [][\A k \in lent \cap lent' : rec'[k].body = rec[k].body]_vars
=============================================================================

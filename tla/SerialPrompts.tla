---------------------------- MODULE SerialPrompts ----------------------------
(***************************************************************************)
(* What the chat service promises about the prompts of one conversation,   *)
(* with no queue, records, threads or lock: every prompt is executed at    *)
(* most once, prompts are executed one at a time, and a prompt is made to  *)
(* wait only while another one executes.                                   *)
(***************************************************************************)
EXTENDS FiniteSets

CONSTANT Keys      \* idempotency keys; each names one prompt

VARIABLES waiting,   \* accepted, not begun
          running,   \* begun, not over
          finished   \* over, with or without an error

vars == <<waiting, running, finished>>

Known == waiting \cup running \cup finished

Init == /\ waiting = {}
        /\ running = {}
        /\ finished = {}

(* A prompt nobody has seen is executed at once when nothing executes.     *)
Begin(k) == /\ k \notin Known
            /\ running = {}
            /\ running' = {k}
            /\ UNCHANGED <<waiting, finished>>

(* Otherwise it is accepted and waits.                                     *)
Accept(k) == /\ k \notin Known
             /\ running # {}
             /\ waiting' = waiting \cup {k}
             /\ UNCHANGED <<running, finished>>

(* A waiting prompt takes its turn when nothing executes.                  *)
Promote(k) == /\ k \in waiting
              /\ running = {}
              /\ waiting' = waiting \ {k}
              /\ running' = {k}
              /\ UNCHANGED finished

(* The execution of a prompt is over.                                      *)
End(k) == /\ k \in running
          /\ running' = running \ {k}
          /\ finished' = finished \cup {k}
          /\ UNCHANGED waiting

Next == \E k \in Keys : Begin(k) \/ Accept(k) \/ Promote(k) \/ End(k)

Spec == Init /\ [][Next]_vars
=============================================================================

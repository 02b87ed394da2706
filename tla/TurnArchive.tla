---------------------------- MODULE TurnArchive ----------------------------
(***************************************************************************)
(* What a turn store promises its callers (pkg/persistence/chatstore/      *)
(* turn_store.go): a map from snapshots - a turn, a phase, a millisecond - *)
(* to the blocks that were saved under them.  A save replaces one snapshot *)
(* as a whole and touches no other; closing and reopening changes nothing. *)
(* A store may start with the snapshots an older version has left it.      *)
(***************************************************************************)
EXTENDS Sequences

CONSTANTS
  Snapshots,  \* the keys of snapshots
  BlockKeys   \* stored blocks: an id and a content hash

VARIABLES
  archive,  \* the blocks filed under each key, <<>> when there are none
  saved     \* every payload that was ever saved under a key

vars == <<archive, saved>>

Init == /\ archive \in [Snapshots -> Seq(BlockKeys)]
        /\ saved = [key \in Snapshots |->
                      IF archive[key] = <<>> THEN {} ELSE {archive[key]}]

\* One payload is saved, and is what the archive then holds under its key.
Put(key) ==
  /\ archive' = [archive EXCEPT ![key] = archive'[key]]
  /\ saved' = [saved EXCEPT ![key] = @ \cup {archive'[key]}]

Next == \E key \in Snapshots : Put(key)

Spec == Init /\ [][Next]_vars
=============================================================================

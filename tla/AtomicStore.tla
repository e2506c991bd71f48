---------------------------- MODULE AtomicStore ----------------------------
(***************************************************************************)
(* What the CFS journal promises to the file system above it: a store of   *)
(* blocks that changes only by whole transactions.                         *)
(*                                                                         *)
(* "store" is what a mount would find after a power loss at this instant.  *)
(* "view" is what the operation now running reads back: the store overlaid *)
(* with its own writes.  Between operations the two are equal.             *)
(***************************************************************************)
CONSTANTS
    Home,       \* the metadata blocks of the volume
    Data,       \* the contents a block can have
    Formatted   \* the contents mkfs left

VARIABLES store, view

vars == <<store, view>>

Init ==
    /\ store = Formatted
    /\ view = Formatted

(* The operation writes one block.  Only the operation itself can tell. *)
Write(h, d) ==
    /\ view' = [view EXCEPT ![h] = d]
    /\ UNCHANGED store

(* All the writes of the operation become durable in one step. *)
Commit ==
    /\ store' = view
    /\ UNCHANGED view

(* The operation failed, or the power did: none of its writes remain. *)
Abort ==
    /\ view' = store
    /\ UNCHANGED store

Next ==
    \/ \E h \in Home, d \in Data : Write(h, d)
    \/ Commit
    \/ Abort

Spec == Init /\ [][Next]_vars
=============================================================================

------------------------------ MODULE RootQueue ------------------------------
(***************************************************************************)
(* What the window of recent roots promises (contract/src/roots.rs): the   *)
(* last Capacity roots, in the order they were committed.  A full window   *)
(* drops its oldest root and nothing else.                                 *)
(***************************************************************************)
EXTENDS Integers, Sequences

CONSTANTS Capacity, Roots

VARIABLE queue

QueueInit == queue = <<>>

Commit(root) ==
    queue' = Append(IF Len(queue) < Capacity THEN queue ELSE Tail(queue), root)

QueueNext == \E root \in Roots : Commit(root)

QueueSpec == QueueInit /\ [][QueueNext]_queue
==============================================================================

----------------------------- MODULE RecentRoots -----------------------------
(***************************************************************************)
(* The contract's recent_roots over its life: deposit and transfer push    *)
(* one root each (contract/src/deposit.rs, transfer.rs) and every spend    *)
(* asks whether its root is still in the window.  Roots may repeat here,   *)
(* which the pool never does: the buffer does not depend on it.            *)
(***************************************************************************)
EXTENDS RootsWindow

CONSTANTS
    Capacity,   \* lib.rs ROOTS_WINDOW, 30 in the contract
    Roots       \* the root values that may be pushed

\* roots.rs, new: "capacity must be > 0"
ASSUME CapacityAssumption == Capacity \in Nat \ {0}

VARIABLE window

Init == window = NewWindow(Capacity)

PushRoot(root) == window' = Push(window, root)

Next == \E root \in Roots : PushRoot(root)

Spec == Init /\ [][Next]_window

------------------------------------------------------------------------------
(* The slot, from 1, of the i-th oldest root: a window still filling is in *)
(* push order from slot 1, a full one starts at head.                      *)
Slot(w, i) ==
    IF w.len < w.capacity THEN i ELSE ((w.head + i - 1) % w.capacity) + 1

(* The roots the window holds, oldest first. *)
Contents(w) == [i \in 1 .. w.len |-> w.roots[Slot(w, i)]]

(* The buffer keeps its shape through every overwrite. *)
TypeOK == IsWindow(window, Capacity, Roots)

(* contains() answers for exactly the roots of the queue: the overwrite    *)
(* neither loses a recent root nor leaves an evicted one behind.           *)
AcceptsTheQueue ==
    \A root \in Roots :
        Contains(window, root) <=>
            \E i \in 1 .. window.len : Contents(window)[i] = root

Queue == INSTANCE RootQueue WITH queue <- Contents(window)

(* Every push is a push on the queue of the last Capacity roots: roots.rs  *)
(* evicts the oldest root, one per push, and only when the window is full. *)
ImplementsQueue == Queue!QueueSpec
==============================================================================

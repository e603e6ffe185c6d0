----------------------------- MODULE RootsWindow -----------------------------
(***************************************************************************)
(* The ring buffer of recent Merkle roots (contract/src/roots.rs): the     *)
(* record the contract stores and the three operations on it.  A root is   *)
(* any value; the record's fields are the struct's.                        *)
(***************************************************************************)
EXTENDS Integers, Sequences

(* RootsWindow::new: nothing is accepted until the first push. *)
NewWindow(capacity) ==
    [capacity |-> capacity, head |-> 0, len |-> 0, roots |-> <<>>]

(* Faults of push, each one a plausible slip, for mutation checks. *)
\* len is counted past the capacity
PushOverrunsLen(w, root) ==
    [w EXCEPT !.head = (w.head + 1) % w.capacity, !.len = @ + 1,
              !.roots = IF w.len < w.capacity THEN Append(@, root)
                        ELSE [@ EXCEPT ![w.head + 1] = root]]

\* an evicted root stays in the vector
PushNeverEvicts(w, root) ==
    [w EXCEPT !.head = (w.head + 1) % w.capacity,
              !.len = IF w.len < w.capacity THEN @ + 1 ELSE @,
              !.roots = Append(@, root)]

\* head does not move once the vector is full
PushStuckHead(w, root) ==
    [w EXCEPT !.head = IF w.len < w.capacity THEN (@ + 1) % w.capacity ELSE @,
              !.len = IF w.len < w.capacity THEN @ + 1 ELSE @,
              !.roots = IF w.len < w.capacity THEN Append(@, root)
                        ELSE [@ EXCEPT ![w.head + 1] = root]]

(* RootsWindow::push: fill the vector first, then overwrite at head; head  *)
(* is the 0-based slot the next overwrite takes.                           *)
Push(w, root) ==
    [ capacity |-> w.capacity,
      head     |-> (w.head + 1) % w.capacity,
      len      |-> IF w.len < w.capacity THEN w.len + 1 ELSE w.len,
      roots    |-> IF w.len < w.capacity
                   THEN Append(w.roots, root)
                   ELSE [w.roots EXCEPT ![w.head + 1] = root] ]

(* RootsWindow::contains: a scan of the whole vector. *)
Contains(w, root) == \E i \in DOMAIN w.roots : w.roots[i] = root

(* The shape every window keeps: the vector is as long as len, and until   *)
(* it is full head is where the vector's length puts it.                   *)
IsWindow(w, capacity, Roots) ==
    /\ w \in [ capacity : {capacity},
               head     : 0 .. capacity - 1,
               len      : 0 .. capacity,
               roots    : Seq(Roots) ]
    /\ Len(w.roots) = w.len
    /\ w.len < capacity => w.head = w.len
==============================================================================

-------------------------- MODULE RecentRootsProofs --------------------------
(***************************************************************************)
(* For every capacity and every set of roots, the contract's window of     *)
(* recent roots accepts exactly the last Capacity roots that were pushed.  *)
(***************************************************************************)
EXTENDS RecentRoots, OperatorProofs, SequenceTheorems

(* The shape of the buffer is an invariant of pushing (roots.rs, push). *)
THEOREM TypeCorrect == Spec => []TypeOK
<1>1. Init => TypeOK
    BY CapacityAssumption, NewWindowIsWindow DEF Init, TypeOK
<1>2. TypeOK /\ [Next]_window => TypeOK'
    <2>1. ASSUME TypeOK, NEW root \in Roots, PushRoot(root) PROVE TypeOK'
        BY <2>1, CapacityAssumption, PushIsWindow DEF TypeOK, PushRoot
    <2>2. ASSUME TypeOK, UNCHANGED window PROVE TypeOK'
        BY <2>2 DEF TypeOK
    <2>. QED BY <2>1, <2>2 DEF Next
<1>. QED BY <1>1, <1>2, PTL DEF Spec

(* Slot numbers the held roots: every age has a slot of the vector, found  *)
(* without a remainder, and every slot an age. *)
LEMMA SlotOfAge ==
    ASSUME NEW w, IsWindow(w, Capacity, Roots), NEW i \in 1 .. w.len
    PROVE  /\ Slot(w, i) \in 1 .. w.len
           /\ Slot(w, i) = IF w.len < Capacity THEN i
                           ELSE IF w.head + i <= Capacity
                                THEN w.head + i ELSE w.head + i - Capacity
<1>1. /\ w.capacity = Capacity /\ w.head \in 0 .. Capacity - 1
      /\ w.len \in 0 .. Capacity /\ Capacity \in Nat \ {0}
    BY CapacityAssumption DEF IsWindow
<1>2. CASE w.len < Capacity
    BY <1>1, <1>2 DEF Slot
<1>3. CASE ~(w.len < Capacity)
    <2>1. i - 1 \in 0 .. Capacity /\ w.head + (i - 1) = w.head + i - 1
        BY <1>1
    <2>2. (w.head + (i - 1)) % Capacity
            = IF w.head + (i - 1) < Capacity
              THEN w.head + (i - 1) ELSE w.head + (i - 1) - Capacity
        BY <1>1, <2>1, StepRound
    <2>3. Slot(w, i) = ((w.head + (i - 1)) % Capacity) + 1
        BY <1>1, <1>3, <2>1 DEF Slot
    <2>4. w.len = Capacity /\ w.head + (i - 1) < 2 * Capacity
        BY <1>1, <1>3
    <2>. QED BY <1>1, <1>3, <2>2, <2>3, <2>4
<1>. QED BY <1>2, <1>3

LEMMA AgeOfSlot ==
    ASSUME NEW w, IsWindow(w, Capacity, Roots), NEW s \in 1 .. w.len
    PROVE  \E i \in 1 .. w.len : Slot(w, i) = s
<1>1. /\ w.capacity = Capacity /\ w.head \in 0 .. Capacity - 1
      /\ w.len \in 0 .. Capacity /\ Capacity \in Nat \ {0}
    BY CapacityAssumption DEF IsWindow
<1>2. CASE w.len < Capacity
    BY <1>1, <1>2 DEF Slot
<1>3. CASE w.len = Capacity
    <2>. DEFINE i == IF s > w.head THEN s - w.head ELSE s - w.head + Capacity
    <2>1. i \in 1 .. w.len
        BY <1>1, <1>3
    <2>2. Slot(w, i) = s
        BY <1>1, <1>3, <2>1, SlotOfAge
    <2>. QED BY <2>1, <2>2
<1>. QED BY <1>1, <1>2, <1>3

(* contains() is membership of the queue, whatever slot the queue starts   *)
(* at: the scan of the raw vector (roots.rs, contains) is right.           *)
THEOREM WindowIsTheQueue == Spec => []AcceptsTheQueue
<1>1. TypeOK => AcceptsTheQueue
    <2>. SUFFICES ASSUME TypeOK, NEW root \in Roots
                  PROVE  Contains(window, root) <=>
                           \E i \in 1 .. window.len : Contents(window)[i] = root
        BY DEF AcceptsTheQueue
    <2>1. DOMAIN window.roots = 1 .. window.len
        BY DEF TypeOK, IsWindow
    <2>2. ASSUME Contains(window, root)
          PROVE  \E i \in 1 .. window.len : Contents(window)[i] = root
        <3>1. PICK s \in 1 .. window.len : window.roots[s] = root
            BY <2>1, <2>2 DEF Contains
        <3>2. PICK i \in 1 .. window.len : Slot(window, i) = s
            BY <3>1, AgeOfSlot DEF TypeOK
        <3>. QED BY <3>1, <3>2 DEF Contents
    <2>3. ASSUME NEW i \in 1 .. window.len, Contents(window)[i] = root
          PROVE  Contains(window, root)
        BY <2>1, <2>3, SlotOfAge DEF Contents, Contains, TypeOK
    <2>. QED BY <2>2, <2>3
<1>. QED BY <1>1, TypeCorrect, PTL

(* The queue a window stands for is a sequence of its roots. *)
LEMMA ContentsType ==
    ASSUME NEW w, IsWindow(w, Capacity, Roots)
    PROVE  /\ Contents(w) \in Seq(Roots) /\ Len(Contents(w)) = w.len
           /\ \A i \in 1 .. w.len : Contents(w)[i] = w.roots[Slot(w, i)]
<1>1. w.len \in Nat /\ w.roots \in Seq(Roots) /\ Len(w.roots) = w.len
    BY CapacityAssumption DEF IsWindow
<1>2. \A i \in 1 .. w.len : w.roots[Slot(w, i)] \in Roots
    BY <1>1, SlotOfAge
<1>. QED BY <1>1, <1>2 DEF Contents

(* A push on the ring is a push on the queue. *)
LEMMA PushImplementsCommit ==
    ASSUME TypeOK, NEW root \in Roots, PushRoot(root)
    PROVE  Queue!Commit(root)
<1>. DEFINE v == window'
            q == Contents(window)
            r == Contents(v)
<1>1. /\ window.capacity = Capacity /\ window.head \in 0 .. Capacity - 1
      /\ window.len \in 0 .. Capacity /\ Capacity \in Nat \ {0}
      /\ window.roots \in Seq(Roots) /\ Len(window.roots) = window.len
      /\ window.len < Capacity => window.head = window.len
    BY CapacityAssumption DEF TypeOK, IsWindow
<1>2. IsWindow(window, Capacity, Roots) /\ IsWindow(v, Capacity, Roots)
    BY CapacityAssumption, PushIsWindow DEF TypeOK, PushRoot
<1>3. v = Push(window, root)
    BY DEF PushRoot
<1>4. /\ q \in Seq(Roots) /\ Len(q) = window.len
      /\ \A i \in 1 .. window.len : q[i] = window.roots[Slot(window, i)]
      /\ r \in Seq(Roots) /\ Len(r) = v.len
      /\ \A i \in 1 .. v.len : r[i] = v.roots[Slot(v, i)]
    BY <1>2, ContentsType
<1>. HIDE DEF v, q, r
<1>5. CASE window.len < Capacity
    <2>1. v.len = window.len + 1 /\ v.roots = Append(window.roots, root)
        BY <1>1, <1>3, <1>5 DEF Push
    <2>2. v.len = Capacity => v.head = 0
        <3>1. ASSUME v.len = Capacity PROVE v.head = 0
            <4>1. window.head + 1 = Capacity /\ v.head = (window.head + 1) % Capacity
                BY <1>1, <1>3, <1>5, <2>1, <3>1 DEF Push
            <4>. QED BY <1>1, <4>1
        <3>. QED BY <3>1
    <2>3. \A i \in 1 .. v.len : Slot(v, i) = i
        BY <1>1, <1>2, <1>5, <2>1, <2>2, SlotOfAge, SMTT(30)
    <2>4. \A i \in 1 .. window.len : Slot(window, i) = i
        BY <1>1, <1>2, <1>5, SlotOfAge
    <2>5. /\ Append(q, root) \in Seq(Roots) /\ Len(Append(q, root)) = window.len + 1
          /\ \A i \in 1 .. window.len : Append(q, root)[i] = q[i]
          /\ Append(q, root)[window.len + 1] = root
        BY <1>4, AppendProperties
    <2>6. /\ \A i \in 1 .. window.len : v.roots[i] = window.roots[i]
          /\ v.roots[window.len + 1] = root
        BY <1>1, <2>1
    <2>7. \A i \in 1 .. Len(r) : r[i] = Append(q, root)[i]
        <3>. SUFFICES ASSUME NEW i \in 1 .. Len(r) PROVE r[i] = Append(q, root)[i]
            OBVIOUS
        <3>1. r[i] = v.roots[i]
            BY <1>4, <2>3
        <3>. QED BY <1>1, <1>4, <2>1, <2>4, <2>5, <2>6, <3>1, SMTT(30)
    <2>8. r = Append(q, root)
        BY <1>4, <2>1, <2>5, <2>7, SeqEqual, ZenonT(90)
    <2>. QED BY <1>4, <1>5, <2>8 DEF Queue!Commit, q, r, v
<1>6. CASE window.len = Capacity
    <2>1. /\ v.len = Capacity
          /\ v.roots = [window.roots EXCEPT ![window.head + 1] = root]
          /\ v.head = (window.head + 1) % Capacity
        BY <1>1, <1>3, <1>6 DEF Push
    <2>2. v.head = IF window.head + 1 < Capacity THEN window.head + 1 ELSE 0
        <3>1. 1 \in 0 .. Capacity /\ window.head + 1 <= Capacity /\ window.head \in Nat
            BY <1>1
        <3>2. v.head = IF window.head + 1 < Capacity
                       THEN window.head + 1 ELSE window.head + 1 - Capacity
            BY <1>1, <2>1, <3>1, StepRound
        <3>. QED BY <1>1, <3>1, <3>2
    \* each kept root is one place older, in the slot it was in
    <2>3. ASSUME NEW i \in 1 .. Capacity - 1
          PROVE  r[i] = q[i + 1]
        <3>1. i \in 1 .. v.len /\ i + 1 \in 1 .. window.len
            BY <1>1, <1>6, <2>1
        <3>2. Slot(v, i) = IF v.head + i <= Capacity
                           THEN v.head + i ELSE v.head + i - Capacity
            <4>1. ~(v.len < Capacity) /\ i \in 1 .. v.len
                BY <1>1, <2>1, <3>1
            <4>. QED BY <1>2, <4>1, SlotOfAge
        <3>3. /\ Slot(window, i + 1) = IF window.head + (i + 1) <= Capacity
                                       THEN window.head + (i + 1)
                                       ELSE window.head + (i + 1) - Capacity
              /\ Slot(window, i + 1) \in 1 .. window.len
            BY <1>1, <1>2, <1>6, <3>1, SlotOfAge, SMTT(30)
        <3>4. Slot(v, i) = Slot(window, i + 1) /\ Slot(v, i) # window.head + 1
            BY <1>1, <2>2, <3>2, <3>3, SMTT(30)
        <3>5. v.roots[Slot(v, i)] = window.roots[Slot(window, i + 1)]
            BY <1>1, <2>1, <3>3, <3>4
        <3>. QED BY <1>4, <3>1, <3>5
    \* the new root is the youngest
    <2>4. r[Capacity] = root
        <3>1. Capacity \in 1 .. v.len /\ window.head + 1 \in DOMAIN window.roots
            BY <1>1, <1>6, <2>1
        <3>2. Slot(v, Capacity) = IF v.head + Capacity <= Capacity
                                  THEN v.head + Capacity ELSE v.head + Capacity - Capacity
            <4>1. ~(v.len < Capacity) /\ Capacity \in 1 .. v.len
                BY <1>1, <2>1, <3>1
            <4>. QED BY <1>2, <4>1, SlotOfAge
        <3>3. Slot(v, Capacity) = window.head + 1
            BY <1>1, <2>2, <3>2
        <3>. QED BY <1>4, <2>1, <3>1, <3>3
    <2>5. /\ Tail(q) \in Seq(Roots) /\ Len(Tail(q)) = Capacity - 1
          /\ \A i \in 1 .. Capacity - 1 : Tail(q)[i] = q[i + 1]
        <3>1. q # <<>>
            BY <1>1, <1>4, <1>6
        <3>. QED BY <1>4, <1>6, <3>1, HeadTailProperties
    <2>6. /\ Append(Tail(q), root) \in Seq(Roots) /\ Len(Append(Tail(q), root)) = Capacity
          /\ \A i \in 1 .. Capacity - 1 : Append(Tail(q), root)[i] = q[i + 1]
          /\ Append(Tail(q), root)[Capacity] = root
        BY <1>1, <2>5, AppendProperties
    <2>7. \A i \in 1 .. Len(r) : r[i] = Append(Tail(q), root)[i]
        BY <1>1, <1>4, <2>1, <2>3, <2>4, <2>6
    <2>8. r = Append(Tail(q), root)
        BY <1>4, <2>1, <2>6, <2>7, SeqEqual
    <2>. QED BY <1>1, <1>4, <1>6, <2>8 DEF Queue!Commit, q, r, v
<1>. QED BY <1>1, <1>5, <1>6

(* The contract's window of recent roots implements the queue of the last  *)
(* Capacity roots (roots.rs, push). *)
THEOREM WindowImplementsQueue == Spec => ImplementsQueue
<1>1. Init => Queue!QueueInit
    BY CapacityAssumption DEF Init, NewWindow, Queue!QueueInit, Contents
<1>2. TypeOK /\ [Next]_window => [Queue!QueueNext]_(Contents(window))
    BY PushImplementsCommit DEF Next, Queue!QueueNext
<1>. QED BY <1>1, <1>2, TypeCorrect, PTL DEF Spec, ImplementsQueue, Queue!QueueSpec
==============================================================================

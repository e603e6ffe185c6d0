---------------------------- MODULE OperatorProofs ----------------------------
(***************************************************************************)
(* Facts about the operators several models are built from: the ring       *)
(* buffer of recent roots (contract/src/roots.rs), for every capacity,     *)
(* root and state of the buffer; the sums of the community modules, by     *)
(* which money is counted; and a wallet's scan of a log                    *)
(* (core/src/scanner.ts), for every log.                                   *)
(***************************************************************************)
EXTENDS RootsWindow, Wallet, FiniteSetTheorems, WellFoundedInduction, TLAPS

------------------------------------------------------------------------------
(* The window of roots. *)

(* A position one lap ahead at most: all the arithmetic the ring needs. *)
LEMMA StepRound ==
    ASSUME NEW c \in Nat \ {0}, NEW h \in 0 .. c - 1, NEW k \in 0 .. c
    PROVE  (h + k) % c = IF h + k < c THEN h + k ELSE h + k - c
<1>1. CASE h + k < c
    BY <1>1
<1>2. CASE ~(h + k < c)
    <2>1. h + k - c \in 0 .. c - 1
        BY <1>2
    <2>2. (h + k - c) % c = h + k - c
        BY <2>1
    <2>3. (h + k) % c = (h + k - c) % c
        OBVIOUS
    <2>. QED BY <1>2, <2>2, <2>3
<1>. QED BY <1>1, <1>2

(* RootsWindow::new makes a window. *)
LEMMA NewWindowIsWindow ==
    ASSUME NEW c \in Nat \ {0}, NEW Roots
    PROVE  IsWindow(NewWindow(c), c, Roots)
BY DEF IsWindow, NewWindow

(* RootsWindow::push keeps the shape of a window, full or not. *)
LEMMA PushIsWindow ==
    ASSUME NEW c \in Nat \ {0}, NEW Roots, NEW w, IsWindow(w, c, Roots), NEW root \in Roots
    PROVE  IsWindow(Push(w, root), c, Roots)
<1>. USE DEF IsWindow, Push
<1>1. w.capacity = c /\ w.head \in 0 .. c - 1 /\ w.len \in 0 .. c /\ w.roots \in Seq(Roots)
    OBVIOUS
<1>2. (w.head + 1) % c = IF w.head + 1 < c THEN w.head + 1 ELSE w.head + 1 - c
    <2>1. 1 \in 0 .. c /\ w.head \in 0 .. c - 1
        BY <1>1
    <2>. QED BY <2>1, StepRound
<1>3. CASE w.len < c
    BY <1>1, <1>2, <1>3
<1>4. CASE ~(w.len < c)
    <2>1. w.head + 1 \in DOMAIN w.roots
        BY <1>1, <1>4
    <2>2. [w.roots EXCEPT ![w.head + 1] = root] \in Seq(Roots)
        BY <1>1, <2>1
    <2>3. Len([w.roots EXCEPT ![w.head + 1] = root]) = w.len
        BY <1>1, <2>1
    <2>. QED BY <1>1, <1>2, <1>4, <2>2, <2>3
<1>. QED BY <1>3, <1>4

(* What was pushed is accepted at once. *)
LEMMA PushContains ==
    ASSUME NEW c \in Nat \ {0}, NEW Roots, NEW w, IsWindow(w, c, Roots), NEW root \in Roots
    PROVE  Contains(Push(w, root), root)
<1>. USE DEF IsWindow, Push, Contains
<1>1. w.capacity = c /\ w.head \in 0 .. c - 1 /\ w.len \in 0 .. c /\ w.roots \in Seq(Roots)
    OBVIOUS
<1>2. CASE w.len < c
    <2>1. /\ Len(w.roots) + 1 \in DOMAIN Append(w.roots, root)
          /\ Append(w.roots, root)[Len(w.roots) + 1] = root
        BY <1>1
    <2>. QED BY <1>1, <1>2, <2>1
<1>3. CASE ~(w.len < c)
    <2>1. w.head + 1 \in DOMAIN w.roots
        BY <1>1, <1>3
    <2>. QED BY <1>1, <1>3, <2>1
<1>. QED BY <1>2, <1>3

(* What is accepted after a push was accepted before it or was pushed. *)
LEMMA PushAddsOnly ==
    ASSUME NEW c \in Nat \ {0}, NEW Roots, NEW w, IsWindow(w, c, Roots), NEW root \in Roots,
           NEW other, Contains(Push(w, root), other)
    PROVE  other = root \/ Contains(w, other)
<1>. USE DEF IsWindow, Push, Contains
<1>1. w.capacity = c /\ w.head \in 0 .. c - 1 /\ w.len \in 0 .. c /\ w.roots \in Seq(Roots)
    OBVIOUS
<1>2. PICK i \in DOMAIN Push(w, root).roots : Push(w, root).roots[i] = other
    OBVIOUS
<1>3. CASE w.len < c
    BY <1>1, <1>2, <1>3
<1>4. CASE ~(w.len < c)
    BY <1>1, <1>2, <1>4
<1>. QED BY <1>3, <1>4

------------------------------------------------------------------------------
(* Sums: they do not depend on the order in which the elements are taken,  *)
(* and move by what one element moves. *)

(* Induction, with the property given as the set of what has it. *)

LEMMA SubsetInduction ==
    ASSUME NEW S, IsFiniteSet(S), NEW Good \in SUBSET (SUBSET S),
           \A T \in SUBSET S : (\A x \in T : T \ {x} \in Good) => T \in Good
    PROVE  Good = SUBSET S
<1>. DEFINE Bad == (SUBSET S) \ Good
<1>1. IsWellFoundedOn(StrictSubsetOrdering(S), SUBSET S)
    BY FS_StrictSubsetOrderingWellFounded, FS_FiniteSubsetsOfFinite
<1>2. ASSUME Bad # {} PROVE FALSE
    <2>1. PICK T \in Bad : \A U \in Bad : <<U, T>> \notin StrictSubsetOrdering(S)
        <3>1. Bad \subseteq SUBSET S
            OBVIOUS
        <3>. HIDE DEF Bad
        <3>. QED BY <1>1, <1>2, <3>1, WFMin
    <2>2. ASSUME NEW x \in T PROVE T \ {x} \in Good
        <3>1. <<T \ {x}, T>> \in StrictSubsetOrdering(S)
            BY <2>1, <2>2 DEF StrictSubsetOrdering
        <3>. QED BY <2>1, <3>1
    <2>. QED BY <2>1, <2>2
<1>. QED BY <1>2

LEMMA NatSetInduction ==
    ASSUME NEW Good \in SUBSET Nat, 0 \in Good, \A n \in Good : n + 1 \in Good
    PROVE  Good = Nat
<1>. DEFINE Bad == Nat \ Good
<1>1. ASSUME Bad # {} PROVE FALSE
    <2>1. PICK n \in Bad : \A m \in Bad : <<m, n>> \notin OpToRel(<, Nat)
        BY <1>1, NatLessThanWellFounded, WFMin
    <2>2. n - 1 \in Nat /\ n - 1 < n
        OBVIOUS
    <2>3. <<n - 1, n>> \in OpToRel(<, Nat)
        BY <2>2 DEF OpToRel
    <2>4. n - 1 \notin Bad
        BY <2>1, <2>3
    <2>5. n - 1 \in Good
        BY <2>2, <2>4
    <2>. QED BY <2>2, <2>5
<1>. QED BY <1>1

------------------------------------------------------------------------------
(* The iteration behind the sum. *)

First(s) == CHOOSE x \in s : TRUE

(* g adds up f over every subset of D, first element first. *)
Adds(f, D, g) ==
    g = [s \in SUBSET D |-> IF s = {} THEN 0 ELSE f[First(s)] + g[s \ {First(s)}]]

LEMMA SumIsIteration ==
    ASSUME NEW f, NEW D
    PROVE  SumFunctionOnSet(f, D) = (CHOOSE g : Adds(f, D, g))[D]
BY DEF SumFunctionOnSet, FoldFunctionOnSet, MapThenFoldSet, Adds, First

(* There is such a g: it is built for the subsets of at most n elements,   *)
(* then for those of n + 1. *)
LEMMA IterationExists ==
    ASSUME NEW f, NEW D, IsFiniteSet(D), \A x \in D : f[x] \in Int
    PROVE  \E g \in [SUBSET D -> Int] : Adds(f, D, g)
<1>. DEFINE Small(n) == {s \in SUBSET D : Cardinality(s) <= n}
            Val(g, s) == IF s = {} THEN 0 ELSE f[First(s)] + g[s \ {First(s)}]
            Good == {n \in Nat : \E g \in [Small(n) -> Int] : \A s \in Small(n) : g[s] = Val(g, s)}
<1>1. \A s \in SUBSET D : IsFiniteSet(s) /\ Cardinality(s) \in Nat
    BY FS_Subset, FS_CardinalityType
<1>2. 0 \in Good
    <2>1. \A s \in Small(0) : s = {}
        BY <1>1, FS_EmptySet
    <2>. DEFINE g == [s \in Small(0) |-> 0]
    <2>2. g \in [Small(0) -> Int] /\ \A s \in Small(0) : g[s] = Val(g, s)
        BY <2>1
    <2>. QED BY <2>2
<1>3. ASSUME NEW n \in Good PROVE n + 1 \in Good
    <2>1. PICK g \in [Small(n) -> Int] : \A s \in Small(n) : g[s] = Val(g, s)
        BY <1>3
    <2>. DEFINE h == [s \in Small(n + 1) |-> Val(g, s)]
    <2>2. ASSUME NEW s \in Small(n + 1), s # {}
          PROVE  First(s) \in s /\ s \ {First(s)} \in Small(n)
        <3>1. First(s) \in s
            BY <2>2 DEF First
        <3>2. Cardinality(s \ {First(s)}) = Cardinality(s) - 1
            BY <1>1, <3>1, FS_RemoveElement
        <3>. QED BY <1>1, <3>1, <3>2
    <2>3. ASSUME NEW s \in Small(n + 1) PROVE Val(g, s) \in Int
        BY <2>1, <2>2
    <2>4. h \in [Small(n + 1) -> Int]
        BY <2>3
    <2>5. ASSUME NEW s \in Small(n) PROVE s \in Small(n + 1) /\ h[s] = g[s]
        BY <1>1, <2>1
    <2>6. ASSUME NEW s \in Small(n + 1) PROVE h[s] = Val(h, s)
        <3>1. CASE s = {}
            BY <3>1
        <3>2. CASE s # {}
            <4>1. s \ {First(s)} \in Small(n)
                BY <2>2, <3>2
            <4>2. h[s \ {First(s)}] = g[s \ {First(s)}]
                BY <2>5, <4>1
            <4>. QED BY <3>2, <4>2
        <3>. QED BY <3>1, <3>2
    <2>7. n + 1 \in Nat
        OBVIOUS
    <2>. HIDE DEF h, Val, Small
    <2>. QED BY <2>4, <2>6, <2>7
<1>4. Good = Nat
    <2>. HIDE DEF Good
    <2>1. Good \in SUBSET Nat
        BY DEF Good
    <2>. QED BY <1>2, <1>3, <2>1, NatSetInduction
<1>5. Cardinality(D) \in Good
    BY <1>1, <1>4
<1>6. PICK g \in [Small(Cardinality(D)) -> Int] :
        \A s \in Small(Cardinality(D)) : g[s] = Val(g, s)
    BY <1>5
<1>7. Small(Cardinality(D)) = SUBSET D
    BY FS_Subset, FS_CardinalityType
<1>8. g \in [SUBSET D -> Int] /\ \A s \in SUBSET D : g[s] = Val(g, s)
    BY <1>6, <1>7
<1>. QED BY <1>8 DEF Adds

(* It says the same of a set whatever larger set it is built for, and      *)
(* looks at f on that set only. *)
LEMMA IterationUnique ==
    ASSUME NEW f, NEW D, NEW g, Adds(f, D, g),
           NEW h, NEW E, NEW k, Adds(h, E, k),
           NEW C, IsFiniteSet(C), C \subseteq D, C \subseteq E, \A x \in C : f[x] = h[x]
    PROVE  g[C] = k[C]
<1>. DEFINE Good == {T \in SUBSET C : g[T] = k[T]}
<1>1. ASSUME NEW T \in SUBSET C, \A x \in T : T \ {x} \in Good PROVE T \in Good
    <2>1. CASE T = {}
        <3>1. g[T] = 0 /\ k[T] = 0
            BY <2>1 DEF Adds
        <3>. QED BY <3>1
    <2>2. CASE T # {}
        <3>1. First(T) \in T
            BY <2>2 DEF First
        <3>2. g[T] = f[First(T)] + g[T \ {First(T)}] /\ k[T] = h[First(T)] + k[T \ {First(T)}]
            BY <2>2 DEF Adds
        <3>3. g[T \ {First(T)}] = k[T \ {First(T)}]
            BY <1>1, <3>1
        <3>. QED BY <3>1, <3>2, <3>3
    <2>. QED BY <2>1, <2>2
<1>2. Good = SUBSET C
    <2>1. Good \in SUBSET (SUBSET C)
        OBVIOUS
    <2>. HIDE DEF Good
    <2>. QED BY <1>1, <2>1, SubsetInduction
<1>. QED BY <1>2

(* Any element may go first. *)
AnyFirst(f, D, g) == \A T \in SUBSET D : \A x \in T : g[T] = f[x] + g[T \ {x}]

LEMMA IterationAnyFirst ==
    ASSUME NEW f, NEW D, IsFiniteSet(D), \A x \in D : f[x] \in Int,
           NEW g, Adds(f, D, g), \A s \in SUBSET D : g[s] \in Int
    PROVE  AnyFirst(f, D, g)
<1>. DEFINE Good == {T \in SUBSET D : \A x \in T : g[T] = f[x] + g[T \ {x}]}
<1>1. ASSUME NEW T \in SUBSET D, \A x \in T : T \ {x} \in Good PROVE T \in Good
    <2>1. SUFFICES ASSUME NEW x \in T PROVE g[T] = f[x] + g[T \ {x}]
        OBVIOUS
    <2>. DEFINE c == First(T)
    <2>2. c \in T /\ g[T] = f[c] + g[T \ {c}]
        <3>1. c \in T
            BY DEF First
        <3>. QED BY <3>1 DEF Adds
    <2>3. CASE x = c
        BY <2>2, <2>3
    <2>4. CASE x # c
        <3>1. g[T \ {c}] = f[x] + g[(T \ {c}) \ {x}]
            BY <1>1, <2>2, <2>4
        <3>2. g[T \ {x}] = f[c] + g[(T \ {x}) \ {c}]
            BY <1>1, <2>2, <2>4
        <3>3. (T \ {c}) \ {x} = (T \ {x}) \ {c}
            OBVIOUS
        <3>4. f[x] \in Int /\ f[c] \in Int /\ g[(T \ {x}) \ {c}] \in Int
            BY <2>2
        <3>. HIDE DEF c
        <3>5. g[T] = f[c] + (f[x] + g[(T \ {x}) \ {c}])
            BY <2>2, <3>1, <3>3
        <3>6. f[x] + g[T \ {x}] = f[x] + (f[c] + g[(T \ {x}) \ {c}])
            BY <3>2
        <3>. QED BY <3>4, <3>5, <3>6
    <2>. QED BY <2>3, <2>4
<1>2. Good = SUBSET D
    <2>1. Good \in SUBSET (SUBSET D)
        OBVIOUS
    <2>. HIDE DEF Good
    <2>. QED BY <1>1, <2>1, SubsetInduction
<1>. QED BY <1>2 DEF AnyFirst

------------------------------------------------------------------------------
(* Sums. *)

LEMMA SumWitness ==
    ASSUME NEW f, NEW D, IsFiniteSet(D), \A x \in D : f[x] \in Int
    PROVE  \E g \in [SUBSET D -> Int] : Adds(f, D, g) /\ SumFunctionOnSet(f, D) = g[D]
<1>1. PICK g \in [SUBSET D -> Int] : Adds(f, D, g)
    BY IterationExists
<1>. DEFINE h == CHOOSE h : Adds(f, D, h)
<1>2. Adds(f, D, h)
    BY <1>1
<1>3. SumFunctionOnSet(f, D) = h[D]
    BY SumIsIteration
<1>. HIDE DEF h
<1>4. h[D] = g[D]
    BY <1>1, <1>2, IterationUnique
<1>. QED BY <1>1, <1>3, <1>4

LEMMA SumType ==
    ASSUME NEW f, NEW D, IsFiniteSet(D), \A x \in D : f[x] \in Int
    PROVE  SumFunctionOnSet(f, D) \in Int
<1>1. PICK g \in [SUBSET D -> Int] : SumFunctionOnSet(f, D) = g[D]
    BY SumWitness
<1>. QED BY <1>1

LEMMA SumEmpty ==
    ASSUME NEW f PROVE SumFunctionOnSet(f, {}) = 0
<1>1. PICK g \in [SUBSET {} -> Int] : Adds(f, {}, g) /\ SumFunctionOnSet(f, {}) = g[{}]
    BY SumWitness, FS_EmptySet
<1>. QED BY <1>1 DEF Adds

LEMMA SumAgree ==
    ASSUME NEW f, NEW h, NEW D, IsFiniteSet(D),
           \A x \in D : f[x] \in Int /\ h[x] = f[x]
    PROVE  SumFunctionOnSet(h, D) = SumFunctionOnSet(f, D)
<1>1. PICK g \in [SUBSET D -> Int] : Adds(f, D, g) /\ SumFunctionOnSet(f, D) = g[D]
    BY SumWitness
<1>2. PICK k \in [SUBSET D -> Int] : Adds(h, D, k) /\ SumFunctionOnSet(h, D) = k[D]
    BY SumWitness
<1>3. g[D] = k[D]
    BY <1>1, <1>2, IterationUnique
<1>. QED BY <1>1, <1>2, <1>3

(* Taking an element out takes its value out. *)
LEMMA SumRemove ==
    ASSUME NEW f, NEW D, IsFiniteSet(D), \A x \in D : f[x] \in Int, NEW x \in D
    PROVE  SumFunctionOnSet(f, D) = f[x] + SumFunctionOnSet(f, D \ {x})
<1>1. PICK g \in [SUBSET D -> Int] : Adds(f, D, g) /\ SumFunctionOnSet(f, D) = g[D]
    BY SumWitness
<1>2. IsFiniteSet(D \ {x})
    BY FS_RemoveElement
<1>3. PICK k \in [SUBSET (D \ {x}) -> Int] :
        Adds(f, D \ {x}, k) /\ SumFunctionOnSet(f, D \ {x}) = k[D \ {x}]
    BY <1>2, SumWitness
<1>4. g[D \ {x}] = k[D \ {x}]
    BY <1>1, <1>2, <1>3, IterationUnique
<1>5. g[D] = f[x] + g[D \ {x}]
    <2>1. Adds(f, D, g) /\ \A s \in SUBSET D : g[s] \in Int
        BY <1>1
    <2>2. AnyFirst(f, D, g)
        BY <2>1, IterationAnyFirst
    <2>. QED BY <2>2 DEF AnyFirst
<1>. QED BY <1>1, <1>3, <1>4, <1>5

(* Putting an element in puts its value in. *)
LEMMA SumAdd ==
    ASSUME NEW f, NEW D, IsFiniteSet(D), NEW x, x \notin D, \A y \in D \cup {x} : f[y] \in Int
    PROVE  SumFunctionOnSet(f, D \cup {x}) = f[x] + SumFunctionOnSet(f, D)
<1>1. IsFiniteSet(D \cup {x}) /\ x \in D \cup {x} /\ (D \cup {x}) \ {x} = D
    BY FS_AddElement
<1>. QED BY <1>1, SumRemove

(* Functions that differ in one element only have sums that differ by it.  *)
LEMMA SumChange ==
    ASSUME NEW f, NEW h, NEW D, IsFiniteSet(D), NEW x \in D,
           \A y \in D : f[y] \in Int /\ h[y] \in Int,
           \A y \in D \ {x} : h[y] = f[y]
    PROVE  SumFunctionOnSet(h, D) = SumFunctionOnSet(f, D) + h[x] - f[x]
<1>1. IsFiniteSet(D \ {x})
    BY FS_RemoveElement
<1>2. SumFunctionOnSet(h, D \ {x}) = SumFunctionOnSet(f, D \ {x})
    BY <1>1, SumAgree
<1>3. SumFunctionOnSet(f, D) = f[x] + SumFunctionOnSet(f, D \ {x})
    BY SumRemove
<1>4. SumFunctionOnSet(h, D) = h[x] + SumFunctionOnSet(h, D \ {x})
    BY SumRemove
<1>5. f[x] \in Int /\ h[x] \in Int /\ SumFunctionOnSet(f, D \ {x}) \in Int
    BY <1>1, SumType
<1>. QED BY <1>2, <1>3, <1>4, <1>5

(* A sum of naturals is at least each of them. *)
LEMMA SumNat ==
    ASSUME NEW f, NEW D, IsFiniteSet(D), \A x \in D : f[x] \in Nat
    PROVE  /\ SumFunctionOnSet(f, D) \in Nat
           /\ \A x \in D : f[x] <= SumFunctionOnSet(f, D)
<1>. DEFINE Good == {T \in SUBSET D : SumFunctionOnSet(f, T) \in Nat}
<1>1. ASSUME NEW T \in SUBSET D, \A x \in T : T \ {x} \in Good PROVE T \in Good
    <2>1. CASE T = {}
        BY <2>1, SumEmpty
    <2>2. CASE T # {}
        <3>1. PICK x \in T : TRUE
            BY <2>2
        <3>2. SumFunctionOnSet(f, T) = f[x] + SumFunctionOnSet(f, T \ {x})
            <4>1. IsFiniteSet(T)
                BY FS_Subset
            <4>. QED BY <4>1, SumRemove
        <3>3. SumFunctionOnSet(f, T \ {x}) \in Nat
            BY <1>1, <3>1
        <3>. QED BY <3>2, <3>3
    <2>. QED BY <2>1, <2>2
<1>2. Good = SUBSET D
    <2>1. Good \in SUBSET (SUBSET D)
        OBVIOUS
    <2>. HIDE DEF Good
    <2>. QED BY <1>1, <2>1, SubsetInduction
<1>3. ASSUME NEW x \in D PROVE f[x] <= SumFunctionOnSet(f, D)
    <2>1. SumFunctionOnSet(f, D) = f[x] + SumFunctionOnSet(f, D \ {x})
        BY SumRemove
    <2>2. SumFunctionOnSet(f, D \ {x}) \in Nat
        BY <1>2
    <2>. QED BY <2>1, <2>2
<1>4. SumFunctionOnSet(f, D) \in Nat
    BY <1>2
<1>. QED BY <1>3, <1>4

(* A sum of zeros is zero. *)
LEMMA SumZero ==
    ASSUME NEW f, NEW D, IsFiniteSet(D), \A x \in D : f[x] = 0
    PROVE  SumFunctionOnSet(f, D) = 0
<1>. DEFINE Good == {T \in SUBSET D : SumFunctionOnSet(f, T) = 0}
<1>1. ASSUME NEW T \in SUBSET D, \A x \in T : T \ {x} \in Good PROVE T \in Good
    <2>1. CASE T = {}
        BY <2>1, SumEmpty
    <2>2. CASE T # {}
        <3>1. PICK x \in T : TRUE
            BY <2>2
        <3>2. IsFiniteSet(T)
            BY FS_Subset
        <3>3. SumFunctionOnSet(f, T) = f[x] + SumFunctionOnSet(f, T \ {x})
            BY <3>2, SumRemove
        <3>4. SumFunctionOnSet(f, T \ {x}) = 0 /\ f[x] = 0
            BY <1>1, <3>1
        <3>. QED BY <3>3, <3>4
    <2>. QED BY <2>1, <2>2
<1>2. Good = SUBSET D
    <2>1. Good \in SUBSET (SUBSET D)
        OBVIOUS
    <2>. HIDE DEF Good
    <2>. QED BY <1>1, <2>1, SubsetInduction
<1>. QED BY <1>2

(* A sum over two sets apart is the sum of the two. *)
LEMMA SumUnion ==
    ASSUME NEW f, NEW D, NEW E, IsFiniteSet(D), IsFiniteSet(E), D \cap E = {},
           \A x \in D \cup E : f[x] \in Int
    PROVE  SumFunctionOnSet(f, D \cup E) = SumFunctionOnSet(f, D) + SumFunctionOnSet(f, E)
<1>. DEFINE Good == {T \in SUBSET E :
                        SumFunctionOnSet(f, D \cup T) = SumFunctionOnSet(f, D) + SumFunctionOnSet(f, T)}
<1>0. SumFunctionOnSet(f, D) \in Int
    BY SumType
<1>1. ASSUME NEW T \in SUBSET E, \A x \in T : T \ {x} \in Good PROVE T \in Good
    <2>1. CASE T = {}
        BY <1>0, <2>1, SumEmpty
    <2>2. CASE T # {}
        <3>1. PICK x \in T : TRUE
            BY <2>2
        <3>. DEFINE rest == T \ {x}
        <3>2. IsFiniteSet(rest) /\ IsFiniteSet(D \cup rest)
            BY FS_Subset, FS_Union
        <3>3. x \notin rest /\ x \notin D \cup rest /\ T = rest \cup {x} /\ D \cup T = (D \cup rest) \cup {x}
            BY <3>1
        <3>4. \A y \in (D \cup rest) \cup {x} : f[y] \in Int
            OBVIOUS
        <3>5. SumFunctionOnSet(f, D \cup rest) = SumFunctionOnSet(f, D) + SumFunctionOnSet(f, rest)
            BY <1>1, <3>1
        <3>. HIDE DEF rest
        <3>6. SumFunctionOnSet(f, T) = f[x] + SumFunctionOnSet(f, rest)
            BY <3>2, <3>3, <3>4, SumAdd
        <3>7. SumFunctionOnSet(f, D \cup T) = f[x] + SumFunctionOnSet(f, D \cup rest)
            BY <3>2, <3>3, <3>4, SumAdd
        <3>8. SumFunctionOnSet(f, rest) \in Int /\ f[x] \in Int
            BY <3>2, <3>4, SumType
        <3>. QED BY <1>0, <3>5, <3>6, <3>7, <3>8
    <2>. QED BY <2>1, <2>2
<1>2. Good = SUBSET E
    <2>1. Good \in SUBSET (SUBSET E)
        OBVIOUS
    <2>. HIDE DEF Good
    <2>. QED BY <1>1, <2>1, SubsetInduction
<1>. QED BY <1>2

(* A sum is the same under other names of its elements. *)
LEMMA SumRenamed ==
    ASSUME NEW f, NEW D, IsFiniteSet(D), NEW h, NEW E, IsFiniteSet(E), NEW p,
           E = {p[x] : x \in D}, \A x, y \in D : p[x] = p[y] => x = y,
           \A x \in D : f[x] \in Int /\ h[p[x]] = f[x]
    PROVE  SumFunctionOnSet(f, D) = SumFunctionOnSet(h, E)
<1>. DEFINE Of(T) == {p[x] : x \in T}
            Good == {T \in SUBSET D : SumFunctionOnSet(f, T) = SumFunctionOnSet(h, Of(T))}
<1>1. ASSUME NEW T \in SUBSET D, \A x \in T : T \ {x} \in Good PROVE T \in Good
    <2>1. CASE T = {}
        <3>1. Of({}) = {}
            OBVIOUS
        <3>. QED BY <2>1, <3>1, SumEmpty
    <2>2. CASE T # {}
        <3>1. PICK x \in T : TRUE
            BY <2>2
        <3>2. IsFiniteSet(T) /\ IsFiniteSet(Of(T))
            <4>1. Of(T) \subseteq E
                OBVIOUS
            <4>. HIDE DEF Of
            <4>. QED BY <4>1, FS_Subset
        <3>3. Of(T) \ {p[x]} = Of(T \ {x}) /\ p[x] \in Of(T)
            BY <3>1
        <3>4. \A y \in Of(T) : h[y] \in Int
            OBVIOUS
        <3>5. SumFunctionOnSet(f, T \ {x}) = SumFunctionOnSet(h, Of(T \ {x}))
            BY <1>1, <3>1
        <3>. HIDE DEF Of
        <3>6. SumFunctionOnSet(f, T) = f[x] + SumFunctionOnSet(f, T \ {x})
            BY <3>2, SumRemove
        <3>7. SumFunctionOnSet(h, Of(T)) = h[p[x]] + SumFunctionOnSet(h, Of(T) \ {p[x]})
            BY <3>2, <3>3, <3>4, SumRemove
        <3>. QED BY <3>1, <3>3, <3>5, <3>6, <3>7
    <2>. QED BY <2>1, <2>2
<1>2. Good = SUBSET D
    <2>1. Good \in SUBSET (SUBSET D)
        OBVIOUS
    <2>. HIDE DEF Good
    <2>. QED BY <1>1, <2>1, SubsetInduction
<1>3. D \in Good
    <2>. HIDE DEF Good
    <2>. QED BY <1>2
<1>. QED BY <1>3

(* One element, and two. *)
LEMMA SumOne ==
    ASSUME NEW f, NEW x, f[x] \in Int
    PROVE  SumFunctionOnSet(f, {x}) = f[x]
<1>1. IsFiniteSet({}) /\ {} \cup {x} = {x}
    BY FS_EmptySet
<1>2. SumFunctionOnSet(f, {} \cup {x}) = f[x] + SumFunctionOnSet(f, {})
    BY <1>1, SumAdd
<1>. QED BY <1>1, <1>2, SumEmpty

LEMMA SumTwo ==
    ASSUME NEW f, NEW x, NEW y, x # y, f[x] \in Int, f[y] \in Int
    PROVE  SumFunctionOnSet(f, {x, y}) = f[x] + f[y]
<1>1. IsFiniteSet({x}) /\ {x} \cup {y} = {x, y} /\ y \notin {x}
    BY FS_EmptySet, FS_AddElement
<1>2. SumFunctionOnSet(f, {x} \cup {y}) = f[y] + SumFunctionOnSet(f, {x})
    BY <1>1, SumAdd
<1>3. SumFunctionOnSet(f, {x}) = f[x]
    BY SumOne
<1>. QED BY <1>1, <1>2, <1>3

------------------------------------------------------------------------------
(* Scans. *)

Opens(user, ct) == ct.sealed.holder = user

Discovery(ct) == [leafIndex |-> ct.leafIndex, note |-> ct.sealed.payload]

Scanned(out, user, ct) == IF ~ Opens(user, ct) THEN out ELSE Append(out, Discovery(ct))

AreScans(f, user, cts, n) ==
    f = [k \in 0 .. n |-> IF k = 0 THEN <<>> ELSE Scanned(f[k - 1], user, cts[k])]

LEMMA AreScansExist ==
    ASSUME NEW user, NEW cts
    PROVE  \A m \in Nat : \E f : AreScans(f, user, cts, m)
<1>. DEFINE Good == {n \in Nat : \E f : AreScans(f, user, cts, n)}
<1>1. 0 \in Good
    <2>. DEFINE f == [k \in 0 .. 0 |-> <<>>]
    <2>1. AreScans(f, user, cts, 0)
        BY DEF AreScans
    <2>. QED BY <2>1
<1>2. ASSUME NEW n \in Good PROVE n + 1 \in Good
    <2>1. PICK f : AreScans(f, user, cts, n)
        OBVIOUS
    <2>. DEFINE g == [k \in 0 .. n + 1 |-> IF k = 0 THEN <<>> ELSE Scanned(f[k - 1], user, cts[k])]
    <2>2. \A k \in 0 .. n : g[k] = f[k]
        BY <2>1 DEF AreScans
    <2>3. \A k \in 0 .. n + 1 : g[k] = IF k = 0 THEN <<>> ELSE Scanned(g[k - 1], user, cts[k])
        <3>1. \A k \in 0 .. n + 1 : k = 0 \/ k - 1 \in 0 .. n
            OBVIOUS
        <3>. QED BY <2>2, <3>1
    <2>4. g = [k \in 0 .. n + 1 |-> g[k]]
        OBVIOUS
    <2>. HIDE DEF g
    <2>5. AreScans(g, user, cts, n + 1)
        BY <2>3, <2>4 DEF AreScans
    <2>. QED BY <2>5
<1>3. Good = Nat
    <2>1. Good \in SUBSET Nat
        OBVIOUS
    <2>. HIDE DEF Good
    <2>. QED BY <1>1, <1>2, <2>1, NatSetInduction
<1>. QED BY <1>3

LEMMA ScanStep ==
    ASSUME NEW user, NEW cts, Len(cts) \in Nat
    PROVE  \E f : /\ ScanNotes(user, cts) = f[Len(cts)] /\ f[0] = <<>>
                  /\ \A k \in 1 .. Len(cts) : f[k] = Scanned(f[k - 1], user, cts[k])
<1>. DEFINE f == CHOOSE f : AreScans(f, user, cts, Len(cts))
<1>1. ScanNotes(user, cts) = f[Len(cts)]
    BY DEF ScanNotes, AreScans, Scanned, Opens, Discovery
<1>2. AreScans(f, user, cts, Len(cts))
    BY AreScansExist
<1>. HIDE DEF f
<1>3. 0 \in 0 .. Len(cts) /\ \A k \in 1 .. Len(cts) : k \in 0 .. Len(cts) /\ k # 0
    OBVIOUS
<1>4. f[0] = <<>> /\ \A k \in 1 .. Len(cts) : f[k] = Scanned(f[k - 1], user, cts[k])
    BY <1>2, <1>3 DEF AreScans
<1>. QED BY <1>1, <1>4

(* What found is of the first n ciphertexts: the discoveries of those that *)
(* open, each of them, and in their order. *)
FoundAmong(found, user, cts, n) ==
    /\ found \in Seq({Discovery(cts[k]) : k \in {k \in 1 .. n : Opens(user, cts[k])}})
    /\ \A k \in 1 .. n : Opens(user, cts[k]) => \E j \in DOMAIN found : found[j] = Discovery(cts[k])
    /\ \A i, j \in DOMAIN found : i < j =>
          \E k, l \in 1 .. n : k < l /\ found[i] = Discovery(cts[k]) /\ found[j] = Discovery(cts[l])

(* Whatever the log, a scan finds the ciphertexts that open, each as often *)
(* as it is there, with its own leaf index, and in order (scanner.ts,      *)
(* scanNotes). *)
THEOREM ScanFindsWhatOpens ==
    ASSUME NEW user, NEW cts, Len(cts) \in Nat
    PROVE  FoundAmong(ScanNotes(user, cts), user, cts, Len(cts))
<1>1. PICK f : /\ ScanNotes(user, cts) = f[Len(cts)] /\ f[0] = <<>>
               /\ \A k \in 1 .. Len(cts) : f[k] = Scanned(f[k - 1], user, cts[k])
    BY ScanStep
<1>. DEFINE Good == {n \in Nat : n <= Len(cts) => FoundAmong(f[n], user, cts, n)}
<1>2. 0 \in Good
    <2>1. \A S : <<>> \in Seq(S)
        OBVIOUS
    <2>2. DOMAIN <<>> = {} /\ 1 .. 0 = {}
        OBVIOUS
    <2>3. FoundAmong(<<>>, user, cts, 0)
        BY <2>1, <2>2 DEF FoundAmong
    <2>. QED BY <1>1, <2>3
<1>3. ASSUME NEW n \in Good PROVE n + 1 \in Good
    <2>. SUFFICES ASSUME n + 1 <= Len(cts) PROVE FoundAmong(f[n + 1], user, cts, n + 1)
        OBVIOUS
    <2>. DEFINE Of(m) == {Discovery(cts[k]) : k \in {k \in 1 .. m : Opens(user, cts[k])}}
                found == f[n]
                ct == cts[n + 1]
    <2>1. FoundAmong(found, user, cts, n)
        OBVIOUS
    <2>2. f[n + 1] = Scanned(found, user, ct)
        BY <1>1
    <2>3. Of(n) \subseteq Of(n + 1) /\ found \in Seq(Of(n))
        BY <2>1 DEF FoundAmong
    <2>. HIDE DEF found, ct
    <2>4. found \in Seq(Of(n + 1))
        <3>. HIDE DEF Of
        <3>. QED BY <2>3
    <2>5. CASE ~ Opens(user, ct)
        <3>1. f[n + 1] = found
            BY <2>2, <2>5 DEF Scanned
        <3>2. \A k \in 1 .. n + 1 : Opens(user, cts[k]) => k \in 1 .. n
            BY <2>5 DEF ct
        <3>3. \A k \in 1 .. n : k \in 1 .. n + 1
            OBVIOUS
        <3>. QED BY <2>1, <2>4, <3>1, <3>2, <3>3, SMTT(30) DEF FoundAmong
    <2>6. CASE Opens(user, ct)
        <3>. DEFINE more == f[n + 1]
        <3>1. more = Append(found, Discovery(ct)) /\ Discovery(ct) \in Of(n + 1)
            BY <2>2, <2>6 DEF Scanned, ct
        <3>. HIDE DEF more
        <3>2. /\ more \in Seq(Of(n + 1))
              /\ DOMAIN more = 1 .. Len(found) + 1 /\ DOMAIN found = 1 .. Len(found)
              /\ Len(found) \in Nat /\ more[Len(found) + 1] = Discovery(ct)
              /\ \A j \in DOMAIN found : j \in DOMAIN more /\ more[j] = found[j]
            <4>. HIDE DEF Of
            <4>. QED BY <2>4, <3>1
        <3>3. ASSUME NEW k \in 1 .. n + 1, Opens(user, cts[k])
              PROVE  \E j \in DOMAIN more : more[j] = Discovery(cts[k])
            <4>1. CASE k \in 1 .. n
                BY <2>1, <3>2, <3>3, <4>1 DEF FoundAmong
            <4>2. CASE k = n + 1
                BY <3>2, <4>2 DEF ct
            <4>. QED BY <4>1, <4>2
        <3>4. ASSUME NEW i \in DOMAIN more, NEW j \in DOMAIN more, i < j
              PROVE  \E k, l \in 1 .. n + 1 :
                        k < l /\ more[i] = Discovery(cts[k]) /\ more[j] = Discovery(cts[l])
            <4>1. i \in DOMAIN found
                BY <3>2, <3>4
            <4>2. CASE j \in DOMAIN found
                <5>1. PICK k, l \in 1 .. n :
                        k < l /\ found[i] = Discovery(cts[k]) /\ found[j] = Discovery(cts[l])
                    BY <2>1, <3>4, <4>1, <4>2 DEF FoundAmong
                <5>. QED BY <3>2, <4>1, <4>2, <5>1
            <4>3. CASE j = Len(found) + 1
                <5>1. found[i] \in Of(n)
                    <6>. HIDE DEF Of
                    <6>. QED BY <2>3, <4>1
                <5>2. PICK k \in 1 .. n : found[i] = Discovery(cts[k])
                    BY <5>1
                <5>3. k \in 1 .. n + 1 /\ n + 1 \in 1 .. n + 1 /\ k < n + 1
                    OBVIOUS
                <5>. QED BY <3>2, <4>1, <4>3, <5>2, <5>3 DEF ct
            <4>4. j \in DOMAIN found \/ j = Len(found) + 1
                BY <3>2
            <4>. QED BY <4>2, <4>3, <4>4
        <3>. QED BY <3>2, <3>3, <3>4 DEF FoundAmong, more
    <2>. QED BY <2>5, <2>6
<1>4. Good = Nat
    <2>1. Good \in SUBSET Nat
        OBVIOUS
    <2>. HIDE DEF Good
    <2>. QED BY <1>2, <1>3, <2>1, NatSetInduction
<1>5. Len(cts) \in Good
    <2>. HIDE DEF Good
    <2>. QED BY <1>4
<1>. QED BY <1>1, <1>5
(* What a scan and a mark do to a wallet. *)
WalletsOf(T, S) == [notes : Seq(T), spent : SUBSET S]

OpensInto(user, cts, T) ==
    \A k \in 1 .. Len(cts) : Opens(user, cts[k]) => Discovery(cts[k]) \in T

LEMMA ScanKeepsWallet ==
    ASSUME NEW T, NEW S, NEW w \in WalletsOf(T, S), NEW user,
           NEW cts, Len(cts) \in Nat, OpensInto(user, cts, T)
    PROVE  /\ Scan(w, user, cts) \in WalletsOf(T, S)
           /\ Scan(w, user, cts).spent = w.spent
           /\ Scan(w, user, cts).notes = w.notes \o ScanNotes(user, cts)
           /\ ScanNotes(user, cts) \in Seq(T)
<1>. DEFINE found == ScanNotes(user, cts)
            Of == {Discovery(cts[k]) : k \in {k \in 1 .. Len(cts) : Opens(user, cts[k])}}
<1>1. found \in Seq(Of)
    BY ScanFindsWhatOpens DEF FoundAmong
<1>2. Of \subseteq T
    BY DEF OpensInto
<1>3. w \in [notes : Seq(T), spent : SUBSET S]
    BY DEF WalletsOf
<1>4. found \in Seq(T)
    <2>. HIDE DEF Of, found
    <2>. QED BY <1>1, <1>2
<1>6. Scan(w, user, cts) = [notes |-> w.notes \o found, spent |-> w.spent]
    <2>1. w = [notes |-> w.notes, spent |-> w.spent]
        BY <1>3
    <2>2. Scan(w, user, cts) = [w EXCEPT !.notes = w.notes \o found]
        BY Zenon DEF Scan
    <2>. HIDE DEF found
    <2>. QED BY <2>1, <2>2
<1>7. w.notes \o found \in Seq(T)
    <2>. HIDE DEF found
    <2>. QED BY <1>3, <1>4
<1>. HIDE DEF found
<1>8. /\ Scan(w, user, cts) \in WalletsOf(T, S)
      /\ Scan(w, user, cts).spent = w.spent
      /\ Scan(w, user, cts).notes = w.notes \o found
    BY <1>3, <1>6, <1>7 DEF WalletsOf
<1>. QED BY <1>4, <1>8 DEF found

LEMMA ScanFindsOnly ==
    ASSUME NEW user, NEW cts, Len(cts) \in Nat, NEW j \in DOMAIN ScanNotes(user, cts)
    PROVE  \E k \in 1 .. Len(cts) : Opens(user, cts[k]) /\ ScanNotes(user, cts)[j] = Discovery(cts[k])
<1>. DEFINE found == ScanNotes(user, cts)
            Of == {Discovery(cts[k]) : k \in {k \in 1 .. Len(cts) : Opens(user, cts[k])}}
<1>1. found \in Seq(Of)
    BY ScanFindsWhatOpens DEF FoundAmong
<1>2. found[j] \in Of
    <2>. HIDE DEF Of, found
    <2>1. j \in DOMAIN found
        BY DEF found
    <2>. QED BY <1>1, <2>1
<1>. QED BY <1>2

LEMMA MarkKeepsNotes ==
    ASSUME NEW T, NEW S, NEW w \in WalletsOf(T, S), NEW ls \in Seq(S)
    PROVE  /\ MarkSpent(w, ls) \in WalletsOf(T, S)
           /\ MarkSpent(w, ls).notes = w.notes
           /\ MarkSpent(w, ls).spent = w.spent \cup Range(ls)
<1>1. Range(ls) \subseteq S
    BY DEF Range
<1>2. MarkSpent(w, ls) = [notes |-> w.notes, spent |-> w.spent \cup Range(ls)]
    <2>1. w = [notes |-> w.notes, spent |-> w.spent]
        BY DEF WalletsOf
    <2>2. MarkSpent(w, ls) = [w EXCEPT !.spent = w.spent \cup Range(ls)]
        BY Zenon DEF MarkSpent
    <2>. QED BY <2>1, <2>2
<1>. QED BY <1>1, <1>2 DEF WalletsOf

------------------------------------------------------------------------------
(* The choice of inputs. *)

LEMMA LeastNat ==
    ASSUME NEW A \in SUBSET Nat, A # {}
    PROVE  \E m \in A : \A n \in A : m <= n
<1>. SUFFICES ASSUME \A m \in A : \E n \in A : n < m
              PROVE  FALSE
    OBVIOUS
<1>. DEFINE Good == {n \in Nat : \A k \in 0 .. n : k \notin A}
<1>1. 0 \in Good
    OBVIOUS
<1>2. \A n \in Good : n + 1 \in Good
    <2>. SUFFICES ASSUME NEW n \in Good PROVE \A k \in 0 .. n + 1 : k \notin A
        OBVIOUS
    <2>1. \A k \in A : k \notin 0 .. n
        OBVIOUS
    <2>2. \A k \in 0 .. n + 1 : \A j \in Nat : j < k => j \in 0 .. n
        OBVIOUS
    <2>. QED BY <2>1, <2>2
<1>3. Good = Nat
    <2>1. Good \in SUBSET Nat
        OBVIOUS
    <2>. HIDE DEF Good
    <2>. QED BY <1>1, <1>2, <2>1, NatSetInduction
<1>4. \A n \in Nat : n \notin A
    <2>1. \A n \in Nat : n \in 0 .. n
        OBVIOUS
    <2>. QED BY <1>3, <2>1
<1>. QED BY <1>4

(* When there is a pair of notes to pay with, one such pair is First      *)
(* (wallet.ts, findTransferInputs). *)
LEMMA TransferInputsAreAPair ==
    ASSUME NEW w, NEW T, w.notes \in Seq(T), NEW amount, TransferPairs(w, amount) # {}
    PROVE  \E p \in TransferPairs(w, amount) :
              FindTransferInputs(w, amount) = <<w.notes[p[1]], w.notes[p[2]]>>
<1>. DEFINE P == TransferPairs(w, amount)
            A == {p[1] : p \in P}
<1>1. \A p \in P : p[1] \in Nat /\ p[2] \in Nat
    BY DEF TransferPairs
<1>. HIDE DEF P
<1>2. PICK m \in A : \A n \in A : m <= n
    <2>1. A \in SUBSET Nat /\ A # {}
        BY <1>1 DEF P
    <2>. HIDE DEF A
    <2>. QED BY <2>1, LeastNat
<1>. DEFINE B == {p[2] : p \in {q \in P : q[1] = m}}
<1>3. PICK l \in B : \A n \in B : l <= n
    <2>1. B \in SUBSET Nat /\ B # {}
        BY <1>1, <1>2
    <2>. HIDE DEF B
    <2>. QED BY <2>1, LeastNat
<1>4. PICK p \in P : p[1] = m /\ p[2] = l
    BY <1>3
<1>5. \A q \in P : p[1] < q[1] \/ (p[1] = q[1] /\ p[2] <= q[2])
    <2>. SUFFICES ASSUME NEW q \in P PROVE m < q[1] \/ (m = q[1] /\ l <= q[2])
        BY <1>4
    <2>1. q[1] \in A /\ m \in Nat /\ m <= q[1] /\ q[1] \in Nat
        BY <1>1, <1>2
    <2>2. q[1] = m => q[2] \in B
        OBVIOUS
    <2>3. q[1] = m => l <= q[2]
        <3>. HIDE DEF B
        <3>. QED BY <1>3, <2>2
    <2>. QED BY <2>1, <2>3
<1>. DEFINE chosen == CHOOSE p1 \in P : \A q \in P : p1[1] < q[1] \/ (p1[1] = q[1] /\ p1[2] <= q[2])
<1>6. chosen \in P
    BY <1>5
<1>7. FindTransferInputs(w, amount) = <<w.notes[chosen[1]], w.notes[chosen[2]]>>
    BY DEF FindTransferInputs, P
<1>. HIDE DEF chosen
<1>. QED BY <1>6, <1>7 DEF P

(* And so for the one note of a withdraw (wallet.ts, buildWithdraw). *)
LEMMA WithdrawNoteIsOne ==
    ASSUME NEW w, NEW T, w.notes \in Seq(T), NEW amount, WithdrawNotes(w, amount) # {}
    PROVE  \E k \in WithdrawNotes(w, amount) : FindWithdrawNote(w, amount) = w.notes[k]
<1>. DEFINE K == WithdrawNotes(w, amount)
<1>1. K \in SUBSET Nat /\ K # {}
    BY DEF WithdrawNotes
<1>. HIDE DEF K
<1>2. \E k \in K : \A j \in K : k <= j
    BY <1>1, LeastNat
<1>. QED BY <1>2 DEF FindWithdrawNote, K
================================================================================

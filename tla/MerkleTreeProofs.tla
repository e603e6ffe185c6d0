--------------------------- MODULE MerkleTreeProofs ---------------------------
(***************************************************************************)
(* The three Merkle trees agree for every depth, every number of leaves    *)
(* and all their values: the tree that remembers one hash per level, the   *)
(* one that keeps all the leaves, and the circuits' inclusion check all    *)
(* compute the full binary tree over the leaves padded with zeros.         *)
(***************************************************************************)
EXTENDS MerkleTree, OperatorProofs

------------------------------------------------------------------------------
(* Powers of two, counted by sets of subsets, and the ancestors of a leaf. *)

LEMMA PowerDoubles == \A n \in Nat : 2 ^ n \in Nat \ {0} /\ 2 ^ (n + 1) = 2 * 2 ^ n
<1>. SUFFICES ASSUME NEW n \in Nat PROVE 2 ^ n \in Nat \ {0} /\ 2 ^ (n + 1) = 2 * 2 ^ n
    OBVIOUS
<1>. DEFINE S == 1 .. n
            Without == SUBSET S
            With == {T \cup {n + 1} : T \in Without}
<1>1. /\ IsFiniteSet(S) /\ Cardinality(S) = n
      /\ IsFiniteSet(1 .. n + 1) /\ Cardinality(1 .. n + 1) = n + 1
    BY FS_Interval
<1>2. /\ IsFiniteSet(Without) /\ Cardinality(Without) = 2 ^ n
      /\ Cardinality(SUBSET (1 .. n + 1)) = 2 ^ (n + 1)
    BY <1>1, FS_SUBSET
<1>3. SUBSET (1 .. n + 1) = Without \cup With
    <2>1. ASSUME NEW T \in SUBSET (1 .. n + 1), n + 1 \in T PROVE T \in With
        <3>1. T \ {n + 1} \in Without /\ T = (T \ {n + 1}) \cup {n + 1}
            BY <2>1
        <3>. QED BY <3>1
    <2>2. ASSUME NEW T \in SUBSET (1 .. n + 1), n + 1 \notin T PROVE T \in Without
        BY <2>2
    <2>3. ASSUME NEW T \in Without PROVE T \in SUBSET (1 .. n + 1)
        OBVIOUS
    <2>4. ASSUME NEW T \in Without PROVE T \cup {n + 1} \in SUBSET (1 .. n + 1)
        OBVIOUS
    <2>5. ASSUME NEW T \in With PROVE T \in SUBSET (1 .. n + 1)
        <3>1. PICK U \in Without : T = U \cup {n + 1}
            OBVIOUS
        <3>. QED BY <2>4, <3>1
    <2>. HIDE DEF With, Without
    <2>. QED BY <2>1, <2>2, <2>3, <2>5
<1>4. Without \cap With = {}
    OBVIOUS
<1>5. ExistsBijection(Without, With)
    <2>. DEFINE f == [T \in Without |-> T \cup {n + 1}]
    <2>1. f \in [Without -> With] /\ \A U \in With : \E T \in Without : f[T] = U
        OBVIOUS
    <2>2. ASSUME NEW T \in Without, NEW U \in Without, f[T] = f[U] PROVE T = U
        BY <2>2
    <2>3. f \in Bijection(Without, With)
        BY <2>1, <2>2 DEF Bijection, Injection, Surjection, IsInjective
    <2>. QED BY <2>3 DEF ExistsBijection
<1>6. IsFiniteSet(With) /\ Cardinality(With) = Cardinality(Without)
    BY <1>2, <1>5, FS_Bijection
<1>7. Cardinality(Without \cup With) = Cardinality(Without) + Cardinality(With)
    <2>. HIDE DEF With, Without
    <2>1. Cardinality(Without \cap With) = 0
        BY <1>4, FS_EmptySet
    <2>2. Cardinality(Without) \in Nat /\ Cardinality(With) \in Nat
        BY <1>2, <1>6, FS_CardinalityType
    <2>. QED BY <1>2, <1>6, <2>1, <2>2, FS_Union
<1>8. 2 ^ n \in Nat /\ 2 ^ n # 0
    <2>1. Cardinality(Without) \in Nat /\ Without # {}
        BY <1>2, FS_CardinalityType
    <2>. QED BY <1>2, <2>1, FS_EmptySet
<1>9. Cardinality(SUBSET (1 .. n + 1)) = Cardinality(Without \cup With)
    BY <1>3, Zenon
<1>. HIDE DEF With, Without
<1>. QED BY <1>2, <1>6, <1>7, <1>8, <1>9

(* Where the path of leaf i crosses a level. *)
Above(i, level) == i \div 2 ^ level

LEMMA Halving ==
    \A i \in Nat, p \in Nat \ {0} : i \div p \in Nat /\ (i \div p) \div 2 = i \div (2 * p)
OBVIOUS

LEMMA AboveSteps ==
    ASSUME NEW i \in Nat
    PROVE  /\ Above(i, 0) = i
           /\ \A level \in Nat : /\ Above(i, level) \in Nat
                                /\ Above(i, level + 1) = Above(i, level) \div 2
<1>1. i \div 1 = i
    OBVIOUS
<1>2. ASSUME NEW level \in Nat
      PROVE  Above(i, level) \in Nat /\ Above(i, level + 1) = Above(i, level) \div 2
    <2>1. 2 ^ level \in Nat \ {0} /\ 2 ^ (level + 1) = 2 * 2 ^ level
        BY PowerDoubles
    <2>. QED BY <2>1, Halving DEF Above
<1>. QED BY <1>1, <1>2 DEF Above

(* The next leaf's path crosses a level where this one's does, or right    *)
(* beside it. *)
LEMMA AboveNext ==
    ASSUME NEW i \in Nat, NEW level \in Nat
    PROVE  Above(i + 1, level) \in {Above(i, level), Above(i, level) + 1}
<1>. DEFINE Good == {n \in Nat : Above(i + 1, n) \in {Above(i, n), Above(i, n) + 1}}
<1>1. 0 \in Good
    BY AboveSteps
<1>2. ASSUME NEW n \in Good PROVE n + 1 \in Good
    <2>1. Above(i + 1, n + 1) = Above(i + 1, n) \div 2 /\ Above(i, n + 1) = Above(i, n) \div 2
        BY AboveSteps
    <2>2. \A x \in Nat : x \div 2 \in Nat /\ (x + 1) \div 2 \in {x \div 2, x \div 2 + 1}
        OBVIOUS
    <2>3. Above(i, n) \in Nat
        BY AboveSteps
    <2>. QED BY <2>1, <2>2, <2>3
<1>3. Good = Nat
    <2>1. Good \in SUBSET Nat
        OBVIOUS
    <2>. HIDE DEF Good
    <2>. QED BY <1>1, <1>2, <2>1, NatSetInduction
<1>. QED BY <1>3

(* Paths do not cross. *)
LEMMA AboveMonotone ==
    ASSUME NEW i \in Nat, NEW j \in Nat, i <= j, NEW level \in Nat
    PROVE  Above(i, level) <= Above(j, level)
<1>. DEFINE Good == {n \in Nat : Above(i, n) <= Above(j, n)}
<1>1. 0 \in Good
    BY AboveSteps
<1>2. ASSUME NEW n \in Good PROVE n + 1 \in Good
    <2>1. Above(i, n + 1) = Above(i, n) \div 2 /\ Above(j, n + 1) = Above(j, n) \div 2
        BY AboveSteps
    <2>2. \A x, y \in Nat : x <= y => x \div 2 <= y \div 2
        OBVIOUS
    <2>3. Above(i, n) \in Nat /\ Above(j, n) \in Nat
        BY AboveSteps
    <2>. QED BY <2>1, <2>2, <2>3
<1>3. Good = Nat
    <2>1. Good \in SUBSET Nat
        OBVIOUS
    <2>. HIDE DEF Good
    <2>. QED BY <1>1, <1>2, <2>1, NatSetInduction
<1>. QED BY <1>3

Width(level) == 2 ^ (DEPTH - level)

LEMMA Widths ==
    /\ DEPTH \in Nat \ {0} /\ Capacity \in Nat \ {0}
    /\ Width(0) = Capacity /\ Width(DEPTH) = 1
    /\ \A level \in 0 .. DEPTH : Width(level) \in Nat \ {0}
    /\ \A level \in Levels : Width(level) = 2 * Width(level + 1)
<1>1. DEPTH \in Nat \ {0}
    BY DepthAssumption
<1>2. \A level \in 0 .. DEPTH : DEPTH - level \in Nat
    BY <1>1
<1>3. \A level \in Levels : DEPTH - (level + 1) \in Nat /\ (DEPTH - (level + 1)) + 1 = DEPTH - level
    BY <1>1 DEF Levels
<1>4. DEPTH - 0 = DEPTH /\ DEPTH - DEPTH = 0 /\ 2 ^ 0 = 1
    BY <1>1
<1>5. \A level \in 0 .. DEPTH : Width(level) \in Nat \ {0}
    BY <1>2, PowerDoubles DEF Width
<1>6. ASSUME NEW level \in Levels PROVE Width(level) = 2 * Width(level + 1)
    BY <1>3, PowerDoubles DEF Width
<1>. QED BY <1>1, <1>4, <1>5, <1>6, PowerDoubles DEF Width, Capacity

(* A leaf of the tree has a node of the tree above it on every level. *)
LEMMA AboveInTree ==
    ASSUME NEW i \in 0 .. Capacity - 1, NEW level \in 0 .. DEPTH
    PROVE  Above(i, level) \in 0 .. Width(level) - 1
<1>. DEFINE Good == {n \in Nat : n <= DEPTH => Above(i, n) \in 0 .. Width(n) - 1}
<1>0. i \in Nat
    BY Widths
<1>1. 0 \in Good
    BY <1>0, AboveSteps, Widths
<1>2. ASSUME NEW n \in Good PROVE n + 1 \in Good
    <2>. SUFFICES ASSUME n + 1 <= DEPTH PROVE Above(i, n + 1) \in 0 .. Width(n + 1) - 1
        OBVIOUS
    <2>1. n \in Levels /\ n + 1 \in 0 .. DEPTH /\ n <= DEPTH
        BY Widths DEF Levels
    <2>2. Width(n) = 2 * Width(n + 1) /\ Width(n + 1) \in Nat
        BY <2>1, Widths
    <2>3. Above(i, n + 1) = Above(i, n) \div 2 /\ Above(i, n) \in 0 .. Width(n) - 1
        BY <1>0, <2>1, AboveSteps
    <2>4. \A w \in Nat : \A x \in 0 .. (2 * w) - 1 : x \div 2 \in 0 .. w - 1
        OBVIOUS
    <2>. QED BY <2>2, <2>3, <2>4
<1>3. Good = Nat
    <2>1. Good \in SUBSET Nat
        OBVIOUS
    <2>. HIDE DEF Good
    <2>. QED BY <1>1, <1>2, <2>1, NatSetInduction
<1>. QED BY <1>3, Widths

------------------------------------------------------------------------------
(* The recursive functions obey the equations that define them: there are  *)
(* functions that do, built level by level. *)

(* The hashes of the empty subtrees. *)
AreZeros(f, n) ==
    f = [level \in 0 .. n |->
            IF level = 0 THEN ZeroLeaf ELSE Hash(f[level - 1], f[level - 1])]

LEMMA AreZerosExist ==
    \A m \in Nat : \E f : AreZeros(f, m)
<1>. DEFINE Good == {n \in Nat : \E f : AreZeros(f, n)}
<1>1. 0 \in Good
    <2>. DEFINE f == [level \in 0 .. 0 |-> ZeroLeaf]
    <2>1. AreZeros(f, 0)
        BY DEF AreZeros
    <2>. QED BY <2>1
<1>2. ASSUME NEW n \in Good PROVE n + 1 \in Good
    <2>1. PICK f : AreZeros(f, n)
        OBVIOUS
    <2>. DEFINE g == [level \in 0 .. n + 1 |->
                        IF level = 0 THEN ZeroLeaf ELSE Hash(f[level - 1], f[level - 1])]
    <2>2. \A level \in 0 .. n : g[level] = f[level]
        BY <2>1 DEF AreZeros
    <2>3. \A level \in 0 .. n + 1 :
             g[level] = IF level = 0 THEN ZeroLeaf ELSE Hash(g[level - 1], g[level - 1])
        <3>1. \A level \in 0 .. n + 1 : level = 0 \/ level - 1 \in 0 .. n
            OBVIOUS
        <3>. QED BY <2>2, <3>1
    <2>4. g = [level \in 0 .. n + 1 |-> g[level]]
        OBVIOUS
    <2>. HIDE DEF g
    <2>5. AreZeros(g, n + 1)
        BY <2>3, <2>4 DEF AreZeros
    <2>. QED BY <2>5
<1>3. Good = Nat
    <2>1. Good \in SUBSET Nat
        OBVIOUS
    <2>. HIDE DEF Good
    <2>. QED BY <1>1, <1>2, <2>1, NatSetInduction
<1>. QED BY <1>3

LEMMA AreZerosStep ==
    ASSUME NEW m \in Nat, NEW f, AreZeros(f, m)
    PROVE  /\ f[0] = ZeroLeaf
           /\ \A level \in 0 .. m - 1 :
                 f[level + 1] = Hash(f[level], f[level])
<1>1. 0 \in 0 .. m /\ \A level \in 0 .. m - 1 : level + 1 \in 0 .. m /\ level + 1 # 0
                                              /\ (level + 1) - 1 = level
    OBVIOUS
<1>2. \A level \in 0 .. m :
        f[level] = IF level = 0 THEN ZeroLeaf ELSE Hash(f[level - 1], f[level - 1])
    BY DEF AreZeros
<1>. QED BY <1>1, <1>2

(* One step up: the siblings on the two sides are given for every level.   *)
Climb(index, left, right, level, node) ==
    IF IsRight(index, level) THEN Hash(left[level], node) ELSE Hash(node, right[level])

(* A path from a leaf up, by the siblings it meets on its left and right.   *)
Climbs(f, leaf, index, left, right, n) ==
    f = [level \in 0 .. n |->
            IF level = 0 THEN leaf ELSE Climb(index, left, right, level - 1, f[level - 1])]

LEMMA ClimbsExist ==
    ASSUME NEW leaf, NEW index, NEW left, NEW right
    PROVE  \A m \in Nat : \E f : Climbs(f, leaf, index, left, right, m)
<1>. DEFINE Good == {n \in Nat : \E f : Climbs(f, leaf, index, left, right, n)}
<1>1. 0 \in Good
    <2>. DEFINE f == [level \in 0 .. 0 |-> leaf]
    <2>1. Climbs(f, leaf, index, left, right, 0)
        BY DEF Climbs
    <2>. QED BY <2>1
<1>2. ASSUME NEW n \in Good PROVE n + 1 \in Good
    <2>1. PICK f : Climbs(f, leaf, index, left, right, n)
        OBVIOUS
    <2>. DEFINE g == [level \in 0 .. n + 1 |->
                        IF level = 0 THEN leaf ELSE Climb(index, left, right, level - 1, f[level - 1])]
    <2>2. \A level \in 0 .. n : g[level] = f[level]
        BY <2>1 DEF Climbs
    <2>3. \A level \in 0 .. n + 1 :
             g[level] = IF level = 0 THEN leaf ELSE Climb(index, left, right, level - 1, g[level - 1])
        <3>1. \A level \in 0 .. n + 1 : level = 0 \/ level - 1 \in 0 .. n
            OBVIOUS
        <3>. QED BY <2>2, <3>1
    <2>4. g = [level \in 0 .. n + 1 |-> g[level]]
        OBVIOUS
    <2>. HIDE DEF g
    <2>5. Climbs(g, leaf, index, left, right, n + 1)
        BY <2>3, <2>4 DEF Climbs
    <2>. QED BY <2>5
<1>3. Good = Nat
    <2>1. Good \in SUBSET Nat
        OBVIOUS
    <2>. HIDE DEF Good
    <2>. QED BY <1>1, <1>2, <2>1, NatSetInduction
<1>. QED BY <1>3

LEMMA ClimbsStep ==
    ASSUME NEW leaf, NEW index, NEW left, NEW right, NEW m \in Nat, NEW f, Climbs(f, leaf, index, left, right, m)
    PROVE  /\ f[0] = leaf
           /\ \A level \in 0 .. m - 1 :
                 f[level + 1] = Climb(index, left, right, level, f[level])
<1>1. 0 \in 0 .. m /\ \A level \in 0 .. m - 1 : level + 1 \in 0 .. m /\ level + 1 # 0
                                              /\ (level + 1) - 1 = level
    OBVIOUS
<1>2. \A level \in 0 .. m :
        f[level] = IF level = 0 THEN leaf ELSE Climb(index, left, right, level - 1, f[level - 1])
    BY DEF Climbs
<1>. QED BY <1>1, <1>2

(* The client's levels. *)
AreLevels(f, ls, n) ==
    f = [level \in 0 .. n |->
            IF level = 0 THEN ls ELSE NextLevel(f[level - 1], level - 1)]

LEMMA AreLevelsExist ==
    ASSUME NEW ls
    PROVE  \A m \in Nat : \E f : AreLevels(f, ls, m)
<1>. DEFINE Good == {n \in Nat : \E f : AreLevels(f, ls, n)}
<1>1. 0 \in Good
    <2>. DEFINE f == [level \in 0 .. 0 |-> ls]
    <2>1. AreLevels(f, ls, 0)
        BY DEF AreLevels
    <2>. QED BY <2>1
<1>2. ASSUME NEW n \in Good PROVE n + 1 \in Good
    <2>1. PICK f : AreLevels(f, ls, n)
        OBVIOUS
    <2>. DEFINE g == [level \in 0 .. n + 1 |->
                        IF level = 0 THEN ls ELSE NextLevel(f[level - 1], level - 1)]
    <2>2. \A level \in 0 .. n : g[level] = f[level]
        BY <2>1 DEF AreLevels
    <2>3. \A level \in 0 .. n + 1 :
             g[level] = IF level = 0 THEN ls ELSE NextLevel(g[level - 1], level - 1)
        <3>1. \A level \in 0 .. n + 1 : level = 0 \/ level - 1 \in 0 .. n
            OBVIOUS
        <3>. QED BY <2>2, <3>1
    <2>4. g = [level \in 0 .. n + 1 |-> g[level]]
        OBVIOUS
    <2>. HIDE DEF g
    <2>5. AreLevels(g, ls, n + 1)
        BY <2>3, <2>4 DEF AreLevels
    <2>. QED BY <2>5
<1>3. Good = Nat
    <2>1. Good \in SUBSET Nat
        OBVIOUS
    <2>. HIDE DEF Good
    <2>. QED BY <1>1, <1>2, <2>1, NatSetInduction
<1>. QED BY <1>3

LEMMA AreLevelsStep ==
    ASSUME NEW ls, NEW m \in Nat, NEW f, AreLevels(f, ls, m)
    PROVE  /\ f[0] = ls
           /\ \A level \in 0 .. m - 1 :
                 f[level + 1] = NextLevel(f[level], level)
<1>1. 0 \in 0 .. m /\ \A level \in 0 .. m - 1 : level + 1 \in 0 .. m /\ level + 1 # 0
                                              /\ (level + 1) - 1 = level
    OBVIOUS
<1>2. \A level \in 0 .. m :
        f[level] = IF level = 0 THEN ls ELSE NextLevel(f[level - 1], level - 1)
    BY DEF AreLevels
<1>. QED BY <1>1, <1>2

(* The i-th leaf of the padded tree. *)
Leaf(ls, i) == IF i < Len(ls) THEN ls[i + 1] ELSE ZeroLeaf

Padded(ls) == [k \in 0 .. Width(0) - 1 |-> Leaf(ls, k)]

Parents(below, level) == [k \in 0 .. Width(level) - 1 |-> Hash(below[2*k], below[2*k + 1])]

(* The full binary tree. *)
AreNodes(f, ls, n) ==
    f = [level \in 0 .. n |->
            IF level = 0 THEN Padded(ls) ELSE Parents(f[level - 1], level)]

LEMMA AreNodesExist ==
    ASSUME NEW ls
    PROVE  \A m \in Nat : \E f : AreNodes(f, ls, m)
<1>. DEFINE Good == {n \in Nat : \E f : AreNodes(f, ls, n)}
<1>1. 0 \in Good
    <2>. DEFINE f == [level \in 0 .. 0 |-> Padded(ls)]
    <2>1. AreNodes(f, ls, 0)
        BY DEF AreNodes
    <2>. QED BY <2>1
<1>2. ASSUME NEW n \in Good PROVE n + 1 \in Good
    <2>1. PICK f : AreNodes(f, ls, n)
        OBVIOUS
    <2>. DEFINE g == [level \in 0 .. n + 1 |->
                        IF level = 0 THEN Padded(ls) ELSE Parents(f[level - 1], level)]
    <2>2. \A level \in 0 .. n : g[level] = f[level]
        BY <2>1 DEF AreNodes
    <2>3. \A level \in 0 .. n + 1 :
             g[level] = IF level = 0 THEN Padded(ls) ELSE Parents(g[level - 1], level)
        <3>1. \A level \in 0 .. n + 1 : level = 0 \/ level - 1 \in 0 .. n
            OBVIOUS
        <3>. QED BY <2>2, <3>1
    <2>4. g = [level \in 0 .. n + 1 |-> g[level]]
        OBVIOUS
    <2>. HIDE DEF g
    <2>5. AreNodes(g, ls, n + 1)
        BY <2>3, <2>4 DEF AreNodes
    <2>. QED BY <2>5
<1>3. Good = Nat
    <2>1. Good \in SUBSET Nat
        OBVIOUS
    <2>. HIDE DEF Good
    <2>. QED BY <1>1, <1>2, <2>1, NatSetInduction
<1>. QED BY <1>3

LEMMA AreNodesStep ==
    ASSUME NEW ls, NEW m \in Nat, NEW f, AreNodes(f, ls, m)
    PROVE  /\ f[0] = Padded(ls)
           /\ \A level \in 0 .. m - 1 :
                 f[level + 1] = Parents(f[level], level + 1)
<1>1. 0 \in 0 .. m /\ \A level \in 0 .. m - 1 : level + 1 \in 0 .. m /\ level + 1 # 0
                                              /\ (level + 1) - 1 = level
    OBVIOUS
<1>2. \A level \in 0 .. m :
        f[level] = IF level = 0 THEN Padded(ls) ELSE Parents(f[level - 1], level)
    BY DEF AreNodes
<1>. QED BY <1>1, <1>2

(* One leaf after another. *)
AreInsertions(f, t, cs, n) ==
    f = [k \in 0 .. n |->
            IF k = 0 THEN t ELSE InsertLeaf(f[k - 1], cs[k])]

LEMMA AreInsertionsExist ==
    ASSUME NEW t, NEW cs
    PROVE  \A m \in Nat : \E f : AreInsertions(f, t, cs, m)
<1>. DEFINE Good == {n \in Nat : \E f : AreInsertions(f, t, cs, n)}
<1>1. 0 \in Good
    <2>. DEFINE f == [k \in 0 .. 0 |-> t]
    <2>1. AreInsertions(f, t, cs, 0)
        BY DEF AreInsertions
    <2>. QED BY <2>1
<1>2. ASSUME NEW n \in Good PROVE n + 1 \in Good
    <2>1. PICK f : AreInsertions(f, t, cs, n)
        OBVIOUS
    <2>. DEFINE g == [k \in 0 .. n + 1 |->
                        IF k = 0 THEN t ELSE InsertLeaf(f[k - 1], cs[k])]
    <2>2. \A k \in 0 .. n : g[k] = f[k]
        BY <2>1 DEF AreInsertions
    <2>3. \A k \in 0 .. n + 1 :
             g[k] = IF k = 0 THEN t ELSE InsertLeaf(g[k - 1], cs[k])
        <3>1. \A k \in 0 .. n + 1 : k = 0 \/ k - 1 \in 0 .. n
            OBVIOUS
        <3>. QED BY <2>2, <3>1
    <2>4. g = [k \in 0 .. n + 1 |-> g[k]]
        OBVIOUS
    <2>. HIDE DEF g
    <2>5. AreInsertions(g, t, cs, n + 1)
        BY <2>3, <2>4 DEF AreInsertions
    <2>. QED BY <2>5
<1>3. Good = Nat
    <2>1. Good \in SUBSET Nat
        OBVIOUS
    <2>. HIDE DEF Good
    <2>. QED BY <1>1, <1>2, <2>1, NatSetInduction
<1>. QED BY <1>3

Inserts(f, cs, k) == f[k + 1] = InsertLeaf(f[k], cs[k + 1])

LEMMA AreInsertionsStep ==
    ASSUME NEW t, NEW cs, NEW m \in Nat, NEW f, AreInsertions(f, t, cs, m)
    PROVE  /\ f[0] = t
           /\ \A k \in 0 .. m - 1 : Inserts(f, cs, k)
<1>1. 0 \in 0 .. m /\ \A k \in 0 .. m - 1 : k + 1 \in 0 .. m /\ k + 1 # 0
                                              /\ (k + 1) - 1 = k
    OBVIOUS
<1>2. \A k \in 0 .. m :
        f[k] = IF k = 0 THEN t ELSE InsertLeaf(f[k - 1], cs[k])
    BY DEF AreInsertions
<1>. QED BY <1>1, <1>2 DEF Inserts

LEMMA ZerosStep ==
    Zeros[0] = ZeroLeaf /\ \A level \in Levels : Zeros[level + 1] = Hash(Zeros[level], Zeros[level])
<1>1. Zeros = CHOOSE f : AreZeros(f, DEPTH)
    BY DEF Zeros, AreZeros
<1>2. DEPTH \in Nat
    BY Widths
<1>3. AreZeros(Zeros, DEPTH)
    BY <1>1, <1>2, AreZerosExist
<1>. QED BY <1>2, <1>3, AreZerosStep DEF Levels

(* The nodes of an insertion, up to the root.  *)
LEMMA PathUpStep ==
    ASSUME NEW t, NEW leaf
    PROVE  /\ PathUp(t, leaf)[0] = leaf
           /\ \A level \in Levels :
                 PathUp(t, leaf)[level + 1]
                    = Climb(t.next_index, t.filled_subtrees, Zeros, level, PathUp(t, leaf)[level])
<1>. DEFINE up == PathUp(t, leaf)
<1>1. up = CHOOSE f : Climbs(f, leaf, t.next_index, t.filled_subtrees, Zeros, DEPTH)
    BY DEF PathUp, Climbs, Climb
<1>2. DEPTH \in Nat
    BY Widths
<1>. HIDE DEF up
<1>3. Climbs(up, leaf, t.next_index, t.filled_subtrees, Zeros, DEPTH)
    BY <1>1, <1>2, ClimbsExist
<1>4. /\ up[0] = leaf
      /\ \A level \in Levels :
            up[level + 1] = Climb(t.next_index, t.filled_subtrees, Zeros, level, up[level])
    BY <1>2, <1>3, ClimbsStep DEF Levels
<1>. QED BY <1>4 DEF up

(* The circuits' root: a climb, too. *)
LEMMA RootFromStep ==
    ASSUME NEW leaf, NEW index, NEW path
    PROVE  \E cur : /\ RootFrom(leaf, index, path) = cur[DEPTH]
                    /\ cur[0] = leaf
                    /\ \A level \in Levels :
                          cur[level + 1] = Climb(index, path, path, level, cur[level])
<1>. DEFINE cur == CHOOSE f : Climbs(f, leaf, index, path, path, DEPTH)
<1>1. RootFrom(leaf, index, path) = cur[DEPTH]
    BY DEF RootFrom, Climbs, Climb
<1>2. DEPTH \in Nat
    BY Widths
<1>3. Climbs(cur, leaf, index, path, path, DEPTH)
    BY <1>2, ClimbsExist
<1>. HIDE DEF cur
<1>. QED BY <1>1, <1>2, <1>3, ClimbsStep DEF Levels

LEMMA ClientLevelsStep ==
    ASSUME NEW ls
    PROVE  /\ ClientLevels(ls)[0] = ls
           /\ \A level \in Levels :
                 ClientLevels(ls)[level + 1] = NextLevel(ClientLevels(ls)[level], level)
<1>. DEFINE nodes == ClientLevels(ls)
<1>1. nodes = CHOOSE f : AreLevels(f, ls, DEPTH)
    BY DEF ClientLevels, AreLevels
<1>2. DEPTH \in Nat
    BY Widths
<1>. HIDE DEF nodes
<1>3. AreLevels(nodes, ls, DEPTH)
    BY <1>1, <1>2, AreLevelsExist
<1>4. nodes[0] = ls /\ \A level \in Levels : nodes[level + 1] = NextLevel(nodes[level], level)
    BY <1>2, <1>3, AreLevelsStep DEF Levels
<1>. QED BY <1>4 DEF nodes

LEMMA NodeStep ==
    ASSUME NEW ls
    PROVE  /\ \A k \in 0 .. Width(0) - 1 : Node(ls)[0][k] = Leaf(ls, k)
           /\ \A level \in Levels : \A k \in 0 .. Width(level + 1) - 1 :
                 Node(ls)[level + 1][k] = Hash(Node(ls)[level][2*k], Node(ls)[level][2*k + 1])
<1>. DEFINE node == Node(ls)
            Row(f, level) == [k \in 0 .. Width(level) - 1 |->
                                IF level = 0 THEN Leaf(ls, k)
                                ELSE Hash(f[level - 1][2*k], f[level - 1][2*k + 1])]
<1>1. node = CHOOSE f : f = [level \in 0 .. DEPTH |-> Row(f, level)]
    BY DEF Node, Width, Leaf
<1>2. DEPTH \in Nat
    BY Widths
<1>3. \A f, level : Row(f, level) = IF level = 0 THEN Padded(ls) ELSE Parents(f[level - 1], level)
    BY DEF Padded, Parents
<1>. HIDE DEF node, Row
<1>4. \A f : AreNodes(f, ls, DEPTH) => f = [level \in 0 .. DEPTH |-> Row(f, level)]
    BY <1>3 DEF AreNodes
<1>5. node = [level \in 0 .. DEPTH |-> Row(node, level)]
    BY <1>1, <1>2, <1>4, AreNodesExist
<1>6. AreNodes(node, ls, DEPTH)
    BY <1>3, <1>5 DEF AreNodes
<1>7. node[0] = Padded(ls) /\ \A level \in Levels : node[level + 1] = Parents(node[level], level + 1)
    BY <1>2, <1>6, AreNodesStep DEF Levels
<1>. QED BY <1>7 DEF node, Padded, Parents

LEMMA InsertAllStep ==
    ASSUME NEW t, NEW cs, Len(cs) \in Nat
    PROVE  \E after : InsertAll(t, cs) = after[Len(cs)] /\ AreInsertions(after, t, cs, Len(cs))
<1>. DEFINE after == CHOOSE f : AreInsertions(f, t, cs, Len(cs))
<1>1. InsertAll(t, cs) = after[Len(cs)]
    BY DEF InsertAll, AreInsertions
<1>2. AreInsertions(after, t, cs, Len(cs))
    BY AreInsertionsExist
<1>. QED BY <1>1, <1>2

------------------------------------------------------------------------------
(* A node of the full tree depends on the leaves under it only. *)

(* The two nodes below a node, and the leaves under them. *)
LEMMA Children ==
    ASSUME NEW level \in Levels, NEW k \in 0 .. Width(level + 1) - 1
    PROVE  /\ 2*k \in 0 .. Width(level) - 1 /\ 2*k + 1 \in 0 .. Width(level) - 1
           /\ \A i \in Nat : Above(i, level) \in {2*k, 2*k + 1} => Above(i, level + 1) = k
<1>1. Width(level) = 2 * Width(level + 1) /\ Width(level + 1) \in Nat /\ level \in Nat
    BY Widths DEF Levels
<1>2. (2*k) \div 2 = k /\ (2*k + 1) \div 2 = k
    BY <1>1
<1>3. ASSUME NEW i \in Nat, Above(i, level) \in {2*k, 2*k + 1} PROVE Above(i, level + 1) = k
    <2>1. Above(i, level + 1) = Above(i, level) \div 2
        BY <1>1, AboveSteps
    <2>. QED BY <1>2, <1>3, <2>1
<1>. QED BY <1>1, <1>3

LEMMA NodeOfZeros ==
    ASSUME NEW ls, NEW level \in 0 .. DEPTH, NEW k \in 0 .. Width(level) - 1,
           \A i \in 0 .. Capacity - 1 : Above(i, level) = k => Leaf(ls, i) = ZeroLeaf
    PROVE  Node(ls)[level][k] = Zeros[level]
<1>. DEFINE Bare(n, j) == \A i \in 0 .. Capacity - 1 : Above(i, n) = j => Leaf(ls, i) = ZeroLeaf
            Good == {n \in Nat : n <= DEPTH => \A j \in 0 .. Width(n) - 1 :
                                    Bare(n, j) => Node(ls)[n][j] = Zeros[n]}
<1>1. 0 \in Good
    <2>. SUFFICES ASSUME NEW j \in 0 .. Width(0) - 1, Bare(0, j) PROVE Node(ls)[0][j] = Zeros[0]
        OBVIOUS
    <2>1. j \in 0 .. Capacity - 1 /\ j \in Nat
        BY Widths
    <2>2. Above(j, 0) = j
        BY <2>1, AboveSteps
    <2>. QED BY <2>1, <2>2, NodeStep, ZerosStep
<1>2. ASSUME NEW n \in Good PROVE n + 1 \in Good
    <2>. SUFFICES ASSUME n + 1 <= DEPTH, NEW j \in 0 .. Width(n + 1) - 1, Bare(n + 1, j)
                  PROVE  Node(ls)[n + 1][j] = Zeros[n + 1]
        OBVIOUS
    <2>1. n \in Levels /\ n <= DEPTH
        BY Widths DEF Levels
    <2>2. 2*j \in 0 .. Width(n) - 1 /\ 2*j + 1 \in 0 .. Width(n) - 1
        BY <2>1, Children
    <2>3. Bare(n, 2*j) /\ Bare(n, 2*j + 1)
        <3>1. 0 .. Capacity - 1 \subseteq Nat
            BY Widths
        <3>. QED BY <2>1, <3>1, Children
    <2>4. Node(ls)[n][2*j] = Zeros[n] /\ Node(ls)[n][2*j + 1] = Zeros[n]
        <3>. HIDE DEF Bare
        <3>. QED BY <2>1, <2>2, <2>3
    <2>5. Node(ls)[n + 1][j] = Hash(Node(ls)[n][2*j], Node(ls)[n][2*j + 1])
        BY <2>1, NodeStep
    <2>. QED BY <2>1, <2>4, <2>5, ZerosStep
<1>3. Good = Nat
    <2>1. Good \in SUBSET Nat
        OBVIOUS
    <2>. HIDE DEF Good
    <2>. QED BY <1>1, <1>2, <2>1, NatSetInduction
<1>4. level \in Nat /\ level <= DEPTH
    BY Widths
<1>. QED BY <1>3, <1>4

LEMMA NodesAgree ==
    ASSUME NEW ls, NEW ms, NEW level \in 0 .. DEPTH, NEW k \in 0 .. Width(level) - 1,
           \A i \in 0 .. Capacity - 1 : Above(i, level) = k => Leaf(ls, i) = Leaf(ms, i)
    PROVE  Node(ls)[level][k] = Node(ms)[level][k]
<1>. DEFINE Alike(n, j) == \A i \in 0 .. Capacity - 1 : Above(i, n) = j => Leaf(ls, i) = Leaf(ms, i)
            Good == {n \in Nat : n <= DEPTH => \A j \in 0 .. Width(n) - 1 :
                                    Alike(n, j) => Node(ls)[n][j] = Node(ms)[n][j]}
<1>1. 0 \in Good
    <2>. SUFFICES ASSUME NEW j \in 0 .. Width(0) - 1, Alike(0, j)
                  PROVE  Node(ls)[0][j] = Node(ms)[0][j]
        OBVIOUS
    <2>1. j \in 0 .. Capacity - 1 /\ j \in Nat
        BY Widths
    <2>2. Above(j, 0) = j
        BY <2>1, AboveSteps
    <2>. QED BY <2>1, <2>2, NodeStep
<1>2. ASSUME NEW n \in Good PROVE n + 1 \in Good
    <2>. SUFFICES ASSUME n + 1 <= DEPTH, NEW j \in 0 .. Width(n + 1) - 1, Alike(n + 1, j)
                  PROVE  Node(ls)[n + 1][j] = Node(ms)[n + 1][j]
        OBVIOUS
    <2>1. n \in Levels /\ n <= DEPTH
        BY Widths DEF Levels
    <2>2. 2*j \in 0 .. Width(n) - 1 /\ 2*j + 1 \in 0 .. Width(n) - 1
        BY <2>1, Children
    <2>3. Alike(n, 2*j) /\ Alike(n, 2*j + 1)
        <3>1. 0 .. Capacity - 1 \subseteq Nat
            BY Widths
        <3>. QED BY <2>1, <3>1, Children
    <2>4. Node(ls)[n][2*j] = Node(ms)[n][2*j] /\ Node(ls)[n][2*j + 1] = Node(ms)[n][2*j + 1]
        <3>. HIDE DEF Alike
        <3>. QED BY <2>1, <2>2, <2>3
    <2>5. /\ Node(ls)[n + 1][j] = Hash(Node(ls)[n][2*j], Node(ls)[n][2*j + 1])
          /\ Node(ms)[n + 1][j] = Hash(Node(ms)[n][2*j], Node(ms)[n][2*j + 1])
        BY <2>1, NodeStep
    <2>. QED BY <2>4, <2>5
<1>3. Good = Nat
    <2>1. Good \in SUBSET Nat
        OBVIOUS
    <2>. HIDE DEF Good
    <2>. QED BY <1>1, <1>2, <2>1, NatSetInduction
<1>4. level \in Nat /\ level <= DEPTH
    BY Widths
<1>. QED BY <1>3, <1>4

------------------------------------------------------------------------------
(* The contract's tree: what it remembers is enough. *)

Agrees(t, ls) ==
    /\ t.next_index = Len(ls) /\ t.next_index <= Capacity
    /\ \A level \in Levels :
          IsRight(t.next_index, level) =>
            t.filled_subtrees[level] = Node(ls)[level][Above(t.next_index, level) - 1]
    /\ t.current_root = Node(ls)[DEPTH][0]

LEMMA AppendedLeaf ==
    ASSUME NEW S, NEW ls \in Seq(S), NEW leaf \in S
    PROVE  /\ Len(Append(ls, leaf)) = Len(ls) + 1
           /\ Leaf(Append(ls, leaf), Len(ls)) = leaf
           /\ \A i \in Nat : i # Len(ls) => Leaf(Append(ls, leaf), i) = Leaf(ls, i)
           /\ \A i \in Nat : i > Len(ls) => Leaf(Append(ls, leaf), i) = ZeroLeaf
<1>1. Len(ls) \in Nat /\ Append(ls, leaf) \in Seq(S) /\ Len(Append(ls, leaf)) = Len(ls) + 1
    OBVIOUS
<1>2. /\ Append(ls, leaf)[Len(ls) + 1] = leaf
      /\ \A k \in 1 .. Len(ls) : Append(ls, leaf)[k] = ls[k]
    OBVIOUS
<1>3. ASSUME NEW i \in Nat, i # Len(ls) PROVE Leaf(Append(ls, leaf), i) = Leaf(ls, i)
    <2>1. CASE i < Len(ls)
        <3>1. i + 1 \in 1 .. Len(ls)
            BY <1>1, <2>1
        <3>. QED BY <1>1, <1>2, <2>1, <3>1 DEF Leaf
    <2>2. CASE ~ (i < Len(ls))
        <3>1. ~ (i < Len(Append(ls, leaf)))
            BY <1>1, <1>3, <2>2
        <3>. QED BY <2>2, <3>1 DEF Leaf
    <2>. QED BY <2>1, <2>2
<1>4. Leaf(Append(ls, leaf), Len(ls)) = leaf
    BY <1>1, <1>2 DEF Leaf
<1>5. ASSUME NEW i \in Nat, i > Len(ls) PROVE Leaf(Append(ls, leaf), i) = ZeroLeaf
    <2>1. ~ (i < Len(Append(ls, leaf)))
        BY <1>1, <1>5
    <2>. QED BY <2>1 DEF Leaf
<1>. QED BY <1>1, <1>3, <1>4, <1>5

(* The nodes an insertion computes are those of the full tree, on the new  *)
(* leaf's path. *)
LEMMA PathUpIsNode ==
    ASSUME NEW S, NEW ls \in Seq(S), NEW leaf \in S, NEW t, Agrees(t, ls), HasRoom(t.next_index)
    PROVE  \A level \in 0 .. DEPTH :
              PathUp(t, leaf)[level] = Node(Append(ls, leaf))[level][Above(Len(ls), level)]
<1>. DEFINE ms == Append(ls, leaf)
            n == Len(ls)
            up == PathUp(t, leaf)
            Good == {l \in Nat : l <= DEPTH => up[l] = Node(ms)[l][Above(n, l)]}
<1>1. n \in Nat /\ n \in 0 .. Capacity - 1 /\ t.next_index = n
    BY Widths DEF Agrees, HasRoom
<1>2. \A level \in Levels : up[level + 1] = Climb(n, t.filled_subtrees, Zeros, level, up[level])
    BY <1>1, PathUpStep
<1>3. 0 \in Good
    <2>1. Above(n, 0) = n
        BY <1>1, AboveSteps
    <2>2. Node(ms)[0][n] = Leaf(ms, n)
        BY <1>1, NodeStep, Widths
    <2>. QED BY <2>1, <2>2, AppendedLeaf, PathUpStep
<1>4. ASSUME NEW l \in Good PROVE l + 1 \in Good
    <2>. SUFFICES ASSUME l + 1 <= DEPTH PROVE up[l + 1] = Node(ms)[l + 1][Above(n, l + 1)]
        OBVIOUS
    <2>1. l \in Levels /\ l \in 0 .. DEPTH /\ l + 1 \in 0 .. DEPTH /\ l \in Nat
        BY Widths DEF Levels
    <2>. DEFINE a == Above(n, l)
                b == Above(n, l + 1)
    <2>2. a \in Nat /\ b = a \div 2 /\ a \in 0 .. Width(l) - 1 /\ b \in 0 .. Width(l + 1) - 1
        BY <1>1, <2>1, AboveSteps, AboveInTree
    <2>3. Node(ms)[l + 1][b] = Hash(Node(ms)[l][2*b], Node(ms)[l][2*b + 1])
        BY <2>1, <2>2, NodeStep
    <2>4. up[l] = Node(ms)[l][a]
        BY <2>1
    <2>5. 2*b \in 0 .. Width(l) - 1 /\ 2*b + 1 \in 0 .. Width(l) - 1
        BY <2>1, <2>2, Children
    <2>6. CASE IsRight(n, l)
        <3>1. a = 2*b + 1
            <4>1. \A x \in Nat : x % 2 = 1 => x = 2 * (x \div 2) + 1
                OBVIOUS
            <4>. QED BY <2>2, <2>6, <4>1 DEF IsRight, Above
        <3>2. t.filled_subtrees[l] = Node(ls)[l][a - 1]
            BY <1>1, <2>1, <2>6 DEF Agrees
        <3>3. Node(ls)[l][2*b] = Node(ms)[l][2*b]
            <4>1. ASSUME NEW i \in 0 .. Capacity - 1, Above(i, l) = 2*b
                  PROVE  Leaf(ls, i) = Leaf(ms, i)
                <5>1. i # n /\ i \in Nat
                    BY <2>2, <3>1, <4>1, Widths
                <5>. QED BY <5>1, AppendedLeaf
            <4>. QED BY <2>1, <2>5, <4>1, NodesAgree, ZenonT(40)
        <3>4. a - 1 = 2*b
            BY <2>2, <3>1
        <3>. HIDE DEF a, b, ms, up, n
        <3>5. up[l + 1] = Hash(t.filled_subtrees[l], up[l])
            BY <1>2, <2>1, <2>6 DEF Climb
        <3>. QED BY <2>3, <2>4, <3>1, <3>2, <3>3, <3>4, <3>5 DEF b
    <2>7. CASE ~ IsRight(n, l)
        <3>1. a = 2*b
            <4>1. \A x \in Nat : x % 2 # 1 => x = 2 * (x \div 2)
                OBVIOUS
            <4>. QED BY <2>2, <2>7, <4>1 DEF IsRight, Above
        <3>2. Node(ms)[l][2*b + 1] = Zeros[l]
            <4>1. ASSUME NEW i \in 0 .. Capacity - 1, Above(i, l) = 2*b + 1
                  PROVE  Leaf(ms, i) = ZeroLeaf
                <5>1. i \in Nat
                    BY Widths
                <5>2. i > n
                    <6>1. i <= n => Above(i, l) <= a
                        BY <1>1, <2>1, <5>1, AboveMonotone
                    <6>. QED BY <1>1, <2>2, <3>1, <4>1, <5>1, <6>1
                <5>. QED BY <5>1, <5>2, AppendedLeaf
            <4>. QED BY <2>1, <2>5, <4>1, NodeOfZeros
        <3>. HIDE DEF a, b, ms, up, n
        <3>3. up[l + 1] = Hash(up[l], Zeros[l])
            BY <1>2, <2>1, <2>7 DEF Climb
        <3>. QED BY <2>3, <2>4, <3>1, <3>2, <3>3 DEF b
    <2>. QED BY <2>6, <2>7
<1>5. Good = Nat
    <2>1. Good \in SUBSET Nat
        OBVIOUS
    <2>. HIDE DEF Good
    <2>. QED BY <1>3, <1>4, <2>1, NatSetInduction
<1>6. \A level \in 0 .. DEPTH : level \in Nat /\ level <= DEPTH
    BY Widths
<1>. QED BY <1>5, <1>6

(* IncrementalMerkleTree::insert is right: one hash per level, remembered  *)
(* along the last path, gives the root of the full tree over all leaves.   *)
LEMMA InsertLeafAgrees ==
    ASSUME NEW S, NEW ls \in Seq(S), NEW leaf \in S, NEW t, Agrees(t, ls), HasRoom(t.next_index)
    PROVE  Agrees(InsertLeaf(t, leaf), Append(ls, leaf))
<1>. DEFINE ms == Append(ls, leaf)
            n == Len(ls)
            up == PathUp(t, leaf)
            u == InsertLeaf(t, leaf)
<1>1. n \in Nat /\ n \in 0 .. Capacity - 1 /\ t.next_index = n
    BY Widths DEF Agrees, HasRoom
<1>2. \A level \in 0 .. DEPTH : up[level] = Node(ms)[level][Above(n, level)]
    BY PathUpIsNode
<1>3. u.next_index = n + 1 /\ u.current_root = up[DEPTH] /\ u.filled_subtrees = Remember(t, up)
    BY <1>1 DEF InsertLeaf
<1>4. Len(ms) = n + 1
    BY AppendedLeaf
<1>5. u.current_root = Node(ms)[DEPTH][0]
    <2>1. DEPTH \in 0 .. DEPTH /\ Width(DEPTH) = 1
        BY Widths
    <2>2. Above(n, DEPTH) = 0
        BY <1>1, <2>1, AboveInTree
    <2>. QED BY <1>2, <1>3, <2>1, <2>2
<1>6. ASSUME NEW level \in Levels, IsRight(n + 1, level)
      PROVE  Remember(t, up)[level] = Node(ms)[level][Above(n + 1, level) - 1]
    <2>. DEFINE a == Above(n, level)
                b == Above(n + 1, level)
    <2>1. level \in Nat /\ level \in 0 .. DEPTH
        BY Widths DEF Levels
    <2>2. a \in Nat /\ b \in {a, a + 1} /\ a \in 0 .. Width(level) - 1
        BY <1>1, <2>1, AboveSteps, AboveNext, AboveInTree
    <2>3. b % 2 = 1
        BY <1>6 DEF IsRight, Above
    <2>4. IsRight(n, level) <=> a % 2 = 1
        BY DEF IsRight, Above
    <2>5. Remember(t, up)[level] = IF IsRight(n, level) THEN t.filled_subtrees[level] ELSE up[level]
        BY <1>1 DEF Remember
    <2>. HIDE DEF a, b, up, ms, n
    <2>6. CASE a % 2 = 1
        <3>1. b = a
            <4>1. \A x \in Nat : x % 2 = 1 => (x + 1) % 2 # 1
                OBVIOUS
            <4>. QED BY <2>2, <2>3, <2>6, <4>1
        <3>2. t.filled_subtrees[level] = Node(ls)[level][a - 1]
            BY <1>1, <2>4, <2>6 DEF Agrees, a, n
        <3>3. a - 1 \in 0 .. Width(level) - 1
            <4>1. a # 0
                BY <2>6
            <4>. QED BY <2>1, <2>2, <4>1, Widths
        <3>4. ASSUME NEW i \in 0 .. Capacity - 1, Above(i, level) = a - 1
              PROVE  Leaf(ls, i) = Leaf(ms, i)
            <4>1. i # n /\ i \in Nat
                BY <2>2, <3>4, Widths DEF a
            <4>. QED BY <4>1, AppendedLeaf DEF ms, n
        <3>5. Node(ls)[level][a - 1] = Node(ms)[level][a - 1]
            BY <2>1, <3>3, <3>4, NodesAgree
        <3>. QED BY <2>4, <2>5, <2>6, <3>1, <3>2, <3>5 DEF b
    <2>7. CASE a % 2 # 1
        <3>1. b - 1 = a
            BY <2>2, <2>3, <2>7
        <3>. QED BY <1>2, <2>1, <2>4, <2>5, <2>7, <3>1 DEF a, b
    <2>. QED BY <2>6, <2>7
<1>7. n + 1 <= Capacity
    BY <1>1, Widths
<1>. HIDE DEF ms, n, up, u
<1>8. Agrees(u, ms)
    BY <1>3, <1>4, <1>5, <1>6, <1>7 DEF Agrees
<1>. QED BY <1>8 DEF u, ms

LEMMA NewTreeAgrees == Agrees(NewTree, <<>>)
<1>1. \A i \in Nat : Leaf(<<>>, i) = ZeroLeaf
    BY DEF Leaf
<1>2. Node(<<>>)[DEPTH][0] = Zeros[DEPTH]
    <2>1. DEPTH \in 0 .. DEPTH /\ 0 \in 0 .. Width(DEPTH) - 1 /\ 0 .. Capacity - 1 \subseteq Nat
        BY Widths
    <2>. QED BY <1>1, <2>1, NodeOfZeros
<1>3. \A level \in Levels : ~ IsRight(0, level)
    <2>1. \A level \in Levels : level \in Nat /\ level \in 0 .. DEPTH
        BY Widths DEF Levels
    <2>2. \A p \in Nat \ {0} : 0 \div p = 0
        OBVIOUS
    <2>. QED BY <2>1, <2>2, PowerDoubles DEF IsRight
<1>4. NewTree.next_index = 0 /\ NewTree.current_root = Zeros[DEPTH]
    BY DEF NewTree
<1>5. Len(<<>>) = 0 /\ 0 <= Capacity
    BY Widths
<1>. HIDE DEF NewTree
<1>. QED BY <1>2, <1>3, <1>4, <1>5 DEF Agrees

(* A call's leaves, one after the other, when there is room for all. *)
LEMMA InsertAllAgrees ==
    ASSUME NEW S, NEW ls \in Seq(S), NEW cs \in Seq(S), NEW t, Agrees(t, ls),
           Len(ls) + Len(cs) <= Capacity
    PROVE  Agrees(InsertAll(t, cs), ls \o cs)
<1>1. Len(cs) \in Nat /\ Len(ls) \in Nat
    OBVIOUS
<1>2. PICK after : InsertAll(t, cs) = after[Len(cs)] /\ AreInsertions(after, t, cs, Len(cs))
    BY <1>1, InsertAllStep
<1>3. after[0] = t /\ \A k \in 0 .. Len(cs) - 1 : Inserts(after, cs, k)
    BY <1>1, <1>2, AreInsertionsStep
<1>. DEFINE Upto(k) == ls \o SubSeq(cs, 1, k)
            Good == {k \in Nat : k <= Len(cs) => Agrees(after[k], Upto(k))}
<1>4. 0 \in Good
    <2>1. Upto(0) = ls
        OBVIOUS
    <2>. QED BY <1>3, <2>1
<1>5. ASSUME NEW k \in Good PROVE k + 1 \in Good
    <2>. SUFFICES ASSUME k + 1 <= Len(cs) PROVE Agrees(after[k + 1], Upto(k + 1))
        OBVIOUS
    <2>1. k \in Nat /\ k \in 0 .. Len(cs) - 1 /\ k + 1 \in 1 .. Len(cs) /\ k <= Len(cs)
        BY <1>1
    <2>2. Upto(k) \in Seq(S) /\ cs[k + 1] \in S
        BY <2>1
    <2>3. Upto(k + 1) = Append(Upto(k), cs[k + 1])
        BY <1>1, <2>1
    <2>4. Agrees(after[k], Upto(k))
        BY <2>1
    <2>5. Len(Upto(k)) = Len(ls) + k
        BY <1>1, <2>1
    <2>6. HasRoom(after[k].next_index)
        <3>1. after[k].next_index = Len(ls) + k
            BY <2>4, <2>5 DEF Agrees
        <3>. QED BY <1>1, <2>1, <3>1, Widths DEF HasRoom
    <2>. HIDE DEF Upto
    <2>7. after[k + 1] = InsertLeaf(after[k], cs[k + 1])
        BY <1>3, <2>1 DEF Inserts
    <2>. QED BY <2>2, <2>3, <2>4, <2>6, <2>7, InsertLeafAgrees
<1>6. Good = Nat
    <2>1. Good \in SUBSET Nat
        OBVIOUS
    <2>. HIDE DEF Good
    <2>. QED BY <1>4, <1>5, <2>1, NatSetInduction
<1>7. Upto(Len(cs)) = ls \o cs
    BY <1>1
<1>8. Agrees(after[Len(cs)], Upto(Len(cs)))
    BY <1>1, <1>6
<1>. HIDE DEF Upto
<1>. QED BY <1>2, <1>7, <1>8

(* What the callers check before: room for each of n more leaves. *)
LEMMA RoomFor ==
    ASSUME NEW t, t.next_index \in Nat, t.next_index <= Capacity, NEW n \in Nat, HasRoomFor(t, n)
    PROVE  t.next_index + n <= Capacity
<1>1. CASE n = 0
    BY <1>1
<1>2. CASE n # 0
    <2>1. n - 1 \in 0 .. n - 1
        BY <1>2
    <2>2. HasRoom(t.next_index + (n - 1))
        BY <2>1 DEF HasRoomFor
    <2>3. t.next_index + (n - 1) < Capacity
        BY <2>1, <2>2 DEF HasRoom
    <2>. QED BY <2>3, Widths
<1>. QED BY <1>1, <1>2

------------------------------------------------------------------------------
(* The client's tree, and its paths in the circuits. *)

(* Row up, over a row of n + 1 nodes whose last may lack a sibling. *)
Pairs(up, row, n, level) ==
    /\ Len(up) = n \div 2 + 1
    /\ \A k \in 0 .. n \div 2 :
          up[k + 1] = Hash(row[2*k + 1], IF 2*k + 1 <= n THEN row[2*k + 2] ELSE Zeros[level])

LEMMA Paired ==
    ASSUME NEW row, NEW n \in Nat, Len(row) = n + 1, NEW level
    PROVE  Pairs(NextLevel(row, level), row, n, level)
<1>1. (Len(row) + 1) \div 2 = n \div 2 + 1 /\ n \div 2 \in Nat
    OBVIOUS
<1>. DEFINE up(k) == Hash(row[2*k - 1], IF 2*k <= Len(row) THEN row[2*k] ELSE Zeros[level])
<1>2. NextLevel(row, level) = [k \in 1 .. n \div 2 + 1 |-> up(k)]
    BY <1>1 DEF NextLevel
<1>3. \A k \in 0 .. n \div 2 :
        /\ k + 1 \in 1 .. n \div 2 + 1
        /\ up(k + 1) = Hash(row[2*k + 1], IF 2*k + 1 <= n THEN row[2*k + 2] ELSE Zeros[level])
    <2>. SUFFICES ASSUME NEW k \in 0 .. n \div 2
                  PROVE  /\ k + 1 \in 1 .. n \div 2 + 1
                         /\ up(k + 1)
                            = Hash(row[2*k + 1], IF 2*k + 1 <= n THEN row[2*k + 2] ELSE Zeros[level])
        OBVIOUS
    <2>1. 2*(k + 1) - 1 = 2*k + 1 /\ 2*(k + 1) = 2*k + 2
        OBVIOUS
    <2>2. (2*k + 2 <= Len(row)) = (2*k + 1 <= n)
        OBVIOUS
    <2>. QED BY <1>1, <2>1, <2>2
<1>. HIDE DEF up
<1>4. Len([k \in 1 .. n \div 2 + 1 |-> up(k)]) = n \div 2 + 1
    BY <1>1
<1>. QED BY <1>2, <1>3, <1>4 DEF Pairs

(* The leaves' last node on a level, and zeros to its right. *)
LEMMA PaddingIsZero ==
    ASSUME NEW S, NEW ls \in Seq(S), ls # <<>>, Len(ls) <= Capacity, NEW level \in 0 .. DEPTH,
           NEW k \in 0 .. Width(level) - 1, k > Above(Len(ls) - 1, level)
    PROVE  Node(ls)[level][k] = Zeros[level]
<1>1. Len(ls) - 1 \in Nat /\ level \in Nat
    BY Widths
<1>2. ASSUME NEW i \in 0 .. Capacity - 1, Above(i, level) = k PROVE Leaf(ls, i) = ZeroLeaf
    <2>1. i \in Nat
        BY Widths
    <2>2. i <= Len(ls) - 1 => Above(i, level) <= Above(Len(ls) - 1, level)
        BY <1>1, <2>1, AboveMonotone
    <2>3. Above(Len(ls) - 1, level) \in Nat /\ k \in Nat
        BY <1>1, AboveSteps, Widths
    <2>4. ~ (i < Len(ls))
        BY <1>1, <1>2, <2>1, <2>2, <2>3
    <2>. QED BY <2>4 DEF Leaf
<1>. QED BY <1>2, NodeOfZeros

LEMMA ClientNodes ==
    ASSUME NEW S, NEW ls \in Seq(S), ls # <<>>, Len(ls) <= Capacity
    PROVE  \A level \in 0 .. DEPTH :
              /\ Len(ClientLevels(ls)[level]) = Above(Len(ls) - 1, level) + 1
              /\ \A k \in 0 .. Above(Len(ls) - 1, level) :
                    ClientLevels(ls)[level][k + 1] = Node(ls)[level][k]
<1>. DEFINE rows == ClientLevels(ls)
            n == Len(ls) - 1
            Is(l) == /\ Len(rows[l]) = Above(n, l) + 1
                     /\ \A k \in 0 .. Above(n, l) : rows[l][k + 1] = Node(ls)[l][k]
            Good == {l \in Nat : l <= DEPTH => Is(l)}
<1>1. n \in Nat /\ n \in 0 .. Capacity - 1
    BY Widths
<1>2. 0 \in Good
    <2>1. Above(n, 0) = n /\ rows[0] = ls
        BY <1>1, AboveSteps, ClientLevelsStep
    <2>2. ASSUME NEW k \in 0 .. n PROVE ls[k + 1] = Node(ls)[0][k]
        <3>1. k \in 0 .. Width(0) - 1 /\ k < Len(ls)
            BY <1>1, Widths
        <3>. QED BY <3>1, NodeStep DEF Leaf
    <2>3. Len(ls) = n + 1
        OBVIOUS
    <2>. HIDE DEF rows, n
    <2>. QED BY <2>1, <2>2, <2>3
<1>3. ASSUME NEW l \in Good PROVE l + 1 \in Good
    <2>. SUFFICES ASSUME l + 1 <= DEPTH PROVE Is(l + 1)
        OBVIOUS
    <2>1. l \in Levels /\ l \in 0 .. DEPTH /\ l + 1 \in 0 .. DEPTH /\ l \in Nat
        BY Widths DEF Levels
    <2>. DEFINE a == Above(n, l)
                b == Above(n, l + 1)
    <2>2. a \in Nat /\ b = a \div 2 /\ b \in 0 .. Width(l + 1) - 1 /\ a \in 0 .. Width(l) - 1
        BY <1>1, <2>1, AboveSteps, AboveInTree
    <2>3. Len(rows[l]) = a + 1 /\ \A k \in 0 .. a : rows[l][k + 1] = Node(ls)[l][k]
        BY <2>1
    <2>4. rows[l + 1] = NextLevel(rows[l], l)
        BY <2>1, ClientLevelsStep
    <2>. HIDE DEF rows
    <2>5. /\ Len(rows[l + 1]) = b + 1
          /\ \A k \in 0 .. b :
                rows[l + 1][k + 1]
                  = Hash(rows[l][2*k + 1], IF 2*k + 1 <= a THEN rows[l][2*k + 2] ELSE Zeros[l])
        <3>. HIDE DEF a, b
        <3>1. Pairs(rows[l + 1], rows[l], a, l)
            BY <2>2, <2>3, <2>4, Paired
        <3>. QED BY <2>2, <3>1 DEF Pairs
    <2>6. ASSUME NEW k \in 0 .. b PROVE rows[l + 1][k + 1] = Node(ls)[l + 1][k]
        <3>1. k \in 0 .. Width(l + 1) - 1
            BY <2>1, <2>2, Widths, SMTT(30)
        <3>2. 2*k \in 0 .. Width(l) - 1 /\ 2*k + 1 \in 0 .. Width(l) - 1
            BY <2>1, <3>1, Children
        <3>3. Node(ls)[l + 1][k] = Hash(Node(ls)[l][2*k], Node(ls)[l][2*k + 1])
            BY <2>1, <3>1, NodeStep
        <3>4. 2*k \in 0 .. a
            BY <2>2
        <3>5. rows[l][2*k + 1] = Node(ls)[l][2*k]
            BY <2>3, <3>4
        <3>6. (IF 2*k + 1 <= a THEN rows[l][2*k + 2] ELSE Zeros[l]) = Node(ls)[l][2*k + 1]
            <4>1. CASE 2*k + 1 <= a
                <5>1. 2*k + 1 \in 0 .. a /\ (2*k + 1) + 1 = 2*k + 2
                    BY <2>2, <4>1
                <5>2. rows[l][(2*k + 1) + 1] = Node(ls)[l][2*k + 1]
                    BY <2>3, <5>1
                <5>. QED BY <4>1, <5>1, <5>2
            <4>2. CASE ~ (2*k + 1 <= a)
                <5>1. 2*k + 1 > Above(Len(ls) - 1, l)
                    BY <2>2, <4>2
                <5>2. Node(ls)[l][2*k + 1] = Zeros[l]
                    BY <2>1, <3>2, <5>1, PaddingIsZero
                <5>. QED BY <4>2, <5>2
            <4>. QED BY <4>1, <4>2
        <3>. QED BY <2>5, <3>3, <3>5, <3>6
    <2>. QED BY <2>5, <2>6
<1>4. Good = Nat
    <2>1. Good \in SUBSET Nat
        OBVIOUS
    <2>. HIDE DEF Good
    <2>. QED BY <1>2, <1>3, <2>1, NatSetInduction
<1>5. \A level \in 0 .. DEPTH : level \in Nat /\ level <= DEPTH
    BY Widths
<1>6. \A level \in 0 .. DEPTH : Is(level)
    BY <1>4, <1>5
<1>. QED BY <1>6

LEMMA ClientRootIsNode ==
    ASSUME NEW S, NEW ls \in Seq(S), Len(ls) <= Capacity
    PROVE  ClientRoot(ls) = Node(ls)[DEPTH][0]
<1>1. CASE ls = <<>>
    <2>1. NewTree.current_root = Zeros[DEPTH]
        BY DEF NewTree
    <2>2. NewTree.current_root = Node(ls)[DEPTH][0]
        BY <1>1, NewTreeAgrees DEF Agrees
    <2>. QED BY <1>1, <2>1, <2>2 DEF ClientRoot
<1>2. CASE ls # <<>>
    <2>1. DEPTH \in 0 .. DEPTH /\ Width(DEPTH) = 1 /\ Len(ls) - 1 \in 0 .. Capacity - 1
        BY <1>2, Widths
    <2>2. Above(Len(ls) - 1, DEPTH) = 0
        BY <2>1, AboveInTree
    <2>3. ClientLevels(ls)[DEPTH][0 + 1] = Node(ls)[DEPTH][0]
        BY <1>2, <2>1, <2>2, ClientNodes
    <2>. QED BY <1>2, <2>3 DEF ClientRoot
<1>. QED BY <1>1, <1>2

LEMMA PathIsNodes ==
    ASSUME NEW S, NEW ls \in Seq(S), Len(ls) <= Capacity, NEW index \in 0 .. Len(ls) - 1,
           NEW level \in Levels
    PROVE  PathFor(ls, index)[level] = Node(ls)[level][Sibling(Above(index, level))]
<1>. DEFINE sibling == Sibling(Above(index, level))
            last == Above(Len(ls) - 1, level)
            row == ClientLevels(ls)[level]
<1>1. /\ level \in Nat /\ level \in 0 .. DEPTH /\ Len(ls) \in Nat /\ ls # <<>>
      /\ index \in 0 .. Capacity - 1 /\ index \in Nat /\ Len(ls) - 1 \in Nat
    BY Widths DEF Levels
<1>2. last \in Nat /\ Above(index, level) \in 0 .. Width(level) - 1
    BY <1>1, AboveSteps, AboveInTree
<1>3. sibling \in 0 .. Width(level) - 1
    <2>1. Width(level) = 2 * Width(level + 1) /\ Width(level + 1) \in Nat
        BY <1>1, Widths DEF Levels
    <2>2. \A w \in Nat : \A a \in 0 .. 2*w - 1 :
            (a % 2 = 1 => a - 1 \in 0 .. 2*w - 1) /\ (a % 2 # 1 => a + 1 \in 0 .. 2*w - 1)
        OBVIOUS
    <2>. QED BY <1>2, <2>1, <2>2 DEF Sibling
<1>4. PathFor(ls, index)[level] = IF sibling < Len(row) THEN row[sibling + 1] ELSE Zeros[level]
    BY DEF PathFor, Above
<1>5. Len(row) = last + 1 /\ \A k \in 0 .. last : row[k + 1] = Node(ls)[level][k]
    BY <1>1, ClientNodes
<1>6. CASE sibling < Len(row)
    <2>. HIDE DEF sibling, last, row
    <2>1. sibling \in 0 .. last
        BY <1>2, <1>3, <1>5, <1>6
    <2>. QED BY <1>4, <1>5, <1>6, <2>1 DEF sibling
<1>7. CASE ~ (sibling < Len(row))
    <2>1. sibling > last
        <3>. HIDE DEF sibling, last, row
        <3>1. \A w \in Nat : sibling \in 0 .. w - 1 => sibling \in Nat
            OBVIOUS
        <3>2. sibling \in Nat
            BY <1>1, <1>3, <3>1, Widths
        <3>. QED BY <1>2, <1>5, <1>7, <3>2
    <2>2. Node(ls)[level][sibling] = Zeros[level]
        <3>. HIDE DEF sibling
        <3>. QED BY <1>1, <1>3, <2>1, PaddingIsZero
    <2>. HIDE DEF sibling, last, row
    <2>. QED BY <1>4, <1>7, <2>2 DEF sibling
<1>. QED BY <1>6, <1>7

(* MerkleTree.pathFor and the circuits' MerkleInclusion: the path of any   *)
(* leaf leads to the root of the full tree. *)
LEMMA PathLeadsToRoot ==
    ASSUME NEW S, NEW ls \in Seq(S), Len(ls) <= Capacity, NEW index \in 0 .. Len(ls) - 1
    PROVE  RootFrom(ls[index + 1], index, PathFor(ls, index)) = Node(ls)[DEPTH][0]
<1>. DEFINE path == PathFor(ls, index)
<1>1. PICK cur : /\ RootFrom(ls[index + 1], index, path) = cur[DEPTH]
                 /\ cur[0] = ls[index + 1]
                 /\ \A level \in Levels : cur[level + 1] = Climb(index, path, path, level, cur[level])
    <2>. HIDE DEF path
    <2>. QED BY RootFromStep
<1>2. index \in 0 .. Capacity - 1 /\ index \in Nat /\ index < Len(ls)
    BY Widths
<1>. DEFINE Good == {l \in Nat : l <= DEPTH => cur[l] = Node(ls)[l][Above(index, l)]}
<1>3. 0 \in Good
    <2>1. Above(index, 0) = index /\ Node(ls)[0][index] = Leaf(ls, index)
        BY <1>2, AboveSteps, NodeStep, Widths
    <2>. QED BY <1>1, <1>2, <2>1 DEF Leaf
<1>4. ASSUME NEW l \in Good PROVE l + 1 \in Good
    <2>. SUFFICES ASSUME l + 1 <= DEPTH PROVE cur[l + 1] = Node(ls)[l + 1][Above(index, l + 1)]
        OBVIOUS
    <2>1. l \in Levels /\ l + 1 \in 0 .. DEPTH /\ l \in Nat /\ l <= DEPTH
        BY Widths DEF Levels
    <2>. DEFINE a == Above(index, l)
                b == Above(index, l + 1)
    <2>2. a \in Nat /\ b = a \div 2 /\ b \in 0 .. Width(l + 1) - 1
        BY <1>2, <2>1, AboveSteps, AboveInTree
    <2>3. Node(ls)[l + 1][b] = Hash(Node(ls)[l][2*b], Node(ls)[l][2*b + 1])
        BY <2>1, <2>2, NodeStep
    <2>4. cur[l] = Node(ls)[l][a]
        BY <2>1
    <2>5. path[l] = Node(ls)[l][Sibling(a)]
        BY <2>1, PathIsNodes
    <2>6. cur[l + 1] = IF IsRight(index, l) THEN Hash(path[l], cur[l]) ELSE Hash(cur[l], path[l])
        BY <1>1, <2>1 DEF Climb
    <2>7. IsRight(index, l) <=> a % 2 = 1
        BY DEF IsRight, Above
    <2>8. /\ a % 2 = 1 => a = 2*b + 1 /\ Sibling(a) = 2*b
          /\ a % 2 # 1 => a = 2*b /\ Sibling(a) = 2*b + 1
        <3>1. \A x \in Nat : /\ x % 2 = 1 => x = 2 * (x \div 2) + 1 /\ x - 1 = 2 * (x \div 2)
                             /\ x % 2 # 1 => x = 2 * (x \div 2)
            OBVIOUS
        <3>. HIDE DEF a, b
        <3>. QED BY <2>2, <3>1 DEF Sibling
    <2>. HIDE DEF path, a, b
    <2>9. cur[l + 1] = Node(ls)[l + 1][b]
        BY <2>3, <2>4, <2>5, <2>6, <2>7, <2>8
    <2>. QED BY <2>9 DEF b
<1>5. Good = Nat
    <2>1. Good \in SUBSET Nat
        OBVIOUS
    <2>. HIDE DEF Good
    <2>. QED BY <1>3, <1>4, <2>1, NatSetInduction
<1>6. DEPTH \in Nat /\ DEPTH \in 0 .. DEPTH /\ Width(DEPTH) = 1
    BY Widths
<1>7. Above(index, DEPTH) = 0
    BY <1>2, <1>6, AboveInTree
<1>8. cur[DEPTH] = Node(ls)[DEPTH][Above(index, DEPTH)]
    BY <1>5, <1>6
<1>. QED BY <1>1, <1>7, <1>8

(* And no path leads there from anything but the leaf at its index: with   *)
(* hashes that do not collide, what a spender's circuit accepts as a note  *)
(* of the tree is the one committed at that position, or the empty leaf    *)
(* beyond them (merkle.circom). *)
THEOREM InclusionIsSound ==
    ASSUME NEW ls, NEW leaf, NEW index \in 0 .. Capacity - 1, NEW path,
           MerkleInclusion(leaf, Node(ls)[DEPTH][0], index, path)
    PROVE  leaf = Leaf(ls, index)
<1>1. PICK cur : /\ RootFrom(leaf, index, path) = cur[DEPTH]
                 /\ cur[0] = leaf
                 /\ \A level \in Levels : cur[level + 1] = Climb(index, path, path, level, cur[level])
    BY RootFromStep
<1>2. index \in Nat /\ DEPTH \in Nat /\ DEPTH \in 0 .. DEPTH /\ Width(DEPTH) = 1
    BY Widths
<1>. DEFINE Good == {n \in Nat : n <= DEPTH =>
                        cur[DEPTH - n] = Node(ls)[DEPTH - n][Above(index, DEPTH - n)]}
<1>3. 0 \in Good
    <2>1. Above(index, DEPTH) = 0 /\ DEPTH - 0 = DEPTH
        BY <1>2, AboveInTree
    <2>2. cur[DEPTH] = Node(ls)[DEPTH][0]
        BY <1>1 DEF MerkleInclusion
    <2>. QED BY <2>1, <2>2
<1>4. ASSUME NEW n \in Good PROVE n + 1 \in Good
    <2>. DEFINE l == DEPTH - (n + 1)
    <2>. SUFFICES ASSUME n + 1 <= DEPTH PROVE cur[l] = Node(ls)[l][Above(index, l)]
        OBVIOUS
    <2>1. l \in Levels /\ l + 1 \in 0 .. DEPTH /\ l \in Nat /\ l + 1 = DEPTH - n /\ n <= DEPTH
        BY <1>2 DEF Levels
    <2>. DEFINE a == Above(index, l)
                b == Above(index, l + 1)
    <2>2. cur[l + 1] = Node(ls)[l + 1][b]
        BY <2>1
    <2>. HIDE DEF l
    <2>3. a \in Nat /\ b = a \div 2 /\ b \in 0 .. Width(l + 1) - 1
        BY <1>2, <2>1, AboveSteps, AboveInTree
    <2>4. Node(ls)[l + 1][b] = Hash(Node(ls)[l][2*b], Node(ls)[l][2*b + 1])
        BY <2>1, <2>3, NodeStep
    <2>5. cur[l + 1] = IF IsRight(index, l) THEN Hash(path[l], cur[l]) ELSE Hash(cur[l], path[l])
        BY <1>1, <2>1 DEF Climb
    <2>6. \A x, y, z, w : Hash(x, y) = Hash(z, w) => x = z /\ y = w
        BY DEF Hash
    <2>7. IsRight(index, l) <=> a % 2 = 1
        BY DEF IsRight, Above
    <2>8. (a % 2 = 1 => a = 2*b + 1) /\ (a % 2 # 1 => a = 2*b)
        <3>1. \A x \in Nat : (x % 2 = 1 => x = 2 * (x \div 2) + 1) /\ (x % 2 # 1 => x = 2 * (x \div 2))
            OBVIOUS
        <3>. HIDE DEF a, b
        <3>. QED BY <2>3, <3>1
    <2>. HIDE DEF a, b
    <2>9. cur[l] = Node(ls)[l][a]
        BY <2>2, <2>4, <2>5, <2>6, <2>7, <2>8
    <2>. QED BY <2>9 DEF a
<1>5. Good = Nat
    <2>1. Good \in SUBSET Nat
        OBVIOUS
    <2>. HIDE DEF Good
    <2>. QED BY <1>3, <1>4, <2>1, NatSetInduction
<1>6. cur[0] = Node(ls)[0][Above(index, 0)]
    <2>1. DEPTH \in Good
        <3>. HIDE DEF Good
        <3>. QED BY <1>2, <1>5
    <2>2. DEPTH <= DEPTH /\ DEPTH - DEPTH = 0
        BY <1>2
    <2>. QED BY <2>1, <2>2
<1>7. Above(index, 0) = index /\ Node(ls)[0][index] = Leaf(ls, index)
    BY <1>2, AboveSteps, NodeStep, Widths
<1>. QED BY <1>1, <1>6, <1>7
===============================================================================

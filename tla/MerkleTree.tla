------------------------------ MODULE MerkleTree ------------------------------
(***************************************************************************)
(* The three Merkle trees that must agree bit for bit: the contract's,     *)
(* which keeps one hash per level (contract/src/merkle.rs), the client's,  *)
(* which keeps all the leaves and computes roots and paths from them       *)
(* (sdk/packages/client/src/merkle-tree.ts), and the inclusion check of    *)
(* the circuits (circom/circuits/lib/merkle.circom).  Poseidon is a free   *)
(* constructor: two hashes are equal only for equal arguments.             *)
(***************************************************************************)
EXTENDS Integers, Sequences

CONSTANTS
    DEPTH,      \* lib.rs TREE_DEPTH, merkle-tree.ts TREE_DEPTH, 20
    ZeroLeaf    \* Field::zero()

\* merkle.rs, new: "depth must be in 1..=32"
ASSUME DepthAssumption == DEPTH \in 1 .. 32

VARIABLES
    tree,     \* the contract's IncrementalMerkleTree
    leaves    \* the client's leaves, fed from the contract's events

Hash(left, right) == <<"poseidon2", left, right>>

Levels == 0 .. DEPTH - 1

Zeros[level \in 0 .. DEPTH] ==
    IF level = 0 THEN ZeroLeaf ELSE Hash(Zeros[level - 1], Zeros[level - 1])

(* The bit of a leaf index that says on which side its path enters level.  *)
IsRight(index, level) == (index \div 2 ^ level) % 2 = 1

Capacity == 2 ^ DEPTH

------------------------------------------------------------------------------
(* The contract. *)

NewTree ==
    [ next_index      |-> 0,
      filled_subtrees |-> [level \in Levels |-> Zeros[level]],
      current_root    |-> Zeros[DEPTH] ]

(* The nodes an insertion computes from the leaf up, level by level: a     *)
(* right child meets the remembered left sibling, a left child the empty   *)
(* subtree.                                                                *)
PathUp(t, leaf) ==
    LET node[level \in 0 .. DEPTH] ==
            IF level = 0 THEN leaf
            ELSE IF IsRight(t.next_index, level - 1)
                 THEN Hash(t.filled_subtrees[level - 1], node[level - 1])
                 ELSE Hash(node[level - 1], Zeros[level - 1])
    IN  node

\* Fault: a right child overwrites the left sibling too.
RememberBoth(t, up) == [level \in Levels |-> up[level]]

(* The left siblings an insertion leaves behind. *)
Remember(t, up) ==
    [level \in Levels |-> IF IsRight(t.next_index, level)
                          THEN t.filled_subtrees[level] ELSE up[level]]

\* Fault: the capacity check is off by one.
HasRoomLate(index) == index <= Capacity

HasRoom(index) == index < Capacity

InsertLeaf(t, leaf) ==
    LET up == PathUp(t, leaf) IN
    [ next_index      |-> t.next_index + 1,
      filled_subtrees |-> Remember(t, up),
      current_root    |-> up[DEPTH] ]

------------------------------------------------------------------------------
(* The client. *)

\* Fault: an odd node out is paired with itself.
NextLevelDoubled(level, depth) ==
    [k \in 1 .. (Len(level) + 1) \div 2 |->
        Hash(level[2*k - 1],
             IF 2*k <= Len(level) THEN level[2*k] ELSE level[2*k - 1])]

NextLevel(level, depth) ==
    [k \in 1 .. (Len(level) + 1) \div 2 |->
        Hash(level[2*k - 1],
             IF 2*k <= Len(level) THEN level[2*k] ELSE Zeros[depth])]

ClientLevels(ls) ==
    LET nodes[level \in 0 .. DEPTH] ==
            IF level = 0 THEN ls ELSE NextLevel(nodes[level - 1], level - 1)
    IN  nodes

ClientRoot(ls) == IF ls = <<>> THEN Zeros[DEPTH] ELSE ClientLevels(ls)[DEPTH][1]

\* Fault: the sibling is always the node to the right.
SiblingRight(index) == index + 1

Sibling(index) == IF index % 2 = 1 THEN index - 1 ELSE index + 1

(* The siblings of a 0-based leaf index, from the leaf up. *)
PathFor(ls, index) ==
    LET nodes == ClientLevels(ls) IN
    [level \in Levels |->
        LET sibling == Sibling(index \div 2 ^ level) IN
        IF sibling < Len(nodes[level]) THEN nodes[level][sibling + 1]
        ELSE Zeros[level]]

------------------------------------------------------------------------------
(* The circuits: the root a leaf, its index and a path lead to. *)
RootFrom(leaf, index, path) ==
    LET cur[level \in 0 .. DEPTH] ==
            IF level = 0 THEN leaf
            ELSE IF IsRight(index, level - 1)
                 THEN Hash(path[level - 1], cur[level - 1])
                 ELSE Hash(cur[level - 1], path[level - 1])
    IN  cur[DEPTH]

MerkleInclusion(leaf, root, index, path) == RootFrom(leaf, index, path) = root

------------------------------------------------------------------------------
InsertAll(t, commitments) ==
    LET after[k \in 0 .. Len(commitments)] ==
            IF k = 0 THEN t ELSE InsertLeaf(after[k - 1], commitments[k])
    IN  after[Len(commitments)]

HasRoomFor(t, n) == \A k \in 0 .. n - 1 : HasRoom(t.next_index + k)

(* Some leaves have been committed before. *)
StartWith(commitments) ==
    /\ tree = InsertAll(NewTree, commitments)
    /\ leaves = commitments

(* The contract inserts a call's commitments, all or, by its panic, none;  *)
(* the client appends what the event names.                                *)
Insert(commitments) ==
    /\ HasRoomFor(tree, Len(commitments))
    /\ tree' = InsertAll(tree, commitments)
    /\ leaves' = leaves \o commitments

------------------------------------------------------------------------------
(* The definition the trees are measured against: the full binary tree     *)
(* over the leaves padded with the zero leaf.  Node(ls)[level][k] is the   *)
(* k-th subtree of 2^level leaves.                                         *)
Node(ls) ==
    LET node[level \in 0 .. DEPTH] ==
            [k \in 0 .. 2 ^ (DEPTH - level) - 1 |->
                IF level = 0
                THEN IF k < Len(ls) THEN ls[k + 1] ELSE ZeroLeaf
                ELSE Hash(node[level - 1][2*k], node[level - 1][2*k + 1])]
    IN  node

(* The contract never takes a leaf beyond its depth's capacity, and counts *)
(* the ones it took.                                                       *)
CountedWithinCapacity ==
    tree.next_index = Len(leaves) /\ tree.next_index <= Capacity

(* What the contract remembers: wherever the next leaf will enter a level  *)
(* from the right, the stored hash is the finished subtree to its left.    *)
FilledSubtreesAreLeftSiblings ==
    \A level \in Levels :
        IsRight(tree.next_index, level) =>
            tree.filled_subtrees[level]
                = Node(leaves)[level][(tree.next_index \div 2 ^ level) - 1]

(* The contract and the client compute the root of the padded tree,        *)
(* whatever the number of leaves: the one the circuits are given is the    *)
(* one the contract accepts.                                               *)
RootsAgree ==
    /\ tree.current_root = Node(leaves)[DEPTH][0]
    /\ ClientRoot(leaves) = tree.current_root

(* Every leaf is provable: the client's path leads the circuit from any    *)
(* leaf, old or new, to the contract's current root.                       *)
EveryPathVerifies ==
    \A index \in 0 .. Len(leaves) - 1 :
        MerkleInclusion(leaves[index + 1], tree.current_root, index, PathFor(leaves, index))
===============================================================================

---------------------------- MODULE ProofPathProofs ----------------------------
(***************************************************************************)
(* The path of a proof, for every depth, field, width and users' history:  *)
(* the trees of the pool and of its clients agree for good, the contract   *)
(* accepts the proofs that were made and each of them for one call only,   *)
(* and what the wallet builds has a witness.                               *)
(***************************************************************************)
EXTENDS E2EFixtures, MerkleTreeProofs, SequenceTheorems

Methods == {"deposit", "transfer", "withdraw"}

(* The client's leaves are a sequence, and the contract's tree is the one  *)
(* over them. *)
TreeFollows == \E S : leaves \in Seq(S) /\ Agrees(tree, leaves)

(* A step that inserts some commitments, or none. *)
Grows == UNCHANGED <<tree, leaves>> \/ \E S : \E cs \in Seq(S) : Insert(cs)

LEMMA TreeStarts ==
    ASSUME NEW S, NEW cs \in Seq(S), Len(cs) <= Capacity, StartWith(cs)
    PROVE  TreeFollows
<1>1. Len(<<>>) = 0 /\ <<>> \in Seq(S) /\ <<>> \o cs = cs /\ Len(<<>>) + Len(cs) = Len(cs)
    OBVIOUS
<1>2. Agrees(InsertAll(NewTree, cs), <<>> \o cs)
    BY <1>1, NewTreeAgrees, InsertAllAgrees
<1>. QED BY <1>1, <1>2 DEF StartWith, TreeFollows

LEMMA TreeGrows ==
    ASSUME TreeFollows, Grows
    PROVE  TreeFollows'
<1>1. CASE UNCHANGED <<tree, leaves>>
    BY <1>1 DEF TreeFollows
<1>2. CASE \E S : \E cs \in Seq(S) : Insert(cs)
    <2>1. PICK S1 : leaves \in Seq(S1) /\ Agrees(tree, leaves)
        BY DEF TreeFollows
    <2>2. PICK S2 : \E cs \in Seq(S2) : Insert(cs)
        BY <1>2
    <2>3. PICK cs \in Seq(S2) : Insert(cs)
        BY <2>2
    <2>. DEFINE S == S1 \cup S2
    <2>4. leaves \in Seq(S) /\ cs \in Seq(S) /\ Len(cs) \in Nat /\ Len(leaves) \in Nat
        BY <2>1, <2>3
    <2>. HIDE DEF S
    <2>5. tree.next_index = Len(leaves) /\ tree.next_index <= Capacity
        BY <2>1 DEF Agrees
    <2>6. tree.next_index + Len(cs) <= Capacity
        BY <2>3, <2>4, <2>5, RoomFor DEF Insert
    <2>7. Agrees(InsertAll(tree, cs), leaves \o cs)
        BY <2>1, <2>4, <2>5, <2>6, InsertAllAgrees
    <2>8. leaves' = leaves \o cs /\ tree' = InsertAll(tree, cs) /\ leaves \o cs \in Seq(S)
        BY <2>3, <2>4 DEF Insert
    <2>. QED BY <2>7, <2>8 DEF TreeFollows
<1>. QED BY <1>1, <1>2 DEF Grows

LEMMA TreeProperties ==
    ASSUME TreeFollows
    PROVE  /\ CountedWithinCapacity /\ FilledSubtreesAreLeftSiblings
           /\ RootsAgree /\ EveryPathVerifies
<1>1. PICK S : leaves \in Seq(S) /\ Agrees(tree, leaves)
    BY DEF TreeFollows
<1>2. CountedWithinCapacity
    BY <1>1 DEF Agrees, CountedWithinCapacity
<1>3. FilledSubtreesAreLeftSiblings
    BY <1>1 DEF Agrees, FilledSubtreesAreLeftSiblings, Above
<1>4. Len(leaves) <= Capacity
    BY <1>2 DEF CountedWithinCapacity
<1>5. RootsAgree
    BY <1>1, <1>4, ClientRootIsNode DEF Agrees, RootsAgree
<1>6. EveryPathVerifies
    <2>1. tree.current_root = Node(leaves)[DEPTH][0]
        BY <1>1 DEF Agrees
    <2>2. ASSUME NEW index \in 0 .. Len(leaves) - 1
          PROVE  RootFrom(leaves[index + 1], index, PathFor(leaves, index)) = Node(leaves)[DEPTH][0]
        BY <1>1, <1>4, PathLeadsToRoot
    <2>. QED BY <2>1, <2>2 DEF EveryPathVerifies, MerkleInclusion
<1>. QED BY <1>2, <1>3, <1>5, <1>6

------------------------------------------------------------------------------
(* What is under way is a deposit, a transfer or a withdraw. *)
JobShape == job.at \in {"requested", "built"} => job.order.tx.method \in Methods

LEMMA BuildersMethods ==
    /\ \A u, amount, auditor : BuildDeposit(u, amount, auditor).method \in Methods
    /\ \A u, ins, root, amount, to, auditor :
          BuildTransfer(u, ins, root, amount, to, auditor).method \in Methods
    /\ \A u, in, root, amount, to, fee : BuildWithdraw(u, in, root, amount, to, fee).method \in Methods
BY DEF Methods, BuildDeposit, BuildTransfer, BuildWithdraw

LEMMA EnvelopeMethods ==
    ASSUME NEW o, NEW root, NEW proof, o.tx.method \in Methods,
           NEW call \in Envelopes(o, BuiltTx(o, root, proof))
    PROVE  call.method = o.tx.method
<1>1. BuiltTx(o, root, proof).method = o.tx.method
    BY DEF BuiltTx
<1>. DEFINE tx == BuiltTx(o, root, proof)
<1>. HIDE DEF tx
<1>2. CASE tx.method = "deposit"
    BY <1>1, <1>2 DEF Envelopes, FtTransferCall, tx
<1>3. CASE tx.method = "transfer"
    BY <1>1, <1>3 DEF Envelopes, TransferCall, tx
<1>4. CASE tx.method = "withdraw"
    BY <1>1, <1>4 DEF Envelopes, WithdrawCall, SubmitWithdraw, tx
<1>. QED BY <1>1, <1>2, <1>3, <1>4 DEF Methods, tx

LEMMA CommitmentsAreASequence ==
    ASSUME NEW call, call.method \in Methods
    PROVE  \E S : Commitments(call) \in Seq(S)
<1>1. CASE call.method = "deposit"
    <2>1. Commitments(call) \in Seq({ParseHex32(call.args.commitment)})
        BY <1>1 DEF Commitments
    <2>. QED BY <2>1
<1>2. CASE call.method = "transfer"
    <2>1. Commitments(call) \in Seq({ParseHex32(call.args.commitments[1]),
                                     ParseHex32(call.args.commitments[2])})
        BY <1>2 DEF Commitments
    <2>. QED BY <2>1
<1>3. CASE call.method = "withdraw"
    <2>1. Commitments(call) \in Seq({})
        BY <1>3 DEF Commitments
    <2>. QED BY <2>1
<1>. QED BY <1>1, <1>2, <1>3 DEF Methods

LEMMA ApplyGrows == ASSUME NEW call, call.method \in Methods, Apply(call) PROVE Grows
BY CommitmentsAreASequence DEF Apply, Grows

------------------------------------------------------------------------------
(* The two specifications: users' transactions among strangers' deposits,  *)
(* and the fixtures replayed before them. *)
PathInv == TreeFollows /\ JobShape

LEMMA FunctionsAreSequences ==
    \A S : \A n \in Nat : \A s \in [1 .. n -> S] : s \in Seq(S) /\ Len(s) = n
OBVIOUS

LEMMA PathStarts == ASSUME Init PROVE PathInv
<1>1. PICK n \in 0 .. Capacity : StartWith([i \in 1 .. n |-> Stranger(i - 1)])
    BY DEF Init
<1>. DEFINE cs == [i \in 1 .. n |-> Stranger(i - 1)]
            S == {Stranger(i - 1) : i \in 1 .. n}
<1>2. cs \in Seq(S) /\ Len(cs) = n /\ n <= Capacity
    <2>1. n \in Nat /\ n <= Capacity
        BY Widths
    <2>2. cs \in [1 .. n -> S]
        OBVIOUS
    <2>. HIDE DEF cs, S
    <2>. QED BY <2>1, <2>2, FunctionsAreSequences
<1>3. TreeFollows
    <2>. HIDE DEF cs, S
    <2>. QED BY <1>1, <1>2, TreeStarts DEF cs
<1>4. JobShape
    BY DEF Init, Idle, JobShape
<1>. QED BY <1>3, <1>4 DEF PathInv

LEMMA StepsGrow ==
    ASSUME PathInv, Next
    PROVE  Grows
<1>1. ASSUME NEW call \in Envelopes(job.order, Built(job)), Apply(call), job.at = "built"
      PROVE  Grows
    <2>1. call.method \in Methods
        BY <1>1, EnvelopeMethods DEF PathInv, JobShape, Built
    <2>. QED BY <1>1, <2>1, ApplyGrows
<1>2. CASE Land
    BY <1>1, <1>2 DEF Land
<1>3. CASE StrangerDeposits
    <2>1. <<Stranger(tree.next_index)>> \in Seq({Stranger(tree.next_index)})
        OBVIOUS
    <2>. QED BY <1>3, <2>1 DEF StrangerDeposits, Grows
<1>4. CASE ~ Land /\ ~ StrangerDeposits
    BY <1>4 DEF Next, RequestDeposit, RequestTransfer, RequestWithdraw, ReturnProved,
                ReturnPlaceholder, NotProvable, Refuse, Grows
<1>. QED BY <1>2, <1>3, <1>4

LEMMA PathSteps ==
    ASSUME PathInv, Next
    PROVE  PathInv'
<1>1. Grows
    BY StepsGrow
<1>2. TreeFollows'
    BY <1>1, TreeGrows DEF PathInv
<1>3. JobShape'
    <2>1. ASSUME NEW user, NEW tx, NEW ins, NEW to, NEW relayer, tx.method \in Methods,
                 Request(Order(user, tx, ins, to, relayer))
          PROVE  JobShape'
        BY <2>1 DEF Request, Order, JobShape
    <2>2. ASSUME NEW auditor, NEW amount, RequestDeposit(amount, auditor) PROVE JobShape'
        BY <2>1, <2>2, BuildersMethods DEF RequestDeposit
    <2>3. ASSUME NEW user, NEW amount, NEW recipient, NEW auditor,
                 RequestTransfer(user, amount, recipient, auditor) PROVE JobShape'
        BY <2>1, <2>3, BuildersMethods DEF RequestTransfer
    <2>4. ASSUME NEW user, NEW amount, RequestWithdraw(user, amount) PROVE JobShape'
        BY <2>1, <2>4, BuildersMethods DEF RequestWithdraw
    <2>5. CASE ReturnProved \/ ReturnPlaceholder
        BY <2>5 DEF ReturnProved, ReturnPlaceholder, Return, PathInv, JobShape
    <2>6. CASE NotProvable \/ Land \/ Refuse
        BY <2>6 DEF NotProvable, Land, Refuse, Idle, JobShape
    <2>7. CASE StrangerDeposits
        BY <2>7 DEF StrangerDeposits, PathInv, JobShape
    <2>. QED BY <2>2, <2>3, <2>4, <2>5, <2>6, <2>7 DEF Next
<1>. QED BY <1>2, <1>3 DEF PathInv

E2EInv == PathInv /\ left \in 0 .. 4

LEMMA FixtureMethods == Len(Fixtures) = 4 /\ \A k \in 1 .. 4 : CallOf(Fixtures[k]).method \in Methods
<1>. DEFINE a == DepositFixture("A", CommitmentA, AMT_A, 1)
            b == DepositFixture("B", CommitmentB, AMT_B, 2)
<1>1. a.method = "deposit" /\ b.method = "deposit"
    BY DEF DepositFixture, Fixture
<1>2. TransferFixture.method = "transfer"
    BY DEF TransferFixture, Fixture
<1>3. WithdrawFixture.method = "withdraw"
    BY DEF WithdrawFixture, Fixture
<1>4. Fixtures = <<a, b, TransferFixture, WithdrawFixture>>
    BY DEF Fixtures
<1>. HIDE DEF a, b
<1>5. \A k \in 1 .. 4 : Fixtures[k].method \in Methods
    BY <1>1, <1>2, <1>3, <1>4 DEF Methods
<1>. QED BY <1>4, <1>5 DEF CallOf

LEMMA ReplayGrows == ASSUME E2EInv, Replay PROVE Grows
<1>1. Len(Fixtures) + 1 - left \in 1 .. 4
    BY FixtureMethods DEF Replay, E2EInv
<1>. QED BY <1>1, FixtureMethods, ApplyGrows DEF Replay, NextFixture

LEMMA TreeFollowsAlways == E2ESpec => []E2EInv
<1>1. E2EInit => E2EInv
    BY PathStarts, FixtureMethods DEF E2EInit, E2EInv
<1>2. E2EInv /\ [E2ENext]_<<vars, left>> => E2EInv'
    <2>. SUFFICES ASSUME E2EInv, [E2ENext]_<<vars, left>> PROVE E2EInv'
        OBVIOUS
    <2>1. CASE Replay
        <3>2. Grows
            BY <2>1, ReplayGrows
        <3>3. JobShape'
            BY <2>1 DEF Replay, E2EInv, PathInv, JobShape
        <3>4. left' \in 0 .. 4
            BY <2>1 DEF Replay, E2EInv
        <3>. QED BY <3>2, <3>3, <3>4, TreeGrows DEF E2EInv, PathInv
    <2>2. CASE Next /\ UNCHANGED left
        BY <2>2, PathSteps DEF E2EInv
    <2>3. CASE UNCHANGED <<vars, left>>
        BY <2>3 DEF vars, E2EInv, PathInv, TreeFollows, JobShape
    <2>. QED BY <2>1, <2>2, <2>3 DEF E2ENext
<1>. QED BY <1>1, <1>2, PTL DEF E2ESpec

(* The contract takes as many leaves as its tree has room for, never one   *)
(* more, and counts them: the overflow panics come in time (merkle.rs,     *)
(* insert). *)
THEOREM LeavesAreCounted == E2ESpec => []CountedWithinCapacity
<1>1. E2EInv => CountedWithinCapacity
    BY TreeProperties DEF E2EInv, PathInv
<1>. QED BY <1>1, TreeFollowsAlways, PTL

(* The contract's one hash per level is enough: whatever it will need of   *)
(* the past to insert the next leaf is what it has remembered (merkle.rs,  *)
(* filled_subtrees). *)
THEOREM LeftSiblingsAreRemembered == E2ESpec => []FilledSubtreesAreLeftSiblings
<1>1. E2EInv => FilledSubtreesAreLeftSiblings
    BY TreeProperties DEF E2EInv, PathInv
<1>. QED BY <1>1, TreeFollowsAlways, PTL

(* The incremental root of the contract is the client's recomputed one and *)
(* the root of the full tree, for every depth and number of leaves         *)
(* (merkle.rs, MerkleTree.root). *)
THEOREM RootsAlwaysAgree == E2ESpec => []RootsAgree
<1>1. E2EInv => RootsAgree
    BY TreeProperties DEF E2EInv, PathInv
<1>. QED BY <1>1, TreeFollowsAlways, PTL

(* Every committed note can be proved to be in the contract's tree, with   *)
(* the path of its client, for good (MerkleTree.pathFor, merkle.circom).   *)
THEOREM EveryNoteIsProvable == E2ESpec => []EveryPathVerifies
<1>1. E2EInv => EveryPathVerifies
    BY TreeProperties DEF E2EInv, PathInv
<1>. QED BY <1>1, TreeFollowsAlways, PTL

------------------------------------------------------------------------------
(* Wallets and the orders made of them. *)

NoteSet == [amount : Nat, owner : Users, auditor : Auditors]

FoundNote == [leafIndex : Nat, note : NoteSet]

WalletSet == WalletsOf(FoundNote, Nat)

(* The notes an order creates are sealed to their owners, and as many as   *)
(* its method says. *)
OrderSealed(tx) ==
    /\ tx.method \in Methods
    /\ tx.creates \in Seq(NoteSet) /\ tx.noteCts \in Seq([holder : Users, payload : NoteSet])
    /\ Len(tx.noteCts) = Len(tx.creates)
    /\ tx.method = "deposit" => Len(tx.creates) = 1
    /\ tx.method = "transfer" => Len(tx.creates) = 2
    /\ tx.method = "withdraw" => Len(tx.creates) = 0
    /\ \A k \in DOMAIN tx.creates : tx.noteCts[k] = Sealed(tx.creates[k].owner, tx.creates[k])
    /\ tx.spends \in Seq(Nat)

OrderTyped(o) ==
    /\ OrderSealed(o.tx) /\ o.user \in Users
    /\ o.tx.method = "transfer" => o.inputs \in Seq(FoundNote) /\ Len(o.inputs) = 2

LEMMA NoteType ==
    ASSUME NEW a \in Nat, NEW u \in Users, NEW x \in Auditors
    PROVE  /\ Note(a, u, x) \in NoteSet /\ Note(a, u, x).owner = u
           /\ Sealed(u, Note(a, u, x)) \in [holder : Users, payload : NoteSet]
BY DEF Note, NoteSet, Sealed

LEMMA DepositSealed ==
    ASSUME NEW u \in Users, NEW a \in Nat, NEW x \in Auditors
    PROVE  OrderSealed(BuildDeposit(u, a, x))
<1>. DEFINE tx == BuildDeposit(u, a, x)
            n == Note(a, u, x)
<1>1. /\ tx.method = "deposit" /\ tx.creates = <<n>> /\ tx.noteCts = <<Sealed(u, n)>>
      /\ tx.spends = <<>>
    BY DEF BuildDeposit
<1>2. n \in NoteSet /\ n.owner = u /\ Sealed(u, n) \in [holder : Users, payload : NoteSet]
    BY NoteType
<1>. HIDE DEF tx, n
<1>3. OrderSealed(tx)
    BY <1>1, <1>2 DEF OrderSealed, Methods
<1>. QED BY <1>3 DEF tx

LEMMA TransferSealed ==
    ASSUME NEW u \in Users, NEW w \in WalletSet, NEW root, NEW a \in Nat, NEW v \in Users,
           NEW x \in Auditors, TransferPairs(w, a) # {}
    PROVE  /\ OrderSealed(BuildTransfer(u, FindTransferInputs(w, a), root, a, v, x))
           /\ FindTransferInputs(w, a) \in Seq(FoundNote) /\ Len(FindTransferInputs(w, a)) = 2
<1>. DEFINE ins == FindTransferInputs(w, a)
            tx == BuildTransfer(u, ins, root, a, v, x)
            rest == ins[1].note.amount + ins[2].note.amount - a
            y == ins[1].note.auditor
<1>1. PICK p \in TransferPairs(w, a) : ins = <<w.notes[p[1]], w.notes[p[2]]>>
    BY TransferInputsAreAPair DEF WalletSet, WalletsOf
<1>2. /\ p[1] \in DOMAIN w.notes /\ p[2] \in DOMAIN w.notes
      /\ w.notes[p[1]].note.amount + w.notes[p[2]].note.amount >= a
    BY DEF TransferPairs
<1>3. w.notes[p[1]] \in FoundNote /\ w.notes[p[2]] \in FoundNote
    BY <1>2 DEF WalletSet, WalletsOf
<1>4. /\ ins \in Seq(FoundNote) /\ Len(ins) = 2 /\ ins[1] \in FoundNote /\ ins[2] \in FoundNote
      /\ ins[1].note.amount + ins[2].note.amount >= a
    BY <1>1, <1>2, <1>3
<1>. HIDE DEF ins
<1>5. rest \in Nat /\ y \in Auditors /\ ins[1].leafIndex \in Nat /\ ins[2].leafIndex \in Nat
    BY <1>4 DEF FoundNote, NoteSet
<1>. DEFINE n == Note(a, v, x)
            m == Note(rest, u, y)
<1>6. /\ tx.method = "transfer" /\ tx.creates = <<n, m>>
      /\ tx.noteCts = <<Sealed(v, n), Sealed(u, m)>>
      /\ tx.spends = <<ins[1].leafIndex, ins[2].leafIndex>>
    <2>1. ins[1].note.amount \in Nat /\ ins[2].note.amount \in Nat
        BY <1>4 DEF FoundNote, NoteSet
    <2>. QED BY <2>1 DEF BuildTransfer
<1>7. /\ n \in NoteSet /\ n.owner = v /\ Sealed(v, n) \in [holder : Users, payload : NoteSet]
      /\ m \in NoteSet /\ m.owner = u /\ Sealed(u, m) \in [holder : Users, payload : NoteSet]
    <2>. HIDE DEF rest, y
    <2>. QED BY <1>5, NoteType
<1>. HIDE DEF tx, n, m
<1>8. OrderSealed(tx)
    BY <1>5, <1>6, <1>7 DEF OrderSealed, Methods
<1>. QED BY <1>4, <1>8 DEF tx, ins

LEMMA WithdrawSealed ==
    ASSUME NEW u \in Users, NEW w \in WalletSet, NEW root, NEW a \in Nat, NEW to, NEW fee,
           WithdrawNotes(w, a) # {}
    PROVE  OrderSealed(BuildWithdraw(u, FindWithdrawNote(w, a), root, a, to, fee))
<1>. DEFINE in == FindWithdrawNote(w, a)
            tx == BuildWithdraw(u, in, root, a, to, fee)
<1>1. PICK k \in WithdrawNotes(w, a) : in = w.notes[k]
    BY WithdrawNoteIsOne DEF WalletSet, WalletsOf
<1>2. in \in FoundNote
    BY <1>1 DEF WithdrawNotes, WalletSet, WalletsOf
<1>. HIDE DEF in
<1>3. /\ tx.method = "withdraw" /\ tx.creates = <<>> /\ tx.noteCts = <<>>
      /\ tx.spends = <<in.leafIndex>> /\ in.leafIndex \in Nat
    BY <1>2 DEF BuildWithdraw, FoundNote
<1>. HIDE DEF tx
<1>4. OrderSealed(tx)
    BY <1>3 DEF OrderSealed, Methods
<1>. QED BY <1>4 DEF tx, in

(* What the contract reads back out of an envelope is what was put in. *)
LEMMA EnvelopeCommitments ==
    ASSUME NEW o, NEW root, NEW proof, OrderSealed(o.tx),
           NEW call \in Envelopes(o, BuiltTx(o, root, proof))
    PROVE  Commitments(call) = [k \in DOMAIN o.tx.creates |-> CommitNote(o.tx.creates[k])]
<1>. DEFINE tx == BuiltTx(o, root, proof)
            cs == o.tx.creates
<1>0. /\ tx.method = o.tx.method /\ tx.publicInputs = PublicInputs(o, root)
      /\ o.tx.method \in Methods /\ cs \in Seq(NoteSet)
    BY DEF BuiltTx, OrderSealed
<1>. HIDE DEF tx
<1>1. CASE o.tx.method = "deposit"
    <2>1. call = FtTransferCall(tx)
        BY <1>0, <1>1 DEF Envelopes, tx
    <2>2. call.method = "deposit" /\ call.args.commitment = tx.publicInputs.commitment
        BY <2>1 DEF FtTransferCall, DepositArgs
    <2>3. PublicInputs(o, root).commitment = Hex(CommitNote(cs[1]))
        <3>1. PublicInputs(o, root) =
                [commitment |-> Hex(CommitNote(o.tx.creates[1])), amount |-> Dec(o.tx.amount),
                 auditorPubkey |-> Hex(AuditorField(o.tx.auditors[1]))]
            BY <1>1 DEF PublicInputs
        <3>. QED BY <3>1
    <2>4. Commitments(call) = <<CommitNote(cs[1])>>
        <3>1. Commitments(call) = <<ParseHex32(call.args.commitment)>>
            BY <2>2 DEF Commitments
        <3>. QED BY <1>0, <2>2, <2>3, <3>1 DEF ParseHex32, Hex
    <2>5. DOMAIN cs = {1}
        BY <1>0, <1>1 DEF OrderSealed
    <2>. QED BY <2>4, <2>5
<1>2. CASE o.tx.method = "transfer"
    <2>1. call = TransferCall(tx)
        BY <1>0, <1>2 DEF Envelopes, tx
    <2>2. call.method = "transfer" /\ call.args.commitments = tx.publicInputs.commitments
        BY <2>1 DEF TransferCall, TransferArgs
    <2>3. PublicInputs(o, root).commitments = [k \in {1, 2} |-> Hex(CommitNote(cs[k]))]
        <3>1. PublicInputs(o, root) =
                [merkleRoot |-> root,
                 nullifiers |-> [k \in {1, 2} |-> Hex(NullifierOf(o.user, o.inputs[k]))],
                 commitments |-> [k \in {1, 2} |-> Hex(CommitNote(o.tx.creates[k]))],
                 auditorPubkey |-> Hex(AuditorField(o.tx.auditors[1])),
                 recipientAuditorPubkey |-> Hex(AuditorField(o.tx.auditors[2]))]
            BY <1>2 DEF PublicInputs
        <3>. QED BY <3>1
    <2>4. Commitments(call) = <<CommitNote(cs[1]), CommitNote(cs[2])>>
        <3>1. Commitments(call) = <<ParseHex32(call.args.commitments[1]),
                                    ParseHex32(call.args.commitments[2])>>
            BY <2>2 DEF Commitments
        <3>. QED BY <1>0, <2>2, <2>3, <3>1 DEF ParseHex32, Hex
    <2>5. DOMAIN cs = {1, 2}
        BY <1>0, <1>2 DEF OrderSealed
    <2>. QED BY <2>4, <2>5
<1>3. CASE o.tx.method = "withdraw"
    <2>1. call.method = "withdraw"
        BY <1>0, <1>3, EnvelopeMethods
    <2>2. Commitments(call) = <<>>
        BY <2>1 DEF Commitments
    <2>3. DOMAIN cs = {}
        BY <1>0, <1>3 DEF OrderSealed
    <2>. QED BY <2>2, <2>3
<1>. QED BY <1>0, <1>1, <1>2, <1>3 DEF Methods


------------------------------------------------------------------------------
(* The notes in the wallets are the committed ones. *)

WalletsTyped == wallets \in [Users -> WalletSet]

JobTyped == job.at \in {"requested", "built"} => OrderTyped(job.order)

(* A note is the one committed at its leaf, which exists. *)
AtItsLeaf(n, u, ls) ==
    n.note.owner = u /\ n.leafIndex < Len(ls) /\ ls[n.leafIndex + 1] = CommitNote(n.note)

NotesAtTheirLeaves ==
    \A u \in Users : \A k \in DOMAIN wallets[u].notes : AtItsLeaf(wallets[u].notes[k], u, leaves)

NotesInv == WalletsTyped /\ JobTyped /\ NotesAtTheirLeaves

LEMMA LeavesStay ==
    ASSUME TreeFollows, Grows, NEW u, NEW n \in FoundNote, AtItsLeaf(n, u, leaves)
    PROVE  AtItsLeaf(n, u, leaves')
<1>1. PICK S : leaves \in Seq(S)
    BY DEF TreeFollows
<1>2. CASE UNCHANGED leaves
    BY <1>2
<1>3. CASE \E T : \E cs \in Seq(T) : leaves' = leaves \o cs
    <2>1. PICK T : \E cs \in Seq(T) : leaves' = leaves \o cs
        BY <1>3
    <2>2. PICK cs \in Seq(T) : leaves' = leaves \o cs
        BY <2>1
    <2>3. n.leafIndex \in Nat /\ n.leafIndex + 1 \in 1 .. Len(leaves)
        BY <1>1 DEF FoundNote, AtItsLeaf
    <2>4. /\ Len(leaves') = Len(leaves) + Len(cs) /\ Len(leaves) \in Nat /\ Len(cs) \in Nat
          /\ leaves'[n.leafIndex + 1] = leaves[n.leafIndex + 1]
        BY <1>1, <2>2, <2>3
    <2>. QED BY <2>3, <2>4 DEF AtItsLeaf
<1>. QED BY <1>2, <1>3 DEF Grows, Insert

(* The note is one the order creates. *)
Created(n, tx) == \E k \in DOMAIN tx.creates : n.note = tx.creates[k]

(* The notes a wallet scans from a landed order are at the leaves their    *)
(* commitments have just gone to. *)
LEMMA ScannedAtTheirLeaves ==
    ASSUME NEW S, NEW ls \in Seq(S), NEW tx, OrderSealed(tx), NEW u \in Users, NEW w \in WalletSet,
           NEW next, next = Len(ls)
    PROVE  LET cts == [k \in DOMAIN tx.creates |-> [leafIndex |-> next + k - 1, sealed |-> tx.noteCts[k]]]
               cs == [k \in DOMAIN tx.creates |-> CommitNote(tx.creates[k])]
           IN  /\ Scan(w, u, cts) \in WalletSet
               /\ \A j \in DOMAIN Scan(w, u, cts).notes :
                     \/ j \in DOMAIN w.notes /\ Scan(w, u, cts).notes[j] = w.notes[j]
                     \/ /\ AtItsLeaf(Scan(w, u, cts).notes[j], u, ls \o cs)
                        /\ Created(Scan(w, u, cts).notes[j], tx)
<1>. DEFINE n == Len(tx.creates)
            cts == [k \in DOMAIN tx.creates |-> [leafIndex |-> next + k - 1, sealed |-> tx.noteCts[k]]]
            cs == [k \in DOMAIN tx.creates |-> CommitNote(tx.creates[k])]
            found == ScanNotes(u, cts)
            C == {CommitNote(tx.creates[k]) : k \in 1 .. n}
<1>1. /\ n \in Nat /\ DOMAIN tx.creates = 1 .. n /\ DOMAIN tx.noteCts = 1 .. n
      /\ \A k \in 1 .. n : tx.creates[k] \in NoteSet /\ tx.noteCts[k] = Sealed(tx.creates[k].owner, tx.creates[k])
    BY DEF OrderSealed
<1>2. \A k \in 1 .. n : cts[k] = [leafIndex |-> next + k - 1, sealed |-> tx.noteCts[k]]
    BY <1>1
<1>3. cts \in [1 .. n -> {cts[k] : k \in 1 .. n}] /\ cs \in [1 .. n -> C]
    BY <1>1
<1>4. Len(cts) = n /\ cs \in Seq(C) /\ Len(cs) = n
    <2>. HIDE DEF n, cts, cs, C
    <2>. QED BY <1>1, <1>3, FunctionsAreSequences
<1>5. Len(ls) \in Nat /\ next \in Nat
    OBVIOUS
<1>6. ASSUME NEW k \in 1 .. n
      PROVE  /\ Opens(u, cts[k]) <=> tx.creates[k].owner = u
             /\ Discovery(cts[k]) = [leafIndex |-> next + k - 1, note |-> tx.creates[k]]
             /\ Discovery(cts[k]) \in FoundNote
    <2>1. cts[k].leafIndex = next + k - 1 /\ cts[k].sealed = tx.noteCts[k]
        BY <1>2
    <2>2. cts[k].sealed.holder = tx.creates[k].owner /\ cts[k].sealed.payload = tx.creates[k]
        <3>1. tx.noteCts[k] = Sealed(tx.creates[k].owner, tx.creates[k])
            BY <1>1
        <3>. HIDE DEF cts, n
        <3>. QED BY <2>1, <3>1 DEF Sealed
    <2>3. next + k - 1 \in Nat
        BY <1>1, <1>5
    <2>. HIDE DEF cts
    <2>. QED BY <1>1, <2>1, <2>2, <2>3 DEF Opens, Discovery, FoundNote
<1>. HIDE DEF cts, cs, n, C
<1>7. /\ Scan(w, u, cts) \in WalletSet
      /\ Scan(w, u, cts).notes = w.notes \o found
      /\ found \in Seq(FoundNote)
      /\ \A j \in DOMAIN found : \E k \in 1 .. n : Opens(u, cts[k]) /\ found[j] = Discovery(cts[k])
    <2>1. OpensInto(u, cts, FoundNote)
        BY <1>4, <1>6 DEF OpensInto
    <2>2. Len(cts) \in Nat
        BY <1>1, <1>4
    <2>4. /\ Scan(w, u, cts) \in WalletSet /\ Scan(w, u, cts).notes = w.notes \o found
          /\ found \in Seq(FoundNote)
        BY <2>1, <2>2, ScanKeepsWallet DEF WalletSet
    <2>5. \A j \in DOMAIN found : \E k \in 1 .. Len(cts) : Opens(u, cts[k]) /\ found[j] = Discovery(cts[k])
        BY <2>2, ScanFindsOnly
    <2>. QED BY <1>4, <2>4, <2>5
<1>8. ASSUME NEW j \in DOMAIN found
      PROVE  AtItsLeaf(found[j], u, ls \o cs) /\ Created(found[j], tx)
    <2>1. PICK k \in 1 .. n : Opens(u, cts[k]) /\ found[j] = Discovery(cts[k])
        BY <1>7
    <2>2. found[j].leafIndex = Len(ls) + k - 1 /\ found[j].note = tx.creates[k] /\ tx.creates[k].owner = u
        <3>1. found[j] = [leafIndex |-> Len(ls) + k - 1, note |-> tx.creates[k]]
            BY <1>6, <2>1
        <3>. HIDE DEF found
        <3>. QED BY <1>6, <2>1, <3>1
    <2>3. k \in Nat /\ k >= 1 /\ k <= n
        BY <1>1
    <2>4. cs[k] = CommitNote(tx.creates[k])
        BY <1>1 DEF cs
    <2>5. Len(ls \o cs) = Len(ls) + n /\ Len(ls) + k - 1 < Len(ls) + n
        <3>1. Len(ls \o cs) = Len(ls) + Len(cs)
            BY <1>4
        <3>2. n \in Nat /\ Len(ls) \in Nat
            BY <1>1
        <3>. HIDE DEF found
        <3>3. Len(ls) + k - 1 < Len(ls) + n
            BY <2>3, <3>2
        <3>. QED BY <1>4, <3>1, <3>3
    <2>6. Len(ls) + k - 1 + 1 = Len(ls) + k
        BY <1>5, <2>3
    <2>7. (ls \o cs)[Len(ls) + k] = cs[k]
        <3>1. k \in 1 .. Len(cs)
            BY <1>1, <1>4
        <3>2. \A i \in 1 .. Len(cs) : (ls \o cs)[Len(ls) + i] = cs[i]
            BY <1>4
        <3>. QED BY <3>1, <3>2
    <2>8. Created(found[j], tx)
        <3>. HIDE DEF found
        <3>. QED BY <1>1, <2>2 DEF Created
    <2>. QED BY <2>2, <2>4, <2>5, <2>6, <2>7, <2>8 DEF AtItsLeaf
<1>9. ASSUME NEW j \in DOMAIN Scan(w, u, cts).notes
      PROVE  \/ j \in DOMAIN w.notes /\ Scan(w, u, cts).notes[j] = w.notes[j]
             \/ /\ AtItsLeaf(Scan(w, u, cts).notes[j], u, ls \o cs)
                /\ Created(Scan(w, u, cts).notes[j], tx)
    <2>. HIDE DEF found
    <2>1. w.notes \in Seq(FoundNote)
        BY DEF WalletSet, WalletsOf
    <2>2. CASE j \in 1 .. Len(w.notes)
        BY <1>7, <2>1, <2>2
    <2>3. CASE j \notin 1 .. Len(w.notes)
        <3>1. /\ j - Len(w.notes) \in DOMAIN found
              /\ Scan(w, u, cts).notes[j] = found[j - Len(w.notes)]
            BY <1>7, <2>1, <2>3
        <3>. QED BY <1>8, <3>1
    <2>. QED BY <2>2, <2>3
<1>. QED BY <1>7, <1>9 DEF cts, cs


LEMMA RequestsSealed ==
    ASSUME WalletsTyped, Next, job' # job, job.at = "idle"
    PROVE  OrderTyped(job'.order)
<1>1. \A user, tx, ins, to, relayer :
        Request(Order(user, tx, ins, to, relayer)) =>
            job'.order.tx = tx /\ job'.order.user = user /\ job'.order.inputs = ins
    BY DEF Request, Order
<1>2. \A u \in Users : wallets[u] \in WalletSet
    BY DEF WalletsTyped
<1>3. "alice" \in Users
    BY DEF Users
<1>4. DepositAmounts \subseteq Nat /\ Amounts \subseteq Nat
    BY PathAssumption
<1>5. ASSUME NEW auditor \in Auditors, NEW amount \in DepositAmounts, RequestDeposit(amount, auditor)
      PROVE  OrderTyped(job'.order)
    <2>1. /\ job'.order.tx = BuildDeposit("alice", amount, auditor) /\ job'.order.user = "alice"
        BY <1>1, <1>5 DEF RequestDeposit
    <2>2. BuildDeposit("alice", amount, auditor).method = "deposit"
        BY DEF BuildDeposit
    <2>3. OrderSealed(BuildDeposit("alice", amount, auditor))
        BY <1>3, <1>4, DepositSealed
    <2>. QED BY <1>3, <2>1, <2>2, <2>3 DEF OrderTyped
<1>6. ASSUME NEW u \in Users, NEW v \in Users, NEW auditor \in Auditors, NEW amount \in Amounts,
             RequestTransfer(u, amount, v, auditor)
      PROVE  OrderTyped(job'.order)
    <2>. DEFINE ins == FindTransferInputs(wallets[u], amount)
    <2>1. /\ job'.order.tx = BuildTransfer(u, ins, Root, amount, v, auditor) /\ job'.order.user = u
          /\ job'.order.inputs = ins /\ TransferPairs(wallets[u], amount) # {}
        BY <1>1, <1>6 DEF RequestTransfer
    <2>. HIDE DEF ins
    <2>2. OrderSealed(BuildTransfer(u, ins, Root, amount, v, auditor)) /\ ins \in Seq(FoundNote) /\ Len(ins) = 2
        BY <1>2, <1>4, <2>1, TransferSealed DEF ins
    <2>. QED BY <2>1, <2>2 DEF OrderTyped
<1>7. ASSUME NEW u \in Users, NEW amount \in Amounts, RequestWithdraw(u, amount)
      PROVE  OrderTyped(job'.order)
    <2>. DEFINE in == FindWithdrawNote(wallets[u], amount)
                tx == BuildWithdraw(u, in, Root, amount, "payee.near", FeeUsdcBase)
    <2>1. job'.order.tx = tx /\ job'.order.user = u /\ WithdrawNotes(wallets[u], amount) # {}
        BY <1>1, <1>7 DEF RequestWithdraw
    <2>2. tx.method = "withdraw"
        BY DEF BuildWithdraw
    <2>3. OrderSealed(tx)
        BY <1>2, <1>4, <2>1, WithdrawSealed
    <2>. HIDE DEF tx
    <2>. QED BY <2>1, <2>2, <2>3 DEF OrderTyped
<1>. QED BY <1>5, <1>6, <1>7 DEF Next, ReturnProved, ReturnPlaceholder, NotProvable, Land, Refuse,
                               StrangerDeposits

LEMMA JobStaysTyped ==
    ASSUME NotesInv, Next
    PROVE  JobTyped'
<1>1. CASE job' = job
    BY <1>1 DEF NotesInv, JobTyped
<1>2. CASE job.at = "idle" /\ job' # job
    BY <1>2, RequestsSealed DEF NotesInv, JobTyped
<1>3. CASE job.at # "idle" /\ job' # job
    <2>1. job' = Idle \/ (job.at = "requested" /\ \E root, proof : Return(root, proof))
        BY <1>3 DEF Next, RequestDeposit, RequestTransfer, RequestWithdraw, ReturnProved,
                    ReturnPlaceholder, NotProvable, Land, Refuse, StrangerDeposits
    <2>2. CASE job' = Idle
        BY <2>2 DEF Idle, JobTyped
    <2>3. CASE job.at = "requested" /\ \E root, proof : Return(root, proof)
        <3>1. job'.order = job.order
            BY <2>3 DEF Return
        <3>. QED BY <2>3, <3>1 DEF NotesInv, JobTyped
    <2>. QED BY <2>1, <2>2, <2>3
<1>. QED BY <1>1, <1>2, <1>3

(* The notes after a step are those before it, and the ones of the order   *)
(* under way. *)
NotesComeFrom(tx) ==
    \A u \in Users : \A j \in DOMAIN wallets'[u].notes :
        \/ j \in DOMAIN wallets[u].notes /\ wallets'[u].notes[j] = wallets[u].notes[j]
        \/ Created(wallets'[u].notes[j], tx)

LEMMA LandKeepsNotes ==
    ASSUME PathInv, NotesInv, Land
    PROVE  WalletsTyped' /\ NotesAtTheirLeaves' /\ NotesComeFrom(job.order.tx)
<1>. DEFINE tx == job.order.tx
            next == tree.next_index
            cts == [k \in DOMAIN tx.creates |-> [leafIndex |-> next + k - 1, sealed |-> tx.noteCts[k]]]
            cs == [k \in DOMAIN tx.creates |-> CommitNote(tx.creates[k])]
            After(u) == IF u = job.order.user THEN MarkSpent(Scan(wallets[u], u, cts), tx.spends)
                        ELSE Scan(wallets[u], u, cts)
<1>1. OrderSealed(tx) /\ tx.spends \in Seq(Nat)
    BY DEF Land, NotesInv, JobTyped, OrderTyped, OrderSealed
<1>2. PICK call \in Envelopes(job.order, Built(job)) : Apply(call)
    BY DEF Land
<1>3. Commitments(call) = cs
    BY <1>1, EnvelopeCommitments DEF Built
<1>4. leaves' = leaves \o cs /\ Grows
    <2>1. call.method \in Methods
        BY <1>1, EnvelopeMethods DEF Built, OrderSealed
    <2>. QED BY <1>2, <1>3, <2>1, ApplyGrows DEF Apply, Insert
<1>5. PICK S : leaves \in Seq(S) /\ next = Len(leaves)
    BY DEF PathInv, TreeFollows, Agrees
<1>6. wallets' = [u \in Users |-> After(u)]
    BY Zenon DEF Land
<1>7. ASSUME NEW u \in Users
      PROVE  /\ After(u) \in WalletSet
             /\ \A k \in DOMAIN After(u).notes :
                   /\ AtItsLeaf(After(u).notes[k], u, leaves')
                   /\ \/ k \in DOMAIN wallets[u].notes /\ After(u).notes[k] = wallets[u].notes[k]
                      \/ Created(After(u).notes[k], tx)
    <2>. DEFINE w == wallets[u]
                v == Scan(w, u, cts)
    <2>1. w \in WalletSet /\ \A k \in DOMAIN w.notes : AtItsLeaf(w.notes[k], u, leaves)
        BY DEF NotesInv, WalletsTyped, NotesAtTheirLeaves
    <2>2. /\ v \in WalletSet
          /\ \A j \in DOMAIN v.notes : \/ j \in DOMAIN w.notes /\ v.notes[j] = w.notes[j]
                                       \/ /\ AtItsLeaf(v.notes[j], u, leaves \o cs)
                                          /\ Created(v.notes[j], tx)
        <3>. HIDE DEF tx, w, next
        <3>. QED BY <1>1, <1>5, <2>1, ScannedAtTheirLeaves
    <2>3. \A j \in DOMAIN w.notes : w.notes[j] \in FoundNote
        BY <2>1 DEF WalletSet, WalletsOf
    <2>. HIDE DEF tx, v, w
    <2>4. \A j \in DOMAIN v.notes : AtItsLeaf(v.notes[j], u, leaves')
        BY <1>4, <2>1, <2>2, <2>3, LeavesStay DEF PathInv
    <2>5. After(u) \in WalletSet /\ After(u).notes = v.notes
        BY <1>1, <2>2, MarkKeepsNotes DEF WalletSet, v, w
    <2>. HIDE DEF After
    <2>. QED BY <2>2, <2>4, <2>5 DEF w
<1>. HIDE DEF After, tx
<1>8. WalletsTyped' /\ NotesAtTheirLeaves'
    BY <1>6, <1>7 DEF WalletsTyped, NotesAtTheirLeaves
<1>9. NotesComeFrom(tx)
    BY <1>6, <1>7 DEF NotesComeFrom
<1>. QED BY <1>8, <1>9 DEF tx

LEMMA NotesStay ==
    ASSUME TreeFollows, Grows, NotesInv, wallets' = wallets
    PROVE  WalletsTyped' /\ NotesAtTheirLeaves'
<1>1. \A u \in Users : \A k \in DOMAIN wallets[u].notes : wallets[u].notes[k] \in FoundNote
    BY DEF NotesInv, WalletsTyped, WalletSet, WalletsOf
<1>. QED BY <1>1, LeavesStay DEF NotesInv, WalletsTyped, NotesAtTheirLeaves

LEMMA NotesStart == ASSUME Init PROVE NotesInv
<1>1. NewWallet \in WalletSet /\ DOMAIN NewWallet.notes = {}
    BY DEF NewWallet, WalletSet, WalletsOf
<1>2. wallets = [u \in Users |-> NewWallet] /\ job.at = "idle"
    BY DEF Init, Idle
<1>. QED BY <1>1, <1>2 DEF NotesInv, WalletsTyped, JobTyped, NotesAtTheirLeaves

LEMMA NotesSteps ==
    ASSUME PathInv, NotesInv, Next
    PROVE  NotesInv'
<1>1. JobTyped'
    BY JobStaysTyped
<1>2. CASE Land
    BY <1>1, <1>2, LandKeepsNotes DEF NotesInv
<1>3. CASE ~ Land
    <2>1. wallets' = wallets
        BY <1>3 DEF Next, RequestDeposit, RequestTransfer, RequestWithdraw, ReturnProved,
                    ReturnPlaceholder, NotProvable, Refuse, StrangerDeposits
    <2>. QED BY <1>1, <2>1, NotesStay, StepsGrow DEF NotesInv, PathInv
<1>. QED BY <1>2, <1>3

LEMMA NotesAlways == E2ESpec => []NotesInv
<1>1. E2EInit => NotesInv
    BY NotesStart DEF E2EInit
<1>2. E2EInv /\ NotesInv /\ [E2ENext]_<<vars, left>> => NotesInv'
    <2>. SUFFICES ASSUME E2EInv, NotesInv, [E2ENext]_<<vars, left>> PROVE NotesInv'
        OBVIOUS
    <2>1. CASE Replay
        <3>1. Grows /\ wallets' = wallets /\ job' = job
            BY <2>1, ReplayGrows DEF Replay
        <3>. QED BY <3>1, NotesStay DEF E2EInv, PathInv, NotesInv, JobTyped
    <2>2. CASE Next
        BY <2>2, NotesSteps DEF E2EInv
    <2>3. CASE UNCHANGED <<vars, left>>
        BY <2>3 DEF vars, NotesInv, WalletsTyped, JobTyped, NotesAtTheirLeaves
    <2>. QED BY <2>1, <2>2, <2>3 DEF E2ENext
<1>. QED BY <1>1, <1>2, TreeFollowsAlways, PTL DEF E2ESpec

(* What a wallet has found it can spend: each of its notes is the one the  *)
(* contract committed at that leaf, whatever others have inserted between  *)
(* its order and its landing (scanner.ts, wallet.ts). *)
THEOREM FoundNotesAreCommitted == E2ESpec => []NotesAreCommitted
<1>1. NotesInv => NotesAreCommitted
    BY DEF NotesInv, NotesAtTheirLeaves, AtItsLeaf, NotesAreCommitted
<1>. QED BY <1>1, NotesAlways, PTL

------------------------------------------------------------------------------
(* Proofs and keys as bytes, and what the contract reads out of them. *)

(* u is s, of m elements, followed by t, of n. *)
IsJoin(S, u, s, m, t, n) ==
    /\ u \in Seq(S) /\ Len(u) = m + n
    /\ \A i \in 1 .. m : u[i] = s[i]
    /\ \A i \in 1 .. n : u[m + i] = t[i]

LEMMA Joined ==
    ASSUME NEW S, NEW s \in Seq(S), NEW t \in Seq(S), NEW m \in Nat, NEW n \in Nat,
           Len(s) = m, Len(t) = n
    PROVE  IsJoin(S, s \o t, s, m, t, n)
<1>1. /\ s \o t \in Seq(S) /\ Len(s \o t) = m + n
      /\ \A i \in 1 .. m : (s \o t)[i] = s[i]
      /\ \A i \in 1 .. n : (s \o t)[m + i] = t[i]
    OBVIOUS
<1>. QED BY <1>1 DEF IsJoin

LEMMA Slice ==
    ASSUME NEW S, NEW s \in Seq(S), NEW t \in Seq(S), NEW m \in Nat, NEW n \in Nat,
           Len(t) = n, m + n <= Len(s), \A i \in 1 .. n : s[m + i] = t[i]
    PROVE  SubSeq(s, m + 1, m + n) = t
<1>. DEFINE u == SubSeq(s, m + 1, m + n)
<1>1. \A i \in m + 1 .. m + n : s[i] \in S
    OBVIOUS
<1>2. /\ u \in Seq(S)
      /\ Len(u) = IF m + 1 <= m + n THEN (m + n) - (m + 1) + 1 ELSE 0
      /\ \A i \in 1 .. (m + n) - (m + 1) + 1 : u[i] = s[(m + 1) + i - 1]
    BY <1>1, SubSeqProperties
<1>. HIDE DEF u
<1>3. Len(u) = n
    BY <1>2
<1>4. ASSUME NEW i \in 1 .. n PROVE u[i] = t[i]
    <2>1. u[i] = s[(m + 1) + i - 1] /\ (m + 1) + i - 1 = m + i
        BY <1>2
    <2>. QED BY <2>1
<1>. QED BY <1>2, <1>3, <1>4, SeqEqual DEF u

(* The slices the contract takes of a key are the points it was put        *)
(* together from. *)
KeyParts(bytes, a, b, c, d, r, m) ==
    /\ Len(bytes) = 14 + 2 * m
    /\ SubSeq(bytes, 1, 2) = a /\ SubSeq(bytes, 3, 6) = b
    /\ SubSeq(bytes, 7, 10) = c /\ SubSeq(bytes, 11, 14) = d
    /\ \A k \in 1 .. m : SubSeq(bytes, 13 + 2 * k, 14 + 2 * k) = <<r[2 * k - 1], r[2 * k]>>

LEMMA KeyOfJoins ==
    ASSUME NEW S, NEW a \in Seq(S), NEW b \in Seq(S), NEW c \in Seq(S), NEW d \in Seq(S),
           NEW r \in Seq(S), NEW m \in Nat, NEW ab, NEW abc, NEW key, NEW bytes,
           Len(a) = 2, Len(b) = 4, Len(c) = 4, Len(d) = 4, Len(r) = 2 * m,
           IsJoin(S, ab, a, 2, b, 4), IsJoin(S, abc, ab, 6, c, 4),
           IsJoin(S, key, abc, 10, d, 4), IsJoin(S, bytes, key, 14, r, 2 * m)
    PROVE  KeyParts(bytes, a, b, c, d, r, m)
<1>1. /\ \A i \in 1 .. 2 : ab[i] = a[i]
      /\ \A i \in 1 .. 4 : ab[2 + i] = b[i]
    BY DEF IsJoin
<1>2. /\ \A i \in 1 .. 6 : abc[i] = ab[i]
      /\ \A i \in 1 .. 4 : abc[6 + i] = c[i]
    BY DEF IsJoin
<1>3. /\ \A i \in 1 .. 10 : key[i] = abc[i]
      /\ \A i \in 1 .. 4 : key[10 + i] = d[i]
    BY DEF IsJoin
<1>4. /\ bytes \in Seq(S) /\ Len(bytes) = 14 + 2 * m
      /\ \A i \in 1 .. 14 : bytes[i] = key[i]
      /\ \A i \in 1 .. 2 * m : bytes[14 + i] = r[i]
    BY DEF IsJoin
<1>5. SubSeq(bytes, 0 + 1, 0 + 2) = a
    <2>1. \A i \in 1 .. 2 : bytes[0 + i] = a[i]
        BY <1>1, <1>2, <1>3, <1>4, SMTT(30)
    <2>. QED BY <1>4, <2>1, Slice
<1>6. SubSeq(bytes, 2 + 1, 2 + 4) = b
    <2>1. \A i \in 1 .. 4 : bytes[2 + i] = b[i]
        BY <1>1, <1>2, <1>3, <1>4, SMTT(30)
    <2>. QED BY <1>4, <2>1, Slice
<1>7. SubSeq(bytes, 6 + 1, 6 + 4) = c
    <2>1. \A i \in 1 .. 4 : bytes[6 + i] = c[i]
        BY <1>2, <1>3, <1>4, SMTT(30)
    <2>. QED BY <1>4, <2>1, Slice
<1>8. SubSeq(bytes, 10 + 1, 10 + 4) = d
    <2>1. ASSUME NEW i \in 1 .. 4 PROVE bytes[10 + i] = d[i]
        <3>1. 10 + i \in 1 .. 14 /\ key[10 + i] = d[i]
            BY <1>3, SMTT(30)
        <3>. QED BY <1>4, <3>1
    <2>. QED BY <1>4, <2>1, Slice, SMTT(30)
<1>9. ASSUME NEW k \in 1 .. m
      PROVE  SubSeq(bytes, 13 + 2 * k, 14 + 2 * k) = <<r[2 * k - 1], r[2 * k]>>
    <2>. DEFINE p == <<r[2 * k - 1], r[2 * k]>>
                at == 12 + 2 * k
    <2>1. 2 * k - 1 \in 1 .. 2 * m /\ 2 * k \in 1 .. 2 * m /\ at \in Nat
        OBVIOUS
    <2>2. r[2 * k - 1] \in S /\ r[2 * k] \in S
        BY <2>1
    <2>3. /\ bytes[14 + (2 * k - 1)] = r[2 * k - 1] /\ bytes[14 + 2 * k] = r[2 * k]
          /\ 14 + (2 * k - 1) = at + 1 /\ 14 + 2 * k = at + 2
        BY <1>4, <2>1, SMTT(30)
    <2>4. p \in Seq(S) /\ Len(p) = 2 /\ p[1] = r[2 * k - 1] /\ p[2] = r[2 * k]
        BY <2>2
    <2>5. at + 1 = 13 + 2 * k /\ at + 2 = 14 + 2 * k
        OBVIOUS
    <2>8. at + 2 <= Len(bytes)
        BY <1>4
    <2>. HIDE DEF p, at
    <2>6. \A i \in 1 .. 2 : bytes[at + i] = p[i]
        BY <2>3, <2>4
    <2>7. SubSeq(bytes, at + 1, at + 2) = p
        <3>1. bytes \in Seq(S) /\ 2 \in Nat
            BY <1>4
        <3>. QED BY <2>1, <2>4, <2>6, <2>8, <3>1, Slice
    <2>. QED BY <2>5, <2>7 DEF p
<1>10. /\ SubSeq(bytes, 1, 2) = a /\ SubSeq(bytes, 3, 6) = b
       /\ SubSeq(bytes, 7, 10) = c /\ SubSeq(bytes, 11, 14) = d
    BY <1>5, <1>6, <1>7, <1>8
<1>11. Len(bytes) = 14 + 2 * m
    BY <1>4
<1>. QED BY <1>9, <1>10, <1>11, Zenon DEF KeyParts

(* And of a proof. *)
ProofParts(bytes, a, b, c) ==
    /\ Len(bytes) = 8
    /\ SubSeq(bytes, 1, 2) = a /\ SubSeq(bytes, 3, 6) = b /\ SubSeq(bytes, 7, 8) = c

LEMMA ProofOfJoins ==
    ASSUME NEW S, NEW a \in Seq(S), NEW b \in Seq(S), NEW c \in Seq(S), NEW ab, NEW bytes,
           Len(a) = 2, Len(b) = 4, Len(c) = 2,
           IsJoin(S, ab, a, 2, b, 4), IsJoin(S, bytes, ab, 6, c, 2)
    PROVE  ProofParts(bytes, a, b, c)
<1>1. /\ \A i \in 1 .. 2 : ab[i] = a[i]
      /\ \A i \in 1 .. 4 : ab[2 + i] = b[i]
    BY DEF IsJoin
<1>2. /\ bytes \in Seq(S) /\ Len(bytes) = 6 + 2
      /\ \A i \in 1 .. 6 : bytes[i] = ab[i]
      /\ \A i \in 1 .. 2 : bytes[6 + i] = c[i]
    BY DEF IsJoin
<1>3. SubSeq(bytes, 0 + 1, 0 + 2) = a
    <2>1. \A i \in 1 .. 2 : bytes[0 + i] = a[i]
        BY <1>1, <1>2
    <2>. QED BY <1>2, <2>1, Slice
<1>4. SubSeq(bytes, 2 + 1, 2 + 4) = b
    <2>1. \A i \in 1 .. 4 : bytes[2 + i] = b[i]
        BY <1>1, <1>2
    <2>. QED BY <1>2, <2>1, Slice
<1>5. SubSeq(bytes, 6 + 1, 6 + 2) = c
    BY <1>2, Slice
<1>. QED BY <1>2, <1>3, <1>4, <1>5 DEF ProofParts

LEMMA KeyParses ==
    ASSUME NEW S, NEW a \in Seq(S), NEW b \in Seq(S), NEW c \in Seq(S), NEW d \in Seq(S),
           NEW r \in Seq(S), NEW m \in Nat,
           Len(a) = 2, Len(b) = 4, Len(c) = 4, Len(d) = 4, Len(r) = 2 * m
    PROVE  KeyParts(a \o b \o c \o d \o r, a, b, c, d, r, m)
<1>1. PICK ab : ab = a \o b /\ IsJoin(S, ab, a, 2, b, 4)
    BY Joined
<1>2. ab \in Seq(S) /\ Len(ab) = 6
    BY <1>1 DEF IsJoin
<1>3. PICK abc : abc = ab \o c /\ IsJoin(S, abc, ab, 6, c, 4)
    BY <1>2, Joined
<1>4. abc \in Seq(S) /\ Len(abc) = 10
    BY <1>3 DEF IsJoin
<1>5. PICK key : key = abc \o d /\ IsJoin(S, key, abc, 10, d, 4)
    BY <1>4, Joined
<1>6. key \in Seq(S) /\ Len(key) = 14 /\ 2 * m \in Nat
    BY <1>5 DEF IsJoin
<1>7. PICK bytes : bytes = key \o r /\ IsJoin(S, bytes, key, 14, r, 2 * m)
    BY <1>6, Joined
<1>8. KeyParts(bytes, a, b, c, d, r, m)
    BY <1>1, <1>3, <1>5, <1>7, KeyOfJoins
<1>9. bytes = a \o b \o c \o d \o r
    BY <1>1, <1>3, <1>5, <1>7, Zenon
<1>. QED BY <1>8, <1>9, Zenon

LEMMA ProofParses ==
    ASSUME NEW S, NEW a \in Seq(S), NEW b \in Seq(S), NEW c \in Seq(S),
           Len(a) = 2, Len(b) = 4, Len(c) = 2
    PROVE  /\ Len(a \o b \o c) = 8
           /\ ProofFromBytes(a \o b \o c) = [a_g1 |-> a, b_g2 |-> b, c_g1 |-> c]
<1>1. PICK ab : ab = a \o b /\ IsJoin(S, ab, a, 2, b, 4)
    BY Joined
<1>2. ab \in Seq(S) /\ Len(ab) = 6
    BY <1>1 DEF IsJoin
<1>3. PICK bytes : bytes = ab \o c /\ IsJoin(S, bytes, ab, 6, c, 2)
    BY <1>2, Joined
<1>4. ProofParts(bytes, a, b, c)
    BY <1>1, <1>3, ProofOfJoins
<1>5. Len(bytes) = 8 /\ ProofFromBytes(bytes) = [a_g1 |-> a, b_g2 |-> b, c_g1 |-> c]
    BY <1>4 DEF ProofParts, ProofFromBytes
<1>6. bytes = a \o b \o c
    BY <1>1, <1>3, Zenon
<1>. QED BY <1>5, <1>6, Zenon

(* A point is encoded as what it is. *)
LEMMA EncodedPoints ==
    ASSUME NEW name, NEW of
    PROVE  /\ EncodeG1(G1(name, of)) = G1(name, of)
           /\ G1(name, of) = <<<<name, "x", of>>, <<name, "y", of>>>>
           /\ EncodeG2(G2(name, of)) = <<<<name, "x.c0", of>>, <<name, "x.c1", of>>,
                                         <<name, "y.c0", of>>, <<name, "y.c1", of>>>>
BY DEF EncodeG1, EncodeG2, G1, G2

LEMMA PairIsSequence ==
    ASSUME NEW S, NEW p, p = <<p[1], p[2]>>, p[1] \in S, p[2] \in S
    PROVE  p \in Seq(S) /\ Len(p) = 2
<1>1. \A x, y \in S : <<x, y>> \in Seq(S) /\ Len(<<x, y>>) = 2
    OBVIOUS
<1>2. <<p[1], p[2]>> \in Seq(S) /\ Len(<<p[1], p[2]>>) = 2
    BY <1>1, Zenon
<1>. QED BY <1>2, Zenon

LEMMA FourAreSequence ==
    ASSUME NEW S, NEW p, p = <<p[1], p[2], p[3], p[4]>>,
           p[1] \in S, p[2] \in S, p[3] \in S, p[4] \in S
    PROVE  p \in Seq(S) /\ Len(p) = 4
<1>1. \A x, y, z, w \in S : <<x, y, z, w>> \in Seq(S) /\ Len(<<x, y, z, w>>) = 4
    OBVIOUS
<1>2. <<p[1], p[2], p[3], p[4]>> \in Seq(S) /\ Len(<<p[1], p[2], p[3], p[4]>>) = 4
    BY <1>1, Zenon
<1>. QED BY <1>2, Zenon

(* The contract reads the proof snarkjs made. *)
LEMMA ProofBytes ==
    ASSUME NEW circuit, NEW v
    PROVE  LET of == <<circuit, v>>
               bytes == SnarkjsProofToBytes(SnarkjsProof(circuit, v))
           IN  /\ Len(bytes) = 8
               /\ ProofFromBytes(bytes) = [a_g1 |-> G1("a", of), b_g2 |-> EncodeG2(G2("b", of)),
                                           c_g1 |-> G1("c", of)]
<1>. DEFINE of == <<circuit, v>>
            a == G1("a", of)
            b == EncodeG2(G2("b", of))
            c == G1("c", of)
            S == {a[1], a[2], b[1], b[2], b[3], b[4], c[1], c[2]}
            proof == SnarkjsProof(circuit, v)
<1>1. proof.pi_a = a /\ proof.pi_b = G2("b", of) /\ proof.pi_c = c
    BY DEF SnarkjsProof
<1>2. EncodeG1(a) = a /\ EncodeG1(c) = c
    BY EncodedPoints
<1>3. SnarkjsProofToBytes(proof) = a \o b \o c
    <2>. HIDE DEF proof, a, b, c
    <2>1. EncodeG2(proof.pi_b) = b
        BY <1>1 DEF b
    <2>. QED BY <1>1, <1>2, <2>1, Zenon DEF SnarkjsProofToBytes
<1>4. /\ a = <<a[1], a[2]>> /\ c = <<c[1], c[2]>> /\ b = <<b[1], b[2], b[3], b[4]>>
    BY EncodedPoints
<1>5. a \in Seq(S) /\ b \in Seq(S) /\ c \in Seq(S) /\ Len(a) = 2 /\ Len(b) = 4 /\ Len(c) = 2
    <2>1. /\ a[1] \in S /\ a[2] \in S /\ c[1] \in S /\ c[2] \in S
          /\ b[1] \in S /\ b[2] \in S /\ b[3] \in S /\ b[4] \in S
        OBVIOUS
    <2>. HIDE DEF a, b, c, S
    <2>2. a \in Seq(S) /\ Len(a) = 2
        BY <1>4, <2>1, PairIsSequence, Zenon
    <2>3. c \in Seq(S) /\ Len(c) = 2
        BY <1>4, <2>1, PairIsSequence, Zenon
    <2>4. b \in Seq(S) /\ Len(b) = 4
        BY <1>4, <2>1, FourAreSequence, Zenon
    <2>. QED BY <2>2, <2>3, <2>4
<1>. HIDE DEF a, b, c, S
<1>6. Len(a \o b \o c) = 8 /\ ProofFromBytes(a \o b \o c) = [a_g1 |-> a, b_g2 |-> b, c_g1 |-> c]
    BY <1>5, ProofParses
<1>. QED BY <1>3, <1>6, Zenon DEF a, b, c

(* The contract reads the key it was given. *)
LEMMA KeyBytes ==
    ASSUME NEW circuit \in Methods
    PROVE  LET vk == SnarkjsVk(circuit) IN
           VkFromBytes(Vk[circuit]) =
               [ alpha_g1 |-> vk.vk_alpha_1, beta_g2 |-> EncodeG2(vk.vk_beta_2),
                 gamma_g2 |-> EncodeG2(vk.vk_gamma_2), delta_g2 |-> EncodeG2(vk.vk_delta_2),
                 gamma_abc_g1 |-> vk.IC ]
<1>. DEFINE vk == SnarkjsVk(circuit)
            m == Len(PublicSignals[circuit]) + 1
            a == vk.vk_alpha_1
            b == EncodeG2(vk.vk_beta_2)
            c == EncodeG2(vk.vk_gamma_2)
            d == EncodeG2(vk.vk_delta_2)
            r == [x \in 1 .. 2 * Len(vk.IC) |-> EncodeG1(vk.IC[(x + 1) \div 2])[2 - (x % 2)]]
            bytes == a \o b \o c \o d \o r
            S == {a[1], a[2], b[1], b[2], b[3], b[4], c[1], c[2], c[3], c[4],
                  d[1], d[2], d[3], d[4]} \cup {r[x] : x \in 1 .. 2 * m}
<1>1. /\ a = G1("alpha", circuit) /\ b = EncodeG2(G2("beta", circuit))
      /\ c = EncodeG2(G2("gamma", circuit)) /\ d = EncodeG2(G2("delta", circuit))
      /\ vk.IC = [k \in 1 .. m |-> G1("IC", <<circuit, k>>)]
    BY DEF SnarkjsVk
<1>2. m \in Nat
    BY DEF Methods, PublicSignals
<1>3. Vk[circuit] = bytes
    <2>1. circuit \in DOMAIN PublicSignals
        BY DEF Methods, PublicSignals
    <2>2. Vk[circuit] = VkJsonToContractBytes(vk)
        BY <2>1 DEF Vk
    <2>3. EncodeG1(vk.vk_alpha_1) = a
        <3>. HIDE DEF vk
        <3>. QED BY <1>1, EncodedPoints
    <2>. HIDE DEF vk
    <2>. QED BY <2>2, <2>3, Zenon DEF VkJsonToContractBytes
<1>4. /\ a = <<a[1], a[2]>> /\ b = <<b[1], b[2], b[3], b[4]>>
      /\ c = <<c[1], c[2], c[3], c[4]>> /\ d = <<d[1], d[2], d[3], d[4]>>
    <2>. HIDE DEF a, b, c, d
    <2>. QED BY <1>1, EncodedPoints
<1>5. Len(vk.IC) = m
    <2>. HIDE DEF m, vk
    <2>. QED BY <1>1, <1>2
<1>6. \A k \in 1 .. m : r[2 * k - 1] = G1("IC", <<circuit, k>>)[1] /\ r[2 * k] = G1("IC", <<circuit, k>>)[2]
    <2>. HIDE DEF m, vk
    <2>. SUFFICES ASSUME NEW k \in 1 .. m
                  PROVE  r[2 * k - 1] = G1("IC", <<circuit, k>>)[1] /\ r[2 * k] = G1("IC", <<circuit, k>>)[2]
        OBVIOUS
    <2>1. vk.IC[k] = G1("IC", <<circuit, k>>)
        BY <1>1
    <2>2. EncodeG1(vk.IC[k]) = G1("IC", <<circuit, k>>)
        BY <2>1, EncodedPoints
    <2>3. /\ 2 * k - 1 \in 1 .. 2 * m /\ 2 * k \in 1 .. 2 * m
          /\ ((2 * k - 1) + 1) \div 2 = k /\ (2 * k + 1) \div 2 = k
          /\ 2 - ((2 * k - 1) % 2) = 1 /\ 2 - ((2 * k) % 2) = 2
        BY <1>2
    <2>. QED BY <1>5, <2>2, <2>3
<1>. HIDE DEF a, b, c, d, vk
<1>7. /\ a \in Seq(S) /\ b \in Seq(S) /\ c \in Seq(S) /\ d \in Seq(S)
      /\ Len(a) = 2 /\ Len(b) = 4 /\ Len(c) = 4 /\ Len(d) = 4
    <2>1. /\ a[1] \in S /\ a[2] \in S
          /\ b[1] \in S /\ b[2] \in S /\ b[3] \in S /\ b[4] \in S
          /\ c[1] \in S /\ c[2] \in S /\ c[3] \in S /\ c[4] \in S
          /\ d[1] \in S /\ d[2] \in S /\ d[3] \in S /\ d[4] \in S
        OBVIOUS
    <2>. HIDE DEF S
    <2>2. a \in Seq(S) /\ Len(a) = 2
        BY <1>4, <2>1, PairIsSequence, Zenon
    <2>3. b \in Seq(S) /\ Len(b) = 4
        BY <1>4, <2>1, FourAreSequence, Zenon
    <2>4. c \in Seq(S) /\ Len(c) = 4
        BY <1>4, <2>1, FourAreSequence, Zenon
    <2>5. d \in Seq(S) /\ Len(d) = 4
        BY <1>4, <2>1, FourAreSequence, Zenon
    <2>. QED BY <2>2, <2>3, <2>4, <2>5
<1>8. r \in Seq(S) /\ Len(r) = 2 * m
    <2>1. 2 * m \in Nat
        BY <1>2
    <2>2. r \in [1 .. 2 * m -> S]
        BY <1>5
    <2>. HIDE DEF r, m, S
    <2>. QED BY <2>1, <2>2, FunctionsAreSequences
<1>. HIDE DEF r, S, m
<1>9. KeyParts(bytes, a, b, c, d, r, m)
    BY <1>2, <1>7, <1>8, KeyParses
<1>. HIDE DEF bytes
<1>10. (Len(bytes) - 14) \div 2 = m
    BY <1>2, <1>9 DEF KeyParts
<1>11. VkFromBytes(bytes).gamma_abc_g1 = vk.IC
    <2>1. \A k \in 1 .. m : SubSeq(bytes, 13 + 2 * k, 14 + 2 * k) = G1("IC", <<circuit, k>>)
        <3>. SUFFICES ASSUME NEW k \in 1 .. m
                      PROVE  SubSeq(bytes, 13 + 2 * k, 14 + 2 * k) = G1("IC", <<circuit, k>>)
            OBVIOUS
        <3>. DEFINE p == G1("IC", <<circuit, k>>)
        <3>1. SubSeq(bytes, 13 + 2 * k, 14 + 2 * k) = <<r[2 * k - 1], r[2 * k]>>
            BY <1>9 DEF KeyParts
        <3>2. r[2 * k - 1] = p[1] /\ r[2 * k] = p[2]
            BY <1>6
        <3>3. p = <<p[1], p[2]>>
            BY EncodedPoints
        <3>. HIDE DEF p
        <3>4. <<r[2 * k - 1], r[2 * k]>> = p
            BY <3>2, <3>3, Zenon
        <3>. QED BY <3>1, <3>4, Zenon DEF p
    <2>. QED BY <1>1, <1>10, <2>1 DEF VkFromBytes
<1>12. VkFromBytes(bytes) =
        [ alpha_g1 |-> a, beta_g2 |-> b, gamma_g2 |-> c, delta_g2 |-> d,
          gamma_abc_g1 |-> VkFromBytes(bytes).gamma_abc_g1 ]
    BY <1>9 DEF KeyParts, VkFromBytes
<1>. QED BY <1>3, <1>11, <1>12 DEF a, b, c, d, vk

(* The pairing check of a proof snarkjs made and the pool's key for its    *)
(* circuit, of inputs as many as the circuit has, tells whether they are   *)
(* the ones it was made for. *)
LEMMA VerifiesExactly ==
    ASSUME NEW circuit \in Methods, NEW v, NEW inputs,
           Len(inputs) = Len(PublicSignals[circuit])
    PROVE  Verify(Vk[circuit], SnarkjsProofToBytes(SnarkjsProof(circuit, v)), inputs) <=> inputs = v
<1>. DEFINE of == <<circuit, v>>
            a == G1("a", of)
            b == EncodeG2(G2("b", of))
            c == G1("c", of)
            bytes == SnarkjsProofToBytes(SnarkjsProof(circuit, v))
            vk == SnarkjsVk(circuit)
            beta == EncodeG2(vk.vk_beta_2)
            gamma == EncodeG2(vk.vk_gamma_2)
            delta == EncodeG2(vk.vk_delta_2)
            pairs == <<<<NegateG1(a), b>>, <<vk.vk_alpha_1, beta>>,
                       <<LinearCombination(vk.IC, inputs), gamma>>, <<c, delta>>>>
<1>1. Len(bytes) = 8 /\ ProofFromBytes(bytes) = [a_g1 |-> a, b_g2 |-> b, c_g1 |-> c]
    BY ProofBytes
<1>2. VkFromBytes(Vk[circuit]) =
        [ alpha_g1 |-> vk.vk_alpha_1, beta_g2 |-> beta, gamma_g2 |-> gamma, delta_g2 |-> delta,
          gamma_abc_g1 |-> vk.IC ]
    BY KeyBytes
<1>3. Len(vk.IC) = Len(inputs) + 1
    <2>. DEFINE m == Len(PublicSignals[circuit]) + 1
    <2>1. vk.IC = [k \in 1 .. m |-> G1("IC", <<circuit, k>>)]
        BY DEF SnarkjsVk
    <2>2. m \in Nat
        BY DEF Methods, PublicSignals
    <2>. HIDE DEF m, vk
    <2>3. Len(vk.IC) = m
        BY <2>1, <2>2
    <2>. QED BY <2>3 DEF m
<1>. HIDE DEF a, b, c, bytes, beta, gamma, delta, vk
<1>4. Verify(Vk[circuit], bytes, inputs) <=> PairingCheck(pairs)
    <2>. DEFINE pf == ProofFromBytes(bytes)
                key == VkFromBytes(Vk[circuit])
    <2>1. pf.a_g1 = a /\ pf.b_g2 = b /\ pf.c_g1 = c
        BY <1>1
    <2>2. /\ key.alpha_g1 = vk.vk_alpha_1 /\ key.beta_g2 = beta /\ key.gamma_g2 = gamma
          /\ key.delta_g2 = delta /\ key.gamma_abc_g1 = vk.IC
        BY <1>2
    <2>. HIDE DEF pf, key
    <2>3. VerifyGroth16(key, pf, inputs) <=> Len(vk.IC) = Len(inputs) + 1 /\ PairingCheck(pairs)
        BY <2>1, <2>2, Zenon DEF VerifyGroth16
    <2>. QED BY <1>1, <1>3, <2>3 DEF Verify, pf, key
<1>5. ASSUME PairingCheck(pairs) PROVE inputs = v
    <2>1. pairs[3][1][3] = inputs
        BY DEF LinearCombination
    <2>2. PICK other \in DOMAIN PublicSignals :
            pairs[1] = <<NegateG1(G1("a", <<other, inputs>>)), EncodeG2(G2("b", <<other, inputs>>))>>
        <3>1. PICK other \in DOMAIN PublicSignals :
                LET proof == SnarkjsProof(other, inputs)
                    key == SnarkjsVk(other)
                IN  pairs = <<<<NegateG1(proof.pi_a), EncodeG2(proof.pi_b)>>,
                              <<key.vk_alpha_1, EncodeG2(key.vk_beta_2)>>,
                              <<LinearCombination(key.IC, inputs), EncodeG2(key.vk_gamma_2)>>,
                              <<proof.pi_c, EncodeG2(key.vk_delta_2)>>>>
            BY <1>5, <2>1, Zenon DEF PairingCheck
        <3>2. pairs[1] = <<NegateG1(SnarkjsProof(other, inputs).pi_a),
                           EncodeG2(SnarkjsProof(other, inputs).pi_b)>>
            <4>. HIDE DEF pairs
            <4>. QED BY <3>1
        <3>3. /\ SnarkjsProof(other, inputs).pi_a = G1("a", <<other, inputs>>)
              /\ SnarkjsProof(other, inputs).pi_b = G2("b", <<other, inputs>>)
            BY DEF SnarkjsProof
        <3>. QED BY <3>2, <3>3
    <2>3. NegateG1(a) = NegateG1(G1("a", <<other, inputs>>))
        BY <2>2
    <2>4. a[1] = <<"a", "x", <<circuit, v>>>> /\ G1("a", <<other, inputs>>)[1] = <<"a", "x", <<other, inputs>>>>
        BY EncodedPoints DEF a
    <2>5. <<"a", "x", <<circuit, v>>>> = <<"a", "x", <<other, inputs>>>>
        <3>1. NegateG1(a)[1] = a[1]
            BY DEF NegateG1
        <3>2. NegateG1(G1("a", <<other, inputs>>))[1] = G1("a", <<other, inputs>>)[1]
            BY DEF NegateG1
        <3>. QED BY <2>3, <2>4, <3>1, <3>2, Zenon
    <2>. QED BY <2>5
<1>6. ASSUME inputs = v PROVE PairingCheck(pairs)
    <2>1. circuit \in DOMAIN PublicSignals
        BY DEF Methods, PublicSignals
    <2>2. pairs[3][1][3] = inputs
        BY DEF LinearCombination
    <2>. DEFINE proof == SnarkjsProof(circuit, inputs)
                key == SnarkjsVk(circuit)
    <2>3. proof.pi_a = a /\ EncodeG2(proof.pi_b) = b /\ proof.pi_c = c
        BY <1>6 DEF SnarkjsProof, a, b, c
    <2>4. key = vk
        BY DEF vk
    <2>. HIDE DEF proof, key
    <2>5. pairs = <<<<NegateG1(proof.pi_a), EncodeG2(proof.pi_b)>>,
                    <<key.vk_alpha_1, EncodeG2(key.vk_beta_2)>>,
                    <<LinearCombination(key.IC, inputs), EncodeG2(key.vk_gamma_2)>>,
                    <<proof.pi_c, EncodeG2(key.vk_delta_2)>>>>
        BY <2>3, <2>4, Zenon DEF beta, gamma, delta
    <2>. HIDE DEF pairs
    <2>. QED BY <2>1, <2>2, <2>5, Zenon DEF PairingCheck, proof, key
<1>. QED BY <1>4, <1>5, <1>6 DEF bytes

(* The placeholder is too short to be a proof. *)
LEMMA PlaceholderFails == \A vk, inputs : ~ Verify(vk, Placeholder, inputs)
BY DEF Placeholder, Verify

TransferKeys ==
    {"in0Amount", "in0OwnerPubkey", "in0Blinding", "in0Path", "in0LeafIndex",
     "in1Amount", "in1OwnerPubkey", "in1Blinding", "in1Path", "in1LeafIndex", "spendingKey",
     "out0Amount", "out0OwnerPubkey", "out0Blinding",
     "out1Amount", "out1OwnerPubkey", "out1Blinding",
     "viewCtHashSenderWitness", "viewCtHashRecipientWitness"}

(* The names a request's witness goes by. *)
WitnessKeys(circuit) ==
    CASE circuit = "deposit"  -> {"ownerPubkey", "blinding", "viewCtHashWitness"}
      [] circuit = "transfer" -> TransferKeys
      [] circuit = "withdraw" ->
            {"noteAmount", "noteOwnerPubkey", "noteAuditorPubkey", "noteBlinding", "spendingKey",
             "leafIndex", "merklePath", "viewCtHashWitness"}

RenamedTo(circuit, key) == IF key \in DOMAIN RENAME[circuit] THEN RENAME[circuit][key] ELSE key

(* No witness takes the place of a public signal, and no public signal     *)
(* comes twice. *)
LEMMA PublicNamesAreDistinct ==
    ASSUME NEW circuit \in Methods
    PROVE  /\ PublicSignals[circuit] = PUBLIC_NAMES[circuit]
           /\ \A i, j \in DOMAIN PUBLIC_NAMES[circuit] :
                 PUBLIC_NAMES[circuit][i] = PUBLIC_NAMES[circuit][j] => i = j
           /\ \A key \in WitnessKeys(circuit) : \A k \in DOMAIN PUBLIC_NAMES[circuit] :
                 RenamedTo(circuit, key) # PUBLIC_NAMES[circuit][k]
<1>1. PublicSignals[circuit] = PUBLIC_NAMES[circuit]
    BY DEF Methods, PublicSignals, PUBLIC_NAMES
<1>2. CASE circuit = "deposit"
    <2>1. PUBLIC_NAMES[circuit] = <<"commitment", "amount", "auditorPubkey", "viewCtHash">>
        BY <1>2 DEF PUBLIC_NAMES
    <2>2. RENAME[circuit] = <<>> /\ WitnessKeys(circuit) = {"ownerPubkey", "blinding", "viewCtHashWitness"}
        BY <1>2 DEF RENAME, WitnessKeys
    <2>3. \A key \in WitnessKeys(circuit) : RenamedTo(circuit, key) = key
        BY <2>2 DEF RenamedTo
    <2>. QED BY <1>1, <2>1, <2>2, <2>3
<1>3. CASE circuit = "transfer"
    <2>1. PUBLIC_NAMES[circuit] =
            <<"merkleRoot", "nullifier0", "nullifier1", "commitmentOut0", "commitmentOut1",
              "auditorPubkey", "recipientAuditorPubkey", "viewCtHashSender", "viewCtHashRecipient">>
        BY <1>3 DEF PUBLIC_NAMES
    <2>2. /\ RENAME[circuit] = [in0OwnerPubkey |-> "in0Owner", in1OwnerPubkey |-> "in1Owner",
                                out0OwnerPubkey |-> "out0Owner", out1OwnerPubkey |-> "out1Owner"]
          /\ WitnessKeys(circuit) = TransferKeys
        BY <1>3 DEF RENAME, WitnessKeys
    <2>3. \A key \in WitnessKeys(circuit) :
             RenamedTo(circuit, key) \in (TransferKeys \cup {"in0Owner", "in1Owner", "out0Owner", "out1Owner"})
        BY <2>2 DEF RenamedTo
    <2>4. \A i, j \in DOMAIN PUBLIC_NAMES[circuit] :
             PUBLIC_NAMES[circuit][i] = PUBLIC_NAMES[circuit][j] => i = j
        BY <2>1
    <2>5. \A k \in DOMAIN PUBLIC_NAMES[circuit] :
             PUBLIC_NAMES[circuit][k] \notin (TransferKeys \cup {"in0Owner", "in1Owner", "out0Owner", "out1Owner"})
        BY <2>1 DEF TransferKeys
    <2>. QED BY <1>1, <2>3, <2>4, <2>5
<1>4. CASE circuit = "withdraw"
    <2>1. PUBLIC_NAMES[circuit] =
            <<"merkleRoot", "nullifier", "recipient", "amount", "relayer", "relayerFee",
              "auditorPubkey", "viewCtHash">>
        BY <1>4 DEF PUBLIC_NAMES
    <2>2. /\ RENAME[circuit] = [noteOwnerPubkey |-> "noteOwner", noteAuditorPubkey |-> "noteAuditor"]
          /\ WitnessKeys(circuit) =
                {"noteAmount", "noteOwnerPubkey", "noteAuditorPubkey", "noteBlinding", "spendingKey",
                 "leafIndex", "merklePath", "viewCtHashWitness"}
        BY <1>4 DEF RENAME, WitnessKeys
    <2>3. \A key \in WitnessKeys(circuit) :
             RenamedTo(circuit, key) \in (WitnessKeys(circuit) \cup {"noteOwner", "noteAuditor"})
        BY <2>2 DEF RenamedTo
    <2>4. \A i, j \in DOMAIN PUBLIC_NAMES[circuit] :
             PUBLIC_NAMES[circuit][i] = PUBLIC_NAMES[circuit][j] => i = j
        BY <2>1
    <2>5. \A k \in DOMAIN PUBLIC_NAMES[circuit] :
             PUBLIC_NAMES[circuit][k] \notin (WitnessKeys(circuit) \cup {"noteOwner", "noteAuditor"})
        BY <2>1, <2>2
    <2>. QED BY <1>1, <2>3, <2>4, <2>5
<1>. QED BY <1>2, <1>3, <1>4 DEF Methods

(* The signals a proof is made of are the request's public inputs, in      *)
(* their order. *)
LEMMA SignalsByPosition ==
    ASSUME NEW circuit \in Methods, NEW request, request.circuit = circuit,
           DOMAIN request.witness = WitnessKeys(circuit)
    PROVE  Signals(circuit, CircomInput(request))
             = [k \in DOMAIN PublicSignals[circuit] |-> request.publicInputs[k][2]]
<1>. DEFINE names == PUBLIC_NAMES[circuit]
            keys == DOMAIN request.witness
            Keys(n) == {key \in keys : RenamedTo(circuit, key) = n}
            Positions(n) == {k \in DOMAIN names : names[k] = n}
            Input(n) == IF Keys(n) # {} THEN request.witness[CHOOSE key \in Keys(n) : TRUE][2]
                        ELSE request.publicInputs[CHOOSE k \in Positions(n) : TRUE][2]
<1>1. CircomInput(request)
        = [n \in Range(names) \cup {RenamedTo(circuit, key) : key \in keys} |-> Input(n)]
    BY DEF CircomInput, RenamedTo
<1>2. ASSUME NEW k \in DOMAIN names
      PROVE  CircomInput(request)[names[k]] = request.publicInputs[k][2]
    <2>1. Keys(names[k]) = {}
        BY PublicNamesAreDistinct
    <2>2. Positions(names[k]) = {k}
        BY PublicNamesAreDistinct
    <2>3. Input(names[k]) = request.publicInputs[k][2]
        BY <2>1, <2>2
    <2>4. names[k] \in Range(names)
        BY DEF Range
    <2>. HIDE DEF Input, names, keys
    <2>. QED BY <1>1, <2>3, <2>4
<1>3. PublicSignals[circuit] = names
    BY PublicNamesAreDistinct
<1>. HIDE DEF names
<1>. QED BY <1>2, <1>3 DEF Signals

(* What is proved is what the contract rebuilds from the call. *)
LEMMA DepositsAgree ==
    ASSUME NEW o, o.tx.method = "deposit", NEW root, NEW proof,
           NEW call, call = FtTransferCall(BuiltTx(o, root, proof))
    PROVE  /\ call.args.proof = proof /\ Len(ContractInputs("deposit", call.args)) = 4
           /\ Signals("deposit", CircomInput(RequestOf(o))) = ContractInputs("deposit", call.args)
<1>. DEFINE tx == BuiltTx(o, root, proof)
            request == DepositRequest(o)
            c == CommitNote(o.tx.creates[1])
            d == AuditorField(o.tx.auditors[1])
            h == ViewCtHash(o.tx.viewCts[1])
            f == Field(o.tx.amount)
            v == <<c, f, d, h>>
<1>1. RequestOf(o) = request
    BY DEF RequestOf
<1>2. /\ request.circuit = "deposit" /\ DOMAIN request.witness = WitnessKeys("deposit")
      /\ request.publicInputs = <<Hex(c), Hex(f), Hex(d), Hex(h)>>
    BY DEF DepositRequest, WitnessKeys
<1>3. Hex(c)[2] = c /\ Hex(f)[2] = f /\ Hex(d)[2] = d /\ Hex(h)[2] = h
    BY DEF Hex
<1>4. DOMAIN PublicSignals["deposit"] = 1 .. 4 /\ "deposit" \in Methods
    BY DEF PublicSignals, Methods
<1>5. tx.publicInputs = [commitment |-> Hex(c), amount |-> Dec(o.tx.amount), auditorPubkey |-> Hex(d)]
    <2>1. tx.publicInputs = PublicInputs(o, root)
        BY DEF BuiltTx
    <2>. QED BY <2>1 DEF PublicInputs
<1>6. tx.proof = proof /\ tx.viewCiphertexts = o.tx.viewCts
    BY DEF BuiltTx
<1>. HIDE DEF tx, request, c, d, f
<1>7. Signals("deposit", CircomInput(request)) = v
    <2>1. Signals("deposit", CircomInput(request)) = [k \in 1 .. 4 |-> request.publicInputs[k][2]]
        BY <1>2, <1>4, SignalsByPosition
    <2>. HIDE DEF h
    <2>. QED BY <1>2, <1>3, <2>1
<1>8. /\ call.args.proof = proof /\ call.args.commitment = Hex(c)
      /\ call.args.amount = Dec(o.tx.amount) /\ call.args.auditor_pubkey = Hex(d)
      /\ call.args.view_ct = Encoded(o.tx.viewCts[1])
    <2>1. call = FtTransferCall(tx)
        BY DEF tx
    <2>2. call.args = DepositArgs(tx)
        BY <2>1 DEF FtTransferCall
    <2>. QED BY <1>5, <1>6, <2>2 DEF DepositArgs
<1>9. ContractInputs("deposit", call.args) = v
    <2>1. ContractInputs("deposit", call.args) = DepositInputs(call.args)
        BY DEF ContractInputs
    <2>2. Dec(o.tx.amount)[2] = o.tx.amount
        BY DEF Dec
    <2>. QED BY <1>3, <1>8, <2>1, <2>2 DEF DepositInputs, ParseHex32, U128, ViewCtHash, f
<1>10. Len(v) = 4
    OBVIOUS
<1>. QED BY <1>1, <1>7, <1>8, <1>9, <1>10

LEMMA TransfersAgree ==
    ASSUME NEW o, o.tx.method = "transfer", NEW proof,
           NEW call, call = TransferCall(BuiltTx(o, o.tx.root, proof))
    PROVE  /\ call.args.proof = proof /\ Len(ContractInputs("transfer", call.args)) = 9
           /\ Signals("transfer", CircomInput(RequestOf(o))) = ContractInputs("transfer", call.args)
<1>. DEFINE tx == BuiltTx(o, o.tx.root, proof)
            request == TransferRequest(o)
            r == o.tx.root[2]
            n1 == NullifierOf(o.user, o.inputs[1])
            n2 == NullifierOf(o.user, o.inputs[2])
            c1 == CommitNote(o.tx.creates[1])
            c2 == CommitNote(o.tx.creates[2])
            d1 == AuditorField(o.tx.auditors[1])
            d2 == AuditorField(o.tx.auditors[2])
            h1 == ViewCtHash(o.tx.viewCts[1])
            h2 == ViewCtHash(o.tx.viewCts[2])
            v == <<r, n1, n2, c1, c2, d1, d2, h1, h2>>
<1>1. RequestOf(o) = request
    BY DEF RequestOf
<1>2. /\ request.circuit = "transfer" /\ DOMAIN request.witness = WitnessKeys("transfer")
      /\ request.publicInputs = <<o.tx.root, Hex(n1), Hex(n2), Hex(c1), Hex(c2), Hex(d1), Hex(d2),
                                  Hex(h1), Hex(h2)>>
    BY DEF TransferRequest, WitnessKeys, TransferKeys
<1>3. \A x : Hex(x)[2] = x
    BY DEF Hex
<1>4. DOMAIN PublicSignals["transfer"] = 1 .. 9 /\ "transfer" \in Methods
    BY DEF PublicSignals, Methods
<1>5. /\ tx.publicInputs.merkleRoot = o.tx.root
      /\ tx.publicInputs.nullifiers[1] = Hex(n1) /\ tx.publicInputs.nullifiers[2] = Hex(n2)
      /\ tx.publicInputs.commitments[1] = Hex(c1) /\ tx.publicInputs.commitments[2] = Hex(c2)
      /\ tx.publicInputs.auditorPubkey = Hex(d1) /\ tx.publicInputs.recipientAuditorPubkey = Hex(d2)
    <2>1. tx.publicInputs = PublicInputs(o, o.tx.root)
        BY DEF BuiltTx
    <2>. QED BY <2>1 DEF PublicInputs
<1>6. tx.proof = proof /\ tx.viewCiphertexts = o.tx.viewCts
    BY DEF BuiltTx
<1>. HIDE DEF tx, request, r, n1, n2, c1, c2, d1, d2
<1>7. Signals("transfer", CircomInput(request)) = v
    <2>1. Signals("transfer", CircomInput(request)) = [k \in 1 .. 9 |-> request.publicInputs[k][2]]
        BY <1>2, <1>4, SignalsByPosition
    <2>. HIDE DEF h1, h2
    <2>. QED BY <1>2, <1>3, <2>1 DEF r
<1>8. /\ call.args.proof = proof /\ call.args.merkle_root = o.tx.root
      /\ call.args.nullifiers[1] = Hex(n1) /\ call.args.nullifiers[2] = Hex(n2)
      /\ call.args.commitments[1] = Hex(c1) /\ call.args.commitments[2] = Hex(c2)
      /\ call.args.auditor_pubkey = Hex(d1) /\ call.args.recipient_auditor_pubkey = Hex(d2)
      /\ call.args.view_cts[1] = Encoded(o.tx.viewCts[1])
      /\ call.args.view_cts[2] = Encoded(o.tx.viewCts[2])
    <2>1. call = TransferCall(tx)
        BY DEF tx
    <2>2. call.args = TransferArgs(tx)
        BY <2>1 DEF TransferCall
    <2>. QED BY <1>5, <1>6, <2>2 DEF TransferArgs
<1>9. ContractInputs("transfer", call.args) = v
    <2>1. ContractInputs("transfer", call.args) = TransferInputs(call.args)
        BY DEF ContractInputs
    <2>. QED BY <1>3, <1>8, <2>1 DEF TransferInputs, ParseHex32, ViewCtHash, r
<1>10. Len(v) = 9
    <2>. HIDE DEF h1, h2
    <2>. QED OBVIOUS
<1>. QED BY <1>1, <1>7, <1>8, <1>9, <1>10

(* A withdraw's envelopes: the wallet's own, with the root it proved       *)
(* against, and what the relayer submits, which never has another. *)
IsWithdraw(o, root, proof, call) ==
    \/ root = o.tx.root /\ call = WithdrawCall(BuiltTx(o, root, proof))
    \/ call = SubmitWithdraw(SubmitRequest(o, BuiltTx(o, root, proof)))

LEMMA WithdrawsAgree ==
    ASSUME NEW o, o.tx.method = "withdraw", o.tx.auditors[1] = o.inputs[1].note.auditor,
           NEW root, NEW proof, NEW call, IsWithdraw(o, root, proof, call)
    PROVE  /\ call.args.proof = proof /\ Len(ContractInputs("withdraw", call.args)) = 8
           /\ Signals("withdraw", CircomInput(RequestOf(o))) = ContractInputs("withdraw", call.args)
<1>. DEFINE tx == BuiltTx(o, root, proof)
            request == WithdrawRequest(o)
            r == o.tx.root[2]
            n == NullifierOf(o.user, o.inputs[1])
            d == AuditorField(o.tx.auditors[1])
            h == ViewCtHash(o.tx.viewCts[1])
            f == Field(o.tx.amount)
            g == Field(o.tx.fee)
            to == HashBytes(o.recipient)
            by == HashBytes(o.relayer)
            v == <<r, n, to, f, by, g, d, h>>
<1>1. RequestOf(o) = request
    BY DEF RequestOf
<1>2. /\ request.circuit = "withdraw" /\ DOMAIN request.witness = WitnessKeys("withdraw")
      /\ request.publicInputs = <<o.tx.root, Hex(n), Hex(to), Hex(f), Hex(by), Hex(g), Hex(d), Hex(h)>>
    BY DEF WithdrawRequest, WitnessKeys
<1>3. (\A x : Hex(x)[2] = x) /\ (\A x : Dec(x)[2] = x)
    BY DEF Hex, Dec
<1>4. DOMAIN PublicSignals["withdraw"] = 1 .. 8 /\ "withdraw" \in Methods
    BY DEF PublicSignals, Methods
<1>5. /\ tx.publicInputs.merkleRoot = root /\ tx.publicInputs.nullifier = Hex(n)
      /\ tx.publicInputs.recipient = o.recipient /\ tx.publicInputs.amount = Dec(o.tx.amount)
      /\ tx.publicInputs.relayer = o.relayer /\ tx.publicInputs.relayerFee = Dec(o.tx.fee)
      /\ tx.publicInputs.auditorPubkey = Hex(d)
    <2>1. tx.publicInputs = PublicInputs(o, root)
        BY DEF BuiltTx
    <2>. QED BY <2>1 DEF PublicInputs
<1>6. tx.proof = proof /\ tx.viewCiphertexts = o.tx.viewCts
    BY DEF BuiltTx
<1>. HIDE DEF tx, request, r, n, d, f, g, to, by
<1>7. Signals("withdraw", CircomInput(request)) = v
    <2>1. Signals("withdraw", CircomInput(request)) = [k \in 1 .. 8 |-> request.publicInputs[k][2]]
        BY <1>2, <1>4, SignalsByPosition
    <2>. HIDE DEF h
    <2>. QED BY <1>2, <1>3, <2>1 DEF r
<1>8. /\ call.args.proof = proof /\ call.args.merkle_root = o.tx.root
      /\ call.args.nullifier = Hex(n) /\ call.args.recipient = o.recipient
      /\ call.args.amount = Dec(o.tx.amount) /\ call.args.relayer = o.relayer
      /\ call.args.relayer_fee = Dec(o.tx.fee) /\ call.args.auditor_pubkey = Hex(d)
      /\ call.args.view_ct = Encoded(o.tx.viewCts[1])
    <2>1. CASE root = o.tx.root /\ call = WithdrawCall(tx)
        <3>1. call.args = WithdrawArgs(tx)
            BY <2>1 DEF WithdrawCall
        <3>. QED BY <1>5, <1>6, <2>1, <3>1 DEF WithdrawArgs
    <2>2. CASE call = SubmitWithdraw(SubmitRequest(o, tx))
        BY <1>5, <1>6, <2>2 DEF SubmitWithdraw, SubmitRequest
    <2>. QED BY <2>1, <2>2 DEF tx, IsWithdraw
<1>9. ContractInputs("withdraw", call.args) = v
    <2>1. ContractInputs("withdraw", call.args) = WithdrawInputs(call.args)
        BY DEF ContractInputs
    <2>. QED BY <1>3, <1>8, <2>1 DEF WithdrawInputs, ParseHex32, U128, ViewCtHash, r, f, g, to, by
<1>10. Len(v) = 8
    <2>. HIDE DEF h
    <2>. QED OBVIOUS
<1>. QED BY <1>1, <1>7, <1>8, <1>9, <1>10

------------------------------------------------------------------------------
(* What the circuits' range checks are worth: their equations hold in a    *)
(* field, where sums and differences wrap, and yet of the integers, for    *)
(* any order of the field and any widths that fit it twice. *)

FieldElement(f) == \E n \in 0 .. FieldOrder - 1 : f = <<"field", n>>

(* Small sums do not wrap. *)
LEMMA SmallSums ==
    ASSUME NEW p \in Nat, NEW r \in Nat, 2 * r <= p,
           NEW a \in Nat, NEW b \in Nat, NEW c \in Nat, NEW d \in Nat,
           a < r, b < r, c < r, d < r, (a + b) % p = (c + d) % p
    PROVE  a + b = c + d
  <1>1. a + b \in 0 .. p - 1 /\ c + d \in 0 .. p - 1
    OBVIOUS
  <1>2. \A x \in 0 .. p - 1 : x % p = x
    OBVIOUS
  <1> QED
    BY <1>1, <1>2

(* A difference that is small has not wrapped. *)
LEMMA SmallDifferences ==
    ASSUME NEW p \in Nat, NEW r \in Nat, 2 * r <= p,
           NEW a \in Nat, NEW b \in Nat, a < r, b < r, (a - b) % p < r
    PROVE  b <= a
  <1> SUFFICES ASSUME a < b
               PROVE  FALSE
    OBVIOUS
  <1>1. a - b + p \in r .. p - 1
    OBVIOUS
  <1>2. (a - b) % p = a - b + p
    <2>1. \A x \in 0 .. p - 1 : (x - p) % p = x
      OBVIOUS
    <2> QED
      BY <1>1, <2>1
  <1> QED
    BY <1>1, <1>2

LEMMA Values == \A f : FieldElement(f) => Value(f) \in Nat
  BY FieldAssumption DEF FieldElement, Value

(* The conservation a transfer's circuit demands in the field holds of the *)
(* amounts, whatever field elements the prover puts for them: no witness   *)
(* mints value by wrapping around the order (transfer.circom).             *)
THEOREM TransferConserves ==
    ASSUME NEW s, Transfer(s),
           FieldElement(s.in0Amount), FieldElement(s.in1Amount),
           FieldElement(s.out0Amount), FieldElement(s.out1Amount)
    PROVE  Value(s.in0Amount) + Value(s.in1Amount) = Value(s.out0Amount) + Value(s.out1Amount)
  <1> DEFINE a == Value(s.in0Amount)
             b == Value(s.in1Amount)
             c == Value(s.out0Amount)
             d == Value(s.out1Amount)
             r == 2 ^ RANGE_BITS
  <1>1. a \in Nat /\ b \in Nat /\ c \in Nat /\ d \in Nat
    BY Values
  <1>2. Conserves(s.in0Amount, s.in1Amount, s.out0Amount, s.out1Amount)
    BY DEF Transfer
  <1>3. a < r /\ b < r /\ c < r /\ d < r
    BY <1>2 DEF Conserves, RangeCheck, HasBits
  <1>4. (a + b) % FieldOrder = (c + d) % FieldOrder
    BY <1>2 DEF Conserves, Plus, Field
  <1>5. r \in Nat /\ FieldOrder \in Nat /\ 2 * r <= FieldOrder
    BY FieldAssumption
  <1> HIDE DEF a, b, c, d, r
  <1>6. a + b = c + d
    BY <1>1, <1>3, <1>4, <1>5, SmallSums
  <1> QED
    BY <1>6 DEF a, b, c, d

(* A withdraw's relayer fee never exceeds its amount, whatever field       *)
(* elements are given for the two: what is left for the recipient is not   *)
(* negative (withdraw.circom, U64Geq). *)
THEOREM FeeWithinAmount ==
    ASSUME NEW s, Withdraw(s), FieldElement(s.amount), FieldElement(s.relayerFee)
    PROVE  Value(s.relayerFee) <= Value(s.amount)
  <1> DEFINE a == Value(s.amount)
             b == Value(s.relayerFee)
             r == 2 ^ WITHDRAW_BITS
  <1>1. a \in Nat /\ b \in Nat
    BY Values
  <1>2. U64Geq(s.amount, s.relayerFee)
    BY DEF Withdraw
  <1>3. a < r /\ b < r /\ (a - b) % FieldOrder < r
    BY <1>2 DEF U64Geq, HasBits, Minus, Field, Value
  <1>4. r \in Nat /\ FieldOrder \in Nat /\ 2 * r <= FieldOrder
    BY FieldAssumption
  <1> HIDE DEF a, b, r
  <1>5. b <= a
    BY <1>1, <1>3, <1>4, SmallDifferences
  <1> QED
    BY <1>5 DEF a, b

(* The assignment a transfer's prover is given has the wallet's amounts    *)
(* under the circuit's names (snarkjs-prover.ts). *)
TransferRenames == {"in0OwnerPubkey", "in1OwnerPubkey", "out0OwnerPubkey", "out1OwnerPubkey"}

LEMMA TransferAmounts ==
    ASSUME NEW o, o.tx.method = "transfer",
           NEW name \in {"in0Amount", "in1Amount", "out0Amount", "out1Amount"}
    PROVE  /\ name \in DOMAIN CircomInput(RequestOf(o))
           /\ CircomInput(RequestOf(o))[name] = TransferRequest(o).witness[name][2]
<1>. DEFINE request == TransferRequest(o)
            renames == RENAME[request.circuit]
            SignalOf(key) == IF key \in DOMAIN renames THEN renames[key] ELSE key
            Keys(n) == {key \in DOMAIN request.witness : SignalOf(key) = n}
            names == PUBLIC_NAMES[request.circuit]
            Positions(n) == {k \in DOMAIN names : names[k] = n}
            Input(n) == IF Keys(n) # {} THEN request.witness[CHOOSE key \in Keys(n) : TRUE][2]
                        ELSE request.publicInputs[CHOOSE k \in Positions(n) : TRUE][2]
<1>1. RequestOf(o) = request
    BY DEF RequestOf
<1>2. request.circuit = "transfer" /\ DOMAIN request.witness = TransferKeys
    BY DEF TransferRequest, TransferKeys
<1>3. /\ DOMAIN renames = TransferRenames
      /\ renames["in0OwnerPubkey"] = "in0Owner" /\ renames["in1OwnerPubkey"] = "in1Owner"
      /\ renames["out0OwnerPubkey"] = "out0Owner" /\ renames["out1OwnerPubkey"] = "out1Owner"
    <2>. HIDE DEF request
    <2>. QED BY <1>2 DEF RENAME, TransferRenames
<1>4. CircomInput(request) =
        [n \in Range(names) \cup {SignalOf(key) : key \in DOMAIN request.witness} |-> Input(n)]
    <2>. HIDE DEF request
    <2>. QED BY DEF CircomInput
<1>. HIDE DEF request, renames
<1>5. Keys(name) = {name} /\ SignalOf(name) = name /\ name \in DOMAIN request.witness
    BY <1>2, <1>3 DEF TransferKeys, TransferRenames
<1>6. Input(name) = request.witness[name][2]
    BY <1>5
<1>7. name \in {SignalOf(key) : key \in DOMAIN request.witness}
    BY <1>5
<1>. HIDE DEF Input, SignalOf, Keys, names
<1>. QED BY <1>1, <1>4, <1>6, <1>7 DEF request

LEMMA FieldOfValue ==
    /\ \A n \in Nat : FieldElement(Field(n))
    /\ \A n \in 0 .. FieldOrder - 1 : Value(Field(n)) = n
<1>1. FieldOrder \in Nat
    BY FieldAssumption
<1>2. FieldOrder \in Nat \ {0}
    <2>1. 2 ^ RANGE_BITS \in Nat \ {0}
        BY FieldAssumption, PowerDoubles
    <2>. QED BY <1>1, <2>1, FieldAssumption
<1>3. \A n \in Nat : n % FieldOrder \in 0 .. FieldOrder - 1
    BY <1>2
<1>4. \A n \in 0 .. FieldOrder - 1 : n % FieldOrder = n
    BY <1>2
<1>. QED BY <1>3, <1>4 DEF FieldElement, Field, Value

(* Of whatever amounts a prover puts into the outputs of a wallet's        *)
(* transfer, the circuit takes only those that add up to the inputs'. *)
LEMMA WitnessConserves ==
    ASSUME JobTyped
    PROVE  AnyWitnessConserves
<1>. SUFFICES ASSUME job.at = "requested", job.order.tx.method = "transfer",
                     NEW a \in 0 .. FieldOrder - 1, NEW b \in 0 .. FieldOrder - 1,
                     NEW s, s = CircomInput(RequestOf(job.order)),
                     NEW c0, NEW c1,
                     Transfer([s EXCEPT !.out0Amount = Field(a), !.commitmentOut0 = c0,
                                        !.out1Amount = Field(b), !.commitmentOut1 = c1])
              PROVE  a + b = Value(s.in0Amount) + Value(s.in1Amount)
    BY ZenonT(40) DEF AnyWitnessConserves
<1>. DEFINE o == job.order
            t == [s EXCEPT !.out0Amount = Field(a), !.commitmentOut0 = c0,
                           !.out1Amount = Field(b), !.commitmentOut1 = c1]
            x == o.inputs[1].note.amount
            y == o.inputs[2].note.amount
<1>1. x \in Nat /\ y \in Nat
    <2>1. o.inputs \in Seq(FoundNote) /\ Len(o.inputs) = 2
        BY DEF JobTyped, OrderTyped
    <2>2. o.inputs[1] \in FoundNote /\ o.inputs[2] \in FoundNote
        BY <2>1
    <2>. QED BY <2>2 DEF FoundNote, NoteSet
<1>2. /\ s["in0Amount"] = Field(x) /\ s["in1Amount"] = Field(y)
      /\ "in0Amount" \in DOMAIN s /\ "in1Amount" \in DOMAIN s
      /\ "out0Amount" \in DOMAIN s /\ "out1Amount" \in DOMAIN s
    <2>1. TransferRequest(o).witness["in0Amount"] = Hex(Field(x))
        BY DEF TransferRequest
    <2>2. TransferRequest(o).witness["in1Amount"] = Hex(Field(y))
        BY DEF TransferRequest
    <2>. HIDE DEF x, y, o
    <2>3. Hex(Field(x))[2] = Field(x) /\ Hex(Field(y))[2] = Field(y)
        BY DEF Hex
    <2>. QED BY <2>1, <2>2, <2>3, TransferAmounts DEF o
<1>3. /\ t.in0Amount = s.in0Amount /\ t.in1Amount = s.in1Amount
      /\ t.out0Amount = Field(a) /\ t.out1Amount = Field(b)
    BY <1>2
<1>. HIDE DEF t, x, y
<1>4. Value(t.in0Amount) + Value(t.in1Amount) = Value(t.out0Amount) + Value(t.out1Amount)
    <2>1. a \in Nat /\ b \in Nat
        BY FieldAssumption
    <2>. QED BY <1>1, <1>2, <1>3, <2>1, FieldOfValue, TransferConserves DEF t
<1>. QED BY <1>3, <1>4, FieldOfValue

(* No witness a user may put into a transfer mints value: asked for the    *)
(* wallet's own transfer with any amounts for its outputs, the circuit     *)
(* takes only what adds up, wrap-around included (transfer.circom).        *)
THEOREM TransfersConserve == E2ESpec => []AnyWitnessConserves
<1>1. NotesInv => AnyWitnessConserves
    BY WitnessConserves DEF NotesInv
<1>. QED BY <1>1, NotesAlways, PTL

------------------------------------------------------------------------------
(* What is proved is what is verified: the orders users make, the proofs   *)
(* of them, and the notes they leave. *)

InRange(amount) == amount \in Nat /\ amount < 2 ^ RANGE_BITS

(* What the builders make of the user's choices and notes. *)
OrderMade(o) ==
    LET tx == o.tx IN
    /\ tx.method = "deposit" => InRange(tx.amount) /\ tx.creates = <<Note(tx.amount, o.user, tx.auditors[1])>>
    /\ tx.method \in {"transfer", "withdraw"} => \E r : tx.root = Hex(r)
    /\ tx.method = "transfer" =>
          /\ InRange(o.inputs[1].note.amount) /\ InRange(o.inputs[2].note.amount)
          /\ \A k \in 1 .. 2 :
                /\ tx.creates[k].amount \in Nat
                /\ tx.creates[k].amount <= o.inputs[1].note.amount + o.inputs[2].note.amount
    /\ tx.method = "withdraw" =>
          /\ InRange(tx.amount) /\ tx.fee \in Nat /\ tx.fee <= tx.amount
          /\ tx.auditors[1] = o.inputs[1].note.auditor
          /\ o.recipient = "payee.near" /\ o.relayer = "relayer.near"

(* A placeholder, or the proof of the very order. *)
IsMade(j) ==
    /\ j.at \in {"requested", "built"} => OrderMade(j.order)
    /\ j.at = "built" /\ j.proof # Placeholder =>
          /\ j.proof = Prove(RequestOf(j.order))
          /\ j.root = j.order.tx.root /\ Provable(RequestOf(j.order))

JobMade == IsMade(job)

(* No note is of more than the circuits' 128 bits. *)
NotesInRange ==
    \A u \in Users : \A k \in DOMAIN wallets[u].notes : InRange(wallets[u].notes[k].note.amount)

CallInv == JobMade /\ NotesInRange

LEMMA RangeFits ==
    /\ 2 ^ RANGE_BITS \in Nat \ {0} /\ FieldOrder \in Nat \ {0}
    /\ \A n : InRange(n) => n \in 0 .. FieldOrder - 1
    /\ \A m, n \in 0 .. FieldOrder - 1 : Field(m) = Field(n) => m = n
    /\ \A n \in Nat : n < 2 * 2 ^ RANGE_BITS /\ Field(n)[2] < 2 ^ RANGE_BITS => InRange(n)
<1>. DEFINE r == 2 ^ RANGE_BITS
            p == FieldOrder
<1>1. r \in Nat \ {0} /\ p \in Nat /\ 2 * r <= p
    BY FieldAssumption, PowerDoubles
<1>2. \A n : Field(n) = <<"field", n % p>>
    BY DEF Field
<1>3. \A n : InRange(n) <=> n \in Nat /\ n < r
    BY DEF InRange
<1>. HIDE DEF r, p
<1>4. p \in Nat \ {0} /\ \A n \in 0 .. p - 1 : n % p = n
    BY <1>1
<1>5. \A n : InRange(n) => n \in 0 .. p - 1
    BY <1>1, <1>3
<1>6. \A m, n \in 0 .. p - 1 : Field(m) = Field(n) => m = n
    BY <1>2, <1>4
<1>7. \A n \in Nat : n < 2 * r /\ Field(n)[2] < r => InRange(n)
    <2>. SUFFICES ASSUME NEW n \in Nat, n < 2 * r, Field(n)[2] < r PROVE n < r
        BY <1>3
    <2>1. n \in 0 .. p - 1
        BY <1>1
    <2>2. Field(n)[2] = n
        BY <1>2, <1>4, <2>1
    <2>. QED BY <2>2
<1>. QED BY <1>1, <1>4, <1>5, <1>6, <1>7 DEF r, p

LEMMA BalanceIsNat == ASSUME NEW w \in WalletSet PROVE Balance(w) \in Nat
<1>. DEFINE D == {k \in DOMAIN w.notes : IsUnspent(w, k)}
            f == [k \in DOMAIN w.notes |-> w.notes[k].note.amount]
<1>1. w.notes \in Seq(FoundNote)
    BY DEF WalletSet, WalletsOf
<1>2. D \subseteq 1 .. Len(w.notes) /\ Len(w.notes) \in Nat
    BY <1>1
<1>3. IsFiniteSet(D)
    <2>. HIDE DEF D
    <2>1. 1 \in Int /\ Len(w.notes) \in Int
        BY <1>2
    <2>2. IsFiniteSet(1 .. Len(w.notes))
        BY <2>1, FS_Interval
    <2>. QED BY <1>2, <2>2, FS_Subset
<1>4. ASSUME NEW k \in D PROVE f[k] \in Nat
    <2>1. k \in DOMAIN w.notes /\ f[k] = w.notes[k].note.amount
        OBVIOUS
    <2>2. w.notes[k] \in FoundNote
        BY <1>1, <2>1
    <2>. HIDE DEF f, D
    <2>. QED BY <2>1, <2>2 DEF FoundNote, NoteSet
<1>. HIDE DEF D, f
<1>5. SumFunctionOnSet(f, D) \in Nat
    BY <1>3, <1>4, SumNat
<1>. QED BY <1>5 DEF Balance, D, f

LEMMA RequestIsOrder ==
    \A user, tx, ins, to, relayer :
        Request(Order(user, tx, ins, to, relayer)) =>
            /\ job'.at = "requested" /\ job'.order.tx = tx /\ job'.order.user = user
            /\ job'.order.inputs = ins /\ job'.order.recipient = to /\ job'.order.relayer = relayer
BY DEF Request, Order

LEMMA DepositMade ==
    ASSUME WalletsTyped, NEW amount \in DepositAmounts, NEW auditor, RequestDeposit(amount, auditor)
    PROVE  OrderMade(job'.order) /\ job'.at = "requested"
<1>. DEFINE tx == BuildDeposit("alice", amount, auditor)
            o == job'.order
<1>1. o.tx = tx /\ o.user = "alice" /\ job'.at = "requested"
    BY RequestIsOrder DEF RequestDeposit
<1>2. InRange(amount)
    <2>1. wallets["alice"] \in WalletSet /\ wallets["bob"] \in WalletSet
        BY DEF WalletsTyped, Users
    <2>2. Balance(wallets["alice"]) \in Nat /\ Balance(wallets["bob"]) \in Nat /\ amount \in Nat
        BY <2>1, BalanceIsNat, PathAssumption
    <2>3. Held + amount < 2 ^ RANGE_BITS
        BY DEF RequestDeposit
    <2>. QED BY <2>2, <2>3, RangeFits DEF Held, InRange
<1>3. /\ tx.method = "deposit" /\ tx.amount = amount /\ tx.auditors[1] = auditor
      /\ tx.creates = <<Note(amount, "alice", auditor)>>
    BY DEF BuildDeposit
<1>. HIDE DEF tx, o
<1>4. OrderMade(o)
    BY <1>1, <1>2, <1>3 DEF OrderMade
<1>. QED BY <1>1, <1>4 DEF o

LEMMA TransferMade ==
    ASSUME WalletsTyped, NotesInRange, NEW u \in Users, NEW amount \in Amounts, NEW v, NEW auditor,
           RequestTransfer(u, amount, v, auditor)
    PROVE  OrderMade(job'.order) /\ job'.at = "requested"
<1>. DEFINE w == wallets[u]
            ins == FindTransferInputs(w, amount)
            tx == BuildTransfer(u, ins, Root, amount, v, auditor)
            o == job'.order
            a == ins[1].note.amount
            b == ins[2].note.amount
<1>1. o.tx = tx /\ o.inputs = ins /\ job'.at = "requested" /\ TransferPairs(w, amount) # {}
    BY RequestIsOrder DEF RequestTransfer
<1>2. w.notes \in Seq(FoundNote) /\ \A k \in DOMAIN w.notes : InRange(w.notes[k].note.amount)
    BY DEF WalletsTyped, WalletSet, WalletsOf, NotesInRange
<1>3. PICK p \in TransferPairs(w, amount) : ins = <<w.notes[p[1]], w.notes[p[2]]>>
    BY <1>1, <1>2, TransferInputsAreAPair
<1>4. /\ p[1] \in DOMAIN w.notes /\ p[2] \in DOMAIN w.notes
      /\ w.notes[p[1]].note.amount + w.notes[p[2]].note.amount >= amount
    BY DEF TransferPairs
<1>5. InRange(a) /\ InRange(b) /\ a + b >= amount /\ amount \in Nat
    <2>1. ins[1] = w.notes[p[1]] /\ ins[2] = w.notes[p[2]]
        BY <1>3
    <2>. HIDE DEF ins, w
    <2>. QED BY <1>2, <1>4, <2>1, PathAssumption
<1>6. tx.method = "transfer" /\ tx.root = Hex(tree.current_root)
    BY DEF BuildTransfer, Root
<1>7. tx.creates[1].amount = amount /\ tx.creates[2].amount = a + b - amount
    <2>1. /\ tx.creates[1] = Note(amount, v, auditor)
          /\ tx.creates[2] = Note(a + b - amount, u, ins[1].note.auditor)
        <3>1. ins[1].note.amount \in Nat /\ ins[2].note.amount \in Nat /\ amount \in Nat
            BY <1>5 DEF InRange
        <3>. HIDE DEF ins
        <3>. QED BY <3>1 DEF BuildTransfer
    <2>. HIDE DEF tx, a, b, ins
    <2>. QED BY <2>1 DEF Note
<1>8. \A k \in 1 .. 2 : tx.creates[k].amount \in Nat /\ tx.creates[k].amount <= a + b
    <2>. HIDE DEF tx, a, b
    <2>1. a \in Nat /\ b \in Nat
        BY <1>5 DEF InRange
    <2>2. a + b - amount \in Nat /\ a + b - amount <= a + b /\ amount <= a + b
        BY <1>5, <2>1
    <2>. QED BY <1>5, <1>7, <2>2
<1>. HIDE DEF tx, o, ins
<1>9. OrderMade(o)
    BY <1>1, <1>5, <1>6, <1>8 DEF OrderMade
<1>. QED BY <1>1, <1>9 DEF o

LEMMA WithdrawMade ==
    ASSUME WalletsTyped, NotesInRange, NEW u \in Users, NEW amount \in Amounts,
           RequestWithdraw(u, amount)
    PROVE  OrderMade(job'.order) /\ job'.at = "requested"
<1>. DEFINE w == wallets[u]
            in == FindWithdrawNote(w, amount)
            tx == BuildWithdraw(u, in, Root, amount, "payee.near", FeeUsdcBase)
            o == job'.order
<1>1. /\ o.tx = tx /\ o.inputs = <<in>> /\ job'.at = "requested" /\ WithdrawNotes(w, amount) # {}
      /\ o.recipient = "payee.near" /\ o.relayer = "relayer.near" /\ FeeUsdcBase <= amount
    BY RequestIsOrder DEF RequestWithdraw
<1>2. w.notes \in Seq(FoundNote) /\ \A k \in DOMAIN w.notes : InRange(w.notes[k].note.amount)
    BY DEF WalletsTyped, WalletSet, WalletsOf, NotesInRange
<1>3. PICK k \in WithdrawNotes(w, amount) : in = w.notes[k]
    BY <1>1, <1>2, WithdrawNoteIsOne
<1>4. k \in DOMAIN w.notes /\ w.notes[k].note.amount = amount
    BY DEF WithdrawNotes
<1>5. InRange(amount)
    BY <1>2, <1>4
<1>6. /\ tx.method = "withdraw" /\ tx.root = Hex(tree.current_root) /\ tx.amount = amount
      /\ tx.fee = FeeUsdcBase /\ tx.auditors[1] = in.note.auditor
    BY DEF BuildWithdraw, Root
<1>7. FeeUsdcBase \in Nat
    BY PathAssumption
<1>. HIDE DEF tx, o, in
<1>8. OrderMade(o)
    BY <1>1, <1>5, <1>6, <1>7 DEF OrderMade
<1>. QED BY <1>1, <1>8 DEF o

LEMMA RequestCircuit ==
    ASSUME NEW o, o.tx.method \in Methods
    PROVE  RequestOf(o).circuit = o.tx.method
<1>1. CASE o.tx.method = "deposit"
    <2>1. RequestOf(o) = DepositRequest(o)
        BY <1>1 DEF RequestOf
    <2>. QED BY <1>1, <2>1 DEF DepositRequest
<1>2. CASE o.tx.method = "transfer"
    <2>1. RequestOf(o) = TransferRequest(o)
        BY <1>2 DEF RequestOf
    <2>. QED BY <1>2, <2>1 DEF TransferRequest
<1>3. CASE o.tx.method = "withdraw"
    <2>1. RequestOf(o) = WithdrawRequest(o)
        BY <1>3 DEF RequestOf
    <2>. QED BY <1>3, <2>1 DEF WithdrawRequest
<1>. QED BY <1>1, <1>2, <1>3 DEF Methods

(* Whatever the envelope, it carries the built proof, and the arguments    *)
(* the order's request is about if it has the order's root. *)
LEMMA EnvelopesAgree ==
    ASSUME NEW o, o.tx.method \in Methods, NEW root, NEW proof,
           o.tx.method = "withdraw" => o.tx.auditors[1] = o.inputs[1].note.auditor,
           NEW call \in Envelopes(o, BuiltTx(o, root, proof))
    PROVE  /\ call.method = o.tx.method /\ call.args.proof = proof
           /\ root = o.tx.root =>
                 /\ Len(ContractInputs(o.tx.method, call.args)) = Len(PublicSignals[o.tx.method])
                 /\ Signals(o.tx.method, CircomInput(RequestOf(o))) = ContractInputs(o.tx.method, call.args)
<1>. DEFINE tx == BuiltTx(o, root, proof)
<1>1. tx.method = o.tx.method /\ tx.proof = proof
    BY DEF BuiltTx
<1>2. call.method = o.tx.method
    BY EnvelopeMethods
<1>. HIDE DEF tx
<1>3. CASE o.tx.method = "deposit"
    <2>1. call = FtTransferCall(tx)
        BY <1>1, <1>3 DEF Envelopes, tx
    <2>2. Len(PublicSignals["deposit"]) = 4
        BY DEF PublicSignals
    <2>. QED BY <1>2, <1>3, <2>1, <2>2, DepositsAgree DEF tx
<1>4. CASE o.tx.method = "transfer"
    <2>1. call = TransferCall(tx)
        BY <1>1, <1>4 DEF Envelopes, tx
    <2>2. Len(PublicSignals["transfer"]) = 9
        BY DEF PublicSignals
    <2>3. call.args.proof = proof
        BY <1>1, <2>1 DEF TransferCall, TransferArgs
    <2>. QED BY <1>2, <1>4, <2>1, <2>2, <2>3, TransfersAgree, SMTT(30) DEF tx
<1>5. CASE o.tx.method = "withdraw"
    <2>1. call = WithdrawCall(tx) \/ call = SubmitWithdraw(SubmitRequest(o, tx))
        BY <1>1, <1>5 DEF Envelopes, tx
    <2>2. Len(PublicSignals["withdraw"]) = 8
        BY DEF PublicSignals
    <2>3. call.args.proof = proof
        BY <1>1, <2>1 DEF WithdrawCall, WithdrawArgs, SubmitWithdraw, SubmitRequest
    <2>4. ASSUME root = o.tx.root
          PROVE  /\ Len(ContractInputs("withdraw", call.args)) = 8
                 /\ Signals("withdraw", CircomInput(RequestOf(o))) = ContractInputs("withdraw", call.args)
        <3>1. o.tx.auditors[1] = o.inputs[1].note.auditor
            BY <1>5
        <3>2. IsWithdraw(o, root, proof, call)
            BY <2>1, <2>4 DEF IsWithdraw, tx
        <3>. QED BY <1>5, <3>1, <3>2, WithdrawsAgree
    <2>. QED BY <1>2, <1>5, <2>2, <2>3, <2>4
<1>. QED BY <1>3, <1>4, <1>5 DEF Methods

LEMMA ProofIsLong == \A request : Prove(request) # Placeholder
<1>. SUFFICES ASSUME NEW request PROVE Prove(request) # Placeholder
    OBVIOUS
<1>1. Len(Prove(request)) = 8
    BY ProofBytes DEF Prove
<1>2. Len(Placeholder) = 1
    BY DEF Placeholder
<1>. QED BY <1>1, <1>2

(* The proof of an order is good for arguments the contract reads as its   *)
(* request, and for no others. *)
LEMMA OrderVerifies ==
    ASSUME NEW o, o.tx.method \in Methods, NEW args, args.proof = Prove(RequestOf(o)),
           Len(ContractInputs(o.tx.method, args)) = Len(PublicSignals[o.tx.method])
    PROVE  Verify(Vk[o.tx.method], args.proof, ContractInputs(o.tx.method, args))
             <=> ContractInputs(o.tx.method, args) = Signals(o.tx.method, CircomInput(RequestOf(o)))
<1>. DEFINE circuit == o.tx.method
            v == Signals(circuit, CircomInput(RequestOf(o)))
            inputs == ContractInputs(circuit, args)
<1>1. args.proof = SnarkjsProofToBytes(SnarkjsProof(circuit, v))
    BY RequestCircuit DEF Prove
<1>. HIDE DEF v, inputs
<1>2. Verify(Vk[circuit], SnarkjsProofToBytes(SnarkjsProof(circuit, v)), inputs) <=> inputs = v
    BY VerifiesExactly DEF inputs
<1>. QED BY <1>1, <1>2 DEF v, inputs

LEMMA CallsVerify ==
    ASSUME JobTyped, JobMade, job.at = "built", NEW call \in Envelopes(job.order, Built(job))
    PROVE  Verified(call) <=> Proved(job)
<1>. DEFINE o == job.order
<1>1. /\ o.tx.method \in Methods /\ Built(job) = BuiltTx(o, job.root, job.proof)
      /\ o.tx.method = "withdraw" => o.tx.auditors[1] = o.inputs[1].note.auditor
    BY DEF JobTyped, OrderTyped, OrderSealed, Built, JobMade, IsMade, OrderMade
<1>. HIDE DEF o
<1>2. /\ call.method = o.tx.method /\ call.args.proof = job.proof
      /\ job.root = o.tx.root =>
            /\ Len(ContractInputs(o.tx.method, call.args)) = Len(PublicSignals[o.tx.method])
            /\ Signals(o.tx.method, CircomInput(RequestOf(o))) = ContractInputs(o.tx.method, call.args)
    BY <1>1, EnvelopesAgree DEF o
<1>3. CASE job.proof = Placeholder
    BY <1>2, <1>3, PlaceholderFails DEF Verified, Proved
<1>4. CASE job.proof # Placeholder
    <2>1. job.proof = Prove(RequestOf(o)) /\ job.root = o.tx.root
        BY <1>4 DEF JobMade, IsMade, o
    <2>2. Verify(Vk[o.tx.method], call.args.proof, ContractInputs(o.tx.method, call.args))
        BY <1>1, <1>2, <2>1, OrderVerifies
    <2>. QED BY <1>2, <1>4, <2>2 DEF Verified, Proved
<1>. QED BY <1>3, <1>4

LEMMA AcceptedAreProved == ASSUME JobTyped, JobMade PROVE AcceptedIffProved
BY CallsVerify DEF AcceptedIffProved

(* The circuit takes a transfer's outputs only in range, so no note lands  *)
(* that is not. *)
LEMMA CreatedInRange ==
    ASSUME JobTyped, JobMade, job.at = "built", NEW call \in Envelopes(job.order, Built(job)),
           Accepts(call), NEW k \in DOMAIN job.order.tx.creates
    PROVE  InRange(job.order.tx.creates[k].amount)
<1>. DEFINE o == job.order
            tx == o.tx
<1>1. OrderSealed(tx) /\ tx.method \in Methods /\ OrderMade(o)
    BY DEF JobTyped, OrderTyped, OrderSealed, JobMade, IsMade
<1>2. DOMAIN tx.creates = 1 .. Len(tx.creates)
    BY <1>1 DEF OrderSealed
<1>3. CASE tx.method = "deposit"
    <2>1. k = 1 /\ tx.creates[1] = Note(tx.amount, o.user, tx.auditors[1]) /\ InRange(tx.amount)
        BY <1>1, <1>2, <1>3 DEF OrderSealed, OrderMade
    <2>. QED BY <2>1 DEF Note
<1>4. CASE tx.method = "transfer"
    <2>. DEFINE s == CircomInput(RequestOf(o))
                a == o.inputs[1].note.amount
                b == o.inputs[2].note.amount
                n == tx.creates[k].amount
                name == IF k = 1 THEN "out0Amount" ELSE "out1Amount"
    <2>1. call.method = "transfer"
        BY <1>4, EnvelopeMethods, <1>1 DEF Built
    <2>2. Verified(call)
        BY <2>1 DEF Accepts, AcceptsTransfer
    <2>3. Provable(RequestOf(o))
        BY <2>2, CallsVerify DEF Proved, JobMade, IsMade
    <2>4. Transfer(s)
        BY <1>4, <2>3, RequestCircuit, <1>1 DEF Provable, Satisfies
    <2>5. k \in 1 .. 2 /\ InRange(a) /\ InRange(b) /\ n \in Nat /\ n <= a + b
        BY <1>1, <1>2, <1>4 DEF OrderSealed, OrderMade
    <2>6. s[name] = Field(n)
        <3>1. TransferRequest(o).witness["out0Amount"] = Hex(Field(tx.creates[1].amount))
            BY DEF TransferRequest
        <3>2. TransferRequest(o).witness["out1Amount"] = Hex(Field(tx.creates[2].amount))
            BY DEF TransferRequest
        <3>. HIDE DEF s, o
        <3>3. \A x : Hex(x)[2] = x
            BY DEF Hex
        <3>4. CASE k = 1
            BY <1>4, <3>1, <3>3, <3>4, TransferAmounts DEF s
        <3>5. CASE k = 2
            BY <1>4, <3>2, <3>3, <3>5, TransferAmounts DEF s
        <3>. QED BY <2>5, <3>4, <3>5
    <2>7. Field(n)[2] < 2 ^ RANGE_BITS
        <3>. HIDE DEF s, n
        <3>1. RangeCheck(s.out0Amount) /\ RangeCheck(s.out1Amount)
            BY <2>4 DEF Transfer, Conserves
        <3>2. RangeCheck(Field(n))
            BY <2>5, <2>6, <3>1
        <3>. QED BY <3>2 DEF RangeCheck, HasBits, Value
    <2>8. n < 2 * 2 ^ RANGE_BITS
        <3>. HIDE DEF a, b, n
        <3>. QED BY <2>5, RangeFits DEF InRange
    <2>. HIDE DEF n
    <2>9. InRange(n)
        BY <2>5, <2>7, <2>8, RangeFits
    <2>. QED BY <2>9 DEF n
<1>5. CASE tx.method = "withdraw"
    BY <1>1, <1>2, <1>5 DEF OrderSealed
<1>. QED BY <1>1, <1>3, <1>4, <1>5 DEF Methods

LEMMA LandKeepsRange ==
    ASSUME PathInv, NotesInv, CallInv, Land
    PROVE  NotesInRange'
<1>1. PICK call \in Envelopes(job.order, Built(job)) : Accepts(call)
    BY DEF Land, Apply
<1>2. \A k \in DOMAIN job.order.tx.creates : InRange(job.order.tx.creates[k].amount)
    BY <1>1, CreatedInRange DEF Land, CallInv, NotesInv
<1>3. NotesComeFrom(job.order.tx)
    BY LandKeepsNotes
<1>4. ASSUME NEW u \in Users, NEW k \in DOMAIN wallets'[u].notes
      PROVE  InRange(wallets'[u].notes[k].note.amount)
    BY <1>2, <1>3 DEF NotesComeFrom, Created, CallInv, NotesInRange
<1>. QED BY <1>4 DEF NotesInRange

LEMMA JobStaysMade ==
    ASSUME NotesInv, CallInv, Next
    PROVE  IsMade(job')
<1>1. WalletsTyped /\ NotesInRange
    BY DEF NotesInv, CallInv
<1>2. ASSUME NEW j, OrderMade(j.order), j.at = "requested" PROVE IsMade(j)
    BY <1>2 DEF IsMade
<1>3. ASSUME NEW auditor, NEW amount \in DepositAmounts, RequestDeposit(amount, auditor)
      PROVE  IsMade(job')
    BY <1>1, <1>2, <1>3, DepositMade
<1>4. ASSUME NEW auditor, NEW u \in Users, NEW v, NEW amount \in Amounts,
             RequestTransfer(u, amount, v, auditor)
      PROVE  IsMade(job')
    BY <1>1, <1>2, <1>4, TransferMade
<1>5. ASSUME NEW u \in Users, NEW amount \in Amounts, RequestWithdraw(u, amount)
      PROVE  IsMade(job')
    BY <1>1, <1>2, <1>5, WithdrawMade
<1>6. CASE ReturnProved
    BY <1>6 DEF ReturnProved, Return, IsMade, CallInv, JobMade
<1>7. CASE ReturnPlaceholder
    BY <1>7 DEF ReturnPlaceholder, Return, IsMade, CallInv, JobMade
<1>8. CASE NotProvable \/ Land \/ Refuse
    BY <1>8 DEF NotProvable, Land, Refuse, Idle, IsMade
<1>9. CASE StrangerDeposits
    BY <1>9 DEF StrangerDeposits, CallInv, JobMade
<1>. QED BY <1>3, <1>4, <1>5, <1>6, <1>7, <1>8, <1>9 DEF Next

LEMMA CallInvAlways == E2ESpec => []CallInv
<1>1. E2EInit => CallInv
    BY DEF E2EInit, Init, Idle, NewWallet, CallInv, JobMade, IsMade, NotesInRange
<1>2. E2EInv /\ NotesInv /\ CallInv /\ [E2ENext]_<<vars, left>> => CallInv'
    <2>. SUFFICES ASSUME E2EInv, NotesInv, CallInv, [E2ENext]_<<vars, left>> PROVE CallInv'
        OBVIOUS
    <2>1. CASE wallets' = wallets /\ job' = job
        BY <2>1 DEF CallInv, JobMade, NotesInRange
    <2>2. CASE Next
        <3>1. JobMade'
            BY <2>2, JobStaysMade DEF JobMade
        <3>2. CASE Land
            BY <3>1, <3>2, LandKeepsRange DEF E2EInv, CallInv
        <3>3. CASE ~ Land
            <4>1. wallets' = wallets
                BY <2>2, <3>3 DEF Next, RequestDeposit, RequestTransfer, RequestWithdraw, ReturnProved,
                                  ReturnPlaceholder, NotProvable, Refuse, StrangerDeposits
            <4>. QED BY <3>1, <4>1 DEF CallInv, NotesInRange
        <3>. QED BY <3>2, <3>3
    <2>. QED BY <2>1, <2>2 DEF E2ENext, Replay, vars
<1>. QED BY <1>1, <1>2, TreeFollowsAlways, NotesAlways, PTL DEF E2ESpec

(* From the wallet's vector of public inputs to the one the contract       *)
(* rebuilds, through JSON, keccak and the bytes of proof and key, nothing  *)
(* is lost or swapped: what is accepted is what was proved, and nothing    *)
(* proved is refused for its encoding (wallet.ts, envelopes.ts,            *)
(* groth16.rs, lib.rs verify). *)
THEOREM AcceptedAlwaysProved == E2ESpec => []AcceptedIffProved
<1>1. NotesInv /\ CallInv => AcceptedIffProved
    BY AcceptedAreProved DEF NotesInv, CallInv
<1>. QED BY <1>1, NotesAlways, CallInvAlways, PTL

------------------------------------------------------------------------------
(* What the contract reads of the arguments pins every one it reads. *)

ArgNames(method) ==
    CASE method = "deposit"  -> {"commitment", "amount", "auditor_pubkey", "view_ct", "note_ct", "proof"}
      [] method = "transfer" -> {"merkle_root", "nullifiers", "commitments", "auditor_pubkey",
                                 "recipient_auditor_pubkey", "view_cts", "note_cts", "proof"}
      [] method = "withdraw" -> {"merkle_root", "nullifier", "recipient", "amount", "auditor_pubkey",
                                 "view_ct", "relayer", "relayer_fee", "proof"}

HexNames == {"merkle_root", "nullifier", "commitment", "auditor_pubkey", "recipient_auditor_pubkey"}
DecNames == {"amount", "relayer_fee"}
AccountNames == {"recipient", "relayer"}
PairNames == {"nullifiers", "commitments", "view_cts"}

(* Arguments as the wallet and the demo write them. *)
Written(args) ==
    /\ \A f \in HexNames \cap DOMAIN args : \E x : args[f] = Hex(x)
    /\ \A f \in DecNames \cap DOMAIN args : \E n \in 0 .. FieldOrder - 1 : args[f] = Dec(n)
    /\ \A f \in PairNames \cap DOMAIN args : args[f] = <<args[f][1], args[f][2]>>
    /\ \A f \in {"nullifiers", "commitments"} \cap DOMAIN args :
          \A k \in 1 .. 2 : \E x : args[f][k] = Hex(x)

(* The argument f with the value v. *)
Alteration(args, f, v) ==
    \/ f \in HexNames /\ v = Hex(Field(0))
    \/ f \in DecNames /\ v = Dec(0)
    \/ f \in AccountNames
    \/ f = "view_ct"
    \/ f \in PairNames /\ v = <<args[f][2], args[f][1]>>

(* b is a but for its argument f, which is v. *)
Differs(a, b, f, v) ==
    f \in DOMAIN a /\ b[f] = v /\ (\A g \in DOMAIN a : g # f => b[g] = a[g]) /\ b = [a EXCEPT ![f] = v]

LEMMA AlterationsDiffer ==
    ASSUME NEW a, NEW b \in Alterations(a)
    PROVE  \E f, v : Differs(a, b, f, v) /\ Alteration(a, f, v)
<1>1. ASSUME NEW f \in DOMAIN a, NEW v, b = [a EXCEPT ![f] = v] PROVE Differs(a, b, f, v)
    BY <1>1 DEF Differs
<1>2. \E f \in DOMAIN a : \E v : b = [a EXCEPT ![f] = v] /\ Alteration(a, f, v)
    <2>1. \/ \E f \in HexNames \cap DOMAIN a : b = [a EXCEPT ![f] = Hex(Field(0))]
          \/ \E f \in DecNames \cap DOMAIN a : b = [a EXCEPT ![f] = Dec(0)]
          \/ \E f \in AccountNames \cap DOMAIN a : b = [a EXCEPT ![f] = "else.near"]
          \/ \E f \in {"view_ct"} \cap DOMAIN a : b = [a EXCEPT ![f] = Encoded(Sealed("else", "else"))]
          \/ \E f \in PairNames \cap DOMAIN a : b = [a EXCEPT ![f] = <<a[f][2], a[f][1]>>]
        BY Zenon DEF Alterations, HexNames, DecNames, AccountNames, PairNames
    <2>. QED BY <2>1, Zenon DEF Alteration
<1>. QED BY <1>1, <1>2

LEMMA StringsAreRead ==
    /\ \A x : Hex(x)[2] = x
    /\ \A x : Dec(x)[2] = x
    /\ \A x, y : HashBytes(x) = HashBytes(y) => x = y
    /\ \A x, y : Keccak(x) = Keccak(y) => x = y
<1>1. \A x, y : HashBytes(x)[2] = x /\ HashBytes(y)[2] = y
    BY DEF HashBytes
<1>2. \A x, y : Keccak(x)[2] = x /\ Keccak(y)[2] = y
    BY DEF Keccak
<1>. QED BY <1>1, <1>2 DEF Hex, Dec

(* A number below the field's order is not altered to 0 unnoticed. *)
LEMMA HexIsRead ==
    ASSUME NEW s, \E x : s = Hex(x), NEW x, ParseHex32(Hex(x)) = ParseHex32(s)
    PROVE  s = Hex(x)
BY StringsAreRead DEF ParseHex32

LEMMA DecIsRead ==
    ASSUME NEW s, \E n \in 0 .. FieldOrder - 1 : s = Dec(n), Field(U128(Dec(0))) = Field(U128(s))
    PROVE  s = Dec(0)
<1>1. PICK n \in 0 .. FieldOrder - 1 : s = Dec(n)
    OBVIOUS
<1>2. Field(0) = Field(n)
    BY <1>1, StringsAreRead DEF U128
<1>3. 0 \in 0 .. FieldOrder - 1
    BY RangeFits
<1>. QED BY <1>1, <1>2, <1>3, RangeFits

LEMMA PairIsRead ==
    ASSUME NEW p, p = <<p[1], p[2]>>, NEW q, q = <<p[2], p[1]>>, q[1] = p[1]
    PROVE  q = p
<1>1. q[1] = p[2]
    OBVIOUS
<1>. QED BY <1>1

LEMMA DepositPins ==
    ASSUME NEW a, NEW b, NEW f, NEW v, Differs(a, b, f, v), Alteration(a, f, v), Written(a),
           DOMAIN a = ArgNames("deposit"), DepositInputs(b) = DepositInputs(a)
    PROVE  v = a[f]
<1>1. /\ ParseHex32(b.commitment) = ParseHex32(a.commitment)
      /\ Field(U128(b.amount)) = Field(U128(a.amount))
      /\ ParseHex32(b.auditor_pubkey) = ParseHex32(a.auditor_pubkey)
      /\ Keccak(b.view_ct) = Keccak(a.view_ct)
    BY DEF DepositInputs
<1>2. f \in DOMAIN a /\ b[f] = v
    BY DEF Differs
<1>3. DOMAIN a = {"commitment", "amount", "auditor_pubkey", "view_ct", "note_ct", "proof"}
    BY DEF ArgNames
<1>4. CASE f \in HexNames /\ v = Hex(Field(0))
    <2>1. f \in {"commitment", "auditor_pubkey"} /\ \E x : a[f] = Hex(x)
        BY <1>2, <1>3, <1>4 DEF HexNames, Written
    <2>2. ParseHex32(v) = ParseHex32(a[f])
        BY <1>1, <1>2, <2>1
    <2>. QED BY <1>4, <2>1, <2>2, HexIsRead
<1>5. CASE f \in DecNames /\ v = Dec(0)
    <2>1. f = "amount" /\ \E n \in 0 .. FieldOrder - 1 : a[f] = Dec(n)
        BY <1>2, <1>3, <1>5 DEF DecNames, Written
    <2>. QED BY <1>1, <1>2, <1>5, <2>1, DecIsRead
<1>6. CASE f = "view_ct"
    BY <1>1, <1>2, <1>6, StringsAreRead
<1>7. f \notin AccountNames \cup PairNames
    BY <1>2, <1>3 DEF AccountNames, PairNames
<1>. QED BY <1>4, <1>5, <1>6, <1>7 DEF Alteration

LEMMA WithdrawPins ==
    ASSUME NEW a, NEW b, NEW f, NEW v, Differs(a, b, f, v), Alteration(a, f, v), Written(a),
           DOMAIN a = ArgNames("withdraw"), WithdrawInputs(b) = WithdrawInputs(a)
    PROVE  v = a[f]
<1>1. /\ ParseHex32(b.merkle_root) = ParseHex32(a.merkle_root)
      /\ ParseHex32(b.nullifier) = ParseHex32(a.nullifier)
      /\ HashBytes(b.recipient) = HashBytes(a.recipient)
      /\ Field(U128(b.amount)) = Field(U128(a.amount))
      /\ HashBytes(b.relayer) = HashBytes(a.relayer)
      /\ Field(U128(b.relayer_fee)) = Field(U128(a.relayer_fee))
      /\ ParseHex32(b.auditor_pubkey) = ParseHex32(a.auditor_pubkey)
      /\ Keccak(b.view_ct) = Keccak(a.view_ct)
    BY DEF WithdrawInputs
<1>2. f \in DOMAIN a /\ b[f] = v
    BY DEF Differs
<1>3. DOMAIN a = {"merkle_root", "nullifier", "recipient", "amount", "auditor_pubkey",
                  "view_ct", "relayer", "relayer_fee", "proof"}
    BY DEF ArgNames
<1>4. CASE f \in HexNames /\ v = Hex(Field(0))
    <2>1. f \in {"merkle_root", "nullifier", "auditor_pubkey"} /\ \E x : a[f] = Hex(x)
        BY <1>2, <1>3, <1>4 DEF HexNames, Written
    <2>2. ParseHex32(v) = ParseHex32(a[f])
        BY <1>1, <1>2, <2>1
    <2>. QED BY <1>4, <2>1, <2>2, HexIsRead
<1>5. CASE f \in DecNames /\ v = Dec(0)
    <2>1. f \in {"amount", "relayer_fee"} /\ \E n \in 0 .. FieldOrder - 1 : a[f] = Dec(n)
        BY <1>2, <1>3, <1>5 DEF DecNames, Written
    <2>2. Field(U128(v)) = Field(U128(a[f]))
        BY <1>1, <1>2, <2>1
    <2>. QED BY <1>5, <2>1, <2>2, DecIsRead
<1>6. CASE f \in AccountNames
    <2>1. f \in {"recipient", "relayer"}
        BY <1>6 DEF AccountNames
    <2>2. HashBytes(v) = HashBytes(a[f])
        BY <1>1, <1>2, <2>1
    <2>. QED BY <2>2, StringsAreRead
<1>7. CASE f = "view_ct"
    BY <1>1, <1>2, <1>7, StringsAreRead
<1>8. f \notin PairNames
    BY <1>2, <1>3 DEF PairNames
<1>. QED BY <1>4, <1>5, <1>6, <1>7, <1>8 DEF Alteration

LEMMA TransferPins ==
    ASSUME NEW a, NEW b, NEW f, NEW v, Differs(a, b, f, v), Alteration(a, f, v), Written(a),
           DOMAIN a = ArgNames("transfer"), TransferInputs(b) = TransferInputs(a)
    PROVE  v = a[f]
<1>1. /\ ParseHex32(b.merkle_root) = ParseHex32(a.merkle_root)
      /\ ParseHex32(b.nullifiers[1]) = ParseHex32(a.nullifiers[1])
      /\ ParseHex32(b.commitments[1]) = ParseHex32(a.commitments[1])
      /\ ParseHex32(b.auditor_pubkey) = ParseHex32(a.auditor_pubkey)
      /\ ParseHex32(b.recipient_auditor_pubkey) = ParseHex32(a.recipient_auditor_pubkey)
      /\ Keccak(b.view_cts[1]) = Keccak(a.view_cts[1])
    BY DEF TransferInputs
<1>2. f \in DOMAIN a /\ b[f] = v
    BY DEF Differs
<1>3. DOMAIN a = {"merkle_root", "nullifiers", "commitments", "auditor_pubkey",
                  "recipient_auditor_pubkey", "view_cts", "note_cts", "proof"}
    BY DEF ArgNames
<1>4. CASE f \in HexNames /\ v = Hex(Field(0))
    <2>1. f \in {"merkle_root", "auditor_pubkey", "recipient_auditor_pubkey"} /\ \E x : a[f] = Hex(x)
        BY <1>2, <1>3, <1>4 DEF HexNames, Written
    <2>2. ParseHex32(v) = ParseHex32(a[f])
        BY <1>1, <1>2, <2>1
    <2>. QED BY <1>4, <2>1, <2>2, HexIsRead
<1>5. CASE f \in PairNames /\ v = <<a[f][2], a[f][1]>>
    <2>1. f \in {"nullifiers", "commitments", "view_cts"} /\ a[f] = <<a[f][1], a[f][2]>>
        BY <1>2, <1>3, <1>5 DEF PairNames, Written
    <2>2. CASE f \in {"nullifiers", "commitments"}
        <3>1. \E x : a[f][1] = Hex(x)
            BY <1>2, <2>2 DEF Written
        <3>2. \E x : v[1] = Hex(x)
            BY <1>2, <1>5, <2>2 DEF Written
        <3>3. ParseHex32(v[1]) = ParseHex32(a[f][1])
            BY <1>1, <1>2, <2>2
        <3>4. v[1] = a[f][1]
            BY <3>1, <3>2, <3>3, HexIsRead
        <3>. QED BY <1>5, <2>1, <3>4, PairIsRead
    <2>3. CASE f = "view_cts"
        <3>1. v[1] = a[f][1]
            BY <1>1, <1>2, <2>3, StringsAreRead
        <3>. QED BY <1>5, <2>1, <3>1, PairIsRead
    <2>. QED BY <2>1, <2>2, <2>3
<1>6. f \notin DecNames \cup AccountNames \cup {"view_ct"}
    BY <1>2, <1>3 DEF DecNames, AccountNames
<1>. QED BY <1>4, <1>5, <1>6 DEF Alteration

(* No altered argument is read as the one it stands for. *)
LEMMA ArgumentsArePinned ==
    ASSUME NEW method \in Methods, NEW a, a = [f \in ArgNames(method) |-> a[f]], Written(a),
           NEW b \in Alterations(a), ContractInputs(method, b) = ContractInputs(method, a)
    PROVE  b = a
<1>0. DOMAIN a = ArgNames(method)
    OBVIOUS
<1>1. PICK f, v : Differs(a, b, f, v) /\ Alteration(a, f, v)
    BY AlterationsDiffer
<1>2. v = a[f]
    <2>1. CASE method = "deposit"
        BY <1>0, <1>1, <2>1, DepositPins DEF ContractInputs
    <2>2. CASE method = "transfer"
        BY <1>0, <1>1, <2>2, TransferPins DEF ContractInputs
    <2>3. CASE method = "withdraw"
        BY <1>0, <1>1, <2>3, WithdrawPins DEF ContractInputs
    <2>. QED BY <2>1, <2>2, <2>3 DEF Methods
<1>3. b = [a EXCEPT ![f] = a[f]]
    BY <1>1, <1>2 DEF Differs
<1>. QED BY <1>3

LEMMA DepositIsWritten ==
    ASSUME NEW o, o.tx.method = "deposit", OrderMade(o), NEW root, NEW proof,
           NEW a, a = DepositArgs(BuiltTx(o, root, proof))
    PROVE  a = [f \in ArgNames("deposit") |-> a[f]] /\ Written(a)
<1>. DEFINE tx == BuiltTx(o, root, proof)
<1>1. tx.publicInputs = PublicInputs(o, root)
    BY DEF BuiltTx
<1>2. /\ tx.publicInputs.commitment = Hex(CommitNote(o.tx.creates[1]))
      /\ tx.publicInputs.amount = Dec(o.tx.amount)
      /\ tx.publicInputs.auditorPubkey = Hex(AuditorField(o.tx.auditors[1]))
    BY <1>1 DEF PublicInputs
<1>3. o.tx.amount \in 0 .. FieldOrder - 1
    BY RangeFits DEF OrderMade
<1>. HIDE DEF tx
<1>4. a = DepositArgs(tx)
    BY DEF tx
<1>5. a = [f \in ArgNames("deposit") |-> a[f]]
    BY <1>4 DEF DepositArgs, ArgNames
<1>6. DOMAIN a = {"commitment", "amount", "auditor_pubkey", "view_ct", "note_ct", "proof"}
    BY <1>4 DEF DepositArgs
<1>7. /\ a["commitment"] = Hex(CommitNote(o.tx.creates[1])) /\ a["amount"] = Dec(o.tx.amount)
      /\ a["auditor_pubkey"] = Hex(AuditorField(o.tx.auditors[1]))
    BY <1>2, <1>4 DEF DepositArgs
<1>8. Written(a)
    <2>1. \A f \in HexNames \cap DOMAIN a : \E x : a[f] = Hex(x)
        BY <1>6, <1>7 DEF HexNames
    <2>2. \A f \in DecNames \cap DOMAIN a : \E n \in 0 .. FieldOrder - 1 : a[f] = Dec(n)
        BY <1>3, <1>6, <1>7 DEF DecNames
    <2>3. PairNames \cap DOMAIN a = {}
        BY <1>6 DEF PairNames
    <2>. QED BY <2>1, <2>2, <2>3 DEF Written, PairNames
<1>. QED BY <1>5, <1>8

LEMMA TransferIsWritten ==
    ASSUME NEW o, o.tx.method = "transfer", OrderMade(o), NEW proof,
           NEW a, a = TransferArgs(BuiltTx(o, o.tx.root, proof))
    PROVE  a = [f \in ArgNames("transfer") |-> a[f]] /\ Written(a)
<1>. DEFINE tx == BuiltTx(o, o.tx.root, proof)
            n1 == NullifierOf(o.user, o.inputs[1])
            n2 == NullifierOf(o.user, o.inputs[2])
            c1 == CommitNote(o.tx.creates[1])
            c2 == CommitNote(o.tx.creates[2])
            d1 == AuditorField(o.tx.auditors[1])
            d2 == AuditorField(o.tx.auditors[2])
<1>1. tx.publicInputs = PublicInputs(o, o.tx.root)
    BY DEF BuiltTx
<1>2. /\ tx.publicInputs.merkleRoot = o.tx.root
      /\ tx.publicInputs.nullifiers = <<Hex(n1), Hex(n2)>>
      /\ tx.publicInputs.commitments = <<Hex(c1), Hex(c2)>>
      /\ tx.publicInputs.auditorPubkey = Hex(d1)
      /\ tx.publicInputs.recipientAuditorPubkey = Hex(d2)
    <2>1. PublicInputs(o, o.tx.root) =
            [merkleRoot |-> o.tx.root,
             nullifiers |-> [k \in {1, 2} |-> Hex(NullifierOf(o.user, o.inputs[k]))],
             commitments |-> [k \in {1, 2} |-> Hex(CommitNote(o.tx.creates[k]))],
             auditorPubkey |-> Hex(AuditorField(o.tx.auditors[1])),
             recipientAuditorPubkey |-> Hex(AuditorField(o.tx.auditors[2]))]
        BY DEF PublicInputs
    <2>. HIDE DEF tx
    <2>. QED BY <1>1, <2>1
<1>3. PICK r : o.tx.root = Hex(r)
    BY DEF OrderMade
<1>. HIDE DEF tx, n1, n2, c1, c2, d1, d2
<1>4. a = TransferArgs(tx)
    BY Zenon DEF tx
<1>5. a = [f \in ArgNames("transfer") |-> a[f]]
    BY <1>4 DEF TransferArgs, ArgNames
<1>6. DOMAIN a = {"merkle_root", "nullifiers", "commitments", "auditor_pubkey",
                  "recipient_auditor_pubkey", "view_cts", "note_cts", "proof"}
    BY <1>4 DEF TransferArgs
<1>7. /\ a["merkle_root"] = Hex(r) /\ a["auditor_pubkey"] = Hex(d1)
      /\ a["recipient_auditor_pubkey"] = Hex(d2)
      /\ a["nullifiers"] = <<Hex(n1), Hex(n2)>> /\ a["commitments"] = <<Hex(c1), Hex(c2)>>
    BY <1>2, <1>3, <1>4 DEF TransferArgs
<1>8. a["view_cts"] = <<a["view_cts"][1], a["view_cts"][2]>>
    <2>1. a["view_cts"] = [k \in {1, 2} |-> Encoded(tx.viewCiphertexts[k])]
        BY <1>4 DEF TransferArgs
    <2>. QED BY <2>1
<1>9. Written(a)
    <2>1. \A f \in HexNames \cap DOMAIN a : \E x : a[f] = Hex(x)
        BY <1>6, <1>7 DEF HexNames
    <2>2. DecNames \cap DOMAIN a = {}
        BY <1>6 DEF DecNames
    <2>3. \A f \in PairNames \cap DOMAIN a : a[f] = <<a[f][1], a[f][2]>>
        BY <1>6, <1>7, <1>8 DEF PairNames
    <2>4. ASSUME NEW f \in {"nullifiers", "commitments"}, NEW k \in 1 .. 2 PROVE \E x : a[f][k] = Hex(x)
        <3>1. /\ a["nullifiers"][1] = Hex(n1) /\ a["nullifiers"][2] = Hex(n2)
              /\ a["commitments"][1] = Hex(c1) /\ a["commitments"][2] = Hex(c2)
            BY <1>7
        <3>2. k = 1 \/ k = 2
            OBVIOUS
        <3>. QED BY <2>4, <3>1, <3>2
    <2>. QED BY <2>1, <2>2, <2>3, <2>4 DEF Written
<1>. QED BY <1>5, <1>9

LEMMA WithdrawIsWritten ==
    ASSUME NEW o, o.tx.method = "withdraw", OrderMade(o), NEW proof,
           NEW call, IsWithdraw(o, o.tx.root, proof, call)
    PROVE  call.args = [f \in ArgNames("withdraw") |-> call.args[f]] /\ Written(call.args)
<1>. DEFINE tx == BuiltTx(o, o.tx.root, proof)
            a == call.args
            n == NullifierOf(o.user, o.inputs[1])
            d == AuditorField(o.tx.auditors[1])
<1>1. tx.publicInputs = PublicInputs(o, o.tx.root)
    BY DEF BuiltTx
<1>2. /\ tx.publicInputs.merkleRoot = o.tx.root /\ tx.publicInputs.nullifier = Hex(n)
      /\ tx.publicInputs.amount = Dec(o.tx.amount)
      /\ tx.publicInputs.relayerFee = Dec(o.tx.fee)
      /\ tx.publicInputs.auditorPubkey = Hex(d)
    BY <1>1 DEF PublicInputs
<1>3. PICK r : o.tx.root = Hex(r)
    BY DEF OrderMade
<1>4. o.tx.amount \in 0 .. FieldOrder - 1 /\ o.tx.fee \in 0 .. FieldOrder - 1
    <2>1. InRange(o.tx.amount) /\ o.tx.fee \in Nat /\ o.tx.fee <= o.tx.amount
        BY DEF OrderMade
    <2>2. o.tx.amount \in 0 .. FieldOrder - 1
        BY <2>1, RangeFits
    <2>. QED BY <2>1, <2>2, RangeFits
<1>. HIDE DEF tx, n, d
<1>5. call = WithdrawCall(tx) \/ call = SubmitWithdraw(SubmitRequest(o, tx))
    BY DEF IsWithdraw, tx
<1>6. a = [f \in ArgNames("withdraw") |-> a[f]]
    BY <1>5 DEF WithdrawCall, WithdrawArgs, SubmitWithdraw, SubmitRequest, ArgNames
<1>7. DOMAIN a = {"merkle_root", "nullifier", "recipient", "amount", "auditor_pubkey",
                  "view_ct", "relayer", "relayer_fee", "proof"}
    BY <1>5 DEF WithdrawCall, WithdrawArgs, SubmitWithdraw, SubmitRequest
<1>8. /\ a["merkle_root"] = Hex(r) /\ a["nullifier"] = Hex(n) /\ a["auditor_pubkey"] = Hex(d)
      /\ a["amount"] = Dec(o.tx.amount) /\ a["relayer_fee"] = Dec(o.tx.fee)
    BY <1>2, <1>3, <1>5 DEF WithdrawCall, WithdrawArgs, SubmitWithdraw, SubmitRequest
<1>. HIDE DEF a
<1>9. Written(a)
    <2>1. \A f \in HexNames \cap DOMAIN a : \E x : a[f] = Hex(x)
        BY <1>7, <1>8 DEF HexNames
    <2>2. \A f \in DecNames \cap DOMAIN a : \E m \in 0 .. FieldOrder - 1 : a[f] = Dec(m)
        BY <1>4, <1>7, <1>8 DEF DecNames
    <2>3. PairNames \cap DOMAIN a = {}
        BY <1>7 DEF PairNames
    <2>. QED BY <2>1, <2>2, <2>3 DEF Written, PairNames
<1>. QED BY <1>6, <1>9 DEF a

LEMMA EnvelopesAreWritten ==
    ASSUME NEW o, o.tx.method \in Methods, OrderMade(o), NEW proof,
           NEW call \in Envelopes(o, BuiltTx(o, o.tx.root, proof))
    PROVE  call.args = [f \in ArgNames(o.tx.method) |-> call.args[f]] /\ Written(call.args)
<1>. DEFINE tx == BuiltTx(o, o.tx.root, proof)
<1>1. tx.method = o.tx.method
    BY DEF BuiltTx
<1>. HIDE DEF tx
<1>2. CASE o.tx.method = "deposit"
    <2>1. call = FtTransferCall(tx)
        BY <1>1, <1>2 DEF Envelopes, tx
    <2>2. call.args = DepositArgs(tx)
        BY <2>1 DEF FtTransferCall
    <2>. QED BY <1>2, <2>2, DepositIsWritten DEF tx
<1>3. CASE o.tx.method = "transfer"
    <2>1. call = TransferCall(tx)
        BY <1>1, <1>3 DEF Envelopes, tx
    <2>2. call.args = TransferArgs(tx)
        BY <2>1 DEF TransferCall
    <2>. QED BY <1>3, <2>2, TransferIsWritten DEF tx
<1>4. CASE o.tx.method = "withdraw"
    <2>1. call = WithdrawCall(tx) \/ call = SubmitWithdraw(SubmitRequest(o, tx))
        BY <1>1, <1>4 DEF Envelopes, tx
    <2>2. IsWithdraw(o, o.tx.root, proof, call)
        BY <2>1 DEF IsWithdraw, tx
    <2>. QED BY <1>4, <2>2, WithdrawIsWritten
<1>. QED BY <1>2, <1>3, <1>4 DEF Methods

LEMMA InputsAreAsMany ==
    ASSUME NEW method \in Methods, NEW args
    PROVE  Len(ContractInputs(method, args)) = Len(PublicSignals[method])
<1>1. /\ Len(PublicSignals["deposit"]) = 4 /\ Len(PublicSignals["transfer"]) = 9
      /\ Len(PublicSignals["withdraw"]) = 8
    BY DEF PublicSignals
<1>2. CASE method = "deposit"
    BY <1>1, <1>2 DEF ContractInputs, DepositInputs
<1>3. CASE method = "transfer"
    BY <1>1, <1>3 DEF ContractInputs, TransferInputs
<1>4. CASE method = "withdraw"
    BY <1>1, <1>4 DEF ContractInputs, WithdrawInputs
<1>. QED BY <1>2, <1>3, <1>4 DEF Methods

LEMMA ProofsAreOfOneCall ==
    ASSUME JobTyped, JobMade, job.at = "built", Proved(job),
           NEW call \in Envelopes(job.order, Built(job)),
           NEW args \in Alterations(call.args), args # call.args
    PROVE  ~ Verified([call EXCEPT !.args = args])
<1>. DEFINE o == job.order
            circuit == o.tx.method
            c == [call EXCEPT !.args = args]
<1>1. /\ circuit \in Methods /\ OrderMade(o) /\ job.root = o.tx.root
      /\ job.proof = Prove(RequestOf(o)) /\ Built(job) = BuiltTx(o, o.tx.root, job.proof)
      /\ circuit = "withdraw" => o.tx.auditors[1] = o.inputs[1].note.auditor
    BY DEF JobTyped, OrderTyped, OrderSealed, Built, JobMade, IsMade, OrderMade, Proved
<1>. HIDE DEF o, circuit
<1>2. /\ call.method = circuit /\ call.args.proof = job.proof
      /\ Signals(circuit, CircomInput(RequestOf(o))) = ContractInputs(circuit, call.args)
    BY <1>1, EnvelopesAgree DEF o, circuit
<1>3. call.args = [f \in ArgNames(circuit) |-> call.args[f]] /\ Written(call.args)
    BY <1>1, EnvelopesAreWritten DEF o, circuit
<1>4. ContractInputs(circuit, args) # ContractInputs(circuit, call.args)
    BY <1>1, <1>3, ArgumentsArePinned
<1>5. args.proof = job.proof
    <2>1. PICK f, v : Differs(call.args, args, f, v) /\ Alteration(call.args, f, v)
        BY AlterationsDiffer
    <2>2. f # "proof"
        BY <2>1 DEF Alteration, HexNames, DecNames, AccountNames, PairNames
    <2>3. "proof" \in DOMAIN call.args
        BY <1>1, <1>3 DEF ArgNames, Methods
    <2>. QED BY <1>2, <2>1, <2>2, <2>3 DEF Differs
<1>6. Len(ContractInputs(circuit, args)) = Len(PublicSignals[circuit])
    BY <1>1, InputsAreAsMany
<1>7. ~ Verify(Vk[circuit], args.proof, ContractInputs(circuit, args))
    BY <1>1, <1>2, <1>4, <1>5, <1>6, OrderVerifies DEF circuit
<1>8. c.method = circuit /\ c.args = args
    <2>1. {"method", "args"} \subseteq DOMAIN call
        BY <1>1 DEF Envelopes, FtTransferCall, TransferCall, WithdrawCall, SubmitWithdraw, BuiltTx, circuit, Methods
    <2>2. call = [x \in DOMAIN call |-> call[x]]
        BY <1>1 DEF Envelopes, FtTransferCall, TransferCall, WithdrawCall, SubmitWithdraw, BuiltTx, circuit, Methods
    <2>. QED BY <1>2, <2>1
<1>. QED BY <1>7, <1>8 DEF Verified

(* A proof is good for one call: whoever relays it can change none of its  *)
(* arguments but the note ciphertexts, not even swap two nullifiers or two *)
(* ciphertexts, without the contract's verifier noticing (service.ts,      *)
(* lib.rs verify). *)
THEOREM ProofAlwaysFixesTheCall == E2ESpec => []ProofFixesTheCall
<1>1. NotesInv /\ CallInv => ProofFixesTheCall
    BY ProofsAreOfOneCall DEF NotesInv, CallInv, ProofFixesTheCall
<1>. QED BY <1>1, NotesAlways, CallInvAlways, PTL

------------------------------------------------------------------------------
(* What is proved can be proved: the balances the circuits' range covers. *)

UnspentOf(w) == {k \in DOMAIN w.notes : IsUnspent(w, k)}

AmountsOf(w) == [k \in DOMAIN w.notes |-> w.notes[k].note.amount]

LEMMA BalanceIsSum ==
    ASSUME NEW w \in WalletSet
    PROVE  /\ Balance(w) = SumFunctionOnSet(AmountsOf(w), UnspentOf(w))
           /\ IsFiniteSet(UnspentOf(w))
           /\ \A k \in DOMAIN w.notes : AmountsOf(w)[k] = w.notes[k].note.amount /\ AmountsOf(w)[k] \in Nat
           /\ w.notes \in Seq(FoundNote)
<1>1. w.notes \in Seq(FoundNote)
    BY DEF WalletSet, WalletsOf
<1>2. UnspentOf(w) \subseteq 1 .. Len(w.notes) /\ Len(w.notes) \in Nat
    BY <1>1 DEF UnspentOf
<1>3. IsFiniteSet(UnspentOf(w))
    <2>1. 1 \in Int /\ Len(w.notes) \in Int
        BY <1>2
    <2>2. IsFiniteSet(1 .. Len(w.notes))
        BY <2>1, FS_Interval
    <2>. QED BY <1>2, <2>2, FS_Subset
<1>4. ASSUME NEW k \in DOMAIN w.notes
      PROVE  AmountsOf(w)[k] = w.notes[k].note.amount /\ AmountsOf(w)[k] \in Nat
    <2>1. AmountsOf(w)[k] = w.notes[k].note.amount
        BY DEF AmountsOf
    <2>2. w.notes[k] \in FoundNote
        BY <1>1
    <2>. QED BY <2>1, <2>2 DEF FoundNote, NoteSet
<1>5. Balance(w) = SumFunctionOnSet(AmountsOf(w), UnspentOf(w))
    BY DEF Balance, AmountsOf, UnspentOf
<1>. QED BY <1>1, <1>3, <1>4, <1>5

(* One more note adds its amount at most. *)
LEMMA NoteAdds ==
    ASSUME NEW w \in WalletSet, NEW v \in WalletSet, NEW n \in FoundNote,
           v.notes = Append(w.notes, n), v.spent = w.spent
    PROVE  Balance(v) <= Balance(w) + n.note.amount
<1>. DEFINE f == AmountsOf(w)
            g == AmountsOf(v)
            D == UnspentOf(w)
            E == UnspentOf(v)
            last == Len(w.notes) + 1
<1>1. /\ Balance(w) = SumFunctionOnSet(f, D) /\ IsFiniteSet(D) /\ w.notes \in Seq(FoundNote)
      /\ \A k \in DOMAIN w.notes : f[k] = w.notes[k].note.amount /\ f[k] \in Nat
    BY BalanceIsSum
<1>2. /\ Balance(v) = SumFunctionOnSet(g, E) /\ IsFiniteSet(E)
      /\ \A k \in DOMAIN v.notes : g[k] = v.notes[k].note.amount /\ g[k] \in Nat
    BY BalanceIsSum
<1>3. /\ last \in Nat /\ DOMAIN w.notes = 1 .. last - 1 /\ DOMAIN v.notes = 1 .. last
      /\ v.notes[last] = n /\ \A k \in 1 .. last - 1 : v.notes[k] = w.notes[k]
    BY <1>1
<1>4. E \ {last} = D
    <2>1. \A k : k \in 1 .. last /\ k # last <=> k \in 1 .. last - 1
        BY <1>3
    <2>. HIDE DEF last
    <2>. QED BY <1>3, <2>1 DEF UnspentOf, IsUnspent
<1>5. D \subseteq DOMAIN w.notes /\ E \subseteq DOMAIN v.notes /\ last \notin D
    <2>1. last \notin DOMAIN w.notes
        BY <1>3
    <2>. HIDE DEF last
    <2>. QED BY <2>1 DEF UnspentOf
<1>. HIDE DEF f, g, D, E, last
<1>6. \A k \in D : f[k] \in Nat /\ g[k] = f[k]
    BY <1>1, <1>2, <1>3, <1>5
<1>7. SumFunctionOnSet(g, D) = Balance(w) /\ Balance(w) \in Nat
    <2>1. \A k \in D : f[k] \in Int /\ g[k] = f[k]
        BY <1>6
    <2>. QED BY <1>1, <2>1, SumAgree, BalanceIsNat
<1>8. g[last] = n.note.amount /\ g[last] \in Nat
    BY <1>2, <1>3
<1>9. CASE last \in E
    <2>1. \A k \in E : g[k] \in Int
        BY <1>2, <1>5
    <2>2. SumFunctionOnSet(g, E) = g[last] + SumFunctionOnSet(g, E \ {last})
        <3>1. IsFiniteSet(E)
            BY <1>2
        <3>. QED BY <1>9, <2>1, <3>1, SumRemove
    <2>3. Balance(v) = g[last] + Balance(w)
        BY <1>2, <1>4, <1>7, <2>2, Zenon
    <2>. QED BY <1>7, <1>8, <2>3
<1>10. CASE last \notin E
    <2>1. E = D
        BY <1>4, <1>10
    <2>. QED BY <1>2, <1>7, <1>8, <2>1
<1>. QED BY <1>9, <1>10

(* Marking spends what it marks; it adds nothing. *)
LEMMA PartSum ==
    ASSUME NEW f, NEW D, IsFiniteSet(D), NEW E \in SUBSET D, \A x \in D : f[x] \in Nat
    PROVE  SumFunctionOnSet(f, E) <= SumFunctionOnSet(f, D)
<1>1. IsFiniteSet(E) /\ IsFiniteSet(D \ E) /\ E \cup (D \ E) = D /\ E \cap (D \ E) = {}
    BY FS_Subset
<1>2. \A x \in E \cup (D \ E) : f[x] \in Int
    BY <1>1
<1>3. SumFunctionOnSet(f, E \cup (D \ E)) = SumFunctionOnSet(f, E) + SumFunctionOnSet(f, D \ E)
    BY <1>1, <1>2, SumUnion
<1>4. SumFunctionOnSet(f, E) \in Nat /\ SumFunctionOnSet(f, D \ E) \in Nat
    BY <1>1, SumNat
<1>. DEFINE all == SumFunctionOnSet(f, D)
            part == SumFunctionOnSet(f, E)
            rest == SumFunctionOnSet(f, D \ E)
<1>5. all = part + rest
    BY <1>1, <1>3, Zenon
<1>. HIDE DEF all, part, rest
<1>6. part <= all
    BY <1>4, <1>5 DEF part, rest
<1>. QED BY <1>6 DEF all, part

LEMMA MarkTakes ==
    ASSUME NEW w \in WalletSet, NEW v \in WalletSet, v.notes = w.notes, w.spent \subseteq v.spent
    PROVE  /\ Balance(v) <= Balance(w)
           /\ \A p, q \in UnspentOf(w) :
                 p # q /\ w.notes[p].leafIndex \in v.spent /\ w.notes[q].leafIndex \in v.spent =>
                    Balance(v) + w.notes[p].note.amount + w.notes[q].note.amount <= Balance(w)
<1>. DEFINE f == AmountsOf(w)
            D == UnspentOf(w)
            E == UnspentOf(v)
<1>1. /\ Balance(w) = SumFunctionOnSet(f, D) /\ IsFiniteSet(D) /\ w.notes \in Seq(FoundNote)
      /\ \A k \in DOMAIN w.notes : f[k] = w.notes[k].note.amount /\ f[k] \in Nat
    BY BalanceIsSum
<1>2. Balance(v) = SumFunctionOnSet(f, E) /\ AmountsOf(v) = f
    <2>1. AmountsOf(v) = f
        BY DEF AmountsOf
    <2>. HIDE DEF f
    <2>. QED BY <2>1, BalanceIsSum
<1>3. E \subseteq D /\ D \subseteq DOMAIN w.notes
    BY DEF UnspentOf, IsUnspent
<1>4. \A p \in D : w.notes[p].leafIndex \in v.spent => p \notin E
    BY DEF UnspentOf, IsUnspent
<1>. HIDE DEF f, D, E
<1>5. \A k \in D : f[k] \in Nat /\ f[k] \in Int
    BY <1>1, <1>3
<1>6. Balance(v) <= Balance(w)
    BY <1>1, <1>2, <1>3, <1>5, PartSum
<1>7. ASSUME NEW p \in D, NEW q \in D, p # q, w.notes[p].leafIndex \in v.spent, w.notes[q].leafIndex \in v.spent
      PROVE  Balance(v) + w.notes[p].note.amount + w.notes[q].note.amount <= Balance(w)
    <2>. DEFINE D1 == D \ {p}
                D2 == D1 \ {q}
    <2>1. IsFiniteSet(D1) /\ IsFiniteSet(D2) /\ q \in D1 /\ E \subseteq D2 /\ D1 \subseteq D /\ D2 \subseteq D
        BY <1>1, <1>3, <1>4, <1>7, FS_Subset
    <2>2. SumFunctionOnSet(f, D) = f[p] + SumFunctionOnSet(f, D1)
        <3>1. \A x \in D : f[x] \in Int
            BY <1>5
        <3>. QED BY <1>1, <3>1, SumRemove
    <2>. HIDE DEF D1
    <2>3. SumFunctionOnSet(f, D1) = f[q] + SumFunctionOnSet(f, D2)
        <3>1. \A x \in D1 : f[x] \in Int
            BY <1>5, <2>1
        <3>. QED BY <2>1, <3>1, SumRemove
    <2>. HIDE DEF D2
    <2>4. SumFunctionOnSet(f, E) <= SumFunctionOnSet(f, D2)
        BY <1>5, <2>1, PartSum
    <2>5. SumFunctionOnSet(f, D2) \in Nat /\ SumFunctionOnSet(f, E) \in Nat
        <3>1. IsFiniteSet(E) /\ E \subseteq D
            BY <1>1, <1>3, FS_Subset
        <3>. QED BY <1>5, <2>1, <3>1, SumNat
    <2>6. f[p] = w.notes[p].note.amount /\ f[q] = w.notes[q].note.amount /\ f[p] \in Nat /\ f[q] \in Nat
        BY <1>1, <1>3
    <2>. DEFINE all == SumFunctionOnSet(f, D)
                most == SumFunctionOnSet(f, D1)
                rest == SumFunctionOnSet(f, D2)
                kept == SumFunctionOnSet(f, E)
                a == w.notes[p].note.amount
                b == w.notes[q].note.amount
    <2>7. all = a + most /\ most = b + rest /\ kept <= rest
        BY <2>2, <2>3, <2>4, <2>6
    <2>8. rest \in Nat /\ kept \in Nat /\ a \in Nat /\ b \in Nat
        BY <2>5, <2>6
    <2>9. Balance(w) = all /\ Balance(v) = kept
        BY <1>1, <1>2
    <2>. HIDE DEF all, most, rest, kept, a, b
    <2>10. kept + a + b <= all
        BY <2>7, <2>8
    <2>. QED BY <2>9, <2>10 DEF a, b
<1>. QED BY <1>6, <1>7 DEF D

(* What a user finds of a ciphertext. *)
Gain(u, ct) == IF Opens(u, ct) THEN ct.sealed.payload.amount ELSE 0

LEMMA ScanGains ==
    ASSUME NEW w \in WalletSet, NEW u, NEW cts, Len(cts) \in 0 .. 2, OpensInto(u, cts, FoundNote)
    PROVE  /\ Len(cts) = 0 => Balance(Scan(w, u, cts)) <= Balance(w)
           /\ Len(cts) = 1 => Balance(Scan(w, u, cts)) <= Balance(w) + Gain(u, cts[1])
           /\ Len(cts) = 2 => Balance(Scan(w, u, cts)) <= Balance(w) + Gain(u, cts[1]) + Gain(u, cts[2])
<1>1. Len(cts) \in Nat
    OBVIOUS
<1>2. PICK f : /\ ScanNotes(u, cts) = f[Len(cts)] /\ f[0] = <<>>
               /\ \A k \in 1 .. Len(cts) : f[k] = Scanned(f[k - 1], u, cts[k])
    BY <1>1, ScanStep
<1>. DEFINE V(k) == [notes |-> w.notes \o f[k], spent |-> w.spent]
<1>3. w.notes \in Seq(FoundNote) /\ w.spent \in SUBSET Nat /\ w = [notes |-> w.notes, spent |-> w.spent]
    BY DEF WalletSet, WalletsOf
<1>11. \A s \in Seq(FoundNote) : [notes |-> w.notes \o s, spent |-> w.spent] \in WalletSet
    <2>1. \A s \in Seq(FoundNote) : w.notes \o s \in Seq(FoundNote)
        BY <1>3
    <2>. QED BY <1>3, <2>1 DEF WalletSet, WalletsOf
<1>4. V(0) = w
    <2>1. w.notes \o <<>> = w.notes
        BY <1>3
    <2>. QED BY <1>2, <1>3, <2>1
<1>5. Scan(w, u, cts) = V(Len(cts))
    <2>1. /\ Scan(w, u, cts) \in WalletSet /\ Scan(w, u, cts).spent = w.spent
          /\ Scan(w, u, cts).notes = w.notes \o f[Len(cts)]
        <3>1. /\ Scan(w, u, cts) \in WalletSet /\ Scan(w, u, cts).spent = w.spent
              /\ Scan(w, u, cts).notes = w.notes \o ScanNotes(u, cts)
            BY <1>1, ScanKeepsWallet DEF WalletSet
        <3>. QED BY <1>2, <3>1
    <2>. QED BY <2>1 DEF WalletSet, WalletsOf
<1>6. ASSUME NEW k \in 1 .. Len(cts), f[k - 1] \in Seq(FoundNote)
      PROVE  /\ f[k] \in Seq(FoundNote)
             /\ Gain(u, cts[k]) \in Nat
             /\ Balance(V(k)) <= Balance(V(k - 1)) + Gain(u, cts[k])
    <2>. DEFINE s == f[k - 1]
                n == Discovery(cts[k])
    <2>1. f[k] = Scanned(s, u, cts[k])
        BY <1>2
    <2>2. V(k - 1) \in WalletSet
        BY <1>6, <1>11
    <2>3. Balance(V(k - 1)) \in Nat
        BY <2>2, BalanceIsNat
    <2>4. CASE ~ Opens(u, cts[k])
        <3>1. f[k] = s /\ Gain(u, cts[k]) = 0
            BY <2>1, <2>4 DEF Scanned, Gain
        <3>2. V(k) = V(k - 1)
            BY <3>1
        <3>. HIDE DEF V
        <3>. QED BY <1>6, <2>3, <3>1, <3>2
    <2>5. CASE Opens(u, cts[k])
        <3>1. n \in FoundNote /\ n.note.amount = Gain(u, cts[k]) /\ n.note.amount \in Nat
            <4>1. n \in FoundNote
                BY <2>5 DEF OpensInto
            <4>2. n.note = cts[k].sealed.payload
                BY DEF Discovery
            <4>3. n.note.amount \in Nat
                BY <4>1 DEF FoundNote, NoteSet
            <4>. HIDE DEF n
            <4>. QED BY <2>5, <4>1, <4>2, <4>3 DEF Gain
        <3>2. f[k] = Append(s, n)
            BY <2>1, <2>5 DEF Scanned
        <3>3. f[k] \in Seq(FoundNote) /\ w.notes \o f[k] = Append(w.notes \o s, n)
            <4>. HIDE DEF n, s
            <4>1. s \in Seq(FoundNote)
                BY <1>6 DEF s
            <4>2. w.notes \o Append(s, n) = Append(w.notes \o s, n)
                BY <1>3, <3>1, <4>1
            <4>. QED BY <3>1, <3>2, <4>1, <4>2
        <3>. DEFINE a == V(k - 1)
                    b == V(k)
        <3>4. b.notes = Append(a.notes, n) /\ b.spent = a.spent
            BY <3>3
        <3>5. b \in WalletSet
            BY <1>11, <3>3
        <3>. HIDE DEF a, b, n
        <3>6. a \in WalletSet
            BY <2>2 DEF a
        <3>7. Balance(b) <= Balance(a) + n.note.amount
            BY <3>1, <3>4, <3>5, <3>6, NoteAdds
        <3>. QED BY <3>1, <3>3, <3>7 DEF a, b
    <2>. QED BY <2>4, <2>5
<1>. HIDE DEF V
<1>7. f[0] \in Seq(FoundNote) /\ Balance(w) \in Nat
    BY <1>2, BalanceIsNat
<1>8. CASE Len(cts) = 0
    BY <1>4, <1>5, <1>7, <1>8
<1>9. CASE Len(cts) = 1
    <2>1. Balance(V(1)) <= Balance(V(0)) + Gain(u, cts[1])
        <3>1. 1 \in 1 .. Len(cts) /\ 1 - 1 = 0
            BY <1>9
        <3>. QED BY <1>6, <1>7, <3>1
    <2>. QED BY <1>4, <1>5, <1>9, <2>1
<1>10. CASE Len(cts) = 2
    <2>1. 1 \in 1 .. Len(cts) /\ 1 - 1 = 0 /\ 2 \in 1 .. Len(cts) /\ 2 - 1 = 1
        BY <1>10
    <2>2. /\ f[1] \in Seq(FoundNote) /\ Balance(V(1)) <= Balance(V(0)) + Gain(u, cts[1])
          /\ Gain(u, cts[1]) \in Nat
        BY <1>6, <1>7, <2>1
    <2>3. f[2] \in Seq(FoundNote) /\ Balance(V(2)) <= Balance(V(1)) + Gain(u, cts[2]) /\ Gain(u, cts[2]) \in Nat
        BY <1>6, <2>1, <2>2
    <2>4. Balance(V(1)) \in Nat /\ Balance(V(2)) \in Nat
        BY <1>11, <2>2, <2>3, BalanceIsNat DEF V
    <2>5. Balance(Scan(w, u, cts)) = Balance(V(2)) /\ Balance(V(0)) = Balance(w)
        BY <1>4, <1>5, <1>10
    <2>. DEFINE b0 == Balance(w)
                b1 == Balance(V(1))
                b2 == Balance(V(2))
                x == Gain(u, cts[1])
                y == Gain(u, cts[2])
    <2>6. b1 <= b0 + x /\ b2 <= b1 + y /\ b0 \in Nat /\ b1 \in Nat /\ b2 \in Nat /\ x \in Nat /\ y \in Nat
        BY <1>7, <2>2, <2>3, <2>4, <2>5
    <2>. HIDE DEF b0, b1, b2, x, y
    <2>7. b2 <= b0 + x + y
        BY <2>6
    <2>. QED BY <1>10, <2>5, <2>7 DEF b0, b2, x, y
<1>. QED BY <1>8, <1>9, <1>10

------------------------------------------------------------------------------
(* Orders that the circuits can be satisfied with. *)

(* The paths of the inputs lead from the user's notes to the order's root. *)
InputReady(o, k) ==
    LET in == o.inputs[k] IN
    /\ in.note.owner = o.user /\ in.leafIndex \in Nat /\ in.leafIndex < Capacity
    /\ MerkleInclusion(CommitNote(in.note), o.tx.root[2], in.leafIndex, o.paths[k])

TransferReady(o) ==
    LET a == o.inputs[1].note
        b == o.inputs[2].note
        c == o.tx.creates
    IN
    /\ InputReady(o, 1) /\ InputReady(o, 2)
    /\ o.inputs[1].leafIndex # o.inputs[2].leafIndex
    /\ a.auditor = b.auditor /\ InRange(a.amount + b.amount)
    /\ c[1].amount + c[2].amount = a.amount + b.amount
    /\ o.tx.auditors[1] = a.auditor /\ c[2].auditor = a.auditor /\ o.tx.auditors[2] = c[1].auditor

WithdrawReady(o) == InputReady(o, 1) /\ o.inputs[1].note.amount = o.tx.amount

(* Two unspent notes of the sender's are what a transfer spends. *)
IsBacked(o, ws) ==
    \E p, q \in UnspentOf(ws[o.user]) :
        /\ p # q
        /\ o.inputs[1] = ws[o.user].notes[p] /\ o.inputs[2] = ws[o.user].notes[q]
        /\ o.tx.spends = <<o.inputs[1].leafIndex, o.inputs[2].leafIndex>>

OrderReady(o, ws) ==
    /\ o.tx.method = "transfer" => TransferReady(o) /\ IsBacked(o, ws)
    /\ o.tx.method = "withdraw" => WithdrawReady(o)

IsReady(j, ws) == j.at \in {"requested", "built"} => OrderReady(j.order, ws)

JobReady == IsReady(job, wallets)

(* What an order under way will bring into the pool. *)
Pending(j) ==
    IF j.at \in {"requested", "built"} /\ j.order.tx.method = "deposit" THEN j.order.tx.amount ELSE 0

(* The supply of the token bounds what is held. *)
HeldFits == Held + Pending(job) < 2 ^ RANGE_BITS

(* A wallet finds its notes in the order of their leaves. *)
InLeafOrder(notes) == \A i, j \in DOMAIN notes : i < j => notes[i].leafIndex < notes[j].leafIndex

LeavesInOrder == \A u \in Users : InLeafOrder(wallets[u].notes)

FundsInv == JobReady /\ HeldFits /\ LeavesInOrder

LEMMA BalancesAreHeld ==
    ASSUME WalletsTyped
    PROVE  /\ Balance(wallets["alice"]) \in Nat /\ Balance(wallets["bob"]) \in Nat /\ Held \in Nat
           /\ \A u \in Users : Balance(wallets[u]) <= Held
<1>1. wallets["alice"] \in WalletSet /\ wallets["bob"] \in WalletSet
    BY DEF WalletsTyped, Users
<1>2. Balance(wallets["alice"]) \in Nat /\ Balance(wallets["bob"]) \in Nat
    BY <1>1, BalanceIsNat
<1>. QED BY <1>2 DEF Held, Users

(* Two unspent notes are part of the balance. *)
LEMMA PairWithinBalance ==
    ASSUME NEW w \in WalletSet, NEW p \in UnspentOf(w), NEW q \in UnspentOf(w), p # q
    PROVE  w.notes[p].note.amount + w.notes[q].note.amount <= Balance(w)
<1>. DEFINE v == [notes |-> w.notes, spent |-> Nat]
<1>1. v \in WalletSet /\ v.notes = w.notes /\ v.spent = Nat /\ w.spent \subseteq v.spent
    BY DEF WalletSet, WalletsOf
<1>2. /\ w.notes[p].leafIndex \in Nat /\ w.notes[p].note.amount \in Nat
      /\ w.notes[q].leafIndex \in Nat /\ w.notes[q].note.amount \in Nat
    <2>1. p \in DOMAIN w.notes /\ q \in DOMAIN w.notes /\ w.notes \in Seq(FoundNote)
        BY DEF UnspentOf, WalletSet, WalletsOf
    <2>2. w.notes[p] \in FoundNote /\ w.notes[q] \in FoundNote
        BY <2>1
    <2>. QED BY <2>2 DEF FoundNote, NoteSet
<1>. HIDE DEF v
<1>3. Balance(v) + w.notes[p].note.amount + w.notes[q].note.amount <= Balance(w)
    BY <1>1, <1>2, MarkTakes
<1>4. Balance(v) \in Nat /\ Balance(w) \in Nat
    BY <1>1, BalanceIsNat
<1>. QED BY <1>2, <1>3, <1>4

(* Whatever note a wallet has, its path leads to the root of the day. *)
LEMMA PathsLead ==
    ASSUME TreeFollows, NotesAtTheirLeaves, WalletsTyped, NEW u \in Users,
           NEW k \in DOMAIN wallets[u].notes
    PROVE  LET n == wallets[u].notes[k] IN
           /\ n \in FoundNote /\ n.note.owner = u /\ n.leafIndex < Capacity
           /\ MerkleInclusion(CommitNote(n.note), tree.current_root, n.leafIndex, PathFor(leaves, n.leafIndex))
<1>. DEFINE n == wallets[u].notes[k]
<1>1. n \in FoundNote
    BY DEF WalletsTyped, WalletSet, WalletsOf
<1>2. AtItsLeaf(n, u, leaves)
    BY DEF NotesAtTheirLeaves
<1>. HIDE DEF n
<1>3. n.leafIndex \in Nat
    BY <1>1 DEF FoundNote
<1>4. PICK S : leaves \in Seq(S)
    BY DEF TreeFollows
<1>5. n.leafIndex \in 0 .. Len(leaves) - 1
    BY <1>2, <1>3, <1>4 DEF AtItsLeaf
<1>6. Len(leaves) <= Capacity /\ Capacity \in Nat
    BY TreeProperties, Widths DEF CountedWithinCapacity
<1>7. n.leafIndex < Capacity
    BY <1>2, <1>3, <1>4, <1>6 DEF AtItsLeaf
<1>8. MerkleInclusion(leaves[n.leafIndex + 1], tree.current_root, n.leafIndex, PathFor(leaves, n.leafIndex))
    BY <1>5, TreeProperties DEF EveryPathVerifies
<1>. QED BY <1>1, <1>2, <1>7, <1>8 DEF AtItsLeaf, n

LEMMA RequestHasPaths ==
    ASSUME NEW user, NEW tx, NEW ins, NEW to, NEW relayer, Request(Order(user, tx, ins, to, relayer))
    PROVE  job'.order.paths = [k \in DOMAIN ins |-> PathFor(leaves, ins[k].leafIndex)]
BY DEF Request, Order, Path

LEMMA TransferIsReady ==
    ASSUME TreeFollows, NotesInv, LeavesInOrder, Held < 2 ^ RANGE_BITS,
           NEW u \in Users, NEW amount \in Amounts, NEW v, NEW auditor,
           RequestTransfer(u, amount, v, auditor)
    PROVE  OrderReady(job'.order, wallets) /\ Pending(job') = 0
<1>. DEFINE w == wallets[u]
            ins == FindTransferInputs(w, amount)
            tx == BuildTransfer(u, ins, Root, amount, v, auditor)
            o == job'.order
            a == ins[1].note.amount
            b == ins[2].note.amount
<1>1. /\ o.tx = tx /\ o.inputs = ins /\ o.user = u /\ job'.at = "requested"
      /\ TransferPairs(w, amount) # {}
      /\ o.paths = [k \in DOMAIN ins |-> PathFor(leaves, ins[k].leafIndex)]
    <2>1. Request(Order(u, tx, ins, "", "")) /\ TransferPairs(w, amount) # {}
        BY DEF RequestTransfer
    <2>. HIDE DEF tx, ins, w
    <2>2. o.paths = [k \in DOMAIN ins |-> PathFor(leaves, ins[k].leafIndex)]
        BY <2>1, RequestHasPaths, Zenon
    <2>3. o.tx = tx /\ o.inputs = ins /\ o.user = u /\ job'.at = "requested"
        BY <2>1, RequestIsOrder, Zenon
    <2>. QED BY <2>1, <2>2, <2>3
<1>2. w \in WalletSet /\ w.notes \in Seq(FoundNote) /\ WalletsTyped /\ NotesAtTheirLeaves
    BY DEF NotesInv, WalletsTyped, WalletSet, WalletsOf
<1>3. PICK p \in TransferPairs(w, amount) : ins = <<w.notes[p[1]], w.notes[p[2]]>>
    <2>1. w.notes \in Seq(FoundNote) /\ TransferPairs(w, amount) # {}
        BY <1>1, <1>2
    <2>. HIDE DEF w, tx, o
    <2>. QED BY <2>1, TransferInputsAreAPair, Zenon
<1>4. /\ p[1] \in UnspentOf(w) /\ p[2] \in UnspentOf(w) /\ p[1] < p[2]
      /\ p[1] \in DOMAIN w.notes /\ p[2] \in DOMAIN w.notes
      /\ w.notes[p[1]].note.auditor = w.notes[p[2]].note.auditor
      /\ w.notes[p[1]].note.amount + w.notes[p[2]].note.amount >= amount
    BY DEF TransferPairs, UnspentOf
<1>5. /\ ins[1] = w.notes[p[1]] /\ ins[2] = w.notes[p[2]] /\ DOMAIN ins = {1, 2}
    <2>. HIDE DEF ins, w
    <2>. QED BY <1>3
<1>6. p[1] # p[2] /\ ins[1].leafIndex # ins[2].leafIndex
    <2>1. p[1] \in Nat /\ p[2] \in Nat
        BY <1>2, <1>4
    <2>2. w.notes[p[1]].leafIndex < w.notes[p[2]].leafIndex
        BY <1>4 DEF LeavesInOrder, InLeafOrder
    <2>3. w.notes[p[1]].leafIndex \in Nat /\ w.notes[p[2]].leafIndex \in Nat
        <3>1. w.notes[p[1]] \in FoundNote /\ w.notes[p[2]] \in FoundNote
            BY <1>2, <1>4
        <3>. QED BY <3>1 DEF FoundNote
    <2>. HIDE DEF ins, w
    <2>. QED BY <1>4, <1>5, <2>1, <2>2, <2>3
<1>7. a \in Nat /\ b \in Nat /\ amount \in Nat /\ amount <= a + b /\ InRange(a + b)
    <2>1. w.notes[p[1]] \in FoundNote /\ w.notes[p[2]] \in FoundNote
        BY <1>2, <1>4
    <2>2. w.notes[p[1]].note.amount + w.notes[p[2]].note.amount <= Balance(w)
        BY <1>2, <1>4, <1>6, PairWithinBalance
    <2>3. Balance(w) \in Nat /\ Balance(w) <= Held /\ Held \in Nat
        BY <1>2, BalancesAreHeld, BalanceIsNat
    <2>4. a = w.notes[p[1]].note.amount /\ b = w.notes[p[2]].note.amount
        BY <1>5
    <2>. HIDE DEF a, b, w
    <2>5. a \in Nat /\ b \in Nat
        BY <2>1, <2>4 DEF FoundNote, NoteSet
    <2>. QED BY <1>4, <2>2, <2>3, <2>4, <2>5, PathAssumption, RangeFits DEF InRange
<1>8. /\ tx.method = "transfer" /\ tx.root = Hex(tree.current_root)
      /\ tx.spends = <<ins[1].leafIndex, ins[2].leafIndex>>
      /\ tx.auditors = <<ins[1].note.auditor, auditor>>
    BY DEF BuildTransfer, Root
<1>9. /\ tx.creates[1].amount = amount /\ tx.creates[2].amount = a + b - amount
      /\ tx.creates[1].auditor = auditor /\ tx.creates[2].auditor = ins[1].note.auditor
    <2>1. /\ tx.creates[1] = Note(amount, v, auditor)
          /\ tx.creates[2] = Note(a + b - amount, u, ins[1].note.auditor)
        <3>1. ins[1].note.amount \in Nat /\ ins[2].note.amount \in Nat /\ amount \in Nat
            BY <1>7
        <3>. HIDE DEF ins
        <3>. QED BY <3>1 DEF BuildTransfer
    <2>. HIDE DEF tx, a, b, ins
    <2>. QED BY <2>1 DEF Note
<1>10. /\ o.paths[1] = PathFor(leaves, ins[1].leafIndex)
       /\ o.paths[2] = PathFor(leaves, ins[2].leafIndex)
    <2>. HIDE DEF ins, o
    <2>. QED BY <1>1, <1>5
<1>11. o.tx.root[2] = tree.current_root
    <2>. HIDE DEF tx, o
    <2>. QED BY <1>1, <1>8 DEF Hex
<1>. HIDE DEF o, ins, tx
<1>12. InputReady(o, 1) /\ InputReady(o, 2)
    <2>1. \A k \in {p[1], p[2]} :
            /\ w.notes[k].note.owner = u /\ w.notes[k].leafIndex \in Nat /\ w.notes[k].leafIndex < Capacity
            /\ MerkleInclusion(CommitNote(w.notes[k].note), tree.current_root, w.notes[k].leafIndex,
                               PathFor(leaves, w.notes[k].leafIndex))
        <3>1. \A k \in DOMAIN w.notes :
                 /\ w.notes[k] \in FoundNote
                 /\ w.notes[k].note.owner = u /\ w.notes[k].leafIndex < Capacity
                 /\ MerkleInclusion(CommitNote(w.notes[k].note), tree.current_root, w.notes[k].leafIndex,
                                    PathFor(leaves, w.notes[k].leafIndex))
            BY <1>2, PathsLead, Zenon
        <3>2. \A n \in FoundNote : n.leafIndex \in Nat
            BY DEF FoundNote
        <3>. HIDE DEF w
        <3>. QED BY <1>4, <3>1, <3>2, Zenon
    <2>. HIDE DEF w
    <2>. QED BY <1>1, <1>5, <1>10, <1>11, <2>1 DEF InputReady
<1>13. IsBacked(o, wallets)
    BY <1>1, <1>4, <1>5, <1>6, <1>8 DEF IsBacked
<1>14. TransferReady(o)
    <2>1. tx.creates[1].amount + tx.creates[2].amount = a + b
        BY <1>7, <1>9
    <2>2. tx.auditors[1] = ins[1].note.auditor /\ tx.auditors[2] = auditor
        BY <1>8
    <2>3. ins[1].note.auditor = ins[2].note.auditor
        BY <1>4, <1>5
    <2>. QED BY <1>1, <1>6, <1>7, <1>9, <1>12, <2>1, <2>2, <2>3 DEF TransferReady
<1>15. OrderReady(o, wallets) /\ o.tx.method = "transfer"
    BY <1>1, <1>8, <1>13, <1>14 DEF OrderReady
<1>16. Pending(job') = 0
    BY <1>15 DEF Pending, o
<1>. QED BY <1>15, <1>16 DEF o

LEMMA WithdrawIsReady ==
    ASSUME TreeFollows, NotesInv, NEW u \in Users, NEW amount \in Amounts, RequestWithdraw(u, amount)
    PROVE  OrderReady(job'.order, wallets) /\ Pending(job') = 0
<1>. DEFINE w == wallets[u]
            in == FindWithdrawNote(w, amount)
            tx == BuildWithdraw(u, in, Root, amount, "payee.near", FeeUsdcBase)
            o == job'.order
<1>1. /\ o.tx = tx /\ o.inputs = <<in>> /\ o.user = u /\ job'.at = "requested"
      /\ WithdrawNotes(w, amount) # {}
      /\ o.paths = [k \in DOMAIN <<in>> |-> PathFor(leaves, <<in>>[k].leafIndex)]
    BY RequestIsOrder, RequestHasPaths DEF RequestWithdraw
<1>2. w.notes \in Seq(FoundNote) /\ WalletsTyped /\ NotesAtTheirLeaves
    BY DEF NotesInv, WalletsTyped, WalletSet, WalletsOf
<1>3. PICK k \in WithdrawNotes(w, amount) : in = w.notes[k]
    BY <1>1, <1>2, WithdrawNoteIsOne
<1>4. k \in DOMAIN w.notes /\ w.notes[k].note.amount = amount
    BY DEF WithdrawNotes
<1>5. /\ in.note.owner = u /\ in.leafIndex \in Nat /\ in.leafIndex < Capacity
      /\ MerkleInclusion(CommitNote(in.note), tree.current_root, in.leafIndex, PathFor(leaves, in.leafIndex))
    BY <1>2, <1>3, <1>4, PathsLead DEF FoundNote
<1>6. tx.method = "withdraw" /\ tx.root = Hex(tree.current_root) /\ tx.amount = amount
    BY DEF BuildWithdraw, Root
<1>. HIDE DEF tx, in, o
<1>7. o.inputs[1] = in /\ o.paths[1] = PathFor(leaves, in.leafIndex) /\ o.tx.root[2] = tree.current_root
    BY <1>1, <1>6 DEF Hex
<1>8. InputReady(o, 1)
    BY <1>1, <1>5, <1>7 DEF InputReady
<1>9. OrderReady(o, wallets) /\ o.tx.method = "withdraw"
    BY <1>1, <1>3, <1>4, <1>6, <1>7, <1>8 DEF OrderReady, WithdrawReady
<1>10. Pending(job') = 0
    BY <1>9 DEF Pending, o
<1>. QED BY <1>9, <1>10 DEF o

LEMMA DepositIsReady ==
    ASSUME NEW amount, NEW auditor, RequestDeposit(amount, auditor)
    PROVE  /\ OrderReady(job'.order, wallets) /\ Pending(job') = amount
           /\ Held + amount < 2 ^ RANGE_BITS
<1>1. job'.order.tx = BuildDeposit("alice", amount, auditor) /\ job'.at = "requested"
    BY RequestIsOrder DEF RequestDeposit
<1>2. job'.order.tx.method = "deposit" /\ job'.order.tx.amount = amount
    BY <1>1 DEF BuildDeposit
<1>. QED BY <1>1, <1>2 DEF OrderReady, Pending, RequestDeposit

(* What a landed order logs, from the next leaf on. *)
LoggedCts(tx, next) == [k \in DOMAIN tx.creates |-> [leafIndex |-> next + k - 1, sealed |-> tx.noteCts[k]]]

AreLogged(cts, tx, next) ==
    /\ Len(cts) = Len(tx.creates) /\ Len(cts) \in 0 .. 2
    /\ \A k \in 1 .. Len(cts) :
          /\ tx.creates[k] \in NoteSet /\ cts[k].sealed.payload = tx.creates[k]
          /\ \A u : Opens(u, cts[k]) <=> tx.creates[k].owner = u
          /\ Discovery(cts[k]) \in FoundNote /\ Discovery(cts[k]).leafIndex = next + k - 1

LEMMA CtsLogged ==
    ASSUME NEW tx, OrderSealed(tx), NEW next \in Nat
    PROVE  AreLogged(LoggedCts(tx, next), tx, next)
<1>. DEFINE n == Len(tx.creates)
            cts == LoggedCts(tx, next)
<1>1. /\ n \in 0 .. 2 /\ DOMAIN tx.creates = 1 .. n
      /\ \A k \in 1 .. n : tx.creates[k] \in NoteSet /\ tx.noteCts[k] = Sealed(tx.creates[k].owner, tx.creates[k])
    BY DEF OrderSealed, Methods
<1>. HIDE DEF n
<1>2. \A k \in 1 .. n : cts[k] = [leafIndex |-> next + k - 1, sealed |-> tx.noteCts[k]]
    BY <1>1 DEF LoggedCts
<1>3. Len(cts) = n
    <2>1. cts \in [1 .. n -> {cts[k] : k \in 1 .. n}] /\ n \in Nat
        BY <1>1, SMTT(30) DEF LoggedCts
    <2>. QED BY <2>1, FunctionsAreSequences
<1>4. ASSUME NEW k \in 1 .. n
      PROVE  /\ cts[k].sealed.payload = tx.creates[k]
             /\ \A u : Opens(u, cts[k]) <=> tx.creates[k].owner = u
             /\ Discovery(cts[k]) \in FoundNote /\ Discovery(cts[k]).leafIndex = next + k - 1
    <2>1. cts[k].leafIndex = next + k - 1 /\ cts[k].sealed = tx.noteCts[k]
        <3>1. cts[k] = [leafIndex |-> next + k - 1, sealed |-> tx.noteCts[k]]
            BY <1>2
        <3>. QED BY <3>1
    <2>2. cts[k].sealed.holder = tx.creates[k].owner /\ cts[k].sealed.payload = tx.creates[k]
        <3>1. tx.noteCts[k] = Sealed(tx.creates[k].owner, tx.creates[k])
            BY <1>1
        <3>. QED BY <2>1, <3>1 DEF Sealed
    <2>3. next + k - 1 \in Nat
        BY <1>1
    <2>4. Discovery(cts[k]) = [leafIndex |-> next + k - 1, note |-> tx.creates[k]]
        BY <2>1, <2>2 DEF Discovery
    <2>. QED BY <1>1, <2>2, <2>3, <2>4 DEF Opens, FoundNote
<1>. HIDE DEF cts
<1>5. AreLogged(cts, tx, next)
    BY <1>1, <1>3, <1>4 DEF n, AreLogged
<1>. QED BY <1>5 DEF cts

(* Scanning what an order creates adds as much to the two balances, at     *)
(* most: nobody finds what is another's. *)
LEMMA ScansHold ==
    ASSUME WalletsTyped, NEW tx, NEW next, NEW cts, AreLogged(cts, tx, next),
           NEW x, x = Balance(Scan(wallets["alice"], "alice", cts)),
           NEW y, y = Balance(Scan(wallets["bob"], "bob", cts))
    PROVE  /\ x \in Nat /\ y \in Nat
           /\ Len(tx.creates) = 0 => x + y <= Held
           /\ Len(tx.creates) = 1 => x + y <= Held + tx.creates[1].amount
           /\ Len(tx.creates) = 2 => x + y <= Held + tx.creates[1].amount + tx.creates[2].amount
<1>1. /\ Len(cts) = Len(tx.creates) /\ Len(cts) \in 0 .. 2
      /\ \A k \in 1 .. Len(cts) :
            /\ tx.creates[k] \in NoteSet /\ cts[k].sealed.payload = tx.creates[k]
            /\ \A u : Opens(u, cts[k]) <=> tx.creates[k].owner = u
            /\ Discovery(cts[k]) \in FoundNote /\ Discovery(cts[k]).leafIndex = next + k - 1
    BY DEF AreLogged
<1>2. \A u : OpensInto(u, cts, FoundNote)
    BY <1>1 DEF OpensInto
<1>3. wallets["alice"] \in WalletSet /\ wallets["bob"] \in WalletSet
    BY DEF WalletsTyped, Users
<1>4. x \in Nat /\ y \in Nat
    <2>1. Len(cts) \in Nat
        BY <1>1
    <2>. QED BY <1>2, <1>3, <2>1, ScanKeepsWallet, BalanceIsNat DEF WalletSet
<1>. DEFINE b == Balance(wallets["alice"])
            c == Balance(wallets["bob"])
<1>5. b \in Nat /\ c \in Nat /\ Held = b + c
    BY BalancesAreHeld DEF Held
<1>6. \A k \in 1 .. Len(cts) :
         /\ Gain("alice", cts[k]) \in Nat /\ Gain("bob", cts[k]) \in Nat /\ tx.creates[k].amount \in Nat
         /\ Gain("alice", cts[k]) + Gain("bob", cts[k]) <= tx.creates[k].amount
    <2>. SUFFICES ASSUME NEW k \in 1 .. Len(cts)
                  PROVE  /\ Gain("alice", cts[k]) \in Nat /\ Gain("bob", cts[k]) \in Nat
                         /\ tx.creates[k].amount \in Nat
                         /\ Gain("alice", cts[k]) + Gain("bob", cts[k]) <= tx.creates[k].amount
        OBVIOUS
    <2>. DEFINE a == tx.creates[k].amount
    <2>1. a \in Nat
        BY <1>1 DEF NoteSet
    <2>2. \A u : Gain(u, cts[k]) = IF tx.creates[k].owner = u THEN a ELSE 0
        BY <1>1 DEF Gain
    <2>. QED BY <2>1, <2>2
<1>7. /\ Len(cts) = 0 => x <= b /\ y <= c
      /\ Len(cts) = 1 => x <= b + Gain("alice", cts[1]) /\ y <= c + Gain("bob", cts[1])
      /\ Len(cts) = 2 => /\ x <= b + Gain("alice", cts[1]) + Gain("alice", cts[2])
                         /\ y <= c + Gain("bob", cts[1]) + Gain("bob", cts[2])
    BY <1>1, <1>2, <1>3, ScanGains
<1>. HIDE DEF b, c
<1>8. CASE Len(cts) = 0
    BY <1>1, <1>4, <1>5, <1>7, <1>8
<1>9. CASE Len(cts) = 1
    <2>1. 1 \in 1 .. Len(cts)
        BY <1>9
    <2>2. /\ Gain("alice", cts[1]) \in Nat /\ Gain("bob", cts[1]) \in Nat /\ tx.creates[1].amount \in Nat
          /\ Gain("alice", cts[1]) + Gain("bob", cts[1]) <= tx.creates[1].amount
        BY <1>6, <2>1
    <2>. QED BY <1>1, <1>4, <1>5, <1>7, <1>9, <2>2
<1>10. CASE Len(cts) = 2
    <2>1. 1 \in 1 .. Len(cts) /\ 2 \in 1 .. Len(cts)
        BY <1>10
    <2>2. /\ Gain("alice", cts[1]) \in Nat /\ Gain("bob", cts[1]) \in Nat /\ tx.creates[1].amount \in Nat
          /\ Gain("alice", cts[1]) + Gain("bob", cts[1]) <= tx.creates[1].amount
          /\ Gain("alice", cts[2]) \in Nat /\ Gain("bob", cts[2]) \in Nat /\ tx.creates[2].amount \in Nat
          /\ Gain("alice", cts[2]) + Gain("bob", cts[2]) <= tx.creates[2].amount
        BY <1>6, <2>1
    <2>3. x + y <= Held + tx.creates[1].amount + tx.creates[2].amount
        BY <1>4, <1>5, <1>7, <1>10, <2>2
    <2>. QED BY <1>1, <1>4, <1>10, <2>3
<1>. QED BY <1>1, <1>8, <1>9, <1>10

ArePast(notes, next) == \A k \in DOMAIN notes : notes[k].leafIndex < next

(* And they are found behind the notes there are, in the log's order. *)
LEMMA ScanKeepsOrder ==
    ASSUME NEW tx, NEW next \in Nat, NEW cts, AreLogged(cts, tx, next),
           NEW u, NEW w \in WalletSet, InLeafOrder(w.notes), ArePast(w.notes, next)
    PROVE  InLeafOrder(Scan(w, u, cts).notes)
<1>. DEFINE found == ScanNotes(u, cts)
            notes == Scan(w, u, cts).notes
<1>1. /\ Len(cts) \in Nat
      /\ \A k \in 1 .. Len(cts) : Discovery(cts[k]) \in FoundNote /\ Discovery(cts[k]).leafIndex = next + k - 1
    BY DEF AreLogged
<1>2. OpensInto(u, cts, FoundNote)
    BY <1>1 DEF OpensInto
<1>3. notes = w.notes \o found /\ found \in Seq(FoundNote) /\ w.notes \in Seq(FoundNote)
    <2>1. notes = w.notes \o found /\ found \in Seq(FoundNote)
        <3>1. /\ Scan(w, u, cts).notes = w.notes \o ScanNotes(u, cts)
              /\ ScanNotes(u, cts) \in Seq(FoundNote)
            <4>. HIDE DEF found, notes
            <4>1. Len(cts) \in Nat
                BY <1>1
            <4>. QED BY <1>2, <4>1, ScanKeepsWallet DEF WalletSet
        <3>. QED BY <3>1
    <2>. QED BY <2>1 DEF WalletSet, WalletsOf
<1>4. FoundAmong(found, u, cts, Len(cts))
    BY <1>1, ScanFindsWhatOpens
<1>5. \A j \in DOMAIN found : \E k \in 1 .. Len(cts) : found[j] = Discovery(cts[k])
    BY <1>1, ScanFindsOnly
<1>6. \A i, j \in DOMAIN found : i < j =>
          \E k, l \in 1 .. Len(cts) : k < l /\ found[i] = Discovery(cts[k]) /\ found[j] = Discovery(cts[l])
    BY <1>4 DEF FoundAmong
<1>. HIDE DEF found, notes
<1>7. /\ DOMAIN notes = 1 .. Len(w.notes) + Len(found) /\ DOMAIN w.notes = 1 .. Len(w.notes)
      /\ DOMAIN found = 1 .. Len(found) /\ Len(w.notes) \in Nat /\ Len(found) \in Nat
      /\ \A i \in 1 .. Len(w.notes) : notes[i] = w.notes[i] /\ w.notes[i].leafIndex \in Nat
      /\ \A i \in 1 .. Len(found) : notes[Len(w.notes) + i] = found[i]
    <2>1. \A i \in 1 .. Len(w.notes) : w.notes[i] \in FoundNote
        BY <1>3
    <2>2. \A i \in 1 .. Len(w.notes) : w.notes[i].leafIndex \in Nat
        BY <2>1 DEF FoundNote
    <2>. QED BY <1>3, <2>2
<1>8. ASSUME NEW i \in DOMAIN notes, NEW j \in DOMAIN notes, i < j
      PROVE  notes[i].leafIndex < notes[j].leafIndex
    <2>1. CASE j <= Len(w.notes)
        <3>1. i \in DOMAIN w.notes /\ j \in DOMAIN w.notes /\ notes[i] = w.notes[i] /\ notes[j] = w.notes[j]
            BY <1>7, <1>8, <2>1
        <3>. QED BY <1>8, <3>1 DEF InLeafOrder
    <2>2. CASE i <= Len(w.notes) /\ ~ (j <= Len(w.notes))
        <3>1. /\ i \in DOMAIN w.notes /\ notes[i] = w.notes[i] /\ w.notes[i].leafIndex \in Nat
              /\ j - Len(w.notes) \in DOMAIN found /\ notes[j] = found[j - Len(w.notes)]
            BY <1>7, <2>2, SMTT(30)
        <3>2. PICK k \in 1 .. Len(cts) : found[j - Len(w.notes)] = Discovery(cts[k])
            BY <1>5, <3>1
        <3>3. notes[i].leafIndex < next /\ notes[j].leafIndex = next + k - 1
            BY <1>1, <3>1, <3>2 DEF ArePast
        <3>4. k \in Nat /\ k >= 1 /\ notes[i].leafIndex \in Nat
            BY <1>1, <3>1
        <3>. QED BY <3>3, <3>4
    <2>3. CASE ~ (i <= Len(w.notes)) /\ ~ (j <= Len(w.notes))
        <3>. DEFINE m == Len(w.notes)
        <3>0. /\ i \in Nat /\ j \in Nat /\ m \in Nat /\ i - m \in 1 .. Len(found) /\ j - m \in 1 .. Len(found)
              /\ i = m + (i - m) /\ j = m + (j - m) /\ i - m < j - m
            <4>1. i \in 1 .. m + Len(found) /\ j \in 1 .. m + Len(found) /\ m \in Nat /\ Len(found) \in Nat
                BY <1>7, <1>8
            <4>2. m < i /\ m < j
                BY <2>3, <4>1
            <4>. HIDE DEF m
            <4>. QED BY <1>8, <4>1, <4>2
        <3>4. \A x \in 1 .. Len(found) : notes[m + x] = found[x]
            BY <1>7
        <3>. HIDE DEF m
        <3>5. notes[i] = found[i - m] /\ notes[j] = found[j - m]
            BY <3>0, <3>4
        <3>1. /\ i - Len(w.notes) \in DOMAIN found /\ notes[i] = found[i - Len(w.notes)]
              /\ j - Len(w.notes) \in DOMAIN found /\ notes[j] = found[j - Len(w.notes)]
              /\ i - Len(w.notes) < j - Len(w.notes)
            BY <1>7, <3>0, <3>5 DEF m
        <3>2. PICK k, l \in 1 .. Len(cts) : /\ k < l /\ found[i - Len(w.notes)] = Discovery(cts[k])
                                            /\ found[j - Len(w.notes)] = Discovery(cts[l])
            BY <1>6, <3>1
        <3>3. notes[i].leafIndex = next + k - 1 /\ notes[j].leafIndex = next + l - 1
            BY <1>1, <3>1, <3>2
        <3>. QED BY <1>1, <3>2, <3>3
    <2>4. i \in Nat /\ j \in Nat
        BY <1>7
    <2>. QED BY <1>7, <1>8, <2>1, <2>2, <2>3, <2>4
<1>. QED BY <1>8 DEF InLeafOrder, notes

(* What marking takes off a scanned wallet. *)
LEMMA MarkedAfterScan ==
    ASSUME NEW tx, NEW next, NEW cts, AreLogged(cts, tx, next), NEW u, NEW w \in WalletSet,
           NEW ls \in Seq(Nat), NEW s, s = Scan(w, u, cts), NEW v, v = MarkSpent(s, ls)
    PROVE  /\ s \in WalletSet /\ v \in WalletSet /\ v.notes = s.notes
           /\ Balance(s) \in Nat /\ Balance(v) \in Nat /\ Balance(v) <= Balance(s)
           /\ \A p, q \in UnspentOf(w) :
                 p # q /\ w.notes[p].leafIndex \in Range(ls) /\ w.notes[q].leafIndex \in Range(ls) =>
                    Balance(v) + w.notes[p].note.amount + w.notes[q].note.amount <= Balance(s)
<1>1. /\ Len(cts) \in Nat
      /\ \A k \in 1 .. Len(cts) : Discovery(cts[k]) \in FoundNote
    BY DEF AreLogged
<1>2. OpensInto(u, cts, FoundNote)
    BY <1>1 DEF OpensInto
<1>3. /\ s \in WalletSet /\ s.spent = w.spent /\ s.notes = w.notes \o ScanNotes(u, cts)
      /\ ScanNotes(u, cts) \in Seq(FoundNote) /\ w.notes \in Seq(FoundNote)
    <2>1. w.notes \in Seq(FoundNote)
        BY DEF WalletSet, WalletsOf
    <2>2. w \in WalletsOf(FoundNote, Nat)
        BY DEF WalletSet
    <2>3. /\ Scan(w, u, cts) \in WalletsOf(FoundNote, Nat)
          /\ Scan(w, u, cts).spent = w.spent
          /\ Scan(w, u, cts).notes = w.notes \o ScanNotes(u, cts)
          /\ ScanNotes(u, cts) \in Seq(FoundNote)
        BY <1>1, <1>2, <2>2, ScanKeepsWallet, Zenon
    <2>. QED BY <2>1, <2>3, Zenon DEF WalletSet
<1>4. v \in WalletSet /\ v.notes = s.notes /\ v.spent = s.spent \cup Range(ls)
    BY <1>3, MarkKeepsNotes, SMTT(30) DEF WalletSet
<1>5. Balance(s) \in Nat /\ Balance(v) \in Nat
    BY <1>3, <1>4, BalanceIsNat
<1>6. \A p \in UnspentOf(w) : p \in UnspentOf(s) /\ s.notes[p] = w.notes[p]
    <2>. DEFINE found == ScanNotes(u, cts)
    <2>. HIDE DEF found
    <2>1. s.notes = w.notes \o found /\ found \in Seq(FoundNote)
        BY <1>3 DEF found
    <2>2. \A p \in DOMAIN w.notes : p \in DOMAIN s.notes /\ s.notes[p] = w.notes[p]
        BY <1>3, <2>1
    <2>. QED BY <1>3, <2>2 DEF UnspentOf, IsUnspent
<1>7. w.spent \cup Range(ls) = v.spent /\ s.spent \subseteq v.spent
    BY <1>3, <1>4
<1>8. /\ Balance(v) <= Balance(s)
      /\ \A p, q \in UnspentOf(s) :
            p # q /\ s.notes[p].leafIndex \in v.spent /\ s.notes[q].leafIndex \in v.spent =>
               Balance(v) + s.notes[p].note.amount + s.notes[q].note.amount <= Balance(s)
    BY <1>3, <1>4, <1>7, MarkTakes
<1>9. ASSUME NEW p \in UnspentOf(w), NEW q \in UnspentOf(w), p # q,
             w.notes[p].leafIndex \in Range(ls), w.notes[q].leafIndex \in Range(ls)
      PROVE  Balance(v) + w.notes[p].note.amount + w.notes[q].note.amount <= Balance(s)
    <2>1. /\ p \in UnspentOf(s) /\ s.notes[p] = w.notes[p]
          /\ q \in UnspentOf(s) /\ s.notes[q] = w.notes[q]
        BY <1>6
    <2>. QED BY <1>7, <1>8, <1>9, <2>1
<1>. QED BY <1>3, <1>4, <1>5, <1>8, <1>9

LEMMA LandKeepsFunds ==
    ASSUME PathInv, NotesInv, CallInv, FundsInv, Land
    PROVE  Held' < 2 ^ RANGE_BITS /\ LeavesInOrder'
<1>. DEFINE o == job.order
            tx == o.tx
            next == tree.next_index
            cts == LoggedCts(tx, next)
            S(u) == Scan(wallets[u], u, cts)
            M(u) == MarkSpent(S(u), tx.spends)
            V(u) == IF u = o.user THEN M(u) ELSE S(u)
<1>1. /\ OrderSealed(tx) /\ tx.spends \in Seq(Nat) /\ o.user \in Users /\ job.at = "built"
      /\ OrderMade(o) /\ OrderReady(o, wallets) /\ WalletsTyped
    BY DEF Land, NotesInv, JobTyped, OrderTyped, OrderSealed, CallInv, JobMade, IsMade, FundsInv,
           JobReady, IsReady
<1>2. next \in Nat /\ \A u \in Users : ArePast(wallets[u].notes, next)
    <2>1. PICK T : leaves \in Seq(T) /\ next = Len(leaves)
        BY DEF PathInv, TreeFollows, Agrees
    <2>. HIDE DEF next
    <2>. QED BY <2>1 DEF ArePast, NotesInv, NotesAtTheirLeaves, AtItsLeaf
<1>3. AreLogged(cts, tx, next)
    BY <1>1, <1>2, CtsLogged
<1>4. wallets' = [u \in Users |-> V(u)]
    BY Zenon DEF Land, LoggedCts
<1>. HIDE DEF cts, next, tx, o
<1>5. ASSUME NEW u \in Users
      PROVE  /\ S(u) \in WalletSet /\ M(u) \in WalletSet /\ M(u).notes = S(u).notes
             /\ Balance(S(u)) \in Nat /\ Balance(M(u)) \in Nat /\ Balance(M(u)) <= Balance(S(u))
             /\ \A p, q \in UnspentOf(wallets[u]) :
                   p # q /\ wallets[u].notes[p].leafIndex \in Range(tx.spends)
                         /\ wallets[u].notes[q].leafIndex \in Range(tx.spends) =>
                      Balance(M(u)) + wallets[u].notes[p].note.amount + wallets[u].notes[q].note.amount
                         <= Balance(S(u))
             /\ InLeafOrder(S(u).notes)
    <2>1. wallets[u] \in WalletSet /\ InLeafOrder(wallets[u].notes)
        BY <1>1 DEF WalletsTyped, FundsInv, LeavesInOrder
    <2>2. InLeafOrder(S(u).notes)
        BY <1>2, <1>3, <2>1, ScanKeepsOrder
    <2>. DEFINE w == wallets[u]
                s == S(u)
                v == M(u)
    <2>3. s = Scan(w, u, cts) /\ v = MarkSpent(s, tx.spends) /\ w \in WalletSet
        BY <2>1
    <2>. HIDE DEF w, s, v
    <2>4. /\ s \in WalletSet /\ v \in WalletSet /\ v.notes = s.notes
          /\ Balance(s) \in Nat /\ Balance(v) \in Nat /\ Balance(v) <= Balance(s)
          /\ \A p, q \in UnspentOf(w) :
                p # q /\ w.notes[p].leafIndex \in Range(tx.spends)
                      /\ w.notes[q].leafIndex \in Range(tx.spends) =>
                   Balance(v) + w.notes[p].note.amount + w.notes[q].note.amount <= Balance(s)
        <3>. DEFINE ls == tx.spends
        <3>1. ls \in Seq(Nat)
            BY <1>1
        <3>. HIDE DEF ls
        <3>2. s = Scan(w, u, cts) /\ v = MarkSpent(s, ls)
            BY <2>3 DEF ls
        <3>3. /\ s \in WalletSet /\ v \in WalletSet /\ v.notes = s.notes
              /\ Balance(s) \in Nat /\ Balance(v) \in Nat /\ Balance(v) <= Balance(s)
              /\ \A p, q \in UnspentOf(w) :
                    p # q /\ w.notes[p].leafIndex \in Range(ls) /\ w.notes[q].leafIndex \in Range(ls) =>
                       Balance(v) + w.notes[p].note.amount + w.notes[q].note.amount <= Balance(s)
            BY <1>3, <2>3, <3>1, <3>2, MarkedAfterScan
        <3>. QED BY <3>3 DEF ls
    <2>. QED BY <2>2, <2>4 DEF s, v, w
<1>6. LeavesInOrder'
    <2>1. \A u \in Users : V(u).notes = S(u).notes
        BY <1>5
    <2>. HIDE DEF V, S
    <2>. QED BY <1>4, <1>5, <2>1 DEF LeavesInOrder
<1>7. Held' = Balance(V("alice")) + Balance(V("bob"))
    <2>. HIDE DEF V
    <2>. QED BY <1>4 DEF Held, Users
<1>. DEFINE x == Balance(S("alice"))
            y == Balance(S("bob"))
            a == Balance(V("alice"))
            b == Balance(V("bob"))
<1>8. /\ x \in Nat /\ y \in Nat
      /\ Len(tx.creates) = 0 => x + y <= Held
      /\ Len(tx.creates) = 1 => x + y <= Held + tx.creates[1].amount
      /\ Len(tx.creates) = 2 => x + y <= Held + tx.creates[1].amount + tx.creates[2].amount
    BY <1>1, <1>3, ScansHold
<1>9. a \in Nat /\ b \in Nat /\ a <= x /\ b <= y
    <2>1. \A u \in Users : /\ Balance(V(u)) \in Nat /\ Balance(V(u)) <= Balance(S(u))
        <3>. SUFFICES ASSUME NEW u \in Users
                      PROVE  Balance(V(u)) \in Nat /\ Balance(V(u)) <= Balance(S(u))
            OBVIOUS
        <3>1. V(u) = M(u) \/ V(u) = S(u)
            OBVIOUS
        <3>. HIDE DEF V, M, S
        <3>. QED BY <1>5, <3>1
    <2>. HIDE DEF V, S
    <2>. QED BY <2>1 DEF Users
<1>10. Held \in Nat /\ Held + Pending(job) < 2 ^ RANGE_BITS /\ 2 ^ RANGE_BITS \in Nat
    BY <1>1, BalancesAreHeld, RangeFits DEF FundsInv, HeldFits
<1>11. CASE tx.method = "deposit"
    <2>1. Pending(job) = tx.amount /\ InRange(tx.amount)
        BY <1>1, <1>11 DEF Pending, OrderMade, tx, o
    <2>2. tx.creates[1].amount = tx.amount /\ Len(tx.creates) = 1
        <3>1. tx.creates = <<Note(tx.amount, o.user, tx.auditors[1])>>
            BY <1>1, <1>11 DEF OrderMade, tx
        <3>. QED BY <3>1 DEF Note
    <2>3. tx.amount \in Nat
        BY <2>1 DEF InRange
    <2>4. x + y <= Held + tx.amount
        BY <1>8, <2>2
    <2>. HIDE DEF a, b, x, y
    <2>5. a + b < 2 ^ RANGE_BITS
        BY <1>8, <1>9, <1>10, <2>1, <2>3, <2>4
    <2>. QED BY <1>6, <1>7, <2>5 DEF a, b
<1>12. CASE tx.method = "withdraw"
    <2>1. Len(tx.creates) = 0 /\ Pending(job) = 0
        BY <1>1, <1>12 DEF OrderSealed, Pending, tx, o
    <2>. HIDE DEF a, b, x, y
    <2>2. a + b < 2 ^ RANGE_BITS
        BY <1>8, <1>9, <1>10, <2>1
    <2>. QED BY <1>6, <1>7, <2>2 DEF a, b
<1>13. CASE tx.method = "transfer"
    <2>1. Len(tx.creates) = 2 /\ Pending(job) = 0
        BY <1>1, <1>13 DEF OrderSealed, Pending, tx, o
    <2>2. IsBacked(o, wallets) /\ TransferReady(o)
        BY <1>1, <1>13 DEF OrderReady, tx
    <2>. DEFINE w == wallets[o.user]
    <2>3. PICK p, q \in UnspentOf(w) :
              /\ p # q /\ o.inputs[1] = w.notes[p] /\ o.inputs[2] = w.notes[q]
              /\ tx.spends = <<o.inputs[1].leafIndex, o.inputs[2].leafIndex>>
        BY <2>2 DEF IsBacked, tx
    <2>. DEFINE m == w.notes[p].note.amount
                n == w.notes[q].note.amount
                c == tx.creates[1].amount
                d == tx.creates[2].amount
    <2>4. m \in Nat /\ n \in Nat
        <3>1. p \in DOMAIN w.notes /\ q \in DOMAIN w.notes /\ w.notes \in Seq(FoundNote)
            BY <1>1 DEF UnspentOf, WalletsTyped, WalletSet, WalletsOf
        <3>2. w.notes[p] \in FoundNote /\ w.notes[q] \in FoundNote
            BY <3>1
        <3>. QED BY <3>2 DEF FoundNote, NoteSet
    <2>5. c \in Nat /\ d \in Nat /\ c + d = m + n
        <3>1. c + d = o.inputs[1].note.amount + o.inputs[2].note.amount
            BY <2>2 DEF TransferReady, tx
        <3>2. tx.creates[1] \in NoteSet /\ tx.creates[2] \in NoteSet
            BY <1>1, <2>1 DEF OrderSealed
        <3>. QED BY <2>3, <3>1, <3>2 DEF NoteSet
    <2>6. w.notes[p].leafIndex \in Range(tx.spends) /\ w.notes[q].leafIndex \in Range(tx.spends)
        <3>1. \A i, j : i \in Range(<<i, j>>) /\ j \in Range(<<i, j>>)
            BY DEF Range
        <3>. QED BY <2>3, <3>1
    <2>7. Balance(M(o.user)) + m + n <= Balance(S(o.user)) /\ V(o.user) = M(o.user)
        <3>. HIDE DEF M, S
        <3>. QED BY <1>1, <1>5, <2>3, <2>6
    <2>8. o.user = "alice" \/ o.user = "bob"
        BY <1>1 DEF Users
    <2>9. a + m + n <= x \/ b + m + n <= y
        <3>. HIDE DEF M, S, V, m, n
        <3>. QED BY <2>7, <2>8 DEF a, b, x, y
    <2>. HIDE DEF a, b, x, y, m, n, c, d
    <2>10. x + y <= Held + c + d
        BY <1>8, <2>1 DEF c, d
    <2>11. a + b < 2 ^ RANGE_BITS
        BY <1>8, <1>9, <1>10, <2>1, <2>4, <2>5, <2>9, <2>10
    <2>. QED BY <1>6, <1>7, <2>11 DEF a, b
<1>. QED BY <1>1, <1>11, <1>12, <1>13 DEF OrderSealed, Methods, tx

LEMMA FundsStay ==
    ASSUME wallets' = wallets, LeavesInOrder, IsReady(job', wallets), Held + Pending(job') < 2 ^ RANGE_BITS
    PROVE  FundsInv'
<1>. DEFINE j == job'
<1>1. Held' = Held /\ LeavesInOrder'
    BY DEF Held, LeavesInOrder
<1>2. JobReady'
    BY DEF JobReady
<1>3. HeldFits'
    BY <1>1 DEF HeldFits
<1>. QED BY <1>1, <1>2, <1>3 DEF FundsInv

LEMMA FundsSteps ==
    ASSUME PathInv, NotesInv, CallInv, FundsInv, Next
    PROVE  FundsInv'
<1>1. /\ LeavesInOrder /\ JobReady /\ Held + Pending(job) < 2 ^ RANGE_BITS
      /\ TreeFollows /\ WalletsTyped /\ Held \in Nat /\ 2 ^ RANGE_BITS \in Nat
    BY BalancesAreHeld, RangeFits DEF FundsInv, HeldFits, PathInv, NotesInv
<1>2. Pending(job) \in Nat
    BY DEF Pending, CallInv, JobMade, IsMade, OrderMade, InRange
<1>3. Held < 2 ^ RANGE_BITS
    BY <1>1, <1>2
<1>4. \A j : j.at = "requested" /\ OrderReady(j.order, wallets) => IsReady(j, wallets)
    BY DEF IsReady
<1>5. ASSUME NEW auditor, NEW amount, RequestDeposit(amount, auditor) PROVE FundsInv'
    <2>1. OrderReady(job'.order, wallets) /\ Held + Pending(job') < 2 ^ RANGE_BITS
        BY <1>5, DepositIsReady
    <2>2. job'.at = "requested" /\ wallets' = wallets
        BY <1>5 DEF RequestDeposit, Request
    <2>. QED BY <1>1, <1>4, <2>1, <2>2, FundsStay
<1>6. ASSUME NEW auditor, NEW u \in Users, NEW v, NEW amount \in Amounts,
             RequestTransfer(u, amount, v, auditor)
      PROVE  FundsInv'
    <2>1. OrderReady(job'.order, wallets) /\ Pending(job') = 0
        BY <1>1, <1>3, <1>6, TransferIsReady
    <2>2. job'.at = "requested" /\ wallets' = wallets
        BY <1>6 DEF RequestTransfer, Request
    <2>3. Held + Pending(job') < 2 ^ RANGE_BITS
        BY <1>1, <1>3, <2>1
    <2>. QED BY <1>1, <1>4, <2>1, <2>2, <2>3, FundsStay
<1>7. ASSUME NEW u \in Users, NEW amount \in Amounts, RequestWithdraw(u, amount) PROVE FundsInv'
    <2>1. OrderReady(job'.order, wallets) /\ Pending(job') = 0
        BY <1>1, <1>7, WithdrawIsReady
    <2>2. job'.at = "requested" /\ wallets' = wallets
        BY <1>7 DEF RequestWithdraw, Request
    <2>3. Held + Pending(job') < 2 ^ RANGE_BITS
        BY <1>1, <1>3, <2>1
    <2>. QED BY <1>1, <1>4, <2>1, <2>2, <2>3, FundsStay
<1>8. CASE ReturnProved \/ ReturnPlaceholder
    <2>1. job'.order = job.order /\ job'.at = "built" /\ job.at = "requested" /\ wallets' = wallets
        BY <1>8 DEF ReturnProved, ReturnPlaceholder, Return
    <2>2. IsReady(job', wallets) /\ Pending(job') = Pending(job)
        BY <1>1, <2>1 DEF JobReady, IsReady, Pending
    <2>3. Held + Pending(job') < 2 ^ RANGE_BITS
        BY <1>1, <2>2
    <2>. QED BY <1>1, <2>1, <2>2, <2>3, FundsStay
<1>9. job'.at = "idle" => IsReady(job', wallets) /\ Pending(job') = 0
    BY DEF IsReady, Pending
<1>10. CASE NotProvable \/ Refuse
    <2>1. job'.at = "idle" /\ wallets' = wallets
        BY <1>10 DEF NotProvable, Refuse, Idle
    <2>2. Held + Pending(job') < 2 ^ RANGE_BITS
        BY <1>1, <1>3, <1>9, <2>1
    <2>. QED BY <1>1, <1>9, <2>1, <2>2, FundsStay
<1>11. CASE Land
    <2>1. Held' < 2 ^ RANGE_BITS /\ LeavesInOrder' /\ Held' \in Nat
        <3>1. WalletsTyped'
            BY <1>11, LandKeepsNotes
        <3>2. Balance(wallets'["alice"]) \in Nat /\ Balance(wallets'["bob"]) \in Nat
            <4>1. wallets'["alice"] \in WalletSet /\ wallets'["bob"] \in WalletSet
                BY <3>1 DEF WalletsTyped, Users
            <4>. QED BY <4>1, BalanceIsNat
        <3>3. Held' \in Nat
            BY <3>2 DEF Held
        <3>. QED BY <1>11, <3>3, LandKeepsFunds
    <2>2. job'.at = "idle"
        BY <1>11 DEF Land, Idle
    <2>3. JobReady'
        BY <2>2 DEF JobReady, IsReady
    <2>4. HeldFits'
        <3>1. Held' + Pending(job') < 2 ^ RANGE_BITS
            BY <1>9, <2>1, <2>2
        <3>. QED BY <3>1 DEF HeldFits
    <2>. QED BY <2>1, <2>3, <2>4 DEF FundsInv
<1>12. CASE StrangerDeposits
    <2>1. job' = job /\ wallets' = wallets
        BY <1>12 DEF StrangerDeposits
    <2>. QED BY <1>1, <2>1, FundsStay DEF JobReady
<1>. QED BY <1>5, <1>6, <1>7, <1>8, <1>10, <1>11, <1>12 DEF Next

LEMMA FundsStart == ASSUME Init PROVE FundsInv
<1>1. job = Idle /\ wallets = [u \in Users |-> NewWallet]
    BY DEF Init
<1>2. JobReady /\ Pending(job) = 0
    BY <1>1 DEF Idle, JobReady, IsReady, Pending
<1>3. LeavesInOrder
    BY <1>1 DEF LeavesInOrder, InLeafOrder, NewWallet
<1>4. Balance(NewWallet) = 0
    <2>. DEFINE f == [k \in DOMAIN NewWallet.notes |-> NewWallet.notes[k].note.amount]
                D == {k \in DOMAIN NewWallet.notes : IsUnspent(NewWallet, k)}
    <2>1. Balance(NewWallet) = SumFunctionOnSet(f, D)
        BY DEF Balance
    <2>2. D = {}
        BY DEF NewWallet
    <2>. HIDE DEF f, D
    <2>. QED BY <2>1, <2>2, SumEmpty
<1>5. Held = 0
    BY <1>1, <1>4 DEF Held, Users
<1>6. 0 < 2 ^ RANGE_BITS
    BY RangeFits
<1>. QED BY <1>2, <1>3, <1>5, <1>6 DEF FundsInv, HeldFits

LEMMA FundsAlways == E2ESpec => []FundsInv
<1>1. E2EInit => FundsInv
    BY FundsStart DEF E2EInit
<1>2. E2EInv /\ NotesInv /\ CallInv /\ FundsInv /\ [E2ENext]_<<vars, left>> => FundsInv'
    <2>. SUFFICES ASSUME E2EInv, NotesInv, CallInv, FundsInv, [E2ENext]_<<vars, left>> PROVE FundsInv'
        OBVIOUS
    <2>1. CASE wallets' = wallets /\ job' = job
        <3>1. LeavesInOrder /\ IsReady(job', wallets) /\ Held + Pending(job') < 2 ^ RANGE_BITS
            BY <2>1 DEF FundsInv, JobReady, HeldFits
        <3>. QED BY <2>1, <3>1, FundsStay
    <2>2. CASE Next
        BY <2>2, FundsSteps DEF E2EInv
    <2>. QED BY <2>1, <2>2 DEF E2ENext, Replay, vars
<1>. QED BY <1>1, <1>2, TreeFollowsAlways, NotesAlways, CallInvAlways, PTL DEF E2ESpec

------------------------------------------------------------------------------
(* What the prover is given, by the names of the circuits' signals. *)

(* Every witness goes by a name of its own, of a private signal, and every *)
(* private signal has one. *)
LEMMA RenamesAreDistinct ==
    ASSUME NEW circuit \in Methods
    PROVE  /\ \A i, j \in WitnessKeys(circuit) : RenamedTo(circuit, i) = RenamedTo(circuit, j) => i = j
           /\ {RenamedTo(circuit, key) : key \in WitnessKeys(circuit)} = PrivateSignals[circuit]
<1>1. CASE circuit = "deposit"
    <2>1. RENAME[circuit] = <<>> /\ WitnessKeys(circuit) = {"ownerPubkey", "blinding", "viewCtHashWitness"}
        BY <1>1 DEF RENAME, WitnessKeys
    <2>2. \A key : RenamedTo(circuit, key) = key
        BY <2>1 DEF RenamedTo
    <2>3. PrivateSignals[circuit] = {"ownerPubkey", "blinding", "viewCtHashWitness"}
        BY <1>1 DEF PrivateSignals
    <2>. QED BY <2>1, <2>2, <2>3
<1>2. CASE circuit = "transfer"
    <2>1. /\ RENAME[circuit] = [in0OwnerPubkey |-> "in0Owner", in1OwnerPubkey |-> "in1Owner",
                                out0OwnerPubkey |-> "out0Owner", out1OwnerPubkey |-> "out1Owner"]
          /\ WitnessKeys(circuit) = TransferKeys
        BY <1>2 DEF RENAME, WitnessKeys
    <2>2. /\ RenamedTo(circuit, "in0OwnerPubkey") = "in0Owner"
          /\ RenamedTo(circuit, "in1OwnerPubkey") = "in1Owner"
          /\ RenamedTo(circuit, "out0OwnerPubkey") = "out0Owner"
          /\ RenamedTo(circuit, "out1OwnerPubkey") = "out1Owner"
          /\ \A key : key \notin TransferRenames => RenamedTo(circuit, key) = key
        BY <2>1 DEF RenamedTo, TransferRenames
    <2>3. PrivateSignals[circuit] = (TransferKeys \ TransferRenames) \cup {"in0Owner", "in1Owner", "out0Owner", "out1Owner"}
        BY <1>2 DEF PrivateSignals, TransferKeys, TransferRenames
    <2>4. /\ TransferRenames = {"in0OwnerPubkey", "in1OwnerPubkey", "out0OwnerPubkey", "out1OwnerPubkey"}
          /\ TransferRenames \subseteq TransferKeys
          /\ TransferKeys \cap {"in0Owner", "in1Owner", "out0Owner", "out1Owner"} = {}
        BY DEF TransferKeys, TransferRenames
    <2>5. ASSUME NEW i \in TransferKeys, NEW j \in TransferKeys, RenamedTo(circuit, i) = RenamedTo(circuit, j)
          PROVE  i = j
        BY <2>2, <2>4, <2>5
    <2>6. {RenamedTo(circuit, key) : key \in TransferKeys}
            = (TransferKeys \ TransferRenames) \cup {"in0Owner", "in1Owner", "out0Owner", "out1Owner"}
        <3>1. ASSUME NEW key \in TransferKeys
              PROVE  RenamedTo(circuit, key)
                        \in (TransferKeys \ TransferRenames) \cup {"in0Owner", "in1Owner", "out0Owner", "out1Owner"}
            <4>1. CASE key \in TransferRenames
                BY <2>2, <2>4, <4>1
            <4>2. CASE key \notin TransferRenames
                BY <2>2, <4>2
            <4>. QED BY <4>1, <4>2
        <3>2. \A x \in TransferKeys \ TransferRenames : \E key \in TransferKeys : RenamedTo(circuit, key) = x
            BY <2>2
        <3>3. \A x \in {"in0Owner", "in1Owner", "out0Owner", "out1Owner"} :
                 \E key \in TransferKeys : RenamedTo(circuit, key) = x
            <4>1. /\ "in0OwnerPubkey" \in TransferKeys /\ "in1OwnerPubkey" \in TransferKeys
                  /\ "out0OwnerPubkey" \in TransferKeys /\ "out1OwnerPubkey" \in TransferKeys
                BY DEF TransferKeys
            <4>. QED BY <2>2, <4>1
        <3>. QED BY <3>1, <3>2, <3>3
    <2>. QED BY <2>1, <2>3, <2>5, <2>6
<1>3. CASE circuit = "withdraw"
    <2>. DEFINE keys == {"noteAmount", "noteOwnerPubkey", "noteAuditorPubkey", "noteBlinding", "spendingKey",
                         "leafIndex", "merklePath", "viewCtHashWitness"}
                renamed == {"noteOwnerPubkey", "noteAuditorPubkey"}
    <2>1. /\ RENAME[circuit] = [noteOwnerPubkey |-> "noteOwner", noteAuditorPubkey |-> "noteAuditor"]
          /\ WitnessKeys(circuit) = keys
        BY <1>3 DEF RENAME, WitnessKeys
    <2>2. /\ RenamedTo(circuit, "noteOwnerPubkey") = "noteOwner"
          /\ RenamedTo(circuit, "noteAuditorPubkey") = "noteAuditor"
          /\ \A key : key \notin renamed => RenamedTo(circuit, key) = key
        BY <2>1 DEF RenamedTo
    <2>3. PrivateSignals[circuit] = (keys \ renamed) \cup {"noteOwner", "noteAuditor"}
        BY <1>3 DEF PrivateSignals
    <2>5. ASSUME NEW i \in keys, NEW j \in keys, RenamedTo(circuit, i) = RenamedTo(circuit, j)
          PROVE  i = j
        BY <2>2, <2>5
    <2>6. {RenamedTo(circuit, key) : key \in keys} = (keys \ renamed) \cup {"noteOwner", "noteAuditor"}
        BY <2>2
    <2>. QED BY <2>1, <2>3, <2>5, <2>6
<1>. QED BY <1>1, <1>2, <1>3 DEF Methods

LEMMA InputByName ==
    ASSUME NEW circuit \in Methods, NEW request, request.circuit = circuit,
           DOMAIN request.witness = WitnessKeys(circuit)
    PROVE  /\ DOMAIN CircomInput(request) = SignalNames(circuit)
           /\ \A key \in WitnessKeys(circuit) :
                 CircomInput(request)[RenamedTo(circuit, key)] = request.witness[key][2]
           /\ \A k \in DOMAIN PublicSignals[circuit] :
                 CircomInput(request)[PublicSignals[circuit][k]] = request.publicInputs[k][2]
<1>. DEFINE names == PUBLIC_NAMES[circuit]
            keys == DOMAIN request.witness
            Keys(n) == {key \in keys : RenamedTo(circuit, key) = n}
            Positions(n) == {k \in DOMAIN names : names[k] = n}
            Input(n) == IF Keys(n) # {} THEN request.witness[CHOOSE key \in Keys(n) : TRUE][2]
                        ELSE request.publicInputs[CHOOSE k \in Positions(n) : TRUE][2]
            s == CircomInput(request)
<1>1. s = [n \in Range(names) \cup {RenamedTo(circuit, key) : key \in keys} |-> Input(n)]
    BY DEF CircomInput, RenamedTo
<1>2. PublicSignals[circuit] = names
    BY PublicNamesAreDistinct
<1>3. DOMAIN s = SignalNames(circuit)
    <2>1. DOMAIN s = Range(names) \cup {RenamedTo(circuit, key) : key \in keys}
        <3>. HIDE DEF s, Input
        <3>. QED BY <1>1
    <2>2. {RenamedTo(circuit, key) : key \in keys} = PrivateSignals[circuit]
        BY RenamesAreDistinct
    <2>3. Range(names) = {names[k] : k \in DOMAIN names}
        BY DEF Range
    <2>. HIDE DEF s, names, keys
    <2>. QED BY <1>2, <2>1, <2>2, <2>3 DEF SignalNames
<1>4. ASSUME NEW key \in WitnessKeys(circuit)
      PROVE  s[RenamedTo(circuit, key)] = request.witness[key][2]
    <2>1. Keys(RenamedTo(circuit, key)) = {key}
        BY RenamesAreDistinct
    <2>2. Input(RenamedTo(circuit, key)) = request.witness[key][2]
        BY <2>1
    <2>3. RenamedTo(circuit, key) \in {RenamedTo(circuit, k) : k \in keys}
        OBVIOUS
    <2>. HIDE DEF Input, names, keys, s
    <2>. QED BY <1>1, <2>2, <2>3
<1>5. ASSUME NEW k \in DOMAIN names PROVE s[names[k]] = request.publicInputs[k][2]
    <2>1. Signals(circuit, s) = [i \in DOMAIN names |-> request.publicInputs[i][2]]
        BY <1>2, SignalsByPosition
    <2>2. Signals(circuit, s) = [i \in DOMAIN names |-> s[names[i]]]
        BY <1>2 DEF Signals
    <2>. HIDE DEF s, names
    <2>. QED BY <2>1, <2>2
<1>. HIDE DEF s, names
<1>. QED BY <1>2, <1>3, <1>4, <1>5 DEF s

LEMMA DepositSignals ==
    ASSUME NEW o, o.tx.method = "deposit", NEW s, s = CircomInput(RequestOf(o))
    PROVE  /\ Provable(RequestOf(o)) <=> Deposit(s)
           /\ s.commitment = CommitNote(o.tx.creates[1]) /\ s.amount = Field(o.tx.amount)
           /\ s.auditorPubkey = AuditorField(o.tx.auditors[1])
           /\ s.ownerPubkey = OwnerOf(o.user) /\ s.blinding = Blinding(o.tx.creates[1])
           /\ s.viewCtHash = s.viewCtHashWitness
<1>. DEFINE request == DepositRequest(o)
            c == CommitNote(o.tx.creates[1])
            d == AuditorField(o.tx.auditors[1])
            h == ViewCtHash(o.tx.viewCts[1])
            f == Field(o.tx.amount)
            g == OwnerOf(o.user)
            b == Blinding(o.tx.creates[1])
<1>1. RequestOf(o) = request
    BY DEF RequestOf
<1>2. /\ request.circuit = "deposit" /\ DOMAIN request.witness = WitnessKeys("deposit")
      /\ request.publicInputs = <<Hex(c), Hex(f), Hex(d), Hex(h)>>
      /\ request.witness["ownerPubkey"] = Hex(g) /\ request.witness["blinding"] = Hex(b)
      /\ request.witness["viewCtHashWitness"] = Hex(h)
    BY DEF DepositRequest, WitnessKeys
<1>3. \A x : Hex(x)[2] = x
    BY DEF Hex
<1>4. /\ PublicSignals["deposit"] = <<"commitment", "amount", "auditorPubkey", "viewCtHash">>
      /\ "deposit" \in Methods /\ PUBLIC_NAMES["deposit"] = PublicSignals["deposit"]
      /\ WitnessKeys("deposit") = {"ownerPubkey", "blinding", "viewCtHashWitness"}
      /\ \A key : RenamedTo("deposit", key) = key
    BY DEF PublicSignals, Methods, PUBLIC_NAMES, WitnessKeys, RenamedTo, RENAME
<1>. HIDE DEF request, c, d, h, f, g, b
<1>5. /\ DOMAIN s = SignalNames("deposit")
      /\ \A key \in WitnessKeys("deposit") : s[RenamedTo("deposit", key)] = request.witness[key][2]
      /\ \A k \in DOMAIN PublicSignals["deposit"] :
            s[PublicSignals["deposit"][k]] = request.publicInputs[k][2]
    BY <1>1, <1>2, <1>4, InputByName
<1>6. /\ s["ownerPubkey"] = g /\ s["blinding"] = b /\ s["viewCtHashWitness"] = h
    BY <1>2, <1>3, <1>4, <1>5
<1>7. s["commitment"] = c /\ s["amount"] = f /\ s["auditorPubkey"] = d /\ s["viewCtHash"] = h
    <2>1. /\ s[PublicSignals["deposit"][1]] = request.publicInputs[1][2]
          /\ s[PublicSignals["deposit"][2]] = request.publicInputs[2][2]
          /\ s[PublicSignals["deposit"][3]] = request.publicInputs[3][2]
          /\ s[PublicSignals["deposit"][4]] = request.publicInputs[4][2]
        BY <1>4, <1>5
    <2>. QED BY <1>2, <1>3, <1>4, <2>1
<1>8. Len(request.publicInputs) = 4 /\ Len(PUBLIC_NAMES["deposit"]) = 4
    BY <1>2, <1>4
<1>9. Provable(request) <=> Deposit(s)
    BY <1>1, <1>2, <1>5, <1>8 DEF Provable, Satisfies
<1>. QED BY <1>1, <1>6, <1>7, <1>9 DEF c, d, f, g, b

LEMMA DepositsAreProvable ==
    ASSUME NEW o, o.tx.method = "deposit", OrderMade(o)
    PROVE  Provable(RequestOf(o))
<1>. DEFINE s == CircomInput(RequestOf(o))
            note == o.tx.creates[1]
<1>1. o.tx.creates = <<Note(o.tx.amount, o.user, o.tx.auditors[1])>>
    BY DEF OrderMade
<1>2. note.amount = o.tx.amount /\ note.owner = o.user /\ note.auditor = o.tx.auditors[1]
    BY <1>1 DEF Note
<1>. HIDE DEF s, note
<1>3. /\ Provable(RequestOf(o)) <=> Deposit(s)
      /\ s.commitment = CommitNote(note) /\ s.amount = Field(o.tx.amount)
      /\ s.auditorPubkey = AuditorField(o.tx.auditors[1])
      /\ s.ownerPubkey = OwnerOf(o.user) /\ s.blinding = Blinding(note)
      /\ s.viewCtHash = s.viewCtHashWitness
    BY DepositSignals DEF s, note
<1>. QED BY <1>2, <1>3 DEF Deposit, CommitNote

LEMMA WithdrawSignals ==
    ASSUME NEW o, o.tx.method = "withdraw", NEW s, s = CircomInput(RequestOf(o))
    PROVE  LET note == o.inputs[1].note IN
           /\ Provable(RequestOf(o)) <=> Withdraw(s)
           /\ s.merkleRoot = o.tx.root[2] /\ s.nullifier = NullifierOf(o.user, o.inputs[1])
           /\ s.amount = Field(o.tx.amount) /\ s.relayerFee = Field(o.tx.fee)
           /\ s.auditorPubkey = AuditorField(note.auditor) /\ s.viewCtHash = s.viewCtHashWitness
           /\ s.noteAmount = Field(note.amount) /\ s.noteOwner = OwnerOf(note.owner)
           /\ s.noteAuditor = AuditorField(note.auditor) /\ s.noteBlinding = Blinding(note)
           /\ s.spendingKey = SpendingKey(o.user) /\ s.leafIndex = Field(o.inputs[1].leafIndex)
           /\ s.merklePath = o.paths[1]
<1>. DEFINE request == WithdrawRequest(o)
            note == o.inputs[1].note
            r == o.tx.root
            n == NullifierOf(o.user, o.inputs[1])
            to == HashBytes(o.recipient)
            a == Field(o.tx.amount)
            by == HashBytes(o.relayer)
            fee == Field(o.tx.fee)
            d == AuditorField(note.auditor)
            h == ViewCtHash(o.tx.viewCts[1])
            m == Field(note.amount)
            own == OwnerOf(note.owner)
            b == Blinding(note)
            key == SpendingKey(o.user)
            i == Field(o.inputs[1].leafIndex)
            p == o.paths[1]
<1>1. RequestOf(o) = request
    BY DEF RequestOf
<1>2. /\ request.circuit = "withdraw" /\ DOMAIN request.witness = WitnessKeys("withdraw")
      /\ request.publicInputs = <<r, Hex(n), Hex(to), Hex(a), Hex(by), Hex(fee), Hex(d), Hex(h)>>
      /\ request.witness["noteAmount"] = Hex(m) /\ request.witness["noteOwnerPubkey"] = Hex(own)
      /\ request.witness["noteAuditorPubkey"] = Hex(d) /\ request.witness["noteBlinding"] = Hex(b)
      /\ request.witness["spendingKey"] = Hex(key) /\ request.witness["leafIndex"] = Hex(i)
      /\ request.witness["merklePath"] = Hex(p) /\ request.witness["viewCtHashWitness"] = Hex(h)
    BY DEF WithdrawRequest, WitnessKeys
<1>3. \A x : Hex(x)[2] = x
    BY DEF Hex
<1>4. /\ PublicSignals["withdraw"] =
            <<"merkleRoot", "nullifier", "recipient", "amount", "relayer", "relayerFee",
              "auditorPubkey", "viewCtHash">>
      /\ "withdraw" \in Methods /\ PUBLIC_NAMES["withdraw"] = PublicSignals["withdraw"]
    BY DEF PublicSignals, Methods, PUBLIC_NAMES
<1>5. /\ WitnessKeys("withdraw") =
            {"noteAmount", "noteOwnerPubkey", "noteAuditorPubkey", "noteBlinding", "spendingKey",
             "leafIndex", "merklePath", "viewCtHashWitness"}
      /\ RenamedTo("withdraw", "noteOwnerPubkey") = "noteOwner"
      /\ RenamedTo("withdraw", "noteAuditorPubkey") = "noteAuditor"
      /\ \A k : k \notin {"noteOwnerPubkey", "noteAuditorPubkey"} => RenamedTo("withdraw", k) = k
    BY DEF WitnessKeys, RenamedTo, RENAME
<1>. HIDE DEF request, note, r, n, to, a, by, fee, d, h, m, own, b, key, i, p
<1>6. /\ DOMAIN s = SignalNames("withdraw")
      /\ \A k \in WitnessKeys("withdraw") : s[RenamedTo("withdraw", k)] = request.witness[k][2]
      /\ \A k \in DOMAIN PublicSignals["withdraw"] :
            s[PublicSignals["withdraw"][k]] = request.publicInputs[k][2]
    BY <1>1, <1>2, <1>4, InputByName
<1>7. /\ s["noteAmount"] = m /\ s["noteOwner"] = own /\ s["noteAuditor"] = d /\ s["noteBlinding"] = b
      /\ s["spendingKey"] = key /\ s["leafIndex"] = i /\ s["merklePath"] = p /\ s["viewCtHashWitness"] = h
    BY <1>2, <1>3, <1>5, <1>6
<1>8. /\ s["merkleRoot"] = r[2] /\ s["nullifier"] = n /\ s["amount"] = a /\ s["relayerFee"] = fee
      /\ s["auditorPubkey"] = d /\ s["viewCtHash"] = h
    <2>1. /\ s[PublicSignals["withdraw"][1]] = request.publicInputs[1][2]
          /\ s[PublicSignals["withdraw"][2]] = request.publicInputs[2][2]
          /\ s[PublicSignals["withdraw"][4]] = request.publicInputs[4][2]
          /\ s[PublicSignals["withdraw"][6]] = request.publicInputs[6][2]
          /\ s[PublicSignals["withdraw"][7]] = request.publicInputs[7][2]
          /\ s[PublicSignals["withdraw"][8]] = request.publicInputs[8][2]
        BY <1>4, <1>6
    <2>. QED BY <1>2, <1>3, <1>4, <2>1
<1>9. Len(request.publicInputs) = 8 /\ Len(PUBLIC_NAMES["withdraw"]) = 8
    BY <1>2, <1>4
<1>10. Provable(request) <=> Withdraw(s)
    BY <1>1, <1>2, <1>6, <1>9 DEF Provable, Satisfies
<1>. QED BY <1>1, <1>7, <1>8, <1>10 DEF note, r, n, a, fee, d, m, own, b, key, i, p

(* An input that is ready satisfies a circuit's part about it. *)
LEMMA ReadyIsIncluded ==
    ASSUME NEW o, NEW k, InputReady(o, k)
    PROVE  /\ OwnerOf(o.inputs[k].note.owner) = OwnerPubkey(SpendingKey(o.user))
           /\ Included(CommitNote(o.inputs[k].note), o.tx.root[2], Field(o.inputs[k].leafIndex), o.paths[k])
           /\ NullifierOf(o.user, o.inputs[k])
                = Nullifier(SpendingKey(o.user), CommitNote(o.inputs[k].note), Field(o.inputs[k].leafIndex))
<1>. DEFINE in == o.inputs[k]
<1>1. /\ in.note.owner = o.user /\ in.leafIndex < Capacity /\ in.leafIndex \in Nat
      /\ MerkleInclusion(CommitNote(in.note), o.tx.root[2], in.leafIndex, o.paths[k])
    BY DEF InputReady
<1>. HIDE DEF in
<1>2. Value(Field(in.leafIndex)) = in.leafIndex
    <2>1. in.leafIndex \in 0 .. FieldOrder - 1
        BY <1>1, LeafIndexAssumption, FieldAssumption, Widths
    <2>. QED BY <2>1, FieldOfValue
<1>3. Included(CommitNote(in.note), o.tx.root[2], Field(in.leafIndex), o.paths[k])
    BY <1>1, <1>2 DEF Included, HasBits, Capacity
<1>. QED BY <1>1, <1>3 DEF in, OwnerOf, NullifierOf

LEMMA WithdrawsAreProvable ==
    ASSUME NEW o, o.tx.method = "withdraw", OrderMade(o), WithdrawReady(o)
    PROVE  Provable(RequestOf(o)) <=> o.tx.amount < 2 ^ WITHDRAW_BITS
<1>. DEFINE s == CircomInput(RequestOf(o))
            note == o.inputs[1].note
            a == o.tx.amount
            f == o.tx.fee
<1>1. /\ Provable(RequestOf(o)) <=> Withdraw(s)
      /\ s.merkleRoot = o.tx.root[2] /\ s.nullifier = NullifierOf(o.user, o.inputs[1])
      /\ s.amount = Field(a) /\ s.relayerFee = Field(f)
      /\ s.auditorPubkey = AuditorField(note.auditor) /\ s.viewCtHash = s.viewCtHashWitness
      /\ s.noteAmount = Field(note.amount) /\ s.noteOwner = OwnerOf(note.owner)
      /\ s.noteAuditor = AuditorField(note.auditor) /\ s.noteBlinding = Blinding(note)
      /\ s.spendingKey = SpendingKey(o.user) /\ s.leafIndex = Field(o.inputs[1].leafIndex)
      /\ s.merklePath = o.paths[1]
    BY WithdrawSignals
<1>2. note.amount = a /\ InputReady(o, 1)
    BY DEF WithdrawReady
<1>3. a \in 0 .. FieldOrder - 1 /\ f \in 0 .. FieldOrder - 1 /\ f <= a /\ a \in Nat /\ f \in Nat
    <2>1. InRange(a) /\ f \in Nat /\ f <= a
        BY DEF OrderMade
    <2>2. a \in 0 .. FieldOrder - 1
        BY <2>1, RangeFits
    <2>. QED BY <2>1, <2>2, RangeFits
<1>4. /\ OwnerOf(note.owner) = OwnerPubkey(SpendingKey(o.user))
      /\ Included(CommitNote(note), o.tx.root[2], Field(o.inputs[1].leafIndex), o.paths[1])
      /\ NullifierOf(o.user, o.inputs[1])
           = Nullifier(SpendingKey(o.user), CommitNote(note), Field(o.inputs[1].leafIndex))
    BY <1>2, ReadyIsIncluded
<1>. HIDE DEF s, note, a, f
<1>5. Commitment(s.noteAmount, s.noteOwner, s.noteAuditor, s.noteBlinding) = CommitNote(note)
    BY <1>1 DEF CommitNote
<1>6. U64Geq(Field(a), Field(f)) <=> a < 2 ^ WITHDRAW_BITS
    <2>1. Value(Field(a)) = a /\ Value(Field(f)) = f /\ a - f \in 0 .. FieldOrder - 1
        BY <1>3, FieldOfValue, FieldAssumption
    <2>2. Value(Minus(Field(a), Field(f))) = a - f
        BY <2>1, FieldOfValue DEF Minus
    <2>3. U64Geq(Field(a), Field(f)) <=>
            a < 2 ^ WITHDRAW_BITS /\ f < 2 ^ WITHDRAW_BITS /\ a - f < 2 ^ WITHDRAW_BITS
        BY <2>1, <2>2 DEF U64Geq, HasBits
    <2>4. 2 ^ WITHDRAW_BITS \in Nat
        BY FieldAssumption
    <2>. QED BY <1>3, <2>3, <2>4
<1>7. Withdraw(s) <=> U64Geq(Field(a), Field(f))
    BY <1>1, <1>2, <1>4, <1>5 DEF Withdraw
<1>. QED BY <1>1, <1>6, <1>7 DEF a

LEMMA TransferSignals ==
    ASSUME NEW o, o.tx.method = "transfer", NEW s, s = CircomInput(RequestOf(o))
    PROVE  LET in == [k \in {1, 2} |-> o.inputs[k].note]
               out == o.tx.creates
           IN
           /\ Provable(RequestOf(o)) <=> Transfer(s)
           /\ s.merkleRoot = o.tx.root[2]
           /\ s.nullifier0 = NullifierOf(o.user, o.inputs[1])
           /\ s.nullifier1 = NullifierOf(o.user, o.inputs[2])
           /\ s.commitmentOut0 = CommitNote(out[1]) /\ s.commitmentOut1 = CommitNote(out[2])
           /\ s.auditorPubkey = AuditorField(o.tx.auditors[1])
           /\ s.recipientAuditorPubkey = AuditorField(o.tx.auditors[2])
           /\ s.viewCtHashSender = s.viewCtHashSenderWitness
           /\ s.viewCtHashRecipient = s.viewCtHashRecipientWitness
           /\ s.in0Amount = Field(in[1].amount) /\ s.in0Owner = OwnerOf(in[1].owner)
           /\ s.in0Blinding = Blinding(in[1]) /\ s.in0LeafIndex = Field(o.inputs[1].leafIndex)
           /\ s.in0Path = o.paths[1]
           /\ s.in1Amount = Field(in[2].amount) /\ s.in1Owner = OwnerOf(in[2].owner)
           /\ s.in1Blinding = Blinding(in[2]) /\ s.in1LeafIndex = Field(o.inputs[2].leafIndex)
           /\ s.in1Path = o.paths[2]
           /\ s.spendingKey = SpendingKey(o.user)
           /\ s.out0Amount = Field(out[1].amount) /\ s.out0Owner = OwnerOf(out[1].owner)
           /\ s.out0Blinding = Blinding(out[1])
           /\ s.out1Amount = Field(out[2].amount) /\ s.out1Owner = OwnerOf(out[2].owner)
           /\ s.out1Blinding = Blinding(out[2])
<1>. DEFINE request == TransferRequest(o)
            a == o.inputs[1].note
            b == o.inputs[2].note
            c == o.tx.creates[1]
            d == o.tx.creates[2]
            r == o.tx.root
            n1 == NullifierOf(o.user, o.inputs[1])
            n2 == NullifierOf(o.user, o.inputs[2])
            c1 == CommitNote(c)
            c2 == CommitNote(d)
            d1 == AuditorField(o.tx.auditors[1])
            d2 == AuditorField(o.tx.auditors[2])
            h1 == ViewCtHash(o.tx.viewCts[1])
            h2 == ViewCtHash(o.tx.viewCts[2])
            i1 == Field(o.inputs[1].leafIndex)
            i2 == Field(o.inputs[2].leafIndex)
            p1 == o.paths[1]
            p2 == o.paths[2]
            key == SpendingKey(o.user)
<1>1. RequestOf(o) = request
    BY DEF RequestOf
<1>2. /\ request.circuit = "transfer" /\ DOMAIN request.witness = WitnessKeys("transfer")
      /\ request.publicInputs
            = <<r, Hex(n1), Hex(n2), Hex(c1), Hex(c2), Hex(d1), Hex(d2), Hex(h1), Hex(h2)>>
    <2>1. request.circuit = "transfer"
        BY DEF TransferRequest
    <2>2. DOMAIN request.witness = WitnessKeys("transfer")
        BY DEF TransferRequest, WitnessKeys, TransferKeys
    <2>3. request.publicInputs
            = <<r, Hex(n1), Hex(n2), Hex(c1), Hex(c2), Hex(d1), Hex(d2), Hex(h1), Hex(h2)>>
        BY DEF TransferRequest
    <2>. QED BY <2>1, <2>2, <2>3, Zenon
<1>3. /\ request.witness["in0Amount"] = Hex(Field(a.amount))
      /\ request.witness["in0OwnerPubkey"] = Hex(OwnerOf(a.owner))
      /\ request.witness["in0Blinding"] = Hex(Blinding(a))
      /\ request.witness["in0Path"] = Hex(p1) /\ request.witness["in0LeafIndex"] = Hex(i1)
      /\ request.witness["in1Amount"] = Hex(Field(b.amount))
      /\ request.witness["in1OwnerPubkey"] = Hex(OwnerOf(b.owner))
      /\ request.witness["in1Blinding"] = Hex(Blinding(b))
      /\ request.witness["in1Path"] = Hex(p2) /\ request.witness["in1LeafIndex"] = Hex(i2)
      /\ request.witness["spendingKey"] = Hex(key)
      /\ request.witness["out0Amount"] = Hex(Field(c.amount))
      /\ request.witness["out0OwnerPubkey"] = Hex(OwnerOf(c.owner))
      /\ request.witness["out0Blinding"] = Hex(Blinding(c))
      /\ request.witness["out1Amount"] = Hex(Field(d.amount))
      /\ request.witness["out1OwnerPubkey"] = Hex(OwnerOf(d.owner))
      /\ request.witness["out1Blinding"] = Hex(Blinding(d))
      /\ request.witness["viewCtHashSenderWitness"] = Hex(h1)
      /\ request.witness["viewCtHashRecipientWitness"] = Hex(h2)
    BY DEF TransferRequest
<1>4. \A x : Hex(x)[2] = x
    BY DEF Hex
<1>5. /\ PublicSignals["transfer"] =
            <<"merkleRoot", "nullifier0", "nullifier1", "commitmentOut0", "commitmentOut1",
              "auditorPubkey", "recipientAuditorPubkey", "viewCtHashSender", "viewCtHashRecipient">>
      /\ "transfer" \in Methods /\ PUBLIC_NAMES["transfer"] = PublicSignals["transfer"]
    BY DEF PublicSignals, Methods, PUBLIC_NAMES
<1>6. /\ RenamedTo("transfer", "in0OwnerPubkey") = "in0Owner"
      /\ RenamedTo("transfer", "in1OwnerPubkey") = "in1Owner"
      /\ RenamedTo("transfer", "out0OwnerPubkey") = "out0Owner"
      /\ RenamedTo("transfer", "out1OwnerPubkey") = "out1Owner"
      /\ \A k : k \notin TransferRenames => RenamedTo("transfer", k) = k
    BY DEF RenamedTo, RENAME, TransferRenames
<1>7. WitnessKeys("transfer") = TransferKeys
    BY DEF WitnessKeys
<1>. HIDE DEF request, a, b, c, d, r, n1, n2, c1, c2, d1, d2, h1, h2, i1, i2, p1, p2, key
<1>8. /\ DOMAIN s = SignalNames("transfer")
      /\ \A k \in WitnessKeys("transfer") : s[RenamedTo("transfer", k)] = request.witness[k][2]
      /\ \A k \in DOMAIN PublicSignals["transfer"] :
            s[PublicSignals["transfer"][k]] = request.publicInputs[k][2]
    BY <1>1, <1>2, <1>5, InputByName
<1>9. /\ s["in0Owner"] = request.witness["in0OwnerPubkey"][2]
      /\ s["in1Owner"] = request.witness["in1OwnerPubkey"][2]
      /\ s["out0Owner"] = request.witness["out0OwnerPubkey"][2]
      /\ s["out1Owner"] = request.witness["out1OwnerPubkey"][2]
      /\ \A k \in TransferKeys \ TransferRenames : s[k] = request.witness[k][2]
    <2>1. {"in0OwnerPubkey", "in1OwnerPubkey", "out0OwnerPubkey", "out1OwnerPubkey"} \subseteq TransferKeys
        BY DEF TransferKeys
    <2>. QED BY <1>6, <1>7, <1>8, <2>1
<1>10. TransferKeys \ TransferRenames
         = {"in0Amount", "in0Blinding", "in0Path", "in0LeafIndex", "in1Amount", "in1Blinding", "in1Path",
            "in1LeafIndex", "spendingKey", "out0Amount", "out0Blinding", "out1Amount", "out1Blinding",
            "viewCtHashSenderWitness", "viewCtHashRecipientWitness"}
    BY DEF TransferKeys, TransferRenames
<1>11. /\ s["in0Amount"] = Field(a.amount) /\ s["in0Owner"] = OwnerOf(a.owner)
       /\ s["in0Blinding"] = Blinding(a) /\ s["in0Path"] = p1 /\ s["in0LeafIndex"] = i1
       /\ s["in1Amount"] = Field(b.amount) /\ s["in1Owner"] = OwnerOf(b.owner)
       /\ s["in1Blinding"] = Blinding(b) /\ s["in1Path"] = p2 /\ s["in1LeafIndex"] = i2
       /\ s["spendingKey"] = key
       /\ s["out0Amount"] = Field(c.amount) /\ s["out0Owner"] = OwnerOf(c.owner)
       /\ s["out0Blinding"] = Blinding(c)
       /\ s["out1Amount"] = Field(d.amount) /\ s["out1Owner"] = OwnerOf(d.owner)
       /\ s["out1Blinding"] = Blinding(d)
       /\ s["viewCtHashSenderWitness"] = h1 /\ s["viewCtHashRecipientWitness"] = h2
    BY <1>3, <1>4, <1>9, <1>10
<1>12. /\ s["merkleRoot"] = r[2] /\ s["nullifier0"] = n1 /\ s["nullifier1"] = n2
       /\ s["commitmentOut0"] = c1 /\ s["commitmentOut1"] = c2
       /\ s["auditorPubkey"] = d1 /\ s["recipientAuditorPubkey"] = d2
       /\ s["viewCtHashSender"] = h1 /\ s["viewCtHashRecipient"] = h2
    <2>. DEFINE names == PublicSignals["transfer"]
                inputs == request.publicInputs
    <2>1. /\ s[names[1]] = inputs[1][2] /\ s[names[2]] = inputs[2][2] /\ s[names[3]] = inputs[3][2]
          /\ s[names[4]] = inputs[4][2] /\ s[names[5]] = inputs[5][2] /\ s[names[6]] = inputs[6][2]
          /\ s[names[7]] = inputs[7][2] /\ s[names[8]] = inputs[8][2] /\ s[names[9]] = inputs[9][2]
        BY <1>5, <1>8
    <2>2. /\ names[1] = "merkleRoot" /\ names[2] = "nullifier0" /\ names[3] = "nullifier1"
          /\ names[4] = "commitmentOut0" /\ names[5] = "commitmentOut1" /\ names[6] = "auditorPubkey"
          /\ names[7] = "recipientAuditorPubkey" /\ names[8] = "viewCtHashSender"
          /\ names[9] = "viewCtHashRecipient"
        BY <1>5
    <2>3. /\ inputs[1] = r /\ inputs[2] = Hex(n1) /\ inputs[3] = Hex(n2) /\ inputs[4] = Hex(c1)
          /\ inputs[5] = Hex(c2) /\ inputs[6] = Hex(d1) /\ inputs[7] = Hex(d2) /\ inputs[8] = Hex(h1)
          /\ inputs[9] = Hex(h2)
        BY <1>2
    <2>. HIDE DEF names, inputs
    <2>. QED BY <1>4, <2>1, <2>2, <2>3
<1>13. Len(request.publicInputs) = 9 /\ Len(PUBLIC_NAMES["transfer"]) = 9
    BY <1>2, <1>5
<1>14. Provable(request) <=> Transfer(s)
    BY <1>1, <1>2, <1>8, <1>13 DEF Provable, Satisfies
<1>. QED BY <1>1, <1>11, <1>12, <1>14 DEF a, b, c, d, r, n1, n2, c1, c2, d1, d2, i1, i2, p1, p2, key

LEMMA TransfersAreProvable ==
    ASSUME NEW o, o.tx.method = "transfer", OrderTyped(o), TransferReady(o)
    PROVE  Provable(RequestOf(o)) <=> o.tx.auditors[1] = o.tx.auditors[2]
<1>. DEFINE s == CircomInput(RequestOf(o))
            i == o.inputs[1].leafIndex
            j == o.inputs[2].leafIndex
            a == o.inputs[1].note
            b == o.inputs[2].note
            c == o.tx.creates[1]
            d == o.tx.creates[2]
            x == o.tx.auditors[1]
            y == o.tx.auditors[2]
            key == SpendingKey(o.user)
<1>1. /\ Provable(RequestOf(o)) <=> Transfer(s)
      /\ s.merkleRoot = o.tx.root[2]
      /\ s.nullifier0 = NullifierOf(o.user, o.inputs[1])
      /\ s.nullifier1 = NullifierOf(o.user, o.inputs[2])
      /\ s.commitmentOut0 = CommitNote(c) /\ s.commitmentOut1 = CommitNote(d)
      /\ s.auditorPubkey = AuditorField(x) /\ s.recipientAuditorPubkey = AuditorField(y)
      /\ s.viewCtHashSender = s.viewCtHashSenderWitness
      /\ s.viewCtHashRecipient = s.viewCtHashRecipientWitness
      /\ s.in0Amount = Field(a.amount) /\ s.in0Owner = OwnerOf(a.owner)
      /\ s.in0Blinding = Blinding(a) /\ s.in0LeafIndex = Field(i) /\ s.in0Path = o.paths[1]
      /\ s.in1Amount = Field(b.amount) /\ s.in1Owner = OwnerOf(b.owner)
      /\ s.in1Blinding = Blinding(b) /\ s.in1LeafIndex = Field(j) /\ s.in1Path = o.paths[2]
      /\ s.spendingKey = key
      /\ s.out0Amount = Field(c.amount) /\ s.out0Owner = OwnerOf(c.owner)
      /\ s.out0Blinding = Blinding(c)
      /\ s.out1Amount = Field(d.amount) /\ s.out1Owner = OwnerOf(d.owner)
      /\ s.out1Blinding = Blinding(d)
    <2>. HIDE DEF s
    <2>. QED BY TransferSignals DEF s
<1>2. /\ InputReady(o, 1) /\ InputReady(o, 2) /\ i # j
      /\ a.auditor = b.auditor /\ InRange(a.amount + b.amount)
      /\ c.amount + d.amount = a.amount + b.amount
      /\ x = a.auditor /\ d.auditor = a.auditor /\ y = c.auditor
    BY DEF TransferReady
<1>3. /\ i \in Nat /\ j \in Nat /\ a.amount \in Nat /\ b.amount \in Nat
      /\ c.amount \in Nat /\ d.amount \in Nat
    <2>1. o.inputs[1] \in FoundNote /\ o.inputs[2] \in FoundNote
        <3>1. o.inputs \in Seq(FoundNote) /\ Len(o.inputs) = 2
            BY DEF OrderTyped
        <3>. QED BY <3>1
    <2>2. o.tx.creates[1] \in NoteSet /\ o.tx.creates[2] \in NoteSet
        <3>1. o.tx.creates \in Seq(NoteSet) /\ Len(o.tx.creates) = 2
            BY DEF OrderTyped, OrderSealed
        <3>. QED BY <3>1
    <2>. QED BY <2>1, <2>2 DEF FoundNote, NoteSet
<1>4. /\ OwnerOf(a.owner) = OwnerPubkey(key) /\ OwnerOf(b.owner) = OwnerPubkey(key)
      /\ Included(CommitNote(a), o.tx.root[2], Field(i), o.paths[1])
      /\ Included(CommitNote(b), o.tx.root[2], Field(j), o.paths[2])
      /\ NullifierOf(o.user, o.inputs[1]) = Nullifier(key, CommitNote(a), Field(i))
      /\ NullifierOf(o.user, o.inputs[2]) = Nullifier(key, CommitNote(b), Field(j))
    BY <1>2, <1>3, ReadyIsIncluded
<1>5. i \in 0 .. FieldOrder - 1 /\ j \in 0 .. FieldOrder - 1
    <2>1. i < Capacity /\ j < Capacity
        BY <1>2 DEF InputReady
    <2>. HIDE DEF i, j
    <2>. QED BY <1>3, <2>1, LeafIndexAssumption, FieldAssumption, Widths
<1>. HIDE DEF s, i, j, a, b, c, d, x, y, key
<1>6. /\ Commitment(s.in0Amount, s.in0Owner, s.auditorPubkey, s.in0Blinding) = CommitNote(a)
      /\ Commitment(s.in1Amount, s.in1Owner, s.auditorPubkey, s.in1Blinding) = CommitNote(b)
    BY <1>1, <1>2 DEF CommitNote
<1>7. s.nullifier0 # s.nullifier1
    <2>1. Field(i) # Field(j)
        BY <1>2, <1>5, RangeFits
    <2>2. \A u, v, w, z : Hash(u, v) = Hash(w, z) => u = w /\ v = z
        BY DEF Hash
    <2>3. Nullifier(key, CommitNote(a), Field(i)) # Nullifier(key, CommitNote(b), Field(j))
        BY <2>1, <2>2 DEF Nullifier
    <2>. QED BY <1>1, <1>4, <2>3
<1>8. Conserves(s.in0Amount, s.in1Amount, s.out0Amount, s.out1Amount)
    <2>1. /\ InRange(a.amount) /\ InRange(b.amount) /\ InRange(c.amount) /\ InRange(d.amount)
        <3>1. 2 ^ RANGE_BITS \in Nat
            BY RangeFits
        <3>. DEFINE m == 2 ^ RANGE_BITS
                    e == a.amount
                    f == b.amount
                    g == c.amount
                    h == d.amount
        <3>2. e \in Nat /\ f \in Nat /\ g \in Nat /\ h \in Nat /\ m \in Nat /\ e + f < m /\ g + h = e + f
            BY <1>2, <1>3, <3>1 DEF InRange
        <3>. HIDE DEF m, e, f, g, h
        <3>3. e < m /\ f < m /\ g < m /\ h < m
            BY <3>2
        <3>. QED BY <3>2, <3>3 DEF InRange, m, e, f, g, h
    <2>2. \A n : InRange(n) => Value(Field(n)) = n /\ RangeCheck(Field(n))
        BY RangeFits, FieldOfValue DEF RangeCheck, HasBits, InRange
    <2>3. Plus(s.in0Amount, s.in1Amount) = Plus(s.out0Amount, s.out1Amount)
        BY <1>1, <1>2, <2>1, <2>2 DEF Plus
    <2>. QED BY <1>1, <2>1, <2>2, <2>3 DEF Conserves
<1>9. s.commitmentOut0 = Commitment(s.out0Amount, s.out0Owner, s.recipientAuditorPubkey, s.out0Blinding)
    BY <1>1, <1>2 DEF CommitNote
<1>10. s.commitmentOut1 = Commitment(s.out1Amount, s.out1Owner, s.recipientAuditorPubkey, s.out1Blinding)
         <=> x = y
    <2>1. \A e, f, g, h, k : Commitment(e, f, g, h) = Commitment(e, f, k, h) <=> g = k
        BY DEF Commitment
    <2>2. AuditorField(x) = AuditorField(y) <=> x = y
        BY DEF AuditorField, HashBytes
    <2>3. s.commitmentOut1 = Commitment(s.out1Amount, s.out1Owner, AuditorField(x), s.out1Blinding)
        BY <1>1, <1>2 DEF CommitNote
    <2>. QED BY <1>1, <2>1, <2>2, <2>3
<1>11. Transfer(s) <=> x = y
    BY <1>1, <1>4, <1>6, <1>7, <1>8, <1>9, <1>10 DEF Transfer
<1>. QED BY <1>1, <1>11 DEF x, y

(* What the wallet builds can be proved, always, but for the circuits' two *)
(* limits: a transfer's outputs go under one auditor, the recipient's, and *)
(* no more than 64 bits are withdrawn.  Nothing else stands between a note *)
(* and its spending: not the leaves inserted meanwhile, nor sums that      *)
(* leave the range, nor two inputs with one nullifier (wallet.ts,          *)
(* transfer.circom, withdraw.circom). *)
THEOREM BuiltIsProvable == E2ESpec => []ProvableExactly
<1>1. NotesInv /\ CallInv /\ FundsInv => ProvableExactly
    <2>. SUFFICES ASSUME NotesInv, CallInv, FundsInv, job.at = "requested"
                  PROVE  LET tx == job.order.tx IN
                         Provable(RequestOf(job.order)) <=>
                            CASE tx.method = "deposit"  -> TRUE
                              [] tx.method = "transfer" -> tx.auditors[1] = tx.auditors[2]
                              [] tx.method = "withdraw" -> tx.amount < 2 ^ WITHDRAW_BITS
        BY DEF ProvableExactly
    <2>. DEFINE o == job.order
    <2>1. OrderTyped(o) /\ OrderMade(o) /\ OrderReady(o, wallets) /\ o.tx.method \in Methods
        BY DEF NotesInv, JobTyped, OrderTyped, OrderSealed, CallInv, JobMade, IsMade, FundsInv, JobReady, IsReady
    <2>. HIDE DEF o
    <2>2. CASE o.tx.method = "deposit"
        BY <2>1, <2>2, DepositsAreProvable DEF o
    <2>3. CASE o.tx.method = "transfer"
        <3>1. Provable(RequestOf(o)) <=> o.tx.auditors[1] = o.tx.auditors[2]
            BY <2>1, <2>3, TransfersAreProvable DEF OrderReady
        <3>. QED BY <2>3, <3>1 DEF o
    <2>4. CASE o.tx.method = "withdraw"
        <3>1. Provable(RequestOf(o)) <=> o.tx.amount < 2 ^ WITHDRAW_BITS
            BY <2>1, <2>4, WithdrawsAreProvable DEF OrderReady
        <3>. QED BY <2>4, <3>1 DEF o
    <2>. QED BY <2>1, <2>2, <2>3, <2>4 DEF Methods
<1>. QED BY <1>1, NotesAlways, CallInvAlways, FundsAlways, PTL

------------------------------------------------------------------------------
(* The replay of the scenario. *)

(* What the generator's local tree holds. *)
LEMMA AppendedIs ==
    /\ Appended(0) = <<>>
    /\ Appended(1) = <<CommitmentA>>
    /\ Appended(2) = <<CommitmentA, CommitmentB>>
    /\ Appended(4) = <<CommitmentA, CommitmentB, CommitmentOut0, CommitmentOut1>>
<1>. DEFINE A == CommitmentA
            B == CommitmentB
            C == CommitmentOut0
            D == CommitmentOut1
<1>1. \A n : Appended(n) = SubSeq(<<A, B, C, D>>, 1, n)
    BY DEF Appended
<1>. HIDE DEF A, B, C, D
<1>2. /\ SubSeq(<<A, B, C, D>>, 1, 0) = <<>>
      /\ SubSeq(<<A, B, C, D>>, 1, 1) = <<A>>
      /\ SubSeq(<<A, B, C, D>>, 1, 2) = <<A, B>>
      /\ SubSeq(<<A, B, C, D>>, 1, 4) = <<A, B, C, D>>
    <2>. DEFINE S == {A, B, C, D}
                s == <<A, B, C, D>>
                one == <<A>>
                two == <<A, B>>
    <2>1. s \in Seq(S) /\ Len(s) = 4 /\ s[1] = A /\ s[2] = B
        OBVIOUS
    <2>2. \A t \in Seq(S), n \in Nat :
              Len(t) = n /\ n <= 4 /\ (\A i \in 1 .. n : s[i] = t[i]) => SubSeq(s, 1, n) = t
        <3>. HIDE DEF s, S
        <3>1. \A t \in Seq(S), n \in Nat :
                  Len(t) = n /\ 0 + n <= Len(s) /\ (\A i \in 1 .. n : s[0 + i] = t[i])
                     => SubSeq(s, 0 + 1, 0 + n) = t
            BY <2>1, Slice
        <3>. QED BY <2>1, <3>1
    <2>3. /\ <<>> \in Seq(S) /\ one \in Seq(S) /\ two \in Seq(S)
          /\ Len(one) = 1 /\ one[1] = A /\ Len(two) = 2 /\ two[1] = A /\ two[2] = B
        OBVIOUS
    <2>. HIDE DEF s, S, one, two
    <2>4. SubSeq(s, 1, 0) = <<>>
        BY <2>2, <2>3
    <2>5. SubSeq(s, 1, 1) = one
        BY <2>1, <2>2, <2>3
    <2>6. SubSeq(s, 1, 2) = two
        BY <2>1, <2>2, <2>3
    <2>7. SubSeq(s, 1, 4) = s
        BY <2>1, <2>2
    <2>. QED BY <2>4, <2>5, <2>6, <2>7 DEF s, one, two
<1>. QED BY <1>1, <1>2 DEF A, B, C, D

LEMMA AppendedGrow ==
    /\ Appended(0) \o <<CommitmentA>> = Appended(1)
    /\ Appended(1) \o <<CommitmentB>> = Appended(2)
    /\ Appended(2) \o <<CommitmentOut0, CommitmentOut1>> = Appended(4)
<1>. DEFINE A == CommitmentA
            B == CommitmentB
            C == CommitmentOut0
            D == CommitmentOut1
<1>1. <<>> \o <<A>> = <<A>>
    OBVIOUS
<1>2. <<A>> \o <<B>> = <<A, B>>
    <2>. HIDE DEF A, B
    <2>. DEFINE s == <<A>>
                t == <<B>>
                r == <<A, B>>
                S == {A, B}
    <2>1. /\ s \in Seq(S) /\ t \in Seq(S) /\ r \in Seq(S)
          /\ Len(s) = 1 /\ Len(t) = 1 /\ Len(r) = 2
          /\ s[1] = A /\ t[1] = B /\ r[1] = A /\ r[2] = B
        OBVIOUS
    <2>. HIDE DEF s, t, r, S
    <2>. DEFINE u == s \o t
    <2>2. IsJoin(S, u, s, 1, t, 1)
        BY <2>1, Joined
    <2>. HIDE DEF u
    <2>3. u \in Seq(S) /\ Len(u) = 2 /\ u[1] = r[1] /\ u[2] = r[2]
        <3>1. /\ u \in Seq(S) /\ Len(u) = 1 + 1
              /\ \A i \in 1 .. 1 : u[i] = s[i]
              /\ \A i \in 1 .. 1 : u[1 + i] = t[i]
            BY <2>2 DEF IsJoin
        <3>2. u[1] = s[1] /\ u[1 + 1] = t[1]
            BY <3>1
        <3>. QED BY <2>1, <3>1, <3>2
    <2>4. ASSUME NEW i \in 1 .. 2 PROVE u[i] = r[i]
        <3>1. i = 1 \/ i = 2
            OBVIOUS
        <3>. QED BY <2>3, <3>1
    <2>5. u = r
        BY <2>1, <2>3, <2>4, SeqEqual
    <2>. QED BY <2>5 DEF s, t, r, u
<1>3. <<A, B>> \o <<C, D>> = <<A, B, C, D>>
    <2>. HIDE DEF A, B, C, D
    <2>. DEFINE s == <<A, B>>
                t == <<C, D>>
                r == <<A, B, C, D>>
                S == {A, B, C, D}
    <2>1. /\ s \in Seq(S) /\ t \in Seq(S) /\ r \in Seq(S)
          /\ Len(s) = 2 /\ Len(t) = 2 /\ Len(r) = 4
          /\ s[1] = A /\ s[2] = B /\ t[1] = C /\ t[2] = D
          /\ r[1] = A /\ r[2] = B /\ r[3] = C /\ r[4] = D
        OBVIOUS
    <2>. HIDE DEF s, t, r, S
    <2>. DEFINE u == s \o t
    <2>2. IsJoin(S, u, s, 2, t, 2)
        BY <2>1, Joined
    <2>. HIDE DEF u
    <2>3. u \in Seq(S) /\ Len(u) = 4 /\ u[1] = r[1] /\ u[2] = r[2] /\ u[3] = r[3] /\ u[4] = r[4]
        <3>1. /\ u \in Seq(S) /\ Len(u) = 2 + 2
              /\ \A i \in 1 .. 2 : u[i] = s[i]
              /\ \A i \in 1 .. 2 : u[2 + i] = t[i]
            BY <2>2 DEF IsJoin
        <3>2. u[1] = s[1] /\ u[2] = s[2] /\ u[2 + 1] = t[1] /\ u[2 + 2] = t[2]
            BY <3>1
        <3>. QED BY <2>1, <3>1, <3>2
    <2>4. ASSUME NEW i \in 1 .. 4 PROVE u[i] = r[i]
        <3>1. i = 1 \/ i = 2 \/ i = 3 \/ i = 4
            OBVIOUS
        <3>. QED BY <2>3, <3>1
    <2>5. u = r
        BY <2>1, <2>3, <2>4, SeqEqual
    <2>. QED BY <2>5 DEF s, t, r, u
<1>. QED BY <1>1, <1>2, <1>3, AppendedIs

LEMMA RoomForFour ==
    /\ Capacity \in Nat /\ Capacity >= 4
    /\ \A i \in 0 .. 3 : i \in 0 .. FieldOrder - 1
<1>1. DEPTH >= 2 /\ DEPTH \in Nat
    BY ScenarioAssumption, DepthAssumption
<1>2. 0 \in Levels /\ 1 \in Levels /\ 2 \in 0 .. DEPTH
    BY <1>1 DEF Levels
<1>3. /\ Width(0) = Capacity /\ Width(0) = 2 * Width(1) /\ Width(1) = 2 * Width(2)
      /\ Width(2) \in Nat \ {0} /\ Width(1) \in Nat /\ Capacity \in Nat
    BY <1>2, Widths
<1>4. Capacity >= 4
    BY <1>3
<1>. QED BY <1>3, <1>4, LeafIndexAssumption, FieldAssumption

(* The signals a proof is of, and the inputs the contract makes of the     *)
(* parameters, are the same: then the proof passes.                        *)
LEMMA FixtureVerifies ==
    ASSUME NEW circuit \in Methods, NEW input, NEW params, NEW n,
           NEW fixture, fixture = Fixture(circuit, input, params, n),
           "proof" \notin DOMAIN params,
           Signals(circuit, input) = ContractInputs(circuit, fixture.args)
    PROVE  /\ Verified(CallOf(fixture)) /\ CallOf(fixture).args.proof # <<>>
           /\ CallOf(fixture).method = circuit
<1>. DEFINE v == Signals(circuit, input)
            bytes == SnarkjsProofToBytes(SnarkjsProof(circuit, v))
            inputs == ContractInputs(circuit, fixture.args)
<1>1. fixture.method = circuit /\ fixture.args.proof = bytes
    BY DEF Fixture
<1>2. CallOf(fixture).method = circuit /\ CallOf(fixture).args = fixture.args
    BY <1>1 DEF CallOf
<1>3. Len(inputs) = Len(PublicSignals[circuit])
    BY InputsAreAsMany
<1>4. Verify(Vk[circuit], bytes, inputs)
    BY <1>3, VerifiesExactly
<1>5. Len(bytes) = 8
    BY ProofBytes
<1>6. bytes # <<>>
    <2>. HIDE DEF bytes
    <2>1. Len(<<>>) = 0
        OBVIOUS
    <2>. QED BY <1>5, <2>1
<1>. HIDE DEF bytes, inputs
<1>. QED BY <1>1, <1>2, <1>4, <1>6, Zenon DEF Verified, inputs

(* Inserting leaves the root the client foretells. *)
LEMMA RootForetold ==
    ASSUME TreeFollows, NEW S, NEW cs \in Seq(S), Len(leaves) + Len(cs) <= Capacity
    PROVE  /\ InsertAll(tree, cs).current_root = ClientRoot(leaves \o cs)
           /\ HasRoomFor(tree, Len(cs))
<1>1. PICK S1 : leaves \in Seq(S1) /\ Agrees(tree, leaves)
    BY DEF TreeFollows
<1>. DEFINE T == S \cup S1
<1>2. leaves \in Seq(T) /\ cs \in Seq(T) /\ Len(cs) \in Nat /\ Len(leaves) \in Nat
    BY <1>1
<1>. HIDE DEF T
<1>3. Agrees(InsertAll(tree, cs), leaves \o cs)
    BY <1>1, <1>2, InsertAllAgrees
<1>4. leaves \o cs \in Seq(T) /\ Len(leaves \o cs) = Len(leaves) + Len(cs)
    BY <1>2
<1>. DEFINE ls == leaves \o cs
<1>5. ls \in Seq(T) /\ Len(ls) <= Capacity /\ Agrees(InsertAll(tree, cs), ls)
    BY <1>3, <1>4
<1>. HIDE DEF ls
<1>6. ClientRoot(ls) = Node(ls)[DEPTH][0]
    BY <1>5, ClientRootIsNode
<1>7. InsertAll(tree, cs).current_root = Node(ls)[DEPTH][0]
    BY <1>5 DEF Agrees
<1>8. tree.next_index = Len(leaves)
    BY <1>1 DEF Agrees
<1>9. HasRoomFor(tree, Len(cs))
    BY <1>2, <1>8, Widths DEF HasRoomFor, HasRoom
<1>. QED BY <1>6, <1>7, <1>9 DEF ls

Replays(fixture) ==
    /\ fixture.generated
    /\ Accepts(CallOf(fixture))
    /\ InsertAll(tree, Commitments(CallOf(fixture))).current_root = fixture.rootAfter

LEMMA DepositReplays ==
    ASSUME TreeFollows, Len(leaves) + 1 <= Capacity, NEW name, NEW amount,
           NEW c, c = CommitmentOf(name, amount, SENDER_OWNER),
           NEW n, Appended(n) = leaves \o <<c>>,
           NEW fixture, fixture = DepositFixture(name, c, amount, n)
    PROVE  /\ Replays(fixture)
           /\ Commitments(CallOf(fixture)) = <<c>> /\ Spent(CallOf(fixture)) = {}
<1>. DEFINE viewCt == Encoded(<<"view", name>>)
            hash == ViewCtHashFrom(viewCt)
            input == [commitment |-> c, amount |-> Field(amount), auditorPubkey |-> AUDITOR_FIELD,
                      viewCtHash |-> hash, ownerPubkey |-> SENDER_OWNER, blinding |-> BlindingOf(name),
                      viewCtHashWitness |-> hash]
            params == [commitment |-> Hex(c), amount |-> Dec(amount),
                       auditor_pubkey |-> Hex(AUDITOR_FIELD), view_ct |-> viewCt,
                       note_ct |-> Encoded(name)]
            call == CallOf(fixture)
            args == fixture.args
<1>1. fixture = Fixture("deposit", input, params, n)
    BY DEF DepositFixture
<1>2. /\ DOMAIN params = {"commitment", "amount", "auditor_pubkey", "view_ct", "note_ct"}
      /\ params.commitment = Hex(c) /\ params.amount = Dec(amount)
      /\ params.auditor_pubkey = Hex(AUDITOR_FIELD) /\ params.view_ct = viewCt
    OBVIOUS
<1>3. /\ DOMAIN input = {"commitment", "amount", "auditorPubkey", "viewCtHash", "ownerPubkey",
                         "blinding", "viewCtHashWitness"}
      /\ input.commitment = c /\ input.amount = Field(amount) /\ input.auditorPubkey = AUDITOR_FIELD
      /\ input.viewCtHash = hash /\ input.ownerPubkey = SENDER_OWNER
      /\ input.blinding = BlindingOf(name) /\ input.viewCtHashWitness = hash
    OBVIOUS
<1>. HIDE DEF params, input
<1>4. /\ args.commitment = Hex(c) /\ args.amount = Dec(amount)
      /\ args.auditor_pubkey = Hex(AUDITOR_FIELD) /\ args.view_ct = viewCt
      /\ fixture.generated = Satisfies("deposit", input) /\ fixture.rootAfter = RootAfter(n)
      /\ fixture.method = "deposit"
    BY <1>1, <1>2 DEF Fixture
<1>5. fixture.generated
    <2>1. SignalNames("deposit") = DOMAIN input
        BY <1>3 DEF SignalNames, PublicSignals, PrivateSignals
    <2>2. Deposit(input)
        BY <1>3 DEF Deposit, CommitmentOf
    <2>. QED BY <1>4, <2>1, <2>2 DEF Satisfies
<1>6. ContractInputs("deposit", args) = <<c, Field(amount), AUDITOR_FIELD, hash>>
    BY <1>4, StringsAreRead DEF ContractInputs, DepositInputs, ParseHex32, U128, ViewCtHashFrom
<1>7. Signals("deposit", input) = <<c, Field(amount), AUDITOR_FIELD, hash>>
    BY <1>3 DEF Signals, PublicSignals
<1>8. Verified(call) /\ call.args.proof # <<>> /\ call.method = "deposit"
    <2>1. "proof" \notin DOMAIN params /\ "deposit" \in Methods
        BY <1>2 DEF Methods
    <2>2. Signals("deposit", input) = ContractInputs("deposit", fixture.args)
        BY <1>6, <1>7
    <2>. QED BY <1>1, <2>1, <2>2, FixtureVerifies
<1>9. call.args = args /\ call.tokens = args.amount
    BY <1>4 DEF CallOf
<1>10. Commitments(call) = <<c>>
    BY <1>4, <1>8, <1>9, StringsAreRead DEF Commitments, ParseHex32
<1>11. /\ InsertAll(tree, <<c>>).current_root = ClientRoot(leaves \o <<c>>)
       /\ HasRoomFor(tree, 1)
    <2>. DEFINE cs == <<c>>
    <2>1. cs \in Seq({c}) /\ Len(cs) = 1
        OBVIOUS
    <2>. HIDE DEF cs
    <2>2. Len(leaves) + Len(cs) <= Capacity
        BY <2>1
    <2>3. /\ InsertAll(tree, cs).current_root = ClientRoot(leaves \o cs)
          /\ HasRoomFor(tree, Len(cs))
        BY <2>1, <2>2, RootForetold
    <2>. QED BY <2>1, <2>3 DEF cs
<1>12. Accepts(call)
    BY <1>8, <1>9, <1>11 DEF Accepts, AcceptsDeposit
<1>13. InsertAll(tree, Commitments(call)).current_root = fixture.rootAfter
    BY <1>4, <1>10, <1>11 DEF RootAfter
<1>14. Spent(call) = {}
    BY <1>8 DEF Spent
<1>. QED BY <1>5, <1>10, <1>12, <1>13, <1>14 DEF Replays

(* The scenario's amounts and indices are their own field elements.        *)
LEMMA ScenarioFields ==
    /\ \A a \in {AMT_A, AMT_B, AMT_OUT0, AMT_OUT1} :
          a \in Nat /\ Value(Field(a)) = a /\ RangeCheck(Field(a))
    /\ Plus(Field(AMT_A), Field(AMT_B)) = Plus(Field(AMT_OUT0), Field(AMT_OUT1))
    /\ U64Geq(Field(AMT_OUT1), Field(RELAYER_FEE)) /\ RELAYER_FEE <= AMT_OUT1
    /\ \A i \in 0 .. 3 : Value(Field(i)) = i
<1>1. ASSUME NEW a \in {AMT_A, AMT_B, AMT_OUT0, AMT_OUT1}
      PROVE  a \in Nat /\ Value(Field(a)) = a /\ RangeCheck(Field(a))
    <2>1. a \in Nat /\ a < 2 ^ RANGE_BITS /\ a \in 0 .. FieldOrder - 1
        BY ScenarioAssumption, FieldAssumption, RangeFits
    <2>2. Value(Field(a)) = a
        BY <2>1, FieldOfValue
    <2>. QED BY <2>1, <2>2 DEF RangeCheck, HasBits
<1>2. Plus(Field(AMT_A), Field(AMT_B)) = Plus(Field(AMT_OUT0), Field(AMT_OUT1))
    BY <1>1, ScenarioAssumption DEF Plus
<1>3. U64Geq(Field(AMT_OUT1), Field(RELAYER_FEE)) /\ RELAYER_FEE <= AMT_OUT1
    <2>. DEFINE a == AMT_OUT1
                b == RELAYER_FEE
                r == 2 ^ WITHDRAW_BITS
    <2>1. a \in Nat /\ b \in 0 .. a /\ a < r /\ r \in Nat /\ 2 * r <= FieldOrder /\ FieldOrder \in Nat
        BY ScenarioAssumption, FieldAssumption
    <2>. HIDE DEF a, b, r
    <2>2. a \in 0 .. FieldOrder - 1 /\ b \in 0 .. FieldOrder - 1 /\ a - b \in 0 .. FieldOrder - 1
          /\ b < r /\ a - b < r /\ b <= a
        BY <2>1
    <2>3. Value(Field(a)) = a /\ Value(Field(b)) = b /\ Value(Field(a - b)) = a - b
        BY <2>2, FieldOfValue
    <2>4. U64Geq(Field(a), Field(b))
        BY <2>1, <2>2, <2>3 DEF U64Geq, HasBits, Minus, r
    <2>. QED BY <2>2, <2>4 DEF a, b
<1>4. \A i \in 0 .. 3 : Value(Field(i)) = i
    BY RoomForFour, FieldOfValue
<1>. QED BY <1>1, <1>2, <1>3, <1>4

(* While the pool has followed the generator, the generator's root is the  *)
(* pool's, and its paths lead there. *)
LEMMA ScenarioPaths ==
    ASSUME TreeFollows, NEW n, leaves = Appended(n), NEW i \in 0 .. 3, i < Len(leaves)
    PROVE  /\ RootAfter(n) = tree.current_root
           /\ Included(Appended(n)[i + 1], RootAfter(n), Field(i), PathFor(Appended(n), i))
<1>1. RootsAgree /\ EveryPathVerifies
    BY TreeProperties
<1>2. RootAfter(n) = tree.current_root
    BY <1>1 DEF RootsAgree, RootAfter
<1>3. i \in 0 .. Len(leaves) - 1
    <2>1. PICK S : leaves \in Seq(S)
        BY DEF TreeFollows
    <2>. QED BY <2>1
<1>4. MerkleInclusion(leaves[i + 1], tree.current_root, i, PathFor(leaves, i))
    BY <1>1, <1>3 DEF EveryPathVerifies
<1>5. Value(Field(i)) = i /\ i < 2 ^ DEPTH
    BY ScenarioFields, RoomForFour DEF Capacity
<1>. QED BY <1>2, <1>4, <1>5 DEF Included, HasBits

(* The nullifiers of different leaves differ. *)
LEMMA ScenarioNullifiers ==
    /\ NullifierAt(2, 0) = Nullifier(SK, CommitmentA, Field(0))
    /\ NullifierAt(2, 1) = Nullifier(SK, CommitmentB, Field(1))
    /\ NullifierAt(4, 3) = Nullifier(SK, CommitmentOut1, Field(3))
    /\ NullifierAt(2, 0) # NullifierAt(2, 1)
    /\ NullifierAt(4, 3) \notin {NullifierAt(2, 0), NullifierAt(2, 1)}
<1>1. /\ Appended(2)[1] = CommitmentA /\ Appended(2)[2] = CommitmentB
      /\ Appended(4)[4] = CommitmentOut1
    BY AppendedIs
<1>2. /\ NullifierAt(2, 0) = Nullifier(SK, CommitmentA, Field(0))
      /\ NullifierAt(2, 1) = Nullifier(SK, CommitmentB, Field(1))
      /\ NullifierAt(4, 3) = Nullifier(SK, CommitmentOut1, Field(3))
    BY <1>1 DEF NullifierAt
<1>3. Field(0) # Field(1) /\ Field(3) # Field(0) /\ Field(3) # Field(1)
    BY ScenarioFields
<1>4. ASSUME NEW c, NEW d, NEW f, NEW g, Nullifier(SK, c, f) = Nullifier(SK, d, g) PROVE f = g
    <2>1. Hash(c, f) = Hash(d, g)
        BY <1>4 DEF Nullifier, Hash
    <2>. QED BY <2>1 DEF Hash
<1>. QED BY <1>2, <1>3, <1>4

LEMMA TransferReplays ==
    ASSUME TreeFollows, leaves = Appended(2), nullifiers = {},
           Contains(recent_roots, tree.current_root)
    PROVE  /\ Replays(TransferFixture)
           /\ Commitments(CallOf(TransferFixture)) = <<CommitmentOut0, CommitmentOut1>>
           /\ Spent(CallOf(TransferFixture)) = {NullifierAt(2, 0), NullifierAt(2, 1)}
<1>. DEFINE sender == Encoded("view of the sender")
            recip == Encoded("view of the recipient")
            hash == [sender |-> ViewCtHashFrom(sender), recip |-> ViewCtHashFrom(recip)]
            input ==
                [merkleRoot |-> RootAfter(2),
                 nullifier0 |-> NullifierAt(2, 0), nullifier1 |-> NullifierAt(2, 1),
                 commitmentOut0 |-> CommitmentOut0, commitmentOut1 |-> CommitmentOut1,
                 auditorPubkey |-> AUDITOR_FIELD, recipientAuditorPubkey |-> AUDITOR_FIELD,
                 viewCtHashSender |-> hash.sender, viewCtHashRecipient |-> hash.recip,
                 in0Amount |-> Field(AMT_A), in0Owner |-> SENDER_OWNER, in0Blinding |-> BlindingOf("A"),
                 in0LeafIndex |-> Field(0), in0Path |-> PathFor(Appended(2), 0),
                 in1Amount |-> Field(AMT_B), in1Owner |-> SENDER_OWNER, in1Blinding |-> BlindingOf("B"),
                 in1LeafIndex |-> Field(1), in1Path |-> PathFor(Appended(2), 1),
                 spendingKey |-> SK,
                 out0Amount |-> Field(AMT_OUT0), out0Owner |-> RECIP_OWNER,
                 out0Blinding |-> BlindingOf("out0"),
                 out1Amount |-> Field(AMT_OUT1), out1Owner |-> SENDER_OWNER,
                 out1Blinding |-> BlindingOf("out1"),
                 viewCtHashSenderWitness |-> hash.sender, viewCtHashRecipientWitness |-> hash.recip]
            params ==
                [merkle_root |-> Hex(RootAfter(2)),
                 nullifiers |-> <<Hex(NullifierAt(2, 0)), Hex(NullifierAt(2, 1))>>,
                 commitments |-> <<Hex(CommitmentOut0), Hex(CommitmentOut1)>>,
                 auditor_pubkey |-> Hex(AUDITOR_FIELD), recipient_auditor_pubkey |-> Hex(AUDITOR_FIELD),
                 view_cts |-> <<sender, recip>>, note_cts |-> <<Encoded("out0"), Encoded("out1")>>]
            fixture == TransferFixture
            call == CallOf(fixture)
            args == fixture.args
            n0 == NullifierAt(2, 0)
            n1 == NullifierAt(2, 1)
            c0 == CommitmentOut0
            c1 == CommitmentOut1
            root == RootAfter(2)
            signals == <<root, n0, n1, c0, c1, AUDITOR_FIELD, AUDITOR_FIELD, Keccak(sender), Keccak(recip)>>
<1>1. fixture = Fixture("transfer", input, params, 4)
    BY DEF TransferFixture
<1>2. /\ DOMAIN params = {"merkle_root", "nullifiers", "commitments", "auditor_pubkey",
                          "recipient_auditor_pubkey", "view_cts", "note_cts"}
      /\ params.merkle_root = Hex(root)
      /\ params.nullifiers = <<Hex(n0), Hex(n1)>> /\ params.commitments = <<Hex(c0), Hex(c1)>>
      /\ params.auditor_pubkey = Hex(AUDITOR_FIELD)
      /\ params.recipient_auditor_pubkey = Hex(AUDITOR_FIELD)
      /\ params.view_cts = <<sender, recip>>
    OBVIOUS
<1>3. DOMAIN input = {"merkleRoot", "nullifier0", "nullifier1", "commitmentOut0", "commitmentOut1",
                     "auditorPubkey", "recipientAuditorPubkey", "viewCtHashSender",
                     "viewCtHashRecipient", "in0Amount", "in0Owner", "in0Blinding", "in0LeafIndex",
                     "in0Path", "in1Amount", "in1Owner", "in1Blinding", "in1LeafIndex", "in1Path",
                     "spendingKey", "out0Amount", "out0Owner", "out0Blinding", "out1Amount",
                     "out1Owner", "out1Blinding", "viewCtHashSenderWitness",
                     "viewCtHashRecipientWitness"}
    OBVIOUS
<1>4. /\ input.merkleRoot = root /\ input.nullifier0 = n0 /\ input.nullifier1 = n1
      /\ input.commitmentOut0 = c0 /\ input.commitmentOut1 = c1
      /\ input.auditorPubkey = AUDITOR_FIELD /\ input.recipientAuditorPubkey = AUDITOR_FIELD
      /\ input.viewCtHashSender = Keccak(sender) /\ input.viewCtHashRecipient = Keccak(recip)
      /\ input.viewCtHashSenderWitness = Keccak(sender)
      /\ input.viewCtHashRecipientWitness = Keccak(recip)
    BY DEF ViewCtHashFrom
<1>5. /\ input.in0Amount = Field(AMT_A) /\ input.in0Owner = SENDER_OWNER
      /\ input.in0Blinding = BlindingOf("A") /\ input.in0LeafIndex = Field(0)
      /\ input.in0Path = PathFor(Appended(2), 0)
      /\ input.in1Amount = Field(AMT_B) /\ input.in1Owner = SENDER_OWNER
      /\ input.in1Blinding = BlindingOf("B") /\ input.in1LeafIndex = Field(1)
      /\ input.in1Path = PathFor(Appended(2), 1) /\ input.spendingKey = SK
    OBVIOUS
<1>6. /\ input.out0Amount = Field(AMT_OUT0) /\ input.out0Owner = RECIP_OWNER
      /\ input.out0Blinding = BlindingOf("out0")
      /\ input.out1Amount = Field(AMT_OUT1) /\ input.out1Owner = SENDER_OWNER
      /\ input.out1Blinding = BlindingOf("out1")
    OBVIOUS
<1>. HIDE DEF params, input, sender, recip
<1>7. /\ args.merkle_root = Hex(root)
      /\ args.nullifiers = <<Hex(n0), Hex(n1)>> /\ args.commitments = <<Hex(c0), Hex(c1)>>
      /\ args.auditor_pubkey = Hex(AUDITOR_FIELD) /\ args.recipient_auditor_pubkey = Hex(AUDITOR_FIELD)
      /\ args.view_cts = <<sender, recip>> /\ "merkle_root" \in DOMAIN args
      /\ fixture.generated = Satisfies("transfer", input) /\ fixture.rootAfter = RootAfter(4)
      /\ fixture.method = "transfer"
    BY <1>1, <1>2 DEF Fixture
<1>. HIDE DEF fixture, n0, n1, c0, c1, root
<1>8. /\ root = tree.current_root
      /\ Included(CommitmentA, root, Field(0), PathFor(Appended(2), 0))
      /\ Included(CommitmentB, root, Field(1), PathFor(Appended(2), 1))
    <2>1. Len(leaves) = 2 /\ Appended(2)[1] = CommitmentA /\ Appended(2)[2] = CommitmentB
        BY AppendedIs
    <2>2. /\ root = tree.current_root
          /\ Included(Appended(2)[0 + 1], root, Field(0), PathFor(Appended(2), 0))
        BY <2>1, ScenarioPaths DEF root
    <2>3. Included(Appended(2)[1 + 1], root, Field(1), PathFor(Appended(2), 1))
        BY <2>1, ScenarioPaths DEF root
    <2>. QED BY <2>1, <2>2, <2>3
<1>9. fixture.generated
    <2>1. SignalNames("transfer") = DOMAIN input
        BY <1>3 DEF SignalNames, PublicSignals, PrivateSignals
    <2>2. Conserves(input.in0Amount, input.in1Amount, input.out0Amount, input.out1Amount)
        BY <1>5, <1>6, ScenarioFields DEF Conserves
    <2>3. /\ Commitment(input.in0Amount, input.in0Owner, input.auditorPubkey, input.in0Blinding) = CommitmentA
          /\ Commitment(input.in1Amount, input.in1Owner, input.auditorPubkey, input.in1Blinding) = CommitmentB
        BY <1>4, <1>5 DEF CommitmentA, CommitmentB, CommitmentOf
    <2>4. /\ input.in0Owner = OwnerPubkey(input.spendingKey) /\ input.in1Owner = OwnerPubkey(input.spendingKey)
        BY <1>5 DEF SENDER_OWNER
    <2>5. /\ input.nullifier0 = Nullifier(input.spendingKey, CommitmentA, input.in0LeafIndex)
          /\ input.nullifier1 = Nullifier(input.spendingKey, CommitmentB, input.in1LeafIndex)
          /\ input.nullifier0 # input.nullifier1
        BY <1>4, <1>5, ScenarioNullifiers DEF n0, n1
    <2>6. /\ Included(CommitmentA, input.merkleRoot, input.in0LeafIndex, input.in0Path)
          /\ Included(CommitmentB, input.merkleRoot, input.in1LeafIndex, input.in1Path)
        BY <1>4, <1>5, <1>8
    <2>7. /\ input.commitmentOut0
                = Commitment(input.out0Amount, input.out0Owner, input.recipientAuditorPubkey, input.out0Blinding)
          /\ input.commitmentOut1
                = Commitment(input.out1Amount, input.out1Owner, input.recipientAuditorPubkey, input.out1Blinding)
        BY <1>4, <1>6 DEF c0, c1, CommitmentOut0, CommitmentOut1, CommitmentOf
    <2>8. Transfer(input)
        BY <1>4, <2>2, <2>3, <2>4, <2>5, <2>6, <2>7 DEF Transfer
    <2>. QED BY <1>7, <2>1, <2>8 DEF Satisfies
<1>10. ContractInputs("transfer", args) = signals
    BY <1>7, StringsAreRead DEF ContractInputs, TransferInputs, ParseHex32
<1>11. Signals("transfer", input) = signals
    BY <1>4 DEF Signals, PublicSignals
<1>. HIDE DEF signals
<1>12. Verified(call) /\ call.args.proof # <<>> /\ call.method = "transfer"
    <2>1. "proof" \notin DOMAIN params /\ "transfer" \in Methods
        BY <1>2 DEF Methods
    <2>2. Signals("transfer", input) = ContractInputs("transfer", fixture.args)
        BY <1>10, <1>11
    <2>. QED BY <1>1, <2>1, <2>2, FixtureVerifies
<1>13. call.args = args /\ call.attached = ONE_NEAR
    BY <1>7 DEF CallOf
<1>14. Commitments(call) = <<c0, c1>>
    BY <1>7, <1>12, <1>13, StringsAreRead DEF Commitments, ParseHex32
<1>15. Spent(call) = {n0, n1}
    BY <1>7, <1>12, <1>13, StringsAreRead DEF Spent, ParseHex32
<1>16. leaves \o <<c0, c1>> = Appended(4) /\ Len(leaves) = 2
    <2>1. Len(leaves) = 2
        BY AppendedIs
    <2>. QED BY <2>1, AppendedGrow DEF c0, c1
<1>17. InsertAll(tree, <<c0, c1>>).current_root = RootAfter(4) /\ HasRoomFor(tree, 2)
    <2>. DEFINE cs == <<c0, c1>>
    <2>1. cs \in Seq({c0, c1}) /\ Len(cs) = 2 /\ leaves \o cs = Appended(4)
        BY <1>16
    <2>. HIDE DEF cs
    <2>2. Len(leaves) + Len(cs) <= Capacity
        BY <1>16, <2>1, RoomForFour
    <2>3. InsertAll(tree, cs).current_root = ClientRoot(leaves \o cs) /\ HasRoomFor(tree, Len(cs))
        BY <2>1, <2>2, RootForetold
    <2>. QED BY <2>1, <2>3 DEF cs, RootAfter
<1>18. Accepts(call)
    <2>1. call.attached >= TRANSFER_BYTES
        BY <1>13 DEF ONE_NEAR, TRANSFER_BYTES
    <2>2. IsWellFormed(call.args) /\ Contains(recent_roots, ParseHex32(call.args.merkle_root))
        <3>1. Len(Hex(root)) = 2
            BY DEF Hex
        <3>. QED BY <1>7, <1>8, <1>13, <3>1, StringsAreRead DEF IsWellFormed, IsHex32, ParseHex32
    <2>3. /\ ParseHex32(call.args.nullifiers[1]) = n0 /\ ParseHex32(call.args.nullifiers[2]) = n1
          /\ n0 # n1
        BY <1>7, <1>13, StringsAreRead, ScenarioNullifiers DEF ParseHex32, n0, n1
    <2>4. AcceptsTransfer(call)
        BY <1>12, <1>17, <2>1, <2>2, <2>3 DEF AcceptsTransfer
    <2>. QED BY <1>12, <2>4 DEF Accepts
<1>. QED BY <1>7, <1>9, <1>14, <1>15, <1>17, <1>18 DEF Replays, fixture, n0, n1, c0, c1

LEMMA WithdrawReplays ==
    ASSUME TreeFollows, leaves = Appended(4),
           nullifiers = {NullifierAt(2, 0), NullifierAt(2, 1)},
           Contains(recent_roots, tree.current_root)
    PROVE  Replays(WithdrawFixture) /\ Commitments(CallOf(WithdrawFixture)) = <<>>
<1>. DEFINE viewCt == Encoded("view of the withdraw")
            hash == ViewCtHashFrom(viewCt)
            input ==
                [merkleRoot |-> RootAfter(4), nullifier |-> NullifierAt(4, 3),
                 recipient |-> HashBytes("bob.test.near"), amount |-> Field(AMT_OUT1),
                 relayer |-> HashBytes("relayer.test.near"), relayerFee |-> Field(RELAYER_FEE),
                 auditorPubkey |-> AUDITOR_FIELD, viewCtHash |-> hash,
                 noteAmount |-> Field(AMT_OUT1), noteOwner |-> SENDER_OWNER,
                 noteAuditor |-> AUDITOR_FIELD, noteBlinding |-> BlindingOf("out1"),
                 spendingKey |-> SK, leafIndex |-> Field(3), merklePath |-> PathFor(Appended(4), 3),
                 viewCtHashWitness |-> hash]
            params ==
                [merkle_root |-> Hex(RootAfter(4)), nullifier |-> Hex(NullifierAt(4, 3)),
                 recipient |-> "bob.test.near", amount |-> Dec(AMT_OUT1),
                 auditor_pubkey |-> Hex(AUDITOR_FIELD), view_ct |-> viewCt,
                 relayer |-> "relayer.test.near", relayer_fee |-> Dec(RELAYER_FEE)]
            fixture == WithdrawFixture
            call == CallOf(fixture)
            args == fixture.args
            n == NullifierAt(4, 3)
            root == RootAfter(4)
            signals == <<root, n, HashBytes("bob.test.near"), Field(AMT_OUT1),
                         HashBytes("relayer.test.near"), Field(RELAYER_FEE), AUDITOR_FIELD, Keccak(viewCt)>>
<1>1. fixture = Fixture("withdraw", input, params, 4)
    BY DEF WithdrawFixture
<1>2. /\ DOMAIN params = {"merkle_root", "nullifier", "recipient", "amount", "auditor_pubkey",
                          "view_ct", "relayer", "relayer_fee"}
      /\ params.merkle_root = Hex(root) /\ params.nullifier = Hex(n)
      /\ params.recipient = "bob.test.near" /\ params.amount = Dec(AMT_OUT1)
      /\ params.auditor_pubkey = Hex(AUDITOR_FIELD) /\ params.view_ct = viewCt
      /\ params.relayer = "relayer.test.near" /\ params.relayer_fee = Dec(RELAYER_FEE)
    OBVIOUS
<1>3. DOMAIN input = {"merkleRoot", "nullifier", "recipient", "amount", "relayer", "relayerFee",
                     "auditorPubkey", "viewCtHash", "noteAmount", "noteOwner", "noteAuditor",
                     "noteBlinding", "spendingKey", "leafIndex", "merklePath", "viewCtHashWitness"}
    OBVIOUS
<1>4. /\ input.merkleRoot = root /\ input.nullifier = n
      /\ input.recipient = HashBytes("bob.test.near") /\ input.amount = Field(AMT_OUT1)
      /\ input.relayer = HashBytes("relayer.test.near") /\ input.relayerFee = Field(RELAYER_FEE)
      /\ input.auditorPubkey = AUDITOR_FIELD /\ input.viewCtHash = Keccak(viewCt)
      /\ input.viewCtHashWitness = Keccak(viewCt)
    BY DEF ViewCtHashFrom
<1>5. /\ input.noteAmount = Field(AMT_OUT1) /\ input.noteOwner = SENDER_OWNER
      /\ input.noteAuditor = AUDITOR_FIELD /\ input.noteBlinding = BlindingOf("out1")
      /\ input.spendingKey = SK /\ input.leafIndex = Field(3)
      /\ input.merklePath = PathFor(Appended(4), 3)
    OBVIOUS
<1>. HIDE DEF params, input, viewCt
<1>6. /\ args.merkle_root = Hex(root) /\ args.nullifier = Hex(n)
      /\ args.recipient = "bob.test.near" /\ args.amount = Dec(AMT_OUT1)
      /\ args.auditor_pubkey = Hex(AUDITOR_FIELD) /\ args.view_ct = viewCt
      /\ args.relayer = "relayer.test.near" /\ args.relayer_fee = Dec(RELAYER_FEE)
      /\ fixture.generated = Satisfies("withdraw", input) /\ fixture.rootAfter = RootAfter(4)
      /\ fixture.method = "withdraw"
    BY <1>1, <1>2 DEF Fixture
<1>. HIDE DEF fixture, n, root
<1>7. root = tree.current_root /\ Included(CommitmentOut1, root, Field(3), PathFor(Appended(4), 3))
    <2>1. Len(leaves) = 4 /\ Appended(4)[3 + 1] = CommitmentOut1
        BY AppendedIs
    <2>2. /\ root = tree.current_root
          /\ Included(Appended(4)[3 + 1], root, Field(3), PathFor(Appended(4), 3))
        BY <2>1, ScenarioPaths DEF root
    <2>. QED BY <2>1, <2>2
<1>8. fixture.generated
    <2>1. SignalNames("withdraw") = DOMAIN input
        BY <1>3 DEF SignalNames, PublicSignals, PrivateSignals
    <2>2. Commitment(input.noteAmount, input.noteOwner, input.noteAuditor, input.noteBlinding) = CommitmentOut1
        BY <1>5 DEF CommitmentOut1, CommitmentOf
    <2>3. input.noteOwner = OwnerPubkey(input.spendingKey)
        BY <1>5 DEF SENDER_OWNER
    <2>4. input.nullifier = Nullifier(input.spendingKey, CommitmentOut1, input.leafIndex)
        BY <1>4, <1>5, ScenarioNullifiers DEF n
    <2>5. input.noteAmount = input.amount /\ input.noteAuditor = input.auditorPubkey
          /\ input.viewCtHash = input.viewCtHashWitness
        BY <1>4, <1>5
    <2>6. U64Geq(input.amount, input.relayerFee)
        BY <1>4, ScenarioFields
    <2>7. Included(CommitmentOut1, input.merkleRoot, input.leafIndex, input.merklePath)
        BY <1>4, <1>5, <1>7
    <2>8. Withdraw(input)
        BY <2>2, <2>3, <2>4, <2>5, <2>6, <2>7 DEF Withdraw
    <2>. QED BY <1>6, <2>1, <2>8 DEF Satisfies
<1>9. ContractInputs("withdraw", args) = signals
    BY <1>6, StringsAreRead DEF ContractInputs, WithdrawInputs, ParseHex32, U128
<1>10. Signals("withdraw", input) = signals
    BY <1>4 DEF Signals, PublicSignals
<1>. HIDE DEF signals
<1>11. Verified(call) /\ call.args.proof # <<>> /\ call.method = "withdraw"
    <2>1. "proof" \notin DOMAIN params /\ "withdraw" \in Methods
        BY <1>2 DEF Methods
    <2>2. Signals("withdraw", input) = ContractInputs("withdraw", fixture.args)
        BY <1>9, <1>10
    <2>. QED BY <1>1, <2>1, <2>2, FixtureVerifies
<1>12. call.args = args /\ call.attached = ONE_NEAR
    BY <1>6 DEF CallOf
<1>13. Commitments(call) = <<>>
    BY <1>11 DEF Commitments
<1>14. InsertAll(tree, <<>>).current_root = RootAfter(4)
    <2>. DEFINE none == <<>>
    <2>1. none \in Seq({}) /\ Len(none) = 0 /\ leaves \o none = leaves /\ Len(leaves) = 4
        <3>1. PICK S : leaves \in Seq(S)
            BY DEF TreeFollows
        <3>2. Len(leaves) = 4
            BY AppendedIs
        <3>3. none \in Seq({}) /\ Len(none) = 0
            OBVIOUS
        <3>4. leaves \o <<>> = leaves
            BY <3>1, ConcatEmptySeq
        <3>. QED BY <3>2, <3>3, <3>4
    <2>. HIDE DEF none
    <2>2. Len(leaves) + Len(none) <= Capacity
        <3>1. 4 + 0 <= Capacity
            BY RoomForFour
        <3>. QED BY <2>1, <3>1, Zenon
    <2>3. InsertAll(tree, none).current_root = ClientRoot(leaves \o none)
        BY <2>1, <2>2, RootForetold
    <2>. QED BY <2>1, <2>3 DEF none, RootAfter
<1>15. Accepts(call)
    <2>1. call.attached >= WITHDRAW_BYTES
        BY <1>12 DEF ONE_NEAR, WITHDRAW_BYTES
    <2>2. IsWellFormed(call.args) /\ Contains(recent_roots, ParseHex32(call.args.merkle_root))
        <3>1. Len(Hex(root)) = 2
            BY DEF Hex
        <3>. QED BY <1>6, <1>7, <1>12, <3>1, StringsAreRead DEF IsWellFormed, IsHex32, ParseHex32
    <2>3. ParseHex32(call.args.nullifier) \notin nullifiers
        BY <1>6, <1>12, StringsAreRead, ScenarioNullifiers DEF ParseHex32, n
    <2>4. U128(call.args.relayer_fee) <= U128(call.args.amount)
        BY <1>6, <1>12, StringsAreRead, ScenarioFields DEF U128
    <2>5. AcceptsWithdraw(call)
        BY <1>11, <2>1, <2>2, <2>3, <2>4 DEF AcceptsWithdraw
    <2>. QED BY <1>11, <2>5 DEF Accepts
<1>. QED BY <1>6, <1>8, <1>13, <1>14, <1>15 DEF Replays, fixture

(* A window that takes a root accepts it. *)
LEMMA WindowTakes ==
    ASSUME NEW R, IsWindow(recent_roots, ROOTS_WINDOW, R), NEW root
    PROVE  /\ \E R2 : IsWindow(Push(recent_roots, root), ROOTS_WINDOW, R2)
           /\ Contains(Push(recent_roots, root), root)
<1>. DEFINE R2 == R \cup {root}
<1>1. recent_roots.roots \in Seq(R2)
    <2>1. recent_roots.roots \in Seq(R) /\ R \subseteq R2
        BY DEF IsWindow
    <2>. HIDE DEF R2
    <2>. QED BY <2>1
<1>2. IsWindow(recent_roots, ROOTS_WINDOW, R2)
    BY <1>1 DEF IsWindow
<1>3. root \in R2 /\ ROOTS_WINDOW \in Nat \ {0}
    BY PathAssumption
<1>. HIDE DEF R2
<1>4. /\ IsWindow(Push(recent_roots, root), ROOTS_WINDOW, R2)
      /\ Contains(Push(recent_roots, root), root)
    BY <1>2, <1>3, PushIsWindow, PushContains
<1>. QED BY <1>4

(* Where the pool is when a fixture's turn comes: it holds the leaves, and *)
(* has recorded the nullifiers, that the generator's local tree held.      *)
Turn(n, spent) ==
    /\ leaves = Appended(n) /\ nullifiers = spent
    /\ n > 0 => Contains(recent_roots, tree.current_root)

ScenarioNullifierSet == {NullifierAt(2, 0), NullifierAt(2, 1)}

ReplayInv ==
    left > 0 =>
        /\ \E R : IsWindow(recent_roots, ROOTS_WINDOW, R)
        /\ \/ left = 4 /\ Turn(0, {})
           \/ left = 3 /\ Turn(1, {})
           \/ left = 2 /\ Turn(2, {})
           \/ left = 1 /\ Turn(4, ScenarioNullifierSet)

LEMMA FixturesInOrder ==
    /\ left = 4 => NextFixture = DepositFixture("A", CommitmentA, AMT_A, 1)
    /\ left = 3 => NextFixture = DepositFixture("B", CommitmentB, AMT_B, 2)
    /\ left = 2 => NextFixture = TransferFixture
    /\ left = 1 => NextFixture = WithdrawFixture
<1>. DEFINE a == DepositFixture("A", CommitmentA, AMT_A, 1)
            b == DepositFixture("B", CommitmentB, AMT_B, 2)
            c == TransferFixture
            d == WithdrawFixture
<1>1. Fixtures = <<a, b, c, d>>
    BY DEF Fixtures
<1>. HIDE DEF a, b, c, d
<1>. QED BY <1>1 DEF NextFixture, a, b, c, d

(* What each turn does. *)
LEMMA TurnsReplay ==
    ASSUME TreeFollows
    PROVE  LET call == CallOf(NextFixture) IN
           /\ left = 4 /\ Turn(0, {}) =>
                 /\ Replays(NextFixture)
                 /\ Commitments(call) = <<CommitmentA>> /\ Spent(call) = {}
           /\ left = 3 /\ Turn(1, {}) =>
                 /\ Replays(NextFixture)
                 /\ Commitments(call) = <<CommitmentB>> /\ Spent(call) = {}
           /\ left = 2 /\ Turn(2, {}) =>
                 /\ Replays(NextFixture)
                 /\ Commitments(call) = <<CommitmentOut0, CommitmentOut1>>
                 /\ Spent(call) = ScenarioNullifierSet
           /\ left = 1 /\ Turn(4, ScenarioNullifierSet) => Replays(NextFixture)
<1>. DEFINE call == CallOf(NextFixture)
<1>1. ASSUME left = 4, Turn(0, {})
      PROVE  Replays(NextFixture) /\ Commitments(call) = <<CommitmentA>> /\ Spent(call) = {}
    <2>1. NextFixture = DepositFixture("A", CommitmentA, AMT_A, 1)
        BY <1>1, FixturesInOrder
    <2>2. leaves = Appended(0) /\ Appended(1) = leaves \o <<CommitmentA>>
        BY <1>1, AppendedGrow DEF Turn
    <2>3. Len(leaves) + 1 <= Capacity
        BY <2>2, AppendedIs, RoomForFour
    <2>4. CommitmentA = CommitmentOf("A", AMT_A, SENDER_OWNER)
        BY DEF CommitmentA
    <2>. QED BY <2>1, <2>2, <2>3, <2>4, DepositReplays
<1>2. ASSUME left = 3, Turn(1, {})
      PROVE  Replays(NextFixture) /\ Commitments(call) = <<CommitmentB>> /\ Spent(call) = {}
    <2>1. NextFixture = DepositFixture("B", CommitmentB, AMT_B, 2)
        BY <1>2, FixturesInOrder
    <2>2. leaves = Appended(1) /\ Appended(2) = leaves \o <<CommitmentB>>
        BY <1>2, AppendedGrow DEF Turn
    <2>3. Len(leaves) + 1 <= Capacity
        BY <2>2, AppendedIs, RoomForFour
    <2>4. CommitmentB = CommitmentOf("B", AMT_B, SENDER_OWNER)
        BY DEF CommitmentB
    <2>. QED BY <2>1, <2>2, <2>3, <2>4, DepositReplays
<1>3. ASSUME left = 2, Turn(2, {})
      PROVE  /\ Replays(NextFixture)
             /\ Commitments(call) = <<CommitmentOut0, CommitmentOut1>>
             /\ Spent(call) = ScenarioNullifierSet
    BY <1>3, FixturesInOrder, TransferReplays DEF Turn, ScenarioNullifierSet
<1>4. ASSUME left = 1, Turn(4, ScenarioNullifierSet) PROVE Replays(NextFixture)
    BY <1>4, FixturesInOrder, WithdrawReplays DEF Turn, ScenarioNullifierSet
<1>. QED BY <1>1, <1>2, <1>3, <1>4

LEMMA ReplayStarts == ASSUME E2EInit PROVE ReplayInv
<1>. SUFFICES ASSUME left > 0 PROVE ReplayInv
    BY DEF ReplayInv
<1>1. left = 4 /\ leaves = <<>>
    BY FixtureMethods DEF E2EInit
<1>2. PICK n \in 0 .. Capacity :
          /\ StartWith([i \in 1 .. n |-> Stranger(i - 1)])
          /\ recent_roots = IF n = 0 THEN NewWindow(ROOTS_WINDOW)
                            ELSE Push(NewWindow(ROOTS_WINDOW), tree.current_root)
    BY DEF E2EInit, Init
<1>3. n = 0
    <2>1. leaves = [i \in 1 .. n |-> Stranger(i - 1)] /\ n \in Nat
        BY <1>2, Widths DEF StartWith
    <2>2. DOMAIN leaves = 1 .. n /\ DOMAIN leaves = {}
        BY <1>1, <2>1
    <2>. QED BY <2>1, <2>2
<1>4. IsWindow(recent_roots, ROOTS_WINDOW, {})
    BY <1>2, <1>3, PathAssumption, NewWindowIsWindow
<1>5. Turn(0, {})
    BY <1>1, AppendedIs DEF E2EInit, Init, Turn
<1>. QED BY <1>1, <1>4, <1>5 DEF ReplayInv

LEMMA ReplaySteps == ASSUME TreeFollows, ReplayInv, Replay PROVE ReplayInv'
<1>. DEFINE call == CallOf(NextFixture)
<1>1. /\ nullifiers' = nullifiers \cup Spent(call) /\ leaves' = leaves \o Commitments(call)
      /\ recent_roots' = IF Commitments(call) = <<>> THEN recent_roots
                         ELSE Push(recent_roots, tree'.current_root)
      /\ left > 0 /\ left' = left - 1
    BY DEF Replay, Apply, Insert
<1>2. PICK R : IsWindow(recent_roots, ROOTS_WINDOW, R)
    BY <1>1 DEF ReplayInv
<1>3. ASSUME Commitments(call) # <<>>
      PROVE  /\ \E R2 : IsWindow(recent_roots', ROOTS_WINDOW, R2)
             /\ Contains(recent_roots', tree'.current_root)
    BY <1>1, <1>2, <1>3, WindowTakes
<1>. HIDE DEF call
<1>4. CASE left = 4 /\ Turn(0, {})
    <2>1. Commitments(call) = <<CommitmentA>> /\ Spent(call) = {}
        BY <1>4, TurnsReplay DEF call
    <2>2. leaves' = Appended(1) /\ nullifiers' = {}
        BY <1>1, <1>4, <2>1, AppendedGrow DEF Turn
    <2>3. Commitments(call) # <<>>
        BY <2>1
    <2>. QED BY <1>1, <1>3, <1>4, <2>2, <2>3 DEF ReplayInv, Turn
<1>5. CASE left = 3 /\ Turn(1, {})
    <2>1. Commitments(call) = <<CommitmentB>> /\ Spent(call) = {}
        BY <1>5, TurnsReplay DEF call
    <2>2. leaves' = Appended(2) /\ nullifiers' = {}
        BY <1>1, <1>5, <2>1, AppendedGrow DEF Turn
    <2>3. Commitments(call) # <<>>
        BY <2>1
    <2>. QED BY <1>1, <1>3, <1>5, <2>2, <2>3 DEF ReplayInv, Turn
<1>6. CASE left = 2 /\ Turn(2, {})
    <2>1. /\ Commitments(call) = <<CommitmentOut0, CommitmentOut1>>
          /\ Spent(call) = ScenarioNullifierSet
        BY <1>6, TurnsReplay DEF call
    <2>2. leaves' = Appended(4) /\ nullifiers' = ScenarioNullifierSet
        BY <1>1, <1>6, <2>1, AppendedGrow DEF Turn
    <2>3. Commitments(call) # <<>>
        BY <2>1
    <2>. QED BY <1>1, <1>3, <1>6, <2>2, <2>3 DEF ReplayInv, Turn, ScenarioNullifierSet
<1>7. CASE left = 1
    BY <1>1, <1>7 DEF ReplayInv
<1>. QED BY <1>1, <1>4, <1>5, <1>6, <1>7 DEF ReplayInv

LEMMA ReplayAlways == E2ESpec => []ReplayInv
<1>1. E2EInit => ReplayInv
    BY ReplayStarts
<1>2. E2EInv /\ ReplayInv /\ [E2ENext]_<<vars, left>> => ReplayInv'
    <2>. SUFFICES ASSUME E2EInv, ReplayInv, [E2ENext]_<<vars, left>> PROVE ReplayInv'
        OBVIOUS
    <2>1. CASE Replay
        BY <2>1, ReplaySteps DEF E2EInv, PathInv
    <2>2. CASE left = 0 /\ UNCHANGED left
        BY <2>2 DEF ReplayInv
    <2>3. CASE UNCHANGED <<vars, left>>
        BY <2>3 DEF vars, ReplayInv, Turn, ScenarioNullifierSet
    <2>. QED BY <2>1, <2>2, <2>3 DEF E2ENext
<1>. QED BY <1>1, <1>2, TreeFollowsAlways, PTL DEF E2ESpec

(* The generator's insertion order mirrors the contract's: each fixture is *)
(* generated before the pool exists, is accepted at its turn, and leaves   *)
(* the root it foretold, for every depth, field and amounts that add up    *)
(* (gen-e2e-fixtures.ts, e2e_real_proofs.rs). *)
THEOREM FixturesAlwaysReplay == E2ESpec => []FixturesReplay
<1>1. E2EInv /\ ReplayInv => FixturesReplay
    <2>. SUFFICES ASSUME E2EInv, ReplayInv, left > 0 PROVE Replays(NextFixture)
        BY DEF FixturesReplay, Replays
    <2>1. TreeFollows
        BY DEF E2EInv, PathInv
    <2>. QED BY <2>1, TurnsReplay DEF ReplayInv
<1>. QED BY <1>1, TreeFollowsAlways, ReplayAlways, PTL
================================================================================

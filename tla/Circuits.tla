------------------------------- MODULE Circuits -------------------------------
(***************************************************************************)
(* The three circuits (circom/circuits): their signals, and what they      *)
(* constrain, over a field of any order.  Poseidon and the commitments     *)
(* made with it are free constructors; amounts and leaf indices are        *)
(* numbers, and wrap.                                                      *)
(***************************************************************************)
EXTENDS MerkleTree

CONSTANTS
    FieldOrder,      \* of BN254's scalar field, above 2^253
    RANGE_BITS,      \* RangeCheck(128)
    WITHDRAW_BITS    \* U64Geq: 64

ASSUME FieldAssumption ==
    /\ FieldOrder \in Nat /\ RANGE_BITS \in Nat /\ WITHDRAW_BITS \in Nat
    /\ 2 ^ RANGE_BITS \in Nat /\ 2 ^ WITHDRAW_BITS \in Nat
    /\ 2 * 2 ^ RANGE_BITS <= FieldOrder
    /\ 2 * 2 ^ WITHDRAW_BITS <= FieldOrder

(* A leaf index is its own field element. *)
ASSUME LeafIndexAssumption == Capacity <= FieldOrder

------------------------------------------------------------------------------
(* Field elements that are numbers.  *)
Field(n) == <<"field", n % FieldOrder>>

Value(f) == f[2]

Plus(f, g) == Field(Value(f) + Value(g))

Minus(f, g) == Field(Value(f) - Value(g))

(* Num2Bits: the value has n bits. *)
HasBits(f, n) == Value(f) < 2 ^ n

\* Fault: the amounts of a transfer are not range-checked.
InAnyRange(f) == TRUE

RangeCheck(f) == HasBits(f, RANGE_BITS)

U64Geq(a, b) ==
    /\ HasBits(a, WITHDRAW_BITS) /\ HasBits(b, WITHDRAW_BITS)
    /\ HasBits(Minus(a, b), WITHDRAW_BITS)

(* lib/commit.circom *)
Commitment(amount, owner, auditor, blinding) == <<"poseidon4", amount, owner, auditor, blinding>>

OwnerPubkey(spendingKey) == Hash(spendingKey, Field(0))

Nullifier(spendingKey, commitment, leafIndex) == Hash(spendingKey, Hash(commitment, leafIndex))

Included(leaf, root, leafIndex, path) ==
    HasBits(leafIndex, DEPTH) /\ MerkleInclusion(leaf, root, Value(leafIndex), path)

------------------------------------------------------------------------------
(* component main { public [...] }: the order of a proof's public signals. *)
PublicSignals ==
    [ deposit  |-> <<"commitment", "amount", "auditorPubkey", "viewCtHash">>,
      transfer |-> <<"merkleRoot", "nullifier0", "nullifier1", "commitmentOut0", "commitmentOut1",
                     "auditorPubkey", "recipientAuditorPubkey", "viewCtHashSender",
                     "viewCtHashRecipient">>,
      withdraw |-> <<"merkleRoot", "nullifier", "recipient", "amount", "relayer", "relayerFee",
                     "auditorPubkey", "viewCtHash">> ]

PrivateSignals ==
    [ deposit  |-> {"ownerPubkey", "blinding", "viewCtHashWitness"},
      transfer |-> {"in0Amount", "in0Owner", "in0Blinding", "in0LeafIndex", "in0Path",
                    "in1Amount", "in1Owner", "in1Blinding", "in1LeafIndex", "in1Path",
                    "spendingKey", "out0Amount", "out0Owner", "out0Blinding",
                    "out1Amount", "out1Owner", "out1Blinding",
                    "viewCtHashSenderWitness", "viewCtHashRecipientWitness"},
      withdraw |-> {"noteAmount", "noteOwner", "noteAuditor", "noteBlinding", "spendingKey",
                    "leafIndex", "merklePath", "viewCtHashWitness"} ]

SignalNames(circuit) ==
    {PublicSignals[circuit][k] : k \in DOMAIN PublicSignals[circuit]} \cup PrivateSignals[circuit]

------------------------------------------------------------------------------
(* The constraints on an assignment s of the signals. *)

Deposit(s) ==
    /\ s.commitment = Commitment(s.amount, s.ownerPubkey, s.auditorPubkey, s.blinding)
    /\ s.viewCtHash = s.viewCtHashWitness

(* Four amounts in range, equal sums. *)
Conserves(in0, in1, out0, out1) ==
    /\ RangeCheck(in0) /\ RangeCheck(in1) /\ RangeCheck(out0) /\ RangeCheck(out1)
    /\ Plus(in0, in1) = Plus(out0, out1)

Transfer(s) ==
    LET in0 == Commitment(s.in0Amount, s.in0Owner, s.auditorPubkey, s.in0Blinding)
        in1 == Commitment(s.in1Amount, s.in1Owner, s.auditorPubkey, s.in1Blinding)
    IN
    /\ Conserves(s.in0Amount, s.in1Amount, s.out0Amount, s.out1Amount)
    /\ s.in0Owner = OwnerPubkey(s.spendingKey) /\ s.in1Owner = OwnerPubkey(s.spendingKey)
    /\ s.nullifier0 = Nullifier(s.spendingKey, in0, s.in0LeafIndex)
    /\ s.nullifier1 = Nullifier(s.spendingKey, in1, s.in1LeafIndex)
    /\ s.nullifier0 # s.nullifier1
    /\ Included(in0, s.merkleRoot, s.in0LeafIndex, s.in0Path)
    /\ Included(in1, s.merkleRoot, s.in1LeafIndex, s.in1Path)
    /\ s.commitmentOut0
          = Commitment(s.out0Amount, s.out0Owner, s.recipientAuditorPubkey, s.out0Blinding)
    /\ s.commitmentOut1
          = Commitment(s.out1Amount, s.out1Owner, s.recipientAuditorPubkey, s.out1Blinding)
    /\ s.viewCtHashSender = s.viewCtHashSenderWitness
    /\ s.viewCtHashRecipient = s.viewCtHashRecipientWitness

Withdraw(s) ==
    LET note == Commitment(s.noteAmount, s.noteOwner, s.noteAuditor, s.noteBlinding) IN
    /\ s.noteOwner = OwnerPubkey(s.spendingKey)
    /\ s.nullifier = Nullifier(s.spendingKey, note, s.leafIndex)
    /\ s.noteAmount = s.amount /\ s.noteAuditor = s.auditorPubkey
    /\ U64Geq(s.amount, s.relayerFee)
    /\ s.viewCtHash = s.viewCtHashWitness
    /\ Included(note, s.merkleRoot, s.leafIndex, s.merklePath)

(* What snarkjs makes a proof of: an assignment of exactly the circuit's   *)
(* signals that satisfies its constraints. *)
Satisfies(circuit, s) ==
    /\ DOMAIN s = SignalNames(circuit)
    /\ CASE circuit = "deposit"  -> Deposit(s)
         [] circuit = "transfer" -> Transfer(s)
         [] circuit = "withdraw" -> Withdraw(s)
==============================================================================

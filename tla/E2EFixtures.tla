----------------------------- MODULE E2EFixtures -----------------------------
(***************************************************************************)
(* The connected scenario of the end-to-end test: four calls generated     *)
(* off-chain against a local tree (circom/scripts/gen-e2e-fixtures.ts),    *)
(* one after the other, and replayed against an empty pool                 *)
(* (contract/tests/e2e_real_proofs.rs).  The users of ProofPath go on from *)
(* there, or start without it.                                             *)
(***************************************************************************)
EXTENDS ProofPath

CONSTANTS AMT_A, AMT_B, AMT_OUT0, AMT_OUT1, RELAYER_FEE   \* 60, 40, 70, 30, 2

ASSUME ScenarioAssumption ==
    /\ {AMT_A, AMT_B, AMT_OUT0, AMT_OUT1} \subseteq 0 .. 2 ^ RANGE_BITS - 1
    /\ AMT_A + AMT_B = AMT_OUT0 + AMT_OUT1
    /\ RELAYER_FEE \in 0 .. AMT_OUT1 /\ AMT_OUT1 < 2 ^ WITHDRAW_BITS
    /\ DEPTH >= 2

VARIABLE left     \* the number of calls to replay

------------------------------------------------------------------------------
(* The generator. *)

SK == SpendingKey("generator")
SENDER_OWNER == OwnerPubkey(SK)
RECIP_OWNER == <<"owner", "recipient">>
AUDITOR_FIELD == HashBytes("auditor")

BlindingOf(name) == <<"blinding", name>>

CommitmentOf(name, amount, owner) ==
    Commitment(Field(amount), owner, AUDITOR_FIELD, BlindingOf(name))

CommitmentA == CommitmentOf("A", AMT_A, SENDER_OWNER)
CommitmentB == CommitmentOf("B", AMT_B, SENDER_OWNER)
CommitmentOut0 == CommitmentOf("out0", AMT_OUT0, RECIP_OWNER)
CommitmentOut1 == CommitmentOf("out1", AMT_OUT1, SENDER_OWNER)

\* Fault: the change is appended before the recipient's note.
AppendedChangeFirst(n) == SubSeq(<<CommitmentA, CommitmentB, CommitmentOut1, CommitmentOut0>>, 1, n)

(* The local tree once n commitments are in it. *)
Appended(n) == SubSeq(<<CommitmentA, CommitmentB, CommitmentOut0, CommitmentOut1>>, 1, n)

RootAfter(n) == ClientRoot(Appended(n))

NullifierAt(n, leafIndex) == Nullifier(SK, Appended(n)[leafIndex + 1], Field(leafIndex))

ViewCtHashFrom(viewCt) == Keccak(viewCt)

(* proveAndVerify and writeFixture: the inputs must satisfy the circuit; a *)
(* fixture is the proof, the parameters, and the root once it is applied.  *)
Fixture(circuit, input, params, n) ==
    LET proof == SnarkjsProofToBytes(SnarkjsProof(circuit, Signals(circuit, input))) IN
    [ generated |-> Satisfies(circuit, input),
      method    |-> circuit,
      args      |-> [f \in DOMAIN params \cup {"proof"} |-> IF f = "proof" THEN proof ELSE params[f]],
      rootAfter |-> RootAfter(n) ]

DepositFixture(name, commitment, amount, n) ==
    LET viewCt == Encoded(<<"view", name>>)
        hash == ViewCtHashFrom(viewCt)
    IN  Fixture("deposit",
            [commitment |-> commitment, amount |-> Field(amount), auditorPubkey |-> AUDITOR_FIELD,
             viewCtHash |-> hash, ownerPubkey |-> SENDER_OWNER, blinding |-> BlindingOf(name),
             viewCtHashWitness |-> hash],
            [commitment |-> Hex(commitment), amount |-> Dec(amount),
             auditor_pubkey |-> Hex(AUDITOR_FIELD), view_ct |-> viewCt, note_ct |-> Encoded(name)],
            n)

TransferFixture ==
    LET sender == Encoded("view of the sender")
        recip == Encoded("view of the recipient")
        hash == [sender |-> ViewCtHashFrom(sender), recip |-> ViewCtHashFrom(recip)]
    IN  Fixture("transfer",
            [merkleRoot |-> RootAfter(2),
             nullifier0 |-> NullifierAt(2, 0), nullifier1 |-> NullifierAt(2, 1),
             commitmentOut0 |-> CommitmentOut0, commitmentOut1 |-> CommitmentOut1,
             auditorPubkey |-> AUDITOR_FIELD, recipientAuditorPubkey |-> AUDITOR_FIELD,
             viewCtHashSender |-> hash.sender, viewCtHashRecipient |-> hash.recip,
             in0Amount |-> Field(AMT_A), in0Owner |-> SENDER_OWNER, in0Blinding |-> BlindingOf("A"),
             in0LeafIndex |-> Field(0), in0Path |-> PathFor(Appended(2), 0),
             in1Amount |-> Field(AMT_B), in1Owner |-> SENDER_OWNER, in1Blinding |-> BlindingOf("B"),
             in1LeafIndex |-> Field(1), in1Path |-> PathFor(Appended(2), 1),
             spendingKey |-> SK,
             out0Amount |-> Field(AMT_OUT0), out0Owner |-> RECIP_OWNER,
             out0Blinding |-> BlindingOf("out0"),
             out1Amount |-> Field(AMT_OUT1), out1Owner |-> SENDER_OWNER,
             out1Blinding |-> BlindingOf("out1"),
             viewCtHashSenderWitness |-> hash.sender, viewCtHashRecipientWitness |-> hash.recip],
            [merkle_root |-> Hex(RootAfter(2)),
             nullifiers |-> <<Hex(NullifierAt(2, 0)), Hex(NullifierAt(2, 1))>>,
             commitments |-> <<Hex(CommitmentOut0), Hex(CommitmentOut1)>>,
             auditor_pubkey |-> Hex(AUDITOR_FIELD), recipient_auditor_pubkey |-> Hex(AUDITOR_FIELD),
             view_cts |-> <<sender, recip>>, note_cts |-> <<Encoded("out0"), Encoded("out1")>>],
            4)

(* The change is spent, from where the transfer put it. *)
WithdrawFixture ==
    LET viewCt == Encoded("view of the withdraw")
        hash == ViewCtHashFrom(viewCt)
    IN  Fixture("withdraw",
            [merkleRoot |-> RootAfter(4), nullifier |-> NullifierAt(4, 3),
             recipient |-> HashBytes("bob.test.near"), amount |-> Field(AMT_OUT1),
             relayer |-> HashBytes("relayer.test.near"), relayerFee |-> Field(RELAYER_FEE),
             auditorPubkey |-> AUDITOR_FIELD, viewCtHash |-> hash,
             noteAmount |-> Field(AMT_OUT1), noteOwner |-> SENDER_OWNER,
             noteAuditor |-> AUDITOR_FIELD, noteBlinding |-> BlindingOf("out1"),
             spendingKey |-> SK, leafIndex |-> Field(3), merklePath |-> PathFor(Appended(4), 3),
             viewCtHashWitness |-> hash],
            [merkle_root |-> Hex(RootAfter(4)), nullifier |-> Hex(NullifierAt(4, 3)),
             recipient |-> "bob.test.near", amount |-> Dec(AMT_OUT1),
             auditor_pubkey |-> Hex(AUDITOR_FIELD), view_ct |-> viewCt,
             relayer |-> "relayer.test.near", relayer_fee |-> Dec(RELAYER_FEE)],
            4)

Fixtures ==
    <<DepositFixture("A", CommitmentA, AMT_A, 1), DepositFixture("B", CommitmentB, AMT_B, 2),
      TransferFixture, WithdrawFixture>>

------------------------------------------------------------------------------
(* The test: deposits through ft_on_transfer, spends with 1 NEAR. *)

CallOf(fixture) ==
    [ method |-> fixture.method, args |-> fixture.args, attached |-> ONE_NEAR,
      tokens |-> IF fixture.method = "deposit" THEN fixture.args.amount ELSE Dec(0) ]

NextFixture == Fixtures[Len(Fixtures) + 1 - left]

Replay ==
    /\ left > 0
    /\ Apply(CallOf(NextFixture))
    /\ left' = left - 1
    /\ UNCHANGED <<wallets, job>>

E2EInit ==
    /\ Init
    /\ left = 0 \/ (left = Len(Fixtures) /\ leaves = <<>>)

E2ENext == Replay \/ (left = 0 /\ Next /\ UNCHANGED left)

E2ESpec == E2EInit /\ [][E2ENext]_<<vars, left>>

------------------------------------------------------------------------------
(* "the fixture-generator's off-chain tree insertion order must exactly    *)
(* mirror the contract's IncrementalMerkleTree insertion order"            *)
(* (e2e_real_proofs.rs): every fixture can be generated before the pool    *)
(* exists, is accepted at its turn, and leaves the root it foretold.       *)
FixturesReplay ==
    left > 0 =>
        /\ NextFixture.generated
        /\ Accepts(CallOf(NextFixture))
        /\ InsertAll(tree, Commitments(CallOf(NextFixture))).current_root = NextFixture.rootAfter
==============================================================================

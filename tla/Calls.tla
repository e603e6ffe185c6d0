--------------------------------- MODULE Calls ---------------------------------
(***************************************************************************)
(* From a transaction the wallet builds to the contract's verifier: the    *)
(* request to the prover (wallet.ts), the assignment snarkjs is given      *)
(* (snarkjs-prover.ts), proof and key as bytes (groth16-adapter.ts and     *)
(* groth16.rs), the JSON of the call (envelopes.ts, near-submitter.ts),    *)
(* and the public inputs the contract rebuilds from it.                    *)
(*                                                                         *)
(* Hashes, keys and the points of a proof are free constructors.  Bytes    *)
(* are counted in coordinates of 32.  An array of field elements is a      *)
(* function, and its strings are one value.                                *)
(***************************************************************************)
EXTENDS Circuits, RootsWindow, Wallet, TLC

(* Strings. *)
Hex(f) == <<"0x", f>>                  \* Field.toHex
Dec(n) == <<"dec", n>>                 \* bigint.toString
NoString == <<"">>
Encoded(ct) == <<"0x", ct>>            \* encodeCiphertext

HashBytes(bytes) == <<"hashBytes", bytes>>

\* Fault: the digest is taken before it is fed.
KeccakOfNothing(bytes) == <<"keccak", "">>

Keccak(bytes) == <<"keccak", bytes>>

EmptyLeaf == Field(0)

------------------------------------------------------------------------------
(* Notes. *)

SpendingKey(user) == <<"spendingKey", user>>

OwnerOf(user) == OwnerPubkey(SpendingKey(user))

AuditorField(auditor) == HashBytes(auditor)

(* Random; notes alike in all else share it here, and so a commitment. *)
Blinding(note) == <<"blinding", note>>

CommitNote(note) ==
    Commitment(Field(note.amount), OwnerOf(note.owner), AuditorField(note.auditor), Blinding(note))

NullifierOf(user, input) ==
    Nullifier(SpendingKey(user), CommitNote(input.note), Field(input.leafIndex))

------------------------------------------------------------------------------
(* Requests.  An order is a transaction tx of the wallet with what else    *)
(* its builder was given: the user, the inputs chosen, their paths, the    *)
(* accounts of a withdraw. *)

\* Fault: the sealed bytes are hashed, not their encoding.
ViewCtHashRaw(ct) == Keccak(<<"bytes", ct>>)

(* Of the very string the contract receives. *)
ViewCtHash(ct) == Keccak(Encoded(ct))

DepositRequest(o) ==
    LET note == o.tx.creates[1]
        hash == Hex(ViewCtHash(o.tx.viewCts[1]))
    IN
    [ circuit |-> "deposit",
      publicInputs |-> <<Hex(CommitNote(note)), Hex(Field(o.tx.amount)),
                         Hex(AuditorField(o.tx.auditors[1])), hash>>,
      witness |-> [ownerPubkey |-> Hex(OwnerOf(o.user)), blinding |-> Hex(Blinding(note)),
                   viewCtHashWitness |-> hash] ]

TransferRequest(o) ==
    LET in == [k \in {1, 2} |-> o.inputs[k].note]
        out == o.tx.creates
        hash == [k \in {1, 2} |-> Hex(ViewCtHash(o.tx.viewCts[k]))]
    IN
    [ circuit |-> "transfer",
      publicInputs |->
        <<o.tx.root, Hex(NullifierOf(o.user, o.inputs[1])), Hex(NullifierOf(o.user, o.inputs[2])),
          Hex(CommitNote(out[1])), Hex(CommitNote(out[2])),
          Hex(AuditorField(o.tx.auditors[1])), Hex(AuditorField(o.tx.auditors[2])),
          hash[1], hash[2]>>,
      witness |->
        [in0Amount |-> Hex(Field(in[1].amount)), in0OwnerPubkey |-> Hex(OwnerOf(in[1].owner)),
         in0Blinding |-> Hex(Blinding(in[1])), in0Path |-> Hex(o.paths[1]),
         in0LeafIndex |-> Hex(Field(o.inputs[1].leafIndex)),
         in1Amount |-> Hex(Field(in[2].amount)), in1OwnerPubkey |-> Hex(OwnerOf(in[2].owner)),
         in1Blinding |-> Hex(Blinding(in[2])), in1Path |-> Hex(o.paths[2]),
         in1LeafIndex |-> Hex(Field(o.inputs[2].leafIndex)),
         spendingKey |-> Hex(SpendingKey(o.user)),
         out0Amount |-> Hex(Field(out[1].amount)), out0OwnerPubkey |-> Hex(OwnerOf(out[1].owner)),
         out0Blinding |-> Hex(Blinding(out[1])),
         out1Amount |-> Hex(Field(out[2].amount)), out1OwnerPubkey |-> Hex(OwnerOf(out[2].owner)),
         out1Blinding |-> Hex(Blinding(out[2])),
         viewCtHashSenderWitness |-> hash[1], viewCtHashRecipientWitness |-> hash[2]] ]

WithdrawRequest(o) ==
    LET note == o.inputs[1].note
        hash == Hex(ViewCtHash(o.tx.viewCts[1]))
    IN
    [ circuit |-> "withdraw",
      publicInputs |->
        <<o.tx.root, Hex(NullifierOf(o.user, o.inputs[1])), Hex(HashBytes(o.recipient)),
          Hex(Field(o.tx.amount)), Hex(HashBytes(o.relayer)), Hex(Field(o.tx.fee)),
          Hex(AuditorField(note.auditor)), hash>>,
      witness |->
        [noteAmount |-> Hex(Field(note.amount)), noteOwnerPubkey |-> Hex(OwnerOf(note.owner)),
         noteAuditorPubkey |-> Hex(AuditorField(note.auditor)), noteBlinding |-> Hex(Blinding(note)),
         spendingKey |-> Hex(SpendingKey(o.user)), leafIndex |-> Hex(Field(o.inputs[1].leafIndex)),
         merklePath |-> Hex(o.paths[1]), viewCtHashWitness |-> hash] ]

RequestOf(o) ==
    CASE o.tx.method = "deposit"  -> DepositRequest(o)
      [] o.tx.method = "transfer" -> TransferRequest(o)
      [] o.tx.method = "withdraw" -> WithdrawRequest(o)

(* BuiltTx, but for what no envelope reads. *)
PublicInputs(o, root) ==
    CASE o.tx.method = "deposit" ->
            [commitment |-> Hex(CommitNote(o.tx.creates[1])), amount |-> Dec(o.tx.amount),
             auditorPubkey |-> Hex(AuditorField(o.tx.auditors[1]))]
      [] o.tx.method = "transfer" ->
            [merkleRoot |-> root,
             nullifiers |-> [k \in {1, 2} |-> Hex(NullifierOf(o.user, o.inputs[k]))],
             commitments |-> [k \in {1, 2} |-> Hex(CommitNote(o.tx.creates[k]))],
             auditorPubkey |-> Hex(AuditorField(o.tx.auditors[1])),
             recipientAuditorPubkey |-> Hex(AuditorField(o.tx.auditors[2]))]
      [] o.tx.method = "withdraw" ->
            [merkleRoot |-> root, nullifier |-> Hex(NullifierOf(o.user, o.inputs[1])),
             recipient |-> o.recipient, amount |-> Dec(o.tx.amount), relayer |-> o.relayer,
             relayerFee |-> Dec(o.tx.fee), auditorPubkey |-> Hex(AuditorField(o.tx.auditors[1]))]

BuiltTx(o, root, proof) ==
    [ method |-> o.tx.method, publicInputs |-> PublicInputs(o, root), proof |-> proof,
      viewCiphertexts |-> o.tx.viewCts, noteCiphertexts |-> o.tx.noteCts ]

------------------------------------------------------------------------------
(* The prover. *)

PUBLIC_NAMES ==
    [ deposit  |-> <<"commitment", "amount", "auditorPubkey", "viewCtHash">>,
      transfer |-> <<"merkleRoot", "nullifier0", "nullifier1", "commitmentOut0", "commitmentOut1",
                     "auditorPubkey", "recipientAuditorPubkey", "viewCtHashSender",
                     "viewCtHashRecipient">>,
      withdraw |-> <<"merkleRoot", "nullifier", "recipient", "amount", "relayer", "relayerFee",
                     "auditorPubkey", "viewCtHash">> ]

\* Fault: the withdraw's names are not renamed.
RENAMEMissing ==
    [ deposit |-> <<>>,
      transfer |-> [in0OwnerPubkey |-> "in0Owner", in1OwnerPubkey |-> "in1Owner",
                    out0OwnerPubkey |-> "out0Owner", out1OwnerPubkey |-> "out1Owner"],
      withdraw |-> <<>> ]

RENAME ==
    [ deposit |-> <<>>,
      transfer |-> [in0OwnerPubkey |-> "in0Owner", in1OwnerPubkey |-> "in1Owner",
                    out0OwnerPubkey |-> "out0Owner", out1OwnerPubkey |-> "out1Owner"],
      withdraw |-> [noteOwnerPubkey |-> "noteOwner", noteAuditorPubkey |-> "noteAuditor"] ]

(* proveRequestToCircomInput: public inputs by position, witnesses by name. *)
CircomInput(request) ==
    LET names == PUBLIC_NAMES[request.circuit]
        renames == RENAME[request.circuit]
        SignalOf(key) == IF key \in DOMAIN renames THEN renames[key] ELSE key
        Positions(name) == {k \in DOMAIN names : names[k] = name}
        Keys(name) == {key \in DOMAIN request.witness : SignalOf(key) = name}
        Conv(string) == string[2]
    IN  [name \in Range(names) \cup {SignalOf(key) : key \in DOMAIN request.witness} |->
            IF Keys(name) # {}
            THEN Conv(request.witness[CHOOSE key \in Keys(name) : TRUE])
            ELSE Conv(request.publicInputs[CHOOSE k \in Positions(name) : TRUE])]

(* fullProve makes a witness of the input, or throws. *)
Provable(request) ==
    /\ Len(request.publicInputs) = Len(PUBLIC_NAMES[request.circuit])
    /\ Satisfies(request.circuit, CircomInput(request))

Signals(circuit, input) ==
    [k \in DOMAIN PublicSignals[circuit] |-> input[PublicSignals[circuit][k]]]

G1(name, of) == <<<<name, "x", of>>, <<name, "y", of>>>>

G2(name, of) == <<<<<<name, "x.c0", of>>, <<name, "x.c1", of>>>>,
                  <<<<name, "y.c0", of>>, <<name, "y.c1", of>>>>>>

(* Groth16 itself: a proof is of a circuit and a vector of signals. *)
SnarkjsProof(circuit, signals) ==
    LET of == <<circuit, signals>> IN
    [pi_a |-> G1("a", of), pi_b |-> G2("b", of), pi_c |-> G1("c", of)]

SnarkjsVk(circuit) ==
    [ vk_alpha_1 |-> G1("alpha", circuit), vk_beta_2 |-> G2("beta", circuit),
      vk_gamma_2 |-> G2("gamma", circuit), vk_delta_2 |-> G2("delta", circuit),
      IC |-> [k \in 1 .. Len(PublicSignals[circuit]) + 1 |-> G1("IC", <<circuit, k>>)] ]

EncodeG1(p) == <<p[1], p[2]>>

EncodeG2(p) == <<p[1][1], p[1][2], p[2][1], p[2][2]>>

SnarkjsProofToBytes(proof) == EncodeG1(proof.pi_a) \o EncodeG2(proof.pi_b) \o EncodeG1(proof.pi_c)

VkJsonToContractBytes(vk) ==
    EncodeG1(vk.vk_alpha_1) \o EncodeG2(vk.vk_beta_2) \o EncodeG2(vk.vk_gamma_2)
    \o EncodeG2(vk.vk_delta_2)
    \o [c \in 1 .. 2 * Len(vk.IC) |-> EncodeG1(vk.IC[(c + 1) \div 2])[2 - (c % 2)]]

(* SnarkjsProver.prove, of a provable request. *)
Prove(request) ==
    SnarkjsProofToBytes(
        SnarkjsProof(request.circuit, Signals(request.circuit, CircomInput(request))))

(* StubProver, and the synchronous builders. *)
Placeholder == <<<<"byte", 0>>>>

------------------------------------------------------------------------------
(* The contract's verifier. *)

ProofFromBytes(bytes) ==
    [a_g1 |-> SubSeq(bytes, 1, 2), b_g2 |-> SubSeq(bytes, 3, 6), c_g1 |-> SubSeq(bytes, 7, 8)]

VkFromBytes(bytes) ==
    [ alpha_g1 |-> SubSeq(bytes, 1, 2), beta_g2 |-> SubSeq(bytes, 3, 6),
      gamma_g2 |-> SubSeq(bytes, 7, 10), delta_g2 |-> SubSeq(bytes, 11, 14),
      gamma_abc_g1 |-> [k \in 1 .. (Len(bytes) - 14) \div 2 |->
                           SubSeq(bytes, 13 + 2 * k, 14 + 2 * k)] ]

NegateG1(p) == <<p[1], <<"q-", p[2]>>>>

LinearCombination(points, inputs) == <<"multiexp", points, inputs>>

(* alt_bn128_pairing_check: whether the pairs are those of a key, and of a *)
(* proof made with it for the inputs in the linear combination.            *)
PairingCheck(pairs) ==
    \E circuit \in DOMAIN PublicSignals :
        LET vk == SnarkjsVk(circuit)
            inputs == pairs[3][1][3]
            proof == SnarkjsProof(circuit, inputs)
        IN  pairs = <<<<NegateG1(proof.pi_a), EncodeG2(proof.pi_b)>>,
                      <<vk.vk_alpha_1, EncodeG2(vk.vk_beta_2)>>,
                      <<LinearCombination(vk.IC, inputs), EncodeG2(vk.vk_gamma_2)>>,
                      <<proof.pi_c, EncodeG2(vk.vk_delta_2)>>>>

VerifyGroth16(vk, proof, inputs) ==
    /\ Len(vk.gamma_abc_g1) = Len(inputs) + 1
    /\ PairingCheck(<<<<NegateG1(proof.a_g1), proof.b_g2>>,
                      <<vk.alpha_g1, vk.beta_g2>>,
                      <<LinearCombination(vk.gamma_abc_g1, inputs), vk.gamma_g2>>,
                      <<proof.c_g1, vk.delta_g2>>>>)

(* The keys given to Contract::new. *)
Vk == [circuit \in DOMAIN PublicSignals |-> VkJsonToContractBytes(SnarkjsVk(circuit))]

Verify(vk, bytes, inputs) ==
    Len(bytes) = 8 /\ VerifyGroth16(VkFromBytes(vk), ProofFromBytes(bytes), inputs)

------------------------------------------------------------------------------
(* Calls: the method's arguments, what is attached in bytes of storage,    *)
(* and the tokens an ft_transfer_call moves.                               *)

ONE_NEAR == 100000     \* at YOCTO_PER_BYTE

DepositArgs(tx) ==
    [ commitment |-> tx.publicInputs.commitment, amount |-> tx.publicInputs.amount,
      auditor_pubkey |-> tx.publicInputs.auditorPubkey,
      view_ct |-> Encoded(tx.viewCiphertexts[1]), note_ct |-> Encoded(tx.noteCiphertexts[1]),
      proof |-> tx.proof ]

(* The token calls ft_on_transfer with the amount and, as msg, the args. *)
FtTransferCall(tx) ==
    LET args == DepositArgs(tx) IN
    [method |-> "deposit", args |-> args, attached |-> 0, tokens |-> args.amount]

TransferArgs(tx) ==
    [ merkle_root |-> tx.publicInputs.merkleRoot,
      nullifiers |-> tx.publicInputs.nullifiers, commitments |-> tx.publicInputs.commitments,
      auditor_pubkey |-> tx.publicInputs.auditorPubkey,
      recipient_auditor_pubkey |-> tx.publicInputs.recipientAuditorPubkey,
      view_cts |-> [k \in {1, 2} |-> Encoded(tx.viewCiphertexts[k])],
      note_cts |-> [k \in {1, 2} |-> Encoded(tx.noteCiphertexts[k])],
      proof |-> tx.proof ]

TransferCall(tx) ==
    [method |-> "transfer", args |-> TransferArgs(tx), attached |-> ONE_NEAR, tokens |-> Dec(0)]

WithdrawArgs(tx) ==
    [ merkle_root |-> tx.publicInputs.merkleRoot, nullifier |-> tx.publicInputs.nullifier,
      recipient |-> tx.publicInputs.recipient, amount |-> tx.publicInputs.amount,
      auditor_pubkey |-> tx.publicInputs.auditorPubkey,
      view_ct |-> Encoded(tx.viewCiphertexts[1]), relayer |-> tx.publicInputs.relayer,
      relayer_fee |-> tx.publicInputs.relayerFee, proof |-> tx.proof ]

WithdrawCall(tx) ==
    [method |-> "withdraw", args |-> WithdrawArgs(tx), attached |-> ONE_NEAR, tokens |-> Dec(0)]

(* What the demo sends the relayer: what it knows itself, and the rest of  *)
(* the built transaction. *)
SubmitRequest(o, tx) ==
    [ proof |-> tx.proof, merkleRoot |-> o.tx.root, nullifier |-> tx.publicInputs.nullifier,
      recipient |-> o.recipient, amount |-> Dec(o.tx.amount),
      auditorPubkey |-> tx.publicInputs.auditorPubkey, viewCt |-> Encoded(tx.viewCiphertexts[1]),
      relayer |-> o.relayer, relayerFee |-> Dec(o.tx.fee) ]

(* NearCallerSubmitter.submitWithdraw *)
SubmitWithdraw(req) ==
    [ method |-> "withdraw", attached |-> ONE_NEAR, tokens |-> Dec(0),
      args |-> [merkle_root |-> req.merkleRoot, nullifier |-> req.nullifier,
                recipient |-> req.recipient, amount |-> req.amount,
                auditor_pubkey |-> req.auditorPubkey, view_ct |-> req.viewCt,
                relayer |-> req.relayer, relayer_fee |-> req.relayerFee, proof |-> req.proof] ]

(* The envelopes of a built transaction. *)
Envelopes(o, tx) ==
    CASE tx.method = "deposit"  -> {FtTransferCall(tx)}
      [] tx.method = "transfer" -> {TransferCall(tx)}
      [] tx.method = "withdraw" -> {WithdrawCall(tx), SubmitWithdraw(SubmitRequest(o, tx))}

------------------------------------------------------------------------------
(* The contract's public inputs. *)

ParseHex32(string) == string[2]

U128(string) == string[2]

IsHex32(string) == Len(string) = 2

DepositInputs(args) ==
    <<ParseHex32(args.commitment), Field(U128(args.amount)), ParseHex32(args.auditor_pubkey),
      Keccak(args.view_ct)>>

TransferInputs(args) ==
    <<ParseHex32(args.merkle_root), ParseHex32(args.nullifiers[1]), ParseHex32(args.nullifiers[2]),
      ParseHex32(args.commitments[1]), ParseHex32(args.commitments[2]),
      ParseHex32(args.auditor_pubkey), ParseHex32(args.recipient_auditor_pubkey),
      Keccak(args.view_cts[1]), Keccak(args.view_cts[2])>>

WithdrawInputs(args) ==
    <<ParseHex32(args.merkle_root), ParseHex32(args.nullifier), HashBytes(args.recipient),
      Field(U128(args.amount)), HashBytes(args.relayer), Field(U128(args.relayer_fee)),
      ParseHex32(args.auditor_pubkey), Keccak(args.view_ct)>>

ContractInputs(method, args) ==
    CASE method = "deposit"  -> DepositInputs(args)
      [] method = "transfer" -> TransferInputs(args)
      [] method = "withdraw" -> WithdrawInputs(args)

Verified(call) == Verify(Vk[call.method], call.args.proof, ContractInputs(call.method, call.args))
================================================================================

------------------------------- MODULE ProofPath -------------------------------
(***************************************************************************)
(* One user transaction at a time on its whole way: the wallet builds it   *)
(* and asks for a proof (Calls), the call is sent, the contract checks it  *)
(* and appends to its tree (MerkleTree), the users scan their notes.       *)
(* Others' notes are committed at any point of it, so a root may be stale  *)
(* by the time a call lands, and a note be at any position of the tree.    *)
(*                                                                         *)
(* The interleavings of several users' flows are PoolWallet's: here values *)
(* have their real make-up, there a root is a number of leaves.            *)
(***************************************************************************)
EXTENDS Calls

CONSTANTS
    Auditors,
    ROOTS_WINDOW,        \* lib.rs ROOTS_WINDOW
    FeeUsdcBase,         \* the relayer's fee
    DepositAmounts,      \* bound: the amounts alice deposits
    Amounts,             \* bound: the amounts transferred or withdrawn
    Deposits             \* bound: deposits are made with fewer notes than that

ASSUME PathAssumption ==
    /\ ROOTS_WINDOW \in Nat \ {0} /\ FeeUsdcBase \in Nat /\ Deposits \in Nat
    /\ DepositAmounts \cup Amounts \subseteq Nat \ {0}

VARIABLES
    recent_roots,    \* contract
    nullifiers,      \* contract
    wallets,         \* of alice and of bob
    job              \* the transaction under way

vars == <<tree, leaves, recent_roots, nullifiers, wallets, job>>

Users == {"alice", "bob"}

TRANSFER_BYTES == 1024
WITHDRAW_BYTES == 256

Idle == [at |-> "idle"]

Stranger(i) == Commitment(Field(0), <<"owner", i>>, <<"auditor", i>>, <<"blinding", i>>)

Request(order) == job' = [at |-> "requested", order |-> order]

(* The builder returns: the root and the proof of the built transaction. *)
Return(root, proof) ==
    job' = [at |-> "built", order |-> job.order, root |-> root, proof |-> proof]

Built(j) == BuiltTx(j.order, j.root, j.proof)

(* A real proof, not a placeholder. *)
Proved(j) == j.proof # Placeholder

(* await pool.merkleRoot(), and PoolClient.pathFor in a tree that follows. *)
Root == Hex(tree.current_root)

Path(input) == PathFor(leaves, input.leafIndex)

Order(user, tx, inputs, recipient, relayer) ==
    [ user |-> user, tx |-> tx, inputs |-> inputs, paths |-> [k \in DOMAIN inputs |-> Path(inputs[k])],
      recipient |-> recipient, relayer |-> relayer ]

Held == Balance(wallets["alice"]) + Balance(wallets["bob"])

------------------------------------------------------------------------------
(* The users.  The guards and the transaction are those of the synchronous *)
(* and the Proved builders alike; a Proved one also takes root and paths.  *)

RequestDeposit(amount, auditor) ==
    /\ job.at = "idle"
    /\ Len(wallets["alice"].notes) < Deposits
    /\ Held + amount < 2 ^ RANGE_BITS     \* the token's supply is a u128
    /\ Request(Order("alice", BuildDeposit("alice", amount, auditor), <<>>, "", ""))
    /\ UNCHANGED <<tree, leaves, recent_roots, nullifiers, wallets>>

RequestTransfer(user, amount, recipient, recipientAuditor) ==
    /\ job.at = "idle"
    /\ TransferPairs(wallets[user], amount) # {}
    /\ LET inputs == FindTransferInputs(wallets[user], amount) IN
       Request(Order(user, BuildTransfer(user, inputs, Root, amount, recipient, recipientAuditor),
                     inputs, "", ""))
    /\ UNCHANGED <<tree, leaves, recent_roots, nullifiers, wallets>>

RequestWithdraw(user, amount) ==
    /\ job.at = "idle"
    /\ FeeUsdcBase <= amount
    /\ WithdrawNotes(wallets[user], amount) # {}
    /\ LET input == FindWithdrawNote(wallets[user], amount) IN
       Request(Order(user, BuildWithdraw(user, input, Root, amount, "payee.near", FeeUsdcBase),
                     <<input>>, "payee.near", "relayer.near"))
    /\ UNCHANGED <<tree, leaves, recent_roots, nullifiers, wallets>>

(* A Proved builder with the real prover. *)
ReturnProved ==
    /\ job.at = "requested"
    /\ Provable(RequestOf(job.order))
    /\ Return(job.order.tx.root, Prove(RequestOf(job.order)))
    /\ UNCHANGED <<tree, leaves, recent_roots, nullifiers, wallets>>

(* A Proved builder with the StubProver, or a synchronous builder, which   *)
(* leaves the root empty too. *)
ReturnPlaceholder ==
    /\ job.at = "requested"
    /\ Return(job.order.tx.root, Placeholder) \/ Return(NoString, Placeholder)
    /\ UNCHANGED <<tree, leaves, recent_roots, nullifiers, wallets>>

(* The prover throws. *)
NotProvable ==
    /\ job.at = "requested"
    /\ ~ Provable(RequestOf(job.order))
    /\ job' = Idle
    /\ UNCHANGED <<tree, leaves, recent_roots, nullifiers, wallets>>

------------------------------------------------------------------------------
(* The contract. *)

IsWellFormed(args) == "merkle_root" \in DOMAIN args => IsHex32(args.merkle_root)

AcceptsDeposit(call) ==
    /\ U128(call.tokens) = U128(call.args.amount)
    /\ call.args.proof # <<>>
    /\ Verified(call)
    /\ HasRoomFor(tree, 1)

AcceptsTransfer(call) ==
    LET n == [k \in {1, 2} |-> ParseHex32(call.args.nullifiers[k])] IN
    /\ call.attached >= TRANSFER_BYTES
    /\ call.args.proof # <<>>
    /\ IsWellFormed(call.args)
    /\ Contains(recent_roots, ParseHex32(call.args.merkle_root))
    /\ n[1] # n[2] /\ n[1] \notin nullifiers /\ n[2] \notin nullifiers
    /\ Verified(call)
    /\ HasRoomFor(tree, 2)

AcceptsWithdraw(call) ==
    /\ call.attached >= WITHDRAW_BYTES
    /\ call.args.proof # <<>>
    /\ U128(call.args.relayer_fee) <= U128(call.args.amount)
    /\ IsWellFormed(call.args)
    /\ Contains(recent_roots, ParseHex32(call.args.merkle_root))
    /\ ParseHex32(call.args.nullifier) \notin nullifiers
    /\ Verified(call)

Accepts(call) ==
    CASE call.method = "deposit"  -> AcceptsDeposit(call)
      [] call.method = "transfer" -> AcceptsTransfer(call)
      [] call.method = "withdraw" -> AcceptsWithdraw(call)

Commitments(call) ==
    CASE call.method = "deposit"  -> <<ParseHex32(call.args.commitment)>>
      [] call.method = "transfer" -> <<ParseHex32(call.args.commitments[1]),
                                       ParseHex32(call.args.commitments[2])>>
      [] call.method = "withdraw" -> <<>>

Spent(call) ==
    CASE call.method = "deposit"  -> {}
      [] call.method = "transfer" -> {ParseHex32(call.args.nullifiers[k]) : k \in {1, 2}}
      [] call.method = "withdraw" -> {ParseHex32(call.args.nullifier)}

(* An accepted call.  The PoolClient's tree takes the logged commitments. *)
Apply(call) ==
    /\ Accepts(call)
    /\ nullifiers' = nullifiers \cup Spent(call)
    /\ Insert(Commitments(call))
    /\ recent_roots' = IF Commitments(call) = <<>> THEN recent_roots
                       ELSE Push(recent_roots, tree'.current_root)

(* RelayerService.submit: the relayer's own checks of a withdraw it is     *)
(* handed. *)
RelayerForwards(call) ==
    call.method = "withdraw" =>
        /\ call.args.relayer = "relayer.near"
        /\ U128(call.args.relayer_fee) = FeeUsdcBase
        /\ U128(call.args.relayer_fee) <= U128(call.args.amount)
        /\ call.args.recipient # "" /\ call.args.proof # <<>>

(* The call lands; the users scan what it logged, and the sender marks its *)
(* inputs. *)
Land ==
    /\ job.at = "built"
    /\ \E call \in Envelopes(job.order, Built(job)) : RelayerForwards(call) /\ Apply(call)
    /\ LET tx == job.order.tx
           noteCts == [k \in DOMAIN tx.creates |->
                          [leafIndex |-> tree.next_index + k - 1, sealed |-> tx.noteCts[k]]]
       IN  wallets' = [u \in Users |->
              LET scanned == Scan(wallets[u], u, noteCts)
              IN  IF u = job.order.user THEN MarkSpent(scanned, tx.spends) ELSE scanned]
    /\ job' = Idle

Refuse ==
    /\ job.at = "built"
    /\ \E call \in Envelopes(job.order, Built(job)) : ~ (RelayerForwards(call) /\ Accepts(call))
    /\ job' = Idle
    /\ UNCHANGED <<tree, leaves, recent_roots, nullifiers, wallets>>

(* Someone else's deposit. *)
StrangerDeposits ==
    /\ job.at # "idle"
    /\ Insert(<<Stranger(tree.next_index)>>)
    /\ recent_roots' = Push(recent_roots, tree'.current_root)
    /\ UNCHANGED <<nullifiers, wallets, job>>

------------------------------------------------------------------------------
(* Some deposits have been made by others. *)
Init ==
    /\ \E n \in 0 .. Capacity :
          /\ StartWith([i \in 1 .. n |-> Stranger(i - 1)])
          /\ recent_roots = IF n = 0 THEN NewWindow(ROOTS_WINDOW)
                            ELSE Push(NewWindow(ROOTS_WINDOW), tree.current_root)
    /\ nullifiers = {}
    /\ wallets = [u \in Users |-> NewWallet]
    /\ job = Idle

Next ==
    \/ \E auditor \in Auditors :
          \/ \E amount \in DepositAmounts : RequestDeposit(amount, auditor)
          \/ \E user, recipient \in Users, amount \in Amounts :
                RequestTransfer(user, amount, recipient, auditor)
    \/ \E user \in Users, amount \in Amounts : RequestWithdraw(user, amount)
    \/ ReturnProved \/ ReturnPlaceholder \/ NotProvable
    \/ Land \/ Refuse \/ StrangerDeposits

Spec == Init /\ [][Next]_vars

------------------------------------------------------------------------------
(* Properties. *)

(* The contract's verifier accepts a built transaction, in whichever       *)
(* envelope it is sent, if and only if its proof was really made: the      *)
(* wallet's vector of public inputs and the one the contract rebuilds from *)
(* the JSON agree in every position, ciphertext hash and account, the      *)
(* bytes of proof and key are read as they were written, and the           *)
(* placeholder of the synchronous builders never passes.                   *)
AcceptedIffProved ==
    job.at = "built" =>
        \A call \in Envelopes(job.order, Built(job)) :
            IsWellFormed(call.args) => (Verified(call) <=> Proved(job))

(* What the wallet builds can be proved but for two limits of the          *)
(* circuits: a transfer's outputs are both under the recipient's auditor,  *)
(* and only amounts of 64 bits can be withdrawn, of the 128 a note has.    *)
ProvableExactly ==
    job.at = "requested" =>
        LET tx == job.order.tx IN
        Provable(RequestOf(job.order)) <=>
            CASE tx.method = "deposit"  -> TRUE
              [] tx.method = "transfer" -> tx.auditors[1] = tx.auditors[2]
              [] tx.method = "withdraw" -> tx.amount < 2 ^ WITHDRAW_BITS

(* The arguments of a call with one of them changed, or a pair swapped. *)
Alterations(args) ==
    LET pairs == {"nullifiers", "commitments", "view_cts"} \cap DOMAIN args
        Set(names, value) == {[args EXCEPT ![f] = value] : f \in names \cap DOMAIN args}
    IN  Set({"merkle_root", "nullifier", "commitment", "auditor_pubkey",
             "recipient_auditor_pubkey"}, Hex(Field(0)))
        \cup Set({"amount", "relayer_fee"}, Dec(0))
        \cup Set({"recipient", "relayer"}, "else.near")
        \cup Set({"view_ct"}, Encoded(Sealed("else", "else")))
        \cup {[args EXCEPT ![f] = <<args[f][2], args[f][1]>>] : f \in pairs}

(* A proof is good for one call: "the on-chain verifier will reject any    *)
(* modification" (service.ts) of an argument but the note ciphertexts,     *)
(* which are not bound. *)
ProofFixesTheCall ==
    job.at = "built" /\ Proved(job) =>
        \A call \in Envelopes(job.order, Built(job)) :
            \A args \in Alterations(call.args) :
                args # call.args => ~ Verified([call EXCEPT !.args = args])

(* A transfer's witness need not be the wallet's.  Whatever amounts are    *)
(* committed to for the outputs, as field elements that may wrap around,   *)
(* what the circuit is satisfied by adds up as integers. *)
AnyWitnessConserves ==
    job.at = "requested" /\ job.order.tx.method = "transfer" =>
        LET s == CircomInput(RequestOf(job.order))
            Out(k, amount) == Commitment(Field(amount),
                                         IF k = 0 THEN s.out0Owner ELSE s.out1Owner,
                                         s.recipientAuditorPubkey,
                                         IF k = 0 THEN s.out0Blinding ELSE s.out1Blinding)
        IN  \A a, b \in 0 .. FieldOrder - 1 :
                Transfer([s EXCEPT !.out0Amount = Field(a), !.commitmentOut0 = Out(0, a),
                                   !.out1Amount = Field(b), !.commitmentOut1 = Out(1, b)])
                => a + b = Value(s.in0Amount) + Value(s.in1Amount)

(* A note a wallet has found is the one committed at its leaf: the user    *)
(* can spend it. *)
NotesAreCommitted ==
    \A u \in Users : \A k \in DOMAIN wallets[u].notes :
        LET n == wallets[u].notes[k] IN
        n.note.owner = u /\ leaves[n.leafIndex + 1] = CommitNote(n.note)
================================================================================

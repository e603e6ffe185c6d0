------------------------------ MODULE PoolWallet ------------------------------
(***************************************************************************)
(* The users' side of the pool: wallets (wallet.ts), the pool clients they *)
(* submit through (pool-client.ts), the relayer (service.ts) and the       *)
(* auditors' index (indexer.ts), against the contract.                     *)
(*                                                                         *)
(* A task is one flow of a caller, as demo/src/run-demo.ts strings the     *)
(* SDK's calls together, and is split at every await: reading the root,    *)
(* proving, the contract's answer, and the check of the root.  Between two *)
(* of them any other task may run.                                         *)
(*                                                                         *)
(* The contract is what the callers see of it: ShieldedPool has its        *)
(* receipts.  A leaf is named by its index from 1 and a root by the number *)
(* of leaves under it; a local tree is the sequence of the leaves whose    *)
(* commitments it has taken.                                               *)
(***************************************************************************)
EXTENDS RootsWindow, Wallet, FiniteSets

CONSTANTS
    Users, Auditors,
    Clients,            \* PoolClient instances
    ClientOf,           \* the instance each user's caller submits through
    ROOTS_WINDOW,       \* lib.rs ROOTS_WINDOW
    TreeCapacity,       \* merkle.rs capacity
    FeeUsdcBase,        \* the relayer's flat fee
    Tasks,              \* bound: the flows under way at a time
    DepositBound,       \* bound: deposits begin with fewer leaves than that
    DepositAmounts,     \* bound: the amounts a caller deposits
    Amounts,            \* bound: the amounts a caller transfers or withdraws
    AnswersMayBeLost    \* whether a call may throw although it has landed

ASSUME UsersAssumption ==
    /\ IsFiniteSet(Users) /\ IsFiniteSet(Tasks)
    /\ ClientOf \in [Users -> Clients]
    /\ "account" \notin Users      \* a key's 66 hex characters name no account

ASSUME BoundsAssumption ==
    /\ ROOTS_WINDOW \in Nat \ {0} /\ TreeCapacity \in Nat /\ DepositBound \in Nat
    /\ FeeUsdcBase \in Nat /\ DepositAmounts \cup Amounts \subseteq Nat \ {0}
    /\ AnswersMayBeLost \in BOOLEAN

VARIABLES
    leaves,         \* contract: the committed notes
    recent_roots,   \* contract
    nullifiers,     \* contract
    events,         \* the contract's log
    wallets,        \* of every user
    trees,          \* PoolClient.tree and seenLeaves, of every client
    checked,        \* of every client: leaves covered by its last passed root check
    tasks,
    lost            \* events whose answer never reached its caller

chainVars == <<leaves, recent_roots, nullifiers, events>>
vars == <<leaves, recent_roots, nullifiers, events, wallets, trees, checked, tasks, lost>>

------------------------------------------------------------------------------
(* Trees. *)

Chain == [i \in DOMAIN leaves |-> i]

IsPrefixOfChain(tree) == \A k \in DOMAIN tree : tree[k] = k

\* Fault: as many leaves are taken for the same leaves.
SameSize(tree, root) == Len(tree) = root

(* Equal roots, for hashes that do not collide. *)
SameRoot(tree, root) == Len(tree) = root /\ \A k \in 1 .. root : tree[k] = k

(* pathFor of a leaf in a local tree folds to the root on the chain when   *)
(* all other positions agree: the path does not hold the leaf itself.      *)
PathFits(tree, leaf, root) ==
    /\ leaf \in DOMAIN tree /\ Len(tree) = root
    /\ \A k \in 1 .. root : k # leaf => tree[k] = k

------------------------------------------------------------------------------
(* The circuits' statements about a built transaction. *)

Owns(user, leaf, root, auditor) ==
    /\ leaf \in DOMAIN leaves /\ leaf <= root
    /\ leaves[leaf].owner = user /\ leaves[leaf].auditor = auditor

(* Transfer: both inputs under the sender's auditor, both outputs under    *)
(* the recipient's, value conserved. *)
TransferStatement(user, tx) ==
    /\ tx.spends[1] # tx.spends[2]
    /\ \A k \in {1, 2} :
          /\ Owns(user, tx.spends[k], tx.root, tx.auditors[1])
          /\ tx.creates[k].auditor = tx.auditors[2]
    /\ leaves[tx.spends[1]].amount + leaves[tx.spends[2]].amount
          = tx.creates[1].amount + tx.creates[2].amount

WithdrawStatement(user, tx) ==
    /\ Owns(user, tx.spends[1], tx.root, tx.auditors[1])
    /\ leaves[tx.spends[1]].amount = tx.amount /\ tx.fee <= tx.amount

Statement(user, tx) ==
    CASE tx.method = "deposit"  -> TRUE
      [] tx.method = "transfer" -> TransferStatement(user, tx)
      [] tx.method = "withdraw" -> WithdrawStatement(user, tx)

------------------------------------------------------------------------------
(* Tasks. *)

NoTx == BuildDeposit("nobody", 0, "nobody")

Idle == [at |-> "idle", user |-> "nobody", root |-> 0, tx |-> NoTx,
         fits |-> FALSE, answer |-> 0, local |-> <<>>]

Client(t) == ClientOf[tasks[t].user]

Become(t, task) == tasks' = [tasks EXCEPT ![t] = task]

(* prover.prove succeeds. *)
Provable(t) == tasks[t].fits /\ Statement(tasks[t].user, tasks[t].tx)

(* Answers their callers do not know of yet, or never will. *)
Undelivered ==
    {tasks[t].answer : t \in {t \in Tasks : tasks[t].at \in {"answered", "ingested"}}} \cup lost

Init ==
    /\ leaves = <<>> /\ nullifiers = {} /\ events = <<>>
    /\ recent_roots = NewWindow(ROOTS_WINDOW)
    /\ wallets = [u \in Users |-> NewWallet]
    /\ trees = [c \in Clients |-> <<>>]
    /\ checked = [c \in Clients |-> 0]
    /\ tasks = [t \in Tasks |-> Idle]
    /\ lost = {}

(* buildDepositProved; a deposit needs no root. *)
StartDeposit(t, u, amount, auditor) ==
    /\ tasks[t].at = "idle"
    /\ Len(leaves) < DepositBound
    /\ Become(t, [Idle EXCEPT !.at = "proving", !.user = u, !.fits = TRUE,
                              !.tx = BuildDeposit(u, amount, auditor)])
    /\ UNCHANGED <<chainVars, wallets, trees, checked, lost>>

(* await pool.merkleRoot(): the root is the chain's when the view ran. *)
ReadRoot(t, u) ==
    /\ tasks[t].at = "idle"
    /\ Become(t, [Idle EXCEPT !.at = "root", !.user = u, !.root = Len(leaves)])
    /\ UNCHANGED <<chainVars, wallets, trees, checked, lost>>

(* buildTransferProved up to its await: the inputs come from the wallet,   *)
(* the caller takes their paths from the client's tree, all at one moment. *)
StartTransfer(t, amount, recipient, recipientAuditor) ==
    LET u == tasks[t].user
        tree == trees[Client(t)]
        inputs == FindTransferInputs(wallets[u], amount)
    IN
    /\ tasks[t].at = "root"
    /\ TransferPairs(wallets[u], amount) # {}
    /\ \A k \in {1, 2} : inputs[k].leafIndex \in DOMAIN tree
    /\ Become(t, [tasks[t] EXCEPT !.at = "proving",
                    !.tx = BuildTransfer(u, inputs, tasks[t].root, amount, recipient, recipientAuditor),
                    !.fits = \A k \in {1, 2} : PathFits(tree, inputs[k].leafIndex, tasks[t].root)])
    /\ UNCHANGED <<chainVars, wallets, trees, checked, lost>>

(* buildWithdrawProved up to its await. *)
StartWithdraw(t, amount, fee) ==
    LET u == tasks[t].user
        tree == trees[Client(t)]
        input == FindWithdrawNote(wallets[u], amount)
    IN
    /\ tasks[t].at = "root"
    /\ fee <= amount
    /\ WithdrawNotes(wallets[u], amount) # {}
    /\ input.leafIndex \in DOMAIN tree
    /\ Become(t, [tasks[t] EXCEPT !.at = "proving",
                    !.tx = BuildWithdraw(u, input, tasks[t].root, amount, "account", fee),
                    !.fits = PathFits(tree, input.leafIndex, tasks[t].root)])
    /\ UNCHANGED <<chainVars, wallets, trees, checked, lost>>

\* Fault: a spent note is spent again.
AcceptsSpent(tx) ==
    /\ tx.method # "deposit" => Contains(recent_roots, tx.root)
    /\ Len(leaves) + Len(tx.creates) <= TreeCapacity

(* The contract's checks, beside the proof. *)
Accepts(tx) ==
    /\ tx.method # "deposit" => Contains(recent_roots, tx.root)
    /\ Range(tx.spends) \cap nullifiers = {}
    /\ Len(leaves) + Len(tx.creates) <= TreeCapacity

(* RelayerService.submit, between a withdraw and the contract. *)
RelayerForwards(tx) ==
    tx.method = "withdraw" => tx.fee = FeeUsdcBase /\ tx.fee <= tx.amount

(* What the contract logs. *)
EventOf(tx) ==
    [ method |-> tx.method, spends |-> tx.spends, amount |-> tx.amount,
      viewCts |-> tx.viewCts,
      noteCts |-> [k \in DOMAIN tx.creates |->
                      [leafIndex |-> Len(leaves) + k, sealed |-> tx.noteCts[k]]] ]

(* The proof is made, the call is sent and lands. *)
Land(t) ==
    LET tx == tasks[t].tx IN
    /\ tasks[t].at = "proving"
    /\ Provable(t) /\ RelayerForwards(tx) /\ Accepts(tx)
    /\ leaves' = leaves \o tx.creates
    /\ recent_roots' = IF tx.creates = <<>> THEN recent_roots
                       ELSE Push(recent_roots, Len(leaves'))
    /\ nullifiers' = nullifiers \cup Range(tx.spends)
    /\ events' = Append(events, EventOf(tx))
    /\ Become(t, [tasks[t] EXCEPT !.at = "answered", !.answer = Len(events')])
    /\ UNCHANGED <<wallets, trees, checked, lost>>

(* The flow throws before anything landed: no inputs, no path, no proof, a *)
(* relayer's or the contract's refusal, a call that was never included.    *)
Throw(t) ==
    /\ tasks[t].at \in {"root", "proving"}
    /\ Become(t, Idle)
    /\ UNCHANGED <<chainVars, wallets, trees, checked, lost>>

(* The pool refuses a deposit: ft_transfer_call still succeeds, with the    *)
(* tokens back and no logs, and the caller goes on to the root check.      *)
RefundDeposit(t) ==
    /\ tasks[t].at = "proving" /\ tasks[t].tx.method = "deposit"
    /\ Become(t, [tasks[t] EXCEPT !.at = "checking", !.local = trees[Client(t)]])
    /\ UNCHANGED <<chainVars, wallets, trees, checked, lost>>

(* The call throws, on a timeout say, although it landed. *)
LoseAnswer(t) ==
    /\ AnswersMayBeLost
    /\ tasks[t].at = "answered"
    /\ lost' = lost \cup {tasks[t].answer}
    /\ Become(t, Idle)
    /\ UNCHANGED <<chainVars, wallets, trees, checked>>

Logs(t) == events[tasks[t].answer].noteCts

\* Fault: one leaf of a log is taken.
GrownOnce(tree, noteCts) ==
    IF noteCts = <<>> \/ noteCts[1].leafIndex \in Range(tree) THEN tree
    ELSE Append(tree, noteCts[1].leafIndex)

(* The tree with those commitments of a log appended that the client has   *)
(* not seen, in the log's order. *)
Grown(tree, noteCts) ==
    LET after[k \in 0 .. Len(noteCts)] ==
            IF k = 0 THEN tree
            ELSE IF noteCts[k].leafIndex \in Range(after[k - 1]) THEN after[k - 1]
            ELSE Append(after[k - 1], noteCts[k].leafIndex)
    IN  after[Len(noteCts)]

(* PoolClient.ingest.  The relayer's submitter drops the logs of a         *)
(* withdraw. *)
Ingest(t) ==
    /\ tasks[t].at = "answered"
    /\ trees' = IF tasks[t].tx.method = "withdraw" THEN trees
                ELSE [trees EXCEPT ![Client(t)] = Grown(@, Logs(t))]
    /\ Become(t, [tasks[t] EXCEPT !.at = "ingested"])
    /\ UNCHANGED <<chainVars, wallets, checked, lost>>

\* Fault: only the caller's own wallet scans.
ResumeAlone(t) ==
    LET u == tasks[t].user IN
    /\ tasks[t].at = "ingested"
    /\ wallets' = [wallets EXCEPT ![u] = MarkSpent(Scan(@, u, Logs(t)), tasks[t].tx.spends)]
    /\ Become(t, IF tasks[t].tx.method = "withdraw" THEN Idle
                 ELSE [tasks[t] EXCEPT !.at = "checking", !.local = trees[Client(t)]])
    /\ UNCHANGED <<chainVars, trees, checked, lost>>

(* The caller goes on: the parties scan the ciphertexts, the sender marks  *)
(* its inputs, and assertRootMatchesChain takes the local root.            *)
Resume(t) ==
    LET u == tasks[t].user IN
    /\ tasks[t].at = "ingested"
    /\ wallets' = [v \in Users |->
          LET scanned == Scan(wallets[v], v, Logs(t))
          IN  IF v = u THEN MarkSpent(scanned, tasks[t].tx.spends) ELSE scanned]
    /\ Become(t, IF tasks[t].tx.method = "withdraw" THEN Idle
                 ELSE [tasks[t] EXCEPT !.at = "checking", !.local = trees[Client(t)]])
    /\ UNCHANGED <<chainVars, trees, checked, lost>>

(* The chain's root arrives: equal, or the caller throws. *)
CheckRoot(t) ==
    /\ tasks[t].at = "checking"
    /\ checked' = IF SameRoot(tasks[t].local, Len(leaves))
                  THEN [checked EXCEPT ![Client(t)] = Len(leaves)] ELSE checked
    /\ Become(t, Idle)
    /\ UNCHANGED <<chainVars, wallets, trees, lost>>

------------------------------------------------------------------------------
Next ==
    \E t \in Tasks :
        \/ \E u \in Users :
              \/ ReadRoot(t, u)
              \/ \E amount \in DepositAmounts, auditor \in Auditors :
                    StartDeposit(t, u, amount, auditor)
        \/ \E amount \in Amounts :
              \/ \E recipient \in Users, auditor \in Auditors :
                    StartTransfer(t, amount, recipient, auditor)
              \/ \E fee \in 0 .. FeeUsdcBase : StartWithdraw(t, amount, fee)
        \/ Land(t) \/ Throw(t) \/ RefundDeposit(t) \/ LoseAnswer(t)
        \/ Ingest(t) \/ Resume(t) \/ CheckRoot(t)

Spec == Init /\ [][Next]_vars

(* A caller that missed nothing scans an event of the log again. *)
Rescan(u) ==
    \E e \in DOMAIN events \ Undelivered :
        /\ wallets' = [wallets EXCEPT ![u] = Scan(@, u, events[e].noteCts)]
        /\ UNCHANGED <<chainVars, trees, checked, tasks, lost>>

RescanSpec == Init /\ [][Next \/ \E u \in Users : Rescan(u)]_vars

------------------------------------------------------------------------------
(* What the chain says. *)

Unspent == DOMAIN leaves \ nullifiers

Owned(u) == {i \in DOMAIN leaves : leaves[i].owner = u}

Value(is) == SumFunctionOnSet([i \in DOMAIN leaves |-> leaves[i].amount], is)

Holding(u) == Value(Owned(u) \cap Unspent)

HoldingUnder(a, u) == Value({i \in Owned(u) \cap Unspent : leaves[i].auditor = a})

Created(e) == {events[e].noteCts[k].leafIndex : k \in DOMAIN events[e].noteCts}

SpentBy(e) == Range(events[e].spends)

(* The ciphertexts of an event that open, as records with the transaction  *)
(* they are from, in the event's order. *)
Opened(a, e) ==
    LET cts == events[e].viewCts
        out[k \in 0 .. Len(cts)] ==
            IF k = 0 THEN <<>>
            ELSE IF cts[k].holder # a THEN out[k - 1]
            ELSE Append(out[k - 1], [tx |-> e, disclosure |-> cts[k].payload])
    IN  out[Len(cts)]

(* AuditorIndex.ingest of a batch of events appends what opens.  *)
IngestBatch(a, records, batch) ==
    LET after[n \in 0 .. Len(batch)] ==
            IF n = 0 THEN records ELSE after[n - 1] \o Opened(a, batch[n])
    IN  after[Len(batch)]

(* getAll, of an indexer that polled the whole log twice; its "caller      *)
(* dedupes by txHash" (indexer.test.ts). *)
Records(a) ==
    LET log == [e \in DOMAIN events |-> e]
    IN  Range(IngestBatch(a, IngestBatch(a, <<>>, log), log))

(* getForUser *)
RecordsFor(a, u) == {r \in Records(a) : u \in {r.disclosure.sender, r.disclosure.recipient}}

------------------------------------------------------------------------------
(* Properties. *)

(* Types. *)
TypeOK ==
    /\ IsWindow(recent_roots, ROOTS_WINDOW, Nat)
    /\ nullifiers \subseteq DOMAIN leaves
    /\ \A u \in Users : wallets[u].spent \subseteq DOMAIN leaves
    /\ \A c \in Clients : Range(trees[c]) \subseteq DOMAIN leaves /\ checked[c] <= Len(leaves)
    /\ \A t \in Tasks : tasks[t].answer \in 0 .. Len(events)
    /\ lost \subseteq DOMAIN events

(* A wallet is the chain but for the answers on their way or lost: it      *)
(* knows each note of its user once and as committed, marks spent exactly  *)
(* what is spent, and nothing another flow did meanwhile (a second build   *)
(* over the same inputs, a payment received) makes it forget a note or     *)
(* take a spent one back.                                                  *)
WalletMatchesChain ==
    \A u \in Users :
        LET notes == wallets[u].notes
            known == [k \in DOMAIN notes |-> notes[k].leafIndex]
            created == UNION {Created(e) : e \in Undelivered}
            spent == UNION {SpentBy(e) : e \in Undelivered}
        IN
        /\ IsInjective(known)
        /\ Range(known) = Owned(u) \ created
        /\ \A k \in DOMAIN notes : notes[k].note = leaves[known[k]]
        /\ wallets[u].spent = (Owned(u) \cap nullifiers) \ spent

(* Once no answer is outstanding, balance() is the value the chain holds   *)
(* for the user. *)
BalanceWhenSettled ==
    Undelivered = {} => \A u \in Users : Balance(wallets[u]) = Holding(u)

(* A passed assertRootMatchesChain is for good: what the client's tree     *)
(* held then is the chain's beginning, whatever it has ingested since.     *)
CheckedTreeIsTheChains ==
    \A c \in Clients :
        checked[c] <= Len(trees[c]) /\ \A k \in 1 .. checked[c] : trees[c][k] = k

(* Selective disclosure is exact: an auditor can read of an action if and  *)
(* only if a note it spends or creates is under that auditor. *)
DisclosureIsExact ==
    \A e \in DOMAIN events, a \in Auditors :
        (\E r \in Records(a) : r.tx = e) <=>
            \E i \in Created(e) \cup SpentBy(e) : leaves[i].auditor = a

(* An auditor can do the books: for every user, the received amounts less  *)
(* the paid ones, of the records the auditor can open, are what the user   *)
(* holds under that auditor, change included. *)
AuditorsBooksBalance ==
    \A a \in Auditors, u \in Users :
        LET records == RecordsFor(a, u)
            Total(rs) == SumFunctionOnSet([r \in rs |-> r.disclosure.amounts[1]], rs)
            received == {r \in records : r.disclosure.recipient = u}
            paid == {r \in records : r.disclosure.action # "deposit" /\ r.disclosure.sender = u}
        IN  Total(received) = HoldingUnder(a, u) + Total(paid)

(* What an auditor of the action reads first of it. *)
BookEntry(e) ==
    LET d == events[e].viewCts[1].payload IN
    [action |-> d.action, from |-> d.sender, to |-> d.recipient, amount |-> d.amounts[1]]

Ledger == INSTANCE PrivateLedger WITH
    Amounts <- DepositAmounts \cup Amounts,
    holding <- [u \in Users |-> Holding(u)],
    book    <- [e \in DOMAIN events |-> BookEntry(e)]

(* The chain is a private ledger, and the disclosures are its book:        *)
(* whoever's flows interleave, a payment moves exactly the disclosed       *)
(* amount from the disclosed sender to the disclosed recipient, change     *)
(* stays with the sender, and proofs that race for a note count once.      *)
ImplementsPrivateLedger == Ledger!LedgerSpec

(* With one flow at a time through one client, as in the demo, whatever    *)
(* the wallet can prove the contract takes: no root has gone stale, no     *)
(* note been spent, between building and landing, unless the tree is full. *)
ProvedIsAccepted ==
    \A t \in Tasks :
        tasks[t].at = "proving" /\ Provable(t)
        /\ Len(leaves) + Len(tasks[t].tx.creates) <= TreeCapacity => Accepts(tasks[t].tx)

(* Then also the local tree is the chain's whenever no answer is on its    *)
(* way, and the check of the root never throws. *)
ClientFollowsChain ==
    /\ (\A t \in Tasks : tasks[t].at \in {"idle", "root", "proving"}) =>
          \A c \in Clients : trees[c] = Chain
    /\ \A t \in Tasks : tasks[t].at = "checking" => SameRoot(tasks[t].local, Len(leaves))

(* "Parse logs, grow the local tree (asserting it matches chain)"          *)
(* (pool-client.ts): what ingest has grown is the chain's tree so far.     *)
IngestedTreeMatchesChain ==
    \A t \in Tasks : tasks[t].at = "ingested" => IsPrefixOfChain(trees[Client(t)])

(* "Idempotent re-scan from last confirmed block" (the design document):   *)
(* whatever has been scanned again, a wallet knows each note once.         *)
RescanIsIdempotent ==
    \A u \in Users :
        IsInjective([k \in DOMAIN wallets[u].notes |-> wallets[u].notes[k].leafIndex])

(* A transfer built from owned, unspent notes with paths that fit can be   *)
(* proved, whichever auditor the recipient has: "cross-auditor sends are   *)
(* explicit and visible to both auditors" (the design document).           *)
EveryTransferCanBeProved ==
    \A t \in Tasks :
        tasks[t].at = "proving" /\ tasks[t].fits => Statement(tasks[t].user, tasks[t].tx)
==============================================================================

---------------------------- MODULE ShieldedPool ----------------------------
(***************************************************************************)
(* The shielded pool contract (contract/src), the NEP-141 token it holds   *)
(* (contracts/mock-ft and the standard behind it) and the NEAR receipts    *)
(* between them.  One action is one receipt: a call runs alone to its end  *)
(* or leaves no trace, and every promise it makes is a later receipt that  *)
(* others run before.  A call that panics changes nothing, so it is an     *)
(* action only where something waits for its result.                       *)
(*                                                                         *)
(* What is abstracted.  A note is its amount and is named by its leaf      *)
(* index; its nullifier, which the circuits derive from the spending key,  *)
(* the commitment and the leaf index, is that index.  A root is the number *)
(* of leaves under it: the tree only grows and roots do not collide.  An   *)
(* accepted proof stands for the truth of its circuit's statement.         *)
(***************************************************************************)
EXTENDS RootsWindow, FiniteSets, Functions

CONSTANTS
    Accounts,         \* account ids that hold tokens, pay and are paid
    Pool,             \* the contract's own account id
    InitialBalance,   \* the token's balances before the pool's first call
    TREE_DEPTH,       \* lib.rs TREE_DEPTH, 20 in the contract
    ROOTS_WINDOW,     \* lib.rs ROOTS_WINDOW, 30 in the contract
    ReceiptIds,       \* bound: the receipts in flight at a time
    MaxAmount,        \* bound: the amounts a call may name
    LeftoverGas,      \* Tgas a withdraw may have left when it returns
    Closers           \* bound: the accounts that may close their token account

ASSUME AccountsAssumption ==
    /\ IsFiniteSet(Accounts) /\ IsFiniteSet(ReceiptIds)
    /\ Pool \notin Accounts /\ Closers \subseteq Accounts
    /\ InitialBalance \in [Accounts -> Nat]

ASSUME ContractAssumption ==
    /\ TREE_DEPTH \in Nat /\ ROOTS_WINDOW \in Nat \ {0}
    /\ MaxAmount \in Nat /\ LeftoverGas \subseteq Nat

VARIABLES
    leaves,         \* tree: the amounts of the committed notes, in leaf order
    recent_roots,   \* the ring of roots a spend may name
    nullifiers,     \* the leaf indices spent
    unclaimed,      \* unclaimed_payouts, 0 where the map has no entry
    paused,
    balance,        \* the token: balances
    registered,     \* the token: accounts with a storage deposit
    receipts        \* the receipts in flight

poolVars == <<leaves, recent_roots, nullifiers, unclaimed, paused>>
tokenVars == <<balance, registered>>
vars == <<leaves, recent_roots, nullifiers, unclaimed, paused,
          balance, registered, receipts>>

------------------------------------------------------------------------------
(* Receipts. *)

(* ok says: of an ft_on_transfer, that its message carries a valid deposit; *)
(* of an ft_resolve_transfer, that the deposit was taken; of a              *)
(* pay_ft_with_recovery, that its gas suffices; of an                       *)
(* on_ft_transfer_complete, that the token made the transfer.               *)
Kinds == { "idle", "ft_on_transfer", "ft_resolve_transfer",
           "pay_ft_with_recovery", "ft_transfer", "on_ft_transfer_complete" }

Receipt ==
    [kind : Kinds, account : Accounts \cup {Pool}, amount : Nat, ok : BOOLEAN]

Call(kind, account, amount, ok) ==
    [kind |-> kind, account |-> account, amount |-> amount, ok |-> ok]

Idle == Call("idle", Pool, 0, TRUE)

FreeIds == {id \in ReceiptIds : receipts[id].kind = "idle"}

FT_TRANSFER_GAS == 5
CALLBACK_GAS == 10

(* Each of a withdraw's payout calls gets its static gas and an equal      *)
(* share of what the withdraw leaves; pay_ft_with_recovery then has to     *)
(* reserve the transfer's gas and the callback's.                          *)
PayoutGasSuffices(leftover, calls) ==
    CALLBACK_GAS + leftover \div calls >= FT_TRANSFER_GAS + CALLBACK_GAS

------------------------------------------------------------------------------
(* The tree, the circuits' statements and the token. *)

TreeCapacity == 2 ^ TREE_DEPTH

Unspent == DOMAIN leaves \ nullifiers

(* The leaves under a root. *)
Under(root) == {i \in DOMAIN leaves : i <= root}

\* Fault: the public amount need not be the whole note.
WithdrawStatementPartial(root, i, amount, fee) ==
    i \in Under(root) /\ leaves[i] >= amount /\ amount >= fee

(* withdraw.circom: the note under the root is worth the public amount,    *)
(* and the fee is no more than it. *)
WithdrawStatement(root, i, amount, fee) ==
    i \in Under(root) /\ leaves[i] = amount /\ amount >= fee

(* transfer.circom: two different notes under the root, and what goes in   *)
(* comes out. *)
TransferStatement(root, i, j, out0, out1) ==
    /\ i \in Under(root) /\ j \in Under(root) /\ i # j
    /\ leaves[i] + leaves[j] = out0 + out1

(* Accounts to and from which the token can move an amount. *)
CanTransfer(from, to, amount) ==
    /\ amount > 0 /\ from # to
    /\ to \in registered \cup {Pool}
    /\ balance[from] >= amount

Moved(from, to, amount) ==
    [balance EXCEPT ![from] = @ - amount, ![to] = @ + amount]

------------------------------------------------------------------------------
Init ==
    /\ leaves = <<>>
    /\ recent_roots = NewWindow(ROOTS_WINDOW)
    /\ nullifiers = {}
    /\ unclaimed = [a \in Accounts |-> 0]
    /\ paused = FALSE
    /\ balance = [a \in Accounts \cup {Pool} |->
                    IF a = Pool THEN 0 ELSE InitialBalance[a]]
    /\ registered = {a \in Accounts : InitialBalance[a] > 0}
    /\ receipts = [id \in ReceiptIds |-> Idle]

(* Owner's emergency stop. *)
SetPaused(value) ==
    /\ paused' = value
    /\ UNCHANGED <<leaves, recent_roots, nullifiers, unclaimed, tokenVars, receipts>>

(* Deposit. *)

(* The token takes the sender's tokens into the pool's account at once and *)
(* asks the pool what it thinks of them. *)
FtTransferCall(a, amount, valid) ==
    /\ a \in registered /\ CanTransfer(a, Pool, amount)
    /\ balance' = Moved(a, Pool, amount)
    /\ \E id \in FreeIds :
          receipts' = [receipts EXCEPT ![id] = Call("ft_on_transfer", a, amount, valid)]
    /\ UNCHANGED <<poolVars, registered>>

\* Fault: the root is read before the insertion.
CommitOldRoot(notes) ==
    /\ Len(leaves) + Len(notes) <= TreeCapacity
    /\ leaves' = leaves \o notes
    /\ recent_roots' = Push(recent_roots, Len(leaves))

(* do_deposit, in the order it changes state: the leaf, then the root over *)
(* it.  A full tree panics like a bad proof does. *)
Commit(notes) ==
    /\ Len(leaves) + Len(notes) <= TreeCapacity
    /\ leaves' = leaves \o notes
    /\ recent_roots' = Push(recent_roots, Len(leaves) + Len(notes))

\* Fault: the token's callback does not look at the pause.
DepositAcceptedWhilePaused(r) == r.ok /\ Len(leaves) < TreeCapacity

DepositAccepted(r) == ~paused /\ r.ok /\ Len(leaves) < TreeCapacity

\* Fault: a deposit the pool cannot take waits instead of failing.
FtOnTransferWaits(id) ==
    LET r == receipts[id] IN
    /\ r.kind = "ft_on_transfer" /\ DepositAccepted(r)
    /\ Commit(<<r.amount>>)
    /\ receipts' = [receipts EXCEPT ![id].kind = "ft_resolve_transfer"]
    /\ UNCHANGED <<nullifiers, unclaimed, paused, tokenVars>>

FtOnTransfer(id) ==
    LET r == receipts[id] IN
    /\ r.kind = "ft_on_transfer"
    /\ \/ /\ DepositAccepted(r)
          /\ Commit(<<r.amount>>)
       \/ /\ ~DepositAccepted(r)
          /\ UNCHANGED <<leaves, recent_roots>>
    /\ receipts' = [receipts EXCEPT ![id] =
                       Call("ft_resolve_transfer", r.account, r.amount, DepositAccepted(r))]
    /\ UNCHANGED <<nullifiers, unclaimed, paused, tokenVars>>

(* The token refunds what the pool did not take, as far as the pool's      *)
(* balance goes, and burns it if the sender has closed its account.        *)
FtResolveTransfer(id) ==
    LET r == receipts[id]
        unused == IF r.ok THEN 0 ELSE r.amount
        refund == IF unused <= balance[Pool] THEN unused ELSE balance[Pool]
    IN
    /\ r.kind = "ft_resolve_transfer"
    /\ balance' = IF r.account \in registered
                  THEN Moved(Pool, r.account, refund)
                  ELSE [balance EXCEPT ![Pool] = @ - refund]
    /\ receipts' = [receipts EXCEPT ![id] = Idle]
    /\ UNCHANGED <<poolVars, registered>>

(* Shielded transfer: two notes in, two notes out, one root. *)
Transfer(root, i, j, out0, out1) ==
    /\ ~paused
    /\ Contains(recent_roots, root)
    /\ i # j /\ i \notin nullifiers /\ j \notin nullifiers
    /\ TransferStatement(root, i, j, out0, out1)
    /\ nullifiers' = nullifiers \cup {i, j}
    /\ Commit(<<out0, out1>>)
    /\ UNCHANGED <<unclaimed, paused, tokenVars, receipts>>

Payout(a, amount, leftover, calls) ==
    Call("pay_ft_with_recovery", a, amount, PayoutGasSuffices(leftover, calls))

(* Withdrawal of a whole note: the nullifier is spent, the payouts are     *)
(* promised and nothing is told whether they happen. *)
Withdraw(root, i, recipient, amount, relayer, fee, leftover) ==
    /\ ~paused
    /\ fee <= amount
    /\ Contains(recent_roots, root)
    /\ i \notin nullifiers
    /\ WithdrawStatement(root, i, amount, fee)
    /\ nullifiers' = nullifiers \cup {i}
    /\ \/ /\ fee = 0
          /\ \E pay \in FreeIds :
                receipts' = [receipts EXCEPT
                    ![pay] = Payout(recipient, amount, leftover, 1)]
       \/ /\ fee > 0
          /\ \E pay, payFee \in FreeIds :
                /\ pay # payFee
                /\ receipts' = [receipts EXCEPT
                    ![pay] = Payout(recipient, amount - fee, leftover, 2),
                    ![payFee] = Payout(relayer, fee, leftover, 2)]
    /\ UNCHANGED <<leaves, recent_roots, unclaimed, paused, tokenVars>>

(* pay_ft_with_recovery: the transfer and, after it, the recovery          *)
(* callback.  Without the gas for both the receipt fails, and withdraw     *)
(* attached nothing to its failure. *)
PayFtWithRecovery(id) ==
    LET r == receipts[id] IN
    /\ r.kind = "pay_ft_with_recovery"
    /\ receipts' = [receipts EXCEPT ![id] =
                       IF r.ok THEN Call("ft_transfer", r.account, r.amount, TRUE)
                       ELSE Idle]
    /\ UNCHANGED <<poolVars, tokenVars>>

(* The token pays or refuses; the callback hears which. *)
FtTransfer(id) ==
    LET r == receipts[id]
        paid == CanTransfer(Pool, r.account, r.amount)
    IN
    /\ r.kind = "ft_transfer"
    /\ balance' = IF paid THEN Moved(Pool, r.account, r.amount) ELSE balance
    /\ receipts' = [receipts EXCEPT ![id] =
                       Call("on_ft_transfer_complete", r.account, r.amount, paid)]
    /\ UNCHANGED <<poolVars, registered>>

\* Fault: a second failed payout overwrites what the first one left to claim.
OnFtTransferCompleteOverwrites(id) ==
    LET r == receipts[id] IN
    /\ r.kind = "on_ft_transfer_complete"
    /\ unclaimed' = IF r.ok THEN unclaimed
                    ELSE [unclaimed EXCEPT ![r.account] = r.amount]
    /\ receipts' = [receipts EXCEPT ![id] = Idle]
    /\ UNCHANGED <<leaves, recent_roots, nullifiers, paused, tokenVars>>

OnFtTransferComplete(id) ==
    LET r == receipts[id] IN
    /\ r.kind = "on_ft_transfer_complete"
    /\ unclaimed' = IF r.ok THEN unclaimed
                    ELSE [unclaimed EXCEPT ![r.account] = @ + r.amount]
    /\ receipts' = [receipts EXCEPT ![id] = Idle]
    /\ UNCHANGED <<leaves, recent_roots, nullifiers, paused, tokenVars>>

\* Fault: the entry stays in the book until the transfer is known to succeed.
ClaimKeepsEntry(a) ==
    /\ unclaimed[a] > 0
    /\ \E id \in FreeIds :
          receipts' = [receipts EXCEPT ![id] = Call("ft_transfer", a, unclaimed[a], TRUE)]
    /\ UNCHANGED <<poolVars, tokenVars>>

\* Fault: the pause stops claims too.
ClaimUnlessPaused(a) ==
    /\ ~paused /\ unclaimed[a] > 0
    /\ unclaimed' = [unclaimed EXCEPT ![a] = 0]
    /\ \E id \in FreeIds :
          receipts' = [receipts EXCEPT ![id] = Call("ft_transfer", a, unclaimed[a], TRUE)]
    /\ UNCHANGED <<leaves, recent_roots, nullifiers, paused, tokenVars>>

(* claim: the entry goes first, the money follows; not stopped by a pause. *)
Claim(a) ==
    /\ unclaimed[a] > 0
    /\ unclaimed' = [unclaimed EXCEPT ![a] = 0]
    /\ \E id \in FreeIds :
          receipts' = [receipts EXCEPT ![id] = Call("ft_transfer", a, unclaimed[a], TRUE)]
    /\ UNCHANGED <<leaves, recent_roots, nullifiers, paused, tokenVars>>

(* storage_deposit and storage_unregister at the token. *)
Register(a) ==
    /\ a \notin registered
    /\ registered' = registered \cup {a}
    /\ UNCHANGED <<poolVars, balance, receipts>>

Unregister(a) ==
    /\ a \in Closers /\ a \in registered /\ balance[a] = 0
    /\ registered' = registered \ {a}
    /\ UNCHANGED <<poolVars, balance, receipts>>

------------------------------------------------------------------------------
ExecuteReceipt(id) ==
    \/ FtOnTransfer(id)
    \/ FtResolveTransfer(id)
    \/ PayFtWithRecovery(id)
    \/ FtTransfer(id)
    \/ OnFtTransferComplete(id)

Amounts == 0 .. MaxAmount

Spend ==
    \E root, i \in DOMAIN leaves :
        \/ \E j \in DOMAIN leaves, out0, out1 \in Amounts :
              Transfer(root, i, j, out0, out1)
        \/ \E recipient, relayer \in Accounts, amount, fee \in Amounts, leftover \in LeftoverGas :
              Withdraw(root, i, recipient, amount, relayer, fee, leftover)

Next ==
    \/ \E value \in BOOLEAN : SetPaused(value)
    \/ \E a \in Accounts : Register(a) \/ Unregister(a) \/ Claim(a)
    \/ \E a \in Accounts, amount \in Amounts, valid \in BOOLEAN :
          FtTransferCall(a, amount, valid)
    \/ Spend
    \/ \E id \in ReceiptIds : ExecuteReceipt(id)

Spec == Init /\ [][Next]_vars

(* NEAR executes every receipt.  Nothing makes the owner unpause or a user *)
(* spend; an account that is owed money may register with the token and    *)
(* keeps claiming, against any other use of the receipts in flight.        *)
FairSpec ==
    /\ Spec
    /\ \A id \in ReceiptIds : WF_vars(ExecuteReceipt(id))
    /\ \A a \in Accounts : WF_vars(Register(a)) /\ SF_vars(Claim(a))

------------------------------------------------------------------------------
(* What the state says about money. *)

(* The notes' worth. *)
ShieldedValue == SumFunctionOnSet(leaves, Unspent)

(* Tokens a deposit has moved to the pool and that are not a note yet. *)
IsPendingDeposit(r) ==
    r.kind = "ft_on_transfer" \/ (r.kind = "ft_resolve_transfer" /\ ~r.ok)

(* Tokens a withdrawal or a claim has promised and not delivered. *)
IsPayout(r) ==
    \/ r.kind \in {"pay_ft_with_recovery", "ft_transfer"}
    \/ r.kind = "on_ft_transfer_complete" /\ ~r.ok

PendingDeposits(a) ==
    SumFunction([id \in ReceiptIds |->
        IF IsPendingDeposit(receipts[id]) /\ receipts[id].account = a
        THEN receipts[id].amount ELSE 0])

PayoutsInFlight(a) ==
    SumFunction([id \in ReceiptIds |->
        IF IsPayout(receipts[id]) /\ receipts[id].account = a
        THEN receipts[id].amount ELSE 0])

Due(a) == unclaimed[a] + PayoutsInFlight(a)

------------------------------------------------------------------------------
(* Properties. *)

(* Types, and the ring's shape. *)
TypeOK ==
    /\ leaves \in Seq(Nat)
    /\ IsWindow(recent_roots, ROOTS_WINDOW, Nat)
    /\ nullifiers \subseteq DOMAIN leaves
    /\ unclaimed \in [Accounts -> Nat]
    /\ paused \in BOOLEAN
    /\ balance \in [Accounts \cup {Pool} -> Nat]
    /\ registered \subseteq Accounts
    /\ receipts \in [ReceiptIds -> Receipt]

(* Solvency: at every point between two receipts, the pool's token balance *)
(* is exactly its unspent notes, the deposits it has not taken or refused, *)
(* the payouts on their way and the recovery book.  No interleaving of     *)
(* deposits, spends, failed payouts and claims mints or loses a token.     *)
Solvency ==
    balance[Pool] = ShieldedValue
                    + SumFunction([a \in Accounts |-> PendingDeposits(a) + Due(a)])

(* Whenever there is a note there is a window for it: the root over all of *)
(* the tree is accepted, so the owner of any unspent note, however old,    *)
(* can prove it now; and no accepted root covers leaves that do not exist. *)
EveryNoteProvable ==
    /\ \A i \in Unspent : \E root \in DOMAIN leaves :
          Contains(recent_roots, root) /\ i \in Under(root)
    /\ \A k \in DOMAIN recent_roots.roots : recent_roots.roots[k] \in DOMAIN leaves

Ledger == INSTANCE PoolLedger WITH
    wallet <- [a \in Accounts |-> balance[a] + PendingDeposits(a)],
    vault  <- ShieldedValue,
    due    <- [a \in Accounts |-> Due(a)],
    open   <- registered

(* The pool implements the public ledger: tokens reach the vault only by a *)
(* deposit of the depositor's own, a refused deposit is whole again in the *)
(* depositor's wallet, a withdrawal owes its payee and its relayer exactly *)
(* the note, and what is owed ends only in the wallet it is owed to,       *)
(* through failed transfers, claims and failed claims.                     *)
ImplementsLedger == Ledger!LedgerSpec

(* The emergency stop freezes the shielded state whatever was on its way   *)
(* when it was pulled: no leaf, root or nullifier appears under a pause,   *)
(* also not by a deposit whose tokens arrived before it.                   *)
PauseFreezesNotes ==
    [][paused => UNCHANGED <<leaves, recent_roots, nullifiers>>]_vars

(* What the pool owes an account shrinks only by paying that account       *)
(* (withdraw.rs: the callback is there because a failed transfer "would    *)
(* lose funds permanently").                                               *)
PayoutNeverLost ==
    [][\A a \in Accounts :
         Due(a)' < Due(a) => balance'[a] - balance[a] = Due(a) - Due(a)']_vars

(* A refused or accepted deposit is settled: no token stays between the    *)
(* depositor and the notes, paused pool or not. *)
DepositsSettle ==
    \A id \in ReceiptIds :
        IsPendingDeposit(receipts[id]) ~> ~IsPendingDeposit(receipts[id])

(* Everything owed is paid in the end, through failed transfers and failed *)
(* claims, and also if the pool is paused for good.                        *)
PayoutsSettle == \A a \in Accounts : Due(a) > 0 ~> Due(a) = 0
==============================================================================

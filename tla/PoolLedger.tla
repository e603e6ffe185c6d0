------------------------------ MODULE PoolLedger ------------------------------
(***************************************************************************)
(* What the shielded pool promises in public money, with no notes, proofs, *)
(* receipts or recovery book: an account's tokens go into the vault by a   *)
(* deposit, a withdrawal turns vault money into money owed to named        *)
(* accounts, and money owed leaves the ledger only into the wallet of the  *)
(* account it is owed to.                                                  *)
(***************************************************************************)
EXTENDS Integers

CONSTANTS
    Accounts,
    InitialBalance   \* [Accounts -> Nat]: the tokens each account starts with

VARIABLES
    wallet,   \* tokens that are an account's own
    vault,    \* tokens the shielded notes stand for
    due,      \* tokens the pool owes an account in the clear
    open      \* the accounts the token contract can pay

ledgerVars == <<wallet, vault, due, open>>

LedgerInit ==
    /\ wallet = InitialBalance
    /\ vault = 0
    /\ due = [a \in Accounts |-> 0]
    /\ open \in SUBSET Accounts

Deposit(a, amount) ==
    /\ 0 < amount /\ amount <= wallet[a]
    /\ wallet' = [wallet EXCEPT ![a] = @ - amount]
    /\ vault' = vault + amount
    /\ UNCHANGED <<due, open>>

(* A withdrawal names its payee, the relayer and the relayer's fee; the    *)
(* two may be one account.                                                 *)
Withdraw(a, relayer, amount, fee) ==
    /\ fee <= amount /\ amount <= vault
    /\ vault' = vault - amount
    /\ due' = [b \in Accounts |->
                 due[b] + (IF b = a THEN amount - fee ELSE 0)
                        + (IF b = relayer THEN fee ELSE 0)]
    /\ UNCHANGED <<wallet, open>>

Pay(a, amount) ==
    /\ a \in open
    /\ 0 < amount /\ amount <= due[a]
    /\ due' = [due EXCEPT ![a] = @ - amount]
    /\ wallet' = [wallet EXCEPT ![a] = @ + amount]
    /\ UNCHANGED <<vault, open>>

OpenAccount(a) ==
    /\ open' = open \cup {a}
    /\ UNCHANGED <<wallet, vault, due>>

CloseAccount(a) ==
    /\ open' = open \ {a}
    /\ UNCHANGED <<wallet, vault, due>>

(* An account that closed its token account while a refund was on its way  *)
(* loses the refund: the token burns it.                                   *)
Forfeit(a, amount) ==
    /\ a \notin open
    /\ 0 < amount /\ amount <= wallet[a]
    /\ wallet' = [wallet EXCEPT ![a] = @ - amount]
    /\ UNCHANGED <<vault, due, open>>

LedgerNext ==
    \/ \E a \in Accounts :
          \/ OpenAccount(a)
          \/ CloseAccount(a)
          \/ \E amount \in 1 .. wallet[a] : Deposit(a, amount) \/ Forfeit(a, amount)
          \/ \E amount \in 1 .. due[a] : Pay(a, amount)
    \/ \E a, relayer \in Accounts, amount \in 0 .. vault :
          \E fee \in 0 .. amount : Withdraw(a, relayer, amount, fee)

LedgerSpec == LedgerInit /\ [][LedgerNext]_ledgerVars
===============================================================================

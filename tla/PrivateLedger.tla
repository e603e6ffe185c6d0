---------------------------- MODULE PrivateLedger ----------------------------
(***************************************************************************)
(* What the shielded pool promises its users and their auditors, in        *)
(* private money: everybody has a holding, and a book tells every movement *)
(* of it: a deposit, a payment of exactly the named amount from payer to   *)
(* payee, or a withdrawal.                                                 *)
(***************************************************************************)
EXTENDS Naturals, Sequences

CONSTANTS Users, Amounts

VARIABLES holding, book

Entry(action, from, to, amount) ==
    [action |-> action, from |-> from, to |-> to, amount |-> amount]

LedgerInit ==
    /\ holding = [u \in Users |-> 0]
    /\ book = <<>>

Deposit(u, amount) ==
    /\ holding' = [holding EXCEPT ![u] = @ + amount]
    /\ book' = Append(book, Entry("deposit", u, u, amount))

Pay(u, v, amount) ==
    /\ amount <= holding[u]
    /\ holding' = IF u = v THEN holding
                  ELSE [holding EXCEPT ![u] = @ - amount, ![v] = @ + amount]
    /\ book' = Append(book, Entry("transfer", u, v, amount))

Withdraw(u, amount) ==
    /\ amount <= holding[u]
    /\ holding' = [holding EXCEPT ![u] = @ - amount]
    /\ book' = Append(book, Entry("withdraw", u, "account", amount))

LedgerNext ==
    \E u \in Users, amount \in Amounts :
        \/ Deposit(u, amount)
        \/ Withdraw(u, amount)
        \/ \E v \in Users : Pay(u, v, amount)

LedgerSteps == [][LedgerNext]_<<holding, book>>

LedgerSpec == LedgerInit /\ LedgerSteps
==============================================================================

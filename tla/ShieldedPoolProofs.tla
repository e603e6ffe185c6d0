-------------------------- MODULE ShieldedPoolProofs --------------------------
(***************************************************************************)
(* Theorems about the pool for any accounts, any tree depth, any window    *)
(* and any number of receipts in flight.                                   *)
(***************************************************************************)
EXTENDS ShieldedPool, OperatorProofs, SequenceTheorems

(* A receipt record is a receipt. *)
LEMMA CallType ==
    ASSUME NEW kind \in Kinds, NEW a \in Accounts \cup {Pool}, NEW n \in Nat, NEW ok \in BOOLEAN
    PROVE  /\ Call(kind, a, n, ok) \in Receipt
           /\ Call(kind, a, n, ok).kind = kind /\ Call(kind, a, n, ok).account = a
           /\ Call(kind, a, n, ok).amount = n /\ Call(kind, a, n, ok).ok = ok
BY DEF Call, Receipt

LEMMA PayoutType ==
    ASSUME NEW a \in Accounts, NEW n \in Nat, NEW leftover, NEW calls
    PROVE  /\ Payout(a, n, leftover, calls) \in Receipt
           /\ Payout(a, n, leftover, calls).kind = "pay_ft_with_recovery"
           /\ Payout(a, n, leftover, calls).account = a
           /\ Payout(a, n, leftover, calls).amount = n
<1>1. PayoutGasSuffices(leftover, calls) \in BOOLEAN
    BY DEF PayoutGasSuffices
<1>. QED BY <1>1, CallType DEF Payout, Kinds

LEMMA IdleType == Idle \in Receipt /\ Idle.kind = "idle"
<1>1. "idle" \in Kinds /\ Pool \in Accounts \cup {Pool} /\ 0 \in Nat /\ TRUE \in BOOLEAN
    BY DEF Kinds
<1>2. Call("idle", Pool, 0, TRUE) \in Receipt /\ Call("idle", Pool, 0, TRUE).kind = "idle"
    BY <1>1, CallType
<1>. QED BY <1>2 DEF Idle

(* Committing notes keeps the tree and its window well-formed. *)
LEMMA CommitType ==
    ASSUME TypeOK, NEW notes \in Seq(Nat), Commit(notes)
    PROVE  /\ leaves' \in Seq(Nat) /\ Len(leaves') = Len(leaves) + Len(notes)
           /\ DOMAIN leaves \subseteq DOMAIN leaves'
           /\ \A i \in DOMAIN leaves : leaves'[i] = leaves[i]
           /\ IsWindow(recent_roots', ROOTS_WINDOW, Nat)
           /\ recent_roots' = Push(recent_roots, Len(leaves'))
<1>1. leaves \in Seq(Nat) /\ IsWindow(recent_roots, ROOTS_WINDOW, Nat)
    BY DEF TypeOK
<1>2. leaves' = leaves \o notes /\ recent_roots' = Push(recent_roots, Len(leaves) + Len(notes))
    BY DEF Commit
<1>3. /\ leaves' \in Seq(Nat) /\ Len(leaves') = Len(leaves) + Len(notes)
      /\ \A i \in 1 .. Len(leaves) : leaves'[i] = leaves[i]
    BY <1>1, <1>2, ConcatProperties
<1>4. DOMAIN leaves = 1 .. Len(leaves) /\ DOMAIN leaves' = 1 .. Len(leaves')
    BY <1>1, <1>3, LenProperties
<1>5. Len(leaves) \in Nat /\ Len(notes) \in Nat
    BY <1>1, LenProperties
<1>6. IsWindow(recent_roots', ROOTS_WINDOW, Nat)
    BY <1>1, <1>2, <1>5, ContractAssumption, PushIsWindow
<1>. QED BY <1>1, <1>2, <1>3, <1>4, <1>5, <1>6

(* A transfer of the token between two different accounts keeps balances   *)
(* natural when the sender has the amount. *)
LEMMA MovedType ==
    ASSUME TypeOK, NEW from \in Accounts \cup {Pool}, NEW to \in Accounts \cup {Pool},
           NEW amount \in Nat, from # to, amount <= balance[from]
    PROVE  /\ Moved(from, to, amount) \in [Accounts \cup {Pool} -> Nat]
           /\ Moved(from, to, amount)
                = [a \in Accounts \cup {Pool} |->
                     IF a = from THEN balance[a] - amount
                     ELSE IF a = to THEN balance[a] + amount ELSE balance[a]]
<1>1. balance \in [Accounts \cup {Pool} -> Nat]
    BY DEF TypeOK
<1>2. Moved(from, to, amount)
        = [a \in Accounts \cup {Pool} |->
             IF a = from THEN balance[a] - amount
             ELSE IF a = to THEN balance[a] + amount ELSE balance[a]]
    <2>. DEFINE less == [balance EXCEPT ![from] = balance[from] - amount]
    <2>1. less \in [Accounts \cup {Pool} -> Int] /\ less[to] = balance[to]
        BY <1>1
    <2>2. Moved(from, to, amount) = [less EXCEPT ![to] = less[to] + amount]
        BY <1>1 DEF Moved
    <2>. HIDE DEF less
    <2>3. \A a \in Accounts \cup {Pool} :
            less[a] = IF a = from THEN balance[a] - amount ELSE balance[a]
        BY <1>1 DEF less
    <2>. QED BY <2>1, <2>2, <2>3
<1>3. \A a \in Accounts \cup {Pool} :
        (IF a = from THEN balance[a] - amount
         ELSE IF a = to THEN balance[a] + amount ELSE balance[a]) \in Nat
    BY <1>1
<1>. QED BY <1>2, <1>3

(* The types hold from the first call on: no balance goes below zero, no   *)
(* nullifier names a leaf that is not there, the ring keeps its shape.     *)
THEOREM TypeCorrect == Spec => []TypeOK
<1>1. Init => TypeOK
    <2>. SUFFICES ASSUME Init PROVE TypeOK
        OBVIOUS
    <2>1. IsWindow(recent_roots, ROOTS_WINDOW, Nat)
        BY ContractAssumption, NewWindowIsWindow DEF Init
    <2>2. balance \in [Accounts \cup {Pool} -> Nat] /\ registered \subseteq Accounts
        <3>1. \A a \in Accounts \cup {Pool} :
                (IF a = Pool THEN 0 ELSE InitialBalance[a]) \in Nat
            BY AccountsAssumption
        <3>. QED BY <3>1 DEF Init
    <2>3. receipts \in [ReceiptIds -> Receipt]
        BY IdleType DEF Init
    <2>4. leaves \in Seq(Nat) /\ nullifiers \subseteq DOMAIN leaves
        BY DEF Init
    <2>5. unclaimed \in [Accounts -> Nat] /\ paused \in BOOLEAN
        BY DEF Init
    <2>. QED BY <2>1, <2>2, <2>3, <2>4, <2>5 DEF TypeOK
<1>2. ASSUME TypeOK, [Next]_vars PROVE TypeOK'
    <2>. USE <1>2
    <2>. USE DEF poolVars, tokenVars
    <2>0. /\ leaves \in Seq(Nat) /\ DOMAIN leaves = 1 .. Len(leaves)
          /\ IsWindow(recent_roots, ROOTS_WINDOW, Nat)
          /\ receipts \in [ReceiptIds -> Receipt]
          /\ \A id \in ReceiptIds : /\ receipts[id].kind \in Kinds
                                    /\ receipts[id].account \in Accounts \cup {Pool}
                                    /\ receipts[id].amount \in Nat
                                    /\ receipts[id].ok \in BOOLEAN
        BY LenProperties DEF TypeOK, Receipt
    <2>1. ASSUME NEW value \in BOOLEAN, SetPaused(value) PROVE TypeOK'
        BY <2>1 DEF TypeOK, SetPaused
    <2>2. ASSUME NEW a \in Accounts, Register(a) PROVE TypeOK'
        BY <2>2 DEF TypeOK, Register
    <2>3. ASSUME NEW a \in Accounts, Unregister(a) PROVE TypeOK'
        BY <2>3 DEF TypeOK, Unregister
    <2>4. ASSUME NEW a \in Accounts, Claim(a) PROVE TypeOK'
        <3>1. unclaimed[a] \in Nat
            BY DEF TypeOK
        <3>2. Call("ft_transfer", a, unclaimed[a], TRUE) \in Receipt
            BY <3>1, CallType DEF Kinds
        <3>3. receipts' \in [ReceiptIds -> Receipt]
            BY <2>0, <2>4, <3>2 DEF Claim, FreeIds
        <3>. QED BY <2>4, <3>3 DEF TypeOK, Claim
    <2>5. ASSUME NEW a \in Accounts, NEW amount \in Amounts, NEW valid \in BOOLEAN,
                 FtTransferCall(a, amount, valid)
          PROVE  TypeOK'
        <3>1. amount \in Nat /\ a # Pool /\ amount <= balance[a]
            BY <2>5, AccountsAssumption, ContractAssumption
               DEF Amounts, FtTransferCall, CanTransfer, TypeOK
        <3>2. balance' \in [Accounts \cup {Pool} -> Nat]
            BY <2>5, <3>1, MovedType DEF FtTransferCall
        <3>3. Call("ft_on_transfer", a, amount, valid) \in Receipt
            BY <3>1, CallType DEF Kinds
        <3>4. receipts' \in [ReceiptIds -> Receipt]
            BY <2>0, <2>5, <3>3 DEF FtTransferCall, FreeIds
        <3>. QED BY <2>5, <3>2, <3>4 DEF TypeOK, FtTransferCall
    <2>6. ASSUME NEW root \in DOMAIN leaves, NEW i \in DOMAIN leaves, NEW j \in DOMAIN leaves,
                 NEW out0 \in Amounts, NEW out1 \in Amounts, Transfer(root, i, j, out0, out1)
          PROVE  TypeOK'
        <3>1. <<out0, out1>> \in Seq(Nat) /\ Commit(<<out0, out1>>)
            BY <2>6, ContractAssumption DEF Amounts, Transfer
        <3>2. /\ leaves' \in Seq(Nat) /\ DOMAIN leaves \subseteq DOMAIN leaves'
              /\ IsWindow(recent_roots', ROOTS_WINDOW, Nat)
            BY <3>1, CommitType
        <3>. QED BY <2>6, <3>2 DEF TypeOK, Transfer
    <2>7. ASSUME NEW root \in DOMAIN leaves, NEW i \in DOMAIN leaves,
                 NEW recipient \in Accounts, NEW relayer \in Accounts,
                 NEW amount \in Amounts, NEW fee \in Amounts, NEW leftover \in LeftoverGas,
                 Withdraw(root, i, recipient, amount, relayer, fee, leftover)
          PROVE  TypeOK'
        <3>1. amount \in Nat /\ fee \in Nat /\ amount - fee \in Nat
            BY <2>7, ContractAssumption DEF Amounts, Withdraw
        <3>2. \A a \in Accounts, n \in Nat, calls \in {1, 2} :
                Payout(a, n, leftover, calls) \in Receipt
            BY PayoutType
        <3>3. receipts' \in [ReceiptIds -> Receipt]
            <4>1. CASE fee = 0
                <5>1. Payout(recipient, amount, leftover, 1) \in Receipt
                    BY <3>1, <3>2
                <5>. QED BY <2>0, <2>7, <4>1, <5>1 DEF Withdraw, FreeIds
            <4>2. CASE fee > 0
                <5>1. /\ Payout(recipient, amount - fee, leftover, 2) \in Receipt
                      /\ Payout(relayer, fee, leftover, 2) \in Receipt
                    BY <3>1, <3>2
                <5>. QED BY <2>0, <2>7, <4>2, <5>1 DEF Withdraw, FreeIds
            <4>. QED BY <3>1, <4>1, <4>2
        <3>. QED BY <2>7, <3>3 DEF TypeOK, Withdraw
    <2>8. ASSUME NEW id \in ReceiptIds, FtOnTransfer(id) PROVE TypeOK'
        <3>. DEFINE r == receipts[id]
        <3>1. DepositAccepted(r) \in BOOLEAN
            BY DEF DepositAccepted
        <3>2. receipts' \in [ReceiptIds -> Receipt]
            BY <2>0, <2>8, <3>1, CallType DEF FtOnTransfer, Kinds
        <3>3. CASE DepositAccepted(r)
            <4>1. <<r.amount>> \in Seq(Nat) /\ Commit(<<r.amount>>)
                BY <2>0, <2>8, <3>3 DEF FtOnTransfer
            <4>2. /\ leaves' \in Seq(Nat) /\ DOMAIN leaves \subseteq DOMAIN leaves'
                  /\ IsWindow(recent_roots', ROOTS_WINDOW, Nat)
                BY <4>1, CommitType
            <4>. QED BY <2>8, <3>2, <4>2 DEF TypeOK, FtOnTransfer
        <3>4. CASE ~DepositAccepted(r)
            BY <2>8, <3>2, <3>4 DEF TypeOK, FtOnTransfer
        <3>. QED BY <3>3, <3>4
    <2>9. ASSUME NEW id \in ReceiptIds, FtResolveTransfer(id) PROVE TypeOK'
        <3>. DEFINE r == receipts[id]
                    unused == IF r.ok THEN 0 ELSE r.amount
                    refund == IF unused <= balance[Pool] THEN unused ELSE balance[Pool]
        <3>1. refund \in Nat /\ refund <= balance[Pool] /\ balance[Pool] \in Nat
            BY <2>0 DEF TypeOK
        <3>2. balance' = IF r.account \in registered
                         THEN Moved(Pool, r.account, refund)
                         ELSE [balance EXCEPT ![Pool] = @ - refund]
            BY <2>9 DEF FtResolveTransfer
        <3>. HIDE DEF refund
        <3>3. balance' \in [Accounts \cup {Pool} -> Nat]
            <4>1. CASE r.account \in registered
                <5>1. r.account \in Accounts \cup {Pool} /\ Pool # r.account
                    BY <4>1, AccountsAssumption DEF TypeOK
                <5>. QED BY <3>1, <3>2, <4>1, <5>1, MovedType
            <4>2. CASE r.account \notin registered
                BY <3>1, <3>2, <4>2 DEF TypeOK
            <4>. QED BY <4>1, <4>2
        <3>4. receipts' \in [ReceiptIds -> Receipt]
            BY <2>0, <2>9, IdleType DEF FtResolveTransfer
        <3>. QED BY <2>9, <3>3, <3>4 DEF TypeOK, FtResolveTransfer
    <2>10. ASSUME NEW id \in ReceiptIds, PayFtWithRecovery(id) PROVE TypeOK'
        <3>1. receipts' \in [ReceiptIds -> Receipt]
            BY <2>0, <2>10, IdleType, CallType DEF PayFtWithRecovery, Kinds
        <3>. QED BY <2>10, <3>1 DEF TypeOK, PayFtWithRecovery
    <2>11. ASSUME NEW id \in ReceiptIds, FtTransfer(id) PROVE TypeOK'
        <3>. DEFINE r == receipts[id]
                    paid == CanTransfer(Pool, r.account, r.amount)
        <3>1. paid \in BOOLEAN
            BY DEF CanTransfer
        <3>2. receipts' \in [ReceiptIds -> Receipt]
            BY <2>0, <2>11, <3>1, CallType DEF FtTransfer, Kinds
        <3>3. balance' \in [Accounts \cup {Pool} -> Nat]
            <4>1. CASE paid
                <5>1. r.account \in Accounts \cup {Pool} /\ r.account # Pool
                      /\ r.amount <= balance[Pool] /\ r.amount \in Nat
                    BY <2>0, <4>1 DEF CanTransfer, TypeOK
                <5>2. balance' = Moved(Pool, r.account, r.amount)
                    BY <2>11, <4>1 DEF FtTransfer
                <5>. QED BY <5>1, <5>2, MovedType
            <4>2. CASE ~paid
                BY <2>11, <4>2 DEF FtTransfer, TypeOK
            <4>. QED BY <4>1, <4>2
        <3>. QED BY <2>11, <3>2, <3>3 DEF TypeOK, FtTransfer
    <2>12. ASSUME NEW id \in ReceiptIds, OnFtTransferComplete(id) PROVE TypeOK'
        <3>1. receipts' \in [ReceiptIds -> Receipt]
            BY <2>0, <2>12, IdleType DEF OnFtTransferComplete
        <3>2. unclaimed \in [Accounts -> Nat] /\ receipts[id].amount \in Nat
            BY <2>0 DEF TypeOK
        <3>3. unclaimed' \in [Accounts -> Nat]
            <4>1. CASE receipts[id].ok
                BY <2>12, <3>2, <4>1 DEF OnFtTransferComplete
            <4>2. CASE ~receipts[id].ok /\ receipts[id].account \in Accounts
                <5>1. unclaimed' = [unclaimed EXCEPT ![receipts[id].account]
                                       = unclaimed[receipts[id].account] + receipts[id].amount]
                    BY <2>12, <4>2 DEF OnFtTransferComplete
                <5>2. unclaimed[receipts[id].account] + receipts[id].amount \in Nat
                    BY <3>2, <4>2
                <5>. QED BY <3>2, <5>1, <5>2
            <4>3. CASE ~receipts[id].ok /\ receipts[id].account \notin Accounts
                BY <2>12, <3>2, <4>3 DEF OnFtTransferComplete
            <4>. QED BY <4>1, <4>2, <4>3
        <3>. QED BY <2>12, <3>1, <3>3 DEF TypeOK, OnFtTransferComplete
    <2>13. CASE UNCHANGED vars
        BY <2>13 DEF TypeOK, vars
    <2>. QED BY <1>2, <2>1, <2>2, <2>3, <2>4, <2>5, <2>6, <2>7, <2>8, <2>9, <2>10, <2>11,
                <2>12, <2>13 DEF Next, Spend, ExecuteReceipt
<1>. QED BY <1>1, <1>2, PTL DEF Spec

------------------------------------------------------------------------------
(* The window and the tree move together. *)

(* The strengthening of EveryNoteProvable that a step preserves: the root  *)
(* that must be in the window is the newest one, over all of the tree.     *)
WindowFollowsTree ==
    /\ leaves # <<>> => Contains(recent_roots, Len(leaves))
    /\ \A k \in DOMAIN recent_roots.roots : recent_roots.roots[k] \in DOMAIN leaves

(* Committing notes leaves the window following the tree. *)
LEMMA CommitFollows ==
    ASSUME TypeOK, WindowFollowsTree, NEW notes \in Seq(Nat), notes # <<>>, Commit(notes)
    PROVE  WindowFollowsTree'
<1>. DEFINE root == Len(leaves')
<1>1. /\ leaves' \in Seq(Nat) /\ root = Len(leaves) + Len(notes)
      /\ DOMAIN leaves \subseteq DOMAIN leaves'
      /\ recent_roots' = Push(recent_roots, root)
    BY CommitType
<1>2. root \in Nat /\ root \in DOMAIN leaves'
    <2>1. Len(leaves) \in Nat /\ Len(notes) \in Nat /\ Len(notes) # 0
        BY EmptySeq, LenProperties DEF TypeOK
    <2>2. DOMAIN leaves' = 1 .. root
        BY <1>1, LenProperties
    <2>. QED BY <1>1, <2>1, <2>2
<1>. HIDE DEF root
<1>3. IsWindow(recent_roots, ROOTS_WINDOW, Nat) /\ ROOTS_WINDOW \in Nat \ {0}
    BY ContractAssumption DEF TypeOK
<1>4. Contains(recent_roots', root)
    BY <1>1, <1>2, <1>3, PushContains
<1>5. ASSUME NEW k \in DOMAIN recent_roots'.roots
      PROVE  recent_roots'.roots[k] \in DOMAIN leaves'
    <2>1. Contains(Push(recent_roots, root), recent_roots'.roots[k])
        BY <1>1 DEF Contains
    <2>2. \/ recent_roots'.roots[k] = root
          \/ Contains(recent_roots, recent_roots'.roots[k])
        BY <1>2, <1>3, <2>1, PushAddsOnly
    <2>3. ASSUME Contains(recent_roots, recent_roots'.roots[k])
          PROVE  recent_roots'.roots[k] \in DOMAIN leaves
        BY <2>3 DEF Contains, WindowFollowsTree
    <2>. QED BY <1>1, <1>2, <2>2, <2>3
<1>. QED BY <1>4, <1>5 DEF WindowFollowsTree, root

(* Every unspent note can be proved under a root the pool accepts now, and *)
(* the pool accepts no root over leaves it does not have: EveryNoteProvable *)
(* in every reachable state, for every depth, window and load.             *)
THEOREM NotesStayProvable == Spec => []EveryNoteProvable
<1>1. Init => WindowFollowsTree
    BY DEF Init, WindowFollowsTree, NewWindow
<1>2. ASSUME TypeOK, WindowFollowsTree, [Next]_vars PROVE WindowFollowsTree'
    <2>1. CASE UNCHANGED <<leaves, recent_roots>>
        BY <1>2, <2>1 DEF WindowFollowsTree
    <2>2. ASSUME NEW root \in DOMAIN leaves, NEW i \in DOMAIN leaves, NEW j \in DOMAIN leaves,
                 NEW out0 \in Amounts, NEW out1 \in Amounts, Transfer(root, i, j, out0, out1)
          PROVE  WindowFollowsTree'
        <3>1. <<out0, out1>> \in Seq(Nat) /\ <<out0, out1>> # <<>> /\ Commit(<<out0, out1>>)
            BY <2>2, ContractAssumption DEF Amounts, Transfer
        <3>. QED BY <1>2, <3>1, CommitFollows
    <2>3. ASSUME NEW id \in ReceiptIds, FtOnTransfer(id) PROVE WindowFollowsTree'
        <3>1. CASE DepositAccepted(receipts[id])
            <4>1. receipts[id].amount \in Nat
                BY <1>2 DEF TypeOK, Receipt
            <4>2. /\ <<receipts[id].amount>> \in Seq(Nat) /\ <<receipts[id].amount>> # <<>>
                  /\ Commit(<<receipts[id].amount>>)
                BY <2>3, <3>1, <4>1 DEF FtOnTransfer
            <4>. QED BY <1>2, <4>2, CommitFollows
        <3>2. CASE ~DepositAccepted(receipts[id])
            BY <2>1, <2>3, <3>2 DEF FtOnTransfer
        <3>. QED BY <3>1, <3>2
    <2>4. CASE UNCHANGED vars
        BY <2>1, <2>4 DEF vars
    <2>5. ASSUME NEW value \in BOOLEAN, SetPaused(value) PROVE WindowFollowsTree'
        BY <2>1, <2>5 DEF SetPaused
    <2>6. ASSUME NEW a \in Accounts, Register(a) \/ Unregister(a) \/ Claim(a)
          PROVE  WindowFollowsTree'
        BY <2>1, <2>6 DEF Register, Unregister, Claim, poolVars
    <2>7. ASSUME NEW a \in Accounts, NEW amount \in Amounts, NEW valid \in BOOLEAN,
                 FtTransferCall(a, amount, valid)
          PROVE  WindowFollowsTree'
        BY <2>1, <2>7 DEF FtTransferCall, poolVars
    <2>8. ASSUME NEW root \in DOMAIN leaves, NEW i \in DOMAIN leaves,
                 NEW recipient \in Accounts, NEW relayer \in Accounts,
                 NEW amount \in Amounts, NEW fee \in Amounts, NEW leftover \in LeftoverGas,
                 Withdraw(root, i, recipient, amount, relayer, fee, leftover)
          PROVE  WindowFollowsTree'
        BY <2>1, <2>8 DEF Withdraw
    <2>9. ASSUME NEW id \in ReceiptIds,
                 FtResolveTransfer(id) \/ PayFtWithRecovery(id) \/ FtTransfer(id)
                 \/ OnFtTransferComplete(id)
          PROVE  WindowFollowsTree'
        BY <2>1, <2>9 DEF FtResolveTransfer, PayFtWithRecovery, FtTransfer,
                          OnFtTransferComplete, poolVars
    <2>. QED BY <1>2, <2>2, <2>3, <2>4, <2>5, <2>6, <2>7, <2>8, <2>9
             DEF Next, Spend, ExecuteReceipt
<1>3. TypeOK /\ WindowFollowsTree => EveryNoteProvable
    <2>. SUFFICES ASSUME TypeOK, WindowFollowsTree PROVE EveryNoteProvable
        OBVIOUS
    <2>1. ASSUME NEW i \in Unspent
          PROVE  \E root \in DOMAIN leaves : Contains(recent_roots, root) /\ i \in Under(root)
        <3>1. leaves \in Seq(Nat) /\ i \in DOMAIN leaves
            BY DEF TypeOK, Unspent
        <3>2. DOMAIN leaves = 1 .. Len(leaves) /\ Len(leaves) \in Nat
            BY <3>1, LenProperties
        <3>3. Len(leaves) \in DOMAIN leaves /\ i <= Len(leaves) /\ leaves # <<>>
            BY <3>1, <3>2
        <3>4. Contains(recent_roots, Len(leaves)) /\ i \in Under(Len(leaves))
            BY <3>1, <3>3 DEF WindowFollowsTree, Under
        <3>. QED BY <3>3, <3>4
    <2>. QED BY <2>1 DEF EveryNoteProvable, WindowFollowsTree
<1>. QED BY <1>1, <1>2, <1>3, TypeCorrect, PTL DEF Spec

(* No step that starts under a pause adds a leaf, a root or a nullifier,   *)
(* a deposit's callback included.                                          *)
THEOREM PauseFreezes == Spec => PauseFreezesNotes
<1>. DEFINE Frozen == UNCHANGED <<leaves, recent_roots, nullifiers>>
<1>1. ASSUME Next, paused PROVE Frozen
    <2>1. ASSUME NEW value \in BOOLEAN, SetPaused(value) PROVE Frozen
        BY <2>1 DEF SetPaused
    <2>2. ASSUME NEW a \in Accounts, Register(a) \/ Unregister(a) \/ Claim(a) PROVE Frozen
        BY <2>2 DEF Register, Unregister, Claim, poolVars
    <2>3. ASSUME NEW a \in Accounts, NEW amount \in Amounts, NEW valid \in BOOLEAN,
                 FtTransferCall(a, amount, valid)
          PROVE  Frozen
        BY <2>3 DEF FtTransferCall, poolVars
    <2>4. ~Spend
        BY <1>1 DEF Spend, Transfer, Withdraw
    <2>5. ASSUME NEW id \in ReceiptIds, ExecuteReceipt(id) PROVE Frozen
        <3>1. CASE FtOnTransfer(id)
            BY <1>1, <3>1 DEF FtOnTransfer, DepositAccepted
        <3>2. CASE FtResolveTransfer(id) \/ PayFtWithRecovery(id) \/ FtTransfer(id)
                   \/ OnFtTransferComplete(id)
            BY <3>2 DEF FtResolveTransfer, PayFtWithRecovery, FtTransfer,
                        OnFtTransferComplete, poolVars
        <3>. QED BY <2>5, <3>1, <3>2 DEF ExecuteReceipt
    <2>. QED BY <1>1, <2>1, <2>2, <2>3, <2>4, <2>5 DEF Next
<1>2. [Next]_vars => [paused => Frozen]_vars
    BY <1>1
<1>. QED BY <1>2, PTL DEF Spec, PauseFreezesNotes

------------------------------------------------------------------------------
(* Solvency: for any accounts, tree, window, amounts and number of receipts *)
(* in flight, as long as every withdraw leaves the gas its payout needs.   *)

(* What a receipt carries for the account it names. *)
Worth(r) == IF IsPendingDeposit(r) \/ IsPayout(r) THEN r.amount ELSE 0

PendingOf(rs, a) ==
    [id \in ReceiptIds |->
        IF IsPendingDeposit(rs[id]) /\ rs[id].account = a THEN rs[id].amount ELSE 0]

PayoutOf(rs, a) ==
    [id \in ReceiptIds |->
        IF IsPayout(rs[id]) /\ rs[id].account = a THEN rs[id].amount ELSE 0]

OwedBy(rs, un, a) == SumFunction(PendingOf(rs, a)) + (un[a] + SumFunction(PayoutOf(rs, a)))

(* One entry of a function replaced. *)
Replaced(f, h, x, v) == h = [f EXCEPT ![x] = v]

(* What the pool holds for others outside the notes. *)
Debts(rs, un) == SumFunction([a \in Accounts |-> OwedBy(rs, un, a)])

LEMMA WorthType ==
    ASSUME NEW r \in Receipt PROVE Worth(r) \in Nat
BY DEF Worth, Receipt

LEMMA WorthByKind ==
    ASSUME NEW r \in Receipt
    PROVE  /\ r.kind = "idle" => Worth(r) = 0
           /\ r.kind \in {"ft_on_transfer", "pay_ft_with_recovery", "ft_transfer"}
                 => Worth(r) = r.amount
           /\ r.kind \in {"ft_resolve_transfer", "on_ft_transfer_complete"}
                 => Worth(r) = IF r.ok THEN 0 ELSE r.amount
BY DEF Worth, IsPendingDeposit, IsPayout, Receipt

LEMMA OwedType ==
    ASSUME NEW rs \in [ReceiptIds -> Receipt], NEW un \in [Accounts -> Nat], NEW a \in Accounts
    PROVE  /\ SumFunction(PendingOf(rs, a)) \in Nat /\ SumFunction(PayoutOf(rs, a)) \in Nat
           /\ OwedBy(rs, un, a) \in Nat
<1>1. \A id \in ReceiptIds : rs[id].amount \in Nat
    BY DEF Receipt
<1>2. DOMAIN PendingOf(rs, a) = ReceiptIds /\ \A id \in ReceiptIds : PendingOf(rs, a)[id] \in Nat
    BY <1>1 DEF PendingOf
<1>3. DOMAIN PayoutOf(rs, a) = ReceiptIds /\ \A id \in ReceiptIds : PayoutOf(rs, a)[id] \in Nat
    BY <1>1 DEF PayoutOf
<1>4. IsFiniteSet(ReceiptIds)
    BY AccountsAssumption
<1>5. SumFunction(PendingOf(rs, a)) \in Nat
    BY <1>2, <1>4, SumNat DEF SumFunction
<1>6. SumFunction(PayoutOf(rs, a)) \in Nat
    BY <1>3, <1>4, SumNat DEF SumFunction
<1>. QED BY <1>5, <1>6 DEF OwedBy

LEMMA DebtsType ==
    ASSUME NEW rs \in [ReceiptIds -> Receipt], NEW un \in [Accounts -> Nat]
    PROVE  Debts(rs, un) \in Nat
<1>. DEFINE f == [a \in Accounts |-> OwedBy(rs, un, a)]
<1>1. \A a \in Accounts : f[a] \in Nat
    BY OwedType
<1>2. DOMAIN f = Accounts /\ IsFiniteSet(Accounts)
    BY AccountsAssumption
<1>. HIDE DEF f
<1>3. SumFunction(f) \in Nat
    BY <1>1, <1>2, SumNat DEF SumFunction
<1>. QED BY <1>3 DEF Debts, f

(* With one receipt replaced, both sums of an account move by what that    *)
(* receipt has for it. *)
LEMMA PendingByReceipt ==
    ASSUME NEW rs \in [ReceiptIds -> Receipt], NEW rs2 \in [ReceiptIds -> Receipt],
           NEW id \in ReceiptIds, \A k \in ReceiptIds \ {id} : rs2[k] = rs[k], NEW a \in Accounts
    PROVE  SumFunction(PendingOf(rs2, a))
             = SumFunction(PendingOf(rs, a)) + PendingOf(rs2, a)[id] - PendingOf(rs, a)[id]
<1>1. DOMAIN PendingOf(rs, a) = ReceiptIds /\ DOMAIN PendingOf(rs2, a) = ReceiptIds
    BY DEF PendingOf
<1>2. \A k \in ReceiptIds : PendingOf(rs, a)[k] \in Int /\ PendingOf(rs2, a)[k] \in Int
    <2>1. \A k \in ReceiptIds : rs[k].amount \in Nat /\ rs2[k].amount \in Nat
        BY DEF Receipt
    <2>. QED BY <2>1 DEF PendingOf
<1>3. \A k \in ReceiptIds \ {id} : PendingOf(rs2, a)[k] = PendingOf(rs, a)[k]
    BY DEF PendingOf
<1>. QED BY <1>1, <1>2, <1>3, AccountsAssumption, SumChange DEF SumFunction

LEMMA PayoutByReceipt ==
    ASSUME NEW rs \in [ReceiptIds -> Receipt], NEW rs2 \in [ReceiptIds -> Receipt],
           NEW id \in ReceiptIds, \A k \in ReceiptIds \ {id} : rs2[k] = rs[k], NEW a \in Accounts
    PROVE  SumFunction(PayoutOf(rs2, a))
             = SumFunction(PayoutOf(rs, a)) + PayoutOf(rs2, a)[id] - PayoutOf(rs, a)[id]
<1>1. DOMAIN PayoutOf(rs, a) = ReceiptIds /\ DOMAIN PayoutOf(rs2, a) = ReceiptIds
    BY DEF PayoutOf
<1>2. \A k \in ReceiptIds : PayoutOf(rs, a)[k] \in Int /\ PayoutOf(rs2, a)[k] \in Int
    <2>1. \A k \in ReceiptIds : rs[k].amount \in Nat /\ rs2[k].amount \in Nat
        BY DEF Receipt
    <2>. QED BY <2>1 DEF PayoutOf
<1>3. \A k \in ReceiptIds \ {id} : PayoutOf(rs2, a)[k] = PayoutOf(rs, a)[k]
    BY DEF PayoutOf
<1>. QED BY <1>1, <1>2, <1>3, AccountsAssumption, SumChange DEF SumFunction

(* One receipt replaced: an account is owed what the new one carries for   *)
(* it instead of the old one. *)
OwedMoves(rs, rs2, un, a, id) ==
    OwedBy(rs2, un, a) = OwedBy(rs, un, a)
                           + (IF rs2[id].account = a THEN Worth(rs2[id]) ELSE 0)
                           - (IF rs[id].account = a THEN Worth(rs[id]) ELSE 0)

LEMMA OwedByReceipt ==
    ASSUME NEW rs \in [ReceiptIds -> Receipt], NEW un \in [Accounts -> Nat], NEW a \in Accounts,
           NEW id \in ReceiptIds, NEW new \in Receipt, NEW rs2, Replaced(rs, rs2, id, new)
    PROVE  OwedMoves(rs, rs2, un, a, id)
<1>0. rs2 \in [ReceiptIds -> Receipt] /\ rs2[id] = new
      /\ \A k \in ReceiptIds \ {id} : rs2[k] = rs[k]
    BY DEF Replaced
<1>1. \A k \in ReceiptIds : rs[k].amount \in Nat /\ rs2[k].amount \in Nat
    BY <1>0 DEF Receipt
<1>3. SumFunction(PendingOf(rs2, a))
        = SumFunction(PendingOf(rs, a)) + PendingOf(rs2, a)[id] - PendingOf(rs, a)[id]
    BY <1>0, PendingByReceipt
<1>4. SumFunction(PayoutOf(rs2, a))
        = SumFunction(PayoutOf(rs, a)) + PayoutOf(rs2, a)[id] - PayoutOf(rs, a)[id]
    BY <1>0, PayoutByReceipt
<1>5. /\ PendingOf(rs2, a)[id] + PayoutOf(rs2, a)[id] = IF new.account = a THEN Worth(new) ELSE 0
      /\ PendingOf(rs, a)[id] + PayoutOf(rs, a)[id]
           = IF rs[id].account = a THEN Worth(rs[id]) ELSE 0
      /\ PendingOf(rs2, a)[id] \in Nat /\ PayoutOf(rs2, a)[id] \in Nat
      /\ PendingOf(rs, a)[id] \in Nat /\ PayoutOf(rs, a)[id] \in Nat
    BY <1>0, <1>1 DEF PendingOf, PayoutOf, Worth, IsPendingDeposit, IsPayout
<1>6. SumFunction(PendingOf(rs, a)) \in Nat /\ SumFunction(PayoutOf(rs, a)) \in Nat /\ un[a] \in Nat
    BY OwedType
<1>7. OwedBy(rs2, un, a) = OwedBy(rs, un, a) + (PendingOf(rs2, a)[id] + PayoutOf(rs2, a)[id])
                                             - (PendingOf(rs, a)[id] + PayoutOf(rs, a)[id])
    BY <1>3, <1>4, <1>5, <1>6 DEF OwedBy
<1>. QED BY <1>0, <1>5, <1>7 DEF OwedMoves

(* The debts move by what the receipt that changed carries, if it carries  *)
(* it for an account and does not hand it from one account to another.     *)
LEMMA DebtsByReceipt ==
    ASSUME NEW rs \in [ReceiptIds -> Receipt], NEW un \in [Accounts -> Nat],
           NEW id \in ReceiptIds, NEW new \in Receipt, NEW a \in Accounts,
           Worth(new) = 0 \/ new.account = a,
           Worth(rs[id]) = 0 \/ rs[id].account = a,
           NEW rs2, Replaced(rs, rs2, id, new)
    PROVE  Debts(rs2, un) = Debts(rs, un) + Worth(new) - Worth(rs[id])
<1>. DEFINE f == [b \in Accounts |-> OwedBy(rs, un, b)]
            h == [b \in Accounts |-> OwedBy(rs2, un, b)]
<1>. HIDE DEF f, h
<1>0. rs2 \in [ReceiptIds -> Receipt] /\ rs2[id] = new
    BY DEF Replaced
<1>1. Worth(new) \in Nat /\ Worth(rs[id]) \in Nat
    BY WorthType
<1>2. ASSUME NEW b \in Accounts
      PROVE  OwedBy(rs2, un, b)
               = OwedBy(rs, un, b) + (IF new.account = b THEN Worth(new) ELSE 0)
                                   - (IF rs[id].account = b THEN Worth(rs[id]) ELSE 0)
    <2>1. OwedMoves(rs, rs2, un, b, id)
        BY OwedByReceipt
    <2>. QED BY <1>0, <2>1 DEF OwedMoves
<1>3. \A b \in Accounts : OwedBy(rs, un, b) \in Nat /\ OwedBy(rs2, un, b) \in Nat
    BY <1>0, OwedType
<1>4. \A b \in Accounts \ {a} : OwedBy(rs2, un, b) = OwedBy(rs, un, b)
    BY <1>1, <1>2, <1>3
<1>5. OwedBy(rs2, un, a) = OwedBy(rs, un, a) + Worth(new) - Worth(rs[id])
    BY <1>1, <1>2, <1>3
<1>6. /\ DOMAIN f = Accounts /\ DOMAIN h = Accounts /\ IsFiniteSet(Accounts)
      /\ \A b \in Accounts : f[b] \in Int /\ h[b] \in Int
      /\ \A b \in Accounts \ {a} : h[b] = f[b]
      /\ h[a] = f[a] + Worth(new) - Worth(rs[id]) /\ f[a] \in Nat
    BY <1>3, <1>4, <1>5, AccountsAssumption DEF f, h
<1>7. SumFunctionOnSet(h, Accounts) = SumFunctionOnSet(f, Accounts) + h[a] - f[a]
    BY <1>6, SumChange
<1>8. SumFunctionOnSet(f, Accounts) \in Int
    BY <1>6, SumType
<1>9. SumFunctionOnSet(h, Accounts)
        = SumFunctionOnSet(f, Accounts) + Worth(new) - Worth(rs[id])
    BY <1>1, <1>6, <1>7, <1>8
<1>. QED BY <1>6, <1>9 DEF Debts, SumFunction, f, h

(* The debts move with an entry of the recovery book. *)
LEMMA DebtsByEntry ==
    ASSUME NEW rs \in [ReceiptIds -> Receipt], NEW un \in [Accounts -> Nat],
           NEW a \in Accounts, NEW n \in Nat,
           NEW un2, Replaced(un, un2, a, n)
    PROVE  Debts(rs, un2) = Debts(rs, un) + n - un[a]
<1>. DEFINE f == [b \in Accounts |-> OwedBy(rs, un, b)]
            h == [b \in Accounts |-> OwedBy(rs, un2, b)]
<1>1. un2 \in [Accounts -> Nat] /\ un2[a] = n /\ \A b \in Accounts \ {a} : un2[b] = un[b]
    BY DEF Replaced
<1>2. \A b \in Accounts : /\ SumFunction(PendingOf(rs, b)) \in Nat
                          /\ SumFunction(PayoutOf(rs, b)) \in Nat
                          /\ OwedBy(rs, un, b) \in Nat /\ OwedBy(rs, un2, b) \in Nat
    BY <1>1, OwedType
<1>3. OwedBy(rs, un2, a) = OwedBy(rs, un, a) + n - un[a]
    BY <1>1, <1>2 DEF OwedBy
<1>4. \A b \in Accounts \ {a} : OwedBy(rs, un2, b) = OwedBy(rs, un, b)
    BY <1>1 DEF OwedBy
<1>5. /\ DOMAIN f = Accounts /\ DOMAIN h = Accounts /\ IsFiniteSet(Accounts)
      /\ \A b \in Accounts : f[b] \in Int /\ h[b] \in Int
      /\ \A b \in Accounts \ {a} : h[b] = f[b]
      /\ h[a] = f[a] + n - un[a] /\ f[a] \in Nat /\ un[a] \in Nat
    BY <1>2, <1>3, <1>4, AccountsAssumption
<1>. HIDE DEF f, h
<1>6. SumFunctionOnSet(h, Accounts) = SumFunctionOnSet(f, Accounts) + h[a] - f[a]
    BY <1>5, SumChange
<1>7. SumFunctionOnSet(f, Accounts) \in Int
    BY <1>5, SumType
<1>8. SumFunctionOnSet(h, Accounts) = SumFunctionOnSet(f, Accounts) + n - un[a]
    BY <1>5, <1>6, <1>7
<1>. QED BY <1>5, <1>8 DEF Debts, SumFunction, f, h

------------------------------------------------------------------------------
(* The notes. *)

Value(ls, ns) == SumFunctionOnSet(ls, DOMAIN ls \ ns)

LEMMA ValueType ==
    ASSUME NEW ls \in Seq(Nat), NEW ns
    PROVE  /\ IsFiniteSet(DOMAIN ls \ ns)
           /\ Value(ls, ns) \in Nat
<1>1. DOMAIN ls = 1 .. Len(ls) /\ Len(ls) \in Nat
    BY LenProperties
<1>2. IsFiniteSet(DOMAIN ls)
    BY <1>1, FS_Interval
<1>3. IsFiniteSet(DOMAIN ls \ ns)
    BY <1>2, FS_Difference
<1>4. \A i \in DOMAIN ls \ ns : ls[i] \in Nat
    BY <1>1
<1>. QED BY <1>3, <1>4, SumNat DEF Value

(* A new leaf adds its note's worth. *)
LEMMA ValueOfAppend ==
    ASSUME NEW ls \in Seq(Nat), NEW ns, ns \subseteq DOMAIN ls, NEW n \in Nat
    PROVE  Value(Append(ls, n), ns) = Value(ls, ns) + n
<1>. DEFINE new == Append(ls, n)
            D == DOMAIN ls \ ns
            k == Len(ls) + 1
<1>1. DOMAIN ls = 1 .. Len(ls) /\ Len(ls) \in Nat
    BY LenProperties
<1>2. /\ new \in Seq(Nat) /\ DOMAIN new = DOMAIN ls \cup {k}
      /\ new[k] = n /\ \A i \in DOMAIN ls : new[i] = ls[i]
    BY <1>1
<1>3. k \notin D /\ DOMAIN new \ ns = D \cup {k}
    BY <1>1, <1>2
<1>4. IsFiniteSet(D) /\ \A i \in D : ls[i] \in Nat
    <2>1. IsFiniteSet(DOMAIN ls \ ns)
        BY ValueType
    <2>. QED BY <1>1, <2>1
<1>5. \A i \in D : ls[i] \in Int /\ new[i] = ls[i]
    BY <1>2, <1>4
<1>6. \A i \in D \cup {k} : new[i] \in Int
    BY <1>2, <1>5
<1>. HIDE DEF new, D, k
<1>7. SumFunctionOnSet(new, D \cup {k}) = new[k] + SumFunctionOnSet(new, D)
    BY <1>3, <1>4, <1>6, SumAdd
<1>8. SumFunctionOnSet(new, D) = SumFunctionOnSet(ls, D)
    BY <1>4, <1>5, SumAgree
<1>9. SumFunctionOnSet(ls, D) \in Nat
    BY ValueType DEF D, Value
<1>10. SumFunctionOnSet(new, D \cup {k}) = SumFunctionOnSet(ls, D) + n
    BY <1>2, <1>7, <1>8, <1>9
<1>. QED BY <1>3, <1>10 DEF new, D, Value

(* A new nullifier takes its note's worth away. *)
LEMMA ValueOfSpend ==
    ASSUME NEW ls \in Seq(Nat), NEW ns, NEW i \in DOMAIN ls, i \notin ns
    PROVE  Value(ls, ns \cup {i}) = Value(ls, ns) - ls[i]
<1>. DEFINE D == DOMAIN ls \ ns
<1>1. i \in D /\ DOMAIN ls \ (ns \cup {i}) = D \ {i}
    OBVIOUS
<1>2. IsFiniteSet(D) /\ SumFunctionOnSet(ls, D \ {i}) \in Nat
    BY <1>1, ValueType DEF Value
<1>3. \A k \in D : ls[k] \in Int
    <2>1. DOMAIN ls = 1 .. Len(ls)
        BY LenProperties
    <2>. QED BY <2>1
<1>. HIDE DEF D
<1>4. SumFunctionOnSet(ls, D) = ls[i] + SumFunctionOnSet(ls, D \ {i})
    BY <1>1, <1>2, <1>3, SumRemove
<1>5. SumFunctionOnSet(ls, D \ {i}) = SumFunctionOnSet(ls, D) - ls[i]
    BY <1>1, <1>2, <1>3, <1>4
<1>. QED BY <1>1, <1>5 DEF D, Value
(* Two notes in, two notes out of the same worth: nothing moves. *)
TransferKeepsValue(ls, ns, i, j, m, n) ==
    Value(ls \o <<m, n>>, ns \cup {i, j}) = Value(ls, ns)

LEMMA ValueOfTransfer ==
    ASSUME NEW ls \in Seq(Nat), NEW ns, ns \subseteq DOMAIN ls,
           NEW i \in DOMAIN ls, i \notin ns, NEW j \in DOMAIN ls, j \notin ns, i # j,
           NEW m \in Nat, NEW n \in Nat, ls[i] + ls[j] = m + n
    PROVE  TransferKeepsValue(ls, ns, i, j, m, n)
<1>. DEFINE ns1 == ns \cup {i}
            ns2 == ns1 \cup {j}
            ls1 == Append(ls, m)
            ls2 == Append(ls1, n)
<1>1. ls1 \in Seq(Nat) /\ DOMAIN ls \subseteq DOMAIN ls1
    <2>1. DOMAIN ls = 1 .. Len(ls) /\ Len(ls) \in Nat
        BY LenProperties
    <2>2. ls1 \in Seq(Nat) /\ Len(ls1) = Len(ls) + 1
        BY AppendProperties
    <2>3. DOMAIN ls1 = 1 .. Len(ls1)
        BY <2>2, LenProperties
    <2>. QED BY <2>1, <2>2, <2>3
<1>2. ls2 = ls \o <<m, n>> /\ ns2 = ns \cup {i, j}
    <2>1. \A s \in Seq(Nat), x \in Nat : Append(s, x) = s \o <<x>>
        BY AppendIsConcat
    <2>2. <<m>> \in Seq(Nat) /\ <<n>> \in Seq(Nat)
        OBVIOUS
    <2>3. Append(<<m>>, n) = <<m, n>>
        <3>. DEFINE a == Append(<<m>>, n)
                    b == <<m, n>>
        <3>1. a \in Seq(Nat) /\ Len(a) = 2 /\ a[1] = m /\ a[2] = n
            BY <2>2, AppendProperties
        <3>2. b \in Seq(Nat) /\ Len(b) = 2 /\ b[1] = m /\ b[2] = n
            OBVIOUS
        <3>. HIDE DEF a, b
        <3>3. \A k \in 1 .. Len(a) : a[k] = b[k]
            BY <3>1, <3>2
        <3>4. a = b
            BY <3>1, <3>2, <3>3, SeqEqual
        <3>. QED BY <3>4 DEF a, b
    <2>4. (ls \o <<m>>) \o <<n>> = ls \o (<<m>> \o <<n>>)
        BY <2>2, ConcatAssociative, SMTT(30)
    <2>5. ls1 = ls \o <<m>> /\ ls2 = ls1 \o <<n>> /\ <<m, n>> = <<m>> \o <<n>>
        BY <1>1, <2>1, <2>2, <2>3, Zenon
    <2>. QED BY <2>4, <2>5, Zenon
<1>3. j \in DOMAIN ls /\ j \notin ns1 /\ ns2 \subseteq DOMAIN ls /\ ns2 \subseteq DOMAIN ls1
    BY <1>1
<1>4. ls[i] \in Nat /\ ls[j] \in Nat
    BY LenProperties
<1>. HIDE DEF ls1, ls2, ns2
<1>5. Value(ls2, ns2) = Value(ls1, ns2) + n
    BY <1>1, <1>3, ValueOfAppend DEF ls2
<1>6. Value(ls1, ns2) = Value(ls, ns2) + m
    BY <1>3, ValueOfAppend DEF ls1
<1>7. Value(ls, ns2) = Value(ls, ns1) - ls[j]
    BY <1>3, ValueOfSpend DEF ns2
<1>8. Value(ls, ns1) = Value(ls, ns) - ls[i]
    BY ValueOfSpend
<1>9. Value(ls, ns) \in Nat /\ Value(ls, ns1) \in Nat /\ Value(ls, ns2) \in Nat
    BY ValueType
<1>10. Value(ls2, ns2) = Value(ls, ns)
    <2>1. Value(ls2, ns2) = Value(ls, ns2) + (m + n)
        BY <1>5, <1>6, <1>9
    <2>2. Value(ls, ns2) = Value(ls, ns) - (ls[i] + ls[j])
        BY <1>4, <1>7, <1>8, <1>9
    <2>3. m + n = ls[i] + ls[j]
        OBVIOUS
    <2>4. Value(ls2, ns2) = (Value(ls, ns) - (ls[i] + ls[j])) + (ls[i] + ls[j])
        BY <2>1, <2>2, <2>3, Zenon
    <2>. QED BY <1>4, <1>9, <2>4
<1>. QED BY <1>2, <1>10 DEF TransferKeepsValue

------------------------------------------------------------------------------
(* The receipts. *)

(* Who a receipt is for, and that a payout call has its gas: an invariant  *)
(* of its own, because the books below read both.                          *)
PayeesKnown ==
    \A id \in ReceiptIds : receipts[id].kind # "idle" => receipts[id].account \in Accounts

GasKnown ==
    \A id \in ReceiptIds : receipts[id].kind = "pay_ft_with_recovery" => receipts[id].ok

(* The assumption of the theorem: whatever gas a withdraw has left, each   *)
(* of its one or two payout calls can reserve what it has to.              *)
EnoughGas == \A leftover \in LeftoverGas, calls \in {1, 2} : PayoutGasSuffices(leftover, calls)

(* Every payout names an account and has its gas. *)
LEMMA ReceiptsKnown ==
    ASSUME EnoughGas
    PROVE  Spec => [](PayeesKnown /\ GasKnown)
<1>1. Init => PayeesKnown /\ GasKnown
    <2>. SUFFICES ASSUME Init PROVE PayeesKnown /\ GasKnown
        OBVIOUS
    <2>1. \A id \in ReceiptIds : receipts[id].kind = "idle"
        BY IdleType DEF Init
    <2>. QED BY <2>1 DEF PayeesKnown, GasKnown
<1>2. ASSUME TypeOK, PayeesKnown /\ GasKnown, [Next]_vars PROVE (PayeesKnown /\ GasKnown)'
    <2>. DEFINE Known(r) == /\ r.kind # "idle" => r.account \in Accounts
                            /\ r.kind = "pay_ft_with_recovery" => r.ok
    <2>0. /\ receipts \in [ReceiptIds -> Receipt]
          /\ \A id \in ReceiptIds : Known(receipts[id])
        BY <1>2 DEF TypeOK, PayeesKnown, GasKnown
    <2>1. SUFFICES ASSUME NEW id \in ReceiptIds, receipts' # receipts
                   PROVE  Known(receipts'[id])
        BY <2>0 DEF PayeesKnown, GasKnown
    <2>. USE DEF poolVars, tokenVars
    <2>2. Known(Idle)
        BY DEF Idle, Call
    <2>3. ASSUME NEW a \in Accounts, Claim(a) PROVE Known(receipts'[id])
        BY <2>0, <2>3 DEF Claim, Call, FreeIds
    <2>4. ASSUME NEW a \in Accounts, NEW amount \in Amounts, NEW valid \in BOOLEAN,
                 FtTransferCall(a, amount, valid)
          PROVE  Known(receipts'[id])
        BY <2>0, <2>4 DEF FtTransferCall, Call, FreeIds
    <2>5. ASSUME NEW root \in DOMAIN leaves, NEW i \in DOMAIN leaves,
                 NEW recipient \in Accounts, NEW relayer \in Accounts,
                 NEW amount \in Amounts, NEW fee \in Amounts, NEW leftover \in LeftoverGas,
                 Withdraw(root, i, recipient, amount, relayer, fee, leftover)
          PROVE  Known(receipts'[id])
        <3>1. /\ Known(Payout(recipient, amount, leftover, 1))
              /\ Known(Payout(recipient, amount - fee, leftover, 2))
              /\ Known(Payout(relayer, fee, leftover, 2))
            BY DEF EnoughGas, Payout, Call
        <3>. HIDE DEF Known
        <3>2. CASE fee = 0
            BY <2>0, <2>5, <3>1, <3>2 DEF Withdraw, FreeIds
        <3>3. CASE fee > 0
            BY <2>0, <2>5, <3>1, <3>3 DEF Withdraw, FreeIds
        <3>. QED BY <2>5, <3>2, <3>3 DEF Withdraw
    <2>6. ASSUME NEW k \in ReceiptIds, FtOnTransfer(k) PROVE Known(receipts'[id])
        BY <2>0, <2>6 DEF FtOnTransfer, Call
    <2>7. ASSUME NEW k \in ReceiptIds, FtResolveTransfer(k) PROVE Known(receipts'[id])
        BY <2>0, <2>2, <2>7 DEF FtResolveTransfer
    <2>8. ASSUME NEW k \in ReceiptIds, PayFtWithRecovery(k) PROVE Known(receipts'[id])
        BY <2>0, <2>2, <2>8 DEF PayFtWithRecovery, Call
    <2>9. ASSUME NEW k \in ReceiptIds, FtTransfer(k) PROVE Known(receipts'[id])
        BY <2>0, <2>9 DEF FtTransfer, Call
    <2>10. ASSUME NEW k \in ReceiptIds, OnFtTransferComplete(k) PROVE Known(receipts'[id])
        BY <2>0, <2>2, <2>10 DEF OnFtTransferComplete
    <2>. QED BY <1>2, <2>1, <2>3, <2>4, <2>5, <2>6, <2>7, <2>8, <2>9, <2>10
             DEF Next, Spend, ExecuteReceipt, SetPaused, Register, Unregister, Transfer, vars
<1>. QED BY <1>1, <1>2, TypeCorrect, PTL DEF Spec
------------------------------------------------------------------------------
(* Solvency. *)

Books == balance[Pool] = Value(leaves, nullifiers) + Debts(receipts, unclaimed)

(* No step unbalances the books. *)
LEMMA BooksStep ==
    ASSUME TypeOK, PayeesKnown, GasKnown, EnoughGas, Books, Next
    PROVE  Books'
<1>. DEFINE V == Value(leaves, nullifiers)
            D == Debts(receipts, unclaimed)
            B == balance[Pool]
<1>. USE DEF poolVars, tokenVars
<1>1. /\ leaves \in Seq(Nat) /\ nullifiers \subseteq DOMAIN leaves
      /\ receipts \in [ReceiptIds -> Receipt] /\ unclaimed \in [Accounts -> Nat]
      /\ balance \in [Accounts \cup {Pool} -> Nat] /\ registered \subseteq Accounts
    BY DEF TypeOK
<1>2. V \in Nat /\ D \in Nat /\ B \in Nat /\ B = V + D
    BY <1>1, ValueType, DebtsType DEF Books
<1>3. \A id \in FreeIds : id \in ReceiptIds /\ Worth(receipts[id]) = 0
    BY <1>1, WorthByKind DEF FreeIds
<1>4. \A id \in ReceiptIds : /\ receipts[id].amount \in Nat
                             /\ receipts[id].ok \in BOOLEAN
                             /\ receipts[id].kind # "idle" => receipts[id].account \in Accounts
    BY <1>1 DEF PayeesKnown, Receipt
<1>5. \A a \in Accounts, n \in Nat, ok \in BOOLEAN :
        /\ Call("ft_on_transfer", a, n, ok) \in Receipt
        /\ Call("ft_on_transfer", a, n, ok).account = a
        /\ Worth(Call("ft_on_transfer", a, n, ok)) = n
        /\ Call("pay_ft_with_recovery", a, n, ok) \in Receipt
        /\ Call("pay_ft_with_recovery", a, n, ok).account = a
        /\ Worth(Call("pay_ft_with_recovery", a, n, ok)) = n
        /\ Call("ft_transfer", a, n, ok) \in Receipt
        /\ Call("ft_transfer", a, n, ok).account = a
        /\ Worth(Call("ft_transfer", a, n, ok)) = n
    BY CallType, WorthByKind DEF Kinds
<1>6. \A a \in Accounts, n \in Nat, ok \in BOOLEAN :
        /\ Call("ft_resolve_transfer", a, n, ok) \in Receipt
        /\ Call("ft_resolve_transfer", a, n, ok).account = a
        /\ Worth(Call("ft_resolve_transfer", a, n, ok)) = IF ok THEN 0 ELSE n
        /\ Call("on_ft_transfer_complete", a, n, ok) \in Receipt
        /\ Call("on_ft_transfer_complete", a, n, ok).account = a
        /\ Worth(Call("on_ft_transfer_complete", a, n, ok)) = IF ok THEN 0 ELSE n
    BY CallType, WorthByKind DEF Kinds
<1>7. Idle \in Receipt /\ Worth(Idle) = 0
    BY IdleType, WorthByKind
<1>8. ASSUME UNCHANGED <<leaves, nullifiers, receipts, unclaimed, balance>> PROVE Books'
    BY <1>8 DEF Books
<1>9. ASSUME NEW a \in Accounts, Claim(a) PROVE Books'
    <2>. DEFINE c == Call("ft_transfer", a, unclaimed[a], TRUE)
    <2>1. PICK id \in FreeIds : Replaced(receipts, receipts', id, c)
        BY <1>9 DEF Claim, Replaced
    <2>2. Replaced(unclaimed, unclaimed', a, 0) /\ unclaimed[a] \in Nat
        BY <1>1, <1>9 DEF Claim, Replaced
    <2>3. c \in Receipt /\ c.account = a /\ Worth(c) = unclaimed[a]
        BY <1>5, <2>2
    <2>. HIDE DEF c
    <2>4. Debts(receipts, unclaimed') = D + 0 - unclaimed[a]
        BY <1>1, <2>2, DebtsByEntry
    <2>5. unclaimed' \in [Accounts -> Nat]
        BY <1>1, <1>9 DEF Claim
    <2>6. Debts(receipts', unclaimed')
            = Debts(receipts, unclaimed') + Worth(c) - Worth(receipts[id])
        BY <1>1, <1>3, <2>1, <2>5, <2>3, DebtsByReceipt, ZenonT(40)
    <2>7. Debts(receipts', unclaimed') = D
        BY <1>2, <1>3, <2>2, <2>4, <2>6, <2>3
    <2>. QED BY <1>2, <1>9, <2>7 DEF Books, Claim
<1>10. ASSUME NEW a \in Accounts, NEW amount \in Amounts, NEW valid \in BOOLEAN,
              FtTransferCall(a, amount, valid)
       PROVE  Books'
    <2>. DEFINE c == Call("ft_on_transfer", a, amount, valid)
    <2>1. PICK id \in FreeIds : Replaced(receipts, receipts', id, c)
        BY <1>10 DEF FtTransferCall, Replaced
    <2>2. amount \in Nat /\ a # Pool /\ amount <= balance[a]
        BY <1>1, <1>10, AccountsAssumption, ContractAssumption
           DEF Amounts, FtTransferCall, CanTransfer
    <2>3. balance'[Pool] = B + amount
        BY <1>10, <2>2, MovedType DEF FtTransferCall
    <2>4. c \in Receipt /\ c.account = a /\ Worth(c) = amount
        BY <1>5, <2>2
    <2>. HIDE DEF c
    <2>5. Debts(receipts', unclaimed) = D + Worth(c) - Worth(receipts[id])
        BY <1>1, <1>3, <2>1, <2>4, DebtsByReceipt, ZenonT(40)
    <2>. QED BY <1>2, <1>3, <1>10, <2>2, <2>3, <2>5, <2>4 DEF Books, FtTransferCall
<1>11. ASSUME NEW root \in DOMAIN leaves, NEW i \in DOMAIN leaves, NEW j \in DOMAIN leaves,
              NEW out0 \in Amounts, NEW out1 \in Amounts, Transfer(root, i, j, out0, out1)
       PROVE  Books'
    <2>1. /\ out0 \in Nat /\ out1 \in Nat /\ i # j
          /\ i \notin nullifiers /\ j \notin nullifiers
          /\ leaves[i] + leaves[j] = out0 + out1
          /\ leaves' = leaves \o <<out0, out1>> /\ nullifiers' = nullifiers \cup {i, j}
        BY <1>11, ContractAssumption DEF Amounts, Transfer, TransferStatement, Commit
    <2>2. Value(leaves', nullifiers') = V
        <3>1. TransferKeepsValue(leaves, nullifiers, i, j, out0, out1)
            BY <1>1, <2>1, ValueOfTransfer
        <3>. QED BY <2>1, <3>1 DEF TransferKeepsValue
    <2>. QED BY <1>2, <1>11, <2>2 DEF Books, Transfer
<1>12. ASSUME NEW root \in DOMAIN leaves, NEW i \in DOMAIN leaves,
              NEW recipient \in Accounts, NEW relayer \in Accounts,
              NEW amount \in Amounts, NEW fee \in Amounts, NEW leftover \in LeftoverGas,
              Withdraw(root, i, recipient, amount, relayer, fee, leftover)
       PROVE  Books'
    <2>1. /\ amount \in Nat /\ fee \in Nat /\ amount - fee \in Nat
          /\ i \notin nullifiers /\ leaves[i] = amount /\ nullifiers' = nullifiers \cup {i}
        BY <1>12, ContractAssumption DEF Amounts, Withdraw, WithdrawStatement
    <2>2. Value(leaves, nullifiers') = V - amount
        BY <1>1, <2>1, ValueOfSpend
    <2>3. \A a \in Accounts, n \in Nat, calls \in {1, 2} :
             /\ Payout(a, n, leftover, calls) \in Receipt
             /\ Payout(a, n, leftover, calls).account = a
             /\ Worth(Payout(a, n, leftover, calls)) = n
        BY PayoutType, WorthByKind
    <2>4. Debts(receipts', unclaimed) = D + amount
        <3>1. CASE fee = 0
            <4>. DEFINE c == Payout(recipient, amount, leftover, 1)
            <4>1. PICK pay \in FreeIds : Replaced(receipts, receipts', pay, c)
                BY <1>12, <3>1 DEF Withdraw, Replaced
            <4>2. c \in Receipt /\ c.account = recipient /\ Worth(c) = amount
                BY <2>1, <2>3
            <4>. HIDE DEF c
            <4>3. Debts(receipts', unclaimed) = D + Worth(c) - Worth(receipts[pay])
                BY <1>1, <1>3, <4>1, <4>2, DebtsByReceipt
            <4>. QED BY <1>2, <1>3, <2>1, <4>2, <4>3
        <3>2. CASE fee > 0
            <4>. DEFINE c == Payout(recipient, amount - fee, leftover, 2)
                        cFee == Payout(relayer, fee, leftover, 2)
            <4>1. PICK pay \in FreeIds, payFee \in FreeIds :
                     /\ pay # payFee
                     /\ receipts' = [receipts EXCEPT ![pay] = c, ![payFee] = cFee]
                BY <1>12, <3>2 DEF Withdraw
            <4>2. /\ c \in Receipt /\ c.account = recipient /\ Worth(c) = amount - fee
                  /\ cFee \in Receipt /\ cFee.account = relayer /\ Worth(cFee) = fee
                BY <2>1, <2>3
            <4>. HIDE DEF c, cFee
            <4>. DEFINE rs1 == [receipts EXCEPT ![pay] = c]
            <4>3. /\ pay \in ReceiptIds /\ Worth(receipts[pay]) = 0
                  /\ Replaced(receipts, rs1, pay, c)
                BY <1>3 DEF Replaced
            <4>4. /\ payFee \in ReceiptIds /\ Worth(rs1[payFee]) = 0
                  /\ rs1 \in [ReceiptIds -> Receipt]
                  /\ Replaced(rs1, receipts', payFee, cFee)
                BY <1>1, <1>3, <4>1, <4>2, <4>3 DEF Replaced
            <4>. HIDE DEF rs1
            <4>5. Debts(rs1, unclaimed) = D + Worth(c) - Worth(receipts[pay])
                BY <1>1, <4>2, <4>3, DebtsByReceipt
            <4>6. Debts(receipts', unclaimed)
                    = Debts(rs1, unclaimed) + Worth(cFee) - Worth(rs1[payFee])
                BY <1>1, <4>2, <4>4, DebtsByReceipt, ZenonT(40)
            <4>. QED BY <1>2, <2>1, <4>2, <4>3, <4>4, <4>5, <4>6
        <3>. QED BY <2>1, <3>1, <3>2
    <2>. QED BY <1>2, <1>12, <2>1, <2>2, <2>4 DEF Books, Withdraw
<1>13. ASSUME NEW id \in ReceiptIds, FtOnTransfer(id) PROVE Books'
    <2>. DEFINE r == receipts[id]
                ok == DepositAccepted(r)
    <2>1. r \in Receipt /\ r.account \in Accounts /\ r.amount \in Nat /\ Worth(r) = r.amount
        BY <1>1, <1>4, <1>13, WorthByKind DEF FtOnTransfer
    <2>2. ok \in BOOLEAN
        BY DEF DepositAccepted
    <2>. DEFINE c == Call("ft_resolve_transfer", r.account, r.amount, ok)
    <2>3. Replaced(receipts, receipts', id, c)
        BY <1>13 DEF FtOnTransfer, Replaced
    <2>. HIDE DEF ok
    <2>4. c \in Receipt /\ c.account = r.account /\ Worth(c) = IF ok THEN 0 ELSE r.amount
        BY <1>6, <2>1, <2>2
    <2>. HIDE DEF c
    <2>5. Debts(receipts', unclaimed) = D + (IF ok THEN 0 ELSE r.amount) - r.amount
        <3>1. Debts(receipts', unclaimed) = D + Worth(c) - Worth(r)
            BY <1>1, <2>1, <2>3, <2>4, DebtsByReceipt
        <3>. QED BY <2>1, <2>4, <3>1
    <2>6. CASE ok
        <3>1. leaves' = leaves \o <<r.amount>>
            BY <1>13, <2>6 DEF FtOnTransfer, Commit, ok
        <3>2. leaves' = Append(leaves, r.amount)
            BY <1>1, <2>1, <3>1, AppendIsConcat
        <3>3. Value(leaves', nullifiers) = V + r.amount
            BY <1>1, <2>1, <3>2, ValueOfAppend
        <3>. QED BY <1>2, <1>13, <2>1, <2>5, <2>6, <3>3 DEF Books, FtOnTransfer
    <2>7. CASE ~ok
        <3>1. leaves' = leaves
            BY <1>13, <2>7 DEF FtOnTransfer, ok
        <3>. QED BY <1>2, <1>13, <2>1, <2>5, <2>7, <3>1 DEF Books, FtOnTransfer
    <2>. QED BY <2>6, <2>7
<1>14. ASSUME NEW id \in ReceiptIds, FtResolveTransfer(id) PROVE Books'
    <2>. DEFINE r == receipts[id]
                unused == IF r.ok THEN 0 ELSE r.amount
    <2>1. /\ r \in Receipt /\ r.account \in Accounts /\ unused \in Nat /\ Worth(r) = unused
          /\ Replaced(receipts, receipts', id, Idle)
        BY <1>1, <1>4, <1>14, WorthByKind DEF FtResolveTransfer, Replaced
    <2>. HIDE DEF unused
    <2>2. Debts(receipts', unclaimed) = D + 0 - unused
        BY <1>1, <1>7, <2>1, DebtsByReceipt
    <2>3. Debts(receipts', unclaimed) \in Nat
        <3>1. receipts' \in [ReceiptIds -> Receipt]
            BY <1>1, <1>7, <1>14 DEF FtResolveTransfer
        <3>. QED BY <1>1, <3>1, DebtsType
    <2>4. unused <= B
        BY <1>2, <2>1, <2>2, <2>3
    <2>5. balance' = IF r.account \in registered
                     THEN Moved(Pool, r.account, unused)
                     ELSE [balance EXCEPT ![Pool] = B - unused]
        BY <1>14, <2>4 DEF FtResolveTransfer, unused
    <2>6. balance'[Pool] = B - unused
        <3>1. CASE r.account \in registered
            BY <2>1, <2>4, <2>5, <3>1, AccountsAssumption, MovedType
        <3>2. CASE r.account \notin registered
            BY <1>1, <2>5, <3>2
        <3>. QED BY <3>1, <3>2
    <2>. QED BY <1>2, <1>14, <2>1, <2>2, <2>6 DEF Books, FtResolveTransfer
<1>15. ASSUME NEW id \in ReceiptIds, PayFtWithRecovery(id) PROVE Books'
    <2>. DEFINE r == receipts[id]
                c == Call("ft_transfer", r.account, r.amount, TRUE)
    <2>1. /\ r \in Receipt /\ r.account \in Accounts /\ r.amount \in Nat /\ Worth(r) = r.amount
          /\ Replaced(receipts, receipts', id, c)
        BY <1>1, <1>4, <1>15, WorthByKind DEF PayFtWithRecovery, GasKnown, Replaced
    <2>2. c \in Receipt /\ c.account = r.account /\ Worth(c) = r.amount
        BY <1>5, <2>1
    <2>. HIDE DEF c
    <2>3. Debts(receipts', unclaimed) = D + Worth(c) - Worth(r)
        BY <1>1, <2>1, <2>2, DebtsByReceipt
    <2>. QED BY <1>2, <1>15, <2>1, <2>3, <2>2 DEF Books, PayFtWithRecovery
<1>16. ASSUME NEW id \in ReceiptIds, FtTransfer(id) PROVE Books'
    <2>. DEFINE r == receipts[id]
                paid == CanTransfer(Pool, r.account, r.amount)
    <2>1. r \in Receipt /\ r.account \in Accounts /\ r.amount \in Nat /\ Worth(r) = r.amount
        BY <1>1, <1>4, <1>16, WorthByKind DEF FtTransfer
    <2>2. paid \in BOOLEAN
        BY DEF CanTransfer
    <2>. DEFINE c == Call("on_ft_transfer_complete", r.account, r.amount, paid)
    <2>3. Replaced(receipts, receipts', id, c)
        BY <1>16 DEF FtTransfer, Replaced
    <2>4. balance'[Pool] = B - (IF paid THEN r.amount ELSE 0)
        <3>1. CASE paid
            <4>1. r.account # Pool /\ r.amount <= balance[Pool]
                BY <1>1, <3>1 DEF CanTransfer
            <4>2. balance' = Moved(Pool, r.account, r.amount)
                BY <1>16, <3>1 DEF FtTransfer
            <4>. QED BY <2>1, <3>1, <4>1, <4>2, MovedType
        <3>2. CASE ~paid
            BY <1>2, <1>16, <3>2 DEF FtTransfer
        <3>. QED BY <3>1, <3>2
    <2>. HIDE DEF paid
    <2>5. c \in Receipt /\ c.account = r.account /\ Worth(c) = IF paid THEN 0 ELSE r.amount
        BY <1>6, <2>1, <2>2
    <2>. HIDE DEF c
    <2>6. Debts(receipts', unclaimed) = D + (IF paid THEN 0 ELSE r.amount) - r.amount
        <3>1. Debts(receipts', unclaimed) = D + Worth(c) - Worth(r)
            BY <1>1, <2>1, <2>3, <2>5, DebtsByReceipt
        <3>. QED BY <2>1, <2>5, <3>1
    <2>7. Debts(receipts', unclaimed) = D - (IF paid THEN r.amount ELSE 0)
        BY <1>2, <2>1, <2>2, <2>6
    <2>. QED BY <1>2, <1>16, <2>1, <2>4, <2>7 DEF Books, FtTransfer
<1>17. ASSUME NEW id \in ReceiptIds, OnFtTransferComplete(id) PROVE Books'
    <2>. DEFINE r == receipts[id]
    <2>1. /\ r \in Receipt /\ r.account \in Accounts /\ r.amount \in Nat /\ r.ok \in BOOLEAN
          /\ Worth(r) = IF r.ok THEN 0 ELSE r.amount
          /\ Replaced(receipts, receipts', id, Idle)
        BY <1>1, <1>4, <1>17, WorthByKind DEF OnFtTransferComplete, Replaced
    <2>2. CASE r.ok
        <3>1. unclaimed' = unclaimed
            BY <1>17, <2>2 DEF OnFtTransferComplete
        <3>2. Debts(receipts', unclaimed) = D + 0 - 0
            BY <1>1, <1>7, <2>1, <2>2, DebtsByReceipt, SMTT(30)
        <3>. QED BY <1>2, <1>17, <3>1, <3>2 DEF Books, OnFtTransferComplete
    <2>3. CASE ~r.ok
        <3>. DEFINE n == unclaimed[r.account] + r.amount
        <3>1. /\ unclaimed[r.account] \in Nat /\ n \in Nat
              /\ Replaced(unclaimed, unclaimed', r.account, n)
            BY <1>1, <1>17, <2>1, <2>3 DEF OnFtTransferComplete, Replaced
        <3>. HIDE DEF n
        <3>2. Debts(receipts, unclaimed') = D + n - unclaimed[r.account]
            BY <1>1, <2>1, <3>1, DebtsByEntry, ZenonT(40)
        <3>3. unclaimed' \in [Accounts -> Nat]
            BY <1>1, <3>1 DEF Replaced
        <3>4. Debts(receipts', unclaimed') = Debts(receipts, unclaimed') + 0 - r.amount
            <4>1. Debts(receipts', unclaimed')
                    = Debts(receipts, unclaimed') + Worth(Idle) - Worth(r)
                BY <1>1, <1>7, <2>1, <3>3, DebtsByReceipt, ZenonT(40)
            <4>. QED BY <1>7, <2>1, <2>3, <4>1
        <3>5. Debts(receipts', unclaimed') = D
            BY <1>2, <2>1, <3>1, <3>2, <3>4 DEF n
        <3>. QED BY <1>2, <1>17, <3>5 DEF Books, OnFtTransferComplete
    <2>. QED BY <2>2, <2>3
<1>18. ASSUME NEW value \in BOOLEAN, SetPaused(value) PROVE Books'
    BY <1>8, <1>18 DEF SetPaused
<1>19. ASSUME NEW a \in Accounts, Register(a) \/ Unregister(a) PROVE Books'
    BY <1>8, <1>19 DEF Register, Unregister
<1>. QED BY <1>9, <1>10, <1>11, <1>12, <1>13, <1>14, <1>15, <1>16, <1>17, <1>18, <1>19
         DEF Next, Spend, ExecuteReceipt

(* Before the first call the pool has nothing and owes nothing. *)
LEMMA NothingInFlight ==
    ASSUME Init, NEW a \in Accounts
    PROVE  SumFunction(PendingOf(receipts, a)) = 0 /\ SumFunction(PayoutOf(receipts, a)) = 0
<1>1. \A id \in ReceiptIds : receipts[id].kind = "idle"
    BY IdleType DEF Init
<1>2. /\ DOMAIN PendingOf(receipts, a) = ReceiptIds
      /\ \A id \in ReceiptIds : PendingOf(receipts, a)[id] = 0
    BY <1>1 DEF PendingOf, IsPendingDeposit
<1>3. /\ DOMAIN PayoutOf(receipts, a) = ReceiptIds
      /\ \A id \in ReceiptIds : PayoutOf(receipts, a)[id] = 0
    BY <1>1 DEF PayoutOf, IsPayout
<1>4. IsFiniteSet(ReceiptIds)
    BY AccountsAssumption
<1>5. SumFunction(PendingOf(receipts, a)) = 0
    BY <1>2, <1>4, SumZero DEF SumFunction
<1>6. SumFunction(PayoutOf(receipts, a)) = 0
    BY <1>3, <1>4, SumZero DEF SumFunction
<1>. QED BY <1>5, <1>6

LEMMA NoNotes ==
    ASSUME Init PROVE Value(leaves, nullifiers) = 0
<1>1. leaves = <<>> /\ nullifiers = {} /\ DOMAIN leaves \ nullifiers = {}
    BY DEF Init
<1>. QED BY <1>1, SumEmpty DEF Value

LEMMA BooksInit == Init => Books
<1>. SUFFICES ASSUME Init PROVE Books
    OBVIOUS
<1>1. \A a \in Accounts : OwedBy(receipts, unclaimed, a) = 0
    <2>1. \A a \in Accounts : /\ SumFunction(PendingOf(receipts, a)) = 0
                              /\ SumFunction(PayoutOf(receipts, a)) = 0
        BY NothingInFlight
    <2>2. \A a \in Accounts : unclaimed[a] = 0
        BY DEF Init
    <2>. QED BY <2>1, <2>2 DEF OwedBy
<1>2. Debts(receipts, unclaimed) = 0
    <2>. DEFINE f == [a \in Accounts |-> OwedBy(receipts, unclaimed, a)]
    <2>1. DOMAIN f = Accounts /\ IsFiniteSet(Accounts) /\ \A a \in Accounts : f[a] = 0
        BY <1>1, AccountsAssumption
    <2>. HIDE DEF f
    <2>2. SumFunction(f) = 0
        BY <2>1, SumZero DEF SumFunction
    <2>. QED BY <2>2 DEF Debts, f
<1>3. balance[Pool] = 0
    BY DEF Init
<1>. QED BY <1>2, <1>3, NoNotes DEF Books

LEMMA BooksBalance ==
    ASSUME EnoughGas
    PROVE  Spec => []Books
<1>1. TypeOK /\ (PayeesKnown /\ GasKnown) /\ Books /\ [Next]_vars => Books'
    <2>1. CASE UNCHANGED vars
        BY <2>1 DEF vars, Books
    <2>. QED BY <2>1, BooksStep
<1>. QED BY <1>1, BooksInit, TypeCorrect, ReceiptsKnown, PTL DEF Spec

LEMMA BooksAreSolvency == Books => Solvency
BY DEF Books, Solvency, Value, Debts, OwedBy, PendingOf, PayoutOf,
       ShieldedValue, Unspent, PendingDeposits, PayoutsInFlight, Due

(* The pool's tokens are exactly what it owes, in notes, deposits not yet  *)
(* settled, payouts on their way and the recovery book, after any calls in *)
(* any order, when each payout has its gas.                                *)
THEOREM Solvent ==
    ASSUME EnoughGas
    PROVE  Spec => []Solvency
BY BooksBalance, BooksAreSolvency, PTL

------------------------------------------------------------------------------
(* The public ledger. *)

(* What is an account's own, the deposits the pool has not settled         *)
(* included, and what the pool owes it in the clear. *)
OwnOf(bal, rs) == [a \in Accounts |-> bal[a] + SumFunction(PendingOf(rs, a))]

DueOf(rs, un) == [a \in Accounts |-> un[a] + SumFunction(PayoutOf(rs, a))]

(* The two kinds of money a receipt can carry. *)
DepositIn(r) == IF IsPendingDeposit(r) THEN r.amount ELSE 0

PayoutIn(r) == IF IsPayout(r) THEN r.amount ELSE 0

(* One account's entry moved by d. *)
Shifted(f, h, a, d) == h = [f EXCEPT ![a] = f[a] + d]

LEMMA ShiftedByNothing ==
    ASSUME NEW f \in [Accounts -> Nat], NEW h, NEW a \in Accounts, Shifted(f, h, a, 0)
    PROVE  h = f
<1>1. f[a] + 0 = f[a]
    OBVIOUS
<1>2. h = [f EXCEPT ![a] = f[a]]
    BY <1>1 DEF Shifted
<1>. QED BY <1>2

LEMMA LedgerTypes ==
    ASSUME NEW bal \in [Accounts \cup {Pool} -> Nat], NEW rs \in [ReceiptIds -> Receipt],
           NEW un \in [Accounts -> Nat]
    PROVE  OwnOf(bal, rs) \in [Accounts -> Nat] /\ DueOf(rs, un) \in [Accounts -> Nat]
<1>1. \A a \in Accounts : /\ SumFunction(PendingOf(rs, a)) \in Nat
                          /\ SumFunction(PayoutOf(rs, a)) \in Nat
    BY OwedType
<1>. QED BY <1>1 DEF OwnOf, DueOf

LEMMA CarriesByKind ==
    ASSUME NEW r \in Receipt
    PROVE  /\ r.kind = "idle" => DepositIn(r) = 0 /\ PayoutIn(r) = 0
           /\ r.kind = "ft_on_transfer" => DepositIn(r) = r.amount /\ PayoutIn(r) = 0
           /\ r.kind = "ft_resolve_transfer"
                => DepositIn(r) = (IF r.ok THEN 0 ELSE r.amount) /\ PayoutIn(r) = 0
           /\ r.kind \in {"pay_ft_with_recovery", "ft_transfer"}
                => DepositIn(r) = 0 /\ PayoutIn(r) = r.amount
           /\ r.kind = "on_ft_transfer_complete"
                => DepositIn(r) = 0 /\ PayoutIn(r) = (IF r.ok THEN 0 ELSE r.amount)
           /\ DepositIn(r) \in Nat /\ PayoutIn(r) \in Nat
BY DEF DepositIn, PayoutIn, IsPendingDeposit, IsPayout, Receipt

(* What a receipt carries for its account, by its kind. *)
LEMMA CallCarries ==
    ASSUME NEW a \in Accounts, NEW n \in Nat, NEW ok \in BOOLEAN
    PROVE  /\ \A kind \in Kinds :
                Call(kind, a, n, ok) \in Receipt /\ Call(kind, a, n, ok).account = a
           /\ DepositIn(Call("ft_on_transfer", a, n, ok)) = n
           /\ PayoutIn(Call("ft_on_transfer", a, n, ok)) = 0
           /\ DepositIn(Call("ft_resolve_transfer", a, n, ok)) = IF ok THEN 0 ELSE n
           /\ PayoutIn(Call("ft_resolve_transfer", a, n, ok)) = 0
           /\ DepositIn(Call("pay_ft_with_recovery", a, n, ok)) = 0
           /\ PayoutIn(Call("pay_ft_with_recovery", a, n, ok)) = n
           /\ DepositIn(Call("ft_transfer", a, n, ok)) = 0
           /\ PayoutIn(Call("ft_transfer", a, n, ok)) = n
           /\ DepositIn(Call("on_ft_transfer_complete", a, n, ok)) = 0
           /\ PayoutIn(Call("on_ft_transfer_complete", a, n, ok)) = IF ok THEN 0 ELSE n
<1>1. \A kind \in Kinds : Call(kind, a, n, ok) \in Receipt /\ Call(kind, a, n, ok).account = a
    BY CallType
<1>2. \A kind \in Kinds : /\ Call(kind, a, n, ok).kind = kind
                          /\ Call(kind, a, n, ok).amount = n
                          /\ Call(kind, a, n, ok).ok = ok
    BY CallType
<1>. QED BY <1>1, <1>2 DEF DepositIn, PayoutIn, IsPendingDeposit, IsPayout, Kinds

(* One receipt and the depositor's balance replaced: only that account's   *)
(* own moves. *)
LEMMA OwnByReceipt ==
    ASSUME NEW bal \in [Accounts \cup {Pool} -> Nat], NEW bal2 \in [Accounts \cup {Pool} -> Nat],
           NEW rs \in [ReceiptIds -> Receipt], NEW id \in ReceiptIds, NEW new \in Receipt,
           NEW a \in Accounts,
           DepositIn(new) = 0 \/ new.account = a,
           DepositIn(rs[id]) = 0 \/ rs[id].account = a,
           \A b \in Accounts \ {a} : bal2[b] = bal[b],
           NEW rs2, Replaced(rs, rs2, id, new),
           NEW d, d = bal2[a] - bal[a] + DepositIn(new) - DepositIn(rs[id])
    PROVE  Shifted(OwnOf(bal, rs), OwnOf(bal2, rs2), a, d)
<1>1. /\ rs2 \in [ReceiptIds -> Receipt] /\ rs2[id] = new
      /\ \A k \in ReceiptIds \ {id} : rs2[k] = rs[k]
    BY DEF Replaced
<1>2. /\ \A b \in Accounts : SumFunction(PendingOf(rs, b)) \in Nat
      /\ \A b \in Accounts : SumFunction(PendingOf(rs2, b)) \in Nat
    <2>1. [b \in Accounts |-> 0] \in [Accounts -> Nat]
        OBVIOUS
    <2>. QED BY <1>1, <2>1, OwedType
<1>3. ASSUME NEW b \in Accounts
      PROVE  SumFunction(PendingOf(rs2, b))
               = SumFunction(PendingOf(rs, b)) + PendingOf(rs2, b)[id] - PendingOf(rs, b)[id]
    BY <1>1, PendingByReceipt
<1>4. ASSUME NEW b \in Accounts
      PROVE  /\ PendingOf(rs2, b)[id] = IF new.account = b THEN DepositIn(new) ELSE 0
             /\ PendingOf(rs, b)[id] = IF rs[id].account = b THEN DepositIn(rs[id]) ELSE 0
    BY <1>1 DEF PendingOf, DepositIn
<1>5. DepositIn(new) \in Nat /\ DepositIn(rs[id]) \in Nat
    BY CarriesByKind
<1>6. \A b \in Accounts \ {a} : OwnOf(bal2, rs2)[b] = OwnOf(bal, rs)[b]
    BY <1>2, <1>3, <1>4, <1>5 DEF OwnOf
<1>7. OwnOf(bal2, rs2)[a] = OwnOf(bal, rs)[a] + d
    BY <1>2, <1>3, <1>4, <1>5 DEF OwnOf
<1>8. OwnOf(bal2, rs2) = [OwnOf(bal, rs) EXCEPT ![a] = OwnOf(bal, rs)[a] + d]
    BY <1>6, <1>7 DEF OwnOf
<1>. QED BY <1>8 DEF Shifted

(* One receipt and the account's entry of the recovery book replaced: only *)
(* what that account is owed moves. *)
LEMMA DueByReceipt ==
    ASSUME NEW un \in [Accounts -> Nat], NEW un2 \in [Accounts -> Nat],
           NEW rs \in [ReceiptIds -> Receipt], NEW id \in ReceiptIds, NEW new \in Receipt,
           NEW a \in Accounts,
           PayoutIn(new) = 0 \/ new.account = a,
           PayoutIn(rs[id]) = 0 \/ rs[id].account = a,
           \A b \in Accounts \ {a} : un2[b] = un[b],
           NEW rs2, Replaced(rs, rs2, id, new),
           NEW d, d = un2[a] - un[a] + PayoutIn(new) - PayoutIn(rs[id])
    PROVE  Shifted(DueOf(rs, un), DueOf(rs2, un2), a, d)
<1>1. /\ rs2 \in [ReceiptIds -> Receipt] /\ rs2[id] = new
      /\ \A k \in ReceiptIds \ {id} : rs2[k] = rs[k]
    BY DEF Replaced
<1>2. /\ \A b \in Accounts : SumFunction(PayoutOf(rs, b)) \in Nat
      /\ \A b \in Accounts : SumFunction(PayoutOf(rs2, b)) \in Nat
    BY <1>1, OwedType
<1>3. ASSUME NEW b \in Accounts
      PROVE  SumFunction(PayoutOf(rs2, b))
               = SumFunction(PayoutOf(rs, b)) + PayoutOf(rs2, b)[id] - PayoutOf(rs, b)[id]
    BY <1>1, PayoutByReceipt
<1>4. ASSUME NEW b \in Accounts
      PROVE  /\ PayoutOf(rs2, b)[id] = IF new.account = b THEN PayoutIn(new) ELSE 0
             /\ PayoutOf(rs, b)[id] = IF rs[id].account = b THEN PayoutIn(rs[id]) ELSE 0
    BY <1>1 DEF PayoutOf, PayoutIn
<1>5. PayoutIn(new) \in Nat /\ PayoutIn(rs[id]) \in Nat
    BY CarriesByKind
<1>6. \A b \in Accounts \ {a} : DueOf(rs2, un2)[b] = DueOf(rs, un)[b]
    BY <1>2, <1>3, <1>4, <1>5 DEF DueOf
<1>7. DueOf(rs2, un2)[a] = DueOf(rs, un)[a] + d
    BY <1>2, <1>3, <1>4, <1>5 DEF DueOf
<1>8. DueOf(rs2, un2) = [DueOf(rs, un) EXCEPT ![a] = DueOf(rs, un)[a] + d]
    BY <1>6, <1>7 DEF DueOf
<1>. QED BY <1>8 DEF Shifted

LEMMA LedgerReads ==
    /\ [a \in Accounts |-> balance[a] + PendingDeposits(a)] = OwnOf(balance, receipts)
    /\ ShieldedValue = Value(leaves, nullifiers)
    /\ [a \in Accounts |-> Due(a)] = DueOf(receipts, unclaimed)
    /\ \A a \in Accounts : Due(a) = DueOf(receipts, unclaimed)[a]
BY DEF OwnOf, DueOf, PendingOf, PayoutOf, Value, PendingDeposits, PayoutsInFlight, Due,
       ShieldedValue, Unspent

LEMMA LedgerReadsNext ==
    /\ [a \in Accounts |-> balance[a] + PendingDeposits(a)]' = OwnOf(balance', receipts')
    /\ ShieldedValue' = Value(leaves', nullifiers')
    /\ [a \in Accounts |-> Due(a)]' = DueOf(receipts', unclaimed')
    /\ \A a \in Accounts : Due(a)' = DueOf(receipts', unclaimed')[a]
BY DEF OwnOf, DueOf, PendingOf, PayoutOf, Value, PendingDeposits, PayoutsInFlight, Due,
       ShieldedValue, Unspent

(* The four columns of the ledger, before and after a step. *)
OwnKept == OwnOf(balance', receipts') = OwnOf(balance, receipts)
DueKept == DueOf(receipts', unclaimed') = DueOf(receipts, unclaimed)
VaultKept == Value(leaves', nullifiers') = Value(leaves, nullifiers)
OwnMoves(a, d) == Shifted(OwnOf(balance, receipts), OwnOf(balance', receipts'), a, d)
DueMoves(a, d) == Shifted(DueOf(receipts, unclaimed), DueOf(receipts', unclaimed'), a, d)

(* What the lemmas below know of the state they start in. *)
Ready == TypeOK /\ PayeesKnown /\ GasKnown

LEMMA ReadyTypes ==
    ASSUME Ready
    PROVE  /\ leaves \in Seq(Nat) /\ nullifiers \subseteq DOMAIN leaves
           /\ receipts \in [ReceiptIds -> Receipt] /\ unclaimed \in [Accounts -> Nat]
           /\ balance \in [Accounts \cup {Pool} -> Nat] /\ registered \subseteq Accounts
           /\ OwnOf(balance, receipts) \in [Accounts -> Nat]
           /\ DueOf(receipts, unclaimed) \in [Accounts -> Nat]
           /\ \A id \in ReceiptIds : /\ receipts[id] \in Receipt
                                     /\ receipts[id].kind # "idle"
                                          => receipts[id].account \in Accounts
                                     /\ receipts[id].amount \in Nat
                                     /\ receipts[id].ok \in BOOLEAN
           /\ \A id \in FreeIds : /\ id \in ReceiptIds
                                  /\ DepositIn(receipts[id]) = 0 /\ PayoutIn(receipts[id]) = 0
<1>1. /\ leaves \in Seq(Nat) /\ nullifiers \subseteq DOMAIN leaves
      /\ receipts \in [ReceiptIds -> Receipt] /\ unclaimed \in [Accounts -> Nat]
      /\ balance \in [Accounts \cup {Pool} -> Nat] /\ registered \subseteq Accounts
    BY DEF Ready, TypeOK
<1>2. \A id \in ReceiptIds : /\ receipts[id] \in Receipt
                             /\ receipts[id].kind # "idle" => receipts[id].account \in Accounts
                             /\ receipts[id].amount \in Nat
                             /\ receipts[id].ok \in BOOLEAN
    BY <1>1 DEF Ready, PayeesKnown, Receipt
<1>3. \A id \in FreeIds : /\ id \in ReceiptIds
                          /\ DepositIn(receipts[id]) = 0 /\ PayoutIn(receipts[id]) = 0
    BY <1>2, CarriesByKind DEF FreeIds
<1>4. OwnOf(balance, receipts) \in [Accounts -> Nat] /\ DueOf(receipts, unclaimed) \in [Accounts -> Nat]
    BY <1>1, LedgerTypes
<1>. QED BY <1>1, <1>2, <1>3, <1>4

(* A receipt replaced by one that carries what it carried, the balances    *)
(* and the book as they were: the ledger does not see it. *)
LEMMA SameLoad ==
    ASSUME Ready, NEW id \in ReceiptIds, NEW new \in Receipt,
           Replaced(receipts, receipts', id, new),
           NEW a \in Accounts,
           DepositIn(new) = 0 \/ new.account = a,
           DepositIn(receipts[id]) = 0 \/ receipts[id].account = a,
           DepositIn(new) = DepositIn(receipts[id]),
           balance' = balance
    PROVE  OwnKept
<1>1. receipts \in [ReceiptIds -> Receipt] /\ balance \in [Accounts \cup {Pool} -> Nat]
    BY ReadyTypes
<1>2. DepositIn(new) \in Nat /\ balance[a] \in Nat
    BY <1>1, CarriesByKind
<1>3. 0 = balance'[a] - balance[a] + DepositIn(new) - DepositIn(receipts[id])
    BY <1>2
<1>4. Shifted(OwnOf(balance, receipts), OwnOf(balance', receipts'), a, 0)
    BY <1>1, <1>3, OwnByReceipt
<1>. QED BY <1>4, ReadyTypes, ShiftedByNothing DEF OwnKept

LEMMA SameDue ==
    ASSUME Ready, NEW id \in ReceiptIds, NEW new \in Receipt,
           Replaced(receipts, receipts', id, new),
           NEW a \in Accounts,
           PayoutIn(new) = 0 \/ new.account = a,
           PayoutIn(receipts[id]) = 0 \/ receipts[id].account = a,
           PayoutIn(new) = PayoutIn(receipts[id]),
           unclaimed' = unclaimed
    PROVE  DueKept
<1>1. receipts \in [ReceiptIds -> Receipt] /\ unclaimed \in [Accounts -> Nat]
    BY ReadyTypes
<1>2. PayoutIn(new) \in Nat /\ unclaimed[a] \in Nat
    BY <1>1, CarriesByKind
<1>3. 0 = unclaimed'[a] - unclaimed[a] + PayoutIn(new) - PayoutIn(receipts[id])
    BY <1>2
<1>4. Shifted(DueOf(receipts, unclaimed), DueOf(receipts', unclaimed'), a, 0)
    BY <1>1, <1>3, DueByReceipt
<1>. QED BY <1>4, ReadyTypes, ShiftedByNothing DEF DueKept

(* A deposit on its way is still the depositor's own (ft_transfer_call). *)
LEMMA SendingIsQuiet ==
    ASSUME Ready, NEW a \in Accounts, NEW amount \in Amounts, NEW valid \in BOOLEAN,
           FtTransferCall(a, amount, valid)
    PROVE  OwnKept /\ DueKept /\ VaultKept
<1>. DEFINE c == Call("ft_on_transfer", a, amount, valid)
<1>1. PICK id \in FreeIds : Replaced(receipts, receipts', id, c)
    BY DEF FtTransferCall, Replaced
<1>2. amount \in Nat /\ a # Pool /\ amount <= balance[a] /\ TypeOK
    BY AccountsAssumption, ContractAssumption DEF Amounts, FtTransferCall, CanTransfer, Ready
<1>3. /\ balance' \in [Accounts \cup {Pool} -> Nat] /\ balance'[a] = balance[a] - amount
      /\ \A b \in Accounts \ {a} : balance'[b] = balance[b]
    <2>1. balance' = Moved(a, Pool, amount)
        BY DEF FtTransferCall
    <2>2. /\ balance' \in [Accounts \cup {Pool} -> Nat]
          /\ balance' = [b \in Accounts \cup {Pool} |->
                           IF b = a THEN balance[b] - amount
                           ELSE IF b = Pool THEN balance[b] + amount ELSE balance[b]]
        <3>1. a \in Accounts \cup {Pool} /\ Pool \in Accounts \cup {Pool}
            OBVIOUS
        <3>. QED BY <1>2, <2>1, <3>1, MovedType, Zenon
    <2>. QED BY <2>2, AccountsAssumption
<1>4. c \in Receipt /\ c.account = a /\ DepositIn(c) = amount /\ PayoutIn(c) = 0
    BY <1>2, CallCarries DEF Kinds
<1>. HIDE DEF c
<1>5. /\ id \in ReceiptIds /\ DepositIn(receipts[id]) = 0 /\ PayoutIn(receipts[id]) = 0
      /\ receipts \in [ReceiptIds -> Receipt] /\ balance \in [Accounts \cup {Pool} -> Nat]
    BY ReadyTypes
<1>6. 0 = balance'[a] - balance[a] + DepositIn(c) - DepositIn(receipts[id])
    BY <1>2, <1>3, <1>4, <1>5
<1>7. Shifted(OwnOf(balance, receipts), OwnOf(balance', receipts'), a, 0)
    BY <1>1, <1>3, <1>4, <1>5, <1>6, OwnByReceipt
<1>8. OwnKept
    BY <1>7, ReadyTypes, ShiftedByNothing DEF OwnKept
<1>9. DueKept
    BY <1>1, <1>4, <1>5, SameDue DEF FtTransferCall, poolVars
<1>. QED BY <1>8, <1>9 DEF FtTransferCall, poolVars, VaultKept

(* A claim takes from the book what it puts on its way (claim.rs). *)
LEMMA ClaimIsQuiet ==
    ASSUME Ready, NEW a \in Accounts, Claim(a)
    PROVE  OwnKept /\ DueKept /\ VaultKept
<1>. DEFINE c == Call("ft_transfer", a, unclaimed[a], TRUE)
<1>1. PICK id \in FreeIds : Replaced(receipts, receipts', id, c)
    BY DEF Claim, Replaced
<1>2. /\ unclaimed \in [Accounts -> Nat] /\ unclaimed[a] \in Nat
      /\ unclaimed' = [unclaimed EXCEPT ![a] = 0]
    BY ReadyTypes DEF Claim
<1>3. c \in Receipt /\ c.account = a /\ PayoutIn(c) = unclaimed[a] /\ DepositIn(c) = 0
    BY <1>2, CallCarries DEF Kinds
<1>. HIDE DEF c
<1>4. /\ id \in ReceiptIds /\ DepositIn(receipts[id]) = 0 /\ PayoutIn(receipts[id]) = 0
      /\ receipts \in [ReceiptIds -> Receipt]
    BY ReadyTypes
<1>5. 0 = unclaimed'[a] - unclaimed[a] + PayoutIn(c) - PayoutIn(receipts[id])
    BY <1>2, <1>3, <1>4
<1>6. /\ unclaimed' \in [Accounts -> Nat]
      /\ \A b \in Accounts \ {a} : unclaimed'[b] = unclaimed[b]
    BY <1>2
<1>7. Shifted(DueOf(receipts, unclaimed), DueOf(receipts', unclaimed'), a, 0)
    BY <1>1, <1>2, <1>3, <1>4, <1>5, <1>6, DueByReceipt
<1>8. DueKept
    BY <1>7, ReadyTypes, ShiftedByNothing DEF DueKept
<1>9. OwnKept
    BY <1>1, <1>3, <1>4, SameLoad DEF Claim, tokenVars
<1>. QED BY <1>8, <1>9 DEF Claim, VaultKept

(* A transfer inside the pool moves nothing in the clear (transfer.rs). *)
LEMMA TransferIsQuiet ==
    ASSUME Ready, NEW root, NEW i \in DOMAIN leaves, NEW j \in DOMAIN leaves,
           NEW out0 \in Amounts, NEW out1 \in Amounts, Transfer(root, i, j, out0, out1)
    PROVE  OwnKept /\ DueKept /\ VaultKept
<1>1. /\ out0 \in Nat /\ out1 \in Nat /\ i # j
      /\ i \notin nullifiers /\ j \notin nullifiers
      /\ leaves[i] + leaves[j] = out0 + out1
      /\ leaves' = leaves \o <<out0, out1>> /\ nullifiers' = nullifiers \cup {i, j}
    BY ContractAssumption DEF Amounts, Transfer, TransferStatement, Commit
<1>2. TransferKeepsValue(leaves, nullifiers, i, j, out0, out1)
    BY <1>1, ReadyTypes, ValueOfTransfer
<1>3. VaultKept
    BY <1>1, <1>2 DEF TransferKeepsValue, VaultKept
<1>. QED BY <1>3 DEF Transfer, tokenVars, OwnKept, DueKept

(* A payout call becomes the transfer it asks for (withdraw.rs              *)
(* pay_ft_with_recovery). *)
LEMMA PayFtIsQuiet ==
    ASSUME Ready, NEW id \in ReceiptIds, PayFtWithRecovery(id)
    PROVE  OwnKept /\ DueKept /\ VaultKept
<1>. DEFINE r == receipts[id]
            c == Call("ft_transfer", r.account, r.amount, TRUE)
<1>1. /\ r \in Receipt /\ r.account \in Accounts /\ r.amount \in Nat
      /\ r.kind = "pay_ft_with_recovery" /\ r.ok
    BY ReadyTypes DEF PayFtWithRecovery, Ready, GasKnown
<1>2. Replaced(receipts, receipts', id, c)
    BY <1>1 DEF PayFtWithRecovery, Replaced
<1>3. /\ c \in Receipt /\ c.account = r.account /\ PayoutIn(c) = r.amount /\ DepositIn(c) = 0
      /\ PayoutIn(r) = r.amount /\ DepositIn(r) = 0
    <2>1. "ft_transfer" \in Kinds /\ TRUE \in BOOLEAN
        BY DEF Kinds
    <2>2. c \in Receipt /\ c.account = r.account /\ PayoutIn(c) = r.amount /\ DepositIn(c) = 0
        <3>1. ASSUME NEW a \in Accounts, NEW m \in Nat
              PROVE  /\ Call("ft_transfer", a, m, TRUE) \in Receipt
                     /\ Call("ft_transfer", a, m, TRUE).account = a
                     /\ PayoutIn(Call("ft_transfer", a, m, TRUE)) = m
                     /\ DepositIn(Call("ft_transfer", a, m, TRUE)) = 0
            <4>. HIDE DEF r, c
            <4>. QED BY <2>1, CallCarries, ZenonT(40)
        <3>. HIDE DEF r
        <3>. QED BY <1>1, <3>1
    <2>. QED BY <1>1, <2>2, CarriesByKind
<1>. HIDE DEF c
<1>4. OwnKept
    BY <1>1, <1>2, <1>3, SameLoad DEF PayFtWithRecovery, tokenVars
<1>5. DueKept
    BY <1>1, <1>2, <1>3, SameDue DEF PayFtWithRecovery, poolVars
<1>. QED BY <1>4, <1>5 DEF PayFtWithRecovery, poolVars, VaultKept

(* A refused payout goes from the receipt into the recovery book           *)
(* (withdraw.rs on_ft_transfer_complete). *)
LEMMA CompletionIsQuiet ==
    ASSUME Ready, NEW id \in ReceiptIds, OnFtTransferComplete(id)
    PROVE  OwnKept /\ DueKept /\ VaultKept
<1>. DEFINE r == receipts[id]
            a == r.account
<1>1. /\ r \in Receipt /\ a \in Accounts /\ r.amount \in Nat /\ r.ok \in BOOLEAN
      /\ DepositIn(r) = 0 /\ PayoutIn(r) = IF r.ok THEN 0 ELSE r.amount
      /\ Replaced(receipts, receipts', id, Idle)
      /\ unclaimed \in [Accounts -> Nat] /\ receipts \in [ReceiptIds -> Receipt]
    BY ReadyTypes, CarriesByKind DEF OnFtTransferComplete, Replaced
<1>2. Idle \in Receipt /\ DepositIn(Idle) = 0 /\ PayoutIn(Idle) = 0
    BY IdleType, CarriesByKind
<1>3. OwnKept
    BY <1>1, <1>2, SameLoad DEF OnFtTransferComplete, tokenVars
<1>4. /\ unclaimed' \in [Accounts -> Nat]
      /\ \A b \in Accounts \ {a} : unclaimed'[b] = unclaimed[b]
      /\ unclaimed'[a] = unclaimed[a] + PayoutIn(r)
    <2>1. CASE r.ok
        <3>1. unclaimed' = unclaimed /\ PayoutIn(r) = 0
            BY <1>1, <2>1 DEF OnFtTransferComplete
        <3>. QED BY <1>1, <3>1
    <2>2. CASE ~r.ok
        <3>1. unclaimed' = [unclaimed EXCEPT ![a] = unclaimed[a] + r.amount] /\ PayoutIn(r) = r.amount
            BY <1>1, <2>2 DEF OnFtTransferComplete
        <3>. QED BY <1>1, <3>1
    <2>. QED BY <2>1, <2>2
<1>5. PayoutIn(r) \in Nat /\ unclaimed[a] \in Nat
    BY <1>1, CarriesByKind
<1>6. 0 = unclaimed'[a] - unclaimed[a] + PayoutIn(Idle) - PayoutIn(receipts[id])
    BY <1>2, <1>4, <1>5
<1>7. Shifted(DueOf(receipts, unclaimed), DueOf(receipts', unclaimed'), a, 0)
    BY <1>1, <1>2, <1>4, <1>6, DueByReceipt
<1>8. DueKept
    BY <1>1, <1>7, ReadyTypes, ShiftedByNothing DEF DueKept
<1>. QED BY <1>3, <1>8 DEF OnFtTransferComplete, VaultKept

(* A withdrawal owes the payee and the relayer the whole note, and takes   *)
(* it from the vault (withdraw.rs). *)
LEMMA WithdrawalMoves ==
    ASSUME Ready, NEW root, NEW i \in DOMAIN leaves,
           NEW recipient \in Accounts, NEW relayer \in Accounts,
           NEW amount \in Amounts, NEW fee \in Amounts, NEW leftover \in LeftoverGas,
           Withdraw(root, i, recipient, amount, relayer, fee, leftover)
    PROVE  /\ OwnKept /\ registered' = registered
           /\ Value(leaves', nullifiers') = Value(leaves, nullifiers) - amount
           /\ DueOf(receipts', unclaimed')
                = [b \in Accounts |->
                     DueOf(receipts, unclaimed)[b] + (IF b = recipient THEN amount - fee ELSE 0)
                                                   + (IF b = relayer THEN fee ELSE 0)]
<1>. DEFINE D == DueOf(receipts, unclaimed)
            D2 == DueOf(receipts', unclaimed')
<1>1. /\ amount \in Nat /\ fee \in Nat /\ amount - fee \in Nat
      /\ i \notin nullifiers /\ leaves[i] = amount /\ nullifiers' = nullifiers \cup {i}
      /\ leaves' = leaves /\ unclaimed' = unclaimed /\ balance' = balance
      /\ registered' = registered
    BY ContractAssumption DEF Amounts, Withdraw, WithdrawStatement, tokenVars
<1>2. Value(leaves', nullifiers') = Value(leaves, nullifiers) - amount
    BY <1>1, ReadyTypes, ValueOfSpend
<1>3. \A a \in Accounts, n \in Nat, calls \in {1, 2} :
         /\ Payout(a, n, leftover, calls) \in Receipt
         /\ Payout(a, n, leftover, calls).account = a
         /\ PayoutIn(Payout(a, n, leftover, calls)) = n
         /\ DepositIn(Payout(a, n, leftover, calls)) = 0
    BY PayoutType, CarriesByKind
<1>4. /\ receipts \in [ReceiptIds -> Receipt] /\ unclaimed \in [Accounts -> Nat]
      /\ balance \in [Accounts \cup {Pool} -> Nat] /\ D \in [Accounts -> Nat]
      /\ \A id \in FreeIds : id \in ReceiptIds /\ DepositIn(receipts[id]) = 0 /\ PayoutIn(receipts[id]) = 0
    BY ReadyTypes
<1>5. \A a \in Accounts, n \in Nat :
         /\ n = unclaimed[a] - unclaimed[a] + n - 0
         /\ 0 = balance[a] - balance[a] + 0 - 0
    BY <1>4
<1>6. CASE fee = 0
    <2>. DEFINE c == Payout(recipient, amount, leftover, 1)
    <2>1. PICK pay \in FreeIds : Replaced(receipts, receipts', pay, c)
        BY <1>6 DEF Withdraw, Replaced
    <2>2. c \in Receipt /\ c.account = recipient /\ PayoutIn(c) = amount /\ DepositIn(c) = 0
        BY <1>1, <1>3
    <2>. HIDE DEF c
    <2>3. OwnKept
        BY <1>1, <1>4, <2>1, <2>2, SameLoad
    <2>4. amount = unclaimed'[recipient] - unclaimed[recipient] + PayoutIn(c) - PayoutIn(receipts[pay])
        BY <1>1, <1>4, <2>2
    <2>5. Shifted(D, D2, recipient, amount)
        BY <1>1, <1>4, <2>1, <2>2, <2>4, DueByReceipt
    <2>. HIDE DEF D, D2
    <2>6. D2 = [b \in Accounts |-> D[b] + (IF b = recipient THEN amount - fee ELSE 0)
                                        + (IF b = relayer THEN fee ELSE 0)]
        <3>1. D2 = [D EXCEPT ![recipient] = D[recipient] + amount]
            BY <2>5 DEF Shifted
        <3>2. \A b \in Accounts :
                 D2[b] = D[b] + (IF b = recipient THEN amount - fee ELSE 0)
                              + (IF b = relayer THEN fee ELSE 0)
            BY <1>1, <1>4, <1>6, <3>1
        <3>. QED BY <1>4, <3>1, <3>2
    <2>. QED BY <1>1, <1>2, <2>3, <2>6 DEF D, D2
<1>7. CASE fee > 0
    <2>. DEFINE c == Payout(recipient, amount - fee, leftover, 2)
                cFee == Payout(relayer, fee, leftover, 2)
    <2>1. PICK pay \in FreeIds, payFee \in FreeIds :
             /\ pay # payFee
             /\ receipts' = [receipts EXCEPT ![pay] = c, ![payFee] = cFee]
        BY <1>7 DEF Withdraw
    <2>2. /\ c \in Receipt /\ c.account = recipient /\ PayoutIn(c) = amount - fee /\ DepositIn(c) = 0
          /\ cFee \in Receipt /\ cFee.account = relayer /\ PayoutIn(cFee) = fee /\ DepositIn(cFee) = 0
        BY <1>1, <1>3
    <2>. HIDE DEF c, cFee
    <2>. DEFINE rs1 == [receipts EXCEPT ![pay] = c]
                D1 == DueOf(rs1, unclaimed)
    <2>3. /\ pay \in ReceiptIds /\ PayoutIn(receipts[pay]) = 0 /\ DepositIn(receipts[pay]) = 0
          /\ Replaced(receipts, rs1, pay, c)
        BY <1>4 DEF Replaced
    <2>4. /\ payFee \in ReceiptIds /\ PayoutIn(rs1[payFee]) = 0 /\ DepositIn(rs1[payFee]) = 0
          /\ rs1 \in [ReceiptIds -> Receipt]
          /\ Replaced(rs1, receipts', payFee, cFee)
        BY <1>4, <2>1, <2>2, <2>3 DEF Replaced
    <2>. HIDE DEF rs1
    <2>5. amount - fee = unclaimed[recipient] - unclaimed[recipient]
                           + PayoutIn(c) - PayoutIn(receipts[pay])
        BY <1>1, <1>4, <2>2, <2>3
    <2>6. Shifted(D, D1, recipient, amount - fee)
        BY <1>1, <1>4, <2>2, <2>3, <2>5, DueByReceipt
    <2>7. fee = unclaimed'[relayer] - unclaimed[relayer] + PayoutIn(cFee) - PayoutIn(rs1[payFee])
        BY <1>1, <1>4, <2>2, <2>4
    <2>8. Shifted(D1, D2, relayer, fee)
        BY <1>1, <1>4, <2>2, <2>4, <2>7, DueByReceipt
    <2>9. OwnKept
        <3>. DEFINE W == OwnOf(balance, receipts)
                    W1 == OwnOf(balance, rs1)
                    W2 == OwnOf(balance', receipts')
        <3>1. /\ 0 = balance[recipient] - balance[recipient] + DepositIn(c) - DepositIn(receipts[pay])
              /\ 0 = balance'[relayer] - balance[relayer] + DepositIn(cFee) - DepositIn(rs1[payFee])
            BY <1>1, <1>4, <2>2, <2>3, <2>4
        <3>2. Shifted(W, W1, recipient, 0)
            BY <1>4, <2>2, <2>3, <3>1, OwnByReceipt
        <3>3. Shifted(W1, W2, relayer, 0)
            BY <1>1, <1>4, <2>2, <2>4, <3>1, OwnByReceipt
        <3>4. W \in [Accounts -> Nat] /\ W1 \in [Accounts -> Nat]
            BY <1>4, <2>4, LedgerTypes
        <3>. HIDE DEF W, W1, W2
        <3>5. W1 = W /\ W2 = W1
            BY <3>2, <3>3, <3>4, ShiftedByNothing
        <3>. QED BY <3>5 DEF OwnKept, W, W2
    <2>10. D1 \in [Accounts -> Nat]
        BY <1>4, <2>4, LedgerTypes
    <2>. HIDE DEF D, D1, D2
    <2>11. D1 = [D EXCEPT ![recipient] = D[recipient] + (amount - fee)]
        BY <2>6 DEF Shifted
    <2>12. D2 = [D1 EXCEPT ![relayer] = D1[relayer] + fee]
        BY <2>8 DEF Shifted
    <2>13. \A b \in Accounts : /\ D1[b] = D[b] + (IF b = recipient THEN amount - fee ELSE 0)
                               /\ D2[b] = D1[b] + (IF b = relayer THEN fee ELSE 0)
        BY <1>1, <1>4, <2>10, <2>11, <2>12
    <2>14. D2 = [b \in Accounts |-> D[b] + (IF b = recipient THEN amount - fee ELSE 0)
                                        + (IF b = relayer THEN fee ELSE 0)]
        BY <1>4, <2>10, <2>12, <2>13
    <2>. QED BY <1>1, <1>2, <2>9, <2>14 DEF D, D2
<1>. QED BY <1>1, <1>6, <1>7 DEF Withdraw

(* A deposit that the pool takes moves from its sender into the vault; one *)
(* that it refuses stays the sender's (deposit.rs). *)
LEMMA DepositMoves ==
    ASSUME Ready, NEW id \in ReceiptIds, FtOnTransfer(id)
    PROVE  /\ DueKept /\ registered' = registered
           /\ \/ OwnKept /\ VaultKept
              \/ \E a \in Accounts, n \in Nat :
                    /\ OwnMoves(a, 0 - n)
                    /\ Value(leaves', nullifiers') = Value(leaves, nullifiers) + n
<1>. DEFINE r == receipts[id]
            ok == DepositAccepted(r)
            c == Call("ft_resolve_transfer", r.account, r.amount, ok)
<1>1. /\ r \in Receipt /\ r.account \in Accounts /\ r.amount \in Nat
      /\ DepositIn(r) = r.amount /\ PayoutIn(r) = 0
      /\ receipts \in [ReceiptIds -> Receipt]
      /\ balance \in [Accounts \cup {Pool} -> Nat]
      /\ leaves \in Seq(Nat) /\ nullifiers \subseteq DOMAIN leaves
    BY ReadyTypes, CarriesByKind DEF FtOnTransfer
<1>2. Replaced(receipts, receipts', id, c) /\ ok \in BOOLEAN
    BY DEF FtOnTransfer, Replaced, DepositAccepted
<1>3. balance' = balance /\ unclaimed' = unclaimed /\ nullifiers' = nullifiers
      /\ registered' = registered
    BY DEF FtOnTransfer, tokenVars
<1>4. /\ ok => leaves' = leaves \o <<r.amount>>
      /\ ~ok => leaves' = leaves
    BY DEF FtOnTransfer, Commit
<1>. HIDE DEF ok
<1>5. /\ c \in Receipt /\ c.account = r.account
      /\ DepositIn(c) = (IF ok THEN 0 ELSE r.amount) /\ PayoutIn(c) = 0
    <2>. HIDE DEF r
    <2>1. \A a \in Accounts, n \in Nat, b \in BOOLEAN :
             /\ Call("ft_resolve_transfer", a, n, b) \in Receipt
             /\ Call("ft_resolve_transfer", a, n, b).account = a
             /\ DepositIn(Call("ft_resolve_transfer", a, n, b)) = (IF b THEN 0 ELSE n)
             /\ PayoutIn(Call("ft_resolve_transfer", a, n, b)) = 0
        BY CallCarries DEF Kinds
    <2>. QED BY <1>1, <1>2, <2>1
<1>. HIDE DEF c
<1>6. DueKept
    BY <1>1, <1>2, <1>3, <1>5, SameDue
<1>7. CASE ok
    <2>1. leaves' = Append(leaves, r.amount)
        BY <1>1, <1>4, <1>7, AppendIsConcat
    <2>2. Value(leaves', nullifiers') = Value(leaves, nullifiers) + r.amount
        BY <1>1, <1>3, <2>1, ValueOfAppend
    <2>3. 0 - r.amount = balance'[r.account] - balance[r.account] + DepositIn(c) - DepositIn(receipts[id])
        BY <1>1, <1>3, <1>5, <1>7
    <2>4. OwnMoves(r.account, 0 - r.amount)
        BY <1>1, <1>2, <1>3, <1>5, <2>3, OwnByReceipt DEF OwnMoves
    <2>. QED BY <1>1, <1>3, <1>6, <2>2, <2>4
<1>8. CASE ~ok
    <2>1. OwnKept
        BY <1>1, <1>2, <1>3, <1>5, <1>8, SameLoad
    <2>. QED BY <1>3, <1>4, <1>6, <1>8, <2>1 DEF VaultKept
<1>. QED BY <1>7, <1>8

(* A refused deposit comes back, or is burnt if the sender has closed its  *)
(* account (the token's ft_resolve_transfer). *)
LEMMA RefundMoves ==
    ASSUME Ready, Books, NEW id \in ReceiptIds, FtResolveTransfer(id)
    PROVE  /\ DueKept /\ VaultKept /\ registered' = registered
           /\ \/ OwnKept
              \/ \E a \in Accounts \ registered, n \in Nat : OwnMoves(a, 0 - n)
<1>. DEFINE r == receipts[id]
            unused == IF r.ok THEN 0 ELSE r.amount
<1>1. /\ r \in Receipt /\ r.account \in Accounts /\ unused \in Nat
      /\ DepositIn(r) = unused /\ PayoutIn(r) = 0
      /\ Replaced(receipts, receipts', id, Idle)
      /\ receipts \in [ReceiptIds -> Receipt] /\ unclaimed \in [Accounts -> Nat]
      /\ balance \in [Accounts \cup {Pool} -> Nat] /\ registered \subseteq Accounts
      /\ leaves \in Seq(Nat) /\ Worth(r) = unused
    BY ReadyTypes, CarriesByKind, WorthByKind DEF FtResolveTransfer, Replaced
<1>2. Idle \in Receipt /\ DepositIn(Idle) = 0 /\ PayoutIn(Idle) = 0 /\ Worth(Idle) = 0
    BY IdleType, CarriesByKind, WorthByKind
<1>3. /\ UNCHANGED <<leaves, nullifiers, unclaimed, registered>>
      /\ balance' = IF r.account \in registered
                    THEN Moved(Pool, r.account, IF unused <= balance[Pool] THEN unused ELSE balance[Pool])
                    ELSE [balance EXCEPT ![Pool] =
                             balance[Pool] - (IF unused <= balance[Pool] THEN unused ELSE balance[Pool])]
    BY DEF FtResolveTransfer, poolVars
<1>. HIDE DEF unused
<1>4. unused <= balance[Pool]
    <2>1. Debts(receipts', unclaimed) = Debts(receipts, unclaimed) + Worth(Idle) - Worth(r)
        BY <1>1, <1>2, DebtsByReceipt
    <2>2. receipts' \in [ReceiptIds -> Receipt]
        BY <1>1, <1>2 DEF Replaced
    <2>3. Debts(receipts', unclaimed) \in Nat /\ Debts(receipts, unclaimed) \in Nat
        BY <1>1, <2>2, DebtsType
    <2>4. Value(leaves, nullifiers) \in Nat
        BY <1>1, ValueType
    <2>. QED BY <1>1, <1>2, <2>1, <2>3, <2>4 DEF Books
<1>5. DueKept
    BY <1>1, <1>2, <1>3, SameDue
<1>6. VaultKept
    BY <1>3 DEF VaultKept
<1>7. CASE r.account \in registered
    <2>. DEFINE a == r.account
    <2>1. a # Pool /\ a \in Accounts \cup {Pool} /\ Pool \in Accounts \cup {Pool} /\ TypeOK
        BY <1>1, AccountsAssumption DEF Ready
    <2>2. balance' = Moved(Pool, a, unused)
        BY <1>3, <1>4, <1>7
    <2>3. /\ Moved(Pool, a, unused) \in [Accounts \cup {Pool} -> Nat]
          /\ Moved(Pool, a, unused)
               = [b \in Accounts \cup {Pool} |->
                    IF b = Pool THEN balance[b] - unused
                    ELSE IF b = a THEN balance[b] + unused ELSE balance[b]]
        <3>1. unused \in Nat /\ unused <= balance[Pool]
            BY <1>1, <1>4
        <3>. HIDE DEF a, unused
        <3>. QED BY <2>1, <3>1, MovedType, ZenonT(40)
    <2>4. /\ balance' \in [Accounts \cup {Pool} -> Nat] /\ balance'[a] = balance[a] + unused
          /\ \A b \in Accounts \ {a} : balance'[b] = balance[b]
        BY <2>1, <2>2, <2>3, AccountsAssumption
    <2>5. 0 = balance'[a] - balance[a] + DepositIn(Idle) - DepositIn(receipts[id])
        BY <1>1, <1>2, <2>4
    <2>6. Shifted(OwnOf(balance, receipts), OwnOf(balance', receipts'), a, 0)
        BY <1>1, <1>2, <2>4, <2>5, OwnByReceipt
    <2>7. OwnKept
        BY <1>1, <2>6, ReadyTypes, ShiftedByNothing DEF OwnKept
    <2>. QED BY <1>3, <1>5, <1>6, <2>7
<1>8. CASE r.account \notin registered
    <2>. DEFINE a == r.account
    <2>1. balance' = [balance EXCEPT ![Pool] = balance[Pool] - unused]
        BY <1>3, <1>4, <1>8
    <2>2. /\ balance' \in [Accounts \cup {Pool} -> Nat]
          /\ \A b \in Accounts : balance'[b] = balance[b]
        BY <1>1, <1>4, <2>1, AccountsAssumption
    <2>3. 0 - unused = balance'[a] - balance[a] + DepositIn(Idle) - DepositIn(receipts[id])
        BY <1>1, <1>2, <2>2
    <2>4. OwnMoves(a, 0 - unused)
        BY <1>1, <1>2, <2>2, <2>3, OwnByReceipt DEF OwnMoves
    <2>. QED BY <1>1, <1>3, <1>5, <1>6, <1>8, <2>4
<1>. QED BY <1>7, <1>8

(* A payout the token makes is paid to whom it is owed; one it refuses is  *)
(* still owed (the token's ft_transfer). *)
LEMMA PayoutMoves ==
    ASSUME Ready, NEW id \in ReceiptIds, FtTransfer(id)
    PROVE  /\ VaultKept /\ registered' = registered
           /\ \/ OwnKept /\ DueKept
              \/ \E a \in registered, n \in Nat \ {0} :
                    OwnMoves(a, n) /\ DueMoves(a, 0 - n) /\ balance'[a] - balance[a] = n
<1>. DEFINE r == receipts[id]
            paid == CanTransfer(Pool, r.account, r.amount)
            c == Call("on_ft_transfer_complete", r.account, r.amount, paid)
<1>1. /\ r \in Receipt /\ r.account \in Accounts /\ r.amount \in Nat
      /\ DepositIn(r) = 0 /\ PayoutIn(r) = r.amount
      /\ receipts \in [ReceiptIds -> Receipt] /\ unclaimed \in [Accounts -> Nat]
      /\ balance \in [Accounts \cup {Pool} -> Nat]
    BY ReadyTypes, CarriesByKind DEF FtTransfer
<1>2. Replaced(receipts, receipts', id, c) /\ paid \in BOOLEAN
    BY DEF FtTransfer, Replaced, CanTransfer
<1>3. /\ UNCHANGED <<leaves, nullifiers, unclaimed, registered>>
      /\ balance' = IF paid THEN Moved(Pool, r.account, r.amount) ELSE balance
    BY DEF FtTransfer, poolVars
<1>4. paid => /\ r.amount > 0 /\ r.account # Pool /\ r.amount <= balance[Pool]
              /\ r.account \in registered
    BY <1>1, AccountsAssumption DEF CanTransfer
<1>. HIDE DEF paid
<1>5. /\ c \in Receipt /\ c.account = r.account
      /\ DepositIn(c) = 0 /\ PayoutIn(c) = IF paid THEN 0 ELSE r.amount
    <2>. HIDE DEF r
    <2>1. \A a \in Accounts, n \in Nat, b \in BOOLEAN :
             /\ Call("on_ft_transfer_complete", a, n, b) \in Receipt
             /\ Call("on_ft_transfer_complete", a, n, b).account = a
             /\ DepositIn(Call("on_ft_transfer_complete", a, n, b)) = 0
             /\ PayoutIn(Call("on_ft_transfer_complete", a, n, b)) = (IF b THEN 0 ELSE n)
        BY CallCarries DEF Kinds
    <2>. QED BY <1>1, <1>2, <2>1
<1>. HIDE DEF c
<1>6. VaultKept
    BY <1>3 DEF VaultKept
<1>7. CASE paid
    <2>. DEFINE a == r.account
                n == r.amount
    <2>1. /\ a # Pool /\ a \in Accounts \cup {Pool} /\ Pool \in Accounts \cup {Pool} /\ TypeOK
          /\ n \in Nat /\ n <= balance[Pool] /\ balance' = Moved(Pool, a, n)
        BY <1>1, <1>3, <1>4, <1>7 DEF Ready
    <2>2. /\ Moved(Pool, a, n) \in [Accounts \cup {Pool} -> Nat]
          /\ Moved(Pool, a, n)
               = [b \in Accounts \cup {Pool} |->
                    IF b = Pool THEN balance[b] - n
                    ELSE IF b = a THEN balance[b] + n ELSE balance[b]]
        <3>. HIDE DEF a, n
        <3>. QED BY <2>1, MovedType, ZenonT(40)
    <2>3. /\ balance' \in [Accounts \cup {Pool} -> Nat] /\ balance'[a] = balance[a] + n
          /\ \A b \in Accounts \ {a} : balance'[b] = balance[b]
        BY <1>1, <2>1, <2>2, AccountsAssumption
    <2>4. n = balance'[a] - balance[a] + DepositIn(c) - DepositIn(receipts[id])
        BY <1>1, <1>5, <2>3
    <2>5. OwnMoves(a, n)
        BY <1>1, <1>2, <1>5, <2>3, <2>4, OwnByReceipt DEF OwnMoves
    <2>6. 0 - n = unclaimed'[a] - unclaimed[a] + PayoutIn(c) - PayoutIn(receipts[id])
        BY <1>1, <1>3, <1>5, <1>7
    <2>7. DueMoves(a, 0 - n)
        BY <1>1, <1>2, <1>3, <1>5, <2>6, DueByReceipt DEF DueMoves
    <2>8. balance'[a] - balance[a] = n /\ n \in Nat \ {0} /\ a \in registered
        BY <1>1, <1>4, <1>7, <2>3
    <2>. QED BY <1>3, <1>6, <2>5, <2>7, <2>8
<1>8. CASE ~paid
    <2>1. balance' = balance
        BY <1>3, <1>8
    <2>2. OwnKept
        BY <1>1, <1>2, <1>5, <2>1, SameLoad
    <2>3. DueKept
        BY <1>1, <1>2, <1>3, <1>5, <1>8, SameDue
    <2>. QED BY <1>3, <1>6, <2>2, <2>3
<1>. QED BY <1>7, <1>8

(* The steps of the pool as the ledger sees them. *)
Quiet == OwnKept /\ DueKept /\ VaultKept

Deposited(a, n) ==
    /\ OwnMoves(a, 0 - n) /\ DueKept /\ registered' = registered
    /\ Value(leaves', nullifiers') = Value(leaves, nullifiers) + n

Withdrawn(a, relayer, amount, fee) ==
    /\ OwnKept /\ registered' = registered
    /\ Value(leaves', nullifiers') = Value(leaves, nullifiers) - amount
    /\ DueOf(receipts', unclaimed')
         = [b \in Accounts |->
              DueOf(receipts, unclaimed)[b] + (IF b = a THEN amount - fee ELSE 0)
                                            + (IF b = relayer THEN fee ELSE 0)]

PaidTo(a, n) ==
    /\ OwnMoves(a, n) /\ DueMoves(a, 0 - n) /\ VaultKept /\ registered' = registered
    /\ balance'[a] - balance[a] = n

Burnt(a, n) == OwnMoves(a, 0 - n) /\ DueKept /\ VaultKept /\ registered' = registered

LEMMA StepsOfTheLedger ==
    ASSUME Ready, Books, Next
    PROVE  \/ Quiet /\ registered' = registered
           \/ \E a \in Accounts :
                 /\ Quiet
                 /\ registered' = registered \cup {a} \/ registered' = registered \ {a}
           \/ \E a \in Accounts, n \in Nat : Deposited(a, n)
           \/ \E a, relayer \in Accounts, amount, fee \in Nat :
                 fee <= amount /\ Withdrawn(a, relayer, amount, fee)
           \/ \E a \in registered, n \in Nat \ {0} : PaidTo(a, n)
           \/ \E a \in Accounts \ registered, n \in Nat : Burnt(a, n)
<1>1. ASSUME NEW value \in BOOLEAN, SetPaused(value)
      PROVE  Quiet /\ registered' = registered
    BY <1>1 DEF SetPaused, tokenVars, Quiet, OwnKept, DueKept, VaultKept
<1>2. ASSUME NEW a \in Accounts, Register(a)
      PROVE  Quiet /\ registered' = registered \cup {a}
    BY <1>2 DEF Register, poolVars, Quiet, OwnKept, DueKept, VaultKept
<1>3. ASSUME NEW a \in Accounts, Unregister(a)
      PROVE  Quiet /\ registered' = registered \ {a}
    BY <1>3 DEF Unregister, poolVars, Quiet, OwnKept, DueKept, VaultKept
<1>4. ASSUME NEW a \in Accounts, Claim(a)
      PROVE  Quiet /\ registered' = registered
    <2>1. registered' = registered
        BY <1>4 DEF Claim, tokenVars
    <2>. QED BY <1>4, <2>1, ClaimIsQuiet DEF Quiet
<1>5. ASSUME NEW a \in Accounts, NEW amount \in Amounts, NEW valid \in BOOLEAN,
             FtTransferCall(a, amount, valid)
      PROVE  Quiet /\ registered' = registered
    <2>1. registered' = registered
        BY <1>5 DEF FtTransferCall
    <2>. QED BY <1>5, <2>1, SendingIsQuiet DEF Quiet
<1>6. ASSUME NEW root \in DOMAIN leaves, NEW i \in DOMAIN leaves, NEW j \in DOMAIN leaves,
             NEW out0 \in Amounts, NEW out1 \in Amounts, Transfer(root, i, j, out0, out1)
      PROVE  Quiet /\ registered' = registered
    <2>1. registered' = registered
        BY <1>6 DEF Transfer, tokenVars
    <2>. QED BY <1>6, <2>1, TransferIsQuiet DEF Quiet
<1>7. ASSUME NEW root \in DOMAIN leaves, NEW i \in DOMAIN leaves,
             NEW recipient \in Accounts, NEW relayer \in Accounts,
             NEW amount \in Amounts, NEW fee \in Amounts, NEW leftover \in LeftoverGas,
             Withdraw(root, i, recipient, amount, relayer, fee, leftover)
      PROVE  /\ amount \in Nat /\ fee \in Nat /\ fee <= amount
             /\ Withdrawn(recipient, relayer, amount, fee)
    <2>1. amount \in Nat /\ fee \in Nat /\ fee <= amount
        BY <1>7, ContractAssumption DEF Amounts, Withdraw
    <2>. QED BY <1>7, <2>1, WithdrawalMoves DEF Withdrawn
<1>8. ASSUME NEW id \in ReceiptIds, FtOnTransfer(id)
      PROVE  \/ Quiet /\ registered' = registered
             \/ \E a \in Accounts, n \in Nat : Deposited(a, n)
    BY <1>8, DepositMoves DEF Quiet, Deposited
<1>9. ASSUME NEW id \in ReceiptIds, FtResolveTransfer(id)
      PROVE  \/ Quiet /\ registered' = registered
             \/ \E a \in Accounts \ registered, n \in Nat : Burnt(a, n)
    BY <1>9, RefundMoves DEF Quiet, Burnt
<1>10. ASSUME NEW id \in ReceiptIds, PayFtWithRecovery(id)
       PROVE  Quiet /\ registered' = registered
    <2>1. registered' = registered
        BY <1>10 DEF PayFtWithRecovery, tokenVars
    <2>. QED BY <1>10, <2>1, PayFtIsQuiet DEF Quiet
<1>11. ASSUME NEW id \in ReceiptIds, FtTransfer(id)
       PROVE  \/ Quiet /\ registered' = registered
              \/ \E a \in registered, n \in Nat \ {0} : PaidTo(a, n)
    BY <1>11, PayoutMoves DEF Quiet, PaidTo
<1>12. ASSUME NEW id \in ReceiptIds, OnFtTransferComplete(id)
       PROVE  Quiet /\ registered' = registered
    <2>1. registered' = registered
        BY <1>12 DEF OnFtTransferComplete, tokenVars
    <2>. QED BY <1>12, <2>1, CompletionIsQuiet DEF Quiet
<1>13. CASE \E value \in BOOLEAN : SetPaused(value)
    BY <1>1, <1>13
<1>14. CASE \E a \in Accounts : Register(a) \/ Unregister(a) \/ Claim(a)
    BY <1>2, <1>3, <1>4, <1>14
<1>15. CASE \E a \in Accounts, amount \in Amounts, valid \in BOOLEAN :
               FtTransferCall(a, amount, valid)
    BY <1>5, <1>15
<1>16. CASE Spend
    <2>1. PICK root \in DOMAIN leaves, i \in DOMAIN leaves :
             \/ \E j \in DOMAIN leaves, out0 \in Amounts, out1 \in Amounts :
                   Transfer(root, i, j, out0, out1)
             \/ \E recipient \in Accounts, relayer \in Accounts, amount \in Amounts,
                   fee \in Amounts, leftover \in LeftoverGas :
                   Withdraw(root, i, recipient, amount, relayer, fee, leftover)
        BY <1>16 DEF Spend
    <2>2. CASE \E j \in DOMAIN leaves, out0 \in Amounts, out1 \in Amounts :
                 Transfer(root, i, j, out0, out1)
        BY <1>6, <2>2
    <2>3. CASE \E recipient \in Accounts, relayer \in Accounts, amount \in Amounts,
                 fee \in Amounts, leftover \in LeftoverGas :
                 Withdraw(root, i, recipient, amount, relayer, fee, leftover)
        <3>1. PICK recipient \in Accounts, relayer \in Accounts, amount \in Amounts,
                   fee \in Amounts, leftover \in LeftoverGas :
                 Withdraw(root, i, recipient, amount, relayer, fee, leftover)
            BY <2>3
        <3>2. /\ amount \in Nat /\ fee \in Nat /\ fee <= amount
              /\ Withdrawn(recipient, relayer, amount, fee)
            BY <1>7, <3>1
        <3>. QED BY <3>2
    <2>. QED BY <2>1, <2>2, <2>3
<1>17. CASE \E id \in ReceiptIds : ExecuteReceipt(id)
    BY <1>8, <1>9, <1>10, <1>11, <1>12, <1>17, Zenon DEF ExecuteReceipt
<1>. QED BY <1>13, <1>14, <1>15, <1>16, <1>17, Zenon DEF Next

(* Such a step is one of the ledger's, or none. *)
LEMMA LedgerStep ==
    ASSUME Ready, Books, Next, TypeOK'
    PROVE  Ledger!LedgerNext \/ (Quiet /\ registered' = registered)
<1>. DEFINE W == OwnOf(balance, receipts)
            W2 == OwnOf(balance', receipts')
            D == DueOf(receipts, unclaimed)
            D2 == DueOf(receipts', unclaimed')
            V == Value(leaves, nullifiers)
            V2 == Value(leaves', nullifiers')
<1>1. /\ [a \in Accounts |-> balance[a] + PendingDeposits(a)] = W
      /\ [a \in Accounts |-> balance[a] + PendingDeposits(a)]' = W2
      /\ ShieldedValue = V /\ ShieldedValue' = V2
      /\ [a \in Accounts |-> Due(a)] = D /\ [a \in Accounts |-> Due(a)]' = D2
    BY LedgerReads, LedgerReadsNext
<1>2. /\ W \in [Accounts -> Nat] /\ D \in [Accounts -> Nat] /\ V \in Nat
      /\ W2 \in [Accounts -> Nat] /\ D2 \in [Accounts -> Nat] /\ V2 \in Nat
    <2>1. /\ leaves' \in Seq(Nat) /\ receipts' \in [ReceiptIds -> Receipt]
          /\ unclaimed' \in [Accounts -> Nat] /\ balance' \in [Accounts \cup {Pool} -> Nat]
        BY DEF TypeOK
    <2>2. W2 \in [Accounts -> Nat] /\ D2 \in [Accounts -> Nat] /\ V2 \in Nat
        BY <2>1, LedgerTypes, ValueType
    <2>. QED BY <2>2, ReadyTypes, ValueType
<1>3. ASSUME NEW a \in Accounts, Quiet,
             registered' = registered \cup {a} \/ registered' = registered \ {a}
      PROVE  Ledger!LedgerNext
    <2>1. Ledger!OpenAccount(a) \/ Ledger!CloseAccount(a)
        BY <1>1, <1>3 DEF Ledger!OpenAccount, Ledger!CloseAccount, Quiet, OwnKept, DueKept, VaultKept
    <2>. QED BY <2>1 DEF Ledger!LedgerNext
<1>4. ASSUME NEW a \in Accounts, NEW n \in Nat, OwnMoves(a, 0 - n)
      PROVE  /\ n <= W[a] /\ W2 = [W EXCEPT ![a] = @ - n]
             /\ n = 0 => OwnKept
    <2>1. W2 = [W EXCEPT ![a] = W[a] + (0 - n)]
        BY <1>4 DEF OwnMoves, Shifted
    <2>. HIDE DEF W, W2
    <2>2. W[a] + (0 - n) = W[a] - n
        BY <1>2
    <2>3. W2 = [W EXCEPT ![a] = W[a] - n]
        BY <2>1, <2>2
    <2>4. W2[a] = W[a] - n
        BY <1>2, <2>3
    <2>5. n <= W[a]
        BY <1>2, <2>4
    <2>6. n = 0 => W2 = W
        <3>1. n = 0 => W[a] - n = W[a]
            BY <1>2
        <3>. QED BY <1>2, <2>3, <3>1
    <2>. QED BY <2>3, <2>5, <2>6 DEF OwnKept, W, W2
<1>5. ASSUME NEW a \in Accounts, NEW n \in Nat, Deposited(a, n)
      PROVE  Ledger!LedgerNext \/ (Quiet /\ registered' = registered)
    <2>1. /\ n <= W[a] /\ W2 = [W EXCEPT ![a] = @ - n]
          /\ n = 0 => OwnKept
        BY <1>4, <1>5 DEF Deposited
    <2>2. V2 = V + n /\ D2 = D /\ registered' = registered
        BY <1>5 DEF Deposited, DueKept
    <2>. HIDE DEF W, W2, V, V2, D, D2
    <2>3. CASE n = 0
        <3>1. V2 = V
            BY <1>2, <2>2, <2>3
        <3>. QED BY <1>5, <2>1, <2>2, <2>3, <3>1 DEF Quiet, Deposited, VaultKept, V, V2
    <2>4. CASE n # 0
        <3>1. 0 < n /\ n \in 1 .. W[a]
            BY <1>2, <2>1, <2>4
        <3>2. Ledger!Deposit(a, n)
            BY <1>1, <2>1, <2>2, <3>1 DEF Ledger!Deposit
        <3>. QED BY <1>1, <3>1, <3>2 DEF Ledger!LedgerNext
    <2>. QED BY <2>3, <2>4
<1>6. ASSUME NEW a \in Accounts \ registered, NEW n \in Nat, Burnt(a, n)
      PROVE  Ledger!LedgerNext \/ (Quiet /\ registered' = registered)
    <2>1. /\ n <= W[a] /\ W2 = [W EXCEPT ![a] = @ - n]
          /\ n = 0 => OwnKept
        BY <1>4, <1>6 DEF Burnt
    <2>2. V2 = V /\ D2 = D /\ registered' = registered
        BY <1>6 DEF Burnt, DueKept, VaultKept
    <2>. HIDE DEF W, W2, V, V2, D, D2
    <2>3. CASE n = 0
        BY <1>6, <2>1, <2>2, <2>3 DEF Quiet, Burnt
    <2>4. CASE n # 0
        <3>1. 0 < n /\ n \in 1 .. W[a]
            BY <1>2, <2>1, <2>4
        <3>2. Ledger!Forfeit(a, n)
            BY <1>1, <2>1, <2>2, <3>1 DEF Ledger!Forfeit
        <3>. QED BY <1>1, <3>1, <3>2 DEF Ledger!LedgerNext
    <2>. QED BY <2>3, <2>4
<1>7. ASSUME NEW a \in registered, NEW n \in Nat \ {0}, PaidTo(a, n)
      PROVE  Ledger!LedgerNext
    <2>0. a \in Accounts
        BY ReadyTypes
    <2>1. W2 = [W EXCEPT ![a] = W[a] + n] /\ D2 = [D EXCEPT ![a] = D[a] + (0 - n)]
        BY <1>7 DEF PaidTo, OwnMoves, DueMoves, Shifted
    <2>2. V2 = V /\ registered' = registered
        BY <1>7 DEF PaidTo, VaultKept
    <2>. HIDE DEF W, W2, V, V2, D, D2
    <2>3. D[a] + (0 - n) = D[a] - n /\ D2[a] = D[a] + (0 - n)
        BY <1>2, <2>0, <2>1
    <2>4. 0 < n /\ n <= D[a] /\ n \in 1 .. D[a]
        BY <1>2, <2>0, <2>3
    <2>5. D2 = [D EXCEPT ![a] = D[a] - n]
        BY <2>1, <2>3
    <2>6. Ledger!Pay(a, n)
        BY <1>1, <2>1, <2>2, <2>4, <2>5 DEF Ledger!Pay
    <2>. QED BY <1>1, <2>0, <2>4, <2>6 DEF Ledger!LedgerNext
<1>8. ASSUME NEW a \in Accounts, NEW relayer \in Accounts, NEW amount \in Nat, NEW fee \in Nat,
             fee <= amount, Withdrawn(a, relayer, amount, fee)
      PROVE  Ledger!LedgerNext
    <2>1. /\ W2 = W /\ V2 = V - amount /\ registered' = registered
          /\ D2 = [b \in Accounts |-> D[b] + (IF b = a THEN amount - fee ELSE 0)
                                           + (IF b = relayer THEN fee ELSE 0)]
        BY <1>8 DEF Withdrawn, OwnKept
    <2>. HIDE DEF W, W2, V, V2, D, D2
    <2>2. amount <= V /\ amount \in 0 .. V /\ fee \in 0 .. amount
        BY <1>2, <1>8, <2>1
    <2>3. Ledger!Withdraw(a, relayer, amount, fee)
        BY <1>1, <1>8, <2>1, <2>2 DEF Ledger!Withdraw
    <2>. QED BY <1>1, <2>2, <2>3 DEF Ledger!LedgerNext
<1>. QED BY <1>3, <1>5, <1>6, <1>7, <1>8, StepsOfTheLedger, Zenon

(* The pool is the public ledger: in any interleaving of calls, receipts   *)
(* and pauses, tokens reach the vault only from the depositor's own, what  *)
(* a withdrawal owes is exactly the note, and what is owed ends only in    *)
(* the wallet it is owed to, through failed transfers, recovery entries    *)
(* and failed claims (deposit.rs, transfer.rs, withdraw.rs, claim.rs).     *)
THEOREM LedgerImplemented ==
    ASSUME EnoughGas
    PROVE  Spec => ImplementsLedger
<1>. DEFINE columns == <<[a \in Accounts |-> balance[a] + PendingDeposits(a)], ShieldedValue,
                         [a \in Accounts |-> Due(a)], registered>>
<1>1. Init => Ledger!LedgerInit
    <2>. SUFFICES ASSUME Init PROVE Ledger!LedgerInit
        OBVIOUS
    <2>1. \A a \in Accounts : /\ SumFunction(PendingOf(receipts, a)) = 0
                              /\ SumFunction(PayoutOf(receipts, a)) = 0
        BY NothingInFlight
    <2>2. OwnOf(balance, receipts) = InitialBalance
        <3>1. \A a \in Accounts : balance[a] = InitialBalance[a] /\ InitialBalance[a] \in Nat
            BY AccountsAssumption DEF Init
        <3>2. \A a \in Accounts : balance[a] + SumFunction(PendingOf(receipts, a)) = InitialBalance[a]
            BY <2>1, <3>1
        <3>3. InitialBalance = [a \in Accounts |-> InitialBalance[a]]
            BY AccountsAssumption
        <3>. QED BY <3>2, <3>3 DEF OwnOf
    <2>3. DueOf(receipts, unclaimed) = [a \in Accounts |-> 0]
        <3>1. \A a \in Accounts : unclaimed[a] = 0
            BY DEF Init
        <3>2. \A a \in Accounts : unclaimed[a] + SumFunction(PayoutOf(receipts, a)) = 0
            BY <2>1, <3>1
        <3>. QED BY <3>2 DEF DueOf
    <2>4. Value(leaves, nullifiers) = 0
        BY NoNotes
    <2>5. registered \in SUBSET Accounts
        BY DEF Init
    <2>. QED BY <2>2, <2>3, <2>4, <2>5, LedgerReads DEF Ledger!LedgerInit
<1>2. TypeOK /\ TypeOK' /\ (PayeesKnown /\ GasKnown) /\ Books /\ [Next]_vars
        => [Ledger!LedgerNext]_columns
    <2>. SUFFICES ASSUME Ready, TypeOK', Books, [Next]_vars
                  PROVE  Ledger!LedgerNext \/ columns' = columns
        BY DEF Ready
    <2>1. ASSUME Quiet, registered' = registered PROVE columns' = columns
        BY <2>1, LedgerReads, LedgerReadsNext DEF Quiet, OwnKept, DueKept, VaultKept
    <2>2. CASE UNCHANGED vars
        BY <2>1, <2>2 DEF vars, Quiet, OwnKept, DueKept, VaultKept
    <2>3. CASE Next
        BY <2>1, <2>3, LedgerStep
    <2>. QED BY <2>2, <2>3
<1>. QED BY <1>1, <1>2, TypeCorrect, ReceiptsKnown, BooksBalance, PTL
         DEF Spec, ImplementsLedger, Ledger!LedgerSpec, Ledger!ledgerVars

(* What the pool owes an account shrinks by what the account is paid and   *)
(* by nothing else, which is what withdraw.rs gives its callback for.      *)
THEOREM PayoutsAreNeverLost ==
    ASSUME EnoughGas
    PROVE  Spec => PayoutNeverLost
<1>. DEFINE Kept == \A a \in Accounts :
                       Due(a)' < Due(a) => balance'[a] - balance[a] = Due(a) - Due(a)'
<1>1. TypeOK /\ TypeOK' /\ (PayeesKnown /\ GasKnown) /\ Books /\ [Next]_vars => [Kept]_vars
    <2>. SUFFICES ASSUME Ready, TypeOK', Books, Next, NEW b \in Accounts, Due(b)' < Due(b)
                  PROVE  balance'[b] - balance[b] = Due(b) - Due(b)'
        BY DEF Ready
    <2>. DEFINE D == DueOf(receipts, unclaimed)
                D2 == DueOf(receipts', unclaimed')
    <2>1. Due(b) = D[b] /\ Due(b)' = D2[b]
        BY LedgerReads, LedgerReadsNext
    <2>2. D \in [Accounts -> Nat]
        BY ReadyTypes
    <2>3. ~DueKept
        BY <2>1, <2>2 DEF DueKept
    <2>4. ASSUME NEW a \in Accounts, NEW relayer \in Accounts, NEW amount \in Nat, NEW fee \in Nat,
                 fee <= amount, Withdrawn(a, relayer, amount, fee)
          PROVE  FALSE
        <3>1. D2 = [c \in Accounts |-> D[c] + (IF c = a THEN amount - fee ELSE 0)
                                            + (IF c = relayer THEN fee ELSE 0)]
            BY <2>4 DEF Withdrawn
        <3>. HIDE DEF D, D2
        <3>. QED BY <2>1, <2>2, <2>4, <3>1
    <2>5. PICK a \in registered, n \in Nat \ {0} : PaidTo(a, n)
        BY <2>3, <2>4, StepsOfTheLedger DEF Quiet, Deposited, Burnt
    <2>6. D2 = [D EXCEPT ![a] = D[a] + (0 - n)] /\ balance'[a] - balance[a] = n
        BY <2>5 DEF PaidTo, DueMoves, Shifted
    <2>. HIDE DEF D, D2
    <2>7. b = a
        BY <2>1, <2>2, <2>6
    <2>. QED BY <2>1, <2>2, <2>6, <2>7
<1>. QED BY <1>1, TypeCorrect, ReceiptsKnown, BooksBalance, PTL DEF Spec, PayoutNeverLost
================================================================================

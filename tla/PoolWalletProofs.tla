--------------------------- MODULE PoolWalletProofs ---------------------------
(***************************************************************************)
(* Theorems about PoolWallet: for any users, auditors, clients, flows at a *)
(* time, window and capacity, and whichever answers are lost.              *)
(***************************************************************************)
EXTENDS PoolWallet, OperatorProofs

------------------------------------------------------------------------------
(* Types. *)

Methods == {"deposit", "transfer", "withdraw"}

NoteSet == [amount : Nat, owner : Users, auditor : Auditors]

FoundNote == [leafIndex : Nat, note : NoteSet]

NoteCt == [holder : Users, payload : NoteSet]

LeafCt == [leafIndex : Nat, sealed : NoteCt]

ViewCt == [ holder : Auditors,
            payload : [ action : Methods, sender : Users, recipient : Users \cup {"account"},
                        amounts : Seq(Nat) ] ]

EventSet == [ method : Methods, spends : Seq(Nat), amount : Nat, viewCts : Seq(ViewCt),
              noteCts : Seq(LeafCt) ]

WalletSet == WalletsOf(FoundNote, Nat)

LEMMA BoundsAreNat ==
    /\ DepositAmounts \subseteq Nat /\ Amounts \subseteq Nat /\ FeeUsdcBase \in Nat
    /\ ROOTS_WINDOW \in Nat \ {0} /\ TreeCapacity \in Nat
BY BoundsAssumption

------------------------------------------------------------------------------
(* The transactions a user's wallet builds. *)

BuiltDeposit(u, tx) ==
    \E amount \in DepositAmounts, a \in Auditors : tx = BuildDeposit(u, amount, a)

BuiltTransfer(u, tx) ==
    \E i, j \in FoundNote, root \in Nat, amount \in Amounts, v \in Users, a \in Auditors :
        /\ amount <= i.note.amount + j.note.amount
        /\ tx = BuildTransfer(u, <<i, j>>, root, amount, v, a)

BuiltWithdraw(u, tx) ==
    \E i \in FoundNote, root \in Nat, amount \in Amounts, fee \in 0 .. FeeUsdcBase :
        tx = BuildWithdraw(u, i, root, amount, "account", fee)

BuiltBy(u, tx) == BuiltDeposit(u, tx) \/ BuiltTransfer(u, tx) \/ BuiltWithdraw(u, tx)

(* Every note created is sealed to its owner. *)
TxShape(tx) ==
    /\ tx.method \in Methods /\ tx.root \in Nat /\ tx.amount \in Nat
    /\ tx.spends \in Seq(Nat) /\ tx.creates \in Seq(NoteSet)
    /\ tx.viewCts \in Seq(ViewCt) /\ tx.noteCts \in Seq(NoteCt)
    /\ Len(tx.noteCts) = Len(tx.creates)
    /\ \A k \in DOMAIN tx.creates : tx.noteCts[k] = Sealed(tx.creates[k].owner, tx.creates[k])

LEMMA DepositShape ==
    ASSUME NEW u \in Users, NEW tx, BuiltDeposit(u, tx)
    PROVE  TxShape(tx) /\ tx.method = "deposit" /\ tx.spends = <<>> /\ Len(tx.creates) = 1
<1>1. PICK amount \in DepositAmounts, a \in Auditors : tx = BuildDeposit(u, amount, a)
    BY DEF BuiltDeposit
<1>. DEFINE note == Note(amount, u, a)
            view == Sealed(a, Disclosure("deposit", u, u, <<amount>>))
<1>2. note \in NoteSet /\ amount \in Nat /\ note.owner = u
    BY BoundsAreNat DEF Note, NoteSet
<1>3. Sealed(u, note) \in NoteCt /\ view \in ViewCt
    BY <1>2 DEF Sealed, NoteCt, ViewCt, Disclosure, Methods
<1>4. /\ tx.method = "deposit" /\ tx.root = 0 /\ tx.amount = amount /\ tx.spends = <<>>
      /\ tx.creates = <<note>> /\ tx.viewCts = <<view>> /\ tx.noteCts = <<Sealed(u, note)>>
    BY <1>1 DEF BuildDeposit
<1>. HIDE DEF note, view
<1>5. \A k \in DOMAIN tx.creates : tx.noteCts[k] = Sealed(tx.creates[k].owner, tx.creates[k])
    BY <1>2, <1>4
<1>. QED BY <1>2, <1>3, <1>4, <1>5 DEF TxShape, Methods

LEMMA TransferShape ==
    ASSUME NEW u \in Users, NEW tx, BuiltTransfer(u, tx)
    PROVE  TxShape(tx) /\ tx.method = "transfer" /\ Len(tx.spends) = 2 /\ Len(tx.creates) = 2
<1>1. PICK i \in FoundNote, j \in FoundNote, root \in Nat, amount \in Amounts, v \in Users, a \in Auditors :
        /\ amount <= i.note.amount + j.note.amount
        /\ tx = BuildTransfer(u, <<i, j>>, root, amount, v, a)
    BY DEF BuiltTransfer
<1>. DEFINE rest == i.note.amount + j.note.amount - amount
            b == i.note.auditor
            out == Note(amount, v, a)
            change == Note(rest, u, b)
            told == Disclosure("transfer", u, v, <<amount, rest>>)
<1>2. rest \in Nat /\ b \in Auditors /\ amount \in Nat /\ i.leafIndex \in Nat /\ j.leafIndex \in Nat
    BY <1>1, BoundsAreNat DEF FoundNote, NoteSet
<1>3. /\ tx.method = "transfer" /\ tx.root = root /\ tx.amount = 0
      /\ tx.spends = <<i.leafIndex, j.leafIndex>> /\ tx.creates = <<out, change>>
      /\ tx.viewCts = <<Sealed(b, told), Sealed(a, told)>>
      /\ tx.noteCts = <<Sealed(v, out), Sealed(u, change)>>
    <2>1. i.note.amount \in Nat /\ j.note.amount \in Nat
        BY DEF FoundNote, NoteSet
    <2>. QED BY <1>1, <1>2, <2>1 DEF BuildTransfer
<1>. HIDE DEF rest, b
<1>4. /\ out \in NoteSet /\ out.owner = v /\ change \in NoteSet /\ change.owner = u
      /\ Sealed(v, out) \in NoteCt /\ Sealed(u, change) \in NoteCt
    BY <1>2 DEF Note, NoteSet, NoteCt, Sealed
<1>5. Sealed(b, told) \in ViewCt /\ Sealed(a, told) \in ViewCt
    <2>1. <<amount, rest>> \in Seq(Nat)
        BY <1>2
    <2>. QED BY <1>2, <2>1 DEF Disclosure, ViewCt, Sealed, Methods
<1>. HIDE DEF out, change, told
<1>6. \A k \in DOMAIN tx.creates : tx.noteCts[k] = Sealed(tx.creates[k].owner, tx.creates[k])
    BY <1>3, <1>4
<1>. QED BY <1>2, <1>3, <1>4, <1>5, <1>6 DEF TxShape, Methods

LEMMA WithdrawShape ==
    ASSUME NEW u \in Users, NEW tx, BuiltWithdraw(u, tx)
    PROVE  TxShape(tx) /\ tx.method = "withdraw" /\ Len(tx.spends) = 1 /\ tx.creates = <<>>
<1>1. PICK i \in FoundNote, root \in Nat, amount \in Amounts, fee \in 0 .. FeeUsdcBase :
        tx = BuildWithdraw(u, i, root, amount, "account", fee)
    BY DEF BuiltWithdraw
<1>. DEFINE told == Disclosure("withdraw", u, "account", <<amount, fee>>)
            b == i.note.auditor
<1>2. b \in Auditors /\ amount \in Nat /\ fee \in Nat /\ i.leafIndex \in Nat
    BY BoundsAreNat DEF FoundNote, NoteSet
<1>3. /\ tx.method = "withdraw" /\ tx.root = root /\ tx.amount = amount
      /\ tx.spends = <<i.leafIndex>> /\ tx.creates = <<>>
      /\ tx.viewCts = <<Sealed(b, told)>> /\ tx.noteCts = <<>>
    BY <1>1 DEF BuildWithdraw
<1>. HIDE DEF b
<1>4. Sealed(b, told) \in ViewCt
    <2>1. <<amount, fee>> \in Seq(Nat)
        BY <1>2
    <2>. QED BY <1>2, <2>1 DEF Disclosure, ViewCt, Sealed, Methods
<1>. HIDE DEF told
<1>. QED BY <1>2, <1>3, <1>4 DEF TxShape, Methods

LEMMA BuiltShape ==
    ASSUME NEW u \in Users, NEW tx, BuiltBy(u, tx)
    PROVE  /\ TxShape(tx)
           /\ tx.method = "deposit" => tx.spends = <<>> /\ Len(tx.creates) = 1
           /\ tx.method = "transfer" => Len(tx.spends) = 2 /\ Len(tx.creates) = 2
           /\ tx.method = "withdraw" => Len(tx.spends) = 1 /\ tx.creates = <<>>
BY DepositShape, TransferShape, WithdrawShape DEF BuiltBy

(* What the builders are given is in the wallet. *)
LEMMA TransferIsBuilt ==
    ASSUME NEW u \in Users, NEW w \in WalletSet, NEW root \in Nat, NEW amount \in Amounts,
           NEW v \in Users, NEW a \in Auditors, TransferPairs(w, amount) # {}
    PROVE  BuiltBy(u, BuildTransfer(u, FindTransferInputs(w, amount), root, amount, v, a))
<1>1. PICK p \in TransferPairs(w, amount) :
        FindTransferInputs(w, amount) = <<w.notes[p[1]], w.notes[p[2]]>>
    BY TransferInputsAreAPair DEF WalletSet, WalletsOf
<1>2. /\ p[1] \in DOMAIN w.notes /\ p[2] \in DOMAIN w.notes
      /\ w.notes[p[1]].note.amount + w.notes[p[2]].note.amount >= amount
    BY DEF TransferPairs
<1>3. w.notes[p[1]] \in FoundNote /\ w.notes[p[2]] \in FoundNote
    BY <1>2 DEF WalletSet, WalletsOf
<1>. DEFINE i == w.notes[p[1]]
            j == w.notes[p[2]]
<1>4. i \in FoundNote /\ j \in FoundNote /\ amount <= i.note.amount + j.note.amount
    <2>1. i.note.amount \in Nat /\ j.note.amount \in Nat /\ amount \in Nat
        BY <1>3, BoundsAreNat DEF FoundNote, NoteSet
    <2>. QED BY <1>2, <1>3, <2>1
<1>5. BuildTransfer(u, FindTransferInputs(w, amount), root, amount, v, a)
        = BuildTransfer(u, <<i, j>>, root, amount, v, a)
    BY <1>1
<1>. HIDE DEF i, j
<1>. QED BY <1>4, <1>5 DEF BuiltBy, BuiltTransfer

LEMMA WithdrawIsBuilt ==
    ASSUME NEW u \in Users, NEW w \in WalletSet, NEW root \in Nat, NEW amount \in Amounts,
           NEW fee \in 0 .. FeeUsdcBase, WithdrawNotes(w, amount) # {}
    PROVE  BuiltBy(u, BuildWithdraw(u, FindWithdrawNote(w, amount), root, amount, "account", fee))
<1>1. PICK k \in WithdrawNotes(w, amount) : FindWithdrawNote(w, amount) = w.notes[k]
    BY WithdrawNoteIsOne DEF WalletSet, WalletsOf
<1>2. w.notes[k] \in FoundNote
    BY DEF WithdrawNotes, WalletSet, WalletsOf
<1>. QED BY <1>1, <1>2 DEF BuiltBy, BuiltWithdraw

------------------------------------------------------------------------------
(* The local tree's growth. *)

Taken(tree, leaf) == IF leaf \in Range(tree) THEN tree ELSE Append(tree, leaf)

AreGrowths(f, tree, cts, n) ==
    f = [k \in 0 .. n |-> IF k = 0 THEN tree ELSE Taken(f[k - 1], cts[k].leafIndex)]

LEMMA AreGrowthsExist ==
    ASSUME NEW tree, NEW cts
    PROVE  \A m \in Nat : \E f : AreGrowths(f, tree, cts, m)
<1>. DEFINE Good == {n \in Nat : \E f : AreGrowths(f, tree, cts, n)}
<1>1. 0 \in Good
    <2>. DEFINE f == [k \in 0 .. 0 |-> tree]
    <2>1. AreGrowths(f, tree, cts, 0)
        BY DEF AreGrowths
    <2>. QED BY <2>1
<1>2. ASSUME NEW n \in Good PROVE n + 1 \in Good
    <2>1. PICK f : AreGrowths(f, tree, cts, n)
        OBVIOUS
    <2>. DEFINE g == [k \in 0 .. n + 1 |-> IF k = 0 THEN tree ELSE Taken(f[k - 1], cts[k].leafIndex)]
    <2>2. \A k \in 0 .. n : g[k] = f[k]
        BY <2>1 DEF AreGrowths
    <2>3. \A k \in 0 .. n + 1 : g[k] = IF k = 0 THEN tree ELSE Taken(g[k - 1], cts[k].leafIndex)
        <3>1. \A k \in 0 .. n + 1 : k = 0 \/ k - 1 \in 0 .. n
            OBVIOUS
        <3>. QED BY <2>2, <3>1
    <2>4. g = [k \in 0 .. n + 1 |-> g[k]]
        OBVIOUS
    <2>. HIDE DEF g
    <2>5. AreGrowths(g, tree, cts, n + 1)
        BY <2>3, <2>4 DEF AreGrowths
    <2>. QED BY <2>5
<1>3. Good = Nat
    <2>1. Good \in SUBSET Nat
        OBVIOUS
    <2>. HIDE DEF Good
    <2>. QED BY <1>1, <1>2, <2>1, NatSetInduction
<1>. QED BY <1>3

(* f is the growth of a tree step by step. *)
GrowsBy(f, tree, cts) ==
    /\ Grown(tree, cts) = f[Len(cts)] /\ f[0] = tree
    /\ \A k \in 1 .. Len(cts) : f[k] = Taken(f[k - 1], cts[k].leafIndex)

LEMMA GrownStep ==
    ASSUME NEW tree, NEW cts, Len(cts) \in Nat
    PROVE  \E f : GrowsBy(f, tree, cts)
<1>. DEFINE f == CHOOSE f : AreGrowths(f, tree, cts, Len(cts))
<1>1. Grown(tree, cts) = f[Len(cts)]
    BY DEF Grown, AreGrowths, Taken
<1>2. AreGrowths(f, tree, cts, Len(cts))
    BY AreGrowthsExist
<1>. HIDE DEF f
<1>3. 0 \in 0 .. Len(cts) /\ \A k \in 1 .. Len(cts) : k \in 0 .. Len(cts) /\ k # 0
    OBVIOUS
<1>4. f[0] = tree /\ \A k \in 1 .. Len(cts) : f[k] = Taken(f[k - 1], cts[k].leafIndex)
    BY <1>2, <1>3 DEF AreGrowths
<1>5. GrowsBy(f, tree, cts)
    BY <1>1, <1>4 DEF GrowsBy
<1>. QED BY <1>5

(* A tree begins as another one does. *)
Begins(tree, longer) ==
    Len(tree) <= Len(longer) /\ \A k \in 1 .. Len(tree) : longer[k] = tree[k]

LEMMA BeginsReflexive == ASSUME NEW tree \in Seq(Nat) PROVE Begins(tree, tree)
BY DEF Begins

LEMMA BeginsTransitive ==
    ASSUME NEW a \in Seq(Nat), NEW b \in Seq(Nat), NEW c \in Seq(Nat), Begins(a, b), Begins(b, c)
    PROVE  Begins(a, c)
<1>1. Len(a) \in Nat /\ Len(b) \in Nat /\ Len(c) \in Nat
    OBVIOUS
<1>2. \A k \in 1 .. Len(a) : k \in 1 .. Len(b)
    BY <1>1 DEF Begins
<1>. QED BY <1>1, <1>2 DEF Begins

LEMMA TakenGrows ==
    ASSUME NEW tree \in Seq(Nat), NEW leaf \in Nat
    PROVE  /\ Taken(tree, leaf) \in Seq(Nat)
           /\ Begins(tree, Taken(tree, leaf))
           /\ Range(Taken(tree, leaf)) = Range(tree) \cup {leaf}
<1>1. CASE leaf \in Range(tree)
    BY <1>1 DEF Taken, Begins
<1>2. CASE leaf \notin Range(tree)
    <2>. DEFINE t == Append(tree, leaf)
    <2>1. /\ t \in Seq(Nat) /\ Len(t) = Len(tree) + 1 /\ t[Len(tree) + 1] = leaf
          /\ \A k \in 1 .. Len(tree) : t[k] = tree[k]
          /\ DOMAIN t = 1 .. Len(tree) + 1 /\ DOMAIN tree = 1 .. Len(tree) /\ Len(tree) \in Nat
        OBVIOUS
    <2>2. Taken(tree, leaf) = t
        BY <1>2 DEF Taken
    <2>. HIDE DEF t
    <2>3. \A k \in 1 .. Len(tree) + 1 : k \in 1 .. Len(tree) \/ k = Len(tree) + 1
        BY <2>1
    <2>4. Range(t) = Range(tree) \cup {leaf}
        BY <2>1, <2>3 DEF Range
    <2>. QED BY <2>1, <2>2, <2>4 DEF Begins
<1>. QED BY <1>1, <1>2

(* Whatever the log, the tree keeps what it has and takes the log's leaves *)
(* (pool-client.ts, ingest). *)
LEMMA GrownGrows ==
    ASSUME NEW tree \in Seq(Nat), NEW cts, Len(cts) \in Nat,
           \A k \in 1 .. Len(cts) : cts[k].leafIndex \in Nat
    PROVE  /\ Grown(tree, cts) \in Seq(Nat)
           /\ Begins(tree, Grown(tree, cts))
           /\ Range(Grown(tree, cts)) = Range(tree) \cup {cts[k].leafIndex : k \in 1 .. Len(cts)}
<1>0. PICK f : GrowsBy(f, tree, cts)
    BY GrownStep, Zenon
<1>1. /\ Grown(tree, cts) = f[Len(cts)] /\ f[0] = tree
      /\ \A k \in 1 .. Len(cts) : f[k] = Taken(f[k - 1], cts[k].leafIndex)
    BY <1>0 DEF GrowsBy
<1>. DEFINE Of(n) == {cts[k].leafIndex : k \in 1 .. n}
            Good == {n \in Nat : n <= Len(cts) =>
                        f[n] \in Seq(Nat) /\ Begins(tree, f[n]) /\ Range(f[n]) = Range(tree) \cup Of(n)}
<1>2. 0 \in Good
    <2>1. Of(0) = {}
        OBVIOUS
    <2>. QED BY <1>1, <2>1, BeginsReflexive
<1>3. ASSUME NEW n \in Good PROVE n + 1 \in Good
    <2>. SUFFICES ASSUME n + 1 <= Len(cts)
                  PROVE  /\ f[n + 1] \in Seq(Nat) /\ Begins(tree, f[n + 1])
                         /\ Range(f[n + 1]) = Range(tree) \cup Of(n + 1)
        OBVIOUS
    <2>1. n + 1 \in 1 .. Len(cts) /\ cts[n + 1].leafIndex \in Nat
        OBVIOUS
    <2>2. f[n + 1] = Taken(f[n], cts[n + 1].leafIndex)
        BY <1>1, <2>1
    <2>3. f[n] \in Seq(Nat) /\ Begins(tree, f[n]) /\ Range(f[n]) = Range(tree) \cup Of(n)
        OBVIOUS
    <2>4. Of(n + 1) = Of(n) \cup {cts[n + 1].leafIndex}
        <3>1. 1 .. n + 1 = (1 .. n) \cup {n + 1}
            OBVIOUS
        <3>. QED BY <3>1
    <2>. HIDE DEF Of
    <2>. HIDE DEF Good
    <2>5. /\ f[n + 1] \in Seq(Nat) /\ Begins(f[n], f[n + 1])
          /\ Range(f[n + 1]) = Range(f[n]) \cup {cts[n + 1].leafIndex}
        <3>. DEFINE leaf == cts[n + 1].leafIndex
                    before == f[n]
        <3>1. before \in Seq(Nat) /\ leaf \in Nat /\ f[n + 1] = Taken(before, leaf)
            BY <2>1, <2>2, <2>3
        <3>. HIDE DEF leaf, before
        <3>2. /\ Taken(before, leaf) \in Seq(Nat) /\ Begins(before, Taken(before, leaf))
              /\ Range(Taken(before, leaf)) = Range(before) \cup {leaf}
            BY <3>1, TakenGrows
        <3>. QED BY <3>1, <3>2 DEF leaf, before
    <2>6. Begins(tree, f[n + 1])
        BY <2>3, <2>5, BeginsTransitive
    <2>. QED BY <2>3, <2>4, <2>5, <2>6
<1>4. Good = Nat
    <2>1. Good \in SUBSET Nat
        OBVIOUS
    <2>. HIDE DEF Good
    <2>. QED BY <1>2, <1>3, <2>1, NatSetInduction
<1>5. Len(cts) \in Good
    <2>. HIDE DEF Good
    <2>. QED BY <1>4
<1>. QED BY <1>1, <1>5

(* A tree that is the chain so far takes the log of the next leaves in     *)
(* their places. *)
Counting(n) == [k \in 1 .. n |-> k]

LEMMA GrownFollows ==
    ASSUME NEW m \in Nat, NEW cts, Len(cts) \in Nat,
           \A k \in 1 .. Len(cts) : cts[k].leafIndex = m + k
    PROVE  Grown(Counting(m), cts) = Counting(m + Len(cts))
<1>0. PICK f : GrowsBy(f, Counting(m), cts)
    BY GrownStep, Zenon
<1>1. /\ Grown(Counting(m), cts) = f[Len(cts)] /\ f[0] = Counting(m)
      /\ \A k \in 1 .. Len(cts) : f[k] = Taken(f[k - 1], cts[k].leafIndex)
    BY <1>0 DEF GrowsBy
<1>. DEFINE Good == {n \in Nat : n <= Len(cts) => f[n] = Counting(m + n)}
<1>2. 0 \in Good
    BY <1>1
<1>3. ASSUME NEW n \in Good PROVE n + 1 \in Good
    <2>. SUFFICES ASSUME n + 1 <= Len(cts) PROVE f[n + 1] = Counting(m + n + 1)
        OBVIOUS
    <2>1. f[n + 1] = Taken(Counting(m + n), m + n + 1)
        BY <1>1
    <2>. DEFINE t == Append(Counting(m + n), m + n + 1)
    <2>2. Counting(m + n) \in Seq(Nat) /\ Len(Counting(m + n)) = m + n
        BY DEF Counting
    <2>3. m + n + 1 \notin Range(Counting(m + n))
        BY DEF Counting, Range
    <2>4. f[n + 1] = t
        BY <2>1, <2>3 DEF Taken
    <2>5. t = Counting(m + n + 1)
        BY <2>2 DEF Counting
    <2>. QED BY <2>4, <2>5
<1>4. Good = Nat
    <2>1. Good \in SUBSET Nat
        OBVIOUS
    <2>. HIDE DEF Good
    <2>. QED BY <1>2, <1>3, <2>1, NatSetInduction
<1>5. Len(cts) \in Good
    <2>. HIDE DEF Good
    <2>. QED BY <1>4
<1>. QED BY <1>1, <1>5

------------------------------------------------------------------------------
(* The inductive invariant. *)

States == {"idle", "root", "proving", "answered", "ingested", "checking"}

Delivering == {"answered", "ingested"}

Task(at, user, root, tx, fits, answer, local) ==
    [at |-> at, user |-> user, root |-> root, tx |-> tx, fits |-> fits,
     answer |-> answer, local |-> local]

(* A task is a record of those fields, and stays one when it is edited.    *)
IsTask(me) == me = Task(me.at, me.user, me.root, me.tx, me.fits, me.answer, me.local)

LEMMA EditTx ==
    ASSUME NEW me, IsTask(me), NEW at, NEW tx, NEW fits
    PROVE  [me EXCEPT !.at = at, !.tx = tx, !.fits = fits]
             = Task(at, me.user, me.root, tx, fits, me.answer, me.local)
<1>. DEFINE new == [me EXCEPT !.at = at, !.tx = tx, !.fits = fits]
<1>1. DOMAIN me = {"at", "user", "root", "tx", "fits", "answer", "local"}
    BY DEF IsTask, Task
<1>2. DOMAIN new = {"at", "user", "root", "tx", "fits", "answer", "local"}
    BY <1>1
<1>3. /\ new.at = at /\ new.user = me.user /\ new.root = me.root /\ new.tx = tx
      /\ new.fits = fits /\ new.answer = me.answer /\ new.local = me.local
    BY <1>1
<1>4. new = [k \in DOMAIN new |-> new[k]]
    OBVIOUS
<1>. HIDE DEF new
<1>5. new = Task(at, me.user, me.root, tx, fits, me.answer, me.local)
    BY <1>2, <1>3, <1>4 DEF Task
<1>. QED BY <1>5 DEF new

LEMMA EditLocal ==
    ASSUME NEW me, IsTask(me), NEW at, NEW local
    PROVE  [me EXCEPT !.at = at, !.local = local]
             = Task(at, me.user, me.root, me.tx, me.fits, me.answer, local)
<1>. DEFINE new == [me EXCEPT !.at = at, !.local = local]
<1>1. DOMAIN me = {"at", "user", "root", "tx", "fits", "answer", "local"}
    BY DEF IsTask, Task
<1>2. DOMAIN new = {"at", "user", "root", "tx", "fits", "answer", "local"}
    BY <1>1
<1>3. /\ new.at = at /\ new.user = me.user /\ new.root = me.root /\ new.tx = me.tx
      /\ new.fits = me.fits /\ new.answer = me.answer /\ new.local = local
    BY <1>1
<1>4. new = [k \in DOMAIN new |-> new[k]]
    OBVIOUS
<1>. HIDE DEF new
<1>5. new = Task(at, me.user, me.root, me.tx, me.fits, me.answer, local)
    BY <1>2, <1>3, <1>4 DEF Task
<1>. QED BY <1>5 DEF new

LEMMA EditAnswer ==
    ASSUME NEW me, IsTask(me), NEW at, NEW answer
    PROVE  [me EXCEPT !.at = at, !.answer = answer]
             = Task(at, me.user, me.root, me.tx, me.fits, answer, me.local)
<1>. DEFINE new == [me EXCEPT !.at = at, !.answer = answer]
<1>1. DOMAIN me = {"at", "user", "root", "tx", "fits", "answer", "local"}
    BY DEF IsTask, Task
<1>2. DOMAIN new = {"at", "user", "root", "tx", "fits", "answer", "local"}
    BY <1>1
<1>3. /\ new.at = at /\ new.user = me.user /\ new.root = me.root /\ new.tx = me.tx
      /\ new.fits = me.fits /\ new.answer = answer /\ new.local = me.local
    BY <1>1
<1>4. new = [k \in DOMAIN new |-> new[k]]
    OBVIOUS
<1>. HIDE DEF new
<1>5. new = Task(at, me.user, me.root, me.tx, me.fits, answer, me.local)
    BY <1>2, <1>3, <1>4 DEF Task
<1>. QED BY <1>5 DEF new

LEMMA EditAt ==
    ASSUME NEW me, IsTask(me), NEW at
    PROVE  [me EXCEPT !.at = at]
             = Task(at, me.user, me.root, me.tx, me.fits, me.answer, me.local)
<1>. DEFINE new == [me EXCEPT !.at = at]
<1>1. DOMAIN me = {"at", "user", "root", "tx", "fits", "answer", "local"}
    BY DEF IsTask, Task
<1>2. DOMAIN new = {"at", "user", "root", "tx", "fits", "answer", "local"}
    BY <1>1
<1>3. /\ new.at = at /\ new.user = me.user /\ new.root = me.root /\ new.tx = me.tx
      /\ new.fits = me.fits /\ new.answer = me.answer /\ new.local = me.local
    BY <1>1
<1>4. new = [k \in DOMAIN new |-> new[k]]
    OBVIOUS
<1>. HIDE DEF new
<1>5. new = Task(at, me.user, me.root, me.tx, me.fits, me.answer, me.local)
    BY <1>2, <1>3, <1>4 DEF Task
<1>. QED BY <1>5 DEF new

LEMMA EditRoot ==
    ASSUME NEW me, IsTask(me), NEW at, NEW user, NEW root
    PROVE  [me EXCEPT !.at = at, !.user = user, !.root = root]
             = Task(at, user, root, me.tx, me.fits, me.answer, me.local)
<1>. DEFINE new == [me EXCEPT !.at = at, !.user = user, !.root = root]
<1>1. DOMAIN me = {"at", "user", "root", "tx", "fits", "answer", "local"}
    BY DEF IsTask, Task
<1>2. DOMAIN new = {"at", "user", "root", "tx", "fits", "answer", "local"}
    BY <1>1
<1>3. /\ new.at = at /\ new.user = user /\ new.root = root /\ new.tx = me.tx
      /\ new.fits = me.fits /\ new.answer = me.answer /\ new.local = me.local
    BY <1>1
<1>4. new = [k \in DOMAIN new |-> new[k]]
    OBVIOUS
<1>. HIDE DEF new
<1>5. new = Task(at, user, root, me.tx, me.fits, me.answer, me.local)
    BY <1>2, <1>3, <1>4 DEF Task
<1>. QED BY <1>5 DEF new

LEMMA EditDeposit ==
    ASSUME NEW me, IsTask(me), NEW at, NEW user, NEW tx, NEW fits
    PROVE  [me EXCEPT !.at = at, !.user = user, !.fits = fits, !.tx = tx]
             = Task(at, user, me.root, tx, fits, me.answer, me.local)
<1>. DEFINE new == [me EXCEPT !.at = at, !.user = user, !.fits = fits, !.tx = tx]
<1>1. DOMAIN me = {"at", "user", "root", "tx", "fits", "answer", "local"}
    BY DEF IsTask, Task
<1>2. DOMAIN new = {"at", "user", "root", "tx", "fits", "answer", "local"}
    BY <1>1
<1>3. /\ new.at = at /\ new.user = user /\ new.root = me.root /\ new.tx = tx
      /\ new.fits = fits /\ new.answer = me.answer /\ new.local = me.local
    BY <1>1
<1>4. new = [k \in DOMAIN new |-> new[k]]
    OBVIOUS
<1>. HIDE DEF new
<1>5. new = Task(at, user, me.root, tx, fits, me.answer, me.local)
    BY <1>2, <1>3, <1>4 DEF Task
<1>. QED BY <1>5 DEF new

TaskShape(task) ==
    /\ IsTask(task)
    /\ task.at \in States
    /\ task.root \in Nat /\ task.answer \in Nat /\ task.local \in Seq(Nat)
    /\ task.at # "idle" => task.user \in Users
    /\ task.at \in {"proving"} \cup Delivering => BuiltBy(task.user, task.tx)

Types ==
    /\ leaves \in Seq(NoteSet) /\ events \in Seq(EventSet)
    /\ IsWindow(recent_roots, ROOTS_WINDOW, Nat)
    /\ nullifiers \subseteq DOMAIN leaves
    /\ wallets \in [Users -> WalletSet]
    /\ trees \in [Clients -> Seq(Nat)]
    /\ checked \in [Clients -> Nat]
    /\ tasks = [t \in Tasks |-> tasks[t]] /\ \A t \in Tasks : TaskShape(tasks[t])
    /\ lost \subseteq DOMAIN events

(* A task that leaves all but itself and the checks alone, and is between  *)
(* no landing and its answer. *)
Quiet(t) ==
    \E task :
        /\ Become(t, task) /\ TaskShape(task)
        /\ tasks[t].at \notin Delivering /\ task.at \notin Delivering
        /\ task.at = "checking" => task.local = trees[ClientOf[task.user]]
        /\ task.answer \in {0, tasks[t].answer}
        /\ UNCHANGED <<leaves, recent_roots, nullifiers, events, wallets, trees, lost>>

LEMMA IdleShape ==
    /\ TaskShape(Idle) /\ Idle = Task("idle", "nobody", 0, NoTx, FALSE, 0, <<>>)
    /\ Idle.at = "idle" /\ Idle.user = "nobody" /\ Idle.root = 0 /\ Idle.tx = NoTx /\ Idle.fits = FALSE
    /\ Idle.answer = 0 /\ Idle.local = <<>>
BY DEF TaskShape, IsTask, Idle, Task, States, Delivering

(* A flow with its transaction built. *)
LEMMA ProvingShape ==
    ASSUME NEW u \in Users, NEW root \in Nat, NEW tx, BuiltBy(u, tx), NEW fits,
           NEW answer \in Nat, NEW local \in Seq(Nat)
    PROVE  /\ TaskShape(Task("proving", u, root, tx, fits, answer, local))
           /\ Task("proving", u, root, tx, fits, answer, local).at = "proving"
           /\ Task("proving", u, root, tx, fits, answer, local).answer = answer
BY DEF TaskShape, IsTask, Task, States, Delivering

(* The leaves a transaction spends, as a set. *)
LEMMA SpendsAsASet ==
    /\ \A x : Range(<<x>>) = {x}
    /\ \A x, y : Range(<<x, y>>) = {x, y}
BY DEF Range

LEMMA Becomes ==
    ASSUME Types, NEW t \in Tasks, NEW task, Become(t, task)
    PROVE  /\ tasks' = [s \in Tasks |-> IF s = t THEN task ELSE tasks[s]]
           /\ tasks'[t] = task /\ \A s \in Tasks \ {t} : tasks'[s] = tasks[s]
           /\ tasks' = [s \in Tasks |-> tasks'[s]]
BY DEF Types, Become

LEMMA TypesOfTask ==
    ASSUME Types, NEW t \in Tasks
    PROVE  TaskShape(tasks[t])
BY DEF Types

LEMMA QuietSteps ==
    ASSUME Types, NEW t \in Tasks,
           \/ \E u \in Users :
                \/ ReadRoot(t, u)
                \/ \E amount \in DepositAmounts, auditor \in Auditors :
                      StartDeposit(t, u, amount, auditor)
           \/ \E amount \in Amounts :
                \/ \E recipient \in Users, auditor \in Auditors :
                      StartTransfer(t, amount, recipient, auditor)
                \/ \E fee \in 0 .. FeeUsdcBase : StartWithdraw(t, amount, fee)
           \/ Throw(t) \/ RefundDeposit(t) \/ CheckRoot(t)
    PROVE  Quiet(t)
<1>. DEFINE me == tasks[t]
<1>0. TaskShape(me) /\ IsTask(me)
    BY TypesOfTask DEF TaskShape

<1>1. ASSUME NEW u \in Users, ReadRoot(t, u) PROVE Quiet(t)
    <2>. DEFINE task == Task("root", u, Len(leaves), NoTx, FALSE, 0, <<>>)
    <2>1. Become(t, task)
        <3>1. Become(t, [Idle EXCEPT !.at = "root", !.user = u, !.root = Len(leaves)])
            BY <1>1 DEF ReadRoot
        <3>2. IsTask(Idle)
            BY IdleShape DEF TaskShape
        <3>3. [Idle EXCEPT !.at = "root", !.user = u, !.root = Len(leaves)]
                = Task("root", u, Len(leaves), Idle.tx, Idle.fits, Idle.answer, Idle.local)
            BY <3>2, EditRoot
        <3>. QED BY <3>1, <3>3, IdleShape
    <2>2. TaskShape(task) /\ task.at = "root" /\ task.answer = 0
        BY DEF TaskShape, IsTask, Task, States, Delivering, Types
    <2>3. me.at = "idle"
        BY <1>1 DEF ReadRoot
    <2>. HIDE DEF task, me
    <2>. QED BY <1>1, <2>1, <2>2, <2>3 DEF Quiet, ReadRoot, Delivering, me, chainVars
<1>2. ASSUME NEW u \in Users, NEW amount \in DepositAmounts, NEW auditor \in Auditors,
             StartDeposit(t, u, amount, auditor)
      PROVE  Quiet(t)
    <2>. DEFINE tx == BuildDeposit(u, amount, auditor)
                task == Task("proving", u, 0, tx, TRUE, 0, <<>>)
    <2>1. Become(t, task)
        <3>. HIDE DEF tx
        <3>1. Become(t, [Idle EXCEPT !.at = "proving", !.user = u, !.fits = TRUE, !.tx = tx])
            BY <1>2 DEF StartDeposit, tx
        <3>2. IsTask(Idle)
            BY IdleShape DEF TaskShape
        <3>3. [Idle EXCEPT !.at = "proving", !.user = u, !.fits = TRUE, !.tx = tx]
                = Task("proving", u, Idle.root, tx, TRUE, Idle.answer, Idle.local)
            BY <3>2, EditDeposit
        <3>. QED BY <3>1, <3>3, IdleShape
    <2>2. BuiltBy(u, tx)
        BY DEF BuiltBy, BuiltDeposit
    <2>. HIDE DEF tx
    <2>3. TaskShape(task) /\ task.at = "proving" /\ task.answer = 0
        <3>. DEFINE none == 0
                    empty == <<>>
                    yes == TRUE
        <3>1. none \in Nat /\ empty \in Seq(Nat)
            OBVIOUS
        <3>. HIDE DEF none, empty, yes
        <3>2. /\ TaskShape(Task("proving", u, none, tx, yes, none, empty))
              /\ Task("proving", u, none, tx, yes, none, empty).at = "proving"
              /\ Task("proving", u, none, tx, yes, none, empty).answer = none
            BY <2>2, <3>1, ProvingShape
        <3>. QED BY <3>2 DEF none, empty, yes
    <2>4. me.at = "idle"
        BY <1>2, Zenon DEF StartDeposit
    <2>. HIDE DEF task, me
    <2>. QED BY <1>2, <2>1, <2>3, <2>4 DEF Quiet, StartDeposit, Delivering, me, chainVars
<1>3. ASSUME NEW amount \in Amounts, NEW recipient \in Users, NEW auditor \in Auditors,
             StartTransfer(t, amount, recipient, auditor)
      PROVE  Quiet(t)
    <2>. DEFINE u == me.user
                inputs == FindTransferInputs(wallets[u], amount)
                tx == BuildTransfer(u, inputs, me.root, amount, recipient, auditor)
                fits == \A k \in {1, 2} : PathFits(trees[Client(t)], inputs[k].leafIndex, me.root)
                task == Task("proving", u, me.root, tx, fits, me.answer, me.local)
    <2>1. me.at = "root" /\ TransferPairs(wallets[u], amount) # {}
        BY <1>3 DEF StartTransfer
    <2>2. u \in Users /\ me.root \in Nat /\ me.answer \in Nat /\ me.local \in Seq(Nat)
        BY <1>0, <2>1 DEF TaskShape
    <2>3. BuiltBy(u, tx)
        <3>1. wallets[u] \in WalletSet
            BY <2>2, Zenon DEF Types
        <3>. HIDE DEF me
        <3>. QED BY <2>1, <2>2, <3>1, TransferIsBuilt
    <2>4. Become(t, [me EXCEPT !.at = "proving", !.tx = tx, !.fits = fits])
        BY <1>3 DEF StartTransfer
    <2>. HIDE DEF me, tx, fits
    <2>5. [me EXCEPT !.at = "proving", !.tx = tx, !.fits = fits] = task
        BY <1>0, EditTx
    <2>6. TaskShape(task) /\ task.at = "proving" /\ task.answer = me.answer
        BY <2>2, <2>3, ProvingShape
    <2>. HIDE DEF task
    <2>. QED BY <1>3, <2>1, <2>4, <2>5, <2>6, Zenon DEF Quiet, StartTransfer, Delivering, me, chainVars
<1>4. ASSUME NEW amount \in Amounts, NEW fee \in 0 .. FeeUsdcBase, StartWithdraw(t, amount, fee)
      PROVE  Quiet(t)
    <2>. DEFINE u == me.user
                input == FindWithdrawNote(wallets[u], amount)
                tx == BuildWithdraw(u, input, me.root, amount, "account", fee)
                fits == PathFits(trees[Client(t)], input.leafIndex, me.root)
                task == Task("proving", u, me.root, tx, fits, me.answer, me.local)
    <2>1. me.at = "root" /\ WithdrawNotes(wallets[u], amount) # {}
        BY <1>4 DEF StartWithdraw
    <2>2. u \in Users /\ me.root \in Nat /\ me.answer \in Nat /\ me.local \in Seq(Nat)
        BY <1>0, <2>1 DEF TaskShape
    <2>3. BuiltBy(u, tx)
        <3>1. wallets[u] \in WalletSet
            BY <2>2, Zenon DEF Types
        <3>. HIDE DEF me
        <3>. QED BY <2>1, <2>2, <3>1, WithdrawIsBuilt
    <2>4. Become(t, [me EXCEPT !.at = "proving", !.tx = tx, !.fits = fits])
        BY <1>4 DEF StartWithdraw
    <2>. HIDE DEF me, tx, fits
    <2>5. [me EXCEPT !.at = "proving", !.tx = tx, !.fits = fits] = task
        BY <1>0, EditTx
    <2>6. TaskShape(task) /\ task.at = "proving" /\ task.answer = me.answer
        BY <2>2, <2>3, ProvingShape
    <2>. HIDE DEF task
    <2>. QED BY <1>4, <2>1, <2>4, <2>5, <2>6, Zenon DEF Quiet, StartWithdraw, Delivering, me, chainVars
<1>5. CASE Throw(t)
    BY <1>5, IdleShape DEF Throw, Quiet, Delivering, chainVars
<1>6. CASE RefundDeposit(t)
    <2>. DEFINE local == trees[Client(t)]
                task == Task("checking", me.user, me.root, me.tx, me.fits, me.answer, local)
    <2>1. me.at = "proving"
        BY <1>6 DEF RefundDeposit
    <2>2. /\ me.user \in Users /\ me.root \in Nat /\ me.answer \in Nat
          /\ local = trees[ClientOf[me.user]] /\ local \in Seq(Nat)
        <3>1. me.user \in Users /\ me.root \in Nat /\ me.answer \in Nat
            BY <1>0, <2>1 DEF TaskShape
        <3>2. Client(t) = ClientOf[me.user]
            BY DEF Client
        <3>3. ClientOf[me.user] \in Clients
            BY <3>1, UsersAssumption
        <3>. HIDE DEF me
        <3>. QED BY <3>1, <3>2, <3>3 DEF Types
    <2>3. Become(t, [me EXCEPT !.at = "checking", !.local = local])
        BY <1>6 DEF RefundDeposit
    <2>. HIDE DEF me, local
    <2>4. [me EXCEPT !.at = "checking", !.local = local] = task
        BY <1>0, EditLocal
    <2>5. /\ TaskShape(task) /\ task.at = "checking" /\ task.user = me.user /\ task.local = local
          /\ task.answer = me.answer
        BY <2>2 DEF TaskShape, IsTask, Task, States, Delivering
    <2>. HIDE DEF task
    <2>. QED BY <1>6, <2>1, <2>2, <2>3, <2>4, <2>5 DEF Quiet, RefundDeposit, Delivering, me, chainVars
<1>7. CASE CheckRoot(t)
    BY <1>7, IdleShape DEF CheckRoot, Quiet, Delivering, chainVars
<1>. QED BY <1>1, <1>2, <1>3, <1>4, <1>5, <1>6, <1>7
(* What landed was built, is of the user's unspent notes, and is logged as *)
(* it was committed. *)
LEMMA LandedIsOwned ==
    ASSUME Types, NEW t \in Tasks, Land(t)
    PROVE  /\ tasks[t].user \in Users /\ BuiltBy(tasks[t].user, tasks[t].tx)
           /\ TxShape(tasks[t].tx)
           /\ Range(tasks[t].tx.spends) \subseteq Owned(tasks[t].user)
           /\ Range(tasks[t].tx.spends) \cap nullifiers = {}
           /\ Len(leaves) + Len(tasks[t].tx.creates) <= TreeCapacity
<1>. DEFINE tx == tasks[t].tx
            u == tasks[t].user
<1>1. tasks[t].at = "proving" /\ Statement(u, tx) /\ Accepts(tx)
    BY DEF Land, Provable
<1>2. u \in Users /\ BuiltBy(u, tx)
    BY <1>1, TypesOfTask DEF TaskShape
<1>. HIDE DEF tx, u
<1>3. TxShape(tx)
    BY <1>2, BuiltShape
<1>4. Range(tx.spends) \cap nullifiers = {} /\ Len(leaves) + Len(tx.creates) <= TreeCapacity
    BY <1>1 DEF Accepts
<1>5. Range(tx.spends) \subseteq Owned(u)
    <2>1. CASE tx.method = "deposit"
        BY <1>2, <2>1, BuiltShape DEF Range
    <2>2. CASE tx.method = "transfer"
        <3>1. TransferStatement(u, tx)
            BY <1>1, <2>2 DEF Statement
        <3>2. tx.spends \in Seq(Nat) /\ Len(tx.spends) = 2
            BY <1>2, <1>3, <2>2, BuiltShape DEF TxShape
        <3>3. tx.spends[1] \in Owned(u) /\ tx.spends[2] \in Owned(u)
            BY <3>1 DEF TransferStatement, Owns, Owned
        <3>4. \A k \in DOMAIN tx.spends : k = 1 \/ k = 2
            BY <3>2
        <3>. QED BY <3>3, <3>4 DEF Range
    <2>3. CASE tx.method = "withdraw"
        <3>1. WithdrawStatement(u, tx)
            BY <1>1, <2>3 DEF Statement
        <3>2. tx.spends \in Seq(Nat) /\ Len(tx.spends) = 1
            BY <1>2, <1>3, <2>3, BuiltShape DEF TxShape
        <3>3. tx.spends[1] \in Owned(u)
            BY <3>1 DEF WithdrawStatement, Owns, Owned
        <3>4. \A k \in DOMAIN tx.spends : k = 1
            BY <3>2
        <3>. QED BY <3>3, <3>4 DEF Range
    <2>. QED BY <1>3, <2>1, <2>2, <2>3 DEF TxShape, Methods
<1>. QED BY <1>2, <1>3, <1>4, <1>5 DEF tx, u

(* The new leaves are the created notes, and the new event is their log.   *)
LEMMA LandedIsLogged ==
    ASSUME Types, NEW t \in Tasks, Land(t)
    PROVE  LET tx == tasks[t].tx IN
           /\ Len(leaves) \in Nat /\ Len(tx.creates) \in Nat /\ Len(events) \in Nat
           /\ leaves' \in Seq(NoteSet) /\ Len(leaves') = Len(leaves) + Len(tx.creates)
           /\ \A i \in 1 .. Len(leaves) : leaves'[i] = leaves[i]
           /\ \A k \in 1 .. Len(tx.creates) : leaves'[Len(leaves) + k] = tx.creates[k]
           /\ events' \in Seq(EventSet) /\ Len(events') = Len(events) + 1
           /\ \A e \in 1 .. Len(events) : events'[e] = events[e]
           /\ events'[Len(events')] = EventOf(tx)
           /\ EventOf(tx).spends = tx.spends
           /\ EventOf(tx).noteCts \in Seq(LeafCt) /\ Len(EventOf(tx).noteCts) = Len(tx.creates)
           /\ \A k \in 1 .. Len(tx.creates) :
                 EventOf(tx).noteCts[k] = [leafIndex |-> Len(leaves) + k,
                                           sealed |-> Sealed(tx.creates[k].owner, tx.creates[k])]
<1>. DEFINE tx == tasks[t].tx
            n == Len(leaves)
            m == Len(tx.creates)
            cts == [k \in DOMAIN tx.creates |-> [leafIndex |-> n + k, sealed |-> tx.noteCts[k]]]
<1>1. TxShape(tx)
    BY LandedIsOwned
<1>2. leaves' = leaves \o tx.creates /\ events' = Append(events, EventOf(tx))
    BY DEF Land
<1>3. leaves \in Seq(NoteSet) /\ events \in Seq(EventSet)
    BY DEF Types
<1>4. /\ EventOf(tx).method = tx.method /\ EventOf(tx).spends = tx.spends
      /\ EventOf(tx).amount = tx.amount /\ EventOf(tx).viewCts = tx.viewCts
      /\ EventOf(tx).noteCts = cts
      /\ EventOf(tx) = [method |-> tx.method, spends |-> tx.spends, amount |-> tx.amount,
                         viewCts |-> tx.viewCts, noteCts |-> cts]
    BY DEF EventOf
<1>. HIDE DEF tx
<1>5. /\ tx.creates \in Seq(NoteSet) /\ tx.noteCts \in Seq(NoteCt) /\ Len(tx.noteCts) = m
      /\ m \in Nat /\ n \in Nat /\ DOMAIN tx.creates = 1 .. m /\ DOMAIN tx.noteCts = 1 .. m
    BY <1>1, <1>3 DEF TxShape
<1>6. \A k \in 1 .. m : /\ cts[k] = [leafIndex |-> n + k, sealed |-> tx.noteCts[k]]
                        /\ tx.noteCts[k] = Sealed(tx.creates[k].owner, tx.creates[k])
    BY <1>1, <1>5 DEF TxShape
<1>7. \A k \in 1 .. m : n + k \in Nat /\ tx.noteCts[k] \in NoteCt
    BY <1>5
<1>8. \A k \in 1 .. m : cts[k] \in LeafCt
    BY <1>6, <1>7 DEF LeafCt
<1>9. cts \in Seq(LeafCt) /\ Len(cts) = m
    <2>1. DOMAIN cts = 1 .. m /\ cts = [k \in 1 .. m |-> cts[k]]
        BY <1>5
    <2>. HIDE DEF cts, m
    <2>. QED BY <1>5, <1>8, <2>1
<1>. HIDE DEF cts
<1>10. EventOf(tx) \in EventSet
    BY <1>1, <1>4, <1>9 DEF EventSet, TxShape
<1>11. /\ leaves' \in Seq(NoteSet) /\ Len(leaves') = n + m
       /\ \A i \in 1 .. n : leaves'[i] = leaves[i]
       /\ \A k \in 1 .. m : leaves'[n + k] = tx.creates[k]
    BY <1>2, <1>3, <1>5
<1>12. /\ events' \in Seq(EventSet) /\ Len(events') = Len(events) + 1 /\ Len(events) \in Nat
       /\ \A e \in 1 .. Len(events) : events'[e] = events[e]
       /\ events'[Len(events')] = EventOf(tx)
    BY <1>2, <1>3, <1>10
<1>13. \A k \in 1 .. m : EventOf(tx).noteCts[k] = [leafIndex |-> n + k,
                                         sealed |-> Sealed(tx.creates[k].owner, tx.creates[k])]
    BY <1>4, <1>6
<1>. QED BY <1>4, <1>5, <1>9, <1>11, <1>12, <1>13 DEF tx
(* What an event creates and spends, and what a user owns of some leaves.  *)
CreatedIn(ev) == {ev.noteCts[k].leafIndex : k \in DOMAIN ev.noteCts}

SpentIn(ev) == Range(ev.spends)

OwnedIn(ls, u) == {i \in DOMAIN ls : ls[i].owner = u}

(* A log names each of its leaves once, sealed to the owner as committed;  *)
(* no two events create or spend one leaf; what was spent is nullified.    *)
SealedAsCommitted(ct, ls) ==
    ct.leafIndex \in DOMAIN ls /\ ct.sealed = Sealed(ls[ct.leafIndex].owner, ls[ct.leafIndex])

EachOnce(cts) == \A j, k \in DOMAIN cts : cts[j].leafIndex = cts[k].leafIndex => j = k

EventFits(ev, ls, ns) ==
    /\ EachOnce(ev.noteCts)
    /\ \A k \in DOMAIN ev.noteCts : SealedAsCommitted(ev.noteCts[k], ls)
    /\ SpentIn(ev) \subseteq ns

Apart(ev, other) ==
    CreatedIn(ev) \cap CreatedIn(other) = {} /\ SpentIn(ev) \cap SpentIn(other) = {}

LogFits ==
    /\ \A e \in DOMAIN events : EventFits(events[e], leaves, nullifiers)
    /\ \A e, f \in DOMAIN events : e # f => Apart(events[e], events[f])

LEMMA Readings ==
    /\ \A e : Created(e) = CreatedIn(events[e]) /\ SpentBy(e) = SpentIn(events[e])
    /\ \A u : Owned(u) = OwnedIn(leaves, u)
BY DEF Created, CreatedIn, SpentBy, SpentIn, Owned, OwnedIn

(* Each landed flow has an answer of its own, about notes of its user.     *)
AnswerFits(task, es, ls, missing) ==
    /\ task.answer \in DOMAIN es \ missing
    /\ task.tx.spends = es[task.answer].spends
    /\ SpentIn(es[task.answer]) \subseteq OwnedIn(ls, task.user)

Answers ==
    /\ \A t \in Tasks : tasks[t].at \in Delivering => AnswerFits(tasks[t], events, leaves, lost)
    /\ \A s, t \in Tasks :
          tasks[s].at \in Delivering /\ tasks[t].at \in Delivering /\ s # t
            => tasks[s].answer # tasks[t].answer
    /\ \A t \in Tasks : tasks[t].answer <= Len(events)

LEMMA LogOfAnswer ==
    ASSUME Types, Answers, NEW t \in Tasks, tasks[t].at \in Delivering
    PROVE  /\ tasks[t].user \in Users /\ TxShape(tasks[t].tx) /\ Client(t) \in Clients
           /\ tasks[t].answer \in DOMAIN events \ lost
           /\ Logs(t) \in Seq(LeafCt) /\ Len(Logs(t)) \in Nat
           /\ DOMAIN Logs(t) = 1 .. Len(Logs(t))
           /\ Created(tasks[t].answer) = {Logs(t)[k].leafIndex : k \in 1 .. Len(Logs(t))}
           /\ \A k \in 1 .. Len(Logs(t)) : Logs(t)[k].leafIndex \in Nat
<1>1. tasks[t].user \in Users /\ BuiltBy(tasks[t].user, tasks[t].tx)
    BY TypesOfTask DEF TaskShape, Delivering
<1>2. TxShape(tasks[t].tx)
    BY <1>1, BuiltShape
<1>3. Client(t) \in Clients
    BY <1>1, UsersAssumption DEF Client
<1>4. tasks[t].answer \in DOMAIN events \ lost
    BY DEF Answers, AnswerFits
<1>5. events[tasks[t].answer] \in EventSet
    BY <1>4 DEF Types
<1>6. Logs(t) \in Seq(LeafCt)
    BY <1>5 DEF Logs, EventSet
<1>7. Created(tasks[t].answer) = {Logs(t)[k].leafIndex : k \in DOMAIN Logs(t)}
    BY DEF Created, Logs
<1>8. \A k \in 1 .. Len(Logs(t)) : Logs(t)[k].leafIndex \in Nat
    <2>1. \A k \in 1 .. Len(Logs(t)) : Logs(t)[k] \in LeafCt
        BY <1>6
    <2>. QED BY <2>1 DEF LeafCt
<1>. QED BY <1>1, <1>2, <1>3, <1>4, <1>6, <1>7, <1>8

------------------------------------------------------------------------------
(* The types are kept. *)

LEMMA TasksKeepShape ==
    ASSUME Types, NEW t \in Tasks, NEW task, Become(t, task), TaskShape(task)
    PROVE  tasks' = [s \in Tasks |-> tasks'[s]] /\ \A s \in Tasks : TaskShape(tasks'[s])
BY Becomes, TypesOfTask

LEMMA QuietKeepsTypes ==
    ASSUME Types, NEW t \in Tasks, Quiet(t), UNCHANGED checked \/ CheckRoot(t)
    PROVE  Types'
<1>1. PICK task : Become(t, task) /\ TaskShape(task)
    BY DEF Quiet
<1>2. tasks' = [s \in Tasks |-> tasks'[s]] /\ \A s \in Tasks : TaskShape(tasks'[s])
    BY <1>1, TasksKeepShape
<1>3. checked' \in [Clients -> Nat]
    <2>1. Len(leaves) \in Nat
        BY DEF Types
    <2>. QED BY <2>1 DEF Types, CheckRoot
<1>. QED BY <1>2, <1>3 DEF Quiet, Types

LEMMA LandKeepsTypes ==
    ASSUME Types, NEW t \in Tasks, Land(t)
    PROVE  /\ Types'
           /\ tasks'[t] = Task("answered", tasks[t].user, tasks[t].root, tasks[t].tx, tasks[t].fits,
                               Len(events'), tasks[t].local)
<1>. DEFINE me == tasks[t]
            task == Task("answered", me.user, me.root, me.tx, me.fits, Len(events'), me.local)
<1>1. TaskShape(me) /\ me.at = "proving"
    BY TypesOfTask DEF Land
<1>2. /\ leaves' \in Seq(NoteSet) /\ events' \in Seq(EventSet) /\ Len(leaves') = Len(leaves) + Len(me.tx.creates)
      /\ Len(leaves) \in Nat /\ Len(me.tx.creates) \in Nat
      /\ Len(events) \in Nat /\ Len(events') = Len(events) + 1
    BY LandedIsLogged
<1>3. Become(t, [me EXCEPT !.at = "answered", !.answer = Len(events')])
    BY DEF Land
<1>. HIDE DEF me
<1>4. [me EXCEPT !.at = "answered", !.answer = Len(events')] = task
    BY <1>1, EditAnswer DEF TaskShape
<1>5. TaskShape(task)
    BY <1>1, <1>2 DEF TaskShape, IsTask, Task, States, Delivering
<1>. HIDE DEF task
<1>6. /\ tasks' = [s \in Tasks |-> tasks'[s]] /\ \A s \in Tasks : TaskShape(tasks'[s])
      /\ tasks'[t] = task
    BY <1>3, <1>4, <1>5, TasksKeepShape, Becomes
<1>7. IsWindow(recent_roots', ROOTS_WINDOW, Nat)
    <2>1. IsWindow(recent_roots, ROOTS_WINDOW, Nat) /\ Len(leaves') \in Nat
        BY <1>2 DEF Types
    <2>2. IsWindow(Push(recent_roots, Len(leaves')), ROOTS_WINDOW, Nat)
        BY <2>1, PushIsWindow, BoundsAreNat
    <2>. QED BY <2>1, <2>2 DEF Land
<1>8. nullifiers' \subseteq DOMAIN leaves'
    <2>1. nullifiers' = nullifiers \cup Range(me.tx.spends)
        BY DEF Land, me
    <2>2. Range(me.tx.spends) \subseteq DOMAIN leaves
        BY LandedIsOwned DEF Owned, me
    <2>3. nullifiers \subseteq DOMAIN leaves /\ DOMAIN leaves = 1 .. Len(leaves)
        BY DEF Types
    <2>4. DOMAIN leaves' = 1 .. Len(leaves')
        BY <1>2
    <2>. QED BY <1>2, <2>1, <2>2, <2>3, <2>4
<1>9. lost' \subseteq DOMAIN events'
    BY <1>2 DEF Land, Types
<1>10. UNCHANGED <<wallets, trees, checked>>
    BY DEF Land
<1>11. Types'
    BY <1>2, <1>6, <1>7, <1>8, <1>9, <1>10 DEF Types
<1>. QED BY <1>6, <1>11 DEF me, task

LEMMA LoseKeepsTypes ==
    ASSUME Types, Answers, NEW t \in Tasks, LoseAnswer(t)
    PROVE  Types'
<1>1. tasks[t].at \in Delivering
    BY DEF LoseAnswer, Delivering
<1>2. tasks' = [s \in Tasks |-> tasks'[s]] /\ \A s \in Tasks : TaskShape(tasks'[s])
    BY TasksKeepShape, IdleShape DEF LoseAnswer
<1>3. lost' \subseteq DOMAIN events
    BY <1>1, LogOfAnswer DEF LoseAnswer, Types
<1>. QED BY <1>2, <1>3 DEF LoseAnswer, Types, chainVars

(* The tree of the client whose answer it is grows by the answer's leaves, *)
(* and no other; a withdraw has none. *)
LEMMA IngestKeepsTypes ==
    ASSUME Types, Answers, NEW t \in Tasks, Ingest(t)
    PROVE  /\ Types'
           /\ tasks'[t] = Task("ingested", tasks[t].user, tasks[t].root, tasks[t].tx, tasks[t].fits,
                               tasks[t].answer, tasks[t].local)
           /\ \A c \in Clients : /\ Begins(trees[c], trees'[c])
                                 /\ Range(trees'[c]) \subseteq Range(trees[c]) \cup Created(tasks[t].answer)
<1>. DEFINE me == tasks[t]
            task == Task("ingested", me.user, me.root, me.tx, me.fits, me.answer, me.local)
            c0 == Client(t)
            grown == Grown(trees[c0], Logs(t))
<1>1. TaskShape(me) /\ me.at = "answered" /\ me.at \in Delivering
    BY TypesOfTask DEF Ingest, Delivering
<1>2. Become(t, [me EXCEPT !.at = "ingested"])
    BY DEF Ingest
<1>3. c0 \in Clients /\ trees \in [Clients -> Seq(Nat)]
    BY <1>1, LogOfAnswer DEF Types
<1>4. /\ grown \in Seq(Nat) /\ Begins(trees[c0], grown)
      /\ Range(grown) = Range(trees[c0]) \cup Created(me.answer)
    <2>1. /\ Len(Logs(t)) \in Nat /\ \A k \in 1 .. Len(Logs(t)) : Logs(t)[k].leafIndex \in Nat
          /\ Created(me.answer) = {Logs(t)[k].leafIndex : k \in 1 .. Len(Logs(t))}
        BY <1>1, LogOfAnswer
    <2>2. trees[c0] \in Seq(Nat)
        BY <1>3
    <2>. HIDE DEF me, c0
    <2>. QED BY <2>1, <2>2, GrownGrows
<1>5. trees' = trees \/ trees' = [trees EXCEPT ![c0] = grown]
    BY DEF Ingest
<1>. HIDE DEF me, grown, c0
<1>6. [me EXCEPT !.at = "ingested"] = task
    BY <1>1, EditAt DEF TaskShape
<1>7. TaskShape(task)
    BY <1>1 DEF TaskShape, IsTask, Task, States, Delivering
<1>. HIDE DEF task
<1>8. /\ tasks' = [s \in Tasks |-> tasks'[s]] /\ \A s \in Tasks : TaskShape(tasks'[s])
      /\ tasks'[t] = task
    BY <1>2, <1>6, <1>7, TasksKeepShape, Becomes
<1>9. trees' \in [Clients -> Seq(Nat)]
    BY <1>3, <1>4, <1>5
<1>10. Types'
    BY <1>8, <1>9 DEF Ingest, Types, chainVars
<1>11. ASSUME NEW c \in Clients
       PROVE  Begins(trees[c], trees'[c]) /\ Range(trees'[c]) \subseteq Range(trees[c]) \cup Created(me.answer)
    <2>1. trees[c] \in Seq(Nat)
        BY <1>3
    <2>2. CASE trees'[c] = trees[c]
        BY <2>1, <2>2, BeginsReflexive
    <2>3. CASE c = c0 /\ trees'[c] = grown
        BY <1>4, <2>3
    <2>. QED BY <1>3, <1>5, <2>2, <2>3
<1>. QED BY <1>8, <1>10, <1>11 DEF me, task
(* Everybody's wallet scans the answer, its user's marks what it spent.    *)
LEMMA ResumeKeepsTypes ==
    ASSUME Types, Answers, NEW t \in Tasks, Resume(t)
    PROVE  /\ Types'
           /\ \/ tasks'[t] = Idle
              \/ tasks'[t] = Task("checking", tasks[t].user, tasks[t].root, tasks[t].tx, tasks[t].fits,
                                  tasks[t].answer, trees[Client(t)])
           /\ \A v \in Users :
                 /\ wallets'[v].notes = wallets[v].notes \o ScanNotes(v, Logs(t))
                 /\ ScanNotes(v, Logs(t)) \in Seq(FoundNote)
                 /\ wallets'[v].spent = IF v = tasks[t].user
                                        THEN wallets[v].spent \cup Range(tasks[t].tx.spends)
                                        ELSE wallets[v].spent
<1>. DEFINE me == tasks[t]
            local == trees[Client(t)]
            task == Task("checking", me.user, me.root, me.tx, me.fits, me.answer, local)
            Scanned1(v) == Scan(wallets[v], v, Logs(t))
            After(v) == IF v = me.user THEN MarkSpent(Scanned1(v), me.tx.spends) ELSE Scanned1(v)
<1>1. TaskShape(me) /\ me.at = "ingested" /\ me.at \in Delivering
    BY TypesOfTask DEF Resume, Delivering
<1>2. Become(t, Idle) \/ Become(t, [me EXCEPT !.at = "checking", !.local = local])
    BY DEF Resume
<1>3. /\ me.user \in Users /\ TxShape(me.tx) /\ Client(t) \in Clients
      /\ Logs(t) \in Seq(LeafCt) /\ Len(Logs(t)) \in Nat
    BY <1>1, LogOfAnswer
<1>4. local \in Seq(Nat)
    BY <1>3 DEF Types
<1>5. wallets' = [v \in Users |-> After(v)]
    BY DEF Resume
<1>6. ASSUME NEW v \in Users
      PROVE  /\ After(v) \in WalletSet
             /\ After(v).notes = wallets[v].notes \o ScanNotes(v, Logs(t))
             /\ ScanNotes(v, Logs(t)) \in Seq(FoundNote)
             /\ After(v).spent = IF v = me.user THEN wallets[v].spent \cup Range(me.tx.spends)
                                 ELSE wallets[v].spent
    <2>. DEFINE w == wallets[v]
                cts == Logs(t)
    <2>1. w \in WalletsOf(FoundNote, Nat)
        BY DEF Types, WalletSet
    <2>2. OpensInto(v, cts, FoundNote)
        <3>1. \A k \in 1 .. Len(cts) : cts[k] \in LeafCt
            BY <1>3
        <3>. HIDE DEF cts
        <3>2. \A k \in 1 .. Len(cts) : Discovery(cts[k]) \in FoundNote
            BY <3>1 DEF LeafCt, NoteCt, Discovery, FoundNote
        <3>. QED BY <3>2 DEF OpensInto
    <2>3. Len(cts) \in Nat /\ me.tx.spends \in Seq(Nat)
        BY <1>3 DEF TxShape
    <2>. HIDE DEF w, cts, me
    <2>4. /\ Scan(w, v, cts) \in WalletsOf(FoundNote, Nat)
          /\ Scan(w, v, cts).spent = w.spent
          /\ Scan(w, v, cts).notes = w.notes \o ScanNotes(v, cts)
          /\ ScanNotes(v, cts) \in Seq(FoundNote)
        BY <2>1, <2>2, <2>3, ScanKeepsWallet
    <2>. DEFINE s == Scan(w, v, cts)
    <2>. HIDE DEF s
    <2>5. /\ MarkSpent(s, me.tx.spends) \in WalletsOf(FoundNote, Nat)
          /\ MarkSpent(s, me.tx.spends).notes = s.notes
          /\ MarkSpent(s, me.tx.spends).spent = s.spent \cup Range(me.tx.spends)
        <3>1. s \in WalletsOf(FoundNote, Nat)
            BY <2>4 DEF s
        <3>. QED BY <2>3, <3>1, MarkKeepsNotes
    <2>6. Scanned1(v) = s
        BY DEF s, w, cts
    <2>7. s.notes = w.notes \o ScanNotes(v, cts) /\ s.spent = w.spent /\ s \in WalletsOf(FoundNote, Nat)
        BY <2>4 DEF s
    <2>. HIDE DEF Scanned1
    <2>. QED BY <2>4, <2>5, <2>6, <2>7 DEF w, cts, WalletSet
<1>. HIDE DEF After, Scanned1, me, local
<1>7. [me EXCEPT !.at = "checking", !.local = local] = task
    BY <1>1, EditLocal DEF TaskShape
<1>8. TaskShape(task)
    BY <1>1, <1>3, <1>4 DEF TaskShape, IsTask, Task, States, Delivering
<1>. HIDE DEF task
<1>9. /\ tasks' = [s \in Tasks |-> tasks'[s]] /\ \A s \in Tasks : TaskShape(tasks'[s])
      /\ tasks'[t] = Idle \/ tasks'[t] = task
    <2>1. CASE Become(t, Idle)
        BY <2>1, IdleShape, TasksKeepShape, Becomes
    <2>2. CASE Become(t, task)
        BY <2>2, <1>8, TasksKeepShape, Becomes
    <2>. QED BY <1>2, <1>7, <2>1, <2>2
<1>10. wallets' \in [Users -> WalletSet]
    BY <1>5, <1>6
<1>11. Types'
    BY <1>9, <1>10 DEF Resume, Types, chainVars
<1>12. \A v \in Users : wallets'[v] = After(v)
    BY <1>5
<1>. QED BY <1>6, <1>9, <1>11, <1>12 DEF me, task, local
------------------------------------------------------------------------------
(* The log keeps fitting the chain. *)

LEMMA LandedEvent ==
    ASSUME Types, NEW t \in Tasks, Land(t)
    PROVE  LET tx == tasks[t].tx
               m == Len(tx.creates)
               new == {Len(leaves) + k : k \in 1 .. m}
           IN
           /\ \A e \in DOMAIN events : e \in DOMAIN events' /\ e # Len(events') /\ events'[e] = events[e]
           /\ \A e \in DOMAIN events' : e \in DOMAIN events \/ e = Len(events')
           /\ Len(events') \in DOMAIN events'
           /\ DOMAIN events'[Len(events')].noteCts = 1 .. m
           /\ \A k \in 1 .. m : events'[Len(events')].noteCts[k]
                                = [leafIndex |-> Len(leaves) + k,
                                   sealed |-> Sealed(tx.creates[k].owner, tx.creates[k])]
           /\ CreatedIn(events'[Len(events')]) = new
           /\ SpentIn(events'[Len(events')]) = Range(tx.spends)
           /\ \A i \in DOMAIN leaves : i \in DOMAIN leaves' /\ leaves'[i] = leaves[i]
           /\ \A k \in 1 .. m : /\ Len(leaves) + k \in DOMAIN leaves' /\ Len(leaves) + k \notin DOMAIN leaves
                                /\ leaves'[Len(leaves) + k] = tx.creates[k]
           /\ DOMAIN leaves' = DOMAIN leaves \cup new
           /\ \A u : OwnedIn(leaves', u) = OwnedIn(leaves, u) \cup {i \in new : leaves'[i].owner = u}
<1>. DEFINE tx == tasks[t].tx
            m == Len(tx.creates)
            n == Len(leaves)
            new == {n + k : k \in 1 .. m}
            ev == events'[Len(events')]
            cts == EventOf(tx).noteCts
<1>1. /\ n \in Nat /\ m \in Nat /\ Len(events) \in Nat
      /\ leaves' \in Seq(NoteSet) /\ Len(leaves') = n + m
      /\ \A i \in 1 .. n : leaves'[i] = leaves[i]
      /\ \A k \in 1 .. m : leaves'[n + k] = tx.creates[k]
      /\ events' \in Seq(EventSet) /\ Len(events') = Len(events) + 1
      /\ \A e \in 1 .. Len(events) : events'[e] = events[e]
      /\ ev = EventOf(tx) /\ EventOf(tx).spends = tx.spends
      /\ cts \in Seq(LeafCt) /\ Len(cts) = m
      /\ \A k \in 1 .. m : cts[k] = [leafIndex |-> n + k, sealed |-> Sealed(tx.creates[k].owner, tx.creates[k])]
    BY LandedIsLogged
<1>2. leaves \in Seq(NoteSet) /\ events \in Seq(EventSet)
    BY DEF Types
<1>. HIDE DEF tx, m, n, cts, ev
<1>3. /\ DOMAIN leaves = 1 .. n /\ DOMAIN events = 1 .. Len(events) /\ DOMAIN cts = 1 .. m
      /\ DOMAIN leaves' = 1 .. n + m /\ DOMAIN events' = 1 .. Len(events) + 1
    <2>1. Len(leaves) = n
        BY DEF n
    <2>. QED BY <1>1, <1>2, <2>1
<1>4. DOMAIN leaves' = DOMAIN leaves \cup new
    <2>1. \A i \in 1 .. n + m : i \in 1 .. n \/ i \in new
        <3>1. \A i \in 1 .. n + m : i \in 1 .. n \/ (i - n \in 1 .. m /\ i = n + (i - n))
            BY <1>1
        <3>. QED BY <3>1
    <2>2. \A i \in new : i \in 1 .. n + m
        BY <1>1
    <2>3. \A i \in 1 .. n : i \in 1 .. n + m
        BY <1>1
    <2>. HIDE DEF new
    <2>. QED BY <1>3, <2>1, <2>2, <2>3
<1>5. \A k \in 1 .. m : n + k \notin DOMAIN leaves /\ n + k \in DOMAIN leaves' /\ leaves'[n + k] = tx.creates[k]
    BY <1>1, <1>3
<1>6. \A i \in DOMAIN leaves : i \in DOMAIN leaves' /\ leaves'[i] = leaves[i]
    BY <1>1, <1>3
<1>7. ASSUME NEW u PROVE OwnedIn(leaves', u) = OwnedIn(leaves, u) \cup {i \in new : leaves'[i].owner = u}
    <2>. HIDE DEF new
    <2>. QED BY <1>4, <1>6 DEF OwnedIn
<1>8. \A e \in DOMAIN events : e \in DOMAIN events' /\ e # Len(events') /\ events'[e] = events[e]
    BY <1>1, <1>3
<1>9. Len(events') \in DOMAIN events' /\ \A e \in DOMAIN events' : e \in DOMAIN events \/ e = Len(events')
    BY <1>1, <1>3
<1>10. ev.noteCts = cts /\ CreatedIn(ev) = new /\ SpentIn(ev) = Range(tx.spends)
    <2>1. ev.noteCts = cts /\ ev.spends = tx.spends
        BY <1>1 DEF cts
    <2>2. \A k \in 1 .. m : cts[k].leafIndex = n + k
        BY <1>1
    <2>3. CreatedIn(ev) = {cts[k].leafIndex : k \in 1 .. m}
        BY <1>3, <2>1 DEF CreatedIn
    <2>. QED BY <2>1, <2>2, <2>3 DEF SpentIn
<1>11. DOMAIN ev.noteCts = 1 .. m /\ \A k \in 1 .. m : ev.noteCts[k]
                            = [leafIndex |-> n + k, sealed |-> Sealed(tx.creates[k].owner, tx.creates[k])]
    BY <1>1, <1>3, <1>10
<1>. QED BY <1>4, <1>5, <1>6, <1>7, <1>8, <1>9, <1>10, <1>11 DEF m, n, tx, ev

LEMMA LandKeepsLog ==
    ASSUME Types, LogFits, NEW t \in Tasks, Land(t)
    PROVE  LogFits'
<1>. DEFINE tx == tasks[t].tx
            m == Len(tx.creates)
            n == Len(leaves)
            last == Len(events')
            new == {n + k : k \in 1 .. m}
            ev == events'[last]
<1>1. /\ \A e \in DOMAIN events : events'[e] = events[e]
      /\ \A e \in DOMAIN events' : e \in DOMAIN events \/ e = last
      /\ DOMAIN ev.noteCts = 1 .. m
      /\ \A k \in 1 .. m : ev.noteCts[k] = [leafIndex |-> n + k,
                                            sealed |-> Sealed(tx.creates[k].owner, tx.creates[k])]
      /\ CreatedIn(ev) = new /\ SpentIn(ev) = Range(tx.spends)
      /\ \A i \in DOMAIN leaves : i \in DOMAIN leaves' /\ leaves'[i] = leaves[i]
      /\ \A k \in 1 .. m : /\ n + k \in DOMAIN leaves' /\ n + k \notin DOMAIN leaves
                           /\ leaves'[n + k] = tx.creates[k]
    BY LandedEvent
<1>2. n \in Nat /\ m \in Nat
    BY LandedIsLogged
<1>3. Range(tx.spends) \cap nullifiers = {} /\ nullifiers' = nullifiers \cup Range(tx.spends)
    BY LandedIsOwned DEF Land
<1>. HIDE DEF tx, m, n, ev
<1>4. \A k \in 1 .. m : ev.noteCts[k].leafIndex = n + k
                       /\ ev.noteCts[k].sealed = Sealed(tx.creates[k].owner, tx.creates[k])
    <2>. SUFFICES ASSUME NEW k \in 1 .. m
                  PROVE  /\ ev.noteCts[k].leafIndex = n + k
                         /\ ev.noteCts[k].sealed = Sealed(tx.creates[k].owner, tx.creates[k])
        OBVIOUS
    <2>1. ev.noteCts[k] = [leafIndex |-> n + k, sealed |-> Sealed(tx.creates[k].owner, tx.creates[k])]
        BY <1>1
    <2>. QED BY <2>1
<1>5. EventFits(ev, leaves', nullifiers')
    <2>1. EachOnce(ev.noteCts)
        BY <1>1, <1>2, <1>4 DEF EachOnce
    <2>2. \A k \in DOMAIN ev.noteCts : SealedAsCommitted(ev.noteCts[k], leaves')
        BY <1>1, <1>4 DEF SealedAsCommitted
    <2>. QED BY <1>1, <1>3, <2>1, <2>2 DEF EventFits
<1>6. \A e \in DOMAIN events : EventFits(events[e], leaves', nullifiers')
    <2>1. ASSUME NEW ct, SealedAsCommitted(ct, leaves) PROVE SealedAsCommitted(ct, leaves')
        BY <1>1, <2>1 DEF SealedAsCommitted
    <2>. QED BY <1>3, <2>1 DEF EventFits, LogFits
<1>7. \A e \in DOMAIN events' : EventFits(events'[e], leaves', nullifiers')
    BY <1>1, <1>5, <1>6 DEF ev
<1>8. ASSUME NEW e \in DOMAIN events PROVE Apart(events[e], ev) /\ Apart(ev, events[e])
    <2>1. CreatedIn(events[e]) \subseteq DOMAIN leaves /\ SpentIn(events[e]) \subseteq nullifiers
        BY DEF LogFits, EventFits, SealedAsCommitted, CreatedIn
    <2>2. CreatedIn(ev) \cap DOMAIN leaves = {} /\ SpentIn(ev) \cap nullifiers = {}
        BY <1>1, <1>3
    <2>. QED BY <2>1, <2>2 DEF Apart
<1>9. \A e, f \in DOMAIN events' : e # f => Apart(events'[e], events'[f])
    <2>. SUFFICES ASSUME NEW e \in DOMAIN events', NEW f \in DOMAIN events', e # f
                  PROVE  Apart(events'[e], events'[f])
        OBVIOUS
    <2>1. CASE e \in DOMAIN events /\ f \in DOMAIN events
        BY <1>1, <2>1 DEF LogFits
    <2>2. CASE e \in DOMAIN events /\ f = last
        BY <1>1, <1>8, <2>2 DEF ev
    <2>3. CASE e = last /\ f \in DOMAIN events
        BY <1>1, <1>8, <2>3 DEF ev
    <2>. QED BY <1>1, <2>1, <2>2, <2>3
<1>. QED BY <1>7, <1>9 DEF LogFits
------------------------------------------------------------------------------
(* Each landed flow keeps its answer. *)

LogKept ==
    /\ Len(events) <= Len(events')
    /\ \A e \in DOMAIN events : e \in DOMAIN events' /\ events'[e] = events[e]
    /\ \A u : OwnedIn(leaves, u) \subseteq OwnedIn(leaves', u)

LEMMA LogIsKept == ASSUME Types, UNCHANGED <<events, leaves>> PROVE LogKept
<1>1. Len(events) \in Nat
    BY DEF Types
<1>. QED BY <1>1 DEF LogKept

LEMMA AnswersStay ==
    ASSUME Types, Answers, NEW t \in Tasks, NEW task, Become(t, task), LogKept, Len(events') \in Nat,
           \A s \in Tasks \ {t} : tasks[s].at \in Delivering => tasks[s].answer \notin lost',
           task.at \in Delivering =>
              /\ AnswerFits(task, events', leaves', lost')
              /\ \A s \in Tasks \ {t} : tasks[s].at \in Delivering => tasks[s].answer # task.answer,
           task.answer <= Len(events')
    PROVE  Answers'
<1>1. tasks'[t] = task /\ \A s \in Tasks \ {t} : tasks'[s] = tasks[s]
    BY Becomes
<1>2. \A s \in Tasks : tasks[s].answer \in Nat
    BY TypesOfTask DEF TaskShape
<1>3. ASSUME NEW s \in Tasks \ {t}, tasks[s].at \in Delivering
      PROVE  AnswerFits(tasks[s], events', leaves', lost')
    <2>. DEFINE e == tasks[s].answer
    <2>1. /\ e \in DOMAIN events \ lost /\ tasks[s].tx.spends = events[e].spends
          /\ SpentIn(events[e]) \subseteq OwnedIn(leaves, tasks[s].user)
        BY <1>3 DEF Answers, AnswerFits
    <2>2. e \in DOMAIN events' \ lost' /\ events'[e] = events[e]
        BY <1>3, <2>1 DEF LogKept
    <2>. QED BY <2>1, <2>2 DEF AnswerFits, LogKept
<1>4. \A s \in Tasks : tasks'[s].at \in Delivering => AnswerFits(tasks'[s], events', leaves', lost')
    BY <1>1, <1>3
<1>5. \A r, s \in Tasks :
        tasks'[r].at \in Delivering /\ tasks'[s].at \in Delivering /\ r # s
            => tasks'[r].answer # tasks'[s].answer
    BY <1>1 DEF Answers
<1>6. \A s \in Tasks : tasks'[s].answer <= Len(events')
    <2>1. Len(events) \in Nat
        BY DEF Types
    <2>2. \A s \in Tasks : tasks[s].answer <= Len(events')
        BY <1>2, <2>1 DEF Answers, LogKept
    <2>. QED BY <1>1, <2>2
<1>. QED BY <1>4, <1>5, <1>6 DEF Answers

LEMMA QuietKeepsAnswers ==
    ASSUME Types, Answers, NEW t \in Tasks, Quiet(t)
    PROVE  Answers' /\ Undelivered' = Undelivered
<1>1. PICK task : /\ Become(t, task) /\ task.at \notin Delivering /\ tasks[t].at \notin Delivering
                  /\ task.answer \in {0, tasks[t].answer}
                  /\ UNCHANGED <<leaves, events, lost>>
    BY DEF Quiet
<1>2. LogKept /\ Len(events') \in Nat
    BY <1>1, LogIsKept DEF Types
<1>3. \A s \in Tasks : tasks[s].at \in Delivering => tasks[s].answer \notin lost'
    BY <1>1 DEF Answers, AnswerFits
<1>4. task.answer <= Len(events')
    BY <1>1, <1>2 DEF Answers
<1>5. Answers'
    BY <1>1, <1>2, <1>3, <1>4, AnswersStay
<1>6. tasks'[t] = task /\ \A s \in Tasks \ {t} : tasks'[s] = tasks[s]
    BY <1>1, Becomes
<1>7. Undelivered' = Undelivered
    BY <1>1, <1>6 DEF Undelivered, Delivering
<1>. QED BY <1>5, <1>7

LEMMA LandKeepsAnswers ==
    ASSUME Types, Answers, NEW t \in Tasks, Land(t)
    PROVE  /\ Answers' /\ LogKept
           /\ Undelivered' = Undelivered \cup {Len(events')}
           /\ \A s \in Tasks : tasks'[s].at = "checking" => tasks'[s] = tasks[s]
<1>. DEFINE me == tasks[t]
            task == Task("answered", me.user, me.root, me.tx, me.fits, Len(events'), me.local)
            last == Len(events')
<1>1. /\ me.at = "proving" /\ Become(t, [me EXCEPT !.at = "answered", !.answer = Len(events')])
      /\ lost' = lost
    BY DEF Land
<1>2. /\ Len(events) \in Nat /\ last = Len(events) + 1
      /\ DOMAIN events = 1 .. Len(events) /\ events'[last].spends = me.tx.spends
    BY LandedIsLogged DEF Types
<1>3. /\ \A e \in DOMAIN events : e \in DOMAIN events' /\ e # last /\ events'[e] = events[e]
      /\ \A u : OwnedIn(leaves', u) = OwnedIn(leaves, u)
                    \cup {i \in {Len(leaves) + k : k \in 1 .. Len(me.tx.creates)} : leaves'[i].owner = u}
      /\ last \in DOMAIN events' /\ SpentIn(events'[last]) = Range(me.tx.spends)
    BY LandedEvent
<1>4. Range(me.tx.spends) \subseteq OwnedIn(leaves, me.user)
    BY LandedIsOwned, Readings
<1>5. \A s \in Tasks : tasks[s].at \in Delivering => tasks[s].answer \in DOMAIN events \ lost
    BY DEF Answers, AnswerFits
<1>6. lost \subseteq DOMAIN events /\ IsTask(me)
    BY TypesOfTask DEF Types, TaskShape
<1>7. /\ task.at = "answered" /\ task.answer = last /\ task.user = me.user /\ task.tx = me.tx
    BY DEF Task
<1>. HIDE DEF me
<1>8. Become(t, task)
    BY <1>1, <1>6, EditAnswer
<1>. HIDE DEF task, last
<1>9. LogKept /\ last \in Nat
    BY <1>2, <1>3 DEF LogKept, last
<1>10. AnswerFits(task, events', leaves', lost')
    BY <1>1, <1>2, <1>3, <1>4, <1>6, <1>7 DEF AnswerFits
<1>11. Answers'
    <2>1. \A s \in Tasks : tasks[s].at \in Delivering => tasks[s].answer \notin lost' /\ tasks[s].answer # task.answer
        BY <1>1, <1>3, <1>5, <1>7
    <2>2. task.answer <= Len(events')
        BY <1>7, <1>9 DEF last
    <2>3. Len(events') \in Nat
        BY <1>9 DEF last
    <2>. QED BY <1>8, <1>9, <1>10, <2>1, <2>2, <2>3, AnswersStay
<1>12. tasks'[t] = task /\ \A s \in Tasks \ {t} : tasks'[s] = tasks[s]
    BY <1>8, Becomes
<1>13. Undelivered' = Undelivered \cup {last}
    <2>1. {s \in Tasks : tasks'[s].at \in Delivering} = {s \in Tasks : tasks[s].at \in Delivering} \cup {t}
        BY <1>7, <1>12 DEF Delivering
    <2>2. t \notin {s \in Tasks : tasks[s].at \in Delivering}
        BY <1>1 DEF Delivering, me
    <2>. QED BY <1>1, <1>7, <1>12, <2>1, <2>2 DEF Undelivered, Delivering
<1>14. \A s \in Tasks : tasks'[s].at = "checking" => tasks'[s] = tasks[s]
    BY <1>7, <1>12
<1>. QED BY <1>9, <1>11, <1>13, <1>14 DEF last

LEMMA LoseKeepsAnswers ==
    ASSUME Types, Answers, NEW t \in Tasks, LoseAnswer(t)
    PROVE  Answers' /\ Undelivered' = Undelivered
<1>1. /\ Become(t, Idle) /\ tasks[t].at \in Delivering /\ tasks[t].at = "answered"
      /\ UNCHANGED <<leaves, events>> /\ lost' = lost \cup {tasks[t].answer}
    BY DEF LoseAnswer, Delivering, chainVars
<1>2. LogKept /\ Len(events') \in Nat
    BY <1>1, LogIsKept DEF Types
<1>3. \A s \in Tasks \ {t} : tasks[s].at \in Delivering => tasks[s].answer \notin lost'
    BY <1>1 DEF Answers, AnswerFits
<1>4. Answers'
    <2>1. Idle.at \notin Delivering
        BY IdleShape DEF Delivering
    <2>2. Idle.answer <= Len(events')
        <3>1. Idle.answer = 0 /\ Len(events') \in Nat
            BY <1>2, IdleShape
        <3>. HIDE DEF Idle
        <3>. QED BY <3>1
    <2>. QED BY <1>1, <1>2, <1>3, <2>1, <2>2, AnswersStay
<1>5. tasks'[t] = Idle /\ \A s \in Tasks \ {t} : tasks'[s] = tasks[s]
    BY <1>1, Becomes
<1>6. Undelivered' = Undelivered
    <2>1. {s \in Tasks : tasks'[s].at \in Delivering} = {s \in Tasks : tasks[s].at \in Delivering} \ {t}
        BY <1>5, IdleShape DEF Delivering
    <2>. QED BY <1>1, <1>5, <2>1 DEF Undelivered, Delivering
<1>. QED BY <1>4, <1>6

LEMMA IngestKeepsAnswers ==
    ASSUME Types, Answers, NEW t \in Tasks, Ingest(t)
    PROVE  Answers' /\ Undelivered' = Undelivered
<1>. DEFINE me == tasks[t]
            task == Task("ingested", me.user, me.root, me.tx, me.fits, me.answer, me.local)
<1>1. /\ me.at = "answered" /\ me.at \in Delivering /\ UNCHANGED <<leaves, events, lost>>
      /\ Become(t, [me EXCEPT !.at = "ingested"])
    BY DEF Ingest, Delivering, chainVars
<1>2. LogKept /\ Len(events') \in Nat
    BY <1>1, LogIsKept DEF Types
<1>3. /\ IsTask(me) /\ AnswerFits(me, events, leaves, lost) /\ me.answer <= Len(events)
      /\ \A s \in Tasks \ {t} : tasks[s].at \in Delivering => tasks[s].answer # me.answer
    BY <1>1, TypesOfTask DEF TaskShape, Answers
<1>4. \A s \in Tasks : tasks[s].at \in Delivering => tasks[s].answer \notin lost'
    BY <1>1 DEF Answers, AnswerFits
<1>. HIDE DEF me
<1>5. task.at = "ingested" /\ task.answer = me.answer /\ task.user = me.user /\ task.tx = me.tx
    BY DEF Task
<1>6. Become(t, task)
    BY <1>1, <1>3, EditAt
<1>. HIDE DEF task
<1>7. AnswerFits(task, events', leaves', lost')
    BY <1>1, <1>3, <1>5 DEF AnswerFits
<1>8. Answers'
    <2>1. task.answer <= Len(events')
        BY <1>1, <1>3, <1>5
    <2>. QED BY <1>2, <1>3, <1>4, <1>5, <1>6, <1>7, <2>1, AnswersStay
<1>9. tasks'[t] = task /\ \A s \in Tasks \ {t} : tasks'[s] = tasks[s]
    BY <1>6, Becomes
<1>10. Undelivered' = Undelivered
    <2>1. \A s \in Tasks : tasks'[s].answer = tasks[s].answer
        BY <1>5, <1>9 DEF me
    <2>2. {s \in Tasks : tasks'[s].at \in Delivering} = {s \in Tasks : tasks[s].at \in Delivering}
        BY <1>1, <1>5, <1>9 DEF Delivering, me
    <2>. QED BY <1>1, <2>1, <2>2 DEF Undelivered, Delivering
<1>. QED BY <1>8, <1>10

LEMMA ResumeKeepsAnswers ==
    ASSUME Types, Answers, NEW t \in Tasks, Resume(t)
    PROVE  /\ Answers'
           /\ tasks[t].answer \in Undelivered
           /\ Undelivered' = Undelivered \ {tasks[t].answer}
<1>. DEFINE me == tasks[t]
            e == me.answer
            task == tasks'[t]
<1>1. /\ me.at \in Delivering /\ UNCHANGED <<leaves, events, lost>>
      /\ \E new : Become(t, new)
    BY DEF Resume, Delivering, chainVars
<1>2. LogKept /\ Len(events') \in Nat
    BY <1>1, LogIsKept DEF Types
<1>3. /\ AnswerFits(me, events, leaves, lost) /\ e <= Len(events) /\ e \in Nat
      /\ \A s \in Tasks \ {t} : tasks[s].at \in Delivering => tasks[s].answer # e
    BY <1>1, TypesOfTask DEF TaskShape, Answers
<1>4. \A s \in Tasks : tasks[s].at \in Delivering => tasks[s].answer \notin lost'
    BY <1>1 DEF Answers, AnswerFits
<1>5. task.at \in {"idle", "checking"} /\ task.answer \in {0, e}
    <2>. DEFINE local == trees[Client(t)]
    <2>1. task = Idle \/ task = Task("checking", me.user, me.root, me.tx, me.fits, me.answer, local)
        BY ResumeKeepsTypes
    <2>. HIDE DEF task, me, local
    <2>2. CASE task = Idle
        BY <2>2, IdleShape
    <2>3. CASE task = Task("checking", me.user, me.root, me.tx, me.fits, me.answer, local)
        BY <2>3 DEF Task
    <2>. QED BY <2>1, <2>2, <2>3
<1>. HIDE DEF me
<1>6. Become(t, task) /\ \A s \in Tasks \ {t} : tasks'[s] = tasks[s]
    <2>1. PICK new : Become(t, new)
        BY <1>1
    <2>2. tasks'[t] = new /\ \A s \in Tasks \ {t} : tasks'[s] = tasks[s]
        BY <2>1, Becomes
    <2>. QED BY <2>1, <2>2
<1>7. Answers'
    <2>1. PICK new : new = task
        OBVIOUS
    <2>2. new.at \notin Delivering
        BY <1>5, <2>1 DEF Delivering
    <2>3. new.answer <= Len(events')
        BY <1>1, <1>2, <1>3, <1>5, <2>1
    <2>4. Become(t, new)
        BY <1>6, <2>1
    <2>. QED BY <1>2, <1>4, <2>2, <2>3, <2>4, AnswersStay
<1>8. e \in Undelivered
    BY <1>1 DEF Undelivered, Delivering, me
<1>9. Undelivered' = Undelivered \ {e}
    <2>1. {s \in Tasks : tasks'[s].at \in Delivering} = {s \in Tasks : tasks[s].at \in Delivering} \ {t}
        BY <1>5, <1>6 DEF Delivering
    <2>2. e \notin lost
        BY <1>3 DEF AnswerFits
    <2>. QED BY <1>1, <1>3, <1>6, <2>1, <2>2 DEF Undelivered, Delivering, me
<1>. QED BY <1>7, <1>8, <1>9 DEF me
------------------------------------------------------------------------------
(* Local trees. *)

(* Trees take leaves of the chain only and lose none; so what a flow has   *)
(* taken to check is still there when it checks.                           *)
TreesFit ==
    /\ \A c \in Clients : Range(trees[c]) \subseteq DOMAIN leaves /\ checked[c] <= Len(leaves)
    /\ \A t \in Tasks :
          tasks[t].at = "checking" => Begins(tasks[t].local, trees[ClientOf[tasks[t].user]])
    /\ CheckedTreeIsTheChains

(* What a flow takes to check is its client's whole tree. *)
ChecksFit ==
    \A t \in Tasks : tasks'[t].at = "checking" =>
        tasks'[t] = tasks[t] \/ tasks'[t].local = trees[ClientOf[tasks'[t].user]]

LEMMA TreesStay ==
    ASSUME Types, Types', TreesFit, ChecksFit, Len(leaves) <= Len(leaves'),
           \A c \in Clients : /\ Begins(trees[c], trees'[c])
                             /\ Range(trees'[c]) \subseteq DOMAIN leaves \cup DOMAIN leaves',
           \A c \in Clients : \/ checked'[c] = checked[c]
                             \/ /\ checked'[c] = Len(leaves)
                                /\ \E tree \in Seq(Nat) : SameRoot(tree, Len(leaves)) /\ Begins(tree, trees[c])
    PROVE  TreesFit'
<1>1. \A c \in Clients : /\ trees[c] \in Seq(Nat) /\ trees'[c] \in Seq(Nat)
                        /\ checked[c] \in Nat /\ checked'[c] \in Nat
    BY DEF Types
<1>2. Len(leaves) \in Nat /\ Len(leaves') \in Nat /\ DOMAIN leaves \subseteq DOMAIN leaves'
    BY DEF Types
<1>3. ASSUME NEW c \in Clients
      PROVE  /\ checked'[c] <= Len(trees[c]) /\ \A k \in 1 .. checked'[c] : trees[c][k] = k
             /\ checked'[c] <= Len(leaves')
    <2>1. CASE checked'[c] = checked[c]
        BY <1>1, <1>2, <2>1 DEF TreesFit, CheckedTreeIsTheChains
    <2>2. ASSUME checked'[c] = Len(leaves),
                 NEW tree \in Seq(Nat), SameRoot(tree, Len(leaves)), Begins(tree, trees[c])
          PROVE  /\ checked'[c] <= Len(trees[c]) /\ \A k \in 1 .. checked'[c] : trees[c][k] = k
                 /\ checked'[c] <= Len(leaves')
        BY <1>1, <1>2, <2>2 DEF SameRoot, Begins
    <2>. QED BY <2>1, <2>2
<1>4. ASSUME NEW c \in Clients
      PROVE  checked'[c] <= Len(trees'[c]) /\ \A k \in 1 .. checked'[c] : trees'[c][k] = k
    <2>. DEFINE a == trees[c]
                b == trees'[c]
                n == checked'[c]
    <2>1. Begins(a, b) /\ Len(a) \in Nat /\ Len(b) \in Nat /\ n \in Nat
        BY <1>1
    <2>2. n <= Len(a) /\ \A k \in 1 .. n : a[k] = k
        BY <1>3
    <2>. HIDE DEF a, b, n
    <2>3. n <= Len(b) /\ \A k \in 1 .. n : b[k] = k
        BY <2>1, <2>2 DEF Begins
    <2>. QED BY <2>3 DEF b, n
<1>5. ASSUME NEW t \in Tasks, tasks'[t].at = "checking"
      PROVE  Begins(tasks'[t].local, trees'[ClientOf[tasks'[t].user]])
    <2>. DEFINE c == ClientOf[tasks'[t].user]
    <2>1. c \in Clients /\ tasks'[t].local \in Seq(Nat)
        BY <1>5, UsersAssumption DEF Types, TaskShape
    <2>2. Begins(tasks'[t].local, trees[c])
        BY <1>1, <1>5, <2>1, BeginsReflexive DEF TreesFit, ChecksFit
    <2>. QED BY <1>1, <2>1, <2>2, BeginsTransitive
<1>. QED BY <1>2, <1>3, <1>4, <1>5 DEF TreesFit, CheckedTreeIsTheChains

LEMMA QuietKeepsTrees ==
    ASSUME Types, TreesFit, NEW t \in Tasks, Quiet(t), UNCHANGED checked \/ CheckRoot(t)
    PROVE  TreesFit'
<1>1. Types' /\ Types
    BY QuietKeepsTypes
<1>2. PICK task : /\ Become(t, task)
                  /\ task.at = "checking" => task.local = trees[ClientOf[task.user]]
                  /\ UNCHANGED <<leaves, trees>>
    BY DEF Quiet
<1>3. ChecksFit
    <2>1. tasks'[t] = task /\ \A s \in Tasks \ {t} : tasks'[s] = tasks[s]
        BY <1>2, Becomes
    <2>. QED BY <1>2, <2>1 DEF ChecksFit
<1>4. /\ \A c \in Clients : trees[c] \in Seq(Nat) /\ checked[c] \in Nat
      /\ Len(leaves) \in Nat /\ checked \in [Clients -> Nat]
    BY DEF Types
<1>5. \A c \in Clients : Begins(trees[c], trees'[c]) /\ Range(trees'[c]) \subseteq DOMAIN leaves
    BY <1>2, <1>4, BeginsReflexive DEF TreesFit
<1>6. ASSUME NEW c \in Clients
      PROVE  \/ checked'[c] = checked[c]
             \/ /\ checked'[c] = Len(leaves)
                /\ \E tree \in Seq(Nat) : SameRoot(tree, Len(leaves)) /\ Begins(tree, trees[c])
    <2>1. CASE UNCHANGED checked
        BY <2>1
    <2>2. CASE CheckRoot(t)
        <3>. DEFINE tree == tasks[t].local
        <3>1. tasks[t].at = "checking" /\ tree \in Seq(Nat) /\ Begins(tree, trees[Client(t)])
            BY <2>2, TypesOfTask DEF CheckRoot, TreesFit, Client, TaskShape
        <3>2. \/ checked' = checked
              \/ SameRoot(tree, Len(leaves)) /\ checked' = [checked EXCEPT ![Client(t)] = Len(leaves)]
            BY <2>2 DEF CheckRoot
        <3>. HIDE DEF tree
        <3>. QED BY <1>4, <3>1, <3>2
    <2>. QED BY <2>1, <2>2
<1>. QED BY <1>1, <1>2, <1>3, <1>4, <1>5, <1>6, TreesStay

LEMMA LandKeepsTrees ==
    ASSUME Types, Answers, TreesFit, NEW t \in Tasks, Land(t)
    PROVE  TreesFit'
<1>1. Types' /\ Types
    BY LandKeepsTypes
<1>2. ChecksFit
    BY LandKeepsAnswers DEF ChecksFit
<1>3. Len(leaves) <= Len(leaves')
    BY LandedIsLogged, SMTT(30)
<1>4. UNCHANGED <<trees, checked>>
    BY DEF Land
<1>5. \A c \in Clients : Begins(trees[c], trees'[c]) /\ Range(trees'[c]) \subseteq DOMAIN leaves
    BY <1>4, BeginsReflexive DEF TreesFit, Types
<1>. QED BY <1>1, <1>2, <1>3, <1>4, <1>5, TreesStay

LEMMA DeliveryKeepsTrees ==
    ASSUME Types, LogFits, Answers, TreesFit, NEW t \in Tasks, LoseAnswer(t) \/ Ingest(t) \/ Resume(t)
    PROVE  TreesFit'
<1>1. Types' /\ Types
    BY LoseKeepsTypes, IngestKeepsTypes, ResumeKeepsTypes
<1>2. UNCHANGED <<leaves, checked>> /\ Len(leaves) \in Nat
    BY DEF LoseAnswer, Ingest, Resume, chainVars, Types
<1>3. \A s \in Tasks \ {t} : tasks'[s] = tasks[s]
    BY Becomes DEF LoseAnswer, Ingest, Resume
<1>4. tasks'[t].at = "checking" => tasks'[t].local = trees[ClientOf[tasks'[t].user]]
    <2>1. CASE LoseAnswer(t)
        BY <2>1, Becomes, IdleShape DEF LoseAnswer
    <2>2. CASE Ingest(t)
        <3>1. tasks'[t] = Task("ingested", tasks[t].user, tasks[t].root, tasks[t].tx, tasks[t].fits,
                              tasks[t].answer, tasks[t].local)
            BY <2>2, IngestKeepsTypes
        <3>2. tasks'[t].at = "ingested"
            BY <3>1 DEF Task
        <3>. QED BY <3>2
    <2>3. CASE Resume(t)
        <3>. DEFINE me == tasks[t]
                    local == trees[Client(t)]
        <3>1. \/ tasks'[t] = Idle
              \/ tasks'[t] = Task("checking", me.user, me.root, me.tx, me.fits, me.answer, local)
            BY <2>3, ResumeKeepsTypes
        <3>2. local = trees[ClientOf[me.user]]
            BY DEF Client
        <3>. HIDE DEF me, local
        <3>. QED BY <3>1, <3>2, IdleShape DEF Task
    <2>. QED BY <2>1, <2>2, <2>3
<1>5. ChecksFit
    BY <1>3, <1>4 DEF ChecksFit
<1>6. \A c \in Clients : Begins(trees[c], trees'[c]) /\ Range(trees'[c]) \subseteq DOMAIN leaves
    <2>1. CASE UNCHANGED trees
        BY <2>1, BeginsReflexive DEF TreesFit, Types
    <2>2. CASE Ingest(t)
        <3>1. tasks[t].answer \in DOMAIN events
            BY <2>2 DEF Answers, AnswerFits, Ingest, Delivering
        <3>2. Created(tasks[t].answer) \subseteq DOMAIN leaves
            BY <3>1 DEF LogFits, EventFits, SealedAsCommitted, Created
        <3>. QED BY <2>2, <3>2, IngestKeepsTypes DEF TreesFit
    <2>. QED BY <2>1, <2>2 DEF LoseAnswer, Resume
<1>. QED BY <1>1, <1>2, <1>5, <1>6, TreesStay
------------------------------------------------------------------------------
(* Wallets. *)

LeavesOf(notes) == {notes[k].leafIndex : k \in DOMAIN notes}

(* Notes are of a user's leaves but some, each once and as committed.      *)
NotesFit(u, notes, ls, missing) ==
    /\ \A j, k \in DOMAIN notes : notes[j].leafIndex = notes[k].leafIndex => j = k
    /\ LeavesOf(notes) = OwnedIn(ls, u) \ missing
    /\ \A k \in DOMAIN notes : notes[k].note = ls[notes[k].leafIndex]

CreatedBy(es, E) == UNION {CreatedIn(es[e]) : e \in E}

SpentOf(es, E) == UNION {SpentIn(es[e]) : e \in E}

WalletsFit ==
    \A u \in Users :
        /\ NotesFit(u, wallets[u].notes, leaves, CreatedBy(events, Undelivered))
        /\ wallets[u].spent = (OwnedIn(leaves, u) \cap nullifiers) \ SpentOf(events, Undelivered)

LEMMA NotesFitMeans ==
    ASSUME NEW notes, NEW u, NEW ls, NEW missing
    PROVE  NotesFit(u, notes, ls, missing) <=>
              /\ IsInjective([k \in DOMAIN notes |-> notes[k].leafIndex])
              /\ Range([k \in DOMAIN notes |-> notes[k].leafIndex]) = OwnedIn(ls, u) \ missing
              /\ \A k \in DOMAIN notes :
                    notes[k].note = ls[[i \in DOMAIN notes |-> notes[i].leafIndex][k]]
<1>. DEFINE known == [k \in DOMAIN notes |-> notes[k].leafIndex]
<1>1. IsInjective(known) <=>
        \A j, k \in DOMAIN notes : notes[j].leafIndex = notes[k].leafIndex => j = k
    BY DEF IsInjective
<1>2. Range(known) = LeavesOf(notes)
    BY DEF Range, LeavesOf
<1>3. \A k \in DOMAIN notes : known[k] = notes[k].leafIndex
    OBVIOUS
<1>. HIDE DEF known
<1>4. NotesFit(u, notes, ls, missing) <=>
              /\ IsInjective(known)
              /\ Range(known) = OwnedIn(ls, u) \ missing
              /\ \A k \in DOMAIN notes : notes[k].note = ls[known[k]]
    BY <1>1, <1>2, <1>3 DEF NotesFit
<1>. QED BY <1>4 DEF known

LEMMA WalletsFitMeans == WalletsFit <=> WalletMatchesChain
<1>. DEFINE created == UNION {Created(e) : e \in Undelivered}
            spent == UNION {SpentBy(e) : e \in Undelivered}
<1>1. CreatedBy(events, Undelivered) = created /\ SpentOf(events, Undelivered) = spent
    BY Readings DEF CreatedBy, SpentOf
<1>2. \A u : OwnedIn(leaves, u) = Owned(u)
    BY Readings
<1>. HIDE DEF created, spent
<1>3. WalletsFit <=> \A u \in Users :
        /\ NotesFit(u, wallets[u].notes, leaves, created)
        /\ wallets[u].spent = (Owned(u) \cap nullifiers) \ spent
    BY <1>1, <1>2 DEF WalletsFit
<1>4. ASSUME NEW u \in Users
      PROVE  NotesFit(u, wallets[u].notes, leaves, created) <=>
              LET notes == wallets[u].notes
                  known == [k \in DOMAIN notes |-> notes[k].leafIndex]
              IN  /\ IsInjective(known)
                  /\ Range(known) = Owned(u) \ created
                  /\ \A k \in DOMAIN notes : notes[k].note = leaves[known[k]]
    <2>. DEFINE notes == wallets[u].notes
    <2>. HIDE DEF notes
    <2>1. NotesFit(u, notes, leaves, created) <=>
              /\ IsInjective([k \in DOMAIN notes |-> notes[k].leafIndex])
              /\ Range([k \in DOMAIN notes |-> notes[k].leafIndex]) = Owned(u) \ created
              /\ \A k \in DOMAIN notes :
                    notes[k].note = leaves[[i \in DOMAIN notes |-> notes[i].leafIndex][k]]
        BY <1>2, NotesFitMeans
    <2>. QED BY <2>1 DEF notes
<1>. DEFINE Fits(u) == NotesFit(u, wallets[u].notes, leaves, created)
            Known(u) == LET notes == wallets[u].notes
                            known == [k \in DOMAIN notes |-> notes[k].leafIndex]
                        IN  /\ IsInjective(known)
                            /\ Range(known) = Owned(u) \ created
                            /\ \A k \in DOMAIN notes : notes[k].note = leaves[known[k]]
            Marked(u) == wallets[u].spent = (Owned(u) \cap nullifiers) \ spent
<1>5. WalletMatchesChain <=> \A u \in Users : Known(u) /\ Marked(u)
    BY DEF WalletMatchesChain, created, spent
<1>6. WalletsFit <=> \A u \in Users : Fits(u) /\ Marked(u)
    BY <1>3
<1>7. \A u \in Users : Fits(u) <=> Known(u)
    BY <1>4
<1>. HIDE DEF Fits, Known, Marked
<1>. QED BY <1>5, <1>6, <1>7

(* A scan of a log of committed leaves finds exactly the user's. *)
LEMMA ScanFindsOwned ==
    ASSUME NEW u, NEW cts \in Seq(LeafCt), NEW ls, EachOnce(cts),
           \A k \in DOMAIN cts : SealedAsCommitted(cts[k], ls)
    PROVE  LET found == ScanNotes(u, cts) IN
           /\ \A i, j \in DOMAIN found : found[i].leafIndex = found[j].leafIndex => i = j
           /\ LeavesOf(found) = {i \in {cts[k].leafIndex : k \in DOMAIN cts} : ls[i].owner = u}
           /\ \A j \in DOMAIN found : found[j].note = ls[found[j].leafIndex]
<1>. DEFINE found == ScanNotes(u, cts)
            n == Len(cts)
            Of == {Discovery(cts[k]) : k \in {k \in 1 .. n : Opens(u, cts[k])}}
<1>1. n \in Nat /\ DOMAIN cts = 1 .. n
    OBVIOUS
<1>2. FoundAmong(found, u, cts, n)
    BY <1>1, ScanFindsWhatOpens
<1>. HIDE DEF found, n
<1>3. /\ found \in Seq(Of)
      /\ \A k \in 1 .. n : Opens(u, cts[k]) => \E j \in DOMAIN found : found[j] = Discovery(cts[k])
      /\ \A i, j \in DOMAIN found : i < j =>
            \E k, l \in 1 .. n : k < l /\ found[i] = Discovery(cts[k]) /\ found[j] = Discovery(cts[l])
    BY <1>2 DEF FoundAmong
<1>4. ASSUME NEW k \in 1 .. n
      PROVE  /\ Discovery(cts[k]).leafIndex = cts[k].leafIndex
             /\ Discovery(cts[k]).note = ls[cts[k].leafIndex]
             /\ Opens(u, cts[k]) <=> ls[cts[k].leafIndex].owner = u
    <2>1. cts[k].sealed = Sealed(ls[cts[k].leafIndex].owner, ls[cts[k].leafIndex])
        BY <1>1 DEF SealedAsCommitted
    <2>2. /\ cts[k].sealed.holder = ls[cts[k].leafIndex].owner
          /\ cts[k].sealed.payload = ls[cts[k].leafIndex]
        BY <2>1 DEF Sealed
    <2>. QED BY <2>2 DEF Discovery, Opens
<1>5. \A j \in DOMAIN found : \E k \in 1 .. n : Opens(u, cts[k]) /\ found[j] = Discovery(cts[k])
    <2>. SUFFICES ASSUME NEW j \in DOMAIN found
                  PROVE  \E k \in 1 .. n : Opens(u, cts[k]) /\ found[j] = Discovery(cts[k])
        OBVIOUS
    <2>1. found[j] \in Of
        <3>. HIDE DEF Of
        <3>. QED BY <1>3
    <2>. QED BY <2>1
<1>6. \A j \in DOMAIN found : found[j].note = ls[found[j].leafIndex]
    BY <1>4, <1>5
<1>7. LeavesOf(found) = {i \in {cts[k].leafIndex : k \in DOMAIN cts} : ls[i].owner = u}
    <2>1. ASSUME NEW j \in DOMAIN found
          PROVE  found[j].leafIndex \in {cts[k].leafIndex : k \in 1 .. n} /\ ls[found[j].leafIndex].owner = u
        <3>1. PICK k \in 1 .. n : Opens(u, cts[k]) /\ found[j] = Discovery(cts[k])
            BY <1>5
        <3>. QED BY <1>4, <3>1
    <2>2. ASSUME NEW k \in 1 .. n, ls[cts[k].leafIndex].owner = u
          PROVE  cts[k].leafIndex \in LeavesOf(found)
        <3>1. PICK j \in DOMAIN found : found[j] = Discovery(cts[k])
            BY <1>3, <1>4, <2>2
        <3>2. found[j].leafIndex = cts[k].leafIndex
            BY <1>4, <3>1
        <3>. QED BY <3>2 DEF LeavesOf
    <2>. QED BY <1>1, <2>1, <2>2 DEF LeavesOf
<1>8. ASSUME NEW i \in DOMAIN found, NEW j \in DOMAIN found, i < j
      PROVE  found[i].leafIndex # found[j].leafIndex
    <2>1. PICK k \in 1 .. n, l \in 1 .. n :
            k < l /\ found[i] = Discovery(cts[k]) /\ found[j] = Discovery(cts[l])
        BY <1>3, <1>8
    <2>2. cts[k].leafIndex # cts[l].leafIndex
        BY <1>1, <2>1 DEF EachOnce
    <2>. QED BY <1>4, <2>1, <2>2
<1>9. \A i, j \in DOMAIN found : found[i].leafIndex = found[j].leafIndex => i = j
    <2>1. DOMAIN found \subseteq Nat
        <3>. HIDE DEF Of
        <3>. QED BY <1>3
    <2>2. \A i, j \in DOMAIN found : i < j \/ j < i \/ i = j
        BY <2>1
    <2>. QED BY <1>8, <2>2
<1>. QED BY <1>6, <1>7, <1>9 DEF found

(* And so the wallet that scans it knows all it did and these. *)
LEMMA ScanFitsNotes ==
    ASSUME NEW u, NEW notes \in Seq(FoundNote), NEW cts \in Seq(LeafCt), NEW ls, EachOnce(cts),
           ScanNotes(u, cts) \in Seq(FoundNote),
           \A k \in DOMAIN cts : SealedAsCommitted(cts[k], ls),
           NEW missing, NEW still,
           NotesFit(u, notes, ls, missing),
           missing = still \cup {cts[k].leafIndex : k \in DOMAIN cts},
           still \cap {cts[k].leafIndex : k \in DOMAIN cts} = {}
    PROVE  NotesFit(u, notes \o ScanNotes(u, cts), ls, still)
<1>. DEFINE found == ScanNotes(u, cts)
            all == notes \o found
            new == {cts[k].leafIndex : k \in DOMAIN cts}
            n == Len(notes)
            m == Len(found)
<1>1. /\ \A i, j \in DOMAIN found : found[i].leafIndex = found[j].leafIndex => i = j
      /\ LeavesOf(found) = {i \in new : ls[i].owner = u}
      /\ \A j \in DOMAIN found : found[j].note = ls[found[j].leafIndex]
    BY ScanFindsOwned
<1>2. new \subseteq DOMAIN ls
    BY DEF SealedAsCommitted
<1>3. /\ n \in Nat /\ DOMAIN notes = 1 .. n /\ m \in Nat /\ DOMAIN found = 1 .. m
      /\ DOMAIN all = 1 .. n + m
      /\ \A k \in 1 .. n : all[k] = notes[k]
      /\ \A k \in 1 .. m : all[n + k] = found[k]
    <2>. HIDE DEF found
    <2>. QED BY DEF found
<1>. HIDE DEF found, new, all, n, m
<1>4. /\ \A j, k \in DOMAIN notes : notes[j].leafIndex = notes[k].leafIndex => j = k
      /\ LeavesOf(notes) = OwnedIn(ls, u) \ (still \cup new) /\ still \cap new = {}
      /\ \A k \in DOMAIN notes : notes[k].note = ls[notes[k].leafIndex]
    BY DEF NotesFit, new
<1>5. \A k \in DOMAIN all : k \in 1 .. n \/ (k - n \in 1 .. m /\ k = n + (k - n))
    BY <1>3
<1>6. \A k \in DOMAIN all :
        \/ k \in DOMAIN notes /\ all[k] = notes[k]
        \/ k - n \in DOMAIN found /\ all[k] = found[k - n]
    BY <1>3, <1>5
<1>7. \A k \in DOMAIN all : all[k].note = ls[all[k].leafIndex]
    BY <1>1, <1>4, <1>6
<1>8. LeavesOf(all) = LeavesOf(notes) \cup LeavesOf(found)
    <2>1. \A k \in DOMAIN notes : k \in DOMAIN all /\ all[k] = notes[k]
        BY <1>3
    <2>2. \A k \in DOMAIN found : n + k \in DOMAIN all /\ all[n + k] = found[k]
        BY <1>3
    <2>. QED BY <1>6, <2>1, <2>2 DEF LeavesOf
<1>9. LeavesOf(all) = OwnedIn(ls, u) \ still
    BY <1>1, <1>2, <1>4, <1>8 DEF OwnedIn
<1>10. \A j, k \in DOMAIN all : all[j].leafIndex = all[k].leafIndex => j = k
    <2>1. \A k \in DOMAIN notes : notes[k].leafIndex \notin new
        BY <1>4 DEF LeavesOf
    <2>2. \A k \in DOMAIN found : found[k].leafIndex \in new
        BY <1>1 DEF LeavesOf
    <2>. SUFFICES ASSUME NEW j \in DOMAIN all, NEW k \in DOMAIN all, all[j].leafIndex = all[k].leafIndex
                  PROVE  j = k
        OBVIOUS
    <2>3. CASE k - n \in DOMAIN found /\ all[k] = found[k - n] /\ j - n \in DOMAIN found /\ all[j] = found[j - n]
        <3>1. k - n = j - n
            BY <1>1, <2>3
        <3>. QED BY <1>3, <3>1
    <2>. QED BY <1>4, <1>6, <2>1, <2>2, <2>3
<1>. QED BY <1>7, <1>9, <1>10 DEF NotesFit, all, found

(* A landing hides what it creates and spends until its answer arrives.    *)
LEMMA UndeliveredAreLogged ==
    ASSUME Types, Answers
    PROVE  Undelivered \subseteq DOMAIN events
BY DEF Types, Answers, AnswerFits, Undelivered, Delivering

LEMMA OutstandingKept ==
    ASSUME UNCHANGED <<leaves, nullifiers, events, wallets>>, WalletsFit, Undelivered' = Undelivered
    PROVE  WalletsFit'
BY DEF WalletsFit

LEMMA LandKeepsNotes ==
    ASSUME NEW u, NEW notes, NEW ls, NEW more, NEW missing, NEW new,
           NotesFit(u, notes, ls, missing),
           OwnedIn(more, u) \ new = OwnedIn(ls, u),
           \A i \in DOMAIN ls : more[i] = ls[i]
    PROVE  NotesFit(u, notes, more, missing \cup new)
<1>1. LeavesOf(notes) = OwnedIn(ls, u) \ missing
    BY DEF NotesFit
<1>2. LeavesOf(notes) = OwnedIn(more, u) \ (missing \cup new)
    BY <1>1
<1>3. \A k \in DOMAIN notes : notes[k].leafIndex \in DOMAIN ls
    BY <1>1 DEF LeavesOf, OwnedIn
<1>. QED BY <1>2, <1>3 DEF NotesFit

LEMMA LandKeepsWallets ==
    ASSUME Types, Answers, WalletsFit, NEW t \in Tasks, Land(t)
    PROVE  WalletsFit'
<1>. DEFINE last == Len(events')
            new == CreatedIn(events'[last])
            used == SpentIn(events'[last])
            created == CreatedBy(events, Undelivered)
            spent == SpentOf(events, Undelivered)
            tx == tasks[t].tx
<1>1. /\ \A e \in DOMAIN events : events'[e] = events[e]
      /\ \A i \in DOMAIN leaves : i \in DOMAIN leaves' /\ leaves'[i] = leaves[i]
      /\ \A u : OwnedIn(leaves', u) = OwnedIn(leaves, u)
                    \cup {i \in {Len(leaves) + k : k \in 1 .. Len(tx.creates)} : leaves'[i].owner = u}
      /\ new = {Len(leaves) + k : k \in 1 .. Len(tx.creates)} /\ used = Range(tx.spends)
      /\ \A k \in 1 .. Len(tx.creates) : Len(leaves) + k \notin DOMAIN leaves
    BY LandedEvent
<1>2. Undelivered' = Undelivered \cup {last} /\ Undelivered \subseteq DOMAIN events
    BY LandKeepsAnswers, UndeliveredAreLogged
<1>3. /\ UNCHANGED wallets /\ nullifiers' = nullifiers \cup Range(tx.spends)
      /\ Range(tx.spends) \cap nullifiers = {} /\ nullifiers \subseteq DOMAIN leaves
    BY LandedIsOwned DEF Land, Types
<1>4. CreatedBy(events', Undelivered') = created \cup new
    BY <1>1, <1>2 DEF CreatedBy
<1>5. SpentOf(events', Undelivered') = spent \cup used
    BY <1>1, <1>2 DEF SpentOf
<1>6. new \cap DOMAIN leaves = {} /\ used \cap nullifiers = {} /\ nullifiers' = nullifiers \cup used
    BY <1>1, <1>3
<1>7. \A u : OwnedIn(leaves', u) \ new = OwnedIn(leaves, u)
    <2>1. \A u : OwnedIn(leaves, u) \subseteq DOMAIN leaves
        BY DEF OwnedIn
    <2>. HIDE DEF new
    <2>. QED BY <1>1, <1>6, <2>1
<1>. HIDE DEF new, used, created, spent, tx
<1>8. ASSUME NEW u \in Users
      PROVE  /\ NotesFit(u, wallets'[u].notes, leaves', created \cup new)
             /\ wallets'[u].spent = (OwnedIn(leaves', u) \cap nullifiers') \ (spent \cup used)
    <2>1. /\ NotesFit(u, wallets[u].notes, leaves, created)
          /\ wallets[u].spent = (OwnedIn(leaves, u) \cap nullifiers) \ spent
        BY DEF WalletsFit, created, spent
    <2>2. NotesFit(u, wallets[u].notes, leaves', created \cup new)
        <3>. DEFINE notes == wallets[u].notes
        <3>1. NotesFit(u, notes, leaves, created) /\ OwnedIn(leaves', u) \ new = OwnedIn(leaves, u)
            BY <1>7, <2>1
        <3>. HIDE DEF notes
        <3>2. NotesFit(u, notes, leaves', created \cup new)
            BY <1>1, <3>1, LandKeepsNotes
        <3>. QED BY <3>2 DEF notes
    <2>3. OwnedIn(leaves', u) \cap nullifiers = OwnedIn(leaves, u) \cap nullifiers
        <3>1. nullifiers \cap new = {}
            BY <1>3, <1>6
        <3>. QED BY <1>7, <3>1
    <2>. QED BY <1>3, <1>6, <2>1, <2>2, <2>3
<1>. QED BY <1>4, <1>5, <1>8 DEF WalletsFit

(* An answer brings everybody their leaves and the user the spent ones.    *)
LEMMA ResumeKeepsWallets ==
    ASSUME Types, LogFits, Answers, WalletsFit, NEW t \in Tasks, Resume(t)
    PROVE  WalletsFit'
<1>. DEFINE e == tasks[t].answer
            u0 == tasks[t].user
            new == CreatedIn(events[e])
            used == SpentIn(events[e])
            created == CreatedBy(events, Undelivered)
            spent == SpentOf(events, Undelivered)
            cts == Logs(t)
<1>1. /\ e \in Undelivered /\ Undelivered' = Undelivered \ {e}
      /\ Undelivered \subseteq DOMAIN events /\ UNCHANGED <<leaves, nullifiers, events>>
    BY ResumeKeepsAnswers, UndeliveredAreLogged DEF Resume, chainVars
<1>2. tasks[t].at \in Delivering
    BY DEF Resume, Delivering
<1>3. /\ AnswerFits(tasks[t], events, leaves, lost)
      /\ cts \in Seq(LeafCt) /\ new = {cts[k].leafIndex : k \in DOMAIN cts}
    BY <1>2, LogOfAnswer DEF Answers, CreatedIn, Logs
<1>4. /\ EachOnce(cts) /\ \A k \in DOMAIN cts : SealedAsCommitted(cts[k], leaves)
      /\ used \subseteq nullifiers
    BY <1>1 DEF LogFits, EventFits, Logs
<1>5. used = Range(tasks[t].tx.spends) /\ used \subseteq OwnedIn(leaves, u0)
    BY <1>3 DEF AnswerFits, SpentIn
<1>6. \A v \in Users :
         /\ wallets'[v].notes = wallets[v].notes \o ScanNotes(v, cts)
         /\ ScanNotes(v, cts) \in Seq(FoundNote)
         /\ wallets'[v].spent = IF v = u0 THEN wallets[v].spent \cup used ELSE wallets[v].spent
    BY <1>5, ResumeKeepsTypes
<1>7. \A v \in Users : wallets[v].notes \in Seq(FoundNote)
    BY DEF Types, WalletSet, WalletsOf
<1>. DEFINE created2 == CreatedBy(events, Undelivered \ {e})
            spent2 == SpentOf(events, Undelivered \ {e})
<1>8. /\ created = created2 \cup new /\ created2 \cap new = {}
      /\ spent = spent2 \cup used /\ spent2 \cap used = {}
    <2>1. \A f \in Undelivered \ {e} : Apart(events[f], events[e])
        BY <1>1 DEF LogFits
    <2>. QED BY <1>1, <2>1 DEF Apart, CreatedBy, SpentOf
<1>9. created2 = CreatedBy(events', Undelivered') /\ spent2 = SpentOf(events', Undelivered')
    BY <1>1
<1>. HIDE DEF e, u0, new, used, created, spent, cts, created2, spent2
<1>10. ASSUME NEW v \in Users
       PROVE  /\ NotesFit(v, wallets'[v].notes, leaves, created2)
              /\ wallets'[v].spent = (OwnedIn(leaves, v) \cap nullifiers) \ spent2
    <2>. DEFINE notes == wallets[v].notes
    <2>1. /\ NotesFit(v, notes, leaves, created)
          /\ wallets[v].spent = (OwnedIn(leaves, v) \cap nullifiers) \ spent
        BY DEF WalletsFit, created, spent
    <2>2. notes \in Seq(FoundNote) /\ ScanNotes(v, cts) \in Seq(FoundNote)
        BY <1>6, <1>7
    <2>3. /\ created = created2 \cup {cts[k].leafIndex : k \in DOMAIN cts}
          /\ created2 \cap {cts[k].leafIndex : k \in DOMAIN cts} = {}
        BY <1>3, <1>8
    <2>4. wallets'[v].notes = notes \o ScanNotes(v, cts)
        BY <1>6
    <2>. HIDE DEF notes
    <2>5. NotesFit(v, notes \o ScanNotes(v, cts), leaves, created2)
        BY <1>3, <1>4, <2>1, <2>2, <2>3, ScanFitsNotes
    <2>6. CASE v = u0
        BY <1>4, <1>5, <1>6, <1>8, <2>1, <2>4, <2>5, <2>6
    <2>7. CASE v # u0
        <3>1. OwnedIn(leaves, v) \cap used = {}
            BY <1>5, <2>7 DEF OwnedIn
        <3>. QED BY <1>6, <1>8, <2>1, <2>4, <2>5, <2>7, <3>1
    <2>. QED BY <2>6, <2>7
<1>. QED BY <1>1, <1>9, <1>10 DEF WalletsFit

------------------------------------------------------------------------------
(* The invariant. *)

Inv == Types /\ LogFits /\ Answers /\ TreesFit /\ WalletsFit

LEMMA InvInit == Init => Inv
<1>. SUFFICES ASSUME Init PROVE Inv
    OBVIOUS
<1>1. /\ leaves = <<>> /\ nullifiers = {} /\ events = <<>> /\ lost = {}
      /\ recent_roots = NewWindow(ROOTS_WINDOW)
      /\ wallets = [u \in Users |-> NewWallet] /\ trees = [c \in Clients |-> <<>>]
      /\ checked = [c \in Clients |-> 0] /\ tasks = [t \in Tasks |-> Idle]
    BY DEF Init
<1>2. NewWallet \in WalletSet /\ NewWallet.notes = <<>> /\ NewWallet.spent = {}
    BY DEF NewWallet, WalletSet, WalletsOf
<1>3. \A S : <<>> \in Seq(S)
    OBVIOUS
<1>4. DOMAIN <<>> = {} /\ Len(<<>>) = 0
    OBVIOUS
<1>5. Types
    <2>1. IsWindow(recent_roots, ROOTS_WINDOW, Nat)
        BY <1>1, BoundsAreNat, NewWindowIsWindow
    <2>2. tasks = [t \in Tasks |-> tasks[t]] /\ \A t \in Tasks : TaskShape(tasks[t])
        BY <1>1, IdleShape
    <2>. QED BY <1>1, <1>2, <1>3, <2>1, <2>2 DEF Types
<1>6. \A t \in Tasks : tasks[t].at = "idle" /\ tasks[t].answer = 0
    BY <1>1, IdleShape
<1>7. Undelivered = {}
    BY <1>1, <1>6 DEF Undelivered
<1>8. LogFits
    BY <1>1, <1>4 DEF LogFits
<1>9. Answers
    BY <1>1, <1>4, <1>6 DEF Answers, Delivering
<1>10. TreesFit
    <2>1. \A c \in Clients : trees[c] = <<>> /\ checked[c] = 0
        BY <1>1
    <2>2. \A c \in Clients : Range(trees[c]) \subseteq DOMAIN leaves /\ checked[c] <= Len(leaves)
        BY <1>1, <1>4, <2>1 DEF Range
    <2>3. CheckedTreeIsTheChains
        BY <1>4, <2>1 DEF CheckedTreeIsTheChains
    <2>. QED BY <1>6, <2>2, <2>3 DEF TreesFit
<1>11. WalletsFit
    <2>1. \A u \in Users : wallets[u].notes = <<>> /\ wallets[u].spent = {}
        BY <1>1, <1>2
    <2>2. \A u : OwnedIn(leaves, u) = {}
        BY <1>1, <1>4 DEF OwnedIn
    <2>3. LeavesOf(<<>>) = {}
        BY <1>4 DEF LeavesOf
    <2>. QED BY <1>4, <2>1, <2>2, <2>3 DEF WalletsFit, NotesFit
<1>. QED BY <1>5, <1>8, <1>9, <1>10, <1>11 DEF Inv

LEMMA NextSteps ==
    ASSUME Types, Next
    PROVE  \E t \in Tasks :
              \/ Quiet(t) /\ (UNCHANGED checked \/ CheckRoot(t))
              \/ Land(t) \/ LoseAnswer(t) \/ Ingest(t) \/ Resume(t)
<1>1. PICK t \in Tasks :
        \/ \E u \in Users :
              \/ ReadRoot(t, u)
              \/ \E amount \in DepositAmounts, auditor \in Auditors :
                    StartDeposit(t, u, amount, auditor)
        \/ \E amount \in Amounts :
              \/ \E recipient \in Users, auditor \in Auditors :
                    StartTransfer(t, amount, recipient, auditor)
              \/ \E fee \in 0 .. FeeUsdcBase : StartWithdraw(t, amount, fee)
        \/ Land(t) \/ Throw(t) \/ RefundDeposit(t) \/ LoseAnswer(t)
        \/ Ingest(t) \/ Resume(t) \/ CheckRoot(t)
    BY Zenon DEF Next
<1>2. \/ Quiet(t) /\ (UNCHANGED checked \/ CheckRoot(t))
      \/ Land(t) \/ LoseAnswer(t) \/ Ingest(t) \/ Resume(t)
    BY <1>1, QuietSteps DEF ReadRoot, StartDeposit, StartTransfer, StartWithdraw, Throw, RefundDeposit
<1>. QED BY <1>2

LEMMA InvNext == Inv /\ [Next]_vars => Inv'
<1>. SUFFICES ASSUME Types, LogFits, Answers, TreesFit, WalletsFit, [Next]_vars PROVE Inv'
    BY DEF Inv
<1>1. CASE UNCHANGED vars
    <2>. USE <1>1 DEF vars
    <2>1. Types'
        BY DEF Types
    <2>2. LogFits'
        BY DEF LogFits
    <2>3. Answers' /\ Undelivered' = Undelivered
        BY DEF Answers, Undelivered
    <2>4. TreesFit'
        BY DEF TreesFit, CheckedTreeIsTheChains
    <2>5. WalletsFit'
        BY <2>3, OutstandingKept
    <2>. QED BY <2>1, <2>2, <2>3, <2>4, <2>5 DEF Inv
<1>2. ASSUME NEW t \in Tasks, Quiet(t), UNCHANGED checked \/ CheckRoot(t) PROVE Inv'
    <2>1. UNCHANGED <<leaves, nullifiers, events, wallets>>
        BY <1>2 DEF Quiet
    <2>2. LogFits'
        BY <2>1 DEF LogFits
    <2>3. Types'
        BY <1>2, QuietKeepsTypes
    <2>4. Answers' /\ Undelivered' = Undelivered
        BY <1>2, QuietKeepsAnswers
    <2>5. TreesFit'
        BY <1>2, QuietKeepsTrees
    <2>6. WalletsFit'
        BY <2>1, <2>4, OutstandingKept
    <2>. QED BY <2>2, <2>3, <2>4, <2>5, <2>6 DEF Inv
<1>3. ASSUME NEW t \in Tasks, Land(t) PROVE Inv'
    BY <1>3, LandKeepsTypes, LandKeepsLog, LandKeepsAnswers, LandKeepsTrees, LandKeepsWallets DEF Inv
<1>4. ASSUME NEW t \in Tasks, LoseAnswer(t) \/ Ingest(t) PROVE Inv'
    <2>1. UNCHANGED <<leaves, nullifiers, events, wallets>>
        BY <1>4 DEF LoseAnswer, Ingest, chainVars
    <2>2. LogFits'
        BY <2>1 DEF LogFits
    <2>3. Types'
        BY <1>4, LoseKeepsTypes, IngestKeepsTypes
    <2>4. Answers' /\ Undelivered' = Undelivered
        BY <1>4, LoseKeepsAnswers, IngestKeepsAnswers
    <2>5. TreesFit'
        BY <1>4, DeliveryKeepsTrees
    <2>6. WalletsFit'
        BY <2>1, <2>4, OutstandingKept
    <2>. QED BY <2>2, <2>3, <2>4, <2>5, <2>6 DEF Inv
<1>5. ASSUME NEW t \in Tasks, Resume(t) PROVE Inv'
    <2>1. LogFits'
        BY <1>5 DEF Resume, chainVars, LogFits
    <2>. QED BY <1>5, <2>1, ResumeKeepsTypes, ResumeKeepsAnswers, DeliveryKeepsTrees,
                ResumeKeepsWallets DEF Inv
<1>6. CASE Next
    BY <1>2, <1>3, <1>4, <1>5, <1>6, NextSteps
<1>. QED BY <1>1, <1>6

LEMMA Invariance == Spec => []Inv
<1>. QED BY InvInit, InvNext, PTL DEF Spec

(* Types: what the users' side keeps of the chain is of leaves and answers *)
(* the chain has. *)
THEOREM TypeCorrect == Spec => []TypeOK
<1>1. Inv => TypeOK
    <2>. SUFFICES ASSUME Inv PROVE TypeOK
        OBVIOUS
    <2>1. \A u \in Users : wallets[u].spent \subseteq DOMAIN leaves
        BY DEF Inv, WalletsFit, OwnedIn
    <2>2. \A t \in Tasks : tasks[t].answer \in 0 .. Len(events)
        <3>1. Len(events) \in Nat /\ \A t \in Tasks : tasks[t].answer \in Nat
            BY DEF Inv, Types, TaskShape
        <3>. QED BY <3>1 DEF Inv, Answers
    <2>. QED BY <2>1, <2>2 DEF TypeOK, Inv, Types, TreesFit
<1>. QED BY <1>1, Invariance, PTL

(* Whoever's flows interleave, and whichever answers are on their way or   *)
(* lost, a wallet knows each note of its user that it was told of, once    *)
(* and as committed, and marks spent exactly what is (wallet.ts). *)
THEOREM WalletsMatch == Spec => []WalletMatchesChain
<1>1. Inv => WalletMatchesChain
    BY WalletsFitMeans DEF Inv
<1>. QED BY <1>1, Invariance, PTL

(* Whatever is ingested after a passed check of the root, in any order     *)
(* and any number of times, the tree that was checked stays in its place   *)
(* (pool-client.ts). *)
THEOREM ChecksAreForGood == Spec => []CheckedTreeIsTheChains
<1>1. Inv => CheckedTreeIsTheChains
    BY DEF Inv, TreesFit
<1>. QED BY <1>1, Invariance, PTL

------------------------------------------------------------------------------
(* Balances. *)

LEMMA LeavesAreFinite ==
    ASSUME Types
    PROVE  /\ IsFiniteSet(DOMAIN leaves)
           /\ \A i \in DOMAIN leaves : leaves[i] \in NoteSet /\ leaves[i].amount \in Nat
<1>1. Len(leaves) \in Nat /\ DOMAIN leaves = 1 .. Len(leaves)
    BY DEF Types
<1>2. \A i \in DOMAIN leaves : leaves[i] \in NoteSet
    BY DEF Types
<1>3. IsFiniteSet(DOMAIN leaves)
    BY <1>1, FS_Interval
<1>. QED BY <1>2, <1>3 DEF NoteSet

(* Once no answer is outstanding, a wallet's unspent notes and the user's  *)
(* unspent leaves are worth the same: they are each other's, one by one.   *)
LEMMA SettledBalance ==
    ASSUME Types, WalletsFit, Undelivered = {}, NEW u \in Users
    PROVE  Balance(wallets[u]) = Holding(u)
<1>. DEFINE w == wallets[u]
            ns == w.notes
            p == [k \in DOMAIN ns |-> ns[k].leafIndex]
            D == {k \in DOMAIN ns : IsUnspent(w, k)}
            E == Owned(u) \cap Unspent
            f == [k \in DOMAIN ns |-> ns[k].note.amount]
            h == [i \in DOMAIN leaves |-> leaves[i].amount]
<1>1. CreatedBy(events, Undelivered) = {} /\ SpentOf(events, Undelivered) = {}
    BY DEF CreatedBy, SpentOf
<1>2. NotesFit(u, ns, leaves, {}) /\ w.spent = OwnedIn(leaves, u) \cap nullifiers
    BY <1>1 DEF WalletsFit
<1>3. /\ \A j, k \in DOMAIN ns : ns[j].leafIndex = ns[k].leafIndex => j = k
      /\ LeavesOf(ns) = OwnedIn(leaves, u)
      /\ \A k \in DOMAIN ns : ns[k].note = leaves[ns[k].leafIndex]
    BY <1>2 DEF NotesFit
<1>4. IsFiniteSet(DOMAIN ns) /\ IsFiniteSet(D)
    <2>1. w \in WalletSet
        BY DEF Types
    <2>2. Len(ns) \in Nat /\ DOMAIN ns = 1 .. Len(ns)
        BY <2>1 DEF WalletSet, WalletsOf
    <2>3. D \subseteq DOMAIN ns
        OBVIOUS
    <2>. HIDE DEF D, ns
    <2>4. IsFiniteSet(DOMAIN ns)
        BY <2>2, FS_Interval
    <2>. QED BY <2>3, <2>4, FS_Subset
<1>5. E = {i \in OwnedIn(leaves, u) : i \notin nullifiers} /\ E \subseteq DOMAIN leaves
    BY Readings DEF Unspent, OwnedIn
<1>6. IsFiniteSet(E)
    BY <1>5, LeavesAreFinite, FS_Subset
<1>7. \A k \in DOMAIN ns : ns[k].leafIndex \in OwnedIn(leaves, u)
    BY <1>3 DEF LeavesOf
<1>8. \A k \in DOMAIN ns : k \in D <=> ns[k].leafIndex \notin nullifiers
    BY <1>2, <1>7 DEF IsUnspent
<1>9. /\ \A k \in DOMAIN ns : p[k] = ns[k].leafIndex /\ f[k] = ns[k].note.amount
      /\ \A i \in DOMAIN leaves : h[i] = leaves[i].amount
      /\ D \subseteq DOMAIN ns
    OBVIOUS
<1>10. Balance(w) = SumFunctionOnSet(f, D) /\ Holding(u) = SumFunctionOnSet(h, E)
    BY DEF Balance, Holding, Value
<1>. HIDE DEF w, ns, p, D, E, f, h
<1>11. E = {p[k] : k \in D}
    BY <1>3, <1>5, <1>7, <1>8, <1>9 DEF LeavesOf
<1>12. \A j, k \in D : p[j] = p[k] => j = k
    BY <1>3, <1>9
<1>13. \A k \in D : f[k] \in Int /\ h[p[k]] = f[k]
    <2>. SUFFICES ASSUME NEW k \in D PROVE f[k] \in Int /\ h[p[k]] = f[k]
        OBVIOUS
    <2>1. p[k] \in DOMAIN leaves /\ ns[k].note = leaves[p[k]]
        BY <1>3, <1>7, <1>9 DEF OwnedIn
    <2>2. leaves[p[k]].amount \in Nat
        BY <2>1, LeavesAreFinite
    <2>. QED BY <1>9, <2>1, <2>2
<1>14. SumFunctionOnSet(f, D) = SumFunctionOnSet(h, E)
    BY <1>4, <1>6, <1>11, <1>12, <1>13, SumRenamed
<1>. QED BY <1>10, <1>14 DEF w

(* Once no answer is outstanding, the balance a wallet shows is what the   *)
(* chain holds for its user, however the flows before it interleaved       *)
(* (wallet.ts, balance). *)
THEOREM BalancesSettle == Spec => []BalanceWhenSettled
<1>1. Inv => BalanceWhenSettled
    BY SettledBalance DEF Inv, BalanceWhenSettled
<1>. QED BY <1>1, Invariance, PTL

------------------------------------------------------------------------------
(* The private ledger. *)

(* Of what a call moves, the value and what the auditors are told.         *)
EntryIn(viewCts) ==
    LET d == viewCts[1].payload IN
    [action |-> d.action, from |-> d.sender, to |-> d.recipient, amount |-> d.amounts[1]]

Told(action, from, to, amount) ==
    [action |-> action, from |-> from, to |-> to, amount |-> amount]

Amount(ls) == [i \in DOMAIN ls |-> ls[i].amount]

HoldingOf(ls, ns, u) == SumFunctionOnSet(Amount(ls), OwnedIn(ls, u) \ ns)

Moves(tx, u, action, v, amount) ==
    EntryIn(tx.viewCts) = Told(action, u, v, amount) /\ tx.method = action

LEMMA DepositMoves ==
    ASSUME NEW u \in Users, NEW tx, BuiltDeposit(u, tx)
    PROVE  \E amount \in DepositAmounts :
              /\ Moves(tx, u, "deposit", u, amount)
              /\ Range(tx.spends) = {} /\ Len(tx.creates) = 1
              /\ tx.creates[1].owner = u /\ tx.creates[1].amount = amount
<1>1. PICK amount \in DepositAmounts, a \in Auditors : tx = BuildDeposit(u, amount, a)
    BY DEF BuiltDeposit
<1>. DEFINE note == Note(amount, u, a)
            told == Disclosure("deposit", u, u, <<amount>>)
            view == Sealed(a, told)
<1>2. note.owner = u /\ note.amount = amount
    BY DEF Note
<1>3. view.payload = told /\ EntryIn(<<view>>) = Told("deposit", u, u, amount)
    BY DEF Sealed, Disclosure, EntryIn, Told
<1>4. /\ tx.method = "deposit" /\ tx.spends = <<>> /\ tx.creates = <<note>> /\ tx.viewCts = <<view>>
    BY <1>1 DEF BuildDeposit
<1>. HIDE DEF note, view, told
<1>. QED BY <1>2, <1>3, <1>4 DEF Moves, Range

LEMMA TransferMoves ==
    ASSUME NEW u \in Users, NEW tx, BuiltTransfer(u, tx)
    PROVE  \E amount \in Amounts, v \in Users :
              /\ Moves(tx, u, "transfer", v, amount)
              /\ Range(tx.spends) = {tx.spends[1], tx.spends[2]} /\ Len(tx.creates) = 2
              /\ tx.creates[1].owner = v /\ tx.creates[1].amount = amount
              /\ tx.creates[2].owner = u
<1>1. PICK i \in FoundNote, j \in FoundNote, root \in Nat, amount \in Amounts, v \in Users, a \in Auditors :
        /\ amount <= i.note.amount + j.note.amount
        /\ tx = BuildTransfer(u, <<i, j>>, root, amount, v, a)
    BY DEF BuiltTransfer
<1>. DEFINE rest == i.note.amount + j.note.amount - amount
            b == i.note.auditor
            out == Note(amount, v, a)
            change == Note(rest, u, b)
            told == Disclosure("transfer", u, v, <<amount, rest>>)
            view == Sealed(b, told)
            other == Sealed(a, told)
<1>2. out.owner = v /\ out.amount = amount /\ change.owner = u
    BY DEF Note
<1>3. EntryIn(<<view, other>>) = Told("transfer", u, v, amount)
    <2>1. view.payload = told /\ <<view, other>>[1] = view
        BY DEF Sealed
    <2>2. told.action = "transfer" /\ told.sender = u /\ told.recipient = v /\ told.amounts[1] = amount
        BY DEF Disclosure
    <2>. HIDE DEF told, view, other
    <2>. QED BY <2>1, <2>2 DEF EntryIn, Told
<1>4. /\ tx.method = "transfer" /\ tx.spends = <<i.leafIndex, j.leafIndex>>
      /\ tx.creates = <<out, change>> /\ tx.viewCts = <<view, other>>
    <2>1. i.note.amount \in Nat /\ j.note.amount \in Nat /\ amount \in Nat
        BY BoundsAreNat DEF FoundNote, NoteSet
    <2>2. /\ tx.method = "transfer" /\ tx.spends = <<i.leafIndex, j.leafIndex>>
          /\ tx.creates = <<Note(amount, v, a), Note(rest, u, b)>>
          /\ tx.viewCts = <<Sealed(b, told), Sealed(a, told)>>
        <3>. HIDE DEF out, change, view, other
        <3>. QED BY <1>1, <2>1 DEF BuildTransfer
    <2>. QED BY <2>2
<1>5. Range(tx.spends) = {tx.spends[1], tx.spends[2]}
    BY <1>4 DEF Range
<1>. HIDE DEF rest, b, out, change, told, view, other
<1>. QED BY <1>2, <1>3, <1>4, <1>5 DEF Moves

LEMMA WithdrawMoves ==
    ASSUME NEW u \in Users, NEW tx, BuiltWithdraw(u, tx)
    PROVE  \E amount \in Amounts :
              /\ Moves(tx, u, "withdraw", "account", amount)
              /\ Range(tx.spends) = {tx.spends[1]} /\ Len(tx.creates) = 0 /\ tx.amount = amount
<1>1. PICK i \in FoundNote, root \in Nat, amount \in Amounts, fee \in 0 .. FeeUsdcBase :
        tx = BuildWithdraw(u, i, root, amount, "account", fee)
    BY DEF BuiltWithdraw
<1>. DEFINE told == Disclosure("withdraw", u, "account", <<amount, fee>>)
            b == i.note.auditor
            view == Sealed(b, told)
<1>2. EntryIn(<<view>>) = Told("withdraw", u, "account", amount)
    <2>1. view.payload = told /\ <<view>>[1] = view
        BY DEF Sealed
    <2>2. told.action = "withdraw" /\ told.sender = u /\ told.recipient = "account" /\ told.amounts[1] = amount
        BY DEF Disclosure
    <2>. HIDE DEF told, view
    <2>. QED BY <2>1, <2>2 DEF EntryIn, Told
<1>3. /\ tx.method = "withdraw" /\ tx.spends = <<i.leafIndex>> /\ tx.amount = amount
      /\ tx.creates = <<>> /\ tx.viewCts = <<view>>
    BY <1>1 DEF BuildWithdraw
<1>. HIDE DEF b, told, view
<1>4. Range(tx.spends) = {tx.spends[1]}
    BY <1>3 DEF Range
<1>. QED BY <1>2, <1>3, <1>4 DEF Moves

LEMMA HoldingReads == \A u : Holding(u) = HoldingOf(leaves, nullifiers, u)
<1>. SUFFICES ASSUME NEW u PROVE Holding(u) = HoldingOf(leaves, nullifiers, u)
    OBVIOUS
<1>1. Owned(u) \cap Unspent = OwnedIn(leaves, u) \ nullifiers
    BY Readings DEF Unspent, OwnedIn
<1>. QED BY <1>1 DEF Holding, Value, HoldingOf, Amount

(* A landing takes the spent notes from its user and gives the created     *)
(* ones to their owners, and moves nobody else's money. *)
LEMMA MoneyMoves ==
    ASSUME Types, NEW t \in Tasks, Land(t), NEW v
    PROVE  LET tx == tasks[t].tx
               u == tasks[t].user
               used == Range(tx.spends)
               got == {i \in {Len(leaves) + k : k \in 1 .. Len(tx.creates)} : leaves'[i].owner = v}
               paid == SumFunctionOnSet(Amount(leaves), used)
           IN
           /\ HoldingOf(leaves, nullifiers, u) \in Nat /\ HoldingOf(leaves, nullifiers, v) \in Nat
           /\ paid \in Nat /\ paid <= HoldingOf(leaves, nullifiers, u)
           /\ HoldingOf(leaves', nullifiers', v)
                = (IF v = u THEN HoldingOf(leaves, nullifiers, v) - paid
                            ELSE HoldingOf(leaves, nullifiers, v))
                  + SumFunctionOnSet(Amount(leaves'), got)
<1>. DEFINE tx == tasks[t].tx
            u == tasks[t].user
            used == Range(tx.spends)
            new == {Len(leaves) + k : k \in 1 .. Len(tx.creates)}
            got == {i \in new : leaves'[i].owner = v}
            f == Amount(leaves)
            h == Amount(leaves')
            A(x) == OwnedIn(leaves, x) \ nullifiers
            B == OwnedIn(leaves', v) \ nullifiers'
            kept == A(v) \ used
<1>1. /\ \A i \in DOMAIN leaves : i \in DOMAIN leaves' /\ leaves'[i] = leaves[i]
      /\ \A k \in 1 .. Len(tx.creates) : Len(leaves) + k \notin DOMAIN leaves
      /\ DOMAIN leaves' = DOMAIN leaves \cup new
      /\ OwnedIn(leaves', v) = OwnedIn(leaves, v) \cup got
    BY LandedEvent
<1>2. /\ used \subseteq OwnedIn(leaves, u) /\ used \cap nullifiers = {}
      /\ nullifiers' = nullifiers \cup used /\ nullifiers \subseteq DOMAIN leaves
    BY LandedIsOwned, Readings DEF Land, Types
<1>3. Types'
    BY LandKeepsTypes
<1>4. /\ IsFiniteSet(DOMAIN leaves) /\ \A i \in DOMAIN leaves : leaves[i].amount \in Nat
      /\ IsFiniteSet(DOMAIN leaves') /\ \A i \in DOMAIN leaves' : leaves'[i].amount \in Nat
    <2>1. IsFiniteSet(DOMAIN leaves) /\ \A i \in DOMAIN leaves : leaves[i].amount \in Nat
        BY LeavesAreFinite
    <2>2. Len(leaves') \in Nat /\ DOMAIN leaves' = 1 .. Len(leaves') /\ leaves' \in Seq(NoteSet)
        BY <1>3 DEF Types
    <2>3. IsFiniteSet(DOMAIN leaves')
        BY <2>2, FS_Interval
    <2>4. \A i \in DOMAIN leaves' : leaves'[i].amount \in Nat
        <3>1. \A i \in DOMAIN leaves' : leaves'[i] \in NoteSet
            BY <2>2
        <3>. QED BY <3>1 DEF NoteSet
    <2>. QED BY <2>1, <2>3, <2>4
<1>5. \A x : OwnedIn(leaves, x) \subseteq DOMAIN leaves
    BY DEF OwnedIn
<1>. HIDE DEF tx, u, used
<1>6. new \cap DOMAIN leaves = {} /\ got \subseteq new
    BY <1>1
<1>7. /\ \A i \in DOMAIN leaves : f[i] = leaves[i].amount /\ h[i] = f[i] /\ f[i] \in Nat
      /\ \A i \in DOMAIN leaves' : h[i] \in Nat
    <2>1. \A i \in DOMAIN leaves : f[i] = leaves[i].amount
        BY DEF Amount
    <2>2. \A i \in DOMAIN leaves' : h[i] = leaves'[i].amount
        BY DEF Amount
    <2>. HIDE DEF f, h, new
    <2>. QED BY <1>1, <1>4, <2>1, <2>2
<1>8. /\ HoldingOf(leaves, nullifiers, u) = SumFunctionOnSet(f, A(u))
      /\ HoldingOf(leaves, nullifiers, v) = SumFunctionOnSet(f, A(v))
      /\ HoldingOf(leaves', nullifiers', v) = SumFunctionOnSet(h, B)
    BY DEF HoldingOf
<1>. HIDE DEF f, h, new, got
<1>9. B = kept \cup got /\ kept \cap got = {} /\ kept \subseteq DOMAIN leaves /\ got \subseteq DOMAIN leaves'
    BY <1>1, <1>2, <1>5, <1>6
<1>10. v # u => kept = A(v)
    BY <1>2 DEF OwnedIn
<1>11. used \subseteq A(u) /\ A(u) = (A(u) \ used) \cup used /\ A(u) \subseteq DOMAIN leaves
    BY <1>2, <1>5
<1>12. A(v) \subseteq DOMAIN leaves
    BY <1>5
<1>. DEFINE Au == A(u)
            Av == A(v)
            rest == Au \ used
<1>13. v = u => kept = rest
    OBVIOUS
<1>. HIDE DEF A, B, kept
<1>14. /\ IsFiniteSet(Au) /\ IsFiniteSet(Av) /\ IsFiniteSet(used) /\ IsFiniteSet(rest)
       /\ IsFiniteSet(kept) /\ IsFiniteSet(got)
    <2>1. /\ Au \subseteq DOMAIN leaves /\ Av \subseteq DOMAIN leaves /\ used \subseteq DOMAIN leaves
          /\ rest \subseteq DOMAIN leaves
        BY <1>11, <1>12
    <2>. HIDE DEF Au, Av, rest
    <2>. QED BY <1>4, <1>9, <2>1, FS_Subset
<1>15. /\ SumFunctionOnSet(f, Au) \in Nat /\ SumFunctionOnSet(f, Av) \in Nat
       /\ SumFunctionOnSet(f, used) \in Nat /\ SumFunctionOnSet(f, rest) \in Nat
       /\ SumFunctionOnSet(h, got) \in Nat
    <2>1. /\ \A i \in Au : f[i] \in Nat
          /\ \A i \in Av : f[i] \in Nat
          /\ \A i \in used : f[i] \in Nat
          /\ \A i \in rest : f[i] \in Nat
          /\ \A i \in got : h[i] \in Nat
        BY <1>7, <1>9, <1>11, <1>12
    <2>. HIDE DEF Au, Av, rest
    <2>2. SumFunctionOnSet(f, Au) \in Nat
        BY <1>14, <2>1, SumNat
    <2>3. SumFunctionOnSet(f, Av) \in Nat
        BY <1>14, <2>1, SumNat
    <2>4. SumFunctionOnSet(f, used) \in Nat
        BY <1>14, <2>1, SumNat
    <2>5. SumFunctionOnSet(f, rest) \in Nat
        BY <1>14, <2>1, SumNat
    <2>6. SumFunctionOnSet(h, got) \in Nat
        BY <1>14, <2>1, SumNat
    <2>. QED BY <2>2, <2>3, <2>4, <2>5, <2>6
<1>16. SumFunctionOnSet(f, Au) = SumFunctionOnSet(f, rest) + SumFunctionOnSet(f, used)
    <2>1. rest \cap used = {} /\ rest \cup used = Au /\ \A i \in rest \cup used : f[i] \in Int
        BY <1>7, <1>11
    <2>. HIDE DEF Au, rest
    <2>. QED BY <1>14, <2>1, SumUnion
<1>17. SumFunctionOnSet(h, B) = SumFunctionOnSet(f, kept) + SumFunctionOnSet(h, got)
    <2>1. \A i \in kept \cup got : h[i] \in Int
        BY <1>1, <1>7, <1>9
    <2>2. SumFunctionOnSet(h, B) = SumFunctionOnSet(h, kept) + SumFunctionOnSet(h, got)
        BY <1>9, <1>14, <2>1, SumUnion
    <2>3. \A i \in kept : f[i] \in Int /\ h[i] = f[i]
        BY <1>7, <1>9
    <2>4. SumFunctionOnSet(h, kept) = SumFunctionOnSet(f, kept)
        BY <1>14, <2>3, SumAgree
    <2>. QED BY <2>2, <2>4
<1>18. SumFunctionOnSet(f, kept) = IF v = u THEN SumFunctionOnSet(f, Av) - SumFunctionOnSet(f, used)
                                            ELSE SumFunctionOnSet(f, Av)
    <2>1. CASE v = u
        <3>1. Av = Au
            BY <2>1
        <3>. HIDE DEF Av, Au, rest
        <3>. QED BY <1>13, <1>15, <1>16, <2>1, <3>1
    <2>2. CASE v # u
        BY <1>10, <2>2
    <2>. QED BY <2>1, <2>2
<1>. DEFINE sumU == SumFunctionOnSet(f, Au)
            sumV == SumFunctionOnSet(f, Av)
            paid == SumFunctionOnSet(f, used)
            sumR == SumFunctionOnSet(f, rest)
<1>19. paid <= sumU
    <2>. HIDE DEF sumU, paid, sumR
    <2>1. sumU \in Nat /\ paid \in Nat /\ sumR \in Nat /\ sumU = sumR + paid
        BY <1>15, <1>16 DEF sumU, paid, sumR
    <2>. QED BY <2>1
<1>. QED BY <1>8, <1>15, <1>17, <1>18, <1>19 DEF tx, u, used, new, got, f, h

(* What has landed moves money by one of the three. *)
Deposited(u, amount, H, H2) ==
    \A x \in Users : H[x] \in Nat /\ H2[x] = H[x] + (IF x = u THEN amount ELSE 0)

Paid(u, v, amount, H, H2) ==
    /\ amount <= H[u]
    /\ \A x \in Users : /\ H[x] \in Nat
                        /\ H2[x] = (IF x = u THEN H[x] - amount ELSE H[x]) + (IF x = v THEN amount ELSE 0)

Withdrawn(u, amount, H, H2) ==
    /\ amount <= H[u]
    /\ \A x \in Users : H[x] \in Nat /\ H2[x] = IF x = u THEN H[x] - amount ELSE H[x]

Holdings(ls, ns) == [x \in Users |-> HoldingOf(ls, ns, x)]

LEMMA LandedMoney ==
    ASSUME Types, NEW t \in Tasks, Land(t)
    PROVE  LET tx == tasks[t].tx
               u == tasks[t].user
               H == Holdings(leaves, nullifiers)
               H2 == Holdings(leaves', nullifiers')
           IN
           \/ \E amount \in DepositAmounts :
                 Moves(tx, u, "deposit", u, amount) /\ Deposited(u, amount, H, H2)
           \/ \E amount \in Amounts, v \in Users :
                 Moves(tx, u, "transfer", v, amount) /\ Paid(u, v, amount, H, H2)
           \/ \E amount \in Amounts :
                 Moves(tx, u, "withdraw", "account", amount) /\ Withdrawn(u, amount, H, H2)
<1>. DEFINE tx == tasks[t].tx
            u == tasks[t].user
            n == Len(leaves)
            m == Len(tx.creates)
            f == Amount(leaves)
            h == Amount(leaves')
            H == Holdings(leaves, nullifiers)
            H2 == Holdings(leaves', nullifiers')
            got(x) == {i \in {n + k : k \in 1 .. m} : leaves'[i].owner = x}
            paid == SumFunctionOnSet(f, Range(tx.spends))
<1>1. /\ u \in Users /\ BuiltBy(u, tx) /\ TxShape(tx)
      /\ Range(tx.spends) \subseteq OwnedIn(leaves, u)
    BY LandedIsOwned, Readings
<1>2. /\ n \in Nat /\ m \in Nat
      /\ \A k \in 1 .. m : n + k \in DOMAIN leaves' /\ leaves'[n + k] = tx.creates[k]
    BY LandedEvent, LandedIsLogged
<1>3. Statement(u, tx)
    BY DEF Land, Provable
<1>4. ASSUME NEW x \in Users
      PROVE  /\ H[x] \in Nat /\ paid \in Nat /\ paid <= H[u]
             /\ H2[x] = (IF x = u THEN H[x] - paid ELSE H[x]) + SumFunctionOnSet(h, got(x))
    <2>1. H[x] = HoldingOf(leaves, nullifiers, x) /\ H2[x] = HoldingOf(leaves', nullifiers', x)
        BY DEF Holdings
    <2>2. H[u] = HoldingOf(leaves, nullifiers, u)
        BY <1>1 DEF Holdings
    <2>. HIDE DEF H, H2
    <2>. QED BY <2>1, <2>2, MoneyMoves
<1>5. \A i \in DOMAIN leaves : f[i] = leaves[i].amount /\ f[i] \in Nat
    <2>1. \A i \in DOMAIN leaves : f[i] = leaves[i].amount
        BY DEF Amount
    <2>. HIDE DEF f
    <2>. QED BY <2>1, LeavesAreFinite
<1>6. \A i \in Range(tx.spends) : i \in DOMAIN leaves
    BY <1>1 DEF OwnedIn
<1>7. \A k \in 1 .. m : h[n + k] = tx.creates[k].amount /\ tx.creates[k].amount \in Nat
    <2>1. \A i \in DOMAIN leaves' : h[i] = leaves'[i].amount
        BY DEF Amount
    <2>2. \A k \in 1 .. m : tx.creates[k] \in NoteSet
        <3>1. tx.creates \in Seq(NoteSet)
            BY <1>1 DEF TxShape
        <3>. HIDE DEF tx
        <3>. QED BY <3>1
    <2>3. \A k \in 1 .. m : tx.creates[k].amount \in Nat
        BY <2>2 DEF NoteSet
    <2>. HIDE DEF h, tx, n, m
    <2>. QED BY <1>2, <2>1, <2>3
<1>. HIDE DEF f, h, H, H2, tx, u, n
<1>8. ASSUME NEW x
      PROVE  got(x) = {i \in {n + k : k \in 1 .. m} : \E k \in 1 .. m : i = n + k /\ tx.creates[k].owner = x}
    BY <1>2
<1>9. CASE BuiltDeposit(u, tx)
    <2>1. PICK amount \in DepositAmounts :
              /\ Moves(tx, u, "deposit", u, amount)
              /\ Range(tx.spends) = {} /\ m = 1
              /\ tx.creates[1].owner = u /\ tx.creates[1].amount = amount
        BY <1>1, <1>9, DepositMoves
    <2>2. paid = 0
        BY <2>1, SumEmpty
    <2>3. ASSUME NEW x \in Users PROVE SumFunctionOnSet(h, got(x)) = IF x = u THEN amount ELSE 0
        <3>1. got(x) = IF x = u THEN {n + 1} ELSE {}
            BY <1>8, <2>1
        <3>2. h[n + 1] = amount /\ amount \in Nat
            BY <1>7, <2>1
        <3>3. SumFunctionOnSet(h, {n + 1}) = amount
            BY <3>2, SumOne
        <3>. HIDE DEF got
        <3>. QED BY <3>1, <3>3, SumEmpty
    <2>. HIDE DEF got, paid
    <2>4. Deposited(u, amount, H, H2)
        BY <1>4, <2>2, <2>3 DEF Deposited
    <2>. QED BY <2>1, <2>4 DEF tx, u, H, H2
<1>10. CASE BuiltTransfer(u, tx)
    <2>1. PICK amount \in Amounts, v \in Users :
              /\ Moves(tx, u, "transfer", v, amount)
              /\ Range(tx.spends) = {tx.spends[1], tx.spends[2]} /\ m = 2
              /\ tx.creates[1].owner = v /\ tx.creates[1].amount = amount
              /\ tx.creates[2].owner = u
        BY <1>1, <1>10, TransferMoves
    <2>. DEFINE rest == tx.creates[2].amount
    <2>2. rest \in Nat /\ amount \in Nat /\ h[n + 1] = amount /\ h[n + 2] = rest
        BY <1>7, <2>1
    <2>3. paid = amount + rest
        <3>1. TransferStatement(u, tx)
            BY <1>3, <2>1 DEF Statement, Moves
        <3>2. /\ tx.spends[1] # tx.spends[2]
              /\ leaves[tx.spends[1]].amount + leaves[tx.spends[2]].amount = amount + rest
            BY <2>1, <3>1 DEF TransferStatement
        <3>3. /\ f[tx.spends[1]] = leaves[tx.spends[1]].amount /\ f[tx.spends[1]] \in Nat
              /\ f[tx.spends[2]] = leaves[tx.spends[2]].amount /\ f[tx.spends[2]] \in Nat
            BY <1>5, <1>6, <2>1
        <3>. DEFINE a == tx.spends[1]
                    b == tx.spends[2]
        <3>4. a # b /\ f[a] \in Int /\ f[b] \in Int /\ f[a] + f[b] = amount + rest
            BY <3>2, <3>3
        <3>. HIDE DEF a, b, rest
        <3>5. SumFunctionOnSet(f, {a, b}) = f[a] + f[b]
            BY <3>4, SumTwo
        <3>. QED BY <2>1, <3>4, <3>5 DEF a, b
    <2>4. ASSUME NEW x \in Users
          PROVE  SumFunctionOnSet(h, got(x)) = (IF x = v THEN amount ELSE 0) + (IF x = u THEN rest ELSE 0)
        <3>1. \A k \in 1 .. m : k = 1 \/ k = 2
            BY <2>1
        <3>2. 1 \in 1 .. m /\ 2 \in 1 .. m
            BY <2>1
        <3>3. n + 1 # n + 2
            BY <1>2
        <3>4. got(x) = (IF x = v THEN {n + 1} ELSE {}) \cup (IF x = u THEN {n + 2} ELSE {})
            BY <1>8, <2>1, <3>1, <3>2
        <3>. HIDE DEF got, rest
        <3>. DEFINE i == n + 1
                    j == n + 2
        <3>5. i # j /\ h[i] = amount /\ h[j] = rest /\ h[i] \in Int /\ h[j] \in Int
            BY <2>2, <3>3
        <3>6. /\ SumFunctionOnSet(h, {n + 1}) = amount /\ SumFunctionOnSet(h, {n + 2}) = rest
              /\ SumFunctionOnSet(h, {n + 1, n + 2}) = amount + rest
            <4>. HIDE DEF i, j
            <4>1. SumFunctionOnSet(h, {i}) = h[i]
                BY <3>5, SumOne
            <4>2. SumFunctionOnSet(h, {j}) = h[j]
                BY <3>5, SumOne
            <4>3. SumFunctionOnSet(h, {i, j}) = h[i] + h[j]
                BY <3>5, SumTwo
            <4>. QED BY <3>5, <4>1, <4>2, <4>3 DEF i, j
        <3>. HIDE DEF i, j
        <3>7. {n + 1} \cup {n + 2} = {n + 1, n + 2} /\ {n + 1} \cup {} = {n + 1}
              /\ {} \cup {n + 2} = {n + 2} /\ {} \cup {} = {}
            OBVIOUS
        <3>8. CASE x = v /\ x = u
            BY <3>4, <3>6, <3>7, <3>8
        <3>9. CASE x = v /\ x # u
            BY <2>2, <3>4, <3>6, <3>7, <3>9
        <3>10. CASE x # v /\ x = u
            BY <2>2, <3>4, <3>6, <3>7, <3>10
        <3>11. CASE x # v /\ x # u
            BY <3>4, <3>7, <3>11, SumEmpty
        <3>. QED BY <3>8, <3>9, <3>10, <3>11
    <2>. HIDE DEF got, paid, rest
    <2>5. ASSUME NEW x \in Users
          PROVE  /\ H[x] \in Nat /\ amount <= H[u]
                 /\ H2[x] = (IF x = u THEN H[x] - amount ELSE H[x]) + (IF x = v THEN amount ELSE 0)
        <3>1. H[x] \in Nat /\ H[u] \in Nat
            BY <1>1, <1>4
        <3>2. CASE x = u /\ x = v
            BY <1>4, <2>2, <2>3, <2>4, <3>1, <3>2
        <3>3. CASE x = u /\ x # v
            BY <1>4, <2>2, <2>3, <2>4, <3>1, <3>3
        <3>4. CASE x # u /\ x = v
            BY <1>4, <2>2, <2>3, <2>4, <3>1, <3>4
        <3>5. CASE x # u /\ x # v
            BY <1>4, <2>2, <2>3, <2>4, <3>1, <3>5
        <3>. QED BY <3>2, <3>3, <3>4, <3>5
    <2>6. Paid(u, v, amount, H, H2)
        BY <1>1, <2>5 DEF Paid
    <2>. QED BY <2>1, <2>6 DEF tx, u, H, H2
<1>11. CASE BuiltWithdraw(u, tx)
    <2>1. PICK amount \in Amounts :
              /\ Moves(tx, u, "withdraw", "account", amount)
              /\ Range(tx.spends) = {tx.spends[1]} /\ m = 0 /\ tx.amount = amount
        BY <1>1, <1>11, WithdrawMoves
    <2>2. paid = amount /\ amount \in Nat
        <3>1. WithdrawStatement(u, tx)
            BY <1>3, <2>1 DEF Statement, Moves
        <3>2. leaves[tx.spends[1]].amount = amount
            BY <2>1, <3>1 DEF WithdrawStatement
        <3>. DEFINE a == tx.spends[1]
        <3>3. f[a] = amount /\ f[a] \in Nat
            BY <1>5, <1>6, <2>1, <3>2
        <3>. HIDE DEF a
        <3>4. SumFunctionOnSet(f, {a}) = f[a]
            BY <3>3, SumOne, SMTT(30)
        <3>. QED BY <2>1, <3>3, <3>4 DEF a
    <2>3. ASSUME NEW x \in Users PROVE SumFunctionOnSet(h, got(x)) = 0
        <3>1. got(x) = {}
            BY <1>8, <2>1
        <3>. HIDE DEF got
        <3>. QED BY <3>1, SumEmpty
    <2>. HIDE DEF got, paid
    <2>4. Withdrawn(u, amount, H, H2)
        BY <1>1, <1>4, <2>2, <2>3 DEF Withdrawn
    <2>. QED BY <2>1, <2>4 DEF tx, u, H, H2
<1>. QED BY <1>1, <1>9, <1>10, <1>11 DEF BuiltBy

(* The ledger's state, of the leaves, the nullifiers and the log.          *)
Book(es) == [e \in DOMAIN es |-> EntryIn(es[e].viewCts)]

LEMMA LedgerReads ==
    /\ [u \in Users |-> Holding(u)] = Holdings(leaves, nullifiers)
    /\ [e \in DOMAIN events |-> BookEntry(e)] = Book(events)
BY HoldingReads DEF Holdings, Book, BookEntry, EntryIn

LEMMA LedgerReadsNext ==
    /\ [u \in Users |-> Holding(u)]' = Holdings(leaves', nullifiers')
    /\ [e \in DOMAIN events |-> BookEntry(e)]' = Book(events')
<1>1. ASSUME NEW u PROVE Holding(u)' = HoldingOf(leaves', nullifiers', u)
    <2>1. (Owned(u) \cap Unspent)' = OwnedIn(leaves', u) \ nullifiers'
        BY DEF Owned, Unspent, OwnedIn
    <2>2. Holding(u)' = SumFunctionOnSet(Amount(leaves'), (Owned(u) \cap Unspent)')
        BY DEF Holding, Value, Amount
    <2>. QED BY <2>1, <2>2 DEF HoldingOf
<1>2. [u \in Users |-> Holding(u)]' = Holdings(leaves', nullifiers')
    BY <1>1 DEF Holdings
<1>. QED BY <1>2 DEF Book, BookEntry, EntryIn

(* A landing is written in the book. *)
LEMMA LandedBook ==
    ASSUME Types, NEW t \in Tasks, Land(t)
    PROVE  Book(events') = Append(Book(events), EntryIn(tasks[t].tx.viewCts))
<1>. DEFINE n == Len(events)
            entry == EntryIn(tasks[t].tx.viewCts)
            b == Book(events)
            c == Book(events')
<1>1. /\ n \in Nat /\ Len(events') = n + 1 /\ events' \in Seq(EventSet)
      /\ \A e \in 1 .. n : events'[e] = events[e]
      /\ events'[n + 1] = EventOf(tasks[t].tx)
    BY LandedIsLogged
<1>2. DOMAIN events = 1 .. n /\ DOMAIN events' = 1 .. n + 1
    BY <1>1 DEF Types
<1>3. EventOf(tasks[t].tx).viewCts = tasks[t].tx.viewCts
    BY DEF EventOf
<1>4. /\ b = [e \in 1 .. n |-> EntryIn(events[e].viewCts)]
      /\ c = [e \in 1 .. n + 1 |-> EntryIn(events'[e].viewCts)]
    BY <1>2 DEF Book
<1>5. /\ \A e \in 1 .. n : c[e] = b[e]
      /\ c[n + 1] = entry
    <2>1. \A e \in 1 .. n : c[e] = EntryIn(events'[e].viewCts) /\ b[e] = EntryIn(events[e].viewCts)
        BY <1>1, <1>4
    <2>2. c[n + 1] = EntryIn(events'[n + 1].viewCts)
        BY <1>1, <1>4
    <2>. QED BY <1>1, <1>3, <2>1, <2>2
<1>6. b = [e \in 1 .. n |-> b[e]] /\ c = [e \in 1 .. n + 1 |-> c[e]]
    BY <1>4
<1>. HIDE DEF n, entry, b, c
<1>7. c = Append(b, entry)
    <2>1. DOMAIN b = 1 .. n
        BY <1>6
    <2>. DEFINE S == {b[e] : e \in 1 .. n} \cup {entry}
    <2>2. b \in Seq(S) /\ Len(b) = n
        BY <1>1, <1>6, <2>1
    <2>. DEFINE a == Append(b, entry)
    <2>3. /\ a = [e \in DOMAIN a |-> a[e]] /\ DOMAIN a = 1 .. n + 1
          /\ a[n + 1] = entry /\ \A e \in 1 .. n : a[e] = b[e]
        <3>1. entry \in S /\ n = Len(b) /\ DOMAIN b = 1 .. Len(b)
            BY <2>1, <2>2
        <3>2. a \in Seq(S)
            <4>. HIDE DEF S
            <4>. QED BY <2>2, <3>1
        <3>3. /\ Len(a) = Len(b) + 1 /\ a[Len(b) + 1] = entry
              /\ \A e \in 1 .. Len(b) : a[e] = b[e]
            <4>. HIDE DEF S
            <4>. QED BY <2>2, <3>1
        <3>. HIDE DEF a, S
        <3>. QED BY <3>1, <3>2, <3>3
    <2>. HIDE DEF a
    <2>4. \A e \in 1 .. n + 1 : e \in 1 .. n \/ e = n + 1
        BY <1>1
    <2>5. \A e \in 1 .. n + 1 : c[e] = a[e]
        BY <1>5, <2>3, <2>4
    <2>6. c = a
        BY <1>6, <2>3, <2>5
    <2>. QED BY <2>6 DEF a
<1>. QED BY <1>7 DEF b, c, entry

LEMMA LedgerStep ==
    ASSUME Types, NEW t \in Tasks, Land(t)
    PROVE  Ledger!LedgerNext
<1>. DEFINE tx == tasks[t].tx
            u == tasks[t].user
            H == Holdings(leaves, nullifiers)
            H2 == Holdings(leaves', nullifiers')
            B == Book(events)
            B2 == Book(events')
<1>1. u \in Users
    BY LandedIsOwned
<1>2. /\ [v \in Users |-> Holding(v)] = H /\ [v \in Users |-> Holding(v)]' = H2
      /\ [e \in DOMAIN events |-> BookEntry(e)] = B /\ [e \in DOMAIN events |-> BookEntry(e)]' = B2
    BY LedgerReads, LedgerReadsNext
<1>3. B2 = Append(B, EntryIn(tx.viewCts))
    BY LandedBook
<1>4. H = [x \in Users |-> H[x]] /\ H2 = [x \in Users |-> H2[x]]
    BY DEF Holdings
<1>5. \/ \E amount \in DepositAmounts :
            Moves(tx, u, "deposit", u, amount) /\ Deposited(u, amount, H, H2)
      \/ \E amount \in Amounts, v \in Users :
            Moves(tx, u, "transfer", v, amount) /\ Paid(u, v, amount, H, H2)
      \/ \E amount \in Amounts :
            Moves(tx, u, "withdraw", "account", amount) /\ Withdrawn(u, amount, H, H2)
    BY LandedMoney
<1>. HIDE DEF tx, u, H, H2, B, B2
<1>6. ASSUME NEW amount \in DepositAmounts,
             Moves(tx, u, "deposit", u, amount), Deposited(u, amount, H, H2)
      PROVE  Ledger!LedgerNext
    <2>1. amount \in Nat
        BY BoundsAreNat
    <2>2. H2 = [H EXCEPT ![u] = @ + amount]
        <3>1. \A x \in Users : H2[x] = IF x = u THEN H[x] + amount ELSE H[x]
            BY <1>6, <2>1 DEF Deposited
        <3>. QED BY <1>1, <1>4, <3>1
    <2>3. B2 = Append(B, Ledger!Entry("deposit", u, u, amount))
        BY <1>3, <1>6 DEF Moves, Told, Ledger!Entry
    <2>4. Ledger!Deposit(u, amount)
        BY <1>2, <2>2, <2>3 DEF Ledger!Deposit
    <2>. QED BY <1>1, <2>4 DEF Ledger!LedgerNext
<1>7. ASSUME NEW amount \in Amounts, NEW v \in Users,
             Moves(tx, u, "transfer", v, amount), Paid(u, v, amount, H, H2)
      PROVE  Ledger!LedgerNext
    <2>1. amount \in Nat
        BY BoundsAreNat
    <2>2. H2 = IF u = v THEN H ELSE [H EXCEPT ![u] = @ - amount, ![v] = @ + amount]
        <3>1. \A x \in Users : H[x] \in Nat /\ H2[x] = (IF x = u THEN H[x] - amount ELSE H[x])
                                                       + (IF x = v THEN amount ELSE 0)
            BY <1>7 DEF Paid
        <3>2. CASE u = v
            <4>1. \A x \in Users : H2[x] = H[x]
                BY <2>1, <3>1, <3>2
            <4>. QED BY <1>4, <3>2, <4>1
        <3>3. CASE u # v
            <4>1. \A x \in Users : H2[x] = IF x = v THEN H[x] + amount
                                           ELSE IF x = u THEN H[x] - amount ELSE H[x]
                BY <2>1, <3>1, <3>3
            <4>. QED BY <1>1, <1>4, <3>3, <4>1
        <3>. QED BY <3>2, <3>3
    <2>3. B2 = Append(B, Ledger!Entry("transfer", u, v, amount)) /\ amount <= H[u]
        BY <1>3, <1>7 DEF Moves, Told, Paid, Ledger!Entry
    <2>4. Ledger!Pay(u, v, amount)
        BY <1>2, <2>2, <2>3 DEF Ledger!Pay
    <2>. QED BY <1>1, <2>4 DEF Ledger!LedgerNext
<1>8. ASSUME NEW amount \in Amounts,
             Moves(tx, u, "withdraw", "account", amount), Withdrawn(u, amount, H, H2)
      PROVE  Ledger!LedgerNext
    <2>1. H2 = [H EXCEPT ![u] = @ - amount]
        <3>1. \A x \in Users : H2[x] = IF x = u THEN H[x] - amount ELSE H[x]
            BY <1>8 DEF Withdrawn
        <3>. QED BY <1>1, <1>4, <3>1
    <2>2. B2 = Append(B, Ledger!Entry("withdraw", u, "account", amount)) /\ amount <= H[u]
        BY <1>3, <1>8 DEF Moves, Told, Withdrawn, Ledger!Entry
    <2>3. Ledger!Withdraw(u, amount)
        BY <1>2, <2>1, <2>2 DEF Ledger!Withdraw
    <2>. QED BY <1>1, <2>3 DEF Ledger!LedgerNext
<1>. QED BY <1>5, <1>6, <1>7, <1>8

(* The pool is a private ledger, and its disclosures are the book: in any  *)
(* interleaving of the users' flows a payment moves exactly what its       *)
(* auditors are told from whom and to whom they are told, and nothing      *)
(* moves that is not told (wallet.ts builders, transfer.circom,            *)
(* withdraw.circom). *)
THEOREM PrivateLedgerImplemented == Spec => ImplementsPrivateLedger
<1>1. Init => Ledger!LedgerInit
    <2>. SUFFICES ASSUME Init PROVE Ledger!LedgerInit
        OBVIOUS
    <2>1. leaves = <<>> /\ events = <<>>
        BY DEF Init
    <2>2. DOMAIN <<>> = {}
        OBVIOUS
    <2>3. [u \in Users |-> Holding(u)] = [u \in Users |-> 0]
        <3>1. \A u : HoldingOf(leaves, nullifiers, u) = 0
            BY <2>1, <2>2, SumEmpty DEF HoldingOf, OwnedIn
        <3>. QED BY <3>1, LedgerReads DEF Holdings
    <2>4. [e \in DOMAIN events |-> BookEntry(e)] = <<>>
        BY <2>1, <2>2
    <2>. QED BY <2>3, <2>4 DEF Ledger!LedgerInit
<1>2. Inv /\ [Next]_vars
        => [Ledger!LedgerNext]_<<[u \in Users |-> Holding(u)], [e \in DOMAIN events |-> BookEntry(e)]>>
    <2>. SUFFICES ASSUME Inv, [Next]_vars
                  PROVE  [Ledger!LedgerNext]_<<[u \in Users |-> Holding(u)],
                                               [e \in DOMAIN events |-> BookEntry(e)]>>
        OBVIOUS
    <2>1. Types
        BY DEF Inv
    <2>2. ASSUME UNCHANGED <<leaves, nullifiers, events>>
          PROVE  /\ [u \in Users |-> Holding(u)]' = [u \in Users |-> Holding(u)]
                 /\ [e \in DOMAIN events |-> BookEntry(e)]' = [e \in DOMAIN events |-> BookEntry(e)]
        BY <2>2, LedgerReads, LedgerReadsNext
    <2>3. \/ UNCHANGED <<leaves, nullifiers, events>>
          \/ \E t \in Tasks : Land(t)
        <3>1. CASE UNCHANGED vars
            BY <3>1 DEF vars
        <3>2. CASE Next
            BY <2>1, <3>2, NextSteps DEF Quiet, LoseAnswer, Ingest, Resume, chainVars
        <3>. QED BY <3>1, <3>2
    <2>. QED BY <2>1, <2>2, <2>3, LedgerStep
<1>. QED BY <1>1, <1>2, Invariance, PTL
         DEF Spec, ImplementsPrivateLedger, Ledger!LedgerSpec, Ledger!LedgerSteps

------------------------------------------------------------------------------
(* One flow at a time, through one client, whose answers all arrive: as in *)
(* the demo (run-demo.ts). *)
OneFlow ==
    /\ \E t : Tasks = {t}
    /\ \E c : Clients = {c}
    /\ ~ AnswersMayBeLost

(* Then the client's tree is the chain, or short of it by the leaves of    *)
(* the answer on its way; and what the flow has read and chosen is current. *)
TreeFollows(task, tree, es, n) ==
    IF task.at = "answered"
    THEN \E m \in Nat :
            LET cts == es[task.answer].noteCts IN
            /\ tree = Counting(m) /\ n = m + Len(cts)
            /\ \A k \in 1 .. Len(cts) : cts[k].leafIndex = m + k
            /\ task.tx.method = "withdraw" => Len(cts) = 0
    ELSE tree = Counting(n)

FlowIsCurrent(task, n, ns) ==
    /\ task.at = "root" => task.root = n
    /\ task.at = "proving" => /\ task.tx.method # "deposit" => task.tx.root = n
                              /\ Range(task.tx.spends) \cap ns = {}
    /\ task.at = "checking" => task.local = Counting(n)

Following ==
    /\ lost = {}
    /\ Len(leaves) # 0 => Contains(recent_roots, Len(leaves))
    /\ \A t \in Tasks :
          /\ FlowIsCurrent(tasks[t], Len(leaves), nullifiers)
          /\ \A c \in Clients : TreeFollows(tasks[t], trees[c], events, Len(leaves))

LEMMA UnspentStays ==
    ASSUME Types, WalletsFit, Undelivered = {}, NEW u \in Users, NEW k \in DOMAIN wallets[u].notes,
           IsUnspent(wallets[u], k)
    PROVE  wallets[u].notes[k].leafIndex \notin nullifiers
<1>1. CreatedBy(events, Undelivered) = {} /\ SpentOf(events, Undelivered) = {}
    BY DEF CreatedBy, SpentOf
<1>. DEFINE notes == wallets[u].notes
<1>2. NotesFit(u, notes, leaves, {}) /\ wallets[u].spent = OwnedIn(leaves, u) \cap nullifiers
    BY <1>1 DEF WalletsFit
<1>3. notes[k].leafIndex \notin wallets[u].spent
    BY DEF IsUnspent
<1>4. k \in DOMAIN notes
    OBVIOUS
<1>. HIDE DEF notes
<1>5. notes[k].leafIndex \in OwnedIn(leaves, u)
    BY <1>2, <1>4 DEF NotesFit, LeavesOf
<1>6. notes[k].leafIndex \notin nullifiers
    BY <1>2, <1>3, <1>5
<1>. QED BY <1>6 DEF notes

(* A flow that does not land keeps the tree and is current if what it has  *)
(* become is. *)
LEMMA FlowStays ==
    ASSUME Types, Following, NEW t, Tasks = {t}, NEW task, Become(t, task),
           UNCHANGED <<leaves, recent_roots, nullifiers, trees, lost>>,
           FlowIsCurrent(task, Len(leaves), nullifiers),
           task.at # "answered", tasks[t].at # "answered"
    PROVE  Following'
<1>1. tasks'[t] = task
    BY Becomes
<1>. QED BY <1>1 DEF Following, TreeFollows

LEMMA StartsAreCurrent ==
    ASSUME Types, WalletsFit, Following, NEW t, Tasks = {t},
           \/ \E u \in Users :
                \/ ReadRoot(t, u)
                \/ \E amount \in DepositAmounts, auditor \in Auditors :
                      StartDeposit(t, u, amount, auditor)
           \/ \E amount \in Amounts :
                \/ \E recipient \in Users, auditor \in Auditors :
                      StartTransfer(t, amount, recipient, auditor)
                \/ \E fee \in 0 .. FeeUsdcBase : StartWithdraw(t, amount, fee)
    PROVE  Following'
<1>. DEFINE me == tasks[t]
            n == Len(leaves)
<1>1. TaskShape(me) /\ IsTask(me) /\ IsTask(Idle) /\ t \in Tasks
    BY TypesOfTask, IdleShape DEF TaskShape
<1>2. me.at = "root" => me.root = n
    BY DEF Following, FlowIsCurrent
<1>3. me.at = "root" => Undelivered = {}
    BY DEF Following, Undelivered
<1>4. ASSUME NEW u \in Users, ReadRoot(t, u) PROVE Following'
    <2>. DEFINE task == [Idle EXCEPT !.at = "root", !.user = u, !.root = Len(leaves)]
                same == Task("root", u, Len(leaves), Idle.tx, Idle.fits, Idle.answer, Idle.local)
    <2>1. task = same
        BY <1>1, EditRoot
    <2>2. same.at = "root" /\ same.root = n
        BY DEF Task
    <2>3. Become(t, task) /\ me.at # "answered"
        BY <1>4 DEF ReadRoot
    <2>4. UNCHANGED <<leaves, recent_roots, nullifiers, trees, lost>>
        BY <1>4 DEF ReadRoot, chainVars
    <2>. HIDE DEF task, same
    <2>5. FlowIsCurrent(task, n, nullifiers) /\ task.at # "answered"
        BY <2>1, <2>2 DEF FlowIsCurrent
    <2>. QED BY <2>3, <2>4, <2>5, FlowStays
<1>5. ASSUME NEW u \in Users, NEW amount \in DepositAmounts, NEW auditor \in Auditors,
             StartDeposit(t, u, amount, auditor)
      PROVE  Following'
    <2>. DEFINE tx == BuildDeposit(u, amount, auditor)
                task == [Idle EXCEPT !.at = "proving", !.user = u, !.fits = TRUE, !.tx = tx]
                same == Task("proving", u, Idle.root, tx, TRUE, Idle.answer, Idle.local)
    <2>0. BuiltDeposit(u, tx)
        BY DEF BuiltDeposit
    <2>1. tx.method = "deposit" /\ tx.spends = <<>>
        BY DEF BuildDeposit
    <2>2. Become(t, task) /\ me.at # "answered"
        BY <1>5 DEF StartDeposit
    <2>. HIDE DEF tx
    <2>3. task = same
        BY <1>1, EditDeposit
    <2>4. same.at = "proving" /\ same.tx = tx
        BY DEF Task
    <2>5. UNCHANGED <<leaves, recent_roots, nullifiers, trees, lost>>
        BY <1>5 DEF StartDeposit, chainVars
    <2>. HIDE DEF task, same
    <2>6. Range(tx.spends) = {}
        BY <2>1 DEF Range
    <2>7. FlowIsCurrent(task, n, nullifiers) /\ task.at # "answered"
        BY <2>1, <2>3, <2>4, <2>6 DEF FlowIsCurrent
    <2>. QED BY <2>2, <2>5, <2>7, FlowStays
<1>6. ASSUME NEW amount \in Amounts, NEW recipient \in Users, NEW auditor \in Auditors,
             StartTransfer(t, amount, recipient, auditor)
      PROVE  Following'
    <2>. DEFINE u == me.user
                w == wallets[u]
                inputs == FindTransferInputs(w, amount)
                tx == BuildTransfer(u, inputs, me.root, amount, recipient, auditor)
                fits == \A k \in {1, 2} : PathFits(trees[Client(t)], inputs[k].leafIndex, me.root)
                task == [me EXCEPT !.at = "proving", !.tx = tx, !.fits = fits]
                same == Task("proving", me.user, me.root, tx, fits, me.answer, me.local)
    <2>1. me.at = "root" /\ TransferPairs(w, amount) # {} /\ Become(t, task)
        BY <1>6 DEF StartTransfer
    <2>2. u \in Users /\ w.notes \in Seq(FoundNote)
        <3>1. u \in Users
            BY <1>1, <2>1 DEF TaskShape
        <3>. HIDE DEF me
        <3>. QED BY <3>1 DEF Types, WalletSet, WalletsOf
    <2>3. PICK p \in TransferPairs(w, amount) : inputs = <<w.notes[p[1]], w.notes[p[2]]>>
        <3>. HIDE DEF w
        <3>. QED BY <2>1, <2>2, TransferInputsAreAPair
    <2>4. /\ p[1] \in DOMAIN w.notes /\ p[2] \in DOMAIN w.notes
          /\ IsUnspent(w, p[1]) /\ IsUnspent(w, p[2])
        BY DEF TransferPairs
    <2>5. w.notes[p[1]].leafIndex \notin nullifiers /\ w.notes[p[2]].leafIndex \notin nullifiers
        <3>. HIDE DEF me
        <3>. QED BY <1>3, <2>1, <2>2, <2>4, UnspentStays DEF me
    <2>6. tx.method = "transfer" /\ tx.root = me.root
          /\ tx.spends = <<inputs[1].leafIndex, inputs[2].leafIndex>>
        <3>. HIDE DEF inputs, me
        <3>. QED BY DEF BuildTransfer
    <2>7. Range(tx.spends) \cap nullifiers = {}
        <3>. HIDE DEF inputs, tx, w, me
        <3>1. tx.spends = <<w.notes[p[1]].leafIndex, w.notes[p[2]].leafIndex>>
            BY <2>3, <2>6
        <3>2. Range(tx.spends) = {w.notes[p[1]].leafIndex, w.notes[p[2]].leafIndex}
            BY <3>1, SpendsAsASet, Zenon
        <3>. QED BY <2>5, <3>2
    <2>8. UNCHANGED <<leaves, recent_roots, nullifiers, trees, lost>>
        BY <1>6 DEF StartTransfer, chainVars
    <2>. HIDE DEF me, tx, fits
    <2>9. task = same
        BY <1>1, EditTx
    <2>10. same.at = "proving" /\ same.tx = tx
        BY DEF Task
    <2>. HIDE DEF task, same
    <2>11. FlowIsCurrent(task, n, nullifiers) /\ task.at # "answered"
        BY <1>2, <2>1, <2>6, <2>7, <2>9, <2>10 DEF FlowIsCurrent
    <2>12. tasks[t].at # "answered"
        BY <2>1 DEF me
    <2>. QED BY <2>1, <2>8, <2>11, <2>12, FlowStays, Zenon
<1>7. ASSUME NEW amount \in Amounts, NEW fee \in 0 .. FeeUsdcBase, StartWithdraw(t, amount, fee)
      PROVE  Following'
    <2>. DEFINE u == me.user
                w == wallets[u]
                input == FindWithdrawNote(w, amount)
                tx == BuildWithdraw(u, input, me.root, amount, "account", fee)
                fits == PathFits(trees[Client(t)], input.leafIndex, me.root)
                task == [me EXCEPT !.at = "proving", !.tx = tx, !.fits = fits]
                same == Task("proving", me.user, me.root, tx, fits, me.answer, me.local)
    <2>1. me.at = "root" /\ WithdrawNotes(w, amount) # {} /\ Become(t, task)
        BY <1>7 DEF StartWithdraw
    <2>2. u \in Users /\ w.notes \in Seq(FoundNote)
        <3>1. u \in Users
            BY <1>1, <2>1 DEF TaskShape
        <3>. HIDE DEF me
        <3>. QED BY <3>1 DEF Types, WalletSet, WalletsOf
    <2>3. PICK k \in WithdrawNotes(w, amount) : input = w.notes[k]
        <3>. HIDE DEF w
        <3>. QED BY <2>1, <2>2, WithdrawNoteIsOne
    <2>4. k \in DOMAIN w.notes /\ IsUnspent(w, k)
        BY DEF WithdrawNotes
    <2>5. w.notes[k].leafIndex \notin nullifiers
        <3>. HIDE DEF me
        <3>. QED BY <1>3, <2>1, <2>2, <2>4, UnspentStays DEF me
    <2>6. tx.method = "withdraw" /\ tx.root = me.root /\ tx.spends = <<input.leafIndex>>
        <3>. HIDE DEF input, me
        <3>. QED BY DEF BuildWithdraw
    <2>7. Range(tx.spends) \cap nullifiers = {}
        <3>. HIDE DEF input, tx, w, me
        <3>1. Range(tx.spends) = {w.notes[k].leafIndex}
            BY <2>3, <2>6, SpendsAsASet, Zenon
        <3>. QED BY <2>5, <3>1
    <2>8. UNCHANGED <<leaves, recent_roots, nullifiers, trees, lost>>
        BY <1>7 DEF StartWithdraw, chainVars
    <2>. HIDE DEF me, tx, fits
    <2>9. task = same
        BY <1>1, EditTx
    <2>10. same.at = "proving" /\ same.tx = tx
        BY DEF Task
    <2>. HIDE DEF task, same
    <2>11. FlowIsCurrent(task, n, nullifiers) /\ task.at # "answered"
        BY <1>2, <2>1, <2>6, <2>7, <2>9, <2>10 DEF FlowIsCurrent
    <2>12. tasks[t].at # "answered"
        BY <2>1 DEF me
    <2>. QED BY <2>1, <2>8, <2>11, <2>12, FlowStays, Zenon
<1>. QED BY <1>4, <1>5, <1>6, <1>7

LEMMA LandFollows ==
    ASSUME Types, Answers, Following, NEW t, Tasks = {t}, Land(t)
    PROVE  Following'
<1>. DEFINE me == tasks[t]
            tx == me.tx
            n == Len(leaves)
            last == Len(events')
            cts == events'[last].noteCts
            m == Len(tx.creates)
            task == Task("answered", me.user, me.root, me.tx, me.fits, last, me.local)
<1>1. t \in Tasks /\ me.at = "proving"
    BY DEF Land
<1>2. /\ lost' = lost /\ UNCHANGED trees
      /\ recent_roots' = IF tx.creates = <<>> THEN recent_roots ELSE Push(recent_roots, Len(leaves'))
    BY DEF Land
<1>3. /\ n \in Nat /\ m \in Nat /\ Len(leaves') = n + m /\ leaves' \in Seq(NoteSet)
      /\ leaves' = leaves \o tx.creates
    BY <1>1, LandedIsLogged DEF Land
<1>4. tasks'[t] = task
    BY <1>1, LandKeepsTypes
<1>5. task.at = "answered" /\ task.answer = last /\ task.tx = tx
    BY DEF Task
<1>6. TxShape(tx) /\ (tx.method = "withdraw" => tx.creates = <<>>)
    BY <1>1, LandedIsOwned, BuiltShape
<1>7. DOMAIN cts = 1 .. m /\ Len(cts) = m /\ \A k \in 1 .. m : cts[k].leafIndex = n + k
    <2>1. /\ DOMAIN cts = 1 .. m
          /\ \A k \in 1 .. m : cts[k] = [leafIndex |-> n + k,
                                         sealed |-> Sealed(tx.creates[k].owner, tx.creates[k])]
        BY <1>1, LandedEvent
    <2>2. \A k \in 1 .. m : [leafIndex |-> n + k, sealed |-> Sealed(tx.creates[k].owner, tx.creates[k])].leafIndex
                                = n + k
        OBVIOUS
    <2>3. events'[last] = EventOf(tx) /\ Len(EventOf(tx).noteCts) = m
        BY <1>1, LandedIsLogged
    <2>. HIDE DEF cts, m, n, tx, last
    <2>4. Len(cts) = m
        BY <2>3 DEF cts
    <2>. QED BY <2>1, <2>2, <2>4
<1>8. Len(tx.creates) = 0 => tx.creates = <<>>
    BY <1>6 DEF TxShape
<1>9. \A c \in Clients : trees[c] = Counting(n)
    BY <1>1 DEF Following, TreeFollows
<1>. HIDE DEF task, cts, tx, me, n, m
<1>10. \A c \in Clients : TreeFollows(task, trees'[c], events', Len(leaves'))
    <2>1. tx.method = "withdraw" => m = 0
        <3>1. Len(<<>>) = 0
            OBVIOUS
        <3>. QED BY <1>6, <3>1 DEF m
    <2>. SUFFICES ASSUME NEW c \in Clients PROVE TreeFollows(task, trees'[c], events', Len(leaves'))
        OBVIOUS
    <2>2. trees'[c] = Counting(n)
        BY <1>2, <1>9
    <2>3. /\ events'[task.answer].noteCts = cts
        BY <1>5 DEF cts
    <2>. QED BY <1>3, <1>5, <1>7, <2>1, <2>2, <2>3 DEF TreeFollows
<1>11. FlowIsCurrent(task, Len(leaves'), nullifiers')
    BY <1>5 DEF FlowIsCurrent
<1>12. Len(leaves') # 0 => Contains(recent_roots', Len(leaves'))
    <2>1. CASE tx.creates = <<>>
        <3>1. Len(leaves') = n /\ recent_roots' = recent_roots
            <4>1. m = 0
                <5>1. Len(<<>>) = 0
                    OBVIOUS
                <5>. QED BY <2>1, <5>1 DEF m
            <4>. QED BY <1>2, <1>3, <2>1, <4>1
        <3>. QED BY <3>1 DEF Following, n
    <2>2. CASE tx.creates # <<>>
        <3>1. IsWindow(recent_roots, ROOTS_WINDOW, Nat) /\ Len(leaves') \in Nat
            BY <1>3 DEF Types
        <3>2. Contains(Push(recent_roots, Len(leaves')), Len(leaves'))
            BY <3>1, PushContains, BoundsAreNat
        <3>. QED BY <1>2, <2>2, <3>2
    <2>. QED BY <2>1, <2>2
<1>. QED BY <1>2, <1>4, <1>10, <1>11, <1>12 DEF Following

LEMMA IngestFollows ==
    ASSUME Types, Answers, Following, NEW t, Tasks = {t}, NEW c, Clients = {c}, Ingest(t)
    PROVE  Following'
<1>. DEFINE me == tasks[t]
            n == Len(leaves)
            cts == Logs(t)
            task == Task("ingested", me.user, me.root, me.tx, me.fits, me.answer, me.local)
<1>1. t \in Tasks /\ c \in Clients /\ me.at = "answered" /\ me.at \in Delivering
    BY DEF Ingest, Delivering
<1>2. /\ UNCHANGED <<leaves, recent_roots, nullifiers, events, lost>>
      /\ trees' = IF me.tx.method = "withdraw" THEN trees
                  ELSE [trees EXCEPT ![Client(t)] = Grown(@, cts)]
    BY DEF Ingest, chainVars
<1>3. Client(t) = c /\ Len(cts) \in Nat
    BY <1>1, LogOfAnswer
<1>4. trees \in [Clients -> Seq(Nat)]
    BY DEF Types
<1>5. PICK m \in Nat : /\ trees[c] = Counting(m) /\ n = m + Len(cts)
                       /\ \A k \in 1 .. Len(cts) : cts[k].leafIndex = m + k
                       /\ me.tx.method = "withdraw" => Len(cts) = 0
    BY <1>1 DEF Following, TreeFollows, Logs
<1>6. tasks'[t] = task
    BY <1>1, IngestKeepsTypes
<1>7. task.at = "ingested"
    BY DEF Task
<1>. HIDE DEF me, n, cts, task
<1>8. trees'[c] = Counting(n)
    <2>1. CASE me.tx.method = "withdraw"
        <3>1. n = m
            BY <1>3, <1>5, <2>1
        <3>. QED BY <1>2, <1>5, <2>1, <3>1
    <2>2. CASE me.tx.method # "withdraw"
        <3>1. Grown(Counting(m), cts) = Counting(m + Len(cts))
            BY <1>3, <1>5, GrownFollows
        <3>2. trees'[c] = Grown(trees[c], cts)
            BY <1>1, <1>2, <1>3, <1>4, <2>2
        <3>. QED BY <1>5, <3>1, <3>2
    <2>. QED BY <2>1, <2>2
<1>9. TreeFollows(task, trees'[c], events', Len(leaves'))
    BY <1>2, <1>7, <1>8 DEF TreeFollows, n
<1>10. FlowIsCurrent(task, Len(leaves'), nullifiers')
    BY <1>7 DEF FlowIsCurrent
<1>. QED BY <1>2, <1>6, <1>9, <1>10 DEF Following

LEMMA RestFollows ==
    ASSUME Types, Answers, Following, NEW t, Tasks = {t}, NEW c, Clients = {c},
           Throw(t) \/ RefundDeposit(t) \/ Resume(t) \/ CheckRoot(t)
    PROVE  Following'
<1>. DEFINE me == tasks[t]
            n == Len(leaves)
            local == trees[Client(t)]
            task == [me EXCEPT !.at = "checking", !.local = local]
            same == Task("checking", me.user, me.root, me.tx, me.fits, me.answer, local)
<1>1. TaskShape(me) /\ IsTask(me) /\ t \in Tasks /\ c \in Clients
    BY TypesOfTask DEF TaskShape
<1>2. FlowIsCurrent(Idle, n, nullifiers) /\ Idle.at # "answered"
    BY IdleShape DEF FlowIsCurrent
<1>3. Become(t, Idle) \/ (Become(t, task) /\ me.at # "idle")
    BY DEF Throw, RefundDeposit, Resume, CheckRoot
<1>4. UNCHANGED <<leaves, recent_roots, nullifiers, trees, lost>> /\ me.at # "answered"
    BY DEF Throw, RefundDeposit, Resume, CheckRoot, chainVars
<1>5. CASE Become(t, Idle)
    BY <1>2, <1>4, <1>5, FlowStays
<1>6. CASE Become(t, task) /\ me.at # "idle"
    <2>1. Client(t) = c
        <3>1. me.user \in Users
            BY <1>1, <1>6 DEF TaskShape
        <3>. QED BY <1>1, <3>1, UsersAssumption DEF Client
    <2>2. local = Counting(n)
        BY <1>1, <1>4, <2>1 DEF Following, TreeFollows
    <2>3. Become(t, task)
        BY <1>6
    <2>. HIDE DEF me, local
    <2>4. task = same
        BY <1>1, EditLocal
    <2>5. same.at = "checking" /\ same.local = local
        BY DEF Task
    <2>. HIDE DEF task, same
    <2>6. FlowIsCurrent(task, n, nullifiers) /\ task.at # "answered"
        BY <2>2, <2>4, <2>5 DEF FlowIsCurrent
    <2>. QED BY <1>4, <2>3, <2>6, FlowStays DEF me
<1>. QED BY <1>3, <1>5, <1>6

LEMMA FollowingInit == Init => Following
<1>. SUFFICES ASSUME Init PROVE Following
    OBVIOUS
<1>1. /\ leaves = <<>> /\ lost = {} /\ trees = [c \in Clients |-> <<>>] /\ tasks = [t \in Tasks |-> Idle]
    BY DEF Init
<1>2. Len(leaves) = 0
    BY <1>1
<1>3. Counting(0) = <<>>
    BY DEF Counting
<1>4. \A t \in Tasks : FlowIsCurrent(tasks[t], Len(leaves), nullifiers) /\ tasks[t].at # "answered"
    BY <1>1, IdleShape DEF FlowIsCurrent
<1>. QED BY <1>1, <1>2, <1>3, <1>4 DEF Following, TreeFollows

LEMMA FollowingNext == OneFlow /\ Inv /\ Following /\ [Next]_vars => Following'
<1>. SUFFICES ASSUME OneFlow, Types, Answers, WalletsFit, Following, [Next]_vars PROVE Following'
    BY DEF Inv
<1>1. PICK t : Tasks = {t}
    BY DEF OneFlow
<1>2. PICK c : Clients = {c}
    BY DEF OneFlow
<1>3. CASE UNCHANGED vars
    BY <1>3 DEF vars, Following
<1>4. CASE Next
    <2>1. ~ LoseAnswer(t)
        BY DEF OneFlow, LoseAnswer
    <2>2. \/ \E u \in Users :
               \/ ReadRoot(t, u)
               \/ \E amount \in DepositAmounts, auditor \in Auditors :
                     StartDeposit(t, u, amount, auditor)
          \/ \E amount \in Amounts :
               \/ \E recipient \in Users, auditor \in Auditors :
                     StartTransfer(t, amount, recipient, auditor)
               \/ \E fee \in 0 .. FeeUsdcBase : StartWithdraw(t, amount, fee)
          \/ Land(t) \/ Ingest(t)
          \/ Throw(t) \/ RefundDeposit(t) \/ Resume(t) \/ CheckRoot(t)
        BY <1>1, <1>4, <2>1 DEF Next
    <2>3. CASE Land(t)
        BY <1>1, <2>3, LandFollows
    <2>4. CASE Ingest(t)
        BY <1>1, <1>2, <2>4, IngestFollows
    <2>5. CASE Throw(t) \/ RefundDeposit(t) \/ Resume(t) \/ CheckRoot(t)
        BY <1>1, <1>2, <2>5, RestFollows
    <2>. QED BY <1>1, <2>2, <2>3, <2>4, <2>5, StartsAreCurrent
<1>. QED BY <1>3, <1>4

LEMMA FollowingInvariance ==
    ASSUME OneFlow
    PROVE  Spec => [](Inv /\ Following)
<1>1. Init => Inv /\ Following
    BY InvInit, FollowingInit
<1>2. Inv /\ Following /\ [Next]_vars => (Inv /\ Following)'
    BY InvNext, FollowingNext
<1>. QED BY <1>1, <1>2, PTL DEF Spec

(* One flow at a time through one client: the local tree is the chain's    *)
(* whenever no answer is on its way, and assertRootMatchesChain never      *)
(* throws (pool-client.ts). *)
THEOREM ClientFollows ==
    ASSUME OneFlow
    PROVE  Spec => []ClientFollowsChain
<1>1. Types /\ Following => ClientFollowsChain
    <2>. SUFFICES ASSUME Types, Following PROVE ClientFollowsChain
        OBVIOUS
    <2>1. PICK t : Tasks = {t}
        BY DEF OneFlow
    <2>2. Chain = Counting(Len(leaves)) /\ Len(leaves) \in Nat
        BY DEF Chain, Counting, Types
    <2>3. \A c \in Clients : tasks[t].at \in {"idle", "root", "proving"} => trees[c] = Chain
        BY <2>1, <2>2 DEF Following, TreeFollows
    <2>4. tasks[t].at = "checking" => SameRoot(tasks[t].local, Len(leaves))
        <3>1. \A n \in Nat : SameRoot(Counting(n), n)
            BY DEF SameRoot, Counting
        <3>. QED BY <2>1, <2>2, <3>1 DEF Following, FlowIsCurrent
    <2>. QED BY <2>1, <2>3, <2>4 DEF ClientFollowsChain
<1>2. Inv /\ Following => ClientFollowsChain
    BY <1>1 DEF Inv
<1>. QED BY <1>2, FollowingInvariance, PTL

(* Then too no root goes stale and no note is spent between building and   *)
(* landing: what can be proved is accepted, for any window of at least one *)
(* root (roots.rs, wallet.ts). *)
THEOREM ProvedAreAccepted ==
    ASSUME OneFlow
    PROVE  Spec => []ProvedIsAccepted
<1>1. Types /\ Following => ProvedIsAccepted
    <2>. SUFFICES ASSUME Types, Following, NEW t \in Tasks, tasks[t].at = "proving", Provable(t),
                         Len(leaves) + Len(tasks[t].tx.creates) <= TreeCapacity
                  PROVE  Accepts(tasks[t].tx)
        BY DEF ProvedIsAccepted
    <2>. DEFINE tx == tasks[t].tx
                u == tasks[t].user
    <2>1. BuiltBy(u, tx) /\ u \in Users
        BY TypesOfTask DEF TaskShape
    <2>2. /\ tx.method # "deposit" => tx.root = Len(leaves)
          /\ Range(tx.spends) \cap nullifiers = {}
        BY DEF Following, FlowIsCurrent
    <2>3. Statement(u, tx)
        BY DEF Provable
    <2>4. Len(leaves) \in Nat /\ DOMAIN leaves = 1 .. Len(leaves)
        BY DEF Types
    <2>. HIDE DEF tx, u
    <2>5. tx.method \in Methods
        BY <2>1, BuiltShape DEF TxShape
    <2>6. tx.method # "deposit" => Len(leaves) # 0
        <3>1. CASE tx.method = "transfer"
            <4>1. TransferStatement(u, tx)
                BY <2>3, <3>1 DEF Statement
            <4>2. tx.spends[1] \in DOMAIN leaves
                BY <4>1 DEF TransferStatement, Owns
            <4>. QED BY <2>4, <4>2
        <3>2. CASE tx.method = "withdraw"
            <4>1. WithdrawStatement(u, tx)
                BY <2>3, <3>2 DEF Statement
            <4>2. tx.spends[1] \in DOMAIN leaves
                BY <4>1 DEF WithdrawStatement, Owns
            <4>. QED BY <2>4, <4>2
        <3>. QED BY <2>5, <3>1, <3>2 DEF Methods
    <2>. QED BY <2>2, <2>6 DEF Following, Accepts, tx
<1>2. Inv /\ Following => ProvedIsAccepted
    BY <1>1 DEF Inv
<1>. QED BY <1>2, FollowingInvariance, PTL

------------------------------------------------------------------------------
(* What the auditors can read. *)

(* The records an auditor makes of an event, and of a log. *)
Record(e, ct) == [tx |-> e, disclosure |-> ct.payload]

RecordsOf(a, ev, e) ==
    {Record(e, ev.viewCts[k]) : k \in {k \in 1 .. Len(ev.viewCts) : ev.viewCts[k].holder = a}}

RecordsIn(a, es) == UNION {RecordsOf(a, es[e], e) : e \in DOMAIN es}

(* A sequence with an element taken in, or not, and with a sequence taken  *)
(* in: the step of each recursion. *)
Read(out, a, e, ct) == IF ct.holder # a THEN out ELSE Append(out, Record(e, ct))

AreReadings(f, a, e, cts, n) ==
    f = [k \in 0 .. n |-> IF k = 0 THEN <<>> ELSE Read(f[k - 1], a, e, cts[k])]

LEMMA AreReadingsExist ==
    ASSUME NEW a, NEW e, NEW cts
    PROVE  \A m \in Nat : \E f : AreReadings(f, a, e, cts, m)
<1>. DEFINE Good == {n \in Nat : \E f : AreReadings(f, a, e, cts, n)}
<1>1. 0 \in Good
    <2>. DEFINE f == [k \in 0 .. 0 |-> <<>>]
    <2>1. AreReadings(f, a, e, cts, 0)
        BY DEF AreReadings
    <2>. QED BY <2>1
<1>2. ASSUME NEW n \in Good PROVE n + 1 \in Good
    <2>1. PICK f : AreReadings(f, a, e, cts, n)
        OBVIOUS
    <2>. DEFINE g == [k \in 0 .. n + 1 |-> IF k = 0 THEN <<>> ELSE Read(f[k - 1], a, e, cts[k])]
    <2>2. \A k \in 0 .. n : g[k] = f[k]
        BY <2>1 DEF AreReadings
    <2>3. \A k \in 0 .. n + 1 : g[k] = IF k = 0 THEN <<>> ELSE Read(g[k - 1], a, e, cts[k])
        <3>1. \A k \in 0 .. n + 1 : k = 0 \/ k - 1 \in 0 .. n
            OBVIOUS
        <3>. QED BY <2>2, <3>1
    <2>4. g = [k \in 0 .. n + 1 |-> g[k]]
        OBVIOUS
    <2>. HIDE DEF g
    <2>5. AreReadings(g, a, e, cts, n + 1)
        BY <2>3, <2>4 DEF AreReadings
    <2>. QED BY <2>5
<1>3. Good = Nat
    <2>1. Good \in SUBSET Nat
        OBVIOUS
    <2>. HIDE DEF Good
    <2>. QED BY <1>1, <1>2, <2>1, NatSetInduction
<1>. QED BY <1>3

LEMMA OpenedStep ==
    ASSUME NEW a, NEW e, Len(events[e].viewCts) \in Nat
    PROVE  \E f : /\ AreReadings(f, a, e, events[e].viewCts, Len(events[e].viewCts))
                  /\ Opened(a, e) = f[Len(events[e].viewCts)]
<1>. DEFINE cts == events[e].viewCts
            f == CHOOSE f : AreReadings(f, a, e, cts, Len(cts))
<1>1. Opened(a, e) = f[Len(cts)]
    BY DEF Opened, AreReadings, Read, Record
<1>2. AreReadings(f, a, e, cts, Len(cts))
    BY AreReadingsExist
<1>. HIDE DEF f
<1>. QED BY <1>1, <1>2

LEMMA AppendRange ==
    ASSUME NEW S, NEW s \in Seq(S), NEW x
    PROVE  Range(Append(s, x)) = Range(s) \cup {x}
<1>1. /\ DOMAIN Append(s, x) = 1 .. Len(s) + 1 /\ DOMAIN s = 1 .. Len(s) /\ Len(s) \in Nat
      /\ Append(s, x)[Len(s) + 1] = x /\ \A k \in 1 .. Len(s) : Append(s, x)[k] = s[k]
    OBVIOUS
<1>2. \A k \in 1 .. Len(s) + 1 : k \in 1 .. Len(s) \/ k = Len(s) + 1
    BY <1>1
<1>3. 1 .. Len(s) \subseteq 1 .. Len(s) + 1 /\ Len(s) + 1 \in 1 .. Len(s) + 1
    BY <1>1
<1>. QED BY <1>1, <1>2, <1>3 DEF Range

LEMMA ConcatRange ==
    ASSUME NEW S, NEW s \in Seq(S), NEW r \in Seq(S)
    PROVE  Range(s \o r) = Range(s) \cup Range(r)
<1>. DEFINE m == Len(s)
            n == Len(r)
            c == s \o r
<1>1. /\ DOMAIN c = 1 .. m + n /\ DOMAIN s = 1 .. m /\ DOMAIN r = 1 .. n /\ m \in Nat /\ n \in Nat
      /\ \A k \in 1 .. m : c[k] = s[k]
      /\ \A k \in 1 .. n : c[m + k] = r[k]
    OBVIOUS
<1>. HIDE DEF m, n, c
<1>2. \A k \in 1 .. m + n : k \in 1 .. m \/ (k - m \in 1 .. n /\ k = m + (k - m))
    BY <1>1
<1>3. /\ \A k \in 1 .. m : k \in 1 .. m + n
      /\ \A k \in 1 .. n : m + k \in 1 .. m + n
    BY <1>1
<1>4. Range(c) \subseteq Range(s) \cup Range(r)
    <2>. SUFFICES ASSUME NEW k \in 1 .. m + n PROVE c[k] \in Range(s) \cup Range(r)
        BY <1>1 DEF Range
    <2>1. CASE k \in 1 .. m
        BY <1>1, <2>1 DEF Range
    <2>2. CASE k - m \in 1 .. n /\ k = m + (k - m)
        <3>1. c[k] = r[k - m]
            BY <1>1, <2>2
        <3>. QED BY <1>1, <2>2, <3>1 DEF Range
    <2>. QED BY <1>2, <2>1, <2>2
<1>5. Range(s) \subseteq Range(c)
    BY <1>1, <1>3 DEF Range
<1>6. Range(r) \subseteq Range(c)
    <2>. SUFFICES ASSUME NEW k \in 1 .. n PROVE r[k] \in Range(c)
        BY <1>1 DEF Range
    <2>1. m + k \in DOMAIN c /\ c[m + k] = r[k]
        BY <1>1, <1>3
    <2>. QED BY <2>1 DEF Range
<1>. QED BY <1>4, <1>5, <1>6 DEF c

(* Of an event, an auditor reads what is sealed to it and nothing else.    *)
LEMMA OpenedIsExact ==
    ASSUME NEW a, NEW e, Len(events[e].viewCts) \in Nat
    PROVE  /\ Opened(a, e) \in Seq(RecordsOf(a, events[e], e))
           /\ Range(Opened(a, e)) = RecordsOf(a, events[e], e)
<1>. DEFINE cts == events[e].viewCts
            Of(n) == {Record(e, cts[k]) : k \in {k \in 1 .. n : cts[k].holder = a}}
<1>0. PICK f : AreReadings(f, a, e, cts, Len(cts)) /\ Opened(a, e) = f[Len(cts)]
    BY OpenedStep
<1>1. /\ Opened(a, e) = f[Len(cts)] /\ f[0] = <<>>
      /\ \A k \in 1 .. Len(cts) : f[k] = Read(f[k - 1], a, e, cts[k])
    <2>. HIDE DEF cts
    <2>1. 0 \in 0 .. Len(cts) /\ \A k \in 1 .. Len(cts) : k \in 0 .. Len(cts) /\ k # 0
        BY DEF cts
    <2>. QED BY <1>0, <2>1 DEF AreReadings
<1>2. Of(Len(cts)) = RecordsOf(a, events[e], e)
    BY DEF RecordsOf
<1>. HIDE DEF cts
<1>. DEFINE Good == {n \in Nat : n <= Len(cts) => f[n] \in Seq(Of(n)) /\ Range(f[n]) = Of(n)}
<1>3. 0 \in Good
    <2>1. Of(0) = {}
        OBVIOUS
    <2>2. <<>> \in Seq({}) /\ Range(<<>>) = {}
        BY DEF Range
    <2>. QED BY <1>1, <2>1, <2>2
<1>4. ASSUME NEW n \in Good PROVE n + 1 \in Good
    <2>. SUFFICES ASSUME n + 1 <= Len(cts)
                  PROVE  f[n + 1] \in Seq(Of(n + 1)) /\ Range(f[n + 1]) = Of(n + 1)
        OBVIOUS
    <2>. DEFINE out == f[n]
                ct == cts[n + 1]
    <2>1. out \in Seq(Of(n)) /\ Range(out) = Of(n)
        OBVIOUS
    <2>2. f[n + 1] = Read(out, a, e, ct)
        BY <1>1
    <2>3. \A k \in 1 .. n + 1 : k \in 1 .. n \/ k = n + 1
        OBVIOUS
    <2>4. 1 .. n \subseteq 1 .. n + 1 /\ n + 1 \in 1 .. n + 1
        OBVIOUS
    <2>5. CASE ct.holder # a
        <3>1. Of(n + 1) = Of(n)
            BY <2>3, <2>4, <2>5
        <3>2. f[n + 1] = out
            BY <2>2, <2>5 DEF Read
        <3>. QED BY <2>1, <3>1, <3>2
    <2>6. CASE ct.holder = a
        <3>1. Of(n + 1) = Of(n) \cup {Record(e, ct)}
            BY <2>3, <2>4, <2>6
        <3>2. f[n + 1] = Append(out, Record(e, ct))
            BY <2>2, <2>6 DEF Read
        <3>. HIDE DEF out, ct, Of
        <3>3. out \in Seq(Of(n + 1)) /\ Record(e, ct) \in Of(n + 1)
            BY <2>1, <3>1
        <3>4. Append(out, Record(e, ct)) \in Seq(Of(n + 1))
            BY <3>3
        <3>5. Range(Append(out, Record(e, ct))) = Range(out) \cup {Record(e, ct)}
            BY <2>1, AppendRange
        <3>. QED BY <2>1, <3>1, <3>2, <3>4, <3>5
    <2>. QED BY <2>5, <2>6
<1>5. Good = Nat
    <2>1. Good \in SUBSET Nat
        OBVIOUS
    <2>. HIDE DEF Good
    <2>. QED BY <1>3, <1>4, <2>1, NatSetInduction
<1>6. Len(cts) \in Nat
    BY DEF cts
<1>7. f[Len(cts)] \in Seq(Of(Len(cts))) /\ Range(f[Len(cts)]) = Of(Len(cts))
    <2>1. Len(cts) \in Good
        <3>. HIDE DEF Good
        <3>. QED BY <1>5, <1>6
    <2>. QED BY <1>6, <2>1
<1>. HIDE DEF Of
<1>. QED BY <1>1, <1>2, <1>7

(* The same for a batch. *)
More(out, a, e) == out \o Opened(a, e)

AreBatches(f, a, records, batch, n) ==
    f = [k \in 0 .. n |-> IF k = 0 THEN records ELSE More(f[k - 1], a, batch[k])]

LEMMA AreBatchesExist ==
    ASSUME NEW a, NEW records, NEW batch
    PROVE  \A m \in Nat : \E f : AreBatches(f, a, records, batch, m)
<1>. DEFINE Good == {n \in Nat : \E f : AreBatches(f, a, records, batch, n)}
<1>1. 0 \in Good
    <2>. DEFINE f == [k \in 0 .. 0 |-> records]
    <2>1. AreBatches(f, a, records, batch, 0)
        BY DEF AreBatches
    <2>. QED BY <2>1
<1>2. ASSUME NEW n \in Good PROVE n + 1 \in Good
    <2>1. PICK f : AreBatches(f, a, records, batch, n)
        OBVIOUS
    <2>. DEFINE g == [k \in 0 .. n + 1 |-> IF k = 0 THEN records ELSE More(f[k - 1], a, batch[k])]
    <2>2. \A k \in 0 .. n : g[k] = f[k]
        BY <2>1 DEF AreBatches
    <2>3. \A k \in 0 .. n + 1 : g[k] = IF k = 0 THEN records ELSE More(g[k - 1], a, batch[k])
        <3>1. \A k \in 0 .. n + 1 : k = 0 \/ k - 1 \in 0 .. n
            OBVIOUS
        <3>. QED BY <2>2, <3>1
    <2>4. g = [k \in 0 .. n + 1 |-> g[k]]
        OBVIOUS
    <2>. HIDE DEF g
    <2>5. AreBatches(g, a, records, batch, n + 1)
        BY <2>3, <2>4 DEF AreBatches
    <2>. QED BY <2>5
<1>3. Good = Nat
    <2>1. Good \in SUBSET Nat
        OBVIOUS
    <2>. HIDE DEF Good
    <2>. QED BY <1>1, <1>2, <2>1, NatSetInduction
<1>. QED BY <1>3

LEMMA BatchStep ==
    ASSUME NEW a, NEW records, NEW batch, Len(batch) \in Nat
    PROVE  \E f : /\ AreBatches(f, a, records, batch, Len(batch))
                  /\ IngestBatch(a, records, batch) = f[Len(batch)]
<1>. DEFINE f == CHOOSE f : AreBatches(f, a, records, batch, Len(batch))
<1>1. IngestBatch(a, records, batch) = f[Len(batch)]
    BY DEF IngestBatch, AreBatches, More
<1>2. AreBatches(f, a, records, batch, Len(batch))
    BY AreBatchesExist
<1>. HIDE DEF f
<1>. QED BY <1>1, <1>2

(* A batch adds what opens of its events, and nothing else. *)
Readable(a, batch) == UNION {RecordsOf(a, events[batch[k]], batch[k]) : k \in 1 .. Len(batch)}

Logged(batch) == Len(batch) \in Nat /\ \A k \in 1 .. Len(batch) : Len(events[batch[k]].viewCts) \in Nat

IsList(s) == \E S : s \in Seq(S)

LEMMA BatchIsExact ==
    ASSUME NEW a, NEW records, IsList(records), NEW batch, Logged(batch)
    PROVE  /\ IsList(IngestBatch(a, records, batch))
           /\ Range(IngestBatch(a, records, batch)) = Range(records) \cup Readable(a, batch)
<1>. DEFINE Of(n) == UNION {RecordsOf(a, events[batch[k]], batch[k]) : k \in 1 .. n}
<1>1. /\ Len(batch) \in Nat
      /\ \A k \in 1 .. Len(batch) : Len(events[batch[k]].viewCts) \in Nat
    BY DEF Logged
<1>2. PICK f : AreBatches(f, a, records, batch, Len(batch)) /\ IngestBatch(a, records, batch) = f[Len(batch)]
    BY <1>1, BatchStep
<1>3. f[0] = records /\ \A k \in 1 .. Len(batch) : f[k] = More(f[k - 1], a, batch[k])
    <2>1. 0 \in 0 .. Len(batch) /\ \A k \in 1 .. Len(batch) : k \in 0 .. Len(batch) /\ k # 0
        BY <1>1
    <2>. QED BY <1>2, <2>1 DEF AreBatches
<1>. DEFINE Good == {n \in Nat : n <= Len(batch) => IsList(f[n]) /\ Range(f[n]) = Range(records) \cup Of(n)}
<1>4. 0 \in Good
    <2>1. Of(0) = {}
        OBVIOUS
    <2>. HIDE DEF Of
    <2>. QED BY <1>3, <2>1
<1>5. ASSUME NEW n \in Good PROVE n + 1 \in Good
    <2>. SUFFICES ASSUME n + 1 <= Len(batch)
                  PROVE  IsList(f[n + 1]) /\ Range(f[n + 1]) = Range(records) \cup Of(n + 1)
        OBVIOUS
    <2>. DEFINE out == f[n]
                e == batch[n + 1]
                new == Opened(a, e)
    <2>1. IsList(out) /\ Range(out) = Range(records) \cup Of(n) /\ n + 1 \in 1 .. Len(batch)
        BY <1>1
    <2>2. f[n + 1] = out \o new
        <3>1. f[n + 1] = More(out, a, e)
            BY <1>3, <2>1
        <3>. QED BY <3>1 DEF More
    <2>3. new \in Seq(RecordsOf(a, events[e], e)) /\ Range(new) = RecordsOf(a, events[e], e)
        BY <1>1, <2>1, OpenedIsExact
    <2>4. Of(n + 1) = Of(n) \cup RecordsOf(a, events[e], e)
        <3>1. \A k \in 1 .. n + 1 : k \in 1 .. n \/ k = n + 1
            OBVIOUS
        <3>2. 1 .. n \subseteq 1 .. n + 1 /\ n + 1 \in 1 .. n + 1
            OBVIOUS
        <3>. QED BY <3>1, <3>2
    <2>. HIDE DEF out, new, e, Of
    <2>5. PICK S : out \in Seq(S)
        BY <2>1 DEF IsList
    <2>. DEFINE T == S \cup RecordsOf(a, events[e], e)
    <2>6. out \in Seq(T) /\ new \in Seq(T)
        BY <2>3, <2>5
    <2>. HIDE DEF T
    <2>7. out \o new \in Seq(T) /\ Range(out \o new) = Range(out) \cup Range(new)
        BY <2>6, ConcatRange
    <2>8. IsList(out \o new)
        BY <2>7 DEF IsList
    <2>. QED BY <2>1, <2>2, <2>3, <2>4, <2>7, <2>8
<1>6. Good = Nat
    <2>1. Good \in SUBSET Nat
        OBVIOUS
    <2>. HIDE DEF Good
    <2>. QED BY <1>4, <1>5, <2>1, NatSetInduction
<1>7. Len(batch) \in Good
    <2>. HIDE DEF Good
    <2>. QED BY <1>1, <1>6
<1>. QED BY <1>2, <1>7 DEF Readable

(* Polled twice and told apart by transaction, the index has of every      *)
(* event what is sealed to its auditor. *)
LEMMA RecordsAreExact ==
    ASSUME Types, NEW a
    PROVE  Records(a) = RecordsIn(a, events)
<1>. DEFINE log == [e \in DOMAIN events |-> e]
            none == <<>>
            once == IngestBatch(a, none, log)
            S == RecordsIn(a, events)
<1>1. /\ events \in Seq(EventSet) /\ Len(events) \in Nat /\ DOMAIN events = 1 .. Len(events)
      /\ \A e \in DOMAIN events : Len(events[e].viewCts) \in Nat
    <2>1. events \in Seq(EventSet)
        BY DEF Types
    <2>2. \A e \in DOMAIN events : events[e] \in EventSet
        BY <2>1
    <2>3. \A e \in DOMAIN events : events[e].viewCts \in Seq(ViewCt)
        BY <2>2 DEF EventSet
    <2>. QED BY <2>1, <2>3
<1>2. Len(log) = Len(events) /\ \A k \in 1 .. Len(log) : log[k] = k
    BY <1>1
<1>3. Logged(log)
    BY <1>1, <1>2 DEF Logged
<1>4. Readable(a, log) = S
    BY <1>1, <1>2 DEF Readable, RecordsIn
<1>. HIDE DEF log, S
<1>5. IsList(none) /\ Range(none) = {}
    <2>1. <<>> \in Seq({})
        OBVIOUS
    <2>. QED BY <2>1 DEF IsList, Range
<1>. HIDE DEF none
<1>6. IsList(once) /\ Range(once) = S
    BY <1>3, <1>4, <1>5, BatchIsExact
<1>. HIDE DEF once
<1>7. Range(IngestBatch(a, once, log)) = S
    <2>1. Range(IngestBatch(a, once, log)) = Range(once) \cup Readable(a, log)
        BY <1>3, <1>6, BatchIsExact, Zenon
    <2>. QED BY <1>4, <1>6, <2>1
<1>. QED BY <1>7 DEF Records, once, none, log, S

------------------------------------------------------------------------------
(* Every event is under one auditor: its ciphertexts say one thing and are *)
(* all sealed to the auditor of the notes it creates and spends.           *)
Says(viewCts, a, d) ==
    /\ Len(viewCts) \in Nat \ {0}
    /\ \A k \in 1 .. Len(viewCts) : viewCts[k].holder = a /\ viewCts[k].payload = d

AreUnder(ls, is, a) ==
    is # {} /\ \A i \in is : i \in DOMAIN ls /\ ls[i].auditor = a

IsUnder(ev, ls, a, d) ==
    Says(ev.viewCts, a, d) /\ AreUnder(ls, CreatedIn(ev) \cup SpentIn(ev), a)

EachUnderOne == \A e \in DOMAIN events : \E a, d : IsUnder(events[e], leaves, a, d)

LEMMA DepositSays ==
    ASSUME NEW u \in Users, NEW tx, BuiltDeposit(u, tx)
    PROVE  \E a, d : /\ Says(tx.viewCts, a, d)
                     /\ Len(tx.creates) = 1 /\ tx.creates[1].auditor = a /\ Range(tx.spends) = {}
<1>1. PICK amount \in DepositAmounts, a \in Auditors : tx = BuildDeposit(u, amount, a)
    BY DEF BuiltDeposit
<1>. DEFINE note == Note(amount, u, a)
            told == Disclosure("deposit", u, u, <<amount>>)
            view == Sealed(a, told)
<1>2. note.auditor = a /\ view.holder = a /\ view.payload = told
    BY DEF Note, Sealed
<1>3. tx.spends = <<>> /\ tx.creates = <<note>> /\ tx.viewCts = <<view>>
    BY <1>1 DEF BuildDeposit
<1>. HIDE DEF note, view, told
<1>4. Says(tx.viewCts, a, told)
    BY <1>2, <1>3 DEF Says
<1>5. Len(tx.creates) = 1 /\ tx.creates[1].auditor = a /\ Range(tx.spends) = {}
    BY <1>2, <1>3 DEF Range
<1>. QED BY <1>4, <1>5

(* A transfer's proof holds both its auditors to be one. *)
LEMMA TransferSays ==
    ASSUME NEW u \in Users, NEW tx, BuiltTransfer(u, tx), TransferStatement(u, tx)
    PROVE  \E a, d : /\ Says(tx.viewCts, a, d)
                     /\ Len(tx.creates) = 2 /\ \A k \in 1 .. 2 : tx.creates[k].auditor = a
                     /\ AreUnder(leaves, Range(tx.spends), a)
<1>1. PICK i \in FoundNote, j \in FoundNote, root \in Nat, amount \in Amounts, v \in Users, a \in Auditors :
        /\ amount <= i.note.amount + j.note.amount
        /\ tx = BuildTransfer(u, <<i, j>>, root, amount, v, a)
    BY DEF BuiltTransfer
<1>. DEFINE rest == i.note.amount + j.note.amount - amount
            b == i.note.auditor
            out == Note(amount, v, a)
            change == Note(rest, u, b)
            told == Disclosure("transfer", u, v, <<amount, rest>>)
            view == Sealed(b, told)
            other == Sealed(a, told)
<1>2. /\ out.auditor = a /\ change.auditor = b
      /\ view.holder = b /\ view.payload = told /\ other.holder = a /\ other.payload = told
    BY DEF Note, Sealed
<1>3. /\ tx.spends = <<i.leafIndex, j.leafIndex>> /\ tx.auditors = <<b, a>>
      /\ tx.creates = <<out, change>> /\ tx.viewCts = <<view, other>>
    <2>1. i.note.amount \in Nat /\ j.note.amount \in Nat /\ amount \in Nat
        BY BoundsAreNat DEF FoundNote, NoteSet
    <2>2. /\ tx.spends = <<i.leafIndex, j.leafIndex>> /\ tx.auditors = <<b, a>>
          /\ tx.creates = <<Note(amount, v, a), Note(rest, u, b)>>
          /\ tx.viewCts = <<Sealed(b, told), Sealed(a, told)>>
        <3>. HIDE DEF out, change, view, other
        <3>. QED BY <1>1, <2>1 DEF BuildTransfer
    <2>. QED BY <2>2
<1>. HIDE DEF rest, b, out, change, told, view, other
<1>4. /\ a = b
      /\ \A k \in {1, 2} : tx.spends[k] \in DOMAIN leaves /\ leaves[tx.spends[k]].auditor = a
    <2>1. tx.auditors[1] = b /\ tx.auditors[2] = a /\ tx.creates[2].auditor = b
        BY <1>2, <1>3
    <2>. QED BY <2>1 DEF TransferStatement, Owns
<1>5. Says(tx.viewCts, a, told)
    BY <1>2, <1>3, <1>4 DEF Says
<1>6. Len(tx.creates) = 2 /\ \A k \in 1 .. 2 : tx.creates[k].auditor = a
    BY <1>2, <1>3, <1>4
<1>7. AreUnder(leaves, Range(tx.spends), a)
    <2>1. Range(tx.spends) = {tx.spends[1], tx.spends[2]}
        BY <1>3 DEF Range
    <2>. QED BY <1>4, <2>1 DEF AreUnder
<1>. QED BY <1>5, <1>6, <1>7

LEMMA WithdrawSays ==
    ASSUME NEW u \in Users, NEW tx, BuiltWithdraw(u, tx), WithdrawStatement(u, tx)
    PROVE  \E a, d : /\ Says(tx.viewCts, a, d) /\ Len(tx.creates) = 0
                     /\ AreUnder(leaves, Range(tx.spends), a)
<1>1. PICK i \in FoundNote, root \in Nat, amount \in Amounts, fee \in 0 .. FeeUsdcBase :
        tx = BuildWithdraw(u, i, root, amount, "account", fee)
    BY DEF BuiltWithdraw
<1>. DEFINE told == Disclosure("withdraw", u, "account", <<amount, fee>>)
            a == i.note.auditor
            view == Sealed(a, told)
<1>2. view.holder = a /\ view.payload = told
    BY DEF Sealed
<1>3. /\ tx.spends = <<i.leafIndex>> /\ tx.auditors = <<a>>
      /\ tx.creates = <<>> /\ tx.viewCts = <<view>>
    BY <1>1 DEF BuildWithdraw
<1>. HIDE DEF a, told, view
<1>4. Says(tx.viewCts, a, told)
    BY <1>2, <1>3 DEF Says
<1>5. AreUnder(leaves, Range(tx.spends), a)
    <2>1. Range(tx.spends) = {tx.spends[1]} /\ tx.auditors[1] = a
        BY <1>3 DEF Range
    <2>. QED BY <2>1 DEF AreUnder, WithdrawStatement, Owns
<1>. QED BY <1>3, <1>4, <1>5

LEMMA LandedSays ==
    ASSUME Types, NEW t \in Tasks, Land(t)
    PROVE  LET tx == tasks[t].tx IN
           \E a, d : /\ Says(tx.viewCts, a, d)
                     /\ \A k \in 1 .. Len(tx.creates) : tx.creates[k].auditor = a
                     /\ \A i \in Range(tx.spends) : i \in DOMAIN leaves /\ leaves[i].auditor = a
                     /\ Len(tx.creates) # 0 \/ Range(tx.spends) # {}
<1>. DEFINE tx == tasks[t].tx
            u == tasks[t].user
<1>1. u \in Users /\ BuiltBy(u, tx) /\ Statement(u, tx)
    BY LandedIsOwned DEF Land, Provable
<1>. HIDE DEF tx, u
<1>2. CASE BuiltDeposit(u, tx)
    <2>1. PICK a, d : /\ Says(tx.viewCts, a, d)
                      /\ Len(tx.creates) = 1 /\ tx.creates[1].auditor = a /\ Range(tx.spends) = {}
        BY <1>1, <1>2, DepositSays
    <2>2. \A k \in 1 .. Len(tx.creates) : tx.creates[k].auditor = a
        BY <2>1
    <2>. QED BY <2>1, <2>2 DEF tx
<1>3. CASE BuiltTransfer(u, tx)
    <2>1. TransferStatement(u, tx)
        BY <1>1, <1>3, TransferShape DEF Statement
    <2>2. PICK a, d : /\ Says(tx.viewCts, a, d)
                      /\ Len(tx.creates) = 2 /\ \A k \in 1 .. 2 : tx.creates[k].auditor = a
                      /\ AreUnder(leaves, Range(tx.spends), a)
        BY <1>1, <1>3, <2>1, TransferSays
    <2>. QED BY <2>2 DEF tx, AreUnder
<1>4. CASE BuiltWithdraw(u, tx)
    <2>1. WithdrawStatement(u, tx)
        BY <1>1, <1>4, WithdrawShape DEF Statement
    <2>2. PICK a, d : /\ Says(tx.viewCts, a, d) /\ Len(tx.creates) = 0
                      /\ AreUnder(leaves, Range(tx.spends), a)
        BY <1>1, <1>4, <2>1, WithdrawSays
    <2>3. \A k \in 1 .. Len(tx.creates) : tx.creates[k].auditor = a
        BY <2>2
    <2>. QED BY <2>2, <2>3 DEF tx, AreUnder
<1>. QED BY <1>1, <1>2, <1>3, <1>4, Zenon DEF BuiltBy

(* The auditor of a landing, and what it is told. *)
LandsUnder(tx, a, d) ==
    /\ IsUnder(events'[Len(events')], leaves', a, d)
    /\ d = tx.viewCts[1].payload
    /\ events'[Len(events')].viewCts = tx.viewCts
    /\ \A i \in {Len(leaves) + k : k \in 1 .. Len(tx.creates)} \cup Range(tx.spends) :
          i \in DOMAIN leaves' /\ leaves'[i].auditor = a

LEMMA LandedUnder ==
    ASSUME Types, NEW t \in Tasks, Land(t)
    PROVE  \E a, d : LandsUnder(tasks[t].tx, a, d)
<1>. DEFINE tx == tasks[t].tx
            m == Len(tx.creates)
            n == Len(leaves)
            new == {n + k : k \in 1 .. m}
            ev == events'[Len(events')]
<1>1. /\ CreatedIn(ev) = new /\ SpentIn(ev) = Range(tx.spends)
      /\ \A i \in DOMAIN leaves : i \in DOMAIN leaves' /\ leaves'[i] = leaves[i]
      /\ \A k \in 1 .. m : n + k \in DOMAIN leaves' /\ leaves'[n + k] = tx.creates[k]
    BY LandedEvent
<1>2. m \in Nat /\ n \in Nat /\ ev.viewCts = tx.viewCts
    <2>1. ev = EventOf(tx) /\ m \in Nat /\ n \in Nat
        BY LandedIsLogged
    <2>. QED BY <2>1 DEF EventOf
<1>3. PICK a, d : /\ Says(tx.viewCts, a, d)
                  /\ \A k \in 1 .. m : tx.creates[k].auditor = a
                  /\ \A i \in Range(tx.spends) : i \in DOMAIN leaves /\ leaves[i].auditor = a
                  /\ m # 0 \/ Range(tx.spends) # {}
    BY LandedSays
<1>. HIDE DEF tx, m, n, ev
<1>4. \A i \in new \cup Range(tx.spends) : i \in DOMAIN leaves' /\ leaves'[i].auditor = a
    BY <1>1, <1>3
<1>5. new \cup Range(tx.spends) # {}
    <2>1. m # 0 => n + 1 \in new
        BY <1>2
    <2>. QED BY <1>3, <2>1
<1>. HIDE DEF new
<1>6. AreUnder(leaves', CreatedIn(ev) \cup SpentIn(ev), a)
    BY <1>1, <1>4, <1>5 DEF AreUnder
<1>7. d = tx.viewCts[1].payload
    BY <1>3 DEF Says
<1>8. IsUnder(ev, leaves', a, d)
    BY <1>2, <1>3, <1>6 DEF IsUnder
<1>. QED BY <1>2, <1>4, <1>7, <1>8 DEF LandsUnder, ev, new, n, m, tx

LEMMA LandKeepsEachUnderOne ==
    ASSUME Types, EachUnderOne, NEW t \in Tasks, Land(t)
    PROVE  EachUnderOne'
<1>1. /\ \A e \in DOMAIN events : events'[e] = events[e]
      /\ \A e \in DOMAIN events' : e \in DOMAIN events \/ e = Len(events')
      /\ \A i \in DOMAIN leaves : i \in DOMAIN leaves' /\ leaves'[i] = leaves[i]
    BY LandedEvent
<1>2. ASSUME NEW ev, NEW a, NEW d, IsUnder(ev, leaves, a, d) PROVE IsUnder(ev, leaves', a, d)
    BY <1>1, <1>2 DEF IsUnder, AreUnder
<1>3. ASSUME NEW e \in DOMAIN events' PROVE \E a, d : IsUnder(events'[e], leaves', a, d)
    <2>1. CASE e \in DOMAIN events
        BY <1>1, <1>2, <2>1 DEF EachUnderOne
    <2>2. CASE e = Len(events')
        BY <2>2, LandedUnder DEF LandsUnder
    <2>. QED BY <1>1, <2>1, <2>2
<1>. QED BY <1>3 DEF EachUnderOne

(* What an auditor reads of an event under one auditor. *)
LEMMA RecordsUnder ==
    ASSUME NEW ev, NEW ls, NEW b, NEW d, IsUnder(ev, ls, b, d), NEW a, NEW e
    PROVE  RecordsOf(a, ev, e) = IF a = b THEN {[tx |-> e, disclosure |-> d]} ELSE {}
<1>1. Len(ev.viewCts) \in Nat \ {0}
      /\ \A k \in 1 .. Len(ev.viewCts) : ev.viewCts[k].holder = b /\ ev.viewCts[k].payload = d
    BY DEF IsUnder, Says
<1>2. 1 \in 1 .. Len(ev.viewCts)
    BY <1>1
<1>3. \A k \in 1 .. Len(ev.viewCts) : Record(e, ev.viewCts[k]) = [tx |-> e, disclosure |-> d]
    BY <1>1 DEF Record
<1>. QED BY <1>1, <1>2, <1>3 DEF RecordsOf

LEMMA ExactWhenUnderOne ==
    ASSUME Types, EachUnderOne
    PROVE  DisclosureIsExact
<1>. SUFFICES ASSUME NEW e \in DOMAIN events, NEW a \in Auditors
              PROVE  (\E r \in Records(a) : r.tx = e) <=>
                        \E i \in Created(e) \cup SpentBy(e) : leaves[i].auditor = a
    BY DEF DisclosureIsExact
<1>1. PICK b, d : IsUnder(events[e], leaves, b, d)
    BY DEF EachUnderOne
<1>2. (\E i \in Created(e) \cup SpentBy(e) : leaves[i].auditor = a) <=> a = b
    <2>1. Created(e) = CreatedIn(events[e]) /\ SpentBy(e) = SpentIn(events[e])
        BY Readings
    <2>. QED BY <1>1, <2>1 DEF IsUnder, AreUnder
<1>3. \A f \in DOMAIN events : \A r \in RecordsOf(a, events[f], f) : r.tx = f
    BY DEF RecordsOf, Record
<1>4. (\E r \in Records(a) : r.tx = e) <=> RecordsOf(a, events[e], e) # {}
    BY <1>3, RecordsAreExact DEF RecordsIn
<1>5. RecordsOf(a, events[e], e) = IF a = b THEN {[tx |-> e, disclosure |-> d]} ELSE {}
    BY <1>1, RecordsUnder
<1>. QED BY <1>2, <1>4, <1>5

LEMMA LedgerOnlyLands ==
    ASSUME Types, [Next]_vars
    PROVE  UNCHANGED <<leaves, nullifiers, events>> \/ \E t \in Tasks : Land(t)
<1>1. CASE UNCHANGED vars
    BY <1>1 DEF vars
<1>2. CASE Next
    BY <1>2, NextSteps DEF Quiet, LoseAnswer, Ingest, Resume, chainVars
<1>. QED BY <1>1, <1>2

LEMMA UnderOneAlways == Spec => []EachUnderOne
<1>1. Init => EachUnderOne
    <2>. SUFFICES ASSUME Init PROVE EachUnderOne
        OBVIOUS
    <2>1. DOMAIN events = {}
        BY DEF Init
    <2>. QED BY <2>1 DEF EachUnderOne
<1>2. Inv /\ EachUnderOne /\ [Next]_vars => EachUnderOne'
    <2>. SUFFICES ASSUME Inv, EachUnderOne, [Next]_vars PROVE EachUnderOne'
        OBVIOUS
    <2>1. UNCHANGED <<leaves, nullifiers, events>> => EachUnderOne'
        BY DEF EachUnderOne
    <2>. QED BY <2>1, LedgerOnlyLands, LandKeepsEachUnderOne DEF Inv
<1>. QED BY <1>1, <1>2, Invariance, PTL DEF Spec

(* Disclosure is exact: whichever flows interleave, an auditor can read of *)
(* an event if and only if a note it creates or spends is under that       *)
(* auditor (wallet.ts builders, transfer.circom, indexer.ts).              *)
THEOREM DisclosuresAreExact == Spec => []DisclosureIsExact
<1>1. Inv /\ EachUnderOne => DisclosureIsExact
    BY ExactWhenUnderOne DEF Inv
<1>. QED BY <1>1, Invariance, UnderOneAlways, PTL

------------------------------------------------------------------------------
(* The auditors' books. *)

TotalOf(rs) == SumFunctionOnSet([r \in rs |-> r.disclosure.amounts[1]], rs)

ReceivedBy(rs, u) == {r \in rs : r.disclosure.recipient = u}

PaidBy(rs, u) == {r \in rs : r.disclosure.action # "deposit" /\ r.disclosure.sender = u}

UnderIn(ls, ns, a, u) == {i \in OwnedIn(ls, u) \ ns : ls[i].auditor = a}

HoldingUnderOf(ls, ns, a, u) == SumFunctionOnSet(Amount(ls), UnderIn(ls, ns, a, u))

(* The inductive form: an auditor's records are of amounts, and for every  *)
(* user what they say was received is what is held and what was paid.      *)
Whole(rs) == IsFiniteSet(rs) /\ \A r \in rs : r.disclosure.amounts[1] \in Nat

Balanced(rs, under, u) == TotalOf(ReceivedBy(rs, u)) = under + TotalOf(PaidBy(rs, u))

BooksFit ==
    \A a \in Auditors :
        /\ Whole(RecordsIn(a, events))
        /\ \A u \in Users :
              Balanced(RecordsIn(a, events), HoldingUnderOf(leaves, nullifiers, a, u), u)

(* A new record adds its amount to the total. *)
LEMMA TotalGrows ==
    ASSUME NEW rs, IsFiniteSet(rs), \A r \in rs : r.disclosure.amounts[1] \in Nat,
           NEW r, r \notin rs, r.disclosure.amounts[1] \in Nat
    PROVE  TotalOf(rs \cup {r}) = TotalOf(rs) + r.disclosure.amounts[1]
<1>. DEFINE f == [s \in rs |-> s.disclosure.amounts[1]]
            h == [s \in rs \cup {r} |-> s.disclosure.amounts[1]]
<1>1. /\ \A s \in rs : f[s] \in Int /\ h[s] = f[s]
      /\ \A s \in rs \cup {r} : h[s] \in Int
      /\ h[r] = r.disclosure.amounts[1]
    OBVIOUS
<1>2. TotalOf(rs) = SumFunctionOnSet(f, rs) /\ TotalOf(rs \cup {r}) = SumFunctionOnSet(h, rs \cup {r})
    BY DEF TotalOf
<1>. HIDE DEF f, h
<1>3. SumFunctionOnSet(h, rs \cup {r}) = h[r] + SumFunctionOnSet(h, rs)
    BY <1>1, SumAdd
<1>4. SumFunctionOnSet(h, rs) = SumFunctionOnSet(f, rs) /\ SumFunctionOnSet(f, rs) \in Int
    BY <1>1, SumAgree, SumType
<1>. QED BY <1>1, <1>2, <1>3, <1>4

LEMMA TotalIsNat ==
    ASSUME NEW rs, IsFiniteSet(rs), \A r \in rs : r.disclosure.amounts[1] \in Nat
    PROVE  TotalOf(rs) \in Nat
<1>. DEFINE f == [s \in rs |-> s.disclosure.amounts[1]]
<1>1. \A s \in rs : f[s] \in Nat
    OBVIOUS
<1>. HIDE DEF f
<1>2. SumFunctionOnSet(f, rs) \in Nat
    BY <1>1, SumNat
<1>. QED BY <1>2 DEF TotalOf, f

LEMMA RecordsAreTheirEvents ==
    ASSUME NEW a, NEW es, NEW r \in RecordsIn(a, es)
    PROVE  r.tx \in DOMAIN es
BY DEF RecordsIn, RecordsOf, Record

LEMMA RecordsGrow ==
    ASSUME Types, NEW t \in Tasks, Land(t), NEW b, NEW d, LandsUnder(tasks[t].tx, b, d), NEW a
    PROVE  LET r == [tx |-> Len(events'), disclosure |-> d] IN
           /\ RecordsIn(a, events') = RecordsIn(a, events) \cup (IF a = b THEN {r} ELSE {})
           /\ r \notin RecordsIn(a, events)
<1>. DEFINE n == Len(events')
            r == [tx |-> n, disclosure |-> d]
<1>1. /\ \A e \in DOMAIN events : e \in DOMAIN events' /\ e # n /\ events'[e] = events[e]
      /\ \A e \in DOMAIN events' : e \in DOMAIN events \/ e = n
      /\ n \in DOMAIN events'
    BY LandedEvent
<1>2. RecordsOf(a, events'[n], n) = IF a = b THEN {r} ELSE {}
    <2>1. IsUnder(events'[n], leaves', b, d)
        BY DEF LandsUnder
    <2>. HIDE DEF n, LandsUnder
    <2>2. RecordsOf(a, events'[n], n) = IF a = b THEN {[tx |-> n, disclosure |-> d]} ELSE {}
        BY <2>1, RecordsUnder
    <2>. QED BY <2>2
<1>3. r \notin RecordsIn(a, events)
    <2>1. r.tx = n
        OBVIOUS
    <2>. HIDE DEF r, n
    <2>. QED BY <1>1, <2>1, RecordsAreTheirEvents
<1>. HIDE DEF n, r
<1>4. RecordsIn(a, events') = RecordsIn(a, events) \cup RecordsOf(a, events'[n], n)
    BY <1>1 DEF RecordsIn
<1>. QED BY <1>2, <1>3, <1>4 DEF n, r

(* All that a landing moves is under its auditor b: what is held under     *)
(* another one stays, and what is held under b changes as the holding      *)
(* does. *)
MovesUnder(a, b, u) ==
    LET under == HoldingUnderOf(leaves, nullifiers, a, u)
        after == HoldingUnderOf(leaves', nullifiers', a, u)
    IN  /\ under \in Nat /\ after \in Nat
        /\ a # b => after = under
        /\ a = b => after + HoldingOf(leaves, nullifiers, u)
                    = under + HoldingOf(leaves', nullifiers', u)

LEMMA HoldingUnderMoves ==
    ASSUME Types, NEW t \in Tasks, Land(t), NEW b, NEW d, LandsUnder(tasks[t].tx, b, d),
           NEW a, NEW u
    PROVE  MovesUnder(a, b, u)
<1>. DEFINE used == Range(tasks[t].tx.spends)
            new == {Len(leaves) + k : k \in 1 .. Len(tasks[t].tx.creates)}
            f == Amount(leaves)
            h == Amount(leaves')
            A == OwnedIn(leaves, u) \ nullifiers
            A2 == OwnedIn(leaves', u) \ nullifiers'
            U == UnderIn(leaves, nullifiers, a, u)
            U2 == UnderIn(leaves', nullifiers', a, u)
            R == A \ U
<1>1. /\ \A i \in DOMAIN leaves : i \in DOMAIN leaves' /\ leaves'[i] = leaves[i]
      /\ DOMAIN leaves' = DOMAIN leaves \cup new
    BY LandedEvent
<1>2. nullifiers' = nullifiers \cup used
    BY DEF Land
<1>3. \A i \in new \cup used : leaves'[i].auditor = b
    BY DEF LandsUnder
<1>4. new \cap DOMAIN leaves = {}
    BY LandedEvent, SMTT(30)
<1>5. Types'
    BY LandKeepsTypes
<1>6. /\ IsFiniteSet(DOMAIN leaves) /\ IsFiniteSet(DOMAIN leaves')
      /\ \A i \in DOMAIN leaves : f[i] \in Nat /\ h[i] = f[i]
      /\ \A i \in DOMAIN leaves' : h[i] \in Nat
    <2>1. IsFiniteSet(DOMAIN leaves) /\ \A i \in DOMAIN leaves : leaves[i].amount \in Nat
        BY LeavesAreFinite
    <2>2. Len(leaves') \in Nat /\ DOMAIN leaves' = 1 .. Len(leaves') /\ leaves' \in Seq(NoteSet)
        BY <1>5 DEF Types
    <2>3. IsFiniteSet(DOMAIN leaves')
        BY <2>2, FS_Interval
    <2>4. \A i \in DOMAIN leaves' : leaves'[i] \in NoteSet
        BY <2>2
    <2>5. \A i \in DOMAIN leaves' : leaves'[i].amount \in Nat
        BY <2>4 DEF NoteSet
    <2>. HIDE DEF new
    <2>. QED BY <1>1, <2>1, <2>3, <2>5 DEF Amount
<1>. HIDE DEF used, new, f, h
<1>7. U \subseteq A /\ A \subseteq DOMAIN leaves /\ U2 \subseteq A2 /\ A2 \subseteq DOMAIN leaves'
    BY DEF UnderIn, OwnedIn
<1>8. a # b => U2 = U /\ U2 \subseteq DOMAIN leaves
    BY <1>1, <1>2, <1>3 DEF UnderIn, OwnedIn
<1>9. a = b => A2 \ U2 = R
    BY <1>1, <1>2, <1>3 DEF UnderIn, OwnedIn
<1>10. /\ HoldingUnderOf(leaves, nullifiers, a, u) = SumFunctionOnSet(f, U)
       /\ HoldingUnderOf(leaves', nullifiers', a, u) = SumFunctionOnSet(h, U2)
       /\ HoldingOf(leaves, nullifiers, u) = SumFunctionOnSet(f, A)
       /\ HoldingOf(leaves', nullifiers', u) = SumFunctionOnSet(h, A2)
    BY DEF HoldingUnderOf, HoldingOf, f, h
<1>11. R \subseteq DOMAIN leaves /\ U \cap R = {} /\ U \cup R = A
    BY <1>7
<1>. HIDE DEF A, A2, U, U2, R
<1>12. IsFiniteSet(U) /\ IsFiniteSet(U2) /\ IsFiniteSet(R)
    <2>1. U \subseteq DOMAIN leaves /\ U2 \subseteq DOMAIN leaves'
        BY <1>7
    <2>. QED BY <1>6, <1>11, <2>1, FS_Subset
<1>13. /\ \A i \in U : f[i] \in Nat
       /\ \A i \in U2 : h[i] \in Nat
       /\ \A i \in R : f[i] \in Nat /\ h[i] = f[i]
    BY <1>6, <1>7, <1>11
<1>14. /\ SumFunctionOnSet(f, U) \in Nat /\ SumFunctionOnSet(h, U2) \in Nat
       /\ SumFunctionOnSet(f, R) \in Nat
    BY <1>12, <1>13, SumNat
<1>15. CASE a # b
    <2>1. \A i \in U : f[i] \in Int /\ h[i] = f[i]
        BY <1>6, <1>7, <1>13
    <2>2. SumFunctionOnSet(h, U) = SumFunctionOnSet(f, U)
        BY <1>12, <2>1, SumAgree
    <2>. QED BY <1>8, <1>10, <1>14, <1>15, <2>2 DEF MovesUnder
<1>16. CASE a = b
    <2>1. \A i \in R : f[i] \in Int /\ h[i] = f[i]
        BY <1>13
    <2>2. SumFunctionOnSet(h, R) = SumFunctionOnSet(f, R)
        BY <1>12, <2>1, SumAgree
    <2>3. SumFunctionOnSet(f, A) = SumFunctionOnSet(f, U) + SumFunctionOnSet(f, R)
        <3>1. \A i \in U \cup R : f[i] \in Int
            BY <1>13
        <3>. QED BY <1>11, <1>12, <3>1, SumUnion
    <2>4. SumFunctionOnSet(h, A2) = SumFunctionOnSet(h, U2) + SumFunctionOnSet(h, R)
        <3>1. U2 \cap R = {} /\ U2 \cup R = A2
            BY <1>7, <1>9, <1>16
        <3>2. \A i \in U2 \cup R : h[i] \in Int
            BY <1>13
        <3>. QED BY <1>12, <3>1, <3>2, SumUnion
    <2>. DEFINE su == SumFunctionOnSet(f, U)
                su2 == SumFunctionOnSet(h, U2)
                sr == SumFunctionOnSet(f, R)
    <2>5. su \in Nat /\ su2 \in Nat /\ sr \in Nat
        BY <1>14
    <2>. HIDE DEF su, su2, sr
    <2>6. su2 + (su + sr) = su + (su2 + sr)
        BY <2>5
    <2>. QED BY <1>10, <1>14, <1>16, <2>2, <2>3, <2>4, <2>6 DEF su, su2, sr, MovesUnder
<1>. QED BY <1>15, <1>16

(* The books of a set of records: what a user is paid and pays. *)
Credit(d, u) == IF d.recipient = u THEN d.amounts[1] ELSE 0

Debit(d, u) == IF d.action # "deposit" /\ d.sender = u THEN d.amounts[1] ELSE 0

LEMMA BookTotals ==
    ASSUME NEW rs, Whole(rs), NEW u
    PROVE  /\ Whole(ReceivedBy(rs, u)) /\ Whole(PaidBy(rs, u))
           /\ TotalOf(ReceivedBy(rs, u)) \in Nat /\ TotalOf(PaidBy(rs, u)) \in Nat
<1>1. ReceivedBy(rs, u) \subseteq rs /\ PaidBy(rs, u) \subseteq rs
    BY DEF ReceivedBy, PaidBy
<1>2. Whole(ReceivedBy(rs, u)) /\ Whole(PaidBy(rs, u))
    BY <1>1, FS_Subset DEF Whole
<1>. QED BY <1>2, TotalIsNat DEF Whole

(* A record that joins the book adds its credit and its debit. *)
Joins(rs, r, u) ==
    /\ Whole(rs \cup {r})
    /\ TotalOf(ReceivedBy(rs \cup {r}, u)) = TotalOf(ReceivedBy(rs, u)) + Credit(r.disclosure, u)
    /\ TotalOf(PaidBy(rs \cup {r}, u)) = TotalOf(PaidBy(rs, u)) + Debit(r.disclosure, u)

LEMMA BookGrows ==
    ASSUME NEW rs, Whole(rs), NEW r, r \notin rs, r.disclosure.amounts[1] \in Nat, NEW u
    PROVE  Joins(rs, r, u)
<1>. DEFINE got == ReceivedBy(rs, u)
            paid == PaidBy(rs, u)
<1>1. Whole(rs \cup {r})
    BY FS_AddElement DEF Whole
<1>2. /\ Whole(got) /\ Whole(paid)
      /\ TotalOf(got) \in Nat /\ TotalOf(paid) \in Nat
    BY BookTotals
<1>3. r \notin got /\ r \notin paid
    BY DEF ReceivedBy, PaidBy
<1>4. TotalOf(ReceivedBy(rs \cup {r}, u)) = TotalOf(got) + Credit(r.disclosure, u)
    <2>1. CASE r.disclosure.recipient = u
        <3>1. ReceivedBy(rs \cup {r}, u) = got \cup {r}
            BY <2>1 DEF ReceivedBy
        <3>. HIDE DEF got
        <3>2. TotalOf(got \cup {r}) = TotalOf(got) + r.disclosure.amounts[1]
            BY <1>2, <1>3, TotalGrows DEF Whole
        <3>. QED BY <2>1, <3>1, <3>2 DEF Credit
    <2>2. CASE r.disclosure.recipient # u
        <3>1. ReceivedBy(rs \cup {r}, u) = got
            BY <2>2 DEF ReceivedBy
        <3>. HIDE DEF got
        <3>. QED BY <1>2, <2>2, <3>1 DEF Credit
    <2>. QED BY <2>1, <2>2
<1>5. TotalOf(PaidBy(rs \cup {r}, u)) = TotalOf(paid) + Debit(r.disclosure, u)
    <2>1. CASE r.disclosure.action # "deposit" /\ r.disclosure.sender = u
        <3>1. PaidBy(rs \cup {r}, u) = paid \cup {r}
            BY <2>1 DEF PaidBy
        <3>. HIDE DEF paid
        <3>2. TotalOf(paid \cup {r}) = TotalOf(paid) + r.disclosure.amounts[1]
            BY <1>2, <1>3, TotalGrows DEF Whole
        <3>. QED BY <2>1, <3>1, <3>2 DEF Debit
    <2>2. CASE ~ (r.disclosure.action # "deposit" /\ r.disclosure.sender = u)
        <3>1. PaidBy(rs \cup {r}, u) = paid
            BY <2>2 DEF PaidBy
        <3>. HIDE DEF paid
        <3>. QED BY <1>2, <2>2, <3>1 DEF Debit
    <2>. QED BY <2>1, <2>2
<1>. QED BY <1>1, <1>4, <1>5 DEF Joins

(* A balanced book stays so if the holding changes by the record's credit  *)
(* and debit. *)
LEMMA BookStaysBalanced ==
    ASSUME NEW rs, Whole(rs), NEW r, r \notin rs, r.disclosure.amounts[1] \in Nat, NEW u,
           NEW under \in Nat, NEW after \in Nat, NEW H \in Nat, NEW H2 \in Nat,
           Balanced(rs, under, u), after + H = under + H2,
           H2 + Debit(r.disclosure, u) = H + Credit(r.disclosure, u)
    PROVE  Balanced(rs \cup {r}, after, u)
<1>. DEFINE got == TotalOf(ReceivedBy(rs, u))
            paid == TotalOf(PaidBy(rs, u))
            credit == Credit(r.disclosure, u)
            debit == Debit(r.disclosure, u)
            got2 == TotalOf(ReceivedBy(rs \cup {r}, u))
            paid2 == TotalOf(PaidBy(rs \cup {r}, u))
<1>1. Joins(rs, r, u)
    BY BookGrows
<1>2. got2 = got + credit /\ paid2 = paid + debit
    BY <1>1 DEF Joins
<1>3. got \in Nat /\ paid \in Nat
    BY BookTotals
<1>4. credit \in Nat /\ debit \in Nat
    BY DEF Credit, Debit
<1>5. got = under + paid
    BY DEF Balanced
<1>6. H2 + debit = H + credit
    OBVIOUS
<1>. HIDE DEF got, paid, credit, debit, got2, paid2
<1>7. got2 = after + paid2
    BY <1>2, <1>3, <1>4, <1>5, <1>6
<1>. QED BY <1>7 DEF got2, paid2, Balanced

(* What lands changes each holding by what its disclosure says: a withdraw *)
(* is to an account, which no user's key is.                               *)
LEMMA LandedIsDisclosed ==
    ASSUME Types, NEW t \in Tasks, Land(t), NEW d, d = tasks[t].tx.viewCts[1].payload
    PROVE  /\ d.amounts[1] \in Nat
           /\ \A x \in Users :
                 /\ HoldingOf(leaves, nullifiers, x) \in Nat
                 /\ HoldingOf(leaves', nullifiers', x) \in Nat
                 /\ HoldingOf(leaves', nullifiers', x) + Debit(d, x)
                        = HoldingOf(leaves, nullifiers, x) + Credit(d, x)
<1>. DEFINE tx == tasks[t].tx
            u == tasks[t].user
            H == Holdings(leaves, nullifiers)
            H2 == Holdings(leaves', nullifiers')
<1>1. \/ \E amount \in DepositAmounts :
            Moves(tx, u, "deposit", u, amount) /\ Deposited(u, amount, H, H2)
      \/ \E amount \in Amounts, v \in Users :
            Moves(tx, u, "transfer", v, amount) /\ Paid(u, v, amount, H, H2)
      \/ \E amount \in Amounts :
            Moves(tx, u, "withdraw", "account", amount) /\ Withdrawn(u, amount, H, H2)
    BY LandedMoney
<1>2. \A x \in Users : /\ HoldingOf(leaves, nullifiers, x) = H[x]
                       /\ HoldingOf(leaves', nullifiers', x) = H2[x]
    BY DEF Holdings
<1>3. d = tx.viewCts[1].payload
    OBVIOUS
<1>4. \A action, v, amount :
          Moves(tx, u, action, v, amount)
            => d.action = action /\ d.sender = u /\ d.recipient = v /\ d.amounts[1] = amount
    BY <1>3 DEF Moves, EntryIn, Told
<1>. HIDE DEF tx, u, H, H2
<1>5. CASE \E amount \in DepositAmounts :
               Moves(tx, u, "deposit", u, amount) /\ Deposited(u, amount, H, H2)
    <2>1. PICK amount \in DepositAmounts :
              Moves(tx, u, "deposit", u, amount) /\ Deposited(u, amount, H, H2)
        BY <1>5
    <2>2. amount \in Nat
        BY BoundsAreNat
    <2>3. d.action = "deposit" /\ d.recipient = u /\ d.amounts[1] = amount
        BY <1>4, <2>1
    <2>4. \A x \in Users : Debit(d, x) = 0 /\ Credit(d, x) = IF x = u THEN amount ELSE 0
        BY <2>3 DEF Debit, Credit
    <2>5. \A x \in Users : H[x] \in Nat /\ H2[x] = H[x] + (IF x = u THEN amount ELSE 0)
        BY <2>1 DEF Deposited
    <2>. QED BY <1>2, <2>2, <2>3, <2>4, <2>5
<1>6. CASE \E amount \in Amounts, v \in Users :
               Moves(tx, u, "transfer", v, amount) /\ Paid(u, v, amount, H, H2)
    <2>1. PICK amount \in Amounts, v \in Users :
              Moves(tx, u, "transfer", v, amount) /\ Paid(u, v, amount, H, H2)
        BY <1>6
    <2>2. amount \in Nat
        BY BoundsAreNat
    <2>3. d.action = "transfer" /\ d.sender = u /\ d.recipient = v /\ d.amounts[1] = amount
        BY <1>4, <2>1
    <2>4. \A x \in Users : /\ Debit(d, x) = IF x = u THEN amount ELSE 0
                           /\ Credit(d, x) = IF x = v THEN amount ELSE 0
        BY <2>3 DEF Debit, Credit
    <2>5. /\ amount <= H[u]
          /\ \A x \in Users : /\ H[x] \in Nat
                              /\ H2[x] = (IF x = u THEN H[x] - amount ELSE H[x])
                                         + (IF x = v THEN amount ELSE 0)
        BY <2>1 DEF Paid
    <2>6. \A x \in Users : H2[x] \in Nat /\ H2[x] + Debit(d, x) = H[x] + Credit(d, x)
        BY <2>2, <2>4, <2>5
    <2>. QED BY <1>2, <2>2, <2>3, <2>5, <2>6
<1>7. CASE \E amount \in Amounts :
               Moves(tx, u, "withdraw", "account", amount) /\ Withdrawn(u, amount, H, H2)
    <2>1. PICK amount \in Amounts :
              Moves(tx, u, "withdraw", "account", amount) /\ Withdrawn(u, amount, H, H2)
        BY <1>7
    <2>2. amount \in Nat
        BY BoundsAreNat
    <2>3. d.action = "withdraw" /\ d.sender = u /\ d.recipient = "account" /\ d.amounts[1] = amount
        BY <1>4, <2>1
    <2>4. \A x \in Users : Debit(d, x) = (IF x = u THEN amount ELSE 0) /\ Credit(d, x) = 0
        BY <2>3, UsersAssumption DEF Debit, Credit
    <2>5. /\ amount <= H[u]
          /\ \A x \in Users : H[x] \in Nat /\ H2[x] = IF x = u THEN H[x] - amount ELSE H[x]
        BY <2>1 DEF Withdrawn
    <2>6. \A x \in Users : H2[x] \in Nat /\ H2[x] + Debit(d, x) = H[x] + Credit(d, x)
        BY <2>2, <2>4, <2>5
    <2>. QED BY <1>2, <2>2, <2>3, <2>5, <2>6
<1>. QED BY <1>1, <1>5, <1>6, <1>7

LEMMA LandKeepsBooks ==
    ASSUME Types, BooksFit, NEW t \in Tasks, Land(t)
    PROVE  BooksFit'
<1>1. PICK b, d : LandsUnder(tasks[t].tx, b, d)
    BY LandedUnder
<1>2. d = tasks[t].tx.viewCts[1].payload
    BY <1>1 DEF LandsUnder
<1>3. /\ d.amounts[1] \in Nat
      /\ \A x \in Users :
            /\ HoldingOf(leaves, nullifiers, x) \in Nat
            /\ HoldingOf(leaves', nullifiers', x) \in Nat
            /\ HoldingOf(leaves', nullifiers', x) + Debit(d, x)
                   = HoldingOf(leaves, nullifiers, x) + Credit(d, x)
    BY <1>2, LandedIsDisclosed
<1>4. SUFFICES ASSUME NEW a \in Auditors
               PROVE  /\ Whole(RecordsIn(a, events'))
                      /\ \A u \in Users :
                            Balanced(RecordsIn(a, events'),
                                     HoldingUnderOf(leaves', nullifiers', a, u), u)
    BY DEF BooksFit, RecordsIn, RecordsOf, HoldingUnderOf, UnderIn, OwnedIn, Amount
<1>. DEFINE rs == RecordsIn(a, events)
            r == [tx |-> Len(events'), disclosure |-> d]
            under(u) == HoldingUnderOf(leaves, nullifiers, a, u)
            after(u) == HoldingUnderOf(leaves', nullifiers', a, u)
<1>5. /\ RecordsIn(a, events') = rs \cup (IF a = b THEN {r} ELSE {})
      /\ r \notin rs
    BY <1>1, RecordsGrow
<1>6. Whole(rs) /\ \A u \in Users : Balanced(rs, under(u), u)
    BY DEF BooksFit
<1>7. \A u \in Users :
          /\ under(u) \in Nat /\ after(u) \in Nat
          /\ a # b => after(u) = under(u)
          /\ a = b => after(u) + HoldingOf(leaves, nullifiers, u)
                      = under(u) + HoldingOf(leaves', nullifiers', u)
    <2>1. ASSUME NEW u \in Users PROVE MovesUnder(a, b, u)
        BY <1>1, HoldingUnderMoves
    <2>. QED BY <2>1 DEF MovesUnder
<1>8. r.disclosure = d
    OBVIOUS
<1>. HIDE DEF rs, r, under, after
<1>9. CASE a # b
    <2>1. RecordsIn(a, events') = rs /\ \A u \in Users : after(u) = under(u)
        BY <1>5, <1>7, <1>9
    <2>. QED BY <1>6, <2>1 DEF after
<1>10. CASE a = b
    <2>1. RecordsIn(a, events') = rs \cup {r}
        BY <1>5, <1>10
    <2>2. Whole(rs) /\ r \notin rs /\ r.disclosure.amounts[1] \in Nat
        BY <1>3, <1>5, <1>6, <1>8
    <2>3. \A u : Joins(rs, r, u)
        BY <2>2, BookGrows, Zenon
    <2>4. Whole(rs \cup {r})
        BY <2>3, Zenon DEF Joins
    <2>5. ASSUME NEW u \in Users PROVE Balanced(rs \cup {r}, after(u), u)
        <3>. DEFINE H == HoldingOf(leaves, nullifiers, u)
                    H2 == HoldingOf(leaves', nullifiers', u)
        <3>1. H \in Nat /\ H2 \in Nat /\ H2 + Debit(d, u) = H + Credit(d, u)
            BY <1>3
        <3>2. /\ under(u) \in Nat /\ after(u) \in Nat
              /\ after(u) + H = under(u) + H2
            BY <1>7, <1>10
        <3>3. Balanced(rs, under(u), u)
            BY <1>6
        <3>. HIDE DEF H, H2
        <3>4. H2 + Debit(r.disclosure, u) = H + Credit(r.disclosure, u)
            BY <1>8, <3>1, Zenon
        <3>. QED BY <2>2, <3>1, <3>2, <3>3, <3>4, BookStaysBalanced, Zenon
    <2>. QED BY <2>1, <2>4, <2>5 DEF after
<1>. QED BY <1>9, <1>10

LEMMA BooksFitAlways == Spec => []BooksFit
<1>1. Init => BooksFit
    <2>. SUFFICES ASSUME Init, NEW a \in Auditors
                  PROVE  /\ Whole(RecordsIn(a, events))
                         /\ \A u \in Users :
                               Balanced(RecordsIn(a, events),
                                        HoldingUnderOf(leaves, nullifiers, a, u), u)
        BY DEF BooksFit
    <2>1. DOMAIN events = {} /\ DOMAIN leaves = {}
        BY DEF Init
    <2>2. RecordsIn(a, events) = {}
        BY <2>1 DEF RecordsIn
    <2>3. Whole({})
        BY FS_EmptySet DEF Whole
    <2>4. \A u : HoldingUnderOf(leaves, nullifiers, a, u) = 0
        <3>1. \A u : UnderIn(leaves, nullifiers, a, u) = {}
            BY <2>1 DEF UnderIn, OwnedIn
        <3>. QED BY <3>1, SumEmpty DEF HoldingUnderOf
    <2>5. \A u : TotalOf(ReceivedBy({}, u)) = 0 /\ TotalOf(PaidBy({}, u)) = 0
        <3>1. \A u : ReceivedBy({}, u) = {} /\ PaidBy({}, u) = {}
            BY DEF ReceivedBy, PaidBy
        <3>2. TotalOf({}) = 0
            BY SumEmpty DEF TotalOf
        <3>. QED BY <3>1, <3>2
    <2>. QED BY <2>2, <2>3, <2>4, <2>5 DEF Balanced
<1>2. Inv /\ BooksFit /\ [Next]_vars => BooksFit'
    <2>. SUFFICES ASSUME Inv, BooksFit, [Next]_vars PROVE BooksFit'
        OBVIOUS
    <2>1. UNCHANGED <<leaves, nullifiers, events>> => BooksFit'
        BY DEF BooksFit
    <2>. QED BY <2>1, LedgerOnlyLands, LandKeepsBooks DEF Inv
<1>. QED BY <1>1, <1>2, Invariance, PTL DEF Spec

LEMMA BooksFitBalance ==
    ASSUME Types, BooksFit
    PROVE  AuditorsBooksBalance
<1>1. ASSUME NEW a \in Auditors, NEW u \in Users
      PROVE  LET records == RecordsFor(a, u)
                 Total(rs) == SumFunctionOnSet([r \in rs |-> r.disclosure.amounts[1]], rs)
                 received == {r \in records : r.disclosure.recipient = u}
                 paid == {r \in records : r.disclosure.action # "deposit" /\ r.disclosure.sender = u}
             IN  Total(received) = HoldingUnder(a, u) + Total(paid)
    <2>. DEFINE rs == RecordsIn(a, events)
                received == {r \in RecordsFor(a, u) : r.disclosure.recipient = u}
                paid == {r \in RecordsFor(a, u) : r.disclosure.action # "deposit"
                                                   /\ r.disclosure.sender = u}
    <2>1. Records(a) = rs
        BY RecordsAreExact
    <2>2. received = ReceivedBy(rs, u) /\ paid = PaidBy(rs, u)
        BY <2>1 DEF RecordsFor, ReceivedBy, PaidBy
    <2>3. HoldingUnder(a, u) = HoldingUnderOf(leaves, nullifiers, a, u)
        <3>1. {i \in Owned(u) \cap Unspent : leaves[i].auditor = a}
                  = UnderIn(leaves, nullifiers, a, u)
            BY DEF Owned, Unspent, UnderIn, OwnedIn
        <3>. QED BY <3>1 DEF HoldingUnder, Value, HoldingUnderOf, Amount
    <2>4. TotalOf(ReceivedBy(rs, u)) = HoldingUnder(a, u) + TotalOf(PaidBy(rs, u))
        BY <2>3 DEF BooksFit, Balanced
    <2>. HIDE DEF received, paid, rs
    <2>5. TotalOf(received) = HoldingUnder(a, u) + TotalOf(paid)
        BY <2>2, <2>4
    <2>. QED BY <2>5 DEF TotalOf, received, paid
<1>. QED BY <1>1 DEF AuditorsBooksBalance

(* The auditors' books balance: whichever flows interleave, what the       *)
(* records an auditor can open say a user received, less what they say the *)
(* user paid, is what the user holds under that auditor (wallet.ts         *)
(* disclosures, transfer.circom's change and outputs under one auditor,    *)
(* getForUser of indexer.ts).                                              *)
THEOREM BooksBalance == Spec => []AuditorsBooksBalance
<1>1. Inv /\ BooksFit => AuditorsBooksBalance
    BY BooksFitBalance DEF Inv
<1>. QED BY <1>1, Invariance, BooksFitAlways, PTL
==============================================================================

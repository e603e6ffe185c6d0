-------------------------------- MODULE Wallet --------------------------------
(***************************************************************************)
(* The SDK's wallet (sdk/packages/sdk/src/wallet.ts): its notes and spent  *)
(* leaves, the choice of inputs, and the transactions it builds.  A note's *)
(* blinding is left out: a commitment is the note itself and a nullifier   *)
(* the leaf index it is made from.  A ciphertext is the holder of the key  *)
(* it is sealed to, and its payload.                                       *)
(***************************************************************************)
EXTENDS Naturals, Sequences, Functions

Note(amount, owner, auditor) ==
    [amount |-> amount, owner |-> owner, auditor |-> auditor]

Sealed(holder, payload) == [holder |-> holder, payload |-> payload]

(* What an auditor reads of an action. *)
Disclosure(action, sender, recipient, amounts) ==
    [action |-> action, sender |-> sender, recipient |-> recipient, amounts |-> amounts]

------------------------------------------------------------------------------
(* The wallet's record: notes in the order of their discovery, each with   *)
(* its leaf index, and the leaves marked spent.                            *)
NewWallet == [notes |-> <<>>, spent |-> {}]

\* Fault: the k-th note that opens gets the k-th leaf of the log.
ScanNotesByPosition(user, noteCts) ==
    LET out[k \in 0 .. Len(noteCts)] ==
            IF k = 0 THEN <<>>
            ELSE IF noteCts[k].sealed.holder # user THEN out[k - 1]
            ELSE Append(out[k - 1], [leafIndex |-> noteCts[Len(out[k - 1]) + 1].leafIndex,
                                     note |-> noteCts[k].sealed.payload])
    IN  out[Len(noteCts)]

(* The ciphertexts that open, as discovered notes, in input order. *)
ScanNotes(user, noteCts) ==
    LET out[k \in 0 .. Len(noteCts)] ==
            IF k = 0 THEN <<>>
            ELSE IF noteCts[k].sealed.holder # user THEN out[k - 1]
            ELSE Append(out[k - 1], [leafIndex |-> noteCts[k].leafIndex,
                                     note |-> noteCts[k].sealed.payload])
    IN  out[Len(noteCts)]

Scan(w, user, noteCts) == [w EXCEPT !.notes = @ \o ScanNotes(user, noteCts)]

\* Fault: only the first of several leaves is marked.
MarkFirstSpent(w, leafIndices) == [w EXCEPT !.spent = @ \cup {leafIndices[k] : k \in DOMAIN leafIndices \ {2}}]

(* markSpent, of every leaf a confirmed transaction has spent. *)
MarkSpent(w, leafIndices) == [w EXCEPT !.spent = @ \cup Range(leafIndices)]

\* Fault: the spent set is not looked at.
IsKnown(w, k) == TRUE

IsUnspent(w, k) == w.notes[k].leafIndex \notin w.spent

Balance(w) ==
    SumFunctionOnSet([k \in DOMAIN w.notes |-> w.notes[k].note.amount],
                     {k \in DOMAIN w.notes : IsUnspent(w, k)})

(* Pairs of unspent notes under one auditor that cover an amount.  *)
TransferPairs(w, amount) ==
    {p \in (DOMAIN w.notes) \X (DOMAIN w.notes) :
        /\ p[1] < p[2] /\ IsUnspent(w, p[1]) /\ IsUnspent(w, p[2])
        /\ w.notes[p[1]].note.auditor = w.notes[p[2]].note.auditor
        /\ w.notes[p[1]].note.amount + w.notes[p[2]].note.amount >= amount}

(* findTransferInputs takes the first, in the order of its two loops. *)
FindTransferInputs(w, amount) ==
    LET p == CHOOSE p \in TransferPairs(w, amount) :
                \A q \in TransferPairs(w, amount) :
                    p[1] < q[1] \/ (p[1] = q[1] /\ p[2] <= q[2])
    IN  <<w.notes[p[1]], w.notes[p[2]]>>

(* The note a withdraw spends whole: the first unspent one of the amount. *)
WithdrawNotes(w, amount) ==
    {k \in DOMAIN w.notes : IsUnspent(w, k) /\ w.notes[k].note.amount = amount}

FindWithdrawNote(w, amount) ==
    LET k == CHOOSE k \in WithdrawNotes(w, amount) : \A j \in WithdrawNotes(w, amount) : k <= j
    IN  w.notes[k]

------------------------------------------------------------------------------
(* BuiltTx: the leaves whose nullifiers are spent, the committed notes, the *)
(* public auditor keys, and what is sealed to whom.                        *)
BuildDeposit(user, amount, auditor) ==
    LET note == Note(amount, user, auditor) IN
    [ method |-> "deposit", root |-> 0, spends |-> <<>>, creates |-> <<note>>,
      amount |-> amount, fee |-> 0, auditors |-> <<auditor>>,
      viewCts |-> <<Sealed(auditor, Disclosure("deposit", user, user, <<amount>>))>>,
      noteCts |-> <<Sealed(user, note)>> ]

\* Fault: the change goes to the recipient.
BuildTransferNoChange(user, inputs, root, amount, recipient, recipientAuditor) ==
    LET auditor == inputs[1].note.auditor
        total == inputs[1].note.amount + inputs[2].note.amount
        outs == <<Note(amount, recipient, recipientAuditor),
                  Note(total - amount, recipient, auditor)>>
        disclosure == Disclosure("transfer", user, recipient, <<amount, total - amount>>)
    IN
    [ method |-> "transfer", root |-> root,
      spends |-> <<inputs[1].leafIndex, inputs[2].leafIndex>>,
      creates |-> outs, amount |-> 0, fee |-> 0,
      auditors |-> <<auditor, recipientAuditor>>,
      viewCts |-> <<Sealed(auditor, disclosure), Sealed(recipientAuditor, disclosure)>>,
      noteCts |-> <<Sealed(recipient, outs[1]), Sealed(recipient, outs[2])>> ]

(* Two notes in; the recipient's and the change out.  The change keeps the *)
(* sender's auditor. *)
BuildTransfer(user, inputs, root, amount, recipient, recipientAuditor) ==
    LET auditor == inputs[1].note.auditor
        total == inputs[1].note.amount + inputs[2].note.amount
        recipientOut == Note(amount, recipient, recipientAuditor)
        changeOut == Note(total - amount, user, auditor)
        disclosure == Disclosure("transfer", user, recipient, <<amount, total - amount>>)
    IN
    [ method |-> "transfer", root |-> root,
      spends |-> <<inputs[1].leafIndex, inputs[2].leafIndex>>,
      creates |-> <<recipientOut, changeOut>>, amount |-> 0, fee |-> 0,
      auditors |-> <<auditor, recipientAuditor>>,
      viewCts |-> <<Sealed(auditor, disclosure), Sealed(recipientAuditor, disclosure)>>,
      noteCts |-> <<Sealed(recipient, recipientOut), Sealed(user, changeOut)>> ]

\* Fault: sealed to the user's own key.
BuildWithdrawToSelf(user, input, root, amount, recipient, fee) ==
    LET disclosure == Disclosure("withdraw", user, recipient, <<amount, fee>>) IN
    [ method |-> "withdraw", root |-> root, spends |-> <<input.leafIndex>>,
      creates |-> <<>>, amount |-> amount, fee |-> fee,
      auditors |-> <<input.note.auditor>>,
      viewCts |-> <<Sealed(user, disclosure)>>, noteCts |-> <<>> ]

(* A whole note out, to an account of the token. *)
BuildWithdraw(user, input, root, amount, recipient, fee) ==
    LET disclosure == Disclosure("withdraw", user, recipient, <<amount, fee>>) IN
    [ method |-> "withdraw", root |-> root, spends |-> <<input.leafIndex>>,
      creates |-> <<>>, amount |-> amount, fee |-> fee,
      auditors |-> <<input.note.auditor>>,
      viewCts |-> <<Sealed(input.note.auditor, disclosure)>>, noteCts |-> <<>> ]
==============================================================================

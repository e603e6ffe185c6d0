# Shielded pool: TLA+ models and proofs

This directory specifies the shielded USDC pool of this repository: a NEAR
contract that holds fungible tokens, represents them as notes in a Merkle tree,
and pays them out again against zero-knowledge proofs. The modules are
translated from the source under `src/`; `PROJECT.json` names, for every
definition, the lines it stands for.

## 1. The system and its parts

| Part | State | Operations | Interacts with |
|---|---|---|---|
| Pool contract (`contract/src`) | tree, recent roots, nullifiers, recovery book `unclaimed_payouts`, `paused` | `ft_on_transfer` (deposit), `transfer`, `withdraw`, `pay_ft_with_recovery`, `on_ft_transfer_complete`, `claim`, `set_paused` | the token by promises, relayers and wallets by calls, clients by logs |
| Roots window (`roots.rs`) | `capacity`, `head`, `len`, `roots` | `new`, `push`, `contains` | part of the contract's state |
| Incremental tree (`merkle.rs`) | `next_index`, `filled_subtrees`, `current_root` | `new`, `insert` | must agree with the client's tree and the circuits |
| Token (`contracts/mock-ft`, NEP-141) | balances, registrations | `ft_transfer`, `ft_transfer_call`, `ft_resolve_transfer`, `storage_deposit`, `storage_unregister` | calls the pool back on a deposit |
| Circuits (`circom/circuits`) | none | deposit, transfer and withdraw statements | the contract checks their proofs |
| Prover and adapters (`snarkjs-prover.ts`, `groth16-adapter.ts`, `envelopes.ts`) | none | a request becomes an assignment of signals, a proof becomes bytes, a transaction a call | between wallet, snarkjs and the contract's JSON interface |
| Verifier (`groth16.rs`, `verifier.rs`) | the three keys | parsing, linear combination, pairing check | NEAR's host functions |
| Pool client (`sdk/packages/client`) | local tree, seen leaves | `deposit`, `transfer`, `ingest`, `pathFor`, `assertRootMatchesChain` | reads the contract's logs, calls it |
| Wallet (`sdk/packages/sdk`) | notes, spent set | `scan`, `markSpent`, `balance`, `build*`, `build*Proved` | await the prover; paths and roots from the client |
| Relayer (`sdk/packages/relayer`) | fee | `quote`, `submit` | calls `withdraw` for a user |
| Auditor (`sdk/packages/auditor`) | opened records | `ingest`, queries | reads the contract's logs |
| End-to-end fixtures (`gen-e2e-fixtures.ts`, `e2e_real_proofs.rs`) | a local tree, files | four calls generated off-chain, replayed on a pool | circuits, adapters and the contract |
| Ceremony (`ceremony/scripts`) | proving and verifying keys, `manifest.json` | set-up, contributions, beacon, finalisation, verification | produces the contract's verifying keys |
| Deployment tool (`deploy`, `scripts/check-production-readiness.sh`) | the arguments, the command and the receipt it writes | readiness check, gates on keys and flags, emission | reads the build and the ceremony's keys; an operator broadcasts its command |

What is hard in it:

* **Asynchrony.** A NEAR call runs alone, but every promise is a later receipt;
  between a withdrawal and the answer of its payout, or between a deposit's
  token movement and the pool's decision, anything else may run: other spends,
  a pause, a claim, an account closing at the token.
* **Partial failure.** `withdraw` spends the nullifier and returns before the
  token has paid. A refused payout is recorded by a callback in a recovery book
  and reclaimed by `claim`, which itself can fail and be recorded again. The
  payouts of the recipient and of the relayer fail independently.
* **Bounds.** A ring of 30 roots, a tree of 2^20 leaves, static gas for the
  payout chain.
* **Agreement.** Three implementations of one Merkle tree; and one vector of
  public inputs that is put together twice, by the wallet in TypeScript and by
  the contract in Rust from the JSON of the call, while circuit and prover have
  two more lists of the same names. Any difference, in an order, in what exactly
  is hashed or in an offset, shows only as "invalid proof".
* **Field arithmetic.** Sums of amounts are compared in a field, where they wrap.
* **Files as state.** Ceremony and deployment work on files with no lock and no
  transaction: a script may be killed between two of them, two scripts may
  overlap, and a file may be replaced after it was checked.

What makes the parts correct: the window is the queue of the last roots; the
three trees agree; the pool's token balance always equals what it owes; the
pool implements a plain public ledger; a note is never out of reach; a pause
freezes the notes and not the money owed; everything owed is eventually paid.
A proof is taken if and only if it was made, for the one call it was made for, and
what it proves conserves value as integers.
On the users' side: a wallet is what the chain holds for its user, but for the
answers that are outstanding or lost; a payment moves what was disclosed, to
whom it was disclosed; each auditor reads of exactly the actions that touch notes
under its key and its books balance; a local tree that passed the check stays the beginning of the chain's.
Before all that: a finished ceremony's transcript tells how its keys came about, and
what is deployed is what passed the gates.

## 2. Modules

| Module | What it models |
|---|---|
| `RootsWindow` | The ring buffer's record and operations, shared by the next one and the pool |
| `RecentRoots` | The ring over its life, with roots that may repeat; refines `RootQueue` |
| `RootQueue` | Abstract: the queue of the last `Capacity` roots |
| `MerkleTree` | Contract tree, client tree and circuit inclusion check, against the padded binary tree |
| `Circuits` | Signals and constraints of the three circuits, over a field that wraps; extends `MerkleTree` |
| `Calls` | From a built transaction to the contract's verifier: request, assignment, bytes, JSON, public inputs |
| `ProofPath` | The whole way of one transaction at a time, among other people's; composes `Calls`, `Wallet`, `RootsWindow` and the trees |
| `E2EFixtures` | The end-to-end test's four calls, generated and replayed, then `ProofPath` |
| `ShieldedPool` | Contract, token and receipts between them; refines `PoolLedger` |
| `PoolLedger` | Abstract: wallets, a vault, debts to named accounts |
| `MCShieldedPool` | Instances of `ShieldedPool` for TLC |
| `Wallet` | The wallet's record and operations, and the transactions it builds |
| `PoolWallet` | Wallets, pool clients, relayer and auditors against the contract; refines `PrivateLedger` |
| `PrivateLedger` | Abstract: everybody's holding and a book of the movements |
| `MCPoolWallet` | Instances of `PoolWallet` for TLC |
| `Ceremony` | The ceremony's scripts as processes over its files |
| `MCCeremony` | Instances of `Ceremony` for TLC |
| `Deployment` | The deployment tool step by step, over files that change |
| `MCDeployment` | Instances of `Deployment` for TLC |
| `OperatorProofs` | Lemmas on operators that several modules use: sums, scans, the ring buffer; induction |
| `RecentRootsProofs`, `ShieldedPoolProofs`, `MerkleTreeProofs`, `PoolWalletProofs`, `CeremonyProofs`, `DeploymentProofs` | Theorems about those modules |
| `ProofPathProofs` | Theorems about `ProofPath` with `Calls` and `Circuits`, under `E2EFixtures`' specification |

### RootsWindow and RecentRoots

`NewWindow`, `Push` and `Contains` are `new`, `push` and `contains`, on a record
with the struct's fields. `Contents` reads the buffer as a queue, oldest first,
and is the refinement mapping into `RootQueue`.

### MerkleTree

`tree` is the contract's struct without its constant fields, `leaves` the
client's array. `Insert` is a call's commitments taken by the contract, all or
none (`InsertLeaf`, the loop of `insert` split into the nodes it computes,
`PathUp`, and the left siblings it keeps, `Remember`), and appended by the client.
The module has no next-state relation of its own: `ProofPath` inserts. `ClientRoot` and
`PathFor` are `root` and `pathFor`; `MerkleInclusion` is the circuit template.
Poseidon is a free constructor: it is taken not to collide. `Node` is not in
the code: it is the definition the three are measured against.

### Circuits and Calls

`Circuits` has one operator per template. A field element that is a number is
`Field(n)`, reduced modulo `FieldOrder`; `Plus` and `Minus` wrap. Poseidon and
commitments are constructors over them. `Deposit`, `Transfer` and `Withdraw` are
the constraints on an assignment `s` of the circuit's signals, and `PublicSignals`
the order of `component main`.

`Calls` follows a transaction through the code:

| Operators | Code |
|---|---|
| `DepositRequest`, `TransferRequest`, `WithdrawRequest` | the vector and the witness the Proved builders give the prover (`wallet.ts`) |
| `BuiltTx`, `PublicInputs` | what the builders return |
| `CircomInput`, `PUBLIC_NAMES`, `RENAME` | `proveRequestToCircomInput`: by position, by renamed key |
| `Provable`, `Prove`, `Placeholder` | `SnarkjsProver.prove`, which throws if there is no witness; `StubProver` |
| `SnarkjsProofToBytes`, `VkJsonToContractBytes` | `groth16-adapter.ts` |
| `DepositArgs` ... `WithdrawCall`, `SubmitRequest`, `SubmitWithdraw` | `envelopes.ts`, the demo's request to the relayer, `near-submitter.ts` |
| `DepositInputs`, `TransferInputs`, `WithdrawInputs` | the arrays `pi` of `deposit.rs`, `transfer.rs`, `withdraw.rs` |
| `ProofFromBytes`, `VkFromBytes`, `NegateG1`, `VerifyGroth16`, `Verify` | `groth16.rs` |

Abstractions. A coordinate of a point is one value, and 32 bytes are one place of a
sequence: offsets are kept, endianness is not. An array of field elements is one
value with its strings. A string is a pair of its kind and what it stands for,
`<<"0x", f>>` or `<<"dec", n>>`. A proof is the circuit and the public signals
it was made for, and `PairingCheck` accepts exactly the four pairs that such a
proof and a key make: Groth16 is taken to be sound and complete, and everything
about which point goes where is not. Blindings are one per note content: two notes
that differ in nothing else share a commitment, as they may not in the code
(`ProofPath` names notes by their leaf).

### ProofPath and E2EFixtures

| Action | Code |
|---|---|
| `RequestDeposit`, `RequestTransfer`, `RequestWithdraw` | a builder up to the proof: inputs from the wallet, root and paths of the moment |
| `ReturnProved`, `NotProvable` | a Proved builder with the real prover, which may throw |
| `ReturnPlaceholder` | a Proved builder with the stub, or a synchronous builder, whose root is empty |
| `Land` | the call in any of its envelopes passes the relayer and every check of the contract; the leaves, the root, the nullifiers; scans and `markSpent` |
| `Refuse` | the relayer or the contract throws |
| `StrangerDeposits` | somebody else's leaf, at any time |
| `Replay` | the next fixture is sent and accepted |

`AcceptsDeposit`, `AcceptsTransfer` and `AcceptsWithdraw` are the contract's checks in
their order, with storage and the root's format; pauses are `ShieldedPool`'s.
The run begins with any number of strangers' leaves in the tree, or, in
`E2EFixtures`, with an empty pool and the fixtures to replay: `DepositFixture`,
`TransferFixture` and `WithdrawFixture` compute each file's proof, parameters and
`root_after` from a tree that exists at the generator only (`Appended`). The
generator's amounts are scaled from 60, 40, 70, 30 and 2 to the width of the run.

### ShieldedPool

One action is one receipt.

| Action | Code |
|---|---|
| `FtTransferCall` | token `ft_transfer_call`: moves the tokens and calls the pool |
| `FtOnTransfer` | `ft_on_transfer` with `do_deposit`; a panic is a refusal |
| `FtResolveTransfer` | token `ft_resolve_transfer`: refund, or burn if the sender closed its account |
| `Transfer` | `transfer`: two notes in, two notes out, one root |
| `Withdraw` | `withdraw`: the nullifier, then one `Payout` receipt, or two when there is a fee |
| `PayFtWithRecovery` | `pay_ft_with_recovery`: fails as a whole without the gas for its two promises |
| `FtTransfer` | token `ft_transfer` as `pay_ft` calls it |
| `OnFtTransferComplete` | `on_ft_transfer_complete`: credits the book on failure |
| `Claim` | `claim`: the entry goes, then the money; never paused |
| `SetPaused` | `set_paused` |
| `Register`, `Unregister` | token `storage_deposit`, `storage_unregister` of an empty account |

Abstractions. A note is its amount and is named by its leaf index, and its
nullifier is that index: the circuits derive the nullifier from the spending
key, the commitment and the index, so one leaf has one nullifier and two leaves
have different ones. A root is the number of leaves under it, since the tree
only grows. An accepted proof means that its circuit's statement holds. A call
that panics leaves no trace, so it is an action only where a receipt waits for
its outcome. The ciphertexts, the auditor keys, the logs and the NEAR attached
for storage are left out. `pay_ft` attaches one yoctoNEAR from the pool's own
balance, taken to be there. A withdrawal whose payee is the pool itself, a
plain token transfer to the pool and a forced closing of a token account are
not in the model. The owner may pause and unpause at any time.

Gas is modelled where the code's outcome hangs on it: a payout receipt has 10
Tgas of its own and an equal share of what `withdraw` leaves (`LeftoverGas`),
and must reserve 5 + 10 Tgas inside (`PayoutGasSuffices`); the cost of running
the calls themselves is left out.

### PoolLedger

The promise in public money. `Deposit` takes an account's tokens into the
vault, `Withdraw` turns vault money into debts to a payee and a relayer, `Pay`
settles a debt into its creditor's wallet and nowhere else, `Forfeit` is the
burn of a refund to a closed account. In the mapping a deposit in flight is
still the depositor's (`wallet` = balance + pending deposits), the vault is the
value of the unspent notes, and a debt is the recovery book plus the payouts in
flight. Refusals, failed payouts, recovery credits and claims are stutters.

### Wallet and PoolWallet

`Wallet` holds pure operators named after the SDK's methods. A discovered note
is a record with its leaf index; `FindTransferInputs` is the first pair in the
order of the code's two loops and `FindWithdrawNote` the first note of the exact
amount. A built transaction names the leaves it spends, the notes it commits,
the public auditor keys and who each ciphertext is sealed to.

`PoolWallet` runs them. A task is one flow of a caller, in the order in which
`demo/src/run-demo.ts` makes the SDK's calls, and is split at every `await`,
since anything may run there.

| Action | Code |
|---|---|
| `StartDeposit` | `buildDepositProved`, up to `await prover.prove` |
| `ReadRoot` | `await pool.merkleRoot()` |
| `StartTransfer`, `StartWithdraw` | `buildTransferProved`, `buildWithdrawProved` up to the prover: inputs from the wallet, paths from the client's tree, the root read before |
| `Land` | the proof exists, the relayer forwards a withdrawal, and the contract takes the call |
| `Throw` | any error before something landed |
| `RefundDeposit` | the contract refuses a deposit; the token call still succeeds, without logs |
| `LoseAnswer` | the call throws although it landed |
| `Ingest` | `PoolClient.ingest`; the relayer's submitter drops a withdrawal's logs |
| `Resume` | the caller's `scan` by both parties, `markSpent` of the sender's inputs, and the local half of `assertRootMatchesChain` |
| `CheckRoot` | its other half, when the chain's root arrives |

Abstractions. A note's blinding is left out: no property tells apart two notes
that differ in it alone, since a leaf is named by its index. A commitment opens only as the note
it was made from, and a ciphertext only for the holder of its key. A local tree
is the sequence of the chain's leaf indices it has taken: two trees have equal
roots when these agree (`SameRoot`), and a path folds to the chain's root when
all positions it hashes agree (`PathFits`). The contract is what callers see of it;
payouts, pauses and gas are `ShieldedPool`'s, and a refusal for any of these
reasons is `Throw` or `RefundDeposit`. A wallet scans every log its parties hand it once, as in
the demo, except under `RescanSpec`, where a caller may scan an event again (`Rescan`). Restarts are not modelled: neither wallet nor client persists anything,
and the client has no way to load a tree. The relayer's quote, which `submit`
does not check for age, is only its fee.

`Owned`, `Holding` and `HoldingUnder` are what the chain says. `Records` is an
auditor's index after it polled the whole log twice (`IngestBatch` twice), read
as the set its caller dedupes it to. `Undelivered` names the
events whose answer is on its way or lost; `WalletMatchesChain` is exact up to
those.

### PrivateLedger

The promise in private money: `Deposit`, `Pay` of exactly the named amount from
payer to payee, `Withdraw`, each with its entry in a book. The holding is the value of a
user's unspent notes on the chain; the book is read off the first disclosure of
each event. Everything but `Land` is a stutter.

### Ceremony

A script writes a file with snarkjs and then runs `manifest.mjs`, which reads the
manifest, edits it and writes it back; then it exits.

| Action | Code |
|---|---|
| `InitManifest` | `manifest.mjs init` |
| `InitPhase2`, `DeleteFirst` | `init-phase2.sh`, and the deletion its error message asks for |
| `Contribute`, `Beacon` | `contribute.sh`, `beacon.sh` up to snarkjs' output |
| `RejectedBeacon` | `beacon.sh` with a value that snarkjs rejects, exiting 0: `-f "$OUT"` passes if a file of an attempt before is there |
| `ExportJson`, `ExportBin` | the two exports of `finalize.sh` |
| `ReadManifest`, `WriteManifest`, `Refuse` | the `manifest.mjs` command at the end of each script: read and edit, write, or throw |
| `Succeed` | the script exits, and the coordinator sees that it succeeded |
| `Crash`, `Break` | a script killed between two steps, also between the written manifest and its exit, or while it writes a file; a manifest is then `Torn` |

`Verifies` is `verify-ceremony.sh` of one circuit. The coordinator takes the
steps of a circuit in the order of `run-dev-ceremony.sh` and of the runbook,
goes on only after a success, and repeats what failed.

Abstractions. A key is the sequence of the contributions and the beacon in it;
a contribution has the number of its attempt, since snarkjs mixes fresh
randomness into it and a second attempt makes another key. A hash is the content of
the file. `zkey verify` accepts every key made in order in the same directory
and rejects a broken file. A manifest that was truncated when its writer was killed
cannot be parsed, and every later command throws. `cut` and `repeated` keep, for the
properties, which circuits had a script killed after its record or run again after it
succeeded. Phase 1, timestamps and the beacon's description are left out.

### Deployment

One run of the tool is `Start` (`ParseArgs`), `RunReadinessCheck`, `CheckConfig`
(the canonical path, then the configuration), `ReadKey` once per circuit,
`HashWasm`, and then `DeployToSandbox` and `WriteReceipt`, or `EmitDeployCommand`, which
writes the file of arguments, and `PrintCommand`, which shows the operator the summary
and the command. `Throw` is a gate's refusal, and `Kill` may end a run between any two
steps. One run goes on at a time. `Broadcast` is the operator, with the arguments and
the artifact as they are on disk at that time, in an account where `new()` has not run.
`Build`, `Optimise` and `PutKey` replace files between any two of these steps. `unshown`
keeps, for the properties, the networks whose file of arguments is of a run that has not
printed its summary.

Abstractions. A key is the circuit it is for, which stands for its length (768,
1088, 1024 bytes), and its origin, which stands for its fingerprint; an
artifact is the verifier feature it was built with, whether NEAR can deploy it
(size and instruction set) and whether the compiled file is newer. `ReadKey`
prefers `<c>/vk.json` to `<c>_vk.json`, as the code does. That the source tree
has the right depths and that its features compile as they should is taken to
hold. The operator's review of the hashes is left out. So are `--vk-dir` and `--out-dir`,
which name directories: the keys that are read are those of the directory named, whose
content is arbitrary here, and every command names the file its own run wrote; with two
output directories fewer commands share a file.

## 3. Runs

| Run | Question | Bounds |
|---|---|---|
| `recent_roots` | Is the ring the queue of the last roots? | capacity 4, three roots that may repeat; all fill levels and head positions |
| `proof_path` | Is what was proved what is verified, and only that? Do the trees agree? Do the fixtures replay? | below |
| `pool_safety` | Money, debts, provability, pause | below |
| `pool_liveness` | Does everything settle? | below, depth 1 |
| `pool_low_gas` | What if `withdraw` leaves no gas? | below, `LeftoverGas = {0}`; violated, see section 6 |
| `wallet_demo` | Does the demo's discipline keep tree, proofs and disclosures in step? | one task, one client, two auditors, a fee, four leaves, amounts 1 and 2 |
| `wallet_races` | What survives races, late and lost answers? May a note count twice when builds overlap? | two tasks, a client for each user, two deposits or three, six leaves, amounts 1 and 2 |
| `wallet_rescan` | Is a rescan idempotent? | one task; violated, see section 6 |
| `wallet_ingest` | Does `ingest` assert what its comment says? | two tasks, one client; violated, see section 6 |
| `wallet_auditors` | Can every transfer be proved? | one task, two auditors; violated, see section 6 |
| `ceremony` | Does a ceremony with crashes end, and end well? Do repetitions lose anything? | two circuits, two contributors, two beacons and one that is rejected, one script at a time, two kills, one script repeated after it succeeded |
| `deployment` | Is what is deployed what passed the gates? Do flags get round them? | two circuits, all sequences of up to three of seven flags, four artifacts, two runs, two files replaced |

`proof_path`: a tree of eight leaves, so that paths have empty, partly filled and
full siblings at every level, indices of both kinds occur at every level and the tree
fills up; a field of order 17 with note amounts of 3 bits and withdrawn
amounts of 2, the proportions the assumptions ask for and no more room, so that sums of
two unchecked elements do wrap; amounts 1 and 4, where 4 is a note that can be
transferred and not withdrawn; two auditors, a window of two roots, two deposits by
alice. 187,000 states.

`pool_safety`: two accounts, one with the whole supply of 2 tokens and one not
yet registered with the token; two receipts in flight, so that a payout and its
fee, two failing payouts, a claim with a failing payout or two deposits race;
a tree of four leaves, so that it fills, also with room for one leaf where a
transfer needs two; a window of two roots, so that roots are evicted while
notes under them are unspent; `alice` may close her token account whenever it is empty, so that
refunds burn and payouts fail. Receipt ids are symmetric; every property of that run is
symmetric in them. `pool_liveness` has a tree of two leaves and no closing of
accounts, without symmetry.

The wallet runs have alice and bob, who are interchangeable together with their
clients, as are tasks. Four leaves are two deposits and a
transfer: with one task that leaves bob a note that he withdraws through the
relayer, and the tree is full, so that calls are refused. A window of two roots
makes roots go stale while a proof is made. In `wallet_races` no deposit begins once two
leaves are there (`DepositBound`), so that six leaves have room for two
transfers: two that are built over the same inputs, of which one lands, or one that
spends the other's outputs. Two deposits that race leave three leaves, and a
third note to pair the change with.

Two circuits are enough for the ceremony, since scripts of different circuits
share the manifest only, and two contributors give a chain with a middle; two
crashes let one step fail twice or two steps once each. For the deployment two
circuits let a key change between the two reads; two runs let one network's
command be printed between another's and its broadcast, or write its arguments and be
killed. `--usdc-token` is not among the flags of the run: it takes the branch of
`--owner` and `--account`, and the proofs have it. 2.8 million states.

Deadlock is checked in every run except `proof_path`, which may end with a full
tree and nothing to spend, and those of the ceremony and the deployment, which end
when the work is done.

Properties: 

* `TypeOK` - types, and the ring's shape.
* `AcceptsTheQueue`, `ImplementsQueue` - `contains` answers for exactly the
  last roots; every push evicts the oldest and only it.
* `CountedWithinCapacity`, `FilledSubtreesAreLeftSiblings`, `RootsAgree`,
  `EveryPathVerifies` - the trees.
* `AcceptedIffProved` - the verifier accepts a built transaction, in every envelope it
  may travel in, exactly when its proof is a real one.
* `ProvableExactly` - the prover has a witness for everything the wallet builds, but for
  transfers between auditors (section 6) and withdrawals above 64 bits.
* `ProofFixesTheCall` - no argument of a proved call can be replaced or swapped;
  the note ciphertexts, which are not bound, are the exception.
* `AnyWitnessConserves` - whatever outputs somebody puts into a transfer's witness, if
  the circuit is satisfied the amounts add up as integers.
* `NotesAreCommitted` - a note in a wallet is the one committed at its leaf.
* `FixturesReplay` - each fixture can be proved before there is a pool, is accepted at its
  turn, and leaves the root it foretold.
* `Solvency` - between any two receipts the pool's balance is its notes, its
  undecided deposits, its payouts in flight and its recovery book, to the token.
* `EveryNoteProvable` - the newest root is in the window; no accepted root
  covers leaves that are not there.
* `ImplementsLedger` - refinement of `PoolLedger`.
* `PauseFreezesNotes` - no leaf, root or nullifier appears under a pause, not
  even by a deposit whose tokens arrived before it.
* `DepositsSettle`, `PayoutsSettle` - liveness.
* `WalletMatchesChain`, `BalanceWhenSettled` - a wallet is the chain but for
  outstanding or lost answers, and `balance()` is right when there are none.
* `CheckedTreeIsTheChains` - a root check that passed is never undone by what
  is ingested later.
* `ProvedIsAccepted`, `ClientFollowsChain` - with one flow at a time, a proof
  made is a proof taken, and the local tree is the chain's between flows.
* `DisclosureIsExact` - an auditor reads of an action exactly when a note it
  spends or creates is under that auditor.
* `AuditorsBooksBalance` - for each user, what an auditor's records say was received is
  what they say was paid plus what the user holds under that auditor. Change is in
  neither sum: it must stay with its owner and under its auditor, and every
  movement be disclosed to that auditor, once.
* `ImplementsPrivateLedger` - refinement of `PrivateLedger`.
* `FinishedIsTold` - when a circuit's last script has succeeded, its transcript
  names each contribution of its key in order, its beacon and its files, and
  `verify-ceremony.sh` passes, wherever scripts were killed before.
  A script repeated after it succeeded is outside of this: it may replace a key
  the transcript already describes (section 6). So is a lost manifest; and with a rejected
  beacon the transcript passes `verify-ceremony.sh` and tells of no key.
* `CeremonyCompletes` - liveness: repeating killed scripts finishes each circuit, and
  nobody has to edit the manifest. The exceptions are what the code cannot repair: a
  script killed between its record and its exit, whose repetition is refused ("remove it
  from the manifest to re-record"), one run again after it succeeded, a truncated
  manifest, and a rejected beacon recorded over half a key.
* `NothingForgotten` - contributions are only added, and beacons stay; a manifest that
  breaks off is not taken for a new one.
* `KeysPassedGates` - arguments written and deployed hold keys that passed the gates.
* `DeployedAsSummarised` - what is deployed has the arguments of the summary printed last
  for its network, whatever other runs did; but for the time in which a run has written
  arguments and has not printed (or was killed before it could), when the command printed
  before takes the new ones (section 6).
* `NoCommandUnready` - no order of flags gets round the readiness check.
* `IngestedTreeMatchesChain`, `EveryTransferCanBeProved`, `RescanIsIdempotent` - violated.
* `PayoutNeverLost` - what the pool owes an account shrinks only by paying it: holds in
  `pool_safety`, where payouts have their gas, violated in `pool_low_gas`.

## 4. Fairness

`FairSpec` asks for weak fairness of every receipt's execution: NEAR executes
every receipt that was made. Liveness of payouts also needs the creditor: an
account that is owed money registers with the token (`WF` of `Register`) and
keeps claiming (`SF` of `Claim`: the bound on receipts in flight, which is the
model's and not NEAR's, may disable it again and again). Nothing else is fair:
the owner may pause for good, users need not spend.

In `Ceremony` the coordinator goes on with each circuit until it is done, as the runbook
has it: weak fairness of `InitManifest`, and for each circuit strong fairness of the work
on it (`WorkOn`), because scripts of other circuits take the one process again and
again. A circuit that cannot be finished does not excuse the others. Kills, rejected
beacons and repetitions after a success are not asked for, and kills and repetitions are bounded.

## 5. Proofs

Everything here is proved for every value of the constants under the named
assumptions of the modules (`CapacityAssumption`, `DepthAssumption`,
`FieldAssumption`, `LeafIndexAssumption`, `PathAssumption`, `ScenarioAssumption`, `AccountsAssumption`,
`ContractAssumption`, `UsersAssumption`, `BoundsAssumption`, `CeremonyAssumption`,
`DeploymentAssumption`) and, where it is said, one more that the theorem states.
The table has the results; "run" is the run that checks the same property on a
small instance.

| Module | Theorems | Run |
|---|---|---|
| `RecentRootsProofs` | `TypeCorrect`, `WindowIsTheQueue`, `WindowImplementsQueue` | `recent_roots` |
| `ShieldedPoolProofs` | `TypeCorrect`, `NotesStayProvable`, `PauseFreezes`; with `EnoughGas`: `Solvent`, `PayoutsAreNeverLost`, `LedgerImplemented` | `pool_safety` |
| `MerkleTreeProofs` | `InclusionIsSound` | - |
| `ProofPathProofs` | `LeavesAreCounted`, `LeftSiblingsAreRemembered`, `RootsAlwaysAgree`, `EveryNoteIsProvable`, `FoundNotesAreCommitted`, `AcceptedAlwaysProved`, `ProofAlwaysFixesTheCall`, `BuiltIsProvable`, `TransfersConserve`, `FixturesAlwaysReplay`; `TransferConserves`, `FeeWithinAmount` of any witness | `proof_path` |
| `PoolWalletProofs` | `TypeCorrect`, `WalletsMatch`, `BalancesSettle`, `ChecksAreForGood`, `PrivateLedgerImplemented` | `wallet_races` |
| `PoolWalletProofs` | `DisclosuresAreExact`, `BooksBalance`; with `OneFlow`: `ClientFollows`, `ProvedAreAccepted` | `wallet_demo` |
| `CeremonyProofs` | `TypeCorrect`; with `OneScript`: `TranscriptTells`, `NothingIsForgotten` | `ceremony` |
| `DeploymentProofs` | `OnlyPassedKeys`, `CommandsDeployTheirSummary`, `CommandsAreReady` | `deployment` |
| `OperatorProofs` | `ScanFindsWhatOpens` | - |

The arguments:

* `OperatorProofs`. A sum over a finite set gains or loses an element's value,
  does not change when the function changes elsewhere, and is a natural number.
  The library's induction theorems take an operator as a parameter, which the
  provers cannot instantiate; `NatSetInduction` and `SubsetInduction` state
  induction with a set in place of the predicate, and every induction of the
  project goes through one of the two (`DeploymentProofs` has its own copy). `ScanFindsWhatOpens` is one over the log: each
  ciphertext that opens is found once and in order. `Push`, `NewWindow` and
  `Contains` rest on one arithmetic lemma about stepping round the ring
  (`StepRound`).

* `RecentRootsProofs`. The type invariant is inductive; the refinement goes by
  cases on whether the window is full, with `SlotOfAge` and `AgeOfSlot`
  relating a root's age to its slot.

* `ShieldedPoolProofs`. The types are inductive: no balance below zero, no
  nullifier of an absent leaf. `EveryNoteProvable` is not: that a note can be
  proved now says nothing of the next root. `WindowFollowsTree` strengthens it:
  the root over the whole tree is in the window, and all roots of the window are
  over leaves that exist. `Solvency` needs `PayeesKnown` (every receipt and
  entry names an account of the sum), `GasKnown` (every payout carries gas that
  `EnoughGas` speaks of) and `Books`, which is `Solvency` with the debts summed
  receipt by receipt and entry by entry; then each action is one equation. The
  same sums, split by account, give `PayoutsAreNeverLost` and the step of
  `PoolLedger` that each action is (`LedgerImplemented`): deposits, spends,
  payments and forfeits move the columns as the ledger says, all other actions
  leave them alone. `EnoughGas` says that whatever gas a withdrawal leaves, the
  payout receipt can reserve what its two promises need; without it the three
  theorems are false, as the run `pool_low_gas` shows.

* `MerkleTreeProofs`. `Agrees` ties the contract's counters and remembered
  siblings to the padded tree of the leaves, level by level, and is kept by
  `InsertLeaf` whatever the depth. `InclusionIsSound` is the converse of
  `EveryPathVerifies`: a path that the circuit accepts under the tree's root
  opens to the leaf at that index, so that no note can be proved that was not
  committed there. It rests on the constructor for Poseidon being injective.

* `ProofPathProofs`, trees and notes. Every step of every actor appends leaves or
  leaves the tree alone (`StepsGrow`), hence `Agrees` always
  (`TreeFollowsAlways`) and the four tree invariants. `NotesInv` (wallets and
  orders typed, each found note at its leaf) is inductive because ciphertexts are
  sealed in the order of the commitments and the contract reads those back out
  of every envelope as they were put in (`EnvelopeCommitments`).

* `ProofPathProofs`, acceptance. `CallInv` says that a proof under way is a
  placeholder or the proof of the very order, with the order's root, that an order
  was made as the builders make it, and that no wallet holds a note above the
  circuits' 128 bits. The last is what makes it inductive: a
  recipient's note is in range only because the contract accepted a proof, an
  accepted proof is a real one, and the circuit range-checks outputs
  (`CreatedInRange`). `KeyParses` and `ProofParses` follow keys and proofs
  through their bytes at every offset, `VerifiesExactly` concludes that the
  pairing check passes for one vector of inputs only, and `DepositsAgree`,
  `TransfersAgree` and `WithdrawsAgree` that the wallet's vector, after
  the renaming by position of `CircomInput`, is the one the contract rebuilds
  from JSON (`AcceptedAlwaysProved`). For `ProofAlwaysFixesTheCall`,
  `ArgumentsArePinned` says that two sets of arguments that differ in one the
  contract reads are read as different vectors: strings read back as one
  field element, and amounts below the field's order do not wrap.

* `ProofPathProofs`, provability. `BuiltIsProvable` is the converse of what a
  verifier asks: the wallet's own witness satisfies the circuit, but in the two cases
  `ProvableExactly` names. `FundsInv` strengthens `CallInv`: what all users hold
  together, with a deposit under way, stays below 2^RANGE_BITS (a deposit keeps
  within the token's supply, which is a u128), so that no sum of notes outgrows the
  range check. It goes by sums over both wallets through each
  landing, where a transfer's two inputs leave the sender's balance as its outputs
  come in. And wallets find their notes in leaf order, so that the two inputs of a
  transfer have different leaf indices and hence different nullifiers
  (`LeafIndexAssumption`: a leaf index is its own field element, true of 2^20 leaves
  in a field above 2^253). The inputs' paths lead to the order's root by the tree
  invariants; `InputByName` gives each signal of a circuit its value, and the
  constraints follow one by one.

* `ProofPathProofs`, the scenario. `ReplayInv` says where the pool is when a
  fixture's turn comes: its leaves and nullifiers are those the generator's local tree
  had, and the newest root is in the window. Then the root and the paths the generator
  computed without a pool are the pool's by the tree invariants, the signals it proved
  are the inputs the contract makes of the parameters (`FixtureVerifies`), the three
  nullifiers differ because their leaf indices do, and what the contract inserts leads
  to the foretold root (`RootForetold`). `ScenarioAssumption` is what the generator's
  numbers satisfy: the four amounts pass the range check and add up, the relayer's fee
  is within the amount, both below 64 bits, and the tree has room for four leaves.

* `ProofPathProofs`, arithmetic. `TransferConserves` and `FeeWithinAmount` hold for
  every field and every width of the range checks that fits the field twice
  (`FieldAssumption`, true of 128 and 64 bits in a field above 2^253): the
  equations hold modulo the order, `SmallSums` says that two sums of
  range-checked amounts that agree there are equal, and `SmallDifferences` that
  a difference whose remainder is small has not wrapped. They are about any
  assignment that satisfies the constraints, not only the wallet's.

* `PoolWalletProofs`. `Inv` is the conjunction of `Types`; `LogFits`, which ties
  each event of the log to the leaves and nullifiers it made; `Answers`, that
  what a task is waiting for is its own event, awaited by it alone; `TreesFit`, that
  a checked tree begins as the chain does; and `WalletsFit`, that a wallet's notes
  and spent marks are those of the delivered events. It is inductive for any
  number of users, clients and tasks, with answers crossing or lost. For one flow
  at a time `Following` adds that the client's tree is the chain or short of it by
  the answer on its way. `OneFlow` (one task, one client, no lost answer) is
  the demo's discipline and is needed: `wallet_ingest` shows what two tasks do.

* `PoolWalletProofs`, auditors. Two inductions, over an event's ciphertexts and over a
  batch of the log, say what an index holds after any ingest (`RecordsAreExact`).
  `EachUnderOne` strengthens exactness: the ciphertexts of an event all say one thing
  to one auditor, and the notes it creates and spends are all that auditor's. For a
  transfer it holds only of what has landed: the builder seals to two auditors, and the
  circuit asks that they are one (see `wallet_auditors`). So a landing leaves what
  is held under all other auditors alone (`HoldingUnderMoves`), and for its own auditor
  the holding moves by what the disclosure says (`LandedIsDisclosed`), as the one
  record it adds moves the books (`BooksFit`). A withdraw's recipient is an account and
  no user's key: `UsersAssumption` says so, and a key's 66 hex characters are longer
  than any account's name.

* `CeremonyProofs`. Types hold for any number of scripts at a time. What the
  transcript tells is proved for one at a time (`OneScript`), as the runbook orders
  and as `manifest.mjs`, which does not lock its file, needs: `CircuitsTold` relates
  each circuit's files and entry to the number of steps done, and `ScriptsTold`
  what a running or killed script has already written. Between its record and its exit a
  script's entry is one step ahead of what the coordinator saw, which `Reached` counts.
  Killed there, it leaves the circuit `Stuck`: the step that comes next is refused, now and
  after any further step (`StuckTold`), so that the circuit never comes to be finished.

* `DeploymentProofs`. `Inv` says that the keys a run has collected passed their
  gates, that what is written and deployed has such keys (`OutGated`), that the file of
  arguments is that of the summary printed last or of a run that has not printed
  (`Summarised`), that a run about to print has written what it will show
  (`RunWritten`), and that a run past the readiness check is ready unless it
  goes to the sandbox (`RunChecked`). That no flags get round it starts with an
  induction over the command line (`SkipsInSandbox`): whatever the flags and their
  order, the options that are parsed skip the check for the sandbox only.

Recursions that the proofs speak of are recursive functions (`ScanNotes`,
`InsertAll`, `Grown`, `Opened`, `IngestBatch`, `ParseArgs`): of the library's `SelectSeq` and folds the
provers cannot prove anything.

Model-checked only:

* `DepositsSettle`, `PayoutsSettle`, `CeremonyCompletes`: liveness, beyond the prover.

## 6. Disagreements of the code with its comments and documents

`pool_low_gas`. `withdraw` gives the payout receipt 10 Tgas plus whatever
share of gas is left over. When nothing is left, the receipt cannot reserve the
transfer's and the callback's gas, fails as a whole, and no callback is
attached to that failure: the nullifier is spent and the payout neither
happens nor is recorded. The comment in `contract/src/withdraw.rs` says the
chain exists because a failed transfer would otherwise "lose funds
permanently". The SDK attaches 300 Tgas, where the share suffices; the
contract does not require it.

`wallet_ingest`. The comment on `PoolClient.ingest` says that it grows the tree
"asserting it matches chain". It appends in the order in which answers arrive
and asserts nothing. Two deposits whose answers cross leave the leaves in each
other's places for good, and every later path of that client is wrong; only
`assertRootMatchesChain`, which the demo calls after each step, tells.

`wallet_auditors`. `buildTransferProved` puts the change under the sender's
auditor, `transfer.circom` both outputs under the recipient's. The design
document describes sends across auditors and the wallet's tests build one, with
a fake prover; the circuit has no proof of it.

`wallet_rescan`. `Wallet.scan` appends what it finds without a look at the leaf
indices it has. The design document answers an RPC outage with an "Idempotent
re-scan from last confirmed block"; scanning one log again doubles its notes in
`balance()` and lets `findTransferInputs` pair a note with itself, whose transfer
the circuit refuses.

More were met while modelling. They have no run of their own:

* `contract/src/deposit.rs` says that `hash_bytes_to_field` is the construction for
  binding `view_ct` and `note_ct` into public inputs. View ciphertexts are bound
  with `keccak_to_field`, note ciphertexts not at all (`Alterations` leaves them
  out); `hash_bytes_to_field` serves account names and auditor keys.
* Notes have 128 bits and `U64Geq` bounds the withdrawn amount to 64, whole notes only: a
  larger note can be split by transfers and not withdrawn (`ProvableExactly`).
* The design document has the SDK mark a note spent and re-scan after a refused
  nullifier (line 236). Nothing does.
* `RelayerService.quote` gives a `validUntil` that `submit` does not check.
* The message that an input note is missing its auditor's key bytes cannot appear
  in a transfer: `findTransferInputs` never pairs such notes.
* `WorkspacesCaller.call` throws when any receipt of a call failed. A withdrawal whose
  payout the token refused has landed, with the payout in the recovery book.
* The contract refuses ciphertexts above its limit (`validation.rs`), the wallet puts
  a memo of any length into a disclosure.
* "ingest is idempotent over repeat batches (appends; caller dedupes by txHash)" is the
  title of a test of the indexer; the code appends, as the brackets say, and is
  idempotent only together with such a caller, which `Records` is.

And with the ceremony and the deployment:

* The manifest is read and written back whole, without a lock. With scripts of
  two circuits at once (`Scripts` of two processes) the later write takes the
  other's entry back to what it was, with both scripts succeeding:
  `NothingForgotten` and `FinishedIsTold` fail. The runbook makes the
  contributors of one circuit take turns and says nothing of circuits.
* `beacon.sh` and `contribute.sh` have replaced their output before the manifest
  refuses a second beacon or name. `verify-ceremony.sh`, "Standalone
  re-verification of a completed ceremony transcript", compares `vk.bin` only
  and passes, with a final key that the transcript does not describe. This is
  why `FinishedIsTold` excepts repetitions.
* `beacon.sh` means to "Assert snarkjs actually produced the output", because snarkjs exits
  0 when it rejects a beacon, and asserts that a file is there. After a `beacon.sh` that
  was killed between snarkjs and `set-beacon`, the old file passes for the output of the
  next one, and a rejected value is recorded as the beacon of a key that does not have
  it; `finalize.sh` and `verify-ceremony.sh` pass. With half a key `finalize.sh` fails for
  good. These are `RejectedBeacon` and what `FinishedIsTold` and `CeremonyCompletes`
  except for it.
* A script that is killed after the manifest has its record looks as if it had failed.
  Run again, it makes another key, or the final key again, before the manifest refuses
  the name or the beacon, and then the manifest has to be edited by hand, as the message
  says. A manifest truncated by a kill in `writeFileSync` cannot be repaired at all. These
  are the exceptions of `CeremonyCompletes`.
* `deploy.ts` prints a command that reads `<network>-init-args.json` when it is broadcast.
  A later run for the network that is killed after it wrote that file, or whose output is
  lost, changes what the command printed before deploys; without the `shown` of
  `DeployedAsSummarised` the property fails.
* No step of `ceremony/RUNBOOK.md` runs `manifest.mjs init`, without which
  `contribute.sh` fails after it wrote its key; only `run-dev-ceremony.sh` does.
  The model's coordinator runs it.
* `deploy.ts` says the readiness check ensures the production verifier. The
  check looks at the artifact's presence, age, size and instructions, not at
  the verifier in it; `Ready` has no such conjunct.
* `deploy/DEPLOY-RUNBOOK.md` says the fingerprint gate rejects the keys of a
  dry-run ceremony. It knows the fingerprints of the dev-setup keys only; for
  `Accepted` the two ceremonies are one origin.

## 7. What is not modelled

Not modelled: the pairing and Poseidon's permutation (out of a model checker's
reach), the cryptography of sealing, the bytes of hex, JSON and coordinates, the Noir
circuits (not deployed), the isolated proofs of `gen-fixtures.ts`, the auditor's
`verifyDisclosure` (it keeps no state), upper limits on lengths, the refund of excess
storage deposits, and the token's operations that do not reach the pool. A wallet or a
client that restarts is not modelled because neither persists anything.

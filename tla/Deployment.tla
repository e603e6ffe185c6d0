------------------------------ MODULE Deployment ------------------------------
(***************************************************************************)
(* The deployment tool (deploy/src): its gates, what it reads and when,    *)
(* the command it prints, and the operator who broadcasts it.              *)
(*                                                                         *)
(* The files it works on, the WASM and the verifying keys, may be replaced *)
(* between any two of its steps, and it may be killed there.  One run      *)
(* goes on at a time.  A hash is what it is the hash of.  A key is the     *)
(* circuit it belongs to, which decides its length, and where it comes     *)
(* from; a build is the verifier feature it carries.                       *)
(***************************************************************************)
EXTENDS Naturals, SequencesExt, TLC

CONSTANTS
    Circuits,       \* the order in which their keys are read
    Origins,        \* of keys: "dev-setup", "ceremony"
    Verifiers,      \* features of a WASM build: "groth16-verifier", ...
    CommandLines,   \* sequences of flags, each with its value if it takes one
    Config,         \* deploy/config: for each network, the fields its file has
    FirstBuilds,    \* what the canonical artifact may be at first
    Bins,           \* the keys under DEPLOY_VK_DIR, none when it is not set
    MaxRuns,        \* bound: runs of the tool
    MaxChanges      \* bound: files replaced

Networks == {"sandbox", "testnet", "mainnet"}
Production == {"testnet", "mainnet"}
Fields == {"account", "owner", "usdcToken"}
FieldFlags == {"--account", "--owner", "--usdc-token"}
FlagNames == {"--network", "--wasm", "--confirm-mainnet", "--skip-readiness"} \cup FieldFlags

Keys == [circuit : Range(Circuits), origin : Origins]
None == [absent |-> TRUE]

ASSUME DeploymentAssumption ==
    /\ DOMAIN Config = Networks
    /\ \A n \in Networks : DOMAIN Config[n] \subseteq Fields
    /\ "ceremony" \in Origins
    /\ Bins \subseteq Keys
    /\ Circuits \in Seq(Range(Circuits))
    /\ \A flags \in CommandLines :
          /\ Len(flags) \in Nat
          /\ \A i \in 1 .. Len(flags) :
                /\ flags[i][1] \in FlagNames
                /\ flags[i][1] = "--network" => flags[i][2] \in Networks
    /\ MaxRuns \in Nat /\ MaxChanges \in Nat

VARIABLES
    vkJson,     \* of every circuit: <c>/vk.json ("nested") and <c>_vk.json ("flat")
    raw,        \* the compiled WASM's feature
    opt,        \* the canonical artifact, shielded_pool.opt.wasm
    args,       \* deploy/out/<network>-init-args.json
    printed,    \* for each network, the command printed last, with its summary
    receipt,    \* deploy/out/sandbox-receipt.json
    unshown,    \* networks with arguments of a run that has not printed its summary
    deployed,   \* for each network, what was deployed, and the summary of it
    run,
    runs, changes

files == <<vkJson, raw, opt>>
out == <<args, printed, unshown, receipt, deployed>>
vars == <<files, out, run, runs, changes>>

NoRun == [at |-> "none"]

Init ==
    /\ vkJson = [c \in Range(Circuits) |->
                    [nested |-> None, flat |-> [circuit |-> c, origin |-> "ceremony"]]]
    /\ opt \in FirstBuilds
    /\ raw = opt.verifier
    /\ args = [n \in Production |-> None]
    /\ printed = [n \in Production |-> None]
    /\ unshown = {}
    /\ receipt = None
    /\ deployed = [n \in Networks |-> {}]
    /\ run = NoRun
    /\ runs = 0 /\ changes = 0

------------------------------------------------------------------------------
(* The command line. *)

Defaults == [network |-> "sandbox", wasm |-> "canonical", overrides |-> [f \in {} |-> ""],
             confirmMainnet |-> FALSE, skipReadiness |-> FALSE]

FieldOf(name) ==
    CASE name = "--account"    -> "account"
      [] name = "--owner"      -> "owner"
      [] name = "--usdc-token" -> "usdcToken"

Override(overrides, field, value) == (field :> value) @@ overrides

(* One flag and its value.  --vk-dir and --out-dir only name directories:  *)
(* the keys are those of the directory named, whatever is put there, and   *)
(* every command names the file its own run wrote. *)
Take(opts, flag) ==
    CASE flag[1] = "--network"         -> [opts EXCEPT !.network = flag[2]]
      [] flag[1] = "--wasm"            -> [opts EXCEPT !.wasm = flag[2]]
      [] flag[1] \in FieldFlags        ->
              [opts EXCEPT !.overrides = Override(@, FieldOf(flag[1]), flag[2])]
      [] flag[1] = "--confirm-mainnet" -> [opts EXCEPT !.confirmMainnet = TRUE]
      [] flag[1] = "--skip-readiness"  -> [opts EXCEPT !.skipReadiness = TRUE]

\* Fault: the flag is refused only when the network was named before it.
ParseArgsInOrder(flags) ==
    LET opts[i \in 0 .. Len(flags)] ==
            IF i = 0 THEN Defaults
            ELSE IF flags[i][1] = "--skip-readiness" /\ opts[i - 1].network # "sandbox" THEN opts[i - 1]
            ELSE Take(opts[i - 1], flags[i])
    IN  opts[Len(flags)]

IgnoreSkip(opts) == [opts EXCEPT !.skipReadiness = @ /\ opts.network = "sandbox"]

(* --skip-readiness is for the sandbox only, wherever it stands. *)
ParseArgs(flags) ==
    LET opts[i \in 0 .. Len(flags)] ==
            IF i = 0 THEN Defaults ELSE Take(opts[i - 1], flags[i])
    IN  IgnoreSkip(opts[Len(flags)])

------------------------------------------------------------------------------
(* The gates. *)

(* check-production-readiness.sh: the artifact is there, not older than    *)
(* the compiled one, and what NEAR deploys; and no development key is      *)
(* under DEPLOY_VK_DIR. *)
Ready == ~opt.stale /\ opt.deployable /\ \A k \in Bins : k.origin # "dev-setup"

WasmPermitted(opts) == opts.network \in Production => opts.wasm = "canonical"

Wasm(path) == IF path = "canonical" THEN opt.verifier ELSE path

LoadConfig(opts) == opts.overrides @@ Config[opts.network]
Complete(cfg) == DOMAIN cfg = Fields

ReadVkJson(c) == IF vkJson[c].nested # None THEN vkJson[c].nested ELSE vkJson[c].flat

(* assertVkLength and assertNotDevKey. *)
Accepted(c, key) == key # None /\ key.circuit = c /\ key.origin # "dev-setup"

------------------------------------------------------------------------------
(* A run, step by step: the files are read at each. *)

Goes(at) == run' = [run EXCEPT !.at = at]

Start(flags) ==
    /\ run = NoRun /\ runs < MaxRuns
    /\ runs' = runs + 1
    /\ run' = [at |-> "readiness", opts |-> ParseArgs(flags), keys |-> <<>>, wasm |-> "unread"]
    /\ UNCHANGED <<files, out, changes>>

RunReadinessCheck ==
    /\ run.at = "readiness"
    /\ run.opts.skipReadiness \/ Ready
    /\ Goes("config")
    /\ UNCHANGED <<files, out, runs, changes>>

CheckConfig ==
    /\ run.at = "config"
    /\ WasmPermitted(run.opts)
    /\ Complete(LoadConfig(run.opts))
    /\ Goes("keys")
    /\ UNCHANGED <<files, out, runs, changes>>

\* Fault: the gates see the exported file, whichever is deployed.
ReadKeyGatedFlat ==
    /\ run.at = "keys" /\ Len(run.keys) < Len(Circuits)
    /\ LET c == Circuits[Len(run.keys) + 1] IN
          /\ Accepted(c, vkJson[c].flat)
          /\ run' = [run EXCEPT !.keys = Append(@, ReadVkJson(c))]
    /\ UNCHANGED <<files, out, runs, changes>>

(* assembleInitArgs, one circuit of its loop. *)
ReadKey ==
    /\ run.at = "keys" /\ Len(run.keys) < Len(Circuits)
    /\ LET c == Circuits[Len(run.keys) + 1] IN
          /\ Accepted(c, ReadVkJson(c))
          /\ run' = [run EXCEPT !.keys = Append(@, ReadVkJson(c))]
    /\ UNCHANGED <<files, out, runs, changes>>

HashWasm ==
    /\ run.at = "keys" /\ Len(run.keys) = Len(Circuits)
    /\ run' = [run EXCEPT !.at = "deploy", !.wasm = Wasm(run.opts.wasm)]
    /\ UNCHANGED <<files, out, runs, changes>>

InitArgs ==
    LET cfg == LoadConfig(run.opts)
    IN  [owner |-> cfg["owner"], usdc_token |-> cfg["usdcToken"], keys |-> run.keys]

Summary == [account |-> LoadConfig(run.opts)["account"], wasm |-> run.wasm, args |-> InitArgs]

(* deployToSandbox, to a new sandbox, reads the WASM again. *)
DeployToSandbox ==
    /\ run.at = "deploy" /\ run.opts.network = "sandbox"
    /\ deployed' = [deployed EXCEPT !["sandbox"] =
                       {[wasm |-> Wasm(run.opts.wasm), args |-> InitArgs]}]
    /\ Goes("receipt")
    /\ UNCHANGED <<files, args, printed, unshown, receipt, runs, changes>>

(* The receipt has the hash from before. *)
WriteReceipt ==
    /\ run.at = "receipt"
    /\ receipt' = [wasm |-> run.wasm, args |-> InitArgs]
    /\ run' = NoRun
    /\ UNCHANGED <<files, args, printed, unshown, deployed, runs, changes>>

\* Fault: one file of arguments for all networks.
EmitToOneFile ==
    /\ run.at = "deploy" /\ run.opts.network \in Production
    /\ run.opts.network = "mainnet" => run.opts.confirmMainnet
    /\ args' = [n \in Production |-> InitArgs]
    /\ unshown' = unshown \cup {run.opts.network}
    /\ Goes("print")
    /\ UNCHANGED <<files, printed, receipt, deployed, runs, changes>>

(* emitDeployCommand: the arguments go to a file that the command reads. *)
EmitDeployCommand ==
    /\ run.at = "deploy" /\ run.opts.network \in Production
    /\ run.opts.network = "mainnet" => run.opts.confirmMainnet
    /\ args' = [args EXCEPT ![run.opts.network] = InitArgs]
    /\ unshown' = unshown \cup {run.opts.network}
    /\ Goes("print")
    /\ UNCHANGED <<files, printed, receipt, deployed, runs, changes>>

(* The operator reads the summary and the command. *)
PrintCommand ==
    /\ run.at = "print"
    /\ printed' = [printed EXCEPT ![run.opts.network] = Summary]
    /\ unshown' = unshown \ {run.opts.network}
    /\ run' = NoRun
    /\ UNCHANGED <<files, args, receipt, deployed, runs, changes>>

(* A gate throws: nothing is written. *)
Refused ==
    \/ run.at = "readiness" /\ ~run.opts.skipReadiness /\ ~Ready
    \/ run.at = "config" /\ ~(WasmPermitted(run.opts) /\ Complete(LoadConfig(run.opts)))
    \/ /\ run.at = "keys" /\ Len(run.keys) < Len(Circuits)
       /\ LET c == Circuits[Len(run.keys) + 1] IN ~Accepted(c, ReadVkJson(c))
    \/ run.at = "deploy" /\ run.opts.network = "mainnet" /\ ~run.opts.confirmMainnet

Throw ==
    /\ Refused
    /\ run' = NoRun
    /\ UNCHANGED <<files, out, runs, changes>>

(* The tool is interrupted, or its output is lost. *)
Kill ==
    /\ run # NoRun
    /\ run' = NoRun
    /\ UNCHANGED <<files, out, runs, changes>>

------------------------------------------------------------------------------
(* The operator, and whoever builds and exports. *)

(* The printed command: near contract deploy with the file it names and    *)
(* the arguments it cats, both read now.  new() runs once in an account. *)
Broadcast(n) ==
    /\ printed[n] # None
    /\ \A d \in deployed[n] : d.summary.account # printed[n].account
    /\ deployed' = [deployed EXCEPT ![n] = @ \cup
                       {[wasm |-> opt.verifier, args |-> args[n], summary |-> printed[n],
                         shown |-> n \notin unshown]}]
    /\ UNCHANGED <<files, args, printed, unshown, receipt, run, runs, changes>>

Changes == changes < MaxChanges /\ changes' = changes + 1

(* cargo build *)
Build(verifier) ==
    /\ Changes
    /\ raw' = verifier
    /\ opt' = [opt EXCEPT !.stale = TRUE]
    /\ UNCHANGED <<vkJson, out, run, runs>>

(* wasm-opt, with or without what NEAR asks for *)
Optimise(deployable) ==
    /\ Changes
    /\ opt' = [verifier |-> raw, deployable |-> deployable, stale |-> FALSE]
    /\ UNCHANGED <<vkJson, raw, out, run, runs>>

(* Keys are exported, copied and mixed up. *)
PutKey(c, place, key) ==
    /\ Changes
    /\ vkJson' = [vkJson EXCEPT ![c][place] = key]
    /\ UNCHANGED <<raw, opt, out, run, runs>>

Step ==
    \/ \E flags \in CommandLines : Start(flags)
    \/ RunReadinessCheck
    \/ CheckConfig
    \/ ReadKey
    \/ HashWasm
    \/ DeployToSandbox
    \/ WriteReceipt
    \/ EmitDeployCommand
    \/ PrintCommand
    \/ Throw
    \/ Kill

Next ==
    \/ Step
    \/ \E n \in Production : Broadcast(n)
    \/ \E verifier \in Verifiers : Build(verifier)
    \/ \E deployable \in BOOLEAN : Optimise(deployable)
    \/ \E c \in Range(Circuits), place \in {"nested", "flat"}, key \in Keys \cup {None} :
          PutKey(c, place, key)

Spec == Init /\ [][Next]_vars

------------------------------------------------------------------------------
(* Properties. *)

(* "checked on the actual bytes to be deployed" (DEPLOY-RUNBOOK.md):       *)
(* whatever happens to the key files meanwhile, a file of arguments and a  *)
(* sandbox hold keys that passed the gates, each its circuit's. *)
KeysPassedGates ==
    LET Passed(a) == \A i \in DOMAIN Circuits : Accepted(Circuits[i], a.keys[i]) IN
    /\ \A n \in Production : args[n] # None => Passed(args[n])
    /\ \A n \in Networks : \A d \in deployed[n] : Passed(d.args)

(* What is deployed has the owner, token and keys of the summary that was  *)
(* printed last for its network, whatever runs were made or failed since;  *)
(* unless one of them wrote its arguments and did not come to print its    *)
(* summary: the older command, which cats the file (emit.ts), takes them.  *)
DeployedAsSummarised ==
    \A n \in Production : \A d \in deployed[n] : d.shown => d.args = d.summary.args

(* As long as nobody builds, no flags in any order get an artifact that    *)
(* the readiness check rejects into a command: "never silently skip        *)
(* readiness for testnet or mainnet via CLI" (deploy.ts). *)
NoCommandUnready ==
    changes = 0 => \A n \in Production : printed[n] # None => Ready
==============================================================================

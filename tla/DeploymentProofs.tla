--------------------------- MODULE DeploymentProofs ---------------------------
(***************************************************************************)
(* Theorems about Deployment: for any circuits, keys, configurations and   *)
(* command lines, and any number of runs and of files replaced between     *)
(* their steps.                                                            *)
(***************************************************************************)
EXTENDS Deployment, WellFoundedInduction, TLAPS

------------------------------------------------------------------------------
(* The command line. *)

LEMMA NatSetInduction ==
    ASSUME NEW Good \in SUBSET Nat, 0 \in Good, \A n \in Good : n + 1 \in Good
    PROVE  Good = Nat
<1>. DEFINE Bad == Nat \ Good
<1>1. ASSUME Bad # {} PROVE FALSE
    <2>1. PICK n \in Bad : \A m \in Bad : <<m, n>> \notin OpToRel(<, Nat)
        BY <1>1, NatLessThanWellFounded, WFMin
    <2>2. n - 1 \in Nat /\ n - 1 < n
        OBVIOUS
    <2>3. <<n - 1, n>> \in OpToRel(<, Nat)
        BY <2>2 DEF OpToRel
    <2>4. n - 1 \notin Bad
        BY <2>1, <2>3
    <2>5. n - 1 \in Good
        BY <2>2, <2>4
    <2>. QED BY <2>2, <2>5
<1>. QED BY <1>1

(* The options after any number of flags. *)
IsOptions(opts) ==
    /\ opts = [network |-> opts.network, wasm |-> opts.wasm, overrides |-> opts.overrides,
               confirmMainnet |-> opts.confirmMainnet, skipReadiness |-> opts.skipReadiness]
    /\ opts.network \in Networks
    /\ opts.skipReadiness \in BOOLEAN

IsFlag(flag) ==
    /\ flag[1] \in FlagNames
    /\ flag[1] = "--network" => flag[2] \in Networks

LEMMA DefaultsAreOptions == IsOptions(Defaults)
BY DEF IsOptions, Defaults, Networks

LEMMA TakeKeepsOptions ==
    ASSUME NEW opts, IsOptions(opts), NEW flag, IsFlag(flag)
    PROVE  IsOptions(Take(opts, flag))
<1>1. CASE flag[1] = "--network"
    <2>1. Take(opts, flag) = [opts EXCEPT !.network = flag[2]]
        BY <1>1 DEF Take, FieldFlags
    <2>. QED BY <1>1, <2>1 DEF IsOptions, IsFlag
<1>2. CASE flag[1] = "--wasm"
    <2>1. Take(opts, flag) = [opts EXCEPT !.wasm = flag[2]]
        BY <1>2 DEF Take, FieldFlags
    <2>. QED BY <2>1 DEF IsOptions
<1>3. CASE flag[1] \in FieldFlags
    <2>1. Take(opts, flag)
            = [opts EXCEPT !.overrides = Override(@, FieldOf(flag[1]), flag[2])]
        BY <1>3 DEF Take, FieldFlags
    <2>. QED BY <2>1 DEF IsOptions
<1>4. CASE flag[1] = "--confirm-mainnet"
    <2>1. Take(opts, flag) = [opts EXCEPT !.confirmMainnet = TRUE]
        BY <1>4 DEF Take, FieldFlags
    <2>. QED BY <2>1 DEF IsOptions
<1>5. CASE flag[1] = "--skip-readiness"
    <2>1. Take(opts, flag) = [opts EXCEPT !.skipReadiness = TRUE]
        BY <1>5 DEF Take, FieldFlags
    <2>. QED BY <2>1 DEF IsOptions
<1>. QED BY <1>1, <1>2, <1>3, <1>4, <1>5 DEF IsFlag, FlagNames

AreTaken(f, flags, n) ==
    f = [i \in 0 .. n |-> IF i = 0 THEN Defaults ELSE Take(f[i - 1], flags[i])]

LEMMA AreTakenExist ==
    ASSUME NEW flags
    PROVE  \A n \in Nat : \E f : AreTaken(f, flags, n)
<1>. DEFINE Good == {n \in Nat : \E f : AreTaken(f, flags, n)}
<1>1. 0 \in Good
    <2>. DEFINE f == [i \in 0 .. 0 |-> Defaults]
    <2>1. AreTaken(f, flags, 0)
        BY DEF AreTaken
    <2>. QED BY <2>1
<1>2. ASSUME NEW n \in Good PROVE n + 1 \in Good
    <2>1. PICK f : AreTaken(f, flags, n)
        OBVIOUS
    <2>. DEFINE g == [i \in 0 .. n + 1 |-> IF i = 0 THEN Defaults ELSE Take(f[i - 1], flags[i])]
    <2>2. \A i \in 0 .. n : g[i] = f[i]
        BY <2>1 DEF AreTaken
    <2>3. \A i \in 0 .. n + 1 : g[i] = IF i = 0 THEN Defaults ELSE Take(g[i - 1], flags[i])
        <3>1. \A i \in 0 .. n + 1 : i = 0 \/ i - 1 \in 0 .. n
            OBVIOUS
        <3>. QED BY <2>2, <3>1
    <2>4. g = [i \in 0 .. n + 1 |-> g[i]]
        OBVIOUS
    <2>. HIDE DEF g
    <2>5. AreTaken(g, flags, n + 1)
        BY <2>3, <2>4 DEF AreTaken
    <2>. QED BY <2>5
<1>3. Good = Nat
    <2>1. Good \in SUBSET Nat
        OBVIOUS
    <2>. HIDE DEF Good
    <2>. QED BY <1>1, <1>2, <2>1, NatSetInduction
<1>. QED BY <1>3

(* Whatever flags in whatever order: the readiness check is skipped for    *)
(* the sandbox only. *)
LEMMA SkipsInSandbox ==
    ASSUME NEW flags \in CommandLines
    PROVE  /\ IsOptions(ParseArgs(flags))
           /\ ParseArgs(flags).skipReadiness => ParseArgs(flags).network = "sandbox"
<1>1. Len(flags) \in Nat /\ \A i \in 1 .. Len(flags) : IsFlag(flags[i])
    BY DeploymentAssumption DEF IsFlag
<1>. DEFINE f == CHOOSE f : AreTaken(f, flags, Len(flags))
<1>2. ParseArgs(flags) = IgnoreSkip(f[Len(flags)])
    BY DEF ParseArgs, AreTaken
<1>3. AreTaken(f, flags, Len(flags))
    BY <1>1, AreTakenExist
<1>. HIDE DEF f
<1>4. 0 \in 0 .. Len(flags) /\ \A i \in 1 .. Len(flags) : i \in 0 .. Len(flags) /\ i # 0
    BY <1>1
<1>5. f[0] = Defaults /\ \A i \in 1 .. Len(flags) : f[i] = Take(f[i - 1], flags[i])
    BY <1>3, <1>4 DEF AreTaken
<1>. DEFINE Good == {n \in Nat : n <= Len(flags) => IsOptions(f[n])}
<1>6. 0 \in Good
    BY <1>5, DefaultsAreOptions
<1>7. ASSUME NEW n \in Good PROVE n + 1 \in Good
    <2>. SUFFICES ASSUME n + 1 <= Len(flags) PROVE IsOptions(f[n + 1])
        OBVIOUS
    <2>1. n + 1 \in 1 .. Len(flags) /\ n + 1 - 1 = n /\ IsOptions(f[n])
        BY <1>1
    <2>2. f[n + 1] = Take(f[n], flags[n + 1]) /\ IsFlag(flags[n + 1])
        BY <1>1, <1>5, <2>1
    <2>. QED BY <2>1, <2>2, TakeKeepsOptions
<1>8. Good = Nat
    <2>1. Good \in SUBSET Nat
        OBVIOUS
    <2>. HIDE DEF Good
    <2>. QED BY <1>6, <1>7, <2>1, NatSetInduction
<1>9. IsOptions(f[Len(flags)])
    BY <1>1, <1>8
<1>. DEFINE opts == f[Len(flags)]
<1>. HIDE DEF opts
<1>10. IsOptions(opts) /\ ParseArgs(flags) = IgnoreSkip(opts)
    BY <1>2, <1>9 DEF opts
<1>. QED BY <1>10 DEF IsOptions, IgnoreSkip

------------------------------------------------------------------------------
(* The inductive invariant. *)

VkFiles == [Range(Circuits) -> [nested : Keys \cup {None}, flat : Keys \cup {None}]]

(* A run that has not ended: four fields, and keys of the first circuits. *)
IsRun(r) ==
    /\ r = [at |-> r.at, opts |-> r.opts, keys |-> r.keys, wasm |-> r.wasm]
    /\ r.at \in {"readiness", "config", "keys", "deploy", "receipt", "print"}
    /\ r.keys \in Seq(Keys)

Of(f, S) == f = [n \in S |-> f[n]]

RunTyped == run = NoRun \/ IsRun(run)

Types ==
    /\ vkJson \in VkFiles
    /\ RunTyped
    /\ Of(args, Production) /\ Of(printed, Production) /\ Of(deployed, Networks)
    /\ changes \in Nat

GatesOf(keys) == \A i \in 1 .. Len(keys) : Accepted(Circuits[i], keys[i])

Passed(keys) == \A i \in DOMAIN Circuits : Accepted(Circuits[i], keys[i])

(* Every key a run holds has passed, one for every circuit when it writes  *)
(* its output. *)
RunGated ==
    /\ run # NoRun => GatesOf(run.keys) /\ Len(run.keys) <= Len(Circuits)
    /\ run.at \in {"deploy", "receipt", "print"} => Len(run.keys) = Len(Circuits)

(* So have the keys of what was written. *)
OutGated ==
    /\ \A n \in Production : args[n] # None => Passed(args[n].keys)
    /\ \A n \in Networks : \A d \in deployed[n] : Passed(d.args.keys)

(* The file of arguments is that of the summary printed last, or of one    *)
(* that a run has not printed. *)
Summarised ==
    /\ \A n \in Production : printed[n] # None =>
          args[n] # None /\ (n \notin unshown => args[n] = printed[n].args)
    /\ DeployedAsSummarised

(* A run about to print its command has written the arguments of it. *)
RunWritten ==
    run.at = "print" =>
        /\ run.opts.network \in Production
        /\ args[run.opts.network] = InitArgs

(* Behind the readiness check, a run may be unready only for the sandbox. *)
RunChecked ==
    /\ run # NoRun => (run.opts.skipReadiness => run.opts.network = "sandbox")
    /\ changes = 0 /\ run.at \in {"config", "keys", "deploy", "receipt", "print"} =>
          run.opts.skipReadiness \/ Ready

Inv ==
    Types /\ RunGated /\ OutGated /\ Summarised /\ RunWritten /\ RunChecked /\ NoCommandUnready

LEMMA InvInit == Init => Inv
<1>. SUFFICES ASSUME Init PROVE Inv
    OBVIOUS
<1>1. vkJson \in VkFiles
    BY DeploymentAssumption DEF Init, VkFiles, Keys
<1>2. Types
    BY <1>1 DEF Init, Types, RunTyped, Of
<1>3. OutGated /\ Summarised /\ NoCommandUnready
    BY DEF Init, OutGated, Summarised, DeployedAsSummarised, NoCommandUnready, Production, Networks
<1>4. RunGated /\ RunWritten /\ RunChecked
    BY DEF Init, RunGated, RunWritten, RunChecked, NoRun
<1>. QED BY <1>2, <1>3, <1>4 DEF Inv

------------------------------------------------------------------------------
(* What the steps leave alone. *)

LEMMA OutKept ==
    ASSUME Inv, UNCHANGED <<args, printed, unshown, deployed>>
    PROVE  OutGated' /\ Summarised'
BY DEF Inv, OutGated, Summarised, DeployedAsSummarised

LEMMA CommandsKept ==
    ASSUME Inv, UNCHANGED <<printed, opt, changes>>
    PROVE  NoCommandUnready'
BY DEF Inv, NoCommandUnready, Ready

(* A file is replaced: nothing is said of the readiness any more. *)
LEMMA FilesChange ==
    ASSUME Inv, Changes, UNCHANGED <<out, run>>, vkJson' \in VkFiles
    PROVE  Inv'
<1>1. changes' \in Nat /\ changes' # 0
    BY DEF Inv, Types, Changes
<1>2. Types'
    BY <1>1 DEF Inv, Types, RunTyped, out
<1>3. RunGated' /\ RunWritten'
    BY DEF Inv, RunGated, RunWritten, InitArgs, out
<1>4. RunChecked' /\ NoCommandUnready'
    BY <1>1 DEF Inv, RunChecked, NoCommandUnready
<1>. QED BY <1>2, <1>3, <1>4, OutKept DEF Inv, out

LEMMA NoRunIsFine ==
    ASSUME run' = NoRun
    PROVE  RunGated' /\ RunWritten' /\ RunChecked'
BY DEF RunGated, RunWritten, RunChecked, NoRun

(* A run ends or is killed, having written nothing in that step. *)
LEMMA EndKeepsInv == Inv /\ (Throw \/ Kill) => Inv'
<1>. SUFFICES ASSUME Inv, Throw \/ Kill PROVE Inv'
    OBVIOUS
<1>1. run' = NoRun /\ UNCHANGED <<files, out, runs, changes>>
    BY DEF Throw, Kill
<1>2. Types'
    BY <1>1 DEF Inv, Types, RunTyped, files, out
<1>. QED BY <1>1, <1>2, NoRunIsFine, OutKept, CommandsKept DEF Inv, files, out

------------------------------------------------------------------------------
(* The steps of a run that only read. *)

LEMMA EditRun ==
    ASSUME NEW r, IsRun(r), NEW at \in {"config", "keys", "deploy", "receipt", "print"}
    PROVE  LET e == [r EXCEPT !.at = at]
           IN  IsRun(e) /\ e.at = at /\ e.opts = r.opts /\ e.keys = r.keys
BY DEF IsRun

LEMMA EditRunRead ==
    ASSUME NEW r, IsRun(r), NEW wasm
    PROVE  LET e == [r EXCEPT !.at = "deploy", !.wasm = wasm]
           IN  IsRun(e) /\ e.at = "deploy" /\ e.opts = r.opts /\ e.keys = r.keys
<1>. DEFINE e == [r EXCEPT !.at = "deploy", !.wasm = wasm]
<1>1. DOMAIN r = {"at", "opts", "keys", "wasm"} /\ r.keys \in Seq(Keys)
    BY DEF IsRun
<1>2. DOMAIN e = {"at", "opts", "keys", "wasm"}
    BY <1>1
<1>3. e.at = "deploy" /\ e.opts = r.opts /\ e.keys = r.keys /\ e.wasm = wasm
    BY <1>1
<1>4. e = [k \in DOMAIN e |-> e[k]]
    OBVIOUS
<1>. HIDE DEF e
<1>5. e = [at |-> e.at, opts |-> e.opts, keys |-> e.keys, wasm |-> e.wasm]
    BY <1>2, <1>4
<1>6. IsRun(e)
    BY <1>1, <1>3, <1>5 DEF IsRun
<1>. QED BY <1>3, <1>6 DEF e

LEMMA EditRunKeys ==
    ASSUME NEW r, IsRun(r), NEW keys \in Seq(Keys)
    PROVE  LET e == [r EXCEPT !.keys = keys]
           IN  IsRun(e) /\ e.at = r.at /\ e.opts = r.opts /\ e.keys = keys
BY DEF IsRun

LEMMA Running ==
    ASSUME Types, run.at \in {"readiness", "config", "keys", "deploy", "receipt", "print"}
    PROVE  run # NoRun /\ IsRun(run)
BY DEF Types, RunTyped, NoRun

LEMMA ReadingSteps ==
    ASSUME Inv, UNCHANGED <<files, out, changes>>, IsRun(run'), run'.at # "print",
           RunGated', RunChecked'
    PROVE  Inv'
<1>1. Types'
    BY DEF Inv, Types, RunTyped, files, out
<1>2. RunWritten'
    BY DEF RunWritten
<1>. QED BY <1>1, <1>2, OutKept, CommandsKept DEF Inv, files, out

LEMMA StartKeepsInv ==
    ASSUME Inv, NEW flags \in CommandLines, Start(flags)
    PROVE  Inv'
<1>. DEFINE opts == ParseArgs(flags)
<1>1. opts.skipReadiness => opts.network = "sandbox"
    BY SkipsInSandbox
<1>. HIDE DEF opts
<1>2. /\ run' = [at |-> "readiness", opts |-> opts, keys |-> <<>>, wasm |-> "unread"]
      /\ UNCHANGED <<files, out, changes>>
    BY DEF Start, opts
<1>3. IsRun(run')
    BY <1>2 DEF IsRun
<1>4. RunGated'
    <2>1. run'.keys = <<>> /\ run'.at = "readiness"
        BY <1>2
    <2>2. Len(<<>>) = 0 /\ 1 .. 0 = {} /\ Len(Circuits) \in Nat
        BY DeploymentAssumption
    <2>. QED BY <2>1, <2>2 DEF RunGated, GatesOf
<1>5. RunChecked'
    BY <1>1, <1>2 DEF RunChecked
<1>. QED BY <1>2, <1>3, <1>4, <1>5, ReadingSteps

LEMMA RunReadinessCheckKeepsInv == Inv /\ RunReadinessCheck => Inv'
<1>. SUFFICES ASSUME Inv, RunReadinessCheck PROVE Inv'
    OBVIOUS
<1>1. /\ run.at = "readiness"
      /\ run.opts.skipReadiness \/ Ready
      /\ run' = [run EXCEPT !.at = "config"]
      /\ UNCHANGED <<files, out, changes>>
    BY DEF RunReadinessCheck, Goes
<1>2. run # NoRun /\ IsRun(run)
    BY <1>1, Running DEF Inv
<1>3. IsRun(run') /\ run'.at = "config" /\ run'.opts = run.opts /\ run'.keys = run.keys
    BY <1>1, <1>2, EditRun
<1>4. RunGated'
    BY <1>2, <1>3 DEF Inv, RunGated
<1>5. RunChecked'
    <2>1. Ready' = Ready
        BY <1>1 DEF Ready, files
    <2>. QED BY <1>1, <1>2, <1>3, <2>1 DEF Inv, RunChecked
<1>. QED BY <1>1, <1>3, <1>4, <1>5, ReadingSteps

LEMMA CheckConfigKeepsInv == Inv /\ CheckConfig => Inv'
<1>. SUFFICES ASSUME Inv, CheckConfig PROVE Inv'
    OBVIOUS
<1>1. /\ run.at = "config" /\ run' = [run EXCEPT !.at = "keys"]
      /\ UNCHANGED <<files, out, changes>>
    BY DEF CheckConfig, Goes
<1>2. run # NoRun /\ IsRun(run)
    BY <1>1, Running DEF Inv
<1>3. IsRun(run') /\ run'.at = "keys" /\ run'.opts = run.opts /\ run'.keys = run.keys
    BY <1>1, <1>2, EditRun
<1>4. RunGated'
    BY <1>2, <1>3 DEF Inv, RunGated
<1>5. RunChecked'
    <2>1. Ready' = Ready
        BY <1>1 DEF Ready, files
    <2>. QED BY <1>1, <1>2, <1>3, <2>1 DEF Inv, RunChecked
<1>. QED BY <1>1, <1>3, <1>4, <1>5, ReadingSteps

LEMMA ReadKeyKeepsInv == Inv /\ ReadKey => Inv'
<1>. SUFFICES ASSUME Inv, ReadKey PROVE Inv'
    OBVIOUS
<1>. DEFINE c == Circuits[Len(run.keys) + 1]
            key == ReadVkJson(c)
            keys == Append(run.keys, key)
<1>1. /\ run.at = "keys" /\ Len(run.keys) < Len(Circuits)
      /\ Accepted(c, key)
      /\ run' = [run EXCEPT !.keys = keys]
      /\ UNCHANGED <<files, out, changes>>
    BY DEF ReadKey
<1>2. run # NoRun /\ IsRun(run)
    BY <1>1, Running DEF Inv
<1>3. run.keys \in Seq(Keys) /\ GatesOf(run.keys)
    BY <1>2 DEF IsRun, Inv, RunGated
<1>4. Circuits \in Seq(Range(Circuits)) /\ Len(run.keys) \in Nat
    BY <1>3, DeploymentAssumption
<1>5. key \in Keys
    <2>1. c \in Range(Circuits)
        BY <1>1, <1>4
    <2>2. vkJson[c] \in [nested : Keys \cup {None}, flat : Keys \cup {None}]
        BY <2>1 DEF Inv, Types, VkFiles
    <2>. QED BY <1>1, <2>2 DEF ReadVkJson, Accepted
<1>6. keys \in Seq(Keys) /\ Len(keys) = Len(run.keys) + 1 /\ GatesOf(keys)
    <2>. HIDE DEF key
    <2>1. keys \in Seq(Keys) /\ Len(keys) = Len(run.keys) + 1
        BY <1>3, <1>5
    <2>2. ASSUME NEW i \in 1 .. Len(keys) PROVE Accepted(Circuits[i], keys[i])
        <3>1. CASE i = Len(run.keys) + 1
            <4>1. keys[i] = key
                BY <1>3, <1>5, <3>1
            <4>. QED BY <1>1, <3>1, <4>1
        <3>2. CASE i # Len(run.keys) + 1
            <4>1. i \in 1 .. Len(run.keys) /\ keys[i] = run.keys[i]
                BY <1>3, <1>5, <2>1, <3>2
            <4>. QED BY <1>3, <4>1 DEF GatesOf
        <3>. QED BY <3>1, <3>2
    <2>. QED BY <2>1, <2>2 DEF GatesOf
<1>. HIDE DEF keys, key, c
<1>7. IsRun(run') /\ run'.at = "keys" /\ run'.opts = run.opts /\ run'.keys = keys
    BY <1>1, <1>2, <1>6, EditRunKeys
<1>8. RunGated'
    <2>1. Len(keys) <= Len(Circuits)
        BY <1>1, <1>4, <1>6
    <2>. QED BY <1>6, <1>7, <2>1 DEF RunGated
<1>9. RunChecked'
    <2>1. Ready' = Ready
        BY <1>1 DEF Ready, files
    <2>. QED BY <1>1, <1>2, <1>7, <2>1 DEF Inv, RunChecked
<1>. QED BY <1>1, <1>7, <1>8, <1>9, ReadingSteps

LEMMA HashWasmKeepsInv == Inv /\ HashWasm => Inv'
<1>. SUFFICES ASSUME Inv, HashWasm PROVE Inv'
    OBVIOUS
<1>1. /\ run.at = "keys" /\ Len(run.keys) = Len(Circuits)
      /\ run' = [run EXCEPT !.at = "deploy", !.wasm = Wasm(run.opts.wasm)]
      /\ UNCHANGED <<files, out, changes>>
    BY DEF HashWasm
<1>2. run # NoRun /\ IsRun(run)
    BY <1>1, Running DEF Inv
<1>3. IsRun(run') /\ run'.at = "deploy" /\ run'.opts = run.opts /\ run'.keys = run.keys
    <2>. DEFINE wasm == Wasm(run.opts.wasm)
    <2>. HIDE DEF wasm
    <2>1. run' = [run EXCEPT !.at = "deploy", !.wasm = wasm]
        BY <1>1 DEF wasm
    <2>. QED BY <1>2, <2>1, EditRunRead, Zenon
<1>4. RunGated'
    BY <1>1, <1>2, <1>3 DEF Inv, RunGated
<1>5. RunChecked'
    <2>1. Ready' = Ready
        BY <1>1 DEF Ready, files
    <2>. QED BY <1>1, <1>2, <1>3, <2>1 DEF Inv, RunChecked
<1>. QED BY <1>1, <1>3, <1>4, <1>5, ReadingSteps

------------------------------------------------------------------------------
(* The steps that write and deploy. *)

LEMMA ArgumentsPassed ==
    ASSUME Inv, run.at \in {"deploy", "receipt", "print"}
    PROVE  InitArgs # None /\ Passed(InitArgs.keys)
<1>1. run # NoRun /\ IsRun(run)
    BY Running DEF Inv
<1>2. GatesOf(run.keys) /\ Len(run.keys) = Len(Circuits)
    BY <1>1 DEF Inv, RunGated
<1>3. InitArgs.keys = run.keys
    BY DEF InitArgs
<1>4. DOMAIN Circuits = 1 .. Len(Circuits)
    BY DeploymentAssumption
<1>5. InitArgs # None
    BY DEF InitArgs, None
<1>. QED BY <1>2, <1>3, <1>4, <1>5 DEF GatesOf, Passed

(* The arguments stay those of the run as it goes on. *)
LEMMA GoesOn ==
    ASSUME Inv, run.at \in {"deploy", "receipt", "print"}, NEW at \in {"receipt", "print"}, Goes(at),
           UNCHANGED <<opt, changes>>
    PROVE  /\ RunTyped' /\ RunGated' /\ RunChecked'
           /\ run'.at = at /\ run'.opts = run.opts /\ InitArgs' = InitArgs
<1>1. run # NoRun /\ IsRun(run) /\ run' = [run EXCEPT !.at = at]
    BY Running DEF Inv, Goes
<1>2. IsRun(run') /\ run'.at = at /\ run'.opts = run.opts /\ run'.keys = run.keys
    <2>1. at \in {"config", "keys", "deploy", "receipt", "print"}
        OBVIOUS
    <2>. QED BY <1>1, <2>1, EditRun, Zenon
<1>3. RunGated'
    BY <1>1, <1>2 DEF Inv, RunGated
<1>4. RunChecked'
    <2>1. Ready' = Ready
        BY DEF Ready
    <2>. QED BY <1>1, <1>2, <2>1 DEF Inv, RunChecked
<1>5. InitArgs' = InitArgs
    BY <1>2 DEF InitArgs
<1>. QED BY <1>2, <1>3, <1>4, <1>5 DEF RunTyped

LEMMA DeployToSandboxKeepsInv == Inv /\ DeployToSandbox => Inv'
<1>. SUFFICES ASSUME Inv, DeployToSandbox PROVE Inv'
    OBVIOUS
<1>. DEFINE what == [wasm |-> Wasm(run.opts.wasm), args |-> InitArgs]
<1>1. /\ run.at = "deploy"
      /\ deployed' = [deployed EXCEPT !["sandbox"] = {what}]
      /\ Goes("receipt")
      /\ UNCHANGED <<files, args, printed, unshown, changes>>
    BY DEF DeployToSandbox
<1>2. what.args = InitArgs /\ Passed(InitArgs.keys)
    BY <1>1, ArgumentsPassed
<1>. HIDE DEF what
<1>3. Of(deployed, Networks)
    BY DEF Inv, Types
<1>4. /\ Of(deployed', Networks)
      /\ deployed'["sandbox"] = {what}
      /\ \A n \in Production : n \in Networks /\ deployed'[n] = deployed[n]
      /\ Networks = Production \cup {"sandbox"}
    BY <1>1, <1>3 DEF Of, Networks, Production
<1>5. RunTyped' /\ RunGated' /\ RunChecked' /\ run'.at = "receipt"
    BY <1>1, GoesOn DEF files
<1>6. Types'
    BY <1>1, <1>4, <1>5 DEF Inv, Types, files
<1>7. OutGated'
    BY <1>1, <1>2, <1>4 DEF Inv, OutGated
<1>8. Summarised' /\ RunWritten'
    BY <1>1, <1>4, <1>5 DEF Inv, Summarised, DeployedAsSummarised, RunWritten
<1>9. NoCommandUnready'
    BY <1>1, CommandsKept DEF files
<1>. QED BY <1>5, <1>6, <1>7, <1>8, <1>9 DEF Inv

LEMMA WriteReceiptKeepsInv == Inv /\ WriteReceipt => Inv'
<1>. SUFFICES ASSUME Inv, WriteReceipt PROVE Inv'
    OBVIOUS
<1>1. run' = NoRun /\ UNCHANGED <<files, args, printed, unshown, deployed, changes>>
    BY DEF WriteReceipt
<1>2. Types'
    BY <1>1 DEF Inv, Types, RunTyped, files
<1>. QED BY <1>1, <1>2, NoRunIsFine, OutKept, CommandsKept DEF Inv, files

LEMMA EmitKeepsInv == Inv /\ EmitDeployCommand => Inv'
<1>. SUFFICES ASSUME Inv, EmitDeployCommand PROVE Inv'
    OBVIOUS
<1>. DEFINE net == run.opts.network
<1>1. /\ run.at = "deploy" /\ net \in Production
      /\ args' = [args EXCEPT ![net] = InitArgs]
      /\ unshown' = unshown \cup {net}
      /\ Goes("print")
      /\ UNCHANGED <<files, printed, deployed, changes>>
    BY DEF EmitDeployCommand
<1>2. InitArgs # None /\ Passed(InitArgs.keys)
    BY <1>1, ArgumentsPassed
<1>3. /\ RunTyped' /\ RunGated' /\ RunChecked'
      /\ run'.at = "print" /\ run'.opts = run.opts /\ InitArgs' = InitArgs
    BY <1>1, GoesOn DEF files
<1>4. /\ Of(args', Production) /\ args'[net] = InitArgs
      /\ \A n \in Production : n # net => args'[n] = args[n]
    <2>1. Of(args, Production)
        BY DEF Inv, Types
    <2>. HIDE DEF net
    <2>. QED BY <1>1, <2>1 DEF Of
<1>5. RunWritten'
    BY <1>1, <1>3, <1>4 DEF RunWritten
<1>. HIDE DEF net
<1>6. Types'
    BY <1>1, <1>3, <1>4 DEF Inv, Types, files
<1>7. OutGated'
    <2>1. ASSUME NEW n \in Production, args'[n] # None PROVE Passed(args'[n].keys)
        BY <1>2, <1>4, <2>1 DEF Inv, OutGated
    <2>2. \A n \in Networks : \A d \in deployed'[n] : Passed(d.args.keys)
        BY <1>1 DEF Inv, OutGated
    <2>. QED BY <2>1, <2>2 DEF OutGated
<1>8. Summarised'
    <2>1. ASSUME NEW n \in Production, printed'[n] # None
          PROVE  args'[n] # None /\ (n \notin unshown' => args'[n] = printed'[n].args)
        BY <1>1, <1>2, <1>4, <2>1 DEF Inv, Summarised
    <2>2. DeployedAsSummarised'
        BY <1>1 DEF Inv, Summarised, DeployedAsSummarised
    <2>. QED BY <2>1, <2>2 DEF Summarised
<1>9. NoCommandUnready'
    BY <1>1, CommandsKept DEF files
<1>. QED BY <1>3, <1>5, <1>6, <1>7, <1>8, <1>9 DEF Inv

LEMMA PrintKeepsInv == Inv /\ PrintCommand => Inv'
<1>. SUFFICES ASSUME Inv, PrintCommand PROVE Inv'
    OBVIOUS
<1>. DEFINE net == run.opts.network
<1>1. /\ run.at = "print"
      /\ printed' = [printed EXCEPT ![net] = Summary]
      /\ unshown' = unshown \ {net}
      /\ run' = NoRun
      /\ UNCHANGED <<files, args, deployed, changes>>
    BY DEF PrintCommand
<1>2. net \in Production /\ args[net] = InitArgs /\ InitArgs # None /\ Summary.args = InitArgs
    BY <1>1, ArgumentsPassed DEF Inv, RunWritten, Summary
<1>3. changes = 0 => Ready
    <2>1. run # NoRun
        BY <1>1, Running DEF Inv
    <2>2. ~ run.opts.skipReadiness
        BY <1>2, <2>1 DEF Inv, RunChecked, Production
    <2>. QED BY <1>1, <2>2 DEF Inv, RunChecked
<1>4. Of(printed, Production)
    BY DEF Inv, Types
<1>. HIDE DEF net
<1>5. /\ Of(printed', Production) /\ printed'[net] = Summary
      /\ \A n \in Production : n # net => printed'[n] = printed[n]
    BY <1>1, <1>2, <1>4 DEF Of
<1>6. Types'
    BY <1>1, <1>5 DEF Inv, Types, RunTyped, files
<1>7. OutGated'
    BY <1>1 DEF Inv, OutGated
<1>8. Summarised'
    <2>1. ASSUME NEW n \in Production, printed'[n] # None
          PROVE  args'[n] # None /\ (n \notin unshown' => args'[n] = printed'[n].args)
        <3>1. CASE n = net
            BY <1>1, <1>2, <1>5, <3>1
        <3>2. CASE n # net
            BY <1>1, <1>5, <2>1, <3>2 DEF Inv, Summarised
        <3>. QED BY <3>1, <3>2
    <2>2. DeployedAsSummarised'
        BY <1>1 DEF Inv, Summarised, DeployedAsSummarised
    <2>. QED BY <2>1, <2>2 DEF Summarised
<1>9. NoCommandUnready'
    <2>1. Ready' = Ready
        BY <1>1 DEF Ready, files
    <2>. QED BY <1>1, <1>3, <2>1 DEF NoCommandUnready
<1>. QED BY <1>1, <1>6, <1>7, <1>8, <1>9, NoRunIsFine DEF Inv

LEMMA BroadcastKeepsInv ==
    ASSUME Inv, NEW n \in Production, Broadcast(n)
    PROVE  Inv'
<1>. DEFINE what == [wasm |-> opt.verifier, args |-> args[n], summary |-> printed[n],
                     shown |-> n \notin unshown]
<1>1. /\ printed[n] # None
      /\ deployed' = [deployed EXCEPT ![n] = @ \cup {what}]
      /\ UNCHANGED <<files, args, printed, unshown, run, changes>>
    BY DEF Broadcast
<1>2. what.args = args[n] /\ what.summary = printed[n] /\ (what.shown => n \notin unshown)
    OBVIOUS
<1>. HIDE DEF what
<1>3. Of(deployed, Networks) /\ n \in Networks
    BY DEF Inv, Types, Production, Networks
<1>4. /\ Of(deployed', Networks)
      /\ \A m \in Networks : \A d \in deployed'[m] : d \in deployed[m] \/ (m = n /\ d = what)
    <2>1. Of(deployed', Networks)
        BY <1>1, <1>3 DEF Of
    <2>2. deployed'[n] = deployed[n] \cup {what}
        BY <1>1, <1>3 DEF Of
    <2>3. \A m \in Networks : m # n => deployed'[m] = deployed[m]
        BY <1>1, <1>3 DEF Of
    <2>. QED BY <2>1, <2>2, <2>3
<1>5. Types'
    BY <1>1, <1>4 DEF Inv, Types, RunTyped, files
<1>6. RunGated' /\ RunWritten'
    BY <1>1 DEF Inv, RunGated, RunWritten, InitArgs
<1>7. RunChecked'
    BY <1>1 DEF Inv, RunChecked, Ready, files
<1>8. args[n] # None /\ (n \notin unshown => args[n] = printed[n].args)
    BY <1>1 DEF Inv, Summarised
<1>9. OutGated'
    <2>1. Passed(what.args.keys)
        BY <1>2, <1>8 DEF Inv, OutGated
    <2>2. ASSUME NEW m \in Networks, NEW d \in deployed'[m] PROVE Passed(d.args.keys)
        BY <1>4, <2>1, <2>2 DEF Inv, OutGated
    <2>3. \A m \in Production : args'[m] # None => Passed(args'[m].keys)
        BY <1>1 DEF Inv, OutGated
    <2>. QED BY <2>2, <2>3 DEF OutGated
<1>10. Summarised'
    <2>1. ASSUME NEW m \in Production, NEW d \in deployed'[m], d.shown
          PROVE  d.args = d.summary.args
        <3>1. m \in Networks
            BY DEF Production, Networks
        <3>. QED BY <1>2, <1>4, <1>8, <2>1, <3>1 DEF Inv, Summarised, DeployedAsSummarised
    <2>2. DeployedAsSummarised'
        BY <2>1 DEF DeployedAsSummarised
    <2>. QED BY <1>1, <2>2 DEF Inv, Summarised
<1>11. NoCommandUnready'
    BY <1>1, CommandsKept DEF files
<1>. QED BY <1>5, <1>6, <1>7, <1>9, <1>10, <1>11 DEF Inv

LEMMA PutKeyKeepsInv ==
    ASSUME Inv, NEW c \in Range(Circuits), NEW place \in {"nested", "flat"},
           NEW key \in Keys \cup {None}, PutKey(c, place, key)
    PROVE  Inv'
<1>1. Changes /\ vkJson' = [vkJson EXCEPT ![c][place] = key] /\ UNCHANGED <<out, run>>
    BY DEF PutKey
<1>2. vkJson' \in VkFiles
    <2>1. vkJson \in VkFiles
        BY DEF Inv, Types
    <2>2. vkJson[c] \in [nested : Keys \cup {None}, flat : Keys \cup {None}]
        BY <2>1 DEF VkFiles
    <2>3. [vkJson[c] EXCEPT ![place] = key] \in [nested : Keys \cup {None}, flat : Keys \cup {None}]
        BY <2>2
    <2>. QED BY <1>1, <2>1, <2>3 DEF VkFiles
<1>. QED BY <1>1, <1>2, FilesChange

------------------------------------------------------------------------------
(* Theorems. *)

LEMMA InvNext == Inv /\ [Next]_vars => Inv'
<1>. SUFFICES ASSUME Inv, [Next]_vars PROVE Inv'
    OBVIOUS
<1>1. CASE Step
    BY <1>1, StartKeepsInv, RunReadinessCheckKeepsInv, CheckConfigKeepsInv, ReadKeyKeepsInv,
       HashWasmKeepsInv, DeployToSandboxKeepsInv, WriteReceiptKeepsInv, EmitKeepsInv, PrintKeepsInv,
       EndKeepsInv DEF Step
<1>2. CASE \E n \in Production : Broadcast(n)
    BY <1>2, BroadcastKeepsInv
<1>3. CASE \E verifier \in Verifiers : Build(verifier)
    <2>1. Changes /\ UNCHANGED <<vkJson, out, run>>
        BY <1>3 DEF Build
    <2>. QED BY <2>1, FilesChange DEF Inv, Types
<1>4. CASE \E deployable \in BOOLEAN : Optimise(deployable)
    <2>1. Changes /\ UNCHANGED <<vkJson, out, run>>
        BY <1>4 DEF Optimise
    <2>. QED BY <2>1, FilesChange DEF Inv, Types
<1>5. CASE \E c \in Range(Circuits), place \in {"nested", "flat"}, key \in Keys \cup {None} :
              PutKey(c, place, key)
    BY <1>5, PutKeyKeepsInv
<1>6. CASE UNCHANGED vars
    <2>1. UNCHANGED <<files, args, printed, unshown, deployed, run, changes>>
        BY <1>6 DEF vars, out
    <2>2. Types' /\ RunGated' /\ RunWritten' /\ RunChecked'
        BY <2>1 DEF Inv, Types, RunTyped, RunGated, RunWritten, InitArgs, RunChecked, Ready, files
    <2>. QED BY <2>1, <2>2, OutKept, CommandsKept DEF Inv, files
<1>. QED BY <1>1, <1>2, <1>3, <1>4, <1>5, <1>6 DEF Next

LEMMA Invariance == Spec => []Inv
BY InvInit, InvNext, PTL DEF Spec

(* What the gates of gates.ts refuse reaches neither a file of arguments   *)
(* nor a deployed contract, whatever is exported or copied between any two *)
(* steps of a run. *)
THEOREM OnlyPassedKeys == Spec => []KeysPassedGates
<1>1. Inv => KeysPassedGates
    BY DEF Inv, OutGated, Passed, KeysPassedGates
<1>. QED BY <1>1, Invariance, PTL

(* The printed command deploys the arguments of its summary, whatever the  *)
(* runs for the other networks wrote meanwhile (emit.ts), and those for    *)
(* its own that came to print a summary. *)
THEOREM CommandsDeployTheirSummary == Spec => []DeployedAsSummarised
<1>1. Inv => DeployedAsSummarised
    BY DEF Inv, Summarised
<1>. QED BY <1>1, Invariance, PTL

(* No command line, however long and in whatever order, gets a production  *)
(* command past the readiness check (deploy.ts, parseArgs). *)
THEOREM CommandsAreReady == Spec => []NoCommandUnready
<1>1. Inv => NoCommandUnready
    BY DEF Inv
<1>. QED BY <1>1, Invariance, PTL
================================================================================

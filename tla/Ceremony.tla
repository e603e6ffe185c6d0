------------------------------- MODULE Ceremony -------------------------------
(***************************************************************************)
(* The trusted-setup ceremony: its scripts (ceremony/scripts), the files   *)
(* in ceremony/out, and the transcript manifest.mjs keeps of them.         *)
(*                                                                         *)
(* A script is a process that writes a file, then runs manifest.mjs, which *)
(* reads the whole manifest, edits it and writes it back, and then exits.  *)
(* It may be killed between any two of these steps, and while it writes a  *)
(* file, which is then there and broken.                                   *)
(*                                                                         *)
(* A key is the sequence of what went into it, each part with the number   *)
(* of its attempt, for the fresh entropy an attempt has; a file's hash is  *)
(* its content.  Keys in the output directory belong to its phase 1 and    *)
(* circuits: snarkjs' zkey verify accepts them all.                        *)
(***************************************************************************)
EXTENDS Naturals, FiniteSets, SequencesExt

CONSTANTS
    Circuits,
    Names,          \* the contributors, in their order
    Beacons,
    Rejected,       \* beacons that snarkjs takes for none
    Scripts,        \* processes: how many scripts may run at a time
    MaxTries,       \* bound: attempts at one file, from 0
    MaxRepeats,     \* bound: circuits with a script run again after it succeeded
    MaxCrashes      \* bound: scripts killed

NoBeacon == "none"

ASSUME CeremonyAssumption ==
    /\ IsFiniteSet(Circuits) /\ IsFiniteSet(Scripts)
    /\ "torn" \notin Circuits
    /\ NoBeacon \notin Beacons \cup Rejected
    /\ Names \in Seq(Range(Names))
    /\ {MaxTries, MaxRepeats, MaxCrashes} \subseteq Nat

VARIABLES
    zkeys,      \* of every circuit: 0 .. Final, the contributions and the final key
    vkJson,     \* <c>_vk.json: the key it was exported from
    vkBin,      \* <c>/vk.bin
    manifest,   \* manifest.json: of every circuit its entry
    done,       \* of every circuit: the steps the coordinator saw succeed
    scripts,
    repeated,   \* the circuits with a script run again after it succeeded
    cut,        \* those with a script killed between its record and its exit
    crashes

files == <<zkeys, vkJson, vkBin>>
vars == <<zkeys, vkJson, vkBin, manifest, done, scripts, repeated, cut, crashes>>

Final == Len(Names) + 1

(* The steps of a circuit: set up, contribute 1 .. Len(Names), beacon,     *)
(* finalize. *)
BeaconStep == Len(Names) + 2
LastStep == Len(Names) + 3

Part(who, try) == [who |-> who, try |-> try]
Absent == <<Part("absent", 0)>>

(* The number the next attempt at a file has. *)
Attempt(file) == IF file = Absent THEN 0 ELSE file[Len(file)].try + 1

(* What is left of a file whose writer was killed, and a file that snarkjs *)
(* can read. *)
Broken(file) == <<Part("broken", Attempt(file))>>
Usable(file) == file # Absent /\ (file # <<>> => file[1].who # "broken")

(* A circuit's entry before its first edit. *)
EmptyEntry ==
    [contributions |-> <<>>, beacon |-> NoBeacon,
     final |-> [zkey |-> Absent, vkJson |-> Absent, vkBin |-> Absent]]

NoManifest == [c \in {} |-> EmptyEntry]

(* A manifest.json that is empty or breaks off: JSON.parse throws. *)
Torn == [c \in {"torn"} |-> EmptyEntry]

Idle == [at |-> "idle", circuit |-> "none", step |-> 0, beacon |-> NoBeacon,
         edited |-> NoManifest]

Busy(c) == \E s \in Scripts : scripts[s].at # "idle" /\ scripts[s].circuit = c

Init ==
    /\ zkeys = [c \in Circuits |-> [k \in 0 .. Final |-> Absent]]
    /\ vkJson = [c \in Circuits |-> Absent]
    /\ vkBin = [c \in Circuits |-> Absent]
    /\ manifest = NoManifest
    /\ done = [c \in Circuits |-> 0]
    /\ scripts = [s \in Scripts |-> Idle]
    /\ repeated = {} /\ cut = {}
    /\ crashes = 0

(* manifest.mjs init: not over a manifest that has contributions, or that  *)
(* it cannot parse. *)
InitManifest ==
    /\ manifest = NoManifest
    /\ manifest' = [c \in Circuits |-> EmptyEntry]
    /\ UNCHANGED <<files, done, scripts, repeated, cut, crashes>>

(* The coordinator takes a circuit's steps in the runbook's order, one     *)
(* script of a circuit at a time, or one again that had succeeded. *)
Takes(s, c, step) ==
    /\ scripts[s].at = "idle" /\ ~Busy(c)
    /\ manifest # NoManifest
    /\ \/ done[c] = step - 1 /\ UNCHANGED repeated
       \/ /\ done[c] >= step
          /\ c \notin repeated /\ Cardinality(repeated) < MaxRepeats
          /\ repeated' = repeated \cup {c}

(* init-phase2.sh: not over a file that is there. *)
InitPhase2(s, c) ==
    /\ Takes(s, c, 1)
    /\ zkeys[c][0] = Absent
    /\ zkeys' = [zkeys EXCEPT ![c][0] = <<>>]
    /\ done' = [done EXCEPT ![c] = 1]
    /\ UNCHANGED <<vkJson, vkBin, manifest, scripts, cut, crashes>>

(* "delete it to re-init" (init-phase2.sh), when it never succeeded. *)
DeleteFirst(c) ==
    /\ done[c] = 0 /\ zkeys[c][0] # Absent
    /\ zkeys' = [zkeys EXCEPT ![c][0] = Absent]
    /\ UNCHANGED <<vkJson, vkBin, manifest, done, scripts, repeated, cut, crashes>>

Runs(s, c, step, beacon, at) ==
    scripts' = [scripts EXCEPT ![s] =
        [Idle EXCEPT !.at = at, !.circuit = c, !.step = step, !.beacon = beacon]]

\* Fault: every contribution is made to the first key.
ContributeToFirst(s, c, k) ==
    /\ Takes(s, c, k + 1)
    /\ Usable(zkeys[c][k - 1])
    /\ Attempt(zkeys[c][k]) <= MaxTries
    /\ zkeys' = [zkeys EXCEPT ![c][k] =
                    Append(zkeys[c][0], Part(Names[k], Attempt(zkeys[c][k])))]
    /\ Runs(s, c, k + 1, NoBeacon, "manifest")
    /\ UNCHANGED <<vkJson, vkBin, manifest, done, cut, crashes>>

\* Fault: an output that is there already is not written over.
ContributeOnce(s, c, k) ==
    /\ Takes(s, c, k + 1)
    /\ Usable(zkeys[c][k - 1]) /\ zkeys[c][k] = Absent
    /\ zkeys' = [zkeys EXCEPT ![c][k] = Append(zkeys[c][k - 1], Part(Names[k], 0))]
    /\ Runs(s, c, k + 1, NoBeacon, "manifest")
    /\ UNCHANGED <<vkJson, vkBin, manifest, done, cut, crashes>>

(* contribute.sh, the k-th: snarkjs writes the next key. *)
Contribute(s, c, k) ==
    /\ Takes(s, c, k + 1)
    /\ Usable(zkeys[c][k - 1])
    /\ Attempt(zkeys[c][k]) <= MaxTries
    /\ zkeys' = [zkeys EXCEPT ![c][k] =
                    Append(zkeys[c][k - 1], Part(Names[k], Attempt(zkeys[c][k])))]
    /\ Runs(s, c, k + 1, NoBeacon, "manifest")
    /\ UNCHANGED <<vkJson, vkBin, manifest, done, cut, crashes>>

(* beacon.sh: snarkjs writes the final key. *)
Beacon(s, c, b) ==
    /\ Takes(s, c, BeaconStep)
    /\ Usable(zkeys[c][Final - 1])
    /\ zkeys' = [zkeys EXCEPT ![c][Final] = Append(zkeys[c][Final - 1], Part(b, 0))]
    /\ Runs(s, c, BeaconStep, b, "manifest")
    /\ UNCHANGED <<vkJson, vkBin, manifest, done, cut, crashes>>

(* beacon.sh, given a beacon that snarkjs rejects: snarkjs exits 0 without *)
(* writing, and the script goes on if a key of an attempt before is there. *)
RejectedBeacon(s, c, b) ==
    /\ Takes(s, c, BeaconStep)
    /\ zkeys[c][Final - 1] # Absent /\ zkeys[c][Final] # Absent
    /\ Runs(s, c, BeaconStep, b, "manifest")
    /\ UNCHANGED <<files, manifest, done, cut, crashes>>

(* finalize.sh: the chain is verified, the key exported to JSON, then to   *)
(* binary. *)
ExportJson(s, c) ==
    /\ Takes(s, c, LastStep)
    /\ Usable(zkeys[c][Final])
    /\ vkJson' = [vkJson EXCEPT ![c] = zkeys[c][Final]]
    /\ Runs(s, c, LastStep, NoBeacon, "vkBin")
    /\ UNCHANGED <<zkeys, vkBin, manifest, done, cut, crashes>>

ExportBin(s) ==
    LET c == scripts[s].circuit IN
    /\ scripts[s].at = "vkBin"
    /\ vkBin' = [vkBin EXCEPT ![c] = vkJson[c]]
    /\ scripts' = [scripts EXCEPT ![s].at = "manifest"]
    /\ UNCHANGED <<zkeys, vkJson, manifest, done, repeated, cut, crashes>>

------------------------------------------------------------------------------
(* manifest.mjs *)

Contribution(c, k) == [name |-> Names[k], zkey |-> zkeys[c][k]]

AddContribution(entry, c, k) ==
    [entry EXCEPT !.contributions = Append(@, Contribution(c, k))]

\* Fault: the key before the beacon is recorded.
FinalizeBeforeBeacon(entry, c) ==
    [entry EXCEPT !.final = [zkey |-> zkeys[c][Final - 1], vkJson |-> vkJson[c], vkBin |-> vkBin[c]]]

FinalizeCircuit(entry, c) ==
    [entry EXCEPT !.final = [zkey |-> zkeys[c][Final], vkJson |-> vkJson[c], vkBin |-> vkBin[c]]]

(* The command a script runs, on the entry of its circuit. *)
Edit(entry, c, step, beacon) ==
    CASE step = LastStep   -> FinalizeCircuit(entry, c)
      [] step = BeaconStep -> [entry EXCEPT !.beacon = beacon]
      [] OTHER             -> AddContribution(entry, c, step - 1)

HasName(c, name) ==
    \E k \in DOMAIN manifest[c].contributions : manifest[c].contributions[k].name = name

\* Fault: a beacon is set over another.
RefusedName(c, step) ==
    manifest \notin {NoManifest, Torn} => step < BeaconStep /\ HasName(c, Names[step - 1])

(* A name recorded before or a beacon set before, if there is a manifest   *)
(* that can be read at all. *)
Refused(c, step) ==
    manifest \notin {NoManifest, Torn} =>
        \/ step < BeaconStep /\ HasName(c, Names[step - 1])
        \/ step = BeaconStep /\ manifest[c].beacon # NoBeacon

ReadManifest(s) ==
    LET c == scripts[s].circuit
        step == scripts[s].step
    IN
    /\ scripts[s].at = "manifest"
    /\ ~Refused(c, step)
    /\ scripts' = [scripts EXCEPT ![s].at = "writing",
                     ![s].edited = [manifest EXCEPT ![c] = Edit(@, c, step, scripts[s].beacon)]]
    /\ UNCHANGED <<files, manifest, done, repeated, cut, crashes>>

(* manifest.mjs throws, and the script ends with an error. *)
Refuse(s) ==
    /\ scripts[s].at = "manifest"
    /\ Refused(scripts[s].circuit, scripts[s].step)
    /\ scripts' = [scripts EXCEPT ![s] = Idle]
    /\ UNCHANGED <<files, manifest, done, repeated, cut, crashes>>

WriteManifest(s) ==
    /\ scripts[s].at = "writing"
    /\ manifest' = scripts[s].edited
    /\ scripts' = [scripts EXCEPT ![s].at = "written"]
    /\ UNCHANGED <<files, done, repeated, cut, crashes>>

(* The manifest command was the script's last: it exits, and the           *)
(* coordinator sees that it succeeded. *)
Succeed(s) ==
    LET c == scripts[s].circuit
        step == scripts[s].step
    IN
    /\ scripts[s].at = "written"
    /\ done' = [done EXCEPT ![c] = IF step > @ THEN step ELSE @]
    /\ scripts' = [scripts EXCEPT ![s] = Idle]
    /\ UNCHANGED <<files, manifest, repeated, cut, crashes>>

(* A script is killed.  When a contribution or a beacon is recorded, the   *)
(* coordinator runs the script again, which makes another key before       *)
(* manifest.mjs refuses it, "remove it from the manifest to re-record". *)
Crash(s) ==
    /\ scripts[s].at # "idle"
    /\ crashes < MaxCrashes
    /\ crashes' = crashes + 1
    /\ cut' = IF scripts[s].at = "written" /\ scripts[s].step < LastStep
              THEN cut \cup {scripts[s].circuit} ELSE cut
    /\ scripts' = [scripts EXCEPT ![s] = Idle]
    /\ UNCHANGED <<files, manifest, done, repeated>>

(* A script is killed while it writes a file.  The manifest is truncated   *)
(* before it is written. *)
Break(s) ==
    /\ crashes < MaxCrashes
    /\ crashes' = crashes + 1
    /\ UNCHANGED <<done, cut>>
    /\ \/ \E c \in Circuits, k \in 0 .. Final :
             /\ Takes(s, c, k + 1)
             /\ IF k = 0 THEN zkeys[c][0] = Absent ELSE Usable(zkeys[c][k - 1])
             /\ zkeys' = [zkeys EXCEPT ![c][k] = Broken(@)]
             /\ UNCHANGED <<vkJson, vkBin, manifest, scripts>>
       \/ \E c \in Circuits :
             /\ Takes(s, c, LastStep)
             /\ Usable(zkeys[c][Final])
             /\ vkJson' = [vkJson EXCEPT ![c] = Broken(Absent)]
             /\ UNCHANGED <<zkeys, vkBin, manifest, scripts>>
       \/ /\ scripts[s].at = "vkBin"
          /\ vkBin' = [vkBin EXCEPT ![scripts[s].circuit] = Broken(Absent)]
          /\ scripts' = [scripts EXCEPT ![s] = Idle]
          /\ UNCHANGED <<zkeys, vkJson, manifest, repeated>>
       \/ /\ manifest = NoManifest \/ scripts[s].at = "writing"
          /\ manifest' = Torn
          /\ scripts' = [scripts EXCEPT ![s] = Idle]
          /\ UNCHANGED <<files, repeated>>

(* A script of a circuit is begun as it should be. *)
Start(s, c) ==
    \/ InitPhase2(s, c)
    \/ \E k \in DOMAIN Names : Contribute(s, c, k)
    \/ \E b \in Beacons : Beacon(s, c, b)
    \/ ExportJson(s, c)

Proceed(s) ==
    ExportBin(s) \/ ReadManifest(s) \/ WriteManifest(s) \/ Succeed(s) \/ Refuse(s)

WorkOn(c) ==
    \/ DeleteFirst(c)
    \/ \E s \in Scripts : Start(s, c) \/ (scripts[s].circuit = c /\ Proceed(s))

Mishap(s) ==
    \/ Crash(s) \/ Break(s)
    \/ \E c \in Circuits, b \in Rejected : RejectedBeacon(s, c, b)

Next ==
    \/ InitManifest
    \/ \E c \in Circuits : WorkOn(c)
    \/ \E s \in Scripts : Mishap(s)

Spec == Init /\ [][Next]_vars

(* The coordinator goes on with every circuit until it is done, repeating  *)
(* what failed; a circuit that cannot be finished does not hold up others. *)
FairSpec == Spec /\ WF_vars(InitManifest) /\ \A c \in Circuits : SF_vars(WorkOn(c))

------------------------------------------------------------------------------
(* verify-ceremony.sh of a circuit, with check-circuit. *)
Verifies(c) ==
    /\ manifest \notin {NoManifest, Torn}
    /\ Usable(zkeys[c][Final])
    /\ manifest[c].final.vkBin = vkBin[c]

(* The transcript tells how the final key came about: its contributions    *)
(* are the key's, each over the one before, then the beacon, and the       *)
(* hashes are those of the files that are there. *)
Tells(c) ==
    LET entry == manifest[c]
        key == entry.final.zkey
        n == Len(entry.contributions)
    IN
    /\ key = zkeys[c][Final] /\ entry.final.vkJson = vkJson[c] /\ vkJson[c] = key
    /\ Len(key) = n + 1
    /\ key[n + 1].who = entry.beacon
    /\ \A k \in 1 .. n :
          /\ entry.contributions[k].zkey = SubSeq(key, 1, k)
          /\ key[k].who = entry.contributions[k].name

------------------------------------------------------------------------------
(* Properties. *)

TypeOK ==
    /\ manifest \in {NoManifest, Torn} \/ DOMAIN manifest = Circuits
    /\ \A c \in Circuits :
          /\ done[c] \in 0 .. LastStep
          /\ \A k \in 1 .. Final : Usable(zkeys[c][k]) => Len(zkeys[c][k]) = k
    /\ \A s \in Scripts :
          scripts[s].at \in {"idle", "vkBin", "manifest", "writing", "written"}

(* A circuit whose last script has succeeded passes verify-ceremony, and   *)
(* its transcript tells the truth, wherever scripts were killed and run    *)
(* again on the way; unless one of its own was run again that had          *)
(* succeeded, or the manifest was lost (manifest.mjs).  With a beacon that *)
(* snarkjs rejected it tells of no key. *)
FinishedIsTold ==
    \A c \in Circuits :
        done[c] = LastStep /\ c \notin repeated /\ manifest # Torn =>
            Verifies(c) /\ (manifest[c].beacon \notin Rejected => Tells(c))

(* No script makes the transcript forget: contributions are only added and *)
(* a beacon once set stays ("Guard against silent beacon overwrite",       *)
(* manifest.mjs), also when scripts are run again that had succeeded.  A   *)
(* manifest that breaks off is never taken for a new one. *)
NothingForgotten ==
    [][/\ manifest # Torn
       /\ manifest # NoManifest /\ manifest' # Torn => \A c \in Circuits :
             /\ IsPrefix(manifest[c].contributions, manifest'[c].contributions)
             /\ manifest[c].beacon \in {NoBeacon, manifest'[c].beacon}]_manifest

(* The circuit's beacon was rejected after a script left half a key. *)
RejectedOverBroken(c) ==
    /\ manifest \notin {NoManifest, Torn}
    /\ manifest[c].beacon \in Rejected /\ ~Usable(zkeys[c][Final])

(* Repeating killed scripts finishes each circuit: nobody has to edit the  *)
(* manifest, or delete a file but the one init-phase2.sh names, unless the *)
(* manifest was lost or a script of that circuit                           *)
(*   - was killed after manifest.mjs recorded its contribution or beacon   *)
(*     and before it exited, or was run again after it succeeded: the      *)
(*     record stands in the way ("remove it from the manifest to           *)
(*     re-record", manifest.mjs);                                          *)
(*   - recorded a rejected beacon for a broken key. *)
CeremonyCompletes ==
    \A c \in Circuits :
        <>(\/ done[c] = LastStep
           \/ c \in repeated \cup cut \/ manifest = Torn \/ RejectedOverBroken(c))
==============================================================================

---------------------------- MODULE CeremonyProofs ----------------------------
(***************************************************************************)
(* Theorems about Ceremony: for any circuits, contributors, beacons and    *)
(* attempts, and any number of killed and repeated scripts.                *)
(***************************************************************************)
EXTENDS Ceremony, SequenceTheorems, TLAPS

------------------------------------------------------------------------------
(* Types. *)

Whos == Range(Names) \cup Beacons \cup {"absent", "broken"}

Parts == [who : Whos, try : Nat]

Contributions == [name : Range(Names), zkey : Seq(Parts)]

IsEntry(e) ==
    /\ e = [contributions |-> e.contributions, beacon |-> e.beacon, final |-> e.final]
    /\ e.contributions \in Seq(Contributions)

Of(f, S) == f = [x \in S |-> f[x]]

IsManifest(m) ==
    \/ m \in {NoManifest, Torn}
    \/ Of(m, Circuits) /\ \A c \in Circuits : IsEntry(m[c])

Script(at, circuit, step, beacon, edited) ==
    [at |-> at, circuit |-> circuit, step |-> step, beacon |-> beacon, edited |-> edited]

ScriptFits(r) ==
    /\ r = Script(r.at, r.circuit, r.step, r.beacon, r.edited)
    /\ r.at \in {"idle", "vkBin", "manifest", "writing", "written"}
    /\ r.at # "idle" => r.circuit \in Circuits /\ r.step \in 2 .. LastStep
    /\ IsManifest(r.edited)

(* The k-th key of a circuit, if snarkjs can read it, has k parts. *)
KeyFits(file, k) == file \in Seq(Parts) /\ (Usable(file) => Len(file) = k)

KeysFit ==
    /\ Of(zkeys, Circuits)
    /\ \A c \in Circuits : Of(zkeys[c], 0 .. Final)
    /\ \A c \in Circuits : \A k \in 0 .. Final : KeyFits(zkeys[c][k], k)

Types ==
    /\ KeysFit
    /\ Of(vkJson, Circuits) /\ Of(vkBin, Circuits)
    /\ IsManifest(manifest)
    /\ done \in [Circuits -> 0 .. LastStep]
    /\ Of(scripts, Scripts) /\ \A s \in Scripts : ScriptFits(scripts[s])

LEMMA NamesAre ==
    /\ Len(Names) \in Nat /\ DOMAIN Names = 1 .. Len(Names)
    /\ \A k \in 1 .. Len(Names) : Names[k] \in Range(Names)
    /\ Final = Len(Names) + 1 /\ BeaconStep = Len(Names) + 2 /\ LastStep = Len(Names) + 3
<1>1. Names \in Seq(Range(Names))
    BY CeremonyAssumption
<1>. QED BY <1>1 DEF Final, BeaconStep, LastStep

LEMMA StepsAre ==
    /\ Final \in Nat /\ BeaconStep \in Nat /\ LastStep \in Nat
    /\ Final = Len(Names) + 1 /\ BeaconStep = Final + 1 /\ LastStep = Final + 2
    /\ Len(Names) \in Nat
BY NamesAre

LEMMA PartIs ==
    ASSUME NEW who \in Whos, NEW try \in Nat
    PROVE  Part(who, try) \in Parts /\ Part(who, try).who = who /\ Part(who, try).try = try
BY DEF Part, Parts

LEMMA AbsentIs ==
    Absent \in Seq(Parts) /\ Len(Absent) = 1 /\ Absent # <<>> /\ ~Usable(Absent)
<1>1. Part("absent", 0) \in Parts
    BY PartIs DEF Whos
<1>. QED BY <1>1 DEF Absent, Usable

LEMMA AbsentFits ==
    ASSUME NEW k PROVE KeyFits(Absent, k)
BY AbsentIs DEF KeyFits

LEMMA FirstKeyFits == KeyFits(<<>>, 0)
BY DEF KeyFits

(* A file after the first of a circuit has an attempt to count. *)
LEMMA AttemptIsNat ==
    ASSUME NEW k \in Nat, NEW file, KeyFits(file, k), k > 0 \/ file = Absent
    PROVE  Attempt(file) \in Nat
<1>1. CASE file = Absent
    BY <1>1 DEF Attempt
<1>2. CASE file # Absent /\ k > 0
    <2>1. file \in Seq(Parts) /\ file # <<>>
        BY <1>2 DEF KeyFits, Usable
    <2>2. file[Len(file)] \in Parts
        BY <2>1
    <2>. QED BY <1>2, <2>2 DEF Attempt, Parts
<1>. QED BY <1>1, <1>2

LEMMA BrokenIs ==
    ASSUME NEW file, Attempt(file) \in Nat
    PROVE  Broken(file) \in Seq(Parts) /\ ~Usable(Broken(file))
<1>. DEFINE p == Part("broken", Attempt(file))
<1>1. p \in Parts /\ p.who = "broken"
    BY PartIs DEF Whos
<1>. HIDE DEF p
<1>2. <<p>> \in Seq(Parts) /\ <<p>> # <<>> /\ <<p>>[1] = p
    BY <1>1
<1>. QED BY <1>1, <1>2 DEF Broken, Usable, p

LEMMA BrokenFits ==
    ASSUME NEW file, Attempt(file) \in Nat, NEW k
    PROVE  KeyFits(Broken(file), k)
BY BrokenIs DEF KeyFits

LEMMA NextKeyFits ==
    ASSUME NEW k \in Nat, NEW file, KeyFits(file, k), Usable(file), NEW p \in Parts
    PROVE  KeyFits(Append(file, p), k + 1)
BY DEF KeyFits

LEMMA NextKeyIs ==
    ASSUME NEW k \in Nat, NEW file \in Seq(Parts), Len(file) = k, NEW p \in Parts
    PROVE  /\ Append(file, p) \in Seq(Parts) /\ Len(Append(file, p)) = k + 1
           /\ Append(file, p)[k + 1] = p
           /\ \A j \in 1 .. k : Append(file, p)[j] = file[j]
OBVIOUS

------------------------------------------------------------------------------
(* What a step writes. *)

(* Two states of the keys that differ at one at most. *)
SameBut(before, after, c, k) ==
    \A d \in Circuits : \A i \in 0 .. Final : d # c \/ i # k => after[d][i] = before[d][i]

LEMMA KeyWritten ==
    ASSUME KeysFit, NEW c \in Circuits, NEW k \in 0 .. Final, NEW file, KeyFits(file, k),
           zkeys' = [zkeys EXCEPT ![c][k] = file]
    PROVE  /\ KeysFit'
           /\ zkeys'[c][k] = file
           /\ SameBut(zkeys, zkeys', c, k)
<1>. DEFINE row == [zkeys[c] EXCEPT ![k] = file]
<1>1. Of(zkeys, Circuits) /\ Of(zkeys[c], 0 .. Final)
    BY DEF KeysFit
<1>2. /\ Of(row, 0 .. Final) /\ row[k] = file
      /\ \A i \in 0 .. Final : i # k => row[i] = zkeys[c][i]
    BY <1>1 DEF Of
<1>. HIDE DEF row
<1>3. /\ Of(zkeys', Circuits) /\ zkeys'[c] = row
      /\ \A d \in Circuits : d # c => zkeys'[d] = zkeys[d]
    BY <1>1 DEF Of, row
<1>4. \A d \in Circuits : Of(zkeys'[d], 0 .. Final)
    BY <1>2, <1>3 DEF KeysFit
<1>5. \A d \in Circuits : \A i \in 0 .. Final : KeyFits(zkeys'[d][i], i)
    BY <1>2, <1>3 DEF KeysFit
<1>6. KeysFit'
    BY <1>3, <1>4, <1>5 DEF KeysFit
<1>. QED BY <1>2, <1>3, <1>6 DEF SameBut

LEMMA ScriptWritten ==
    ASSUME Of(scripts, Scripts), NEW s \in Scripts, NEW r, scripts' = [scripts EXCEPT ![s] = r]
    PROVE  /\ Of(scripts', Scripts) /\ scripts'[s] = r
           /\ \A t \in Scripts : t # s => scripts'[t] = scripts[t]
BY DEF Of

LEMMA ScriptIs ==
    ASSUME NEW at, NEW circuit, NEW step, NEW beacon, NEW edited
    PROVE  LET r == Script(at, circuit, step, beacon, edited) IN
           /\ r.at = at /\ r.circuit = circuit /\ r.step = step /\ r.beacon = beacon
           /\ r.edited = edited
BY DEF Script

LEMMA IdleFits == ScriptFits(Idle) /\ Idle.at = "idle"
BY DEF ScriptFits, Script, Idle, IsManifest

LEMMA RunsOne ==
    ASSUME Of(scripts, Scripts), NEW s \in Scripts, NEW c, NEW step, NEW beacon, NEW at,
           Runs(s, c, step, beacon, at)
    PROVE  scripts' = [scripts EXCEPT ![s] = Script(at, c, step, beacon, NoManifest)]
<1>. DEFINE r == [Idle EXCEPT !.at = at, !.circuit = c, !.step = step, !.beacon = beacon]
<1>1. DOMAIN Idle = {"at", "circuit", "step", "beacon", "edited"} /\ Idle.edited = NoManifest
    BY DEF Idle
<1>2. DOMAIN r = {"at", "circuit", "step", "beacon", "edited"}
    BY <1>1
<1>3. r.at = at /\ r.circuit = c /\ r.step = step /\ r.beacon = beacon /\ r.edited = NoManifest
    BY <1>1
<1>4. r = [x \in DOMAIN r |-> r[x]]
    OBVIOUS
<1>5. scripts' = [scripts EXCEPT ![s] = r]
    BY DEF Runs
<1>. HIDE DEF r
<1>6. r = Script(at, c, step, beacon, NoManifest)
    BY <1>2, <1>3, <1>4 DEF Script
<1>. QED BY <1>5, <1>6

LEMMA RunFits ==
    ASSUME NEW c \in Circuits, NEW step \in 2 .. LastStep, NEW beacon, NEW at \in {"manifest", "vkBin"}
    PROVE  ScriptFits(Script(at, c, step, beacon, NoManifest))
BY DEF ScriptFits, Script, IsManifest

------------------------------------------------------------------------------
(* Types are kept. *)

LEMMA TypesInit == Init => Types
<1>. SUFFICES ASSUME Init PROVE Types
    OBVIOUS
<1>1. Of(zkeys, Circuits) /\ Of(vkJson, Circuits) /\ Of(vkBin, Circuits) /\ Of(scripts, Scripts)
    BY DEF Init, Of
<1>2. \A c \in Circuits : zkeys[c] = [k \in 0 .. Final |-> Absent]
    BY DEF Init
<1>3. \A c \in Circuits : Of(zkeys[c], 0 .. Final) /\ \A k \in 0 .. Final : KeyFits(zkeys[c][k], k)
    BY <1>2, AbsentFits DEF Of
<1>4. \A s \in Scripts : ScriptFits(scripts[s])
    BY IdleFits DEF Init
<1>5. done \in [Circuits -> 0 .. LastStep] /\ IsManifest(manifest)
    BY StepsAre DEF Init, IsManifest
<1>. QED BY <1>1, <1>3, <1>4, <1>5 DEF Types, KeysFit

(* One script's state is replaced, files and transcript kept in shape. *)
LEMMA TypesKept ==
    ASSUME Types, KeysFit', Of(vkJson', Circuits), Of(vkBin', Circuits), IsManifest(manifest'),
           done' \in [Circuits -> 0 .. LastStep],
           \/ UNCHANGED scripts
           \/ \E s \in Scripts : \E r : scripts' = [scripts EXCEPT ![s] = r] /\ ScriptFits(r)
    PROVE  Types'
<1>1. Of(scripts', Scripts) /\ \A s \in Scripts : ScriptFits(scripts'[s])
    BY ScriptWritten DEF Types
<1>. QED BY <1>1 DEF Types

LEMMA SameKeysFit ==
    ASSUME Types, UNCHANGED zkeys
    PROVE  KeysFit'
BY DEF Types, KeysFit

LEMMA InitManifestKeepsTypes == Types /\ InitManifest => Types'
<1>. SUFFICES ASSUME Types, InitManifest PROVE Types'
    OBVIOUS
<1>1. manifest' = [c \in Circuits |-> EmptyEntry] /\ UNCHANGED <<files, done, scripts>>
    BY DEF InitManifest
<1>2. IsEntry(EmptyEntry)
    BY DEF IsEntry, EmptyEntry
<1>3. IsManifest(manifest')
    BY <1>1, <1>2 DEF IsManifest, Of
<1>. QED BY <1>1, <1>3, SameKeysFit, TypesKept DEF Types, files

LEMMA DoneFits ==
    ASSUME Types, NEW c \in Circuits, NEW step \in 0 .. LastStep,
           done' = [done EXCEPT ![c] = step]
    PROVE  done' \in [Circuits -> 0 .. LastStep]
BY DEF Types

LEMMA InitPhase2KeepsTypes ==
    ASSUME Types, NEW s \in Scripts, NEW c \in Circuits, InitPhase2(s, c)
    PROVE  Types'
<1>1. /\ zkeys' = [zkeys EXCEPT ![c][0] = <<>>] /\ done' = [done EXCEPT ![c] = 1]
      /\ UNCHANGED <<vkJson, vkBin, manifest, scripts>>
    BY DEF InitPhase2
<1>2. 0 \in 0 .. Final /\ 1 \in 0 .. LastStep
    BY StepsAre
<1>3. KeysFit'
    BY <1>1, <1>2, KeyWritten, FirstKeyFits DEF Types
<1>4. done' \in [Circuits -> 0 .. LastStep]
    BY <1>1, <1>2, DoneFits
<1>. QED BY <1>1, <1>3, <1>4, TypesKept DEF Types

LEMMA DeleteFirstKeepsTypes ==
    ASSUME Types, NEW c \in Circuits, DeleteFirst(c)
    PROVE  Types'
<1>1. /\ zkeys' = [zkeys EXCEPT ![c][0] = Absent]
      /\ UNCHANGED <<vkJson, vkBin, manifest, done, scripts>>
    BY DEF DeleteFirst
<1>2. 0 \in 0 .. Final
    BY StepsAre
<1>3. KeysFit'
    BY <1>1, <1>2, KeyWritten, AbsentFits DEF Types
<1>. QED BY <1>1, <1>3, TypesKept DEF Types

LEMMA ContributeKeepsTypes ==
    ASSUME Types, NEW s \in Scripts, NEW c \in Circuits, NEW k \in DOMAIN Names, Contribute(s, c, k)
    PROVE  Types'
<1>. DEFINE p == Part(Names[k], Attempt(zkeys[c][k]))
            file == Append(zkeys[c][k - 1], p)
            r == Script("manifest", c, k + 1, NoBeacon, NoManifest)
<1>1. /\ Usable(zkeys[c][k - 1])
      /\ zkeys' = [zkeys EXCEPT ![c][k] = file]
      /\ Runs(s, c, k + 1, NoBeacon, "manifest")
      /\ UNCHANGED <<vkJson, vkBin, manifest, done>>
    BY DEF Contribute
<1>2. /\ k \in 1 .. Final /\ k - 1 \in 0 .. Final /\ k - 1 \in Nat /\ k - 1 + 1 = k
      /\ k \in 0 .. Final /\ k + 1 \in 2 .. LastStep
    BY NamesAre
<1>3. KeyFits(zkeys[c][k], k) /\ KeyFits(zkeys[c][k - 1], k - 1)
    BY <1>2 DEF Types, KeysFit
<1>4. p \in Parts
    <2>1. Attempt(zkeys[c][k]) \in Nat
        BY <1>2, <1>3, AttemptIsNat
    <2>2. Names[k] \in Whos
        BY NamesAre DEF Whos
    <2>. QED BY <2>1, <2>2, PartIs
<1>. HIDE DEF p
<1>5. KeyFits(file, k)
    BY <1>1, <1>2, <1>3, <1>4, NextKeyFits
<1>6. KeysFit'
    BY <1>1, <1>2, <1>5, KeyWritten DEF Types
<1>7. scripts' = [scripts EXCEPT ![s] = r] /\ ScriptFits(r)
    BY <1>1, <1>2, RunsOne, RunFits DEF Types
<1>. QED BY <1>1, <1>6, <1>7, TypesKept DEF Types

LEMMA BeaconKeepsTypes ==
    ASSUME Types, NEW s \in Scripts, NEW c \in Circuits, NEW b \in Beacons, Beacon(s, c, b)
    PROVE  Types'
<1>. DEFINE p == Part(b, 0)
            file == Append(zkeys[c][Final - 1], p)
            r == Script("manifest", c, BeaconStep, b, NoManifest)
<1>1. /\ Usable(zkeys[c][Final - 1])
      /\ zkeys' = [zkeys EXCEPT ![c][Final] = file]
      /\ Runs(s, c, BeaconStep, b, "manifest")
      /\ UNCHANGED <<vkJson, vkBin, manifest, done>>
    BY DEF Beacon
<1>2. /\ Final - 1 \in 0 .. Final /\ Final - 1 \in Nat /\ Final - 1 + 1 = Final
      /\ Final \in 0 .. Final /\ BeaconStep \in 2 .. LastStep
    BY StepsAre
<1>3. KeyFits(zkeys[c][Final - 1], Final - 1)
    BY <1>2 DEF Types, KeysFit
<1>4. p \in Parts
    BY PartIs DEF Whos
<1>. HIDE DEF p
<1>5. KeyFits(file, Final)
    BY <1>1, <1>2, <1>3, <1>4, NextKeyFits
<1>6. KeysFit'
    BY <1>1, <1>2, <1>5, KeyWritten DEF Types
<1>7. scripts' = [scripts EXCEPT ![s] = r] /\ ScriptFits(r)
    BY <1>1, <1>2, RunsOne, RunFits DEF Types
<1>. QED BY <1>1, <1>6, <1>7, TypesKept DEF Types

LEMMA RejectedBeaconKeepsTypes ==
    ASSUME Types, NEW s \in Scripts, NEW c \in Circuits, NEW b, RejectedBeacon(s, c, b)
    PROVE  Types'
<1>. DEFINE r == Script("manifest", c, BeaconStep, b, NoManifest)
<1>1. Runs(s, c, BeaconStep, b, "manifest") /\ UNCHANGED <<files, manifest, done>>
    BY DEF RejectedBeacon
<1>2. BeaconStep \in 2 .. LastStep
    BY StepsAre
<1>3. scripts' = [scripts EXCEPT ![s] = r] /\ ScriptFits(r)
    BY <1>1, <1>2, RunsOne, RunFits DEF Types
<1>. QED BY <1>1, <1>3, SameKeysFit, TypesKept DEF Types, files

LEMMA ExportJsonKeepsTypes ==
    ASSUME Types, NEW s \in Scripts, NEW c \in Circuits, ExportJson(s, c)
    PROVE  Types'
<1>. DEFINE r == Script("vkBin", c, LastStep, NoBeacon, NoManifest)
<1>1. /\ vkJson' = [vkJson EXCEPT ![c] = zkeys[c][Final]]
      /\ Runs(s, c, LastStep, NoBeacon, "vkBin")
      /\ UNCHANGED <<zkeys, vkBin, manifest, done>>
    BY DEF ExportJson
<1>2. LastStep \in 2 .. LastStep
    BY StepsAre
<1>3. scripts' = [scripts EXCEPT ![s] = r] /\ ScriptFits(r)
    BY <1>1, <1>2, RunsOne, RunFits DEF Types
<1>4. Of(vkJson', Circuits)
    BY <1>1 DEF Types, Of
<1>. QED BY <1>1, <1>3, <1>4, SameKeysFit, TypesKept DEF Types

LEMMA EditAt ==
    ASSUME NEW r, ScriptFits(r), NEW at \in {"manifest", "writing", "written"}, r.at # "idle"
    PROVE  /\ [r EXCEPT !.at = at] = Script(at, r.circuit, r.step, r.beacon, r.edited)
           /\ ScriptFits(Script(at, r.circuit, r.step, r.beacon, r.edited))
<1>1. r = Script(r.at, r.circuit, r.step, r.beacon, r.edited)
    BY DEF ScriptFits
<1>. DEFINE e == [r EXCEPT !.at = at]
<1>2. DOMAIN r = {"at", "circuit", "step", "beacon", "edited"}
    BY <1>1 DEF Script
<1>3. DOMAIN e = {"at", "circuit", "step", "beacon", "edited"}
    BY <1>2
<1>4. e.at = at /\ e.circuit = r.circuit /\ e.step = r.step /\ e.beacon = r.beacon /\ e.edited = r.edited
    BY <1>2
<1>5. e = [x \in DOMAIN e |-> e[x]]
    OBVIOUS
<1>. HIDE DEF e
<1>6. e = Script(at, r.circuit, r.step, r.beacon, r.edited)
    BY <1>3, <1>4, <1>5 DEF Script
<1>7. ScriptFits(e)
    BY <1>4, <1>6 DEF ScriptFits
<1>. QED BY <1>6, <1>7 DEF e

LEMMA EditWritten ==
    ASSUME NEW r, ScriptFits(r), r.at # "idle", NEW m, IsManifest(m)
    PROVE  LET e == Script("writing", r.circuit, r.step, r.beacon, m) IN
           /\ [[r EXCEPT !.at = "writing"] EXCEPT !.edited = m] = e
           /\ ScriptFits(e)
<1>. DEFINE e == [[r EXCEPT !.at = "writing"] EXCEPT !.edited = m]
<1>1. DOMAIN r = {"at", "circuit", "step", "beacon", "edited"}
    BY DEF ScriptFits, Script
<1>2. DOMAIN e = {"at", "circuit", "step", "beacon", "edited"}
    BY <1>1
<1>3. e.at = "writing" /\ e.circuit = r.circuit /\ e.step = r.step /\ e.beacon = r.beacon /\ e.edited = m
    BY <1>1
<1>4. e = [x \in DOMAIN e |-> e[x]]
    OBVIOUS
<1>. HIDE DEF e
<1>5. e = Script("writing", r.circuit, r.step, r.beacon, m)
    BY <1>2, <1>3, <1>4 DEF Script
<1>6. ScriptFits(e)
    BY <1>3, <1>5 DEF ScriptFits
<1>. QED BY <1>5, <1>6 DEF e

LEMMA ExportBinOne ==
    ASSUME Types, NEW s \in Scripts, ExportBin(s)
    PROVE  LET me == scripts[s]
               r == Script("manifest", me.circuit, me.step, me.beacon, me.edited)
           IN  scripts' = [scripts EXCEPT ![s] = r] /\ ScriptFits(r)
<1>. DEFINE me == scripts[s]
<1>1. me.at = "vkBin" /\ scripts' = [scripts EXCEPT ![s].at = "manifest"] /\ ScriptFits(me)
    BY DEF ExportBin, Types
<1>2. scripts' = [scripts EXCEPT ![s] = [me EXCEPT !.at = "manifest"]]
    BY <1>1
<1>. HIDE DEF me
<1>3. me.at # "idle"
    BY <1>1
<1>. QED BY <1>1, <1>2, <1>3, EditAt DEF me

LEMMA ExportBinKeepsTypes ==
    ASSUME Types, NEW s \in Scripts, ExportBin(s)
    PROVE  Types'
<1>1. /\ vkBin' = [vkBin EXCEPT ![scripts[s].circuit] = vkJson[scripts[s].circuit]]
      /\ UNCHANGED <<zkeys, vkJson, manifest, done>>
    BY DEF ExportBin
<1>2. Of(vkBin', Circuits)
    BY <1>1 DEF Types, Of
<1>3. \E r : scripts' = [scripts EXCEPT ![s] = r] /\ ScriptFits(r)
    BY ExportBinOne
<1>. QED BY <1>1, <1>2, <1>3, SameKeysFit, TypesKept DEF Types

LEMMA ContributionIs ==
    ASSUME Types, NEW c \in Circuits, NEW k \in 1 .. Len(Names)
    PROVE  /\ Contribution(c, k) \in Contributions
           /\ Contribution(c, k).name = Names[k] /\ Contribution(c, k).zkey = zkeys[c][k]
<1>1. k \in 0 .. Final /\ Names[k] \in Range(Names)
    BY NamesAre
<1>2. zkeys[c][k] \in Seq(Parts)
    BY <1>1 DEF Types, KeysFit, KeyFits
<1>. QED BY <1>1, <1>2 DEF Contribution, Contributions

(* What each command of manifest.mjs makes of an entry. *)
LEMMA EditIs ==
    ASSUME Types, NEW c \in Circuits, NEW step \in 2 .. LastStep, NEW beacon, NEW entry, IsEntry(entry)
    PROVE  LET new == Edit(entry, c, step, beacon) IN
           /\ IsEntry(new)
           /\ new.contributions = IF step < BeaconStep
                                  THEN Append(entry.contributions, Contribution(c, step - 1))
                                  ELSE entry.contributions
           /\ new.beacon = IF step = BeaconStep THEN beacon ELSE entry.beacon
           /\ new.final = IF step = LastStep
                          THEN [zkey |-> zkeys[c][Final], vkJson |-> vkJson[c], vkBin |-> vkBin[c]]
                          ELSE entry.final
<1>. DEFINE new == Edit(entry, c, step, beacon)
            what == [zkey |-> zkeys[c][Final], vkJson |-> vkJson[c], vkBin |-> vkBin[c]]
            more == Append(entry.contributions, Contribution(c, step - 1))
<1>0. entry = [contributions |-> entry.contributions, beacon |-> entry.beacon, final |-> entry.final]
    BY DEF IsEntry
<1>1. CASE step = LastStep
    <2>1. new = [entry EXCEPT !.final = what] /\ step # BeaconStep /\ ~(step < BeaconStep)
        BY <1>1, StepsAre DEF Edit, FinalizeCircuit
    <2>. HIDE DEF new, what
    <2>2. /\ IsEntry(new) /\ new.contributions = entry.contributions
          /\ new.beacon = entry.beacon /\ new.final = what
        BY <1>0, <2>1 DEF IsEntry
    <2>. QED BY <1>1, <2>1, <2>2 DEF new, what
<1>2. CASE step = BeaconStep
    <2>1. new = [entry EXCEPT !.beacon = beacon] /\ step # LastStep /\ ~(step < BeaconStep)
        BY <1>2, StepsAre DEF Edit
    <2>. HIDE DEF new
    <2>2. /\ IsEntry(new) /\ new.contributions = entry.contributions
          /\ new.beacon = beacon /\ new.final = entry.final
        BY <1>0, <2>1 DEF IsEntry
    <2>. QED BY <1>2, <2>1, <2>2 DEF new
<1>3. CASE step # LastStep /\ step # BeaconStep
    <2>1. step < BeaconStep /\ step - 1 \in 1 .. Len(Names)
        BY <1>3, StepsAre
    <2>2. new = [entry EXCEPT !.contributions = more]
        BY <1>3 DEF Edit, AddContribution
    <2>3. more \in Seq(Contributions)
        BY <2>1, ContributionIs DEF IsEntry
    <2>. HIDE DEF new, more
    <2>4. /\ IsEntry(new) /\ new.contributions = more
          /\ new.beacon = entry.beacon /\ new.final = entry.final
        BY <1>0, <2>2, <2>3 DEF IsEntry
    <2>. QED BY <1>3, <2>1, <2>4 DEF new, more
<1>. QED BY <1>1, <1>2, <1>3

Rewritten(s) ==
    LET me == scripts[s]
    IN  [manifest EXCEPT ![me.circuit] = Edit(manifest[me.circuit], me.circuit, me.step, me.beacon)]

LEMMA RewrittenIs ==
    ASSUME Types, NEW s \in Scripts, scripts[s].at # "idle", manifest \notin {NoManifest, Torn}
    PROVE  /\ IsManifest(Rewritten(s)) /\ Of(Rewritten(s), Circuits)
           /\ Rewritten(s)[scripts[s].circuit]
                = Edit(manifest[scripts[s].circuit], scripts[s].circuit, scripts[s].step, scripts[s].beacon)
           /\ \A c \in Circuits : c # scripts[s].circuit => Rewritten(s)[c] = manifest[c]
<1>. DEFINE me == scripts[s]
            new == Edit(manifest[me.circuit], me.circuit, me.step, me.beacon)
<1>1. me.circuit \in Circuits /\ me.step \in 2 .. LastStep
    BY DEF Types, ScriptFits
<1>2. Of(manifest, Circuits) /\ \A c \in Circuits : IsEntry(manifest[c])
    BY DEF Types, IsManifest
<1>3. IsEntry(new)
    BY <1>1, <1>2, EditIs
<1>4. Rewritten(s) = [manifest EXCEPT ![me.circuit] = new]
    BY DEF Rewritten
<1>. HIDE DEF new
<1>5. /\ Of(Rewritten(s), Circuits) /\ Rewritten(s)[me.circuit] = new
      /\ \A c \in Circuits : c # me.circuit => Rewritten(s)[c] = manifest[c]
    BY <1>1, <1>2, <1>4 DEF Of
<1>6. IsManifest(Rewritten(s))
    BY <1>2, <1>3, <1>5 DEF IsManifest
<1>. QED BY <1>5, <1>6 DEF new

LEMMA ReadManifestOne ==
    ASSUME Types, NEW s \in Scripts, ReadManifest(s)
    PROVE  LET me == scripts[s]
               r == Script("writing", me.circuit, me.step, me.beacon, Rewritten(s))
           IN  /\ scripts' = [scripts EXCEPT ![s] = r] /\ ScriptFits(r)
               /\ manifest \notin {NoManifest, Torn}
<1>. DEFINE me == scripts[s]
            m == Rewritten(s)
<1>1. me.at = "manifest" /\ ScriptFits(me) /\ manifest \notin {NoManifest, Torn}
    BY DEF ReadManifest, Types, Refused
<1>2. scripts' = [scripts EXCEPT ![s].at = "writing", ![s].edited = m]
    BY DEF ReadManifest, Rewritten
<1>3. IsManifest(m)
    BY <1>1, RewrittenIs
<1>. HIDE DEF m
<1>4. scripts' = [scripts EXCEPT ![s] = [[me EXCEPT !.at = "writing"] EXCEPT !.edited = m]]
    BY <1>2 DEF Types, Of
<1>. HIDE DEF me
<1>5. me.at # "idle"
    BY <1>1
<1>6. LET e == Script("writing", me.circuit, me.step, me.beacon, m) IN
      /\ [[me EXCEPT !.at = "writing"] EXCEPT !.edited = m] = e
      /\ ScriptFits(e)
    <2>1. ScriptFits(me)
        BY <1>1
    <2>. QED BY <1>3, <1>5, <2>1, EditWritten, Zenon
<1>. QED BY <1>1, <1>4, <1>6 DEF me, m

LEMMA ReadManifestKeepsTypes ==
    ASSUME Types, NEW s \in Scripts, ReadManifest(s)
    PROVE  Types'
<1>1. UNCHANGED <<files, manifest, done>>
    BY DEF ReadManifest
<1>2. \E r : scripts' = [scripts EXCEPT ![s] = r] /\ ScriptFits(r)
    BY ReadManifestOne
<1>. QED BY <1>1, <1>2, SameKeysFit, TypesKept DEF Types, files

LEMMA WriteManifestOne ==
    ASSUME Types, NEW s \in Scripts, WriteManifest(s)
    PROVE  LET me == scripts[s]
               r == Script("written", me.circuit, me.step, me.beacon, me.edited)
           IN  scripts' = [scripts EXCEPT ![s] = r] /\ ScriptFits(r)
<1>. DEFINE me == scripts[s]
<1>1. me.at = "writing" /\ scripts' = [scripts EXCEPT ![s].at = "written"] /\ ScriptFits(me)
    BY DEF WriteManifest, Types
<1>2. scripts' = [scripts EXCEPT ![s] = [me EXCEPT !.at = "written"]]
    BY <1>1
<1>. HIDE DEF me
<1>3. me.at # "idle"
    BY <1>1
<1>. QED BY <1>1, <1>2, <1>3, EditAt DEF me

LEMMA WriteManifestKeepsTypes ==
    ASSUME Types, NEW s \in Scripts, WriteManifest(s)
    PROVE  Types'
<1>1. manifest' = scripts[s].edited /\ UNCHANGED <<files, done>>
    BY DEF WriteManifest
<1>2. IsManifest(manifest')
    BY <1>1 DEF Types, ScriptFits
<1>3. \E r : scripts' = [scripts EXCEPT ![s] = r] /\ ScriptFits(r)
    BY WriteManifestOne
<1>. QED BY <1>1, <1>2, <1>3, SameKeysFit, TypesKept DEF Types, files

LEMMA SucceedKeepsTypes ==
    ASSUME Types, NEW s \in Scripts, Succeed(s)
    PROVE  Types'
<1>. DEFINE c == scripts[s].circuit
            step == scripts[s].step
            last == IF step > done[c] THEN step ELSE done[c]
<1>1. /\ scripts[s].at = "written"
      /\ done' = [done EXCEPT ![c] = last]
      /\ scripts' = [scripts EXCEPT ![s] = Idle]
      /\ UNCHANGED <<files, manifest>>
    BY DEF Succeed
<1>2. ScriptFits(scripts[s])
    BY DEF Types
<1>3. c \in Circuits /\ step \in 2 .. LastStep
    BY <1>1, <1>2 DEF ScriptFits
<1>4. done' \in [Circuits -> 0 .. LastStep]
    <2>1. last \in 0 .. LastStep
        BY <1>3 DEF Types
    <2>. HIDE DEF last
    <2>. QED BY <1>1, <1>3, <2>1, DoneFits
<1>. QED BY <1>1, <1>4, IdleFits, SameKeysFit, TypesKept DEF Types, files

LEMMA EndKeepsTypes ==
    ASSUME Types, NEW s \in Scripts, scripts' = [scripts EXCEPT ![s] = Idle],
           UNCHANGED <<files, manifest, done>>
    PROVE  Types'
BY IdleFits, SameKeysFit, TypesKept DEF Types, files

(* The four ways a file is left broken. *)
BreakKey(s, c, k) ==
    /\ Takes(s, c, k + 1)
    /\ IF k = 0 THEN zkeys[c][0] = Absent ELSE Usable(zkeys[c][k - 1])
    /\ zkeys' = [zkeys EXCEPT ![c][k] = Broken(zkeys[c][k])]
    /\ UNCHANGED <<vkJson, vkBin, manifest, done, scripts, cut>>

BreakJson(s, c) ==
    /\ Takes(s, c, LastStep)
    /\ vkJson' = [vkJson EXCEPT ![c] = Broken(Absent)]
    /\ UNCHANGED <<zkeys, vkBin, manifest, done, scripts, cut>>

BreakBin(s) ==
    /\ scripts[s].at = "vkBin"
    /\ vkBin' = [vkBin EXCEPT ![scripts[s].circuit] = Broken(Absent)]
    /\ scripts' = [scripts EXCEPT ![s] = Idle]
    /\ UNCHANGED <<zkeys, vkJson, manifest, done, repeated, cut>>

BreakManifest(s) ==
    /\ manifest = NoManifest \/ scripts[s].at = "writing"
    /\ manifest' = Torn
    /\ scripts' = [scripts EXCEPT ![s] = Idle]
    /\ UNCHANGED <<files, done, repeated, cut>>

LEMMA BreakIs ==
    ASSUME NEW s \in Scripts, Break(s)
    PROVE  \/ \E c \in Circuits : \E k \in 0 .. Final : BreakKey(s, c, k)
           \/ \E c \in Circuits : BreakJson(s, c)
           \/ BreakBin(s)
           \/ BreakManifest(s)
BY DEF Break, BreakKey, BreakJson, BreakBin, BreakManifest

LEMMA BreakKeepsTypes ==
    ASSUME Types, NEW s \in Scripts, Break(s)
    PROVE  Types'
<1>1. ASSUME NEW c \in Circuits, NEW k \in 0 .. Final, BreakKey(s, c, k) PROVE Types'
    <2>1. KeyFits(zkeys[c][k], k) /\ k \in Nat
        BY StepsAre DEF Types, KeysFit
    <2>2. k > 0 \/ zkeys[c][k] = Absent
        BY <1>1 DEF BreakKey
    <2>3. KeyFits(Broken(zkeys[c][k]), k)
        BY <2>1, <2>2, AttemptIsNat, BrokenFits
    <2>4. KeysFit'
        BY <1>1, <2>3, KeyWritten DEF Types, BreakKey
    <2>. QED BY <1>1, <2>4, TypesKept DEF Types, BreakKey
<1>2. ASSUME NEW c \in Circuits, BreakJson(s, c) PROVE Types'
    <2>1. Of(vkJson', Circuits)
        BY <1>2 DEF Types, Of, BreakJson
    <2>. QED BY <1>2, <2>1, SameKeysFit, TypesKept DEF Types, BreakJson
<1>3. ASSUME BreakBin(s) PROVE Types'
    <2>1. Of(vkBin', Circuits)
        BY <1>3 DEF Types, Of, BreakBin
    <2>. QED BY <1>3, <2>1, IdleFits, SameKeysFit, TypesKept DEF Types, BreakBin
<1>4. ASSUME BreakManifest(s) PROVE Types'
    <2>1. IsManifest(manifest')
        BY <1>4 DEF IsManifest, BreakManifest
    <2>. QED BY <1>4, <2>1, IdleFits, SameKeysFit, TypesKept DEF Types, BreakManifest, files
<1>. QED BY <1>1, <1>2, <1>3, <1>4, BreakIs

(* Every step is one of a kind. *)
LEMMA StepIs ==
    ASSUME [Next]_vars
    PROVE  \/ InitManifest
           \/ \E c \in Circuits : DeleteFirst(c)
           \/ \E s \in Scripts : \E c \in Circuits : Start(s, c)
           \/ \E s \in Scripts : Proceed(s)
           \/ \E s \in Scripts : Crash(s)
           \/ \E s \in Scripts : Break(s)
           \/ \E s \in Scripts : \E c \in Circuits : \E b \in Rejected : RejectedBeacon(s, c, b)
           \/ UNCHANGED vars
BY DEF Next, WorkOn, Mishap

LEMMA TypesNext == Types /\ [Next]_vars => Types'
<1>. SUFFICES ASSUME Types, [Next]_vars PROVE Types'
    OBVIOUS
<1>1. CASE InitManifest
    BY <1>1, InitManifestKeepsTypes
<1>2. ASSUME NEW c \in Circuits, DeleteFirst(c) PROVE Types'
    BY <1>2, DeleteFirstKeepsTypes
<1>3. ASSUME NEW s \in Scripts, NEW c \in Circuits, Start(s, c) PROVE Types'
    BY <1>3, InitPhase2KeepsTypes, ContributeKeepsTypes, BeaconKeepsTypes, ExportJsonKeepsTypes DEF Start
<1>4. ASSUME NEW s \in Scripts, Proceed(s) PROVE Types'
    BY <1>4, ExportBinKeepsTypes, ReadManifestKeepsTypes, WriteManifestKeepsTypes, SucceedKeepsTypes,
       EndKeepsTypes DEF Proceed, Refuse
<1>5. ASSUME NEW s \in Scripts, Crash(s) PROVE Types'
    BY <1>5, EndKeepsTypes DEF Crash
<1>6. ASSUME NEW s \in Scripts, Break(s) PROVE Types'
    BY <1>6, BreakKeepsTypes
<1>7. ASSUME NEW s \in Scripts, NEW c \in Circuits, NEW b \in Rejected, RejectedBeacon(s, c, b)
      PROVE  Types'
    BY <1>7, RejectedBeaconKeepsTypes
<1>8. CASE UNCHANGED vars
    BY <1>8, SameKeysFit, TypesKept DEF vars, Types
<1>. QED BY <1>1, <1>2, <1>3, <1>4, <1>5, <1>6, <1>7, <1>8, StepIs

LEMMA TypesAlways == Spec => []Types
BY TypesInit, TypesNext, PTL DEF Spec

(* However many scripts run at a time, and wherever they are killed: a key *)
(* that snarkjs can read has exactly the parts its number says, and the    *)
(* manifest is none, breaks off or has every circuit. *)
THEOREM TypeCorrect == Spec => []TypeOK
<1>1. Types => TypeOK
    <2>. SUFFICES ASSUME Types PROVE TypeOK
        OBVIOUS
    <2>1. manifest \in {NoManifest, Torn} \/ DOMAIN manifest = Circuits
        BY DEF Types, IsManifest, Of
    <2>2. \A k \in 1 .. Final : k \in 0 .. Final
        BY StepsAre
    <2>3. \A c \in Circuits : done[c] \in 0 .. LastStep
        BY DEF Types
    <2>4. \A c \in Circuits : \A k \in 1 .. Final : Usable(zkeys[c][k]) => Len(zkeys[c][k]) = k
        BY <2>2 DEF Types, KeysFit, KeyFits
    <2>5. \A s \in Scripts : scripts[s].at \in {"idle", "vkBin", "manifest", "writing", "written"}
        BY DEF Types, ScriptFits
    <2>. QED BY <2>1, <2>3, <2>4, <2>5 DEF TypeOK
<1>. QED BY <1>1, TypesAlways, PTL

------------------------------------------------------------------------------
(* The inductive invariant, for one script at a time, as the runbook has   *)
(* it: manifest.mjs does not lock the file it rewrites. *)

OneScript == \A s, t \in Scripts : s = t

(* How many contributions the transcript has when d steps are done. *)
Made(d) == IF d = 0 THEN 0 ELSE IF d < BeaconStep THEN d - 1 ELSE Len(Names)

AddedBy(file, before, who) == \E p \in Parts : p.who = who /\ file = Append(before, p)

(* The first k contributions, each over the one before. *)
Chain(keys, k) ==
    /\ \A i \in 0 .. k : Len(keys[i]) = i
    /\ \A i \in 1 .. k : /\ keys[i][i].who = Names[i]
                         /\ \A j \in 1 .. i : keys[i][j] = keys[j][j]

BeaconMade(keys, beacon) == AddedBy(keys[Final], keys[Final - 1], beacon)

(* The files that the finished steps left are there, and the transcript    *)
(* has those steps and no other. *)
Finished(c) ==
    /\ Usable(zkeys[c][Final])
    /\ vkJson[c] = zkeys[c][Final] /\ vkBin[c] = vkJson[c]
    /\ manifest[c].final = [zkey |-> zkeys[c][Final], vkJson |-> vkJson[c], vkBin |-> vkBin[c]]

Recorded(entry, keys, k) ==
    /\ Len(entry.contributions) = k
    /\ \A i \in 1 .. k : entry.contributions[i].name = Names[i] /\ entry.contributions[i].zkey = keys[i]

(* The files and the transcript are those of d finished steps. *)
ToldAt(c, d) ==
    /\ manifest # NoManifest => Recorded(manifest[c], zkeys[c], Made(d))
    /\ d >= 1 => manifest # NoManifest /\ Chain(zkeys[c], Made(d))
    /\ d >= BeaconStep /\ manifest[c].beacon \notin Rejected => BeaconMade(zkeys[c], manifest[c].beacon)
    /\ d = LastStep => Finished(c)

(* The steps of a circuit the transcript has: one more than the            *)
(* coordinator knows of, between a script's record and its exit. *)
Recording(c) == \E s \in Scripts : scripts[s].at = "written" /\ scripts[s].circuit = c

Reached(c) == IF Recording(c) THEN done[c] + 1 ELSE done[c]

CircuitTold(c) == ToldAt(c, Reached(c))

(* A circuit whose record was made and not seen: its next step is refused. *)
Stuck(c) ==
    /\ manifest # NoManifest
    /\ done[c] + 1 \in 2 .. BeaconStep
    /\ Refused(c, done[c] + 1)

(* A script that has made its file: the next step's. *)
RunTold(c, step, beacon, at) ==
    /\ step = done[c] + 1
    /\ step < BeaconStep => AddedBy(zkeys[c][step - 1], zkeys[c][step - 2], Names[step - 1])
    /\ step = BeaconStep =>
          beacon # NoBeacon /\ (beacon \notin Rejected => BeaconMade(zkeys[c], beacon))
    /\ step = LastStep =>
          /\ Usable(zkeys[c][Final])
          /\ vkJson[c] = zkeys[c][Final]
          /\ at # "vkBin" => vkBin[c] = vkJson[c]

(* What a script is about to write back is the manifest, edited. *)
Edited(s) ==
    /\ manifest # NoManifest
    /\ scripts[s].at = "writing" =>
          /\ ~Refused(scripts[s].circuit, scripts[s].step)
          /\ scripts[s].edited = Rewritten(s)

RunOf(s) == RunTold(scripts[s].circuit, scripts[s].step, scripts[s].beacon, scripts[s].at)

(* Its record made, a script would be refused another. *)
RecordOf(s) ==
    /\ scripts[s].circuit \notin cut
    /\ scripts[s].step < LastStep => Refused(scripts[s].circuit, scripts[s].step)

ScriptTold(s) ==
    scripts[s].at # "idle" =>
        /\ Edited(s)
        /\ scripts[s].circuit \notin repeated =>
              RunOf(s) /\ (scripts[s].at = "written" => RecordOf(s))

CircuitsTold == manifest # Torn => \A c \in Circuits : c \notin repeated \cup cut => CircuitTold(c)

ScriptsTold == \A s \in Scripts : ScriptTold(s)

StuckTold == \A c \in Circuits : c \in cut /\ c \notin repeated => Stuck(c)

Told == CircuitsTold /\ ScriptsTold /\ StuckTold

Inv == Types /\ Told

LEMMA MadeIs ==
    ASSUME NEW d \in 0 .. LastStep
    PROVE  /\ Made(d) \in 0 .. Len(Names)
           /\ Made(d) <= d
           /\ d < BeaconStep /\ d > 0 => Made(d) = d - 1
           /\ d >= BeaconStep => Made(d) = Len(Names)
BY StepsAre DEF Made

LEMMA ChainStarts ==
    ASSUME NEW keys, keys[0] = <<>>
    PROVE  Chain(keys, 0)
<1>1. Len(<<>>) = 0 /\ 0 .. 0 = {0} /\ 1 .. 0 = {}
    OBVIOUS
<1>. QED BY <1>1 DEF Chain

LEMMA ChainKept ==
    ASSUME NEW keys, NEW others, NEW k \in Nat, Chain(keys, k), \A i \in 0 .. k : others[i] = keys[i]
    PROVE  Chain(others, k)
<1>1. \A i \in 1 .. k : i \in 0 .. k /\ \A j \in 1 .. i : j \in 0 .. k
    OBVIOUS
<1>. QED BY <1>1 DEF Chain

LEMMA ChainGrows ==
    ASSUME NEW keys, NEW k \in Nat, Chain(keys, k), keys[k] \in Seq(Parts),
           AddedBy(keys[k + 1], keys[k], Names[k + 1])
    PROVE  Chain(keys, k + 1)
<1>1. PICK p \in Parts : p.who = Names[k + 1] /\ keys[k + 1] = Append(keys[k], p)
    BY DEF AddedBy
<1>2. Len(keys[k]) = k
    BY DEF Chain
<1>3. /\ Len(keys[k + 1]) = k + 1 /\ keys[k + 1][k + 1] = p
      /\ \A j \in 1 .. k : keys[k + 1][j] = keys[k][j]
    BY <1>1, <1>2, NextKeyIs
<1>4. \A i \in 0 .. k + 1 : Len(keys[i]) = i
    <2>1. \A i \in 0 .. k + 1 : i \in 0 .. k \/ i = k + 1
        OBVIOUS
    <2>. QED BY <1>3, <2>1 DEF Chain
<1>5. ASSUME NEW i \in 1 .. k + 1
      PROVE  /\ keys[i][i].who = Names[i]
             /\ \A j \in 1 .. i : keys[i][j] = keys[j][j]
    <2>1. CASE i = k + 1
        <3>1. ASSUME NEW j \in 1 .. i PROVE keys[i][j] = keys[j][j]
            <4>1. CASE j = k + 1
                BY <2>1, <4>1
            <4>2. CASE j # k + 1
                <5>1. j \in 1 .. k /\ k \in 1 .. k
                    BY <2>1, <4>2
                <5>2. keys[k][j] = keys[j][j]
                    BY <5>1 DEF Chain
                <5>. QED BY <1>3, <2>1, <5>1, <5>2
            <4>. QED BY <4>1, <4>2
        <3>. QED BY <1>1, <1>3, <2>1, <3>1
    <2>2. CASE i # k + 1
        <3>1. i \in 1 .. k
            BY <2>2
        <3>. QED BY <3>1 DEF Chain
    <2>. QED BY <2>1, <2>2
<1>. QED BY <1>4, <1>5 DEF Chain

LEMMA InvInit == Init => Inv
<1>. SUFFICES ASSUME Init PROVE Inv
    OBVIOUS
<1>1. ASSUME NEW c \in Circuits PROVE CircuitTold(c)
    <2>1. Reached(c) = 0
        BY IdleFits DEF Init, Reached, Recording
    <2>. QED BY <2>1, StepsAre DEF Init, CircuitTold, ToldAt
<1>2. \A s \in Scripts : ScriptTold(s)
    BY IdleFits DEF Init, ScriptTold
<1>3. StuckTold
    BY DEF Init, StuckTold
<1>. QED BY <1>1, <1>2, <1>3, TypesInit DEF Inv, Told, CircuitsTold, ScriptsTold

LEMMA ManifestsDiffer == NoManifest # Torn
<1>1. DOMAIN NoManifest = {} /\ DOMAIN Torn = {"torn"}
    BY DEF NoManifest, Torn
<1>. QED BY <1>1

(* The coordinator may not know yet of one step, and of no more. *)
LEMMA ReachedIs ==
    ASSUME Inv, NEW c \in Circuits, c \notin repeated
    PROVE  /\ Reached(c) \in 0 .. LastStep
           /\ Recording(c) => done[c] >= 1 /\ Reached(c) = done[c] + 1
<1>1. done[c] \in 0 .. LastStep
    BY DEF Inv, Types
<1>2. ASSUME NEW s \in Scripts, scripts[s].at = "written", scripts[s].circuit = c
      PROVE  done[c] + 1 \in 2 .. LastStep
    <2>1. scripts[s].step \in 2 .. LastStep
        BY <1>2 DEF Inv, Types, ScriptFits
    <2>2. scripts[s].step = done[c] + 1
        BY <1>2 DEF Inv, Told, ScriptsTold, ScriptTold, RunOf, RunTold
    <2>. QED BY <2>1, <2>2
<1>. QED BY <1>1, <1>2, StepsAre DEF Reached, Recording

LEMMA SameReach ==
    ASSUME \A s \in Scripts : scripts[s].at # "written" /\ scripts'[s].at # "written",
           NEW c, done'[c] = done[c]
    PROVE  Reached(c) = done[c] /\ Reached(c)' = Reached(c)
BY DEF Reached, Recording

LEMMA StillStuck ==
    ASSUME StuckTold, UNCHANGED <<manifest, cut>>, repeated \subseteq repeated',
           \A c \in Circuits : c \in cut /\ c \notin repeated' => done'[c] = done[c]
    PROVE  StuckTold'
BY DEF StuckTold, Stuck, Refused, HasName

------------------------------------------------------------------------------
(* What a step leaves told. *)

LEMMA CircuitKept ==
    ASSUME NEW c \in Circuits, NEW d \in 0 .. LastStep, ToldAt(c, d), UNCHANGED manifest,
           d >= 1 => \A i \in 0 .. Made(d) : zkeys'[c][i] = zkeys[c][i],
           d >= BeaconStep => zkeys'[c][Final] = zkeys[c][Final],
           d = LastStep => vkJson'[c] = vkJson[c] /\ vkBin'[c] = vkBin[c]
    PROVE  ToldAt(c, d)'
<1>. DEFINE n == Made(d)
<1>1. n \in 0 .. Len(Names) /\ n <= d
    BY MadeIs
<1>2. n \in Nat /\ (d >= 1 \/ n = 0)
    BY <1>1, StepsAre
<1>3. \A i \in 1 .. n : zkeys'[c][i] = zkeys[c][i]
    BY <1>1, <1>2
<1>4. manifest' # NoManifest => Recorded(manifest'[c], zkeys'[c], n)
    BY <1>3 DEF ToldAt, Recorded
<1>5. d >= 1 => manifest' # NoManifest /\ Chain(zkeys'[c], n)
    BY <1>2, ChainKept DEF ToldAt
<1>6. d >= BeaconStep /\ manifest'[c].beacon \notin Rejected => BeaconMade(zkeys'[c], manifest'[c].beacon)
    <2>1. d >= BeaconStep => n = Final - 1 /\ d >= 1
        BY <1>1, MadeIs, StepsAre
    <2>2. d >= BeaconStep => zkeys'[c][Final - 1] = zkeys[c][Final - 1]
        BY <1>2, <2>1
    <2>. QED BY <2>2 DEF ToldAt, BeaconMade
<1>7. d = LastStep => Finished(c)'
    <2>1. d = LastStep => d >= BeaconStep
        BY StepsAre
    <2>. QED BY <2>1 DEF ToldAt, Finished
<1>. QED BY <1>4, <1>5, <1>6, <1>7 DEF ToldAt

(* Of each circuit that is told of, the steps reached stay. *)
LEMMA CircuitsKept ==
    ASSUME Inv, UNCHANGED <<manifest, cut>>, repeated \subseteq repeated',
           \A c \in Circuits : c \notin repeated' =>
              /\ Reached(c)' = Reached(c)
              /\ Reached(c) >= 1 => \A i \in 0 .. Made(Reached(c)) : zkeys'[c][i] = zkeys[c][i]
              /\ Reached(c) >= BeaconStep => zkeys'[c][Final] = zkeys[c][Final]
              /\ Reached(c) = LastStep => vkJson'[c] = vkJson[c] /\ vkBin'[c] = vkBin[c]
    PROVE  CircuitsTold'
<1>. SUFFICES ASSUME manifest' # Torn, NEW c \in Circuits, c \notin repeated' \cup cut' PROVE CircuitTold(c)'
    BY DEF CircuitsTold
<1>1. PICK d : d = Reached(c)
    OBVIOUS
<1>2. d \in 0 .. LastStep
    BY <1>1, ReachedIs
<1>3. ToldAt(c, d)
    <2>1. CircuitTold(c)
        BY DEF Inv, Told, CircuitsTold
    <2>. QED BY <1>1, <2>1 DEF CircuitTold
<1>4. ToldAt(c, d)'
    BY <1>1, <1>2, <1>3, CircuitKept
<1>5. Reached(c)' = d
    BY <1>1
<1>. QED BY <1>4, <1>5 DEF CircuitTold, ToldAt

(* One key is written, of a circuit that has reached it or has had a       *)
(* script repeated. *)
LEMMA KeyStep ==
    ASSUME Inv, NEW c \in Circuits, NEW k \in 0 .. Final,
           SameBut(zkeys, zkeys', c, k),
           UNCHANGED <<vkJson, vkBin, manifest, cut>>, repeated \subseteq repeated',
           \A d \in Circuits : Reached(d)' = Reached(d),
           c \notin repeated' => Reached(c) = k
    PROVE  CircuitsTold'
<1>1. ASSUME NEW d \in Circuits, d \notin repeated', NEW r, r = Reached(d)
      PROVE  /\ r >= 1 => \A i \in 0 .. Made(r) : zkeys'[d][i] = zkeys[d][i]
             /\ r >= BeaconStep => zkeys'[d][Final] = zkeys[d][Final]
    <2>1. r \in 0 .. LastStep
        BY <1>1, ReachedIs
    <2>2. Made(r) \in 0 .. Len(Names) /\ Made(r) <= r
        BY <2>1, MadeIs
    <2>3. ASSUME r >= 1, NEW i \in 0 .. Made(r) PROVE zkeys'[d][i] = zkeys[d][i]
        <3>1. i \in 0 .. Final
            BY <2>2, StepsAre
        <3>2. d # c \/ i # k
            <4>. SUFFICES ASSUME d = c PROVE i # k
                OBVIOUS
            <4>1. r = k /\ r < BeaconStep /\ r > 0
                BY <1>1, <2>1, <2>3, StepsAre
            <4>2. Made(r) = r - 1
                BY <2>1, <4>1, MadeIs
            <4>. QED BY <2>2, <4>1, <4>2
        <3>. QED BY <3>1, <3>2 DEF SameBut
    <2>4. r >= BeaconStep => zkeys'[d][Final] = zkeys[d][Final]
        BY <1>1, <2>1, StepsAre DEF SameBut
    <2>. QED BY <2>3, <2>4
<1>. QED BY <1>1, CircuitsKept

(* A key is exported, of a circuit that is not finished. *)
LEMMA ExportStep ==
    ASSUME Inv, NEW c \in Circuits,
           \A d \in Circuits : d # c => vkJson'[d] = vkJson[d] /\ vkBin'[d] = vkBin[d],
           UNCHANGED <<zkeys, manifest, cut>>, repeated \subseteq repeated',
           \A d \in Circuits : Reached(d)' = Reached(d),
           c \notin repeated' => Reached(c) # LastStep
    PROVE  CircuitsTold'
BY CircuitsKept

LEMMA SameCircuitsTold ==
    ASSUME Inv, UNCHANGED <<files, manifest, cut>>, repeated \subseteq repeated',
           \A c \in Circuits : c \notin repeated' => Reached(c)' = Reached(c)
    PROVE  CircuitsTold'
BY CircuitsKept DEF files

LEMMA TakesIs ==
    ASSUME OneScript, NEW s \in Scripts, NEW c \in Circuits, NEW step, Takes(s, c, step)
    PROVE  /\ \A t \in Scripts : t = s /\ scripts[t].at = "idle"
           /\ manifest # NoManifest
           /\ repeated \subseteq repeated'
           /\ c \notin repeated' => done[c] = step - 1
BY DEF OneScript, Takes

LEMMA NobodyRuns ==
    ASSUME \A s \in Scripts : scripts'[s].at = "idle"
    PROVE  ScriptsTold'
BY DEF ScriptsTold, ScriptTold

LEMMA OneRuns ==
    ASSUME OneScript, Of(scripts, Scripts), NEW s \in Scripts, NEW at \in {"vkBin", "manifest"},
           NEW c, NEW step, NEW beacon, NEW edited,
           scripts' = [scripts EXCEPT ![s] = Script(at, c, step, beacon, edited)],
           manifest' # NoManifest,
           c \notin repeated' => RunTold(c, step, beacon, at)'
    PROVE  ScriptsTold' /\ \A t \in Scripts : scripts'[t].at # "written"
<1>. SUFFICES ASSUME NEW t \in Scripts PROVE ScriptTold(t)' /\ scripts'[t].at # "written"
    BY DEF ScriptsTold
<1>1. t = s
    BY DEF OneScript
<1>2. scripts'[t] = Script(at, c, step, beacon, edited)
    BY <1>1, ScriptWritten
<1>3. /\ scripts'[t].at = at /\ scripts'[t].circuit = c
      /\ scripts'[t].step = step /\ scripts'[t].beacon = beacon
    BY <1>2, ScriptIs
<1>4. Edited(t)'
    BY <1>3 DEF Edited
<1>5. scripts'[t].circuit \notin repeated' => RunOf(t)'
    BY <1>3 DEF RunOf, RunTold
<1>. QED BY <1>3, <1>4, <1>5 DEF ScriptTold

------------------------------------------------------------------------------
(* The steps of the scripts. *)

LEMMA InitManifestKeepsTold ==
    ASSUME Inv, InitManifest
    PROVE  Told'
<1>1. /\ manifest = NoManifest /\ manifest' = [c \in Circuits |-> EmptyEntry]
      /\ UNCHANGED <<files, done, scripts, repeated, cut>>
    BY DEF InitManifest
<1>2. \A s \in Scripts : scripts[s].at = "idle" /\ scripts'[s].at = "idle"
    BY <1>1 DEF Inv, Told, ScriptsTold, ScriptTold, Edited
<1>3. ASSUME NEW c \in Circuits, c \notin repeated' \cup cut' PROVE CircuitTold(c)'
    <2>1. Reached(c)' = done[c] /\ Reached(c) = done[c] /\ done[c] \in 0 .. LastStep
        BY <1>1, <1>2, SameReach DEF Inv, Types
    <2>2. CircuitTold(c)
        BY <1>1, <1>3, ManifestsDiffer DEF Inv, Told, CircuitsTold
    <2>3. done[c] = 0
        BY <1>1, <2>1, <2>2, StepsAre DEF CircuitTold, ToldAt
    <2>4. Made(0) = 0 /\ ~(0 >= 1) /\ ~(0 >= BeaconStep) /\ 0 # LastStep /\ 1 .. 0 = {} /\ Len(<<>>) = 0
        BY StepsAre DEF Made
    <2>5. manifest'[c].contributions = <<>> /\ Reached(c)' = 0
        BY <1>1, <2>1, <2>3 DEF EmptyEntry
    <2>. QED BY <2>4, <2>5 DEF CircuitTold, ToldAt, Recorded
<1>4. StuckTold'
    BY <1>1 DEF Inv, Told, StuckTold, Stuck
<1>. QED BY <1>2, <1>3, <1>4, NobodyRuns DEF CircuitsTold, Told

LEMMA InitPhase2KeepsTold ==
    ASSUME OneScript, Inv, NEW s \in Scripts, NEW c \in Circuits, InitPhase2(s, c)
    PROVE  Told'
<1>1. /\ Takes(s, c, 1)
      /\ zkeys' = [zkeys EXCEPT ![c][0] = <<>>] /\ done' = [done EXCEPT ![c] = 1]
      /\ UNCHANGED <<vkJson, vkBin, manifest, scripts, cut>>
    BY DEF InitPhase2
<1>2. /\ \A t \in Scripts : t = s /\ scripts[t].at = "idle"
      /\ manifest # NoManifest
      /\ repeated \subseteq repeated'
      /\ c \notin repeated' => done[c] = 0
    BY <1>1, TakesIs
<1>3. 0 \in 0 .. Final /\ KeysFit
    BY StepsAre DEF Inv, Types
<1>4. /\ zkeys'[c][0] = <<>>
      /\ SameBut(zkeys, zkeys', c, 0)
    BY <1>1, <1>3, KeyWritten, FirstKeyFits
<1>5. done'[c] = 1 /\ \A d \in Circuits : d # c => done'[d] = done[d]
    BY <1>1 DEF Inv, Types
<1>6. ASSUME manifest' # Torn, NEW d \in Circuits, d \notin repeated' \cup cut' PROVE CircuitTold(d)'
    <2>1. CircuitTold(d)
        BY <1>1, <1>2, <1>6 DEF Inv, Told, CircuitsTold
    <2>2. Reached(d) = done[d] /\ Reached(d)' = done'[d]
        BY <1>1, <1>2 DEF Reached, Recording
    <2>3. CASE d # c
        <3>1. \A i \in 0 .. Final : zkeys'[d][i] = zkeys[d][i]
            BY <1>4, <2>3 DEF SameBut
        <3>2. PICK r : r = done[d]
            OBVIOUS
        <3>3. r \in 0 .. LastStep /\ ToldAt(d, r)
            BY <2>1, <2>2, <3>2 DEF CircuitTold, Inv, Types
        <3>4. Final \in 0 .. Final /\ \A i \in 0 .. Made(r) : i \in 0 .. Final
            BY <3>3, MadeIs, StepsAre
        <3>5. ToldAt(d, r)'
            BY <1>1, <3>1, <3>3, <3>4, CircuitKept
        <3>6. Reached(d)' = r
            BY <1>5, <2>2, <2>3, <3>2
        <3>. QED BY <3>5, <3>6 DEF CircuitTold, ToldAt
    <2>4. CASE d = c
        <3>1. Made(0) = 0 /\ Made(1) = 0 /\ ~(1 >= BeaconStep) /\ 1 # LastStep /\ 1 .. 0 = {}
            BY StepsAre DEF Made
        <3>2. Chain(zkeys'[c], 0)
            BY <1>4, ChainStarts
        <3>3. Recorded(manifest'[c], zkeys'[c], 0)
            <4>1. Reached(c) = 0
                BY <1>2, <1>6, <2>2, <2>4
            <4>. QED BY <1>1, <1>2, <2>1, <2>4, <3>1, <4>1 DEF CircuitTold, ToldAt, Recorded
        <3>4. Reached(c)' = 1
            BY <1>5, <2>2, <2>4
        <3>. QED BY <1>1, <1>2, <2>4, <3>1, <3>2, <3>3, <3>4 DEF CircuitTold, ToldAt
    <2>. QED BY <2>3, <2>4
<1>7. \A t \in Scripts : scripts'[t].at = "idle"
    BY <1>1, <1>2
<1>8. StuckTold'
    <2>1. ASSUME NEW d \in Circuits, d \in cut, d \notin repeated' PROVE d # c
        <3>1. done[d] + 1 \in 2 .. BeaconStep
            BY <1>2, <2>1 DEF Inv, Told, StuckTold, Stuck
        <3>. QED BY <1>2, <2>1, <3>1, StepsAre
    <2>. QED BY <1>1, <1>2, <1>5, <2>1, StillStuck DEF Inv, Told
<1>. QED BY <1>6, <1>7, <1>8, NobodyRuns DEF CircuitsTold, Told

LEMMA ContributeKeepsTold ==
    ASSUME OneScript, Inv, NEW s \in Scripts, NEW c \in Circuits, NEW k \in DOMAIN Names,
           Contribute(s, c, k)
    PROVE  Told'
<1>. DEFINE p == Part(Names[k], Attempt(zkeys[c][k]))
            file == Append(zkeys[c][k - 1], p)
<1>1. /\ Takes(s, c, k + 1)
      /\ Usable(zkeys[c][k - 1])
      /\ zkeys' = [zkeys EXCEPT ![c][k] = file]
      /\ Runs(s, c, k + 1, NoBeacon, "manifest")
      /\ UNCHANGED <<vkJson, vkBin, manifest, done, cut>>
    BY DEF Contribute
<1>2. /\ k \in 1 .. Len(Names) /\ k - 1 \in 0 .. Final /\ k - 1 \in Nat /\ k - 1 + 1 = k
      /\ k \in 0 .. Final /\ k + 1 < BeaconStep /\ k + 1 < LastStep /\ k + 1 - 1 = k /\ k + 1 - 2 = k - 1
    BY NamesAre
<1>3. KeysFit /\ KeyFits(zkeys[c][k], k) /\ KeyFits(zkeys[c][k - 1], k - 1)
    BY <1>2 DEF Inv, Types, KeysFit
<1>4. p \in Parts /\ p.who = Names[k]
    <2>1. Attempt(zkeys[c][k]) \in Nat
        BY <1>2, <1>3, AttemptIsNat
    <2>2. Names[k] \in Whos
        BY NamesAre DEF Whos
    <2>. QED BY <2>1, <2>2, PartIs
<1>. HIDE DEF p
<1>5. KeyFits(file, k)
    BY <1>1, <1>2, <1>3, <1>4, NextKeyFits
<1>. HIDE DEF file
<1>6. /\ zkeys'[c][k] = file
      /\ SameBut(zkeys, zkeys', c, k)
    BY <1>1, <1>2, <1>3, <1>5, KeyWritten
<1>7. /\ \A t \in Scripts : scripts[t].at = "idle"
      /\ manifest # NoManifest /\ repeated \subseteq repeated' /\ (c \notin repeated' => done[c] = k)
    BY <1>1, <1>2, TakesIs
<1>9. c \notin repeated' => RunTold(c, k + 1, NoBeacon, "manifest")'
    <2>1. zkeys'[c][k - 1] = zkeys[c][k - 1]
        BY <1>2, <1>6 DEF SameBut
    <2>2. AddedBy(zkeys'[c][k], zkeys'[c][k - 1], Names[k])
        BY <1>4, <1>6, <2>1 DEF AddedBy, file
    <2>3. k + 1 # BeaconStep /\ k + 1 # LastStep
        BY <1>2, StepsAre
    <2>4. PICK step : step = k + 1 /\ step - 1 = k /\ step - 2 = k - 1
        BY <1>2
    <2>5. c \notin repeated' => RunTold(c, step, NoBeacon, "manifest")'
        BY <1>1, <1>7, <2>2, <2>3, <2>4 DEF RunTold
    <2>. QED BY <2>4, <2>5
<1>10. ScriptsTold' /\ \A t \in Scripts : scripts'[t].at # "written"
    <2>1. scripts' = [scripts EXCEPT ![s] = Script("manifest", c, k + 1, NoBeacon, NoManifest)]
        BY <1>1, RunsOne DEF Inv, Types
    <2>. QED BY <1>1, <1>7, <1>9, <2>1, OneRuns DEF Inv, Types
<1>11. CircuitsTold'
    <2>1. \A d \in Circuits : Reached(d) = done[d] /\ Reached(d)' = Reached(d)
        BY <1>1, <1>7, <1>10, SameReach
    <2>. QED BY <1>1, <1>2, <1>6, <1>7, <2>1, KeyStep
<1>12. StuckTold'
    BY <1>1, <1>7, StillStuck DEF Inv, Told
<1>. QED BY <1>10, <1>11, <1>12 DEF Told

LEMMA BeaconKeepsTold ==
    ASSUME OneScript, Inv, NEW s \in Scripts, NEW c \in Circuits, NEW b \in Beacons, Beacon(s, c, b)
    PROVE  Told'
<1>. DEFINE p == Part(b, 0)
            file == Append(zkeys[c][Final - 1], p)
<1>1. /\ Takes(s, c, BeaconStep)
      /\ Usable(zkeys[c][Final - 1])
      /\ zkeys' = [zkeys EXCEPT ![c][Final] = file]
      /\ Runs(s, c, BeaconStep, b, "manifest")
      /\ UNCHANGED <<vkJson, vkBin, manifest, done, cut>>
    BY DEF Beacon
<1>2. /\ Final - 1 \in 0 .. Final /\ Final - 1 \in Nat /\ Final - 1 + 1 = Final /\ Final - 1 # Final
      /\ Final \in 0 .. Final /\ BeaconStep - 1 = Final
    BY StepsAre
<1>3. KeysFit /\ KeyFits(zkeys[c][Final - 1], Final - 1)
    BY <1>2 DEF Inv, Types, KeysFit
<1>4. p \in Parts /\ p.who = b
    BY PartIs DEF Whos
<1>. HIDE DEF p
<1>5. KeyFits(file, Final)
    BY <1>1, <1>2, <1>3, <1>4, NextKeyFits
<1>. HIDE DEF file
<1>6. /\ zkeys'[c][Final] = file
      /\ SameBut(zkeys, zkeys', c, Final)
    BY <1>1, <1>2, <1>3, <1>5, KeyWritten, ZenonT(40)
<1>7. /\ \A t \in Scripts : scripts[t].at = "idle"
      /\ manifest # NoManifest /\ repeated \subseteq repeated' /\ (c \notin repeated' => done[c] = Final)
    BY <1>1, <1>2, TakesIs
<1>9. c \notin repeated' => RunTold(c, BeaconStep, b, "manifest")'
    <2>1. zkeys'[c][Final - 1] = zkeys[c][Final - 1]
        BY <1>2, <1>6 DEF SameBut
    <2>2. BeaconMade(zkeys'[c], b) /\ b # NoBeacon
        BY <1>4, <1>6, <2>1, CeremonyAssumption DEF AddedBy, file, BeaconMade
    <2>3. BeaconStep = Final + 1 /\ ~(BeaconStep < BeaconStep) /\ BeaconStep # LastStep
        BY StepsAre
    <2>. QED BY <1>1, <1>7, <2>2, <2>3 DEF RunTold
<1>10. ScriptsTold' /\ \A t \in Scripts : scripts'[t].at # "written"
    <2>1. scripts' = [scripts EXCEPT ![s] = Script("manifest", c, BeaconStep, b, NoManifest)]
        BY <1>1, RunsOne DEF Inv, Types
    <2>. QED BY <1>1, <1>7, <1>9, <2>1, OneRuns DEF Inv, Types
<1>11. CircuitsTold'
    <2>1. \A d \in Circuits : Reached(d) = done[d] /\ Reached(d)' = Reached(d)
        BY <1>1, <1>7, <1>10, SameReach
    <2>. QED BY <1>1, <1>2, <1>6, <1>7, <2>1, KeyStep
<1>12. StuckTold'
    BY <1>1, <1>7, StillStuck DEF Inv, Told
<1>. QED BY <1>10, <1>11, <1>12 DEF Told

LEMMA RejectedBeaconKeepsTold ==
    ASSUME OneScript, Inv, NEW s \in Scripts, NEW c \in Circuits, NEW b \in Rejected,
           RejectedBeacon(s, c, b)
    PROVE  Told'
<1>1. /\ Takes(s, c, BeaconStep)
      /\ Runs(s, c, BeaconStep, b, "manifest")
      /\ UNCHANGED <<files, manifest, done, cut>>
    BY DEF RejectedBeacon
<1>2. /\ \A t \in Scripts : scripts[t].at = "idle"
      /\ manifest # NoManifest /\ repeated \subseteq repeated'
      /\ c \notin repeated' => done[c] = BeaconStep - 1
    BY <1>1, TakesIs
<1>3. c \notin repeated' => RunTold(c, BeaconStep, b, "manifest")'
    <2>1. BeaconStep = BeaconStep - 1 + 1 /\ ~(BeaconStep < BeaconStep) /\ BeaconStep # LastStep
        BY StepsAre
    <2>2. b # NoBeacon
        BY CeremonyAssumption
    <2>. QED BY <1>1, <1>2, <2>1, <2>2 DEF RunTold
<1>4. ScriptsTold' /\ \A t \in Scripts : scripts'[t].at # "written"
    <2>1. scripts' = [scripts EXCEPT ![s] = Script("manifest", c, BeaconStep, b, NoManifest)]
        BY <1>1, RunsOne DEF Inv, Types
    <2>. QED BY <1>1, <1>2, <1>3, <2>1, OneRuns DEF Inv, Types
<1>5. CircuitsTold'
    <2>1. \A d \in Circuits : Reached(d) = done[d] /\ Reached(d)' = Reached(d)
        BY <1>1, <1>2, <1>4, SameReach
    <2>. QED BY <1>1, <1>2, <2>1, SameCircuitsTold
<1>6. StuckTold'
    BY <1>1, <1>2, StillStuck DEF Inv, Told
<1>. QED BY <1>4, <1>5, <1>6 DEF Told

LEMMA ExportJsonKeepsTold ==
    ASSUME OneScript, Inv, NEW s \in Scripts, NEW c \in Circuits, ExportJson(s, c)
    PROVE  Told'
<1>1. /\ Takes(s, c, LastStep)
      /\ Usable(zkeys[c][Final])
      /\ vkJson' = [vkJson EXCEPT ![c] = zkeys[c][Final]]
      /\ Runs(s, c, LastStep, NoBeacon, "vkBin")
      /\ UNCHANGED <<zkeys, vkBin, manifest, done, cut>>
    BY DEF ExportJson
<1>2. /\ \A t \in Scripts : scripts[t].at = "idle"
      /\ manifest # NoManifest /\ repeated \subseteq repeated'
      /\ c \notin repeated' => done[c] = LastStep - 1
    BY <1>1, TakesIs
<1>3. /\ LastStep - 1 # LastStep /\ LastStep = LastStep - 1 + 1
      /\ ~(LastStep < BeaconStep) /\ LastStep # BeaconStep
    BY StepsAre
<1>4. vkJson'[c] = zkeys[c][Final] /\ \A d \in Circuits : d # c => vkJson'[d] = vkJson[d]
    BY <1>1 DEF Inv, Types, Of
<1>5. c \notin repeated' => RunTold(c, LastStep, NoBeacon, "vkBin")'
    BY <1>1, <1>2, <1>3, <1>4 DEF RunTold
<1>6. ScriptsTold' /\ \A t \in Scripts : scripts'[t].at # "written"
    <2>1. scripts' = [scripts EXCEPT ![s] = Script("vkBin", c, LastStep, NoBeacon, NoManifest)]
        BY <1>1, RunsOne DEF Inv, Types
    <2>. QED BY <1>1, <1>2, <1>5, <2>1, OneRuns DEF Inv, Types
<1>7. CircuitsTold'
    <2>1. \A d \in Circuits : Reached(d) = done[d] /\ Reached(d)' = Reached(d)
        BY <1>1, <1>2, <1>6, SameReach
    <2>. QED BY <1>1, <1>2, <1>3, <1>4, <2>1, ExportStep
<1>8. StuckTold'
    BY <1>1, <1>2, StillStuck DEF Inv, Told
<1>. QED BY <1>6, <1>7, <1>8 DEF Told

LEMMA DeleteFirstKeepsTold ==
    ASSUME OneScript, Inv, NEW c \in Circuits, DeleteFirst(c)
    PROVE  Told'
<1>1. /\ done[c] = 0
      /\ zkeys' = [zkeys EXCEPT ![c][0] = Absent]
      /\ UNCHANGED <<vkJson, vkBin, manifest, done, scripts, repeated, cut>>
    BY DEF DeleteFirst
<1>2. 0 \in 0 .. Final /\ KeysFit
    BY StepsAre DEF Inv, Types
<1>3. SameBut(zkeys, zkeys', c, 0)
    BY <1>1, <1>2, KeyWritten, AbsentFits
<1>4. CircuitsTold'
    <2>1. \A d \in Circuits : Reached(d)' = Reached(d)
        BY <1>1 DEF Reached, Recording
    <2>2. c \notin repeated => Reached(c) = 0
        BY <1>1, ReachedIs DEF Reached
    <2>. QED BY <1>1, <1>2, <1>3, <2>1, <2>2, KeyStep
<1>5. ASSUME NEW t \in Scripts, scripts'[t].at # "idle" PROVE Edited(t)'
    <2>. DEFINE d == scripts[t].circuit
                step == scripts[t].step
    <2>1. scripts[t].at # "idle" /\ Edited(t)
        BY <1>1, <1>5 DEF Inv, Told, ScriptsTold, ScriptTold
    <2>2. d \in Circuits /\ step \in 2 .. LastStep
        BY <2>1 DEF Inv, Types, ScriptFits
    <2>3. zkeys'[d][Final] = zkeys[d][Final]
        BY <1>3, <2>2, StepsAre DEF SameBut
    <2>4. step < BeaconStep => zkeys'[d][step - 1] = zkeys[d][step - 1]
        <3>1. step < BeaconStep => step - 1 \in 0 .. Final /\ step - 1 # 0
            BY <2>2, StepsAre
        <3>. QED BY <1>3, <2>2, <3>1 DEF SameBut
    <2>5. step # LastStep /\ step # BeaconStep => step < BeaconStep
        BY <2>2, StepsAre
    <2>6. Rewritten(t)' = Rewritten(t)
        <3>1. PICK x : x = d
            OBVIOUS
        <3>2. PICK k : k = step
            OBVIOUS
        <3>3. PICK b : b = scripts[t].beacon
            OBVIOUS
        <3>4. PICK e : e = manifest[x]
            OBVIOUS
        <3>5. Edit(e, x, k, b)' = Edit(e, x, k, b)
            <4>1. zkeys'[x][Final] = zkeys[x][Final]
                BY <2>3, <3>1
            <4>2. k = LastStep \/ k = BeaconStep \/ zkeys'[x][k - 1] = zkeys[x][k - 1]
                BY <2>4, <2>5, <3>1, <3>2
            <4>3. k = LastStep \/ k = BeaconStep \/ Contribution(x, k - 1)' = Contribution(x, k - 1)
                BY <4>2 DEF Contribution
            <4>. QED BY <1>1, <4>1, <4>3 DEF Edit, FinalizeCircuit, AddContribution
        <3>6. Rewritten(t) = [manifest EXCEPT ![x] = Edit(e, x, k, b)]
            BY <3>1, <3>2, <3>3, <3>4 DEF Rewritten
        <3>7. Rewritten(t)' = [manifest' EXCEPT ![x] = Edit(e, x, k, b)']
            <4>1. /\ scripts'[t].circuit = x /\ scripts'[t].step = k /\ scripts'[t].beacon = b
                  /\ manifest'[x] = e
                BY <1>1, <3>1, <3>2, <3>3, <3>4
            <4>. QED BY <4>1 DEF Rewritten, Edit, FinalizeCircuit, AddContribution, Contribution
        <3>. QED BY <1>1, <3>5, <3>6, <3>7
    <2>7. Refused(d, step)' <=> Refused(d, step)
        BY <1>1 DEF Refused, HasName
    <2>. QED BY <1>1, <2>1, <2>6, <2>7 DEF Edited
<1>6. ASSUME NEW t \in Scripts, scripts'[t].at # "idle", scripts'[t].circuit \notin repeated'
      PROVE  RunOf(t)'
    <2>. DEFINE d == scripts[t].circuit
                step == scripts[t].step
    <2>1. scripts[t].at # "idle" /\ RunOf(t)
        BY <1>1, <1>6 DEF Inv, Told, ScriptsTold, ScriptTold
    <2>2. d \in Circuits /\ step \in 2 .. LastStep
        BY <2>1 DEF Inv, Types, ScriptFits
    <2>3. d # c
        BY <1>1, <2>1, <2>2 DEF RunOf, RunTold
    <2>4. \A i \in 0 .. Final : zkeys'[d][i] = zkeys[d][i]
        BY <1>3, <2>2, <2>3 DEF SameBut
    <2>5. zkeys'[d][Final] = zkeys[d][Final] /\ zkeys'[d][Final - 1] = zkeys[d][Final - 1]
        BY <2>4, StepsAre
    <2>6. step < BeaconStep => zkeys'[d][step - 1] = zkeys[d][step - 1] /\ zkeys'[d][step - 2] = zkeys[d][step - 2]
        BY <2>2, <2>4, StepsAre, SMTT(30)
    <2>. QED BY <1>1, <2>1, <2>5, <2>6 DEF RunOf, RunTold, BeaconMade
<1>7. ASSUME NEW t \in Scripts, scripts'[t].at = "written", scripts'[t].circuit \notin repeated'
      PROVE  RecordOf(t)'
    <2>1. RecordOf(t)
        BY <1>1, <1>7 DEF Inv, Told, ScriptsTold, ScriptTold
    <2>. QED BY <1>1, <2>1 DEF RecordOf, Refused, HasName
<1>8. StuckTold'
    BY <1>1, StillStuck DEF Inv, Told
<1>. QED BY <1>4, <1>5, <1>6, <1>7, <1>8 DEF ScriptsTold, ScriptTold, Told

LEMMA ExportBinKeepsTold ==
    ASSUME OneScript, Inv, NEW s \in Scripts, ExportBin(s)
    PROVE  Told'
<1>1. PICK c, step, beacon, edited :
        /\ c = scripts[s].circuit /\ step = scripts[s].step
        /\ beacon = scripts[s].beacon /\ edited = scripts[s].edited
    OBVIOUS
<1>2. /\ scripts[s].at = "vkBin"
      /\ vkBin' = [vkBin EXCEPT ![c] = vkJson[c]]
      /\ UNCHANGED <<zkeys, vkJson, manifest, done, repeated, cut>>
    BY <1>1 DEF ExportBin
<1>3. scripts' = [scripts EXCEPT ![s] = Script("manifest", c, step, beacon, edited)]
    BY <1>1, ExportBinOne DEF Inv
<1>4. c \in Circuits /\ step \in 2 .. LastStep
    BY <1>1, <1>2 DEF Inv, Types, ScriptFits
<1>5. manifest # NoManifest /\ (c \notin repeated => RunTold(c, step, beacon, "vkBin"))
    <2>1. ScriptTold(s)
        BY DEF Inv, Told, ScriptsTold
    <2>. QED BY <1>1, <1>2, <2>1 DEF ScriptTold, Edited, RunOf
<1>6. vkBin'[c] = vkJson[c] /\ \A d \in Circuits : d # c => vkBin'[d] = vkBin[d]
    BY <1>2, <1>4 DEF Inv, Types, Of
<1>7. c \notin repeated => done[c] # LastStep
    BY <1>4, <1>5, StepsAre DEF RunTold, Inv, Types
<1>9. c \notin repeated => RunTold(c, step, beacon, "manifest")'
    BY <1>2, <1>5, <1>6 DEF RunTold
<1>10. ScriptsTold' /\ \A t \in Scripts : scripts'[t].at # "written"
    BY <1>2, <1>3, <1>5, <1>9, OneRuns DEF Inv, Types
<1>11. CircuitsTold'
    <2>1. \A t \in Scripts : scripts[t].at # "written"
        BY <1>2 DEF OneScript
    <2>2. \A d \in Circuits : Reached(d) = done[d] /\ Reached(d)' = Reached(d)
        BY <1>2, <1>10, <2>1, SameReach
    <2>. QED BY <1>2, <1>4, <1>6, <1>7, <2>2, ExportStep
<1>12. StuckTold'
    BY <1>2, StillStuck DEF Inv, Told
<1>. QED BY <1>10, <1>11, <1>12 DEF Told

LEMMA ReadManifestKeepsTold ==
    ASSUME OneScript, Inv, NEW s \in Scripts, ReadManifest(s)
    PROVE  Told'
<1>1. PICK c, step, beacon, edited :
        /\ c = scripts[s].circuit /\ step = scripts[s].step
        /\ beacon = scripts[s].beacon /\ edited = Rewritten(s)
    OBVIOUS
<1>2. /\ scripts[s].at = "manifest" /\ ~Refused(c, step)
      /\ UNCHANGED <<files, manifest, done, repeated, cut>>
    BY <1>1 DEF ReadManifest
<1>3. /\ scripts' = [scripts EXCEPT ![s] = Script("writing", c, step, beacon, edited)]
      /\ manifest # NoManifest
    BY <1>1, ReadManifestOne DEF Inv
<1>5. scripts'[s] = Script("writing", c, step, beacon, edited)
    BY <1>3, ScriptWritten DEF Inv, Types
<1>6. /\ scripts'[s].at = "writing" /\ scripts'[s].circuit = c /\ scripts'[s].step = step
      /\ scripts'[s].beacon = beacon /\ scripts'[s].edited = edited
    BY <1>5, ScriptIs
<1>7. Rewritten(s)' = edited
    <2>1. edited = [manifest EXCEPT ![c] = Edit(manifest[c], c, step, beacon)]
        BY <1>1 DEF Rewritten
    <2>2. PICK e : e = manifest[c]
        OBVIOUS
    <2>3. Edit(e, c, step, beacon)' = Edit(e, c, step, beacon)
        BY <1>2 DEF Edit, FinalizeCircuit, AddContribution, Contribution, files
    <2>4. Rewritten(s)' = [manifest' EXCEPT ![c] = Edit(e, c, step, beacon)']
        <3>1. manifest'[c] = e
            BY <1>2, <2>2
        <3>. QED BY <1>6, <3>1 DEF Rewritten, Edit, FinalizeCircuit, AddContribution, Contribution
    <2>. QED BY <1>2, <2>1, <2>2, <2>3, <2>4
<1>8. Edited(s)'
    <2>1. ~Refused(c, step)'
        BY <1>2 DEF Refused, HasName
    <2>2. Refused(scripts[s].circuit, scripts[s].step)' <=> Refused(c, step)'
        BY <1>6 DEF Refused, HasName
    <2>. QED BY <1>2, <1>3, <1>6, <1>7, <2>1, <2>2 DEF Edited
<1>9. c \notin repeated' => RunOf(s)'
    <2>1. ScriptTold(s)
        BY DEF Inv, Told, ScriptsTold
    <2>2. c \notin repeated => RunTold(c, step, beacon, "manifest")
        BY <1>1, <1>2, <2>1 DEF ScriptTold, RunOf
    <2>. QED BY <1>2, <1>6, <2>2 DEF RunOf, RunTold, files
<1>10. ScriptTold(s)'
    BY <1>6, <1>8, <1>9 DEF ScriptTold
<1>11. ScriptsTold' /\ \A t \in Scripts : t = s
    BY <1>10 DEF OneScript, ScriptsTold
<1>12. CircuitsTold'
    <2>1. \A d \in Circuits : Reached(d)' = Reached(d)
        BY <1>2, <1>6, <1>11, SameReach
    <2>. QED BY <1>2, <2>1, SameCircuitsTold
<1>13. StuckTold'
    BY <1>2, StillStuck DEF Inv, Told
<1>. QED BY <1>11, <1>12, <1>13 DEF Told

(* A script ends, in success or not. *)
LEMMA IdleAfter ==
    ASSUME OneScript, Types, NEW s \in Scripts, scripts' = [scripts EXCEPT ![s] = Idle]
    PROVE  ScriptsTold' /\ \A t \in Scripts : scripts'[t].at = "idle"
<1>1. scripts'[s].at = "idle"
    BY ScriptWritten, IdleFits DEF Types
<1>2. \A t \in Scripts : scripts'[t].at = "idle"
    BY <1>1 DEF OneScript
<1>. QED BY <1>2, NobodyRuns

LEMMA RefuseKeepsTold ==
    ASSUME OneScript, Inv, NEW s \in Scripts, Refuse(s)
    PROVE  Told'
<1>1. /\ scripts[s].at = "manifest"
      /\ scripts' = [scripts EXCEPT ![s] = Idle]
      /\ UNCHANGED <<files, manifest, done, repeated, cut>>
    BY DEF Refuse
<1>2. ScriptsTold' /\ \A t \in Scripts : scripts'[t].at = "idle"
    BY <1>1, IdleAfter DEF Inv
<1>3. \A t \in Scripts : scripts[t].at # "written"
    BY <1>1 DEF OneScript
<1>4. CircuitsTold'
    BY <1>1, <1>2, <1>3, SameReach, SameCircuitsTold
<1>5. StuckTold'
    BY <1>1, StillStuck DEF Inv, Told
<1>. QED BY <1>2, <1>4, <1>5 DEF Told

LEMMA SucceedKeepsTold ==
    ASSUME OneScript, Inv, NEW s \in Scripts, Succeed(s)
    PROVE  Told'
<1>1. PICK c, step : c = scripts[s].circuit /\ step = scripts[s].step
    OBVIOUS
<1>2. /\ scripts[s].at = "written"
      /\ done' = [done EXCEPT ![c] = IF step > @ THEN step ELSE @]
      /\ scripts' = [scripts EXCEPT ![s] = Idle]
      /\ UNCHANGED <<files, manifest, repeated, cut>>
    BY <1>1 DEF Succeed
<1>3. ScriptsTold' /\ \A t \in Scripts : t = s /\ scripts'[t].at = "idle"
    BY <1>2, IdleAfter DEF Inv, OneScript
<1>4. c \in Circuits /\ \A d \in Circuits : d # c => done'[d] = done[d]
    BY <1>1, <1>2 DEF Inv, Types, ScriptFits
<1>5. ASSUME c \notin repeated PROVE step = done[c] + 1 /\ done'[c] = step /\ c \notin cut
    <2>1. step = done[c] + 1 /\ c \notin cut
        BY <1>1, <1>2, <1>5 DEF Inv, Told, ScriptsTold, ScriptTold, RunOf, RunTold, RecordOf
    <2>. QED BY <1>2, <1>4, <2>1 DEF Inv, Types
<1>6. CircuitsTold'
    <2>1. ASSUME NEW d \in Circuits, d \notin repeated' PROVE Reached(d)' = Reached(d)
        <3>1. Reached(d)' = done'[d]
            BY <1>3 DEF Reached, Recording
        <3>2. CASE d = c
            <4>1. Reached(d) = done[d] + 1
                BY <1>1, <1>2, <3>2 DEF Reached, Recording
            <4>. QED BY <1>2, <1>5, <2>1, <3>1, <3>2, <4>1
        <3>3. CASE d # c
            <4>1. Reached(d) = done[d]
                BY <1>1, <1>3, <3>3 DEF Reached, Recording
            <4>. QED BY <1>4, <3>1, <3>3, <4>1
        <3>. QED BY <3>2, <3>3
    <2>. QED BY <1>2, <2>1, SameCircuitsTold
<1>7. StuckTold'
    BY <1>2, <1>4, <1>5, StillStuck DEF Inv, Told
<1>. QED BY <1>3, <1>6, <1>7 DEF Told

(* Killed between its record and its exit, a script leaves its circuit     *)
(* stuck, or finished. *)
LEMMA CrashKeepsTold ==
    ASSUME OneScript, Inv, NEW s \in Scripts, Crash(s)
    PROVE  Told'
<1>1. PICK c, step : c = scripts[s].circuit /\ step = scripts[s].step
    OBVIOUS
<1>2. /\ scripts[s].at # "idle"
      /\ cut' = IF scripts[s].at = "written" /\ step < LastStep THEN cut \cup {c} ELSE cut
      /\ scripts' = [scripts EXCEPT ![s] = Idle]
      /\ UNCHANGED <<files, manifest, done, repeated>>
    BY <1>1 DEF Crash
<1>3. ScriptsTold' /\ \A t \in Scripts : t = s /\ scripts'[t].at = "idle"
    BY <1>2, IdleAfter DEF Inv, OneScript
<1>4. c \in Circuits /\ step \in 2 .. LastStep
    BY <1>1, <1>2 DEF Inv, Types, ScriptFits
<1>5. ScriptTold(s)
    BY DEF Inv, Told, ScriptsTold
<1>6. CircuitsTold'
    <2>. SUFFICES ASSUME manifest' # Torn, NEW d \in Circuits, d \notin repeated' \cup cut'
                  PROVE  CircuitTold(d)'
        BY DEF CircuitsTold
    <2>1. CircuitTold(d)
        BY <1>2 DEF Inv, Told, CircuitsTold
    <2>2. PICK r : r = done[d]
        OBVIOUS
    <2>3. Reached(d)' = r /\ r \in 0 .. LastStep
        BY <1>2, <1>3, <2>2 DEF Reached, Recording, Inv, Types
    <2>4. ToldAt(d, r)
        <3>1. CASE scripts[s].at = "written" /\ d = c
            <4>1. step = LastStep /\ step = r + 1
                <5>1. step = LastStep
                    BY <1>2, <1>4, <3>1, StepsAre
                <5>2. RunOf(s)
                    BY <1>1, <1>2, <1>5, <3>1 DEF ScriptTold
                <5>. QED BY <1>1, <2>2, <3>1, <5>1, <5>2 DEF RunOf, RunTold
            <4>2. Reached(d) = LastStep
                BY <1>1, <2>2, <3>1, <4>1 DEF Reached, Recording
            <4>3. /\ r >= BeaconStep /\ r >= 1 /\ r # LastStep
                  /\ LastStep >= BeaconStep /\ LastStep >= 1 /\ LastStep \in 0 .. LastStep
                <5>1. r \in Int /\ LastStep = r + 1
                    BY <2>3, <4>1
                <5>. QED BY <5>1, StepsAre
            <4>4. Made(r) = Made(LastStep)
                BY <2>3, <4>3, MadeIs
            <4>5. ToldAt(d, LastStep)
                BY <2>1, <4>2 DEF CircuitTold
            <4>6. /\ manifest # NoManifest /\ Chain(zkeys[d], Made(LastStep))
                  /\ Recorded(manifest[d], zkeys[d], Made(LastStep))
                BY <4>3, <4>5 DEF ToldAt
            <4>7. manifest[d].beacon \notin Rejected => BeaconMade(zkeys[d], manifest[d].beacon)
                BY <4>3, <4>5 DEF ToldAt
            <4>. QED BY <4>3, <4>4, <4>6, <4>7 DEF ToldAt
        <3>2. CASE ~(scripts[s].at = "written" /\ d = c)
            <4>1. Reached(d) = r
                BY <1>1, <1>3, <2>2, <3>2 DEF Reached, Recording
            <4>. QED BY <2>1, <4>1 DEF CircuitTold, ToldAt
        <3>. QED BY <3>1, <3>2
    <2>5. ToldAt(d, r)'
        BY <1>2, <2>3, <2>4, CircuitKept DEF files
    <2>. QED BY <2>3, <2>5 DEF CircuitTold, ToldAt
<1>7. StuckTold'
    <2>. SUFFICES ASSUME NEW d \in Circuits, d \in cut', d \notin repeated' PROVE Stuck(d)'
        BY DEF StuckTold
    <2>1. Stuck(d)
        <3>1. CASE d \in cut
            BY <1>2, <3>1 DEF Inv, Told, StuckTold
        <3>2. CASE d \notin cut
            <4>1. d = c /\ scripts[s].at = "written" /\ step < LastStep
                BY <1>2, <3>2
            <4>2. manifest # NoManifest /\ step = done[c] + 1 /\ Refused(c, step)
                BY <1>1, <1>2, <1>5, <4>1 DEF ScriptTold, Edited, RunOf, RunTold, RecordOf
            <4>3. step \in 2 .. BeaconStep
                BY <1>4, <4>1, StepsAre
            <4>. QED BY <4>1, <4>2, <4>3 DEF Stuck
        <3>. QED BY <3>1, <3>2
    <2>. QED BY <1>2, <2>1 DEF Stuck, Refused, HasName
<1>. QED BY <1>3, <1>6, <1>7 DEF Told

LEMMA BreakKeepsTold ==
    ASSUME OneScript, Inv, NEW s \in Scripts, Break(s)
    PROVE  Told'
<1>1. ASSUME NEW c \in Circuits, NEW k \in 0 .. Final, BreakKey(s, c, k)
      PROVE  Told'
    <2>1. /\ Takes(s, c, k + 1)
          /\ k = 0 => zkeys[c][0] = Absent
          /\ zkeys' = [zkeys EXCEPT ![c][k] = Broken(zkeys[c][k])]
          /\ UNCHANGED <<vkJson, vkBin, manifest, done, scripts, cut>>
        BY <1>1 DEF BreakKey
    <2>2. k \in Nat /\ k + 1 - 1 = k /\ KeysFit /\ KeyFits(zkeys[c][k], k) /\ (k > 0 \/ zkeys[c][k] = Absent)
        BY <2>1, StepsAre DEF Inv, Types, KeysFit
    <2>3. KeyFits(Broken(zkeys[c][k]), k)
        BY <2>2, AttemptIsNat, BrokenFits
    <2>4. SameBut(zkeys, zkeys', c, k)
        BY <2>1, <2>2, <2>3, KeyWritten
    <2>5. /\ \A t \in Scripts : t = s /\ scripts[t].at = "idle" /\ scripts'[t].at = "idle"
          /\ repeated \subseteq repeated' /\ (c \notin repeated' => done[c] = k)
        BY <2>1, <2>2, TakesIs
    <2>6. \A d \in Circuits : Reached(d) = done[d] /\ Reached(d)' = Reached(d)
        BY <2>1, <2>5, SameReach
    <2>7. CircuitsTold' /\ StuckTold'
        BY <2>1, <2>4, <2>5, <2>6, KeyStep, StillStuck DEF Inv, Told
    <2>. QED BY <2>5, <2>7, NobodyRuns DEF Told
<1>2. ASSUME NEW c \in Circuits, BreakJson(s, c) PROVE Told'
    <2>1. /\ Takes(s, c, LastStep)
          /\ vkJson' = [vkJson EXCEPT ![c] = Broken(Absent)]
          /\ UNCHANGED <<zkeys, vkBin, manifest, done, scripts, cut>>
        BY <1>2 DEF BreakJson
    <2>2. /\ \A t \in Scripts : t = s /\ scripts[t].at = "idle" /\ scripts'[t].at = "idle"
          /\ repeated \subseteq repeated' /\ (c \notin repeated' => done[c] = LastStep - 1)
        BY <2>1, TakesIs
    <2>3. \A d \in Circuits : d # c => vkJson'[d] = vkJson[d]
        BY <2>1 DEF Inv, Types, Of
    <2>4. LastStep - 1 # LastStep
        BY StepsAre
    <2>5. \A d \in Circuits : Reached(d) = done[d] /\ Reached(d)' = Reached(d)
        BY <2>1, <2>2, SameReach
    <2>6. CircuitsTold' /\ StuckTold'
        BY <2>1, <2>2, <2>3, <2>4, <2>5, ExportStep, StillStuck DEF Inv, Told
    <2>. QED BY <2>2, <2>6, NobodyRuns DEF Told
<1>3. ASSUME BreakBin(s) PROVE Told'
    <2>1. PICK c : c = scripts[s].circuit
        OBVIOUS
    <2>2. /\ scripts[s].at = "vkBin"
          /\ vkBin' = [vkBin EXCEPT ![c] = Broken(Absent)]
          /\ scripts' = [scripts EXCEPT ![s] = Idle]
          /\ UNCHANGED <<zkeys, vkJson, manifest, done, repeated, cut>>
        BY <1>3, <2>1 DEF BreakBin
    <2>3. c \in Circuits /\ scripts[s].step \in 2 .. LastStep
        BY <2>1, <2>2 DEF Inv, Types, ScriptFits
    <2>4. \A d \in Circuits : d # c => vkBin'[d] = vkBin[d]
        BY <2>2 DEF Inv, Types, Of
    <2>5. c \notin repeated => done[c] # LastStep
        <3>1. ScriptTold(s)
            BY DEF Inv, Told, ScriptsTold
        <3>2. c \notin repeated => scripts[s].step = done[c] + 1
            BY <2>1, <2>2, <3>1 DEF ScriptTold, RunOf, RunTold
        <3>. QED BY <2>3, <3>2, StepsAre DEF Inv, Types
    <2>6. ScriptsTold' /\ \A t \in Scripts : t = s /\ scripts'[t].at = "idle"
        BY <2>2, IdleAfter DEF Inv, OneScript
    <2>7. \A d \in Circuits : Reached(d) = done[d] /\ Reached(d)' = Reached(d)
        <3>1. \A t \in Scripts : scripts[t].at # "written" /\ scripts'[t].at # "written"
            BY <2>2, <2>6
        <3>. QED BY <2>2, <3>1, SameReach
    <2>8. CircuitsTold' /\ StuckTold'
        BY <2>2, <2>3, <2>4, <2>5, <2>7, ExportStep, StillStuck DEF Inv, Told
    <2>. QED BY <2>6, <2>8 DEF Told
<1>4. ASSUME BreakManifest(s) PROVE Told'
    <2>1. /\ manifest' = Torn /\ scripts' = [scripts EXCEPT ![s] = Idle]
          /\ UNCHANGED <<done, repeated, cut>>
        BY <1>4 DEF BreakManifest
    <2>2. ScriptsTold' /\ CircuitsTold'
        BY <2>1, IdleAfter DEF Inv, CircuitsTold
    <2>3. StuckTold'
        BY <2>1, ManifestsDiffer DEF Inv, Told, StuckTold, Stuck, Refused
    <2>. QED BY <2>2, <2>3 DEF Told
<1>. QED BY <1>1, <1>2, <1>3, <1>4, BreakIs

LEMMA PrefixOfItself ==
    ASSUME NEW T, NEW q \in Seq(T)
    PROVE  IsPrefix(q, q)
BY DEF IsPrefix

LEMMA SubSeqIs ==
    ASSUME NEW T, NEW q \in Seq(T), NEW r \in Seq(T), Len(q) <= Len(r),
           \A i \in 1 .. Len(q) : r[i] = q[i]
    PROVE  SubSeq(r, 1, Len(q)) = q
<1>. DEFINE n == Len(q)
            t == SubSeq(r, 1, n)
<1>1. n \in Nat /\ n <= Len(r)
    OBVIOUS
<1>2. t \in Seq(T) /\ Len(t) = n /\ \A i \in 1 .. n : t[i] = r[i]
    BY <1>1
<1>. HIDE DEF t
<1>3. t = q
    BY <1>2, SeqEqual
<1>. QED BY <1>3 DEF t

LEMMA PrefixOfAppended ==
    ASSUME NEW T, NEW q \in Seq(T), NEW x \in T
    PROVE  IsPrefix(q, Append(q, x))
<1>1. /\ Append(q, x) \in Seq(T) /\ Len(q) <= Len(Append(q, x))
      /\ \A i \in 1 .. Len(q) : Append(q, x)[i] = q[i]
    OBVIOUS
<1>2. SubSeq(Append(q, x), 1, Len(q)) = q
    BY <1>1, SubSeqIs
<1>3. SubSeq(q, 1, Len(q)) = q
    BY SubSeqIs
<1>. QED BY <1>1, <1>2, <1>3 DEF IsPrefix

(* What the manifest is after a script has rewritten it. *)
LEMMA WrittenIs ==
    ASSUME Inv, NEW s \in Scripts, WriteManifest(s), NEW c, c = scripts[s].circuit,
           NEW step, step = scripts[s].step, NEW beacon, beacon = scripts[s].beacon
    PROVE  /\ c \in Circuits /\ step \in 2 .. LastStep
           /\ manifest \notin {NoManifest, Torn} /\ manifest' # NoManifest /\ ~Refused(c, step)
           /\ \A d \in Circuits : IsEntry(manifest[d])
           /\ manifest'[c] = Edit(manifest[c], c, step, beacon)
           /\ \A d \in Circuits : d # c => manifest'[d] = manifest[d]
<1>1. scripts[s].at = "writing" /\ manifest' = scripts[s].edited
    BY DEF WriteManifest
<1>2. c \in Circuits /\ step \in 2 .. LastStep
    BY <1>1 DEF Inv, Types, ScriptFits
<1>3. Edited(s)
    BY <1>1 DEF Inv, Told, ScriptsTold, ScriptTold
<1>4. manifest \notin {NoManifest, Torn} /\ ~Refused(c, step) /\ manifest' = Rewritten(s)
    BY <1>1, <1>3 DEF Edited, Refused
<1>5. \A d \in Circuits : IsEntry(manifest[d])
    BY <1>4 DEF Inv, Types, IsManifest
<1>6. /\ Of(Rewritten(s), Circuits)
      /\ Rewritten(s)[c] = Edit(manifest[c], c, step, beacon)
      /\ \A d \in Circuits : d # c => Rewritten(s)[d] = manifest[d]
    BY <1>1, <1>4, RewrittenIs DEF Inv
<1>7. manifest' # NoManifest
    <2>1. DOMAIN NoManifest = {} /\ DOMAIN Rewritten(s) = Circuits
        BY <1>6 DEF NoManifest, Of
    <2>. QED BY <1>2, <1>4, <2>1
<1>. QED BY <1>2, <1>4, <1>5, <1>6, <1>7

LEMMA WriteManifestKeepsTold ==
    ASSUME OneScript, Inv, NEW s \in Scripts, WriteManifest(s)
    PROVE  Told'
<1>1. PICK c, step, beacon :
        c = scripts[s].circuit /\ step = scripts[s].step /\ beacon = scripts[s].beacon
    OBVIOUS
<1>. DEFINE old == manifest[c]
            new == manifest'[c]
            d == done[c]
            keys == zkeys[c]
<1>2. /\ scripts[s].at = "writing"
      /\ UNCHANGED <<files, done, repeated, cut>>
    BY <1>1 DEF WriteManifest
<1>3. /\ c \in Circuits /\ step \in 2 .. LastStep
      /\ manifest \notin {NoManifest, Torn} /\ manifest' # NoManifest /\ ~Refused(c, step) /\ IsEntry(old)
      /\ manifest'[c] = Edit(manifest[c], c, step, beacon)
      /\ \A b \in Circuits : b # c => manifest'[b] = manifest[b]
    BY <1>1, WrittenIs
<1>4. /\ new.contributions = IF step < BeaconStep
                             THEN Append(old.contributions, Contribution(c, step - 1))
                             ELSE old.contributions
      /\ new.beacon = IF step = BeaconStep THEN beacon ELSE old.beacon
      /\ new.final = IF step = LastStep
                     THEN [zkey |-> zkeys[c][Final], vkJson |-> vkJson[c], vkBin |-> vkBin[c]]
                     ELSE old.final
    BY <1>3, EditIs DEF Inv
<1>5. /\ \A t \in Scripts : t = s
      /\ scripts'[s].at = "written" /\ scripts'[s].circuit = c /\ scripts'[s].step = step
      /\ scripts'[s].beacon = beacon
    <2>1. PICK edited : edited = scripts[s].edited
        OBVIOUS
    <2>2. scripts' = [scripts EXCEPT ![s] = Script("written", c, step, beacon, edited)]
        BY <1>1, <2>1, WriteManifestOne DEF Inv
    <2>3. scripts'[s] = Script("written", c, step, beacon, edited)
        BY <2>2, ScriptWritten DEF Inv, Types
    <2>. QED BY <2>3, ScriptIs DEF OneScript
<1>6. ScriptTold(s)
    BY DEF Inv, Told, ScriptsTold
<1>7. ASSUME NEW b \in Circuits, b # c, b \notin repeated' \cup cut' PROVE CircuitTold(b)'
    <2>1. CircuitTold(b)
        BY <1>2, <1>3, <1>7 DEF Inv, Told, CircuitsTold
    <2>2. PICK r : r = Reached(b)
        OBVIOUS
    <2>3. Reached(b)' = r
        BY <1>1, <1>2, <1>5, <1>7, <2>2 DEF Reached, Recording
    <2>4. ToldAt(b, r)'
        BY <1>2, <1>3, <1>7, <2>1, <2>2 DEF CircuitTold, ToldAt, Finished, files
    <2>. QED BY <2>3, <2>4 DEF CircuitTold, ToldAt
<1>8. ASSUME c \notin repeated' PROVE RunTold(c, step, beacon, "writing")
    BY <1>1, <1>2, <1>6, <1>8 DEF ScriptTold, RunOf
<1>9. ASSUME c \notin repeated' PROVE c \notin cut'
    <2>1. step = d + 1
        BY <1>8, <1>9 DEF RunTold
    <2>2. ~Stuck(c)
        BY <1>3, <2>1 DEF Stuck
    <2>. QED BY <1>2, <1>3, <1>9, <2>2 DEF Inv, Told, StuckTold
<1>10. ASSUME c \notin repeated' PROVE ToldAt(c, step)' /\ Reached(c)' = step
    <2>1. ToldAt(c, d) /\ RunTold(c, step, beacon, "writing")
        <3>1. CircuitTold(c)
            BY <1>2, <1>3, <1>9, <1>10 DEF Inv, Told, CircuitsTold
        <3>2. Reached(c) = d
            BY <1>2, <1>5 DEF Reached, Recording
        <3>. QED BY <1>8, <1>10, <3>1, <3>2 DEF CircuitTold
    <2>2. d \in 0 .. LastStep /\ step = d + 1 /\ d >= 1
        BY <1>3, <2>1 DEF RunTold, Inv, Types
    <2>3. Reached(c)' = step
        BY <1>2, <1>5, <2>2 DEF Reached, Recording
    <2>4. UNCHANGED <<zkeys, vkJson, vkBin>>
        BY <1>2 DEF files
    <2>5. Recorded(old, keys, Made(d)) /\ Chain(keys, Made(d))
        BY <1>3, <2>1, <2>2 DEF ToldAt
    <2>6. Recorded(new, keys, Made(step)) /\ Chain(keys, Made(step))
        <3>1. CASE step < BeaconStep
            <4>1. /\ Made(d) = step - 2 /\ Made(step) = step - 1 /\ step - 2 \in Nat /\ step - 2 + 1 = step - 1
                  /\ step - 1 \in 1 .. Len(Names) /\ step - 2 \in 0 .. Final
                <5>1. d < BeaconStep /\ d > 0 /\ step > 0 /\ step \in 0 .. LastStep
                    BY <1>3, <2>2, <3>1, StepsAre
                <5>2. Made(d) = d - 1 /\ Made(step) = step - 1
                    BY <2>2, <3>1, <5>1, MadeIs
                <5>. QED BY <1>3, <2>2, <3>1, <5>2, StepsAre
            <4>2. AddedBy(keys[step - 1], keys[step - 2], Names[step - 1])
                BY <2>1, <3>1 DEF RunTold
            <4>3. keys[step - 2] \in Seq(Parts)
                BY <1>3, <4>1 DEF Inv, Types, KeysFit, KeyFits
            <4>4. Chain(keys, step - 1)
                <5>1. PICK k : k = step - 2
                    OBVIOUS
                <5>2. k \in Nat /\ k + 1 = step - 1
                    BY <4>1, <5>1
                <5>3. Chain(keys, k) /\ keys[k] \in Seq(Parts) /\ AddedBy(keys[k + 1], keys[k], Names[k + 1])
                    BY <2>5, <4>1, <4>2, <4>3, <5>1, <5>2
                <5>. HIDE DEF keys
                <5>4. Chain(keys, k + 1)
                    BY <5>2, <5>3, ChainGrows
                <5>. QED BY <5>2, <5>4
            <4>5. Recorded(new, keys, step - 1)
                <5>1. PICK p : p = Contribution(c, step - 1)
                    OBVIOUS
                <5>2. p \in Contributions /\ p.name = Names[step - 1] /\ p.zkey = keys[step - 1]
                    BY <1>3, <4>1, <5>1, ContributionIs DEF Inv
                <5>3. new.contributions = Append(old.contributions, p)
                    BY <1>4, <3>1, <5>1
                <5>4. old.contributions \in Seq(Contributions) /\ Len(old.contributions) = step - 2
                    BY <1>3, <2>5, <4>1 DEF IsEntry, Recorded
                <5>5. /\ Len(new.contributions) = step - 1
                      /\ new.contributions[step - 1] = p
                      /\ \A i \in 1 .. step - 2 : new.contributions[i] = old.contributions[i]
                    BY <4>1, <5>2, <5>3, <5>4
                <5>6. \A i \in 1 .. step - 1 : i = step - 1 \/ i \in 1 .. step - 2
                    BY <4>1
                <5>. HIDE DEF new, old, keys
                <5>7. ASSUME NEW i \in 1 .. step - 1
                      PROVE  new.contributions[i].name = Names[i] /\ new.contributions[i].zkey = keys[i]
                    <6>1. CASE i = step - 1
                        BY <5>2, <5>5, <6>1
                    <6>2. CASE i \in 1 .. step - 2
                        BY <2>5, <4>1, <5>5, <6>2 DEF Recorded
                    <6>. QED BY <5>6, <6>1, <6>2
                <5>. QED BY <5>5, <5>7 DEF Recorded
            <4>. QED BY <4>1, <4>4, <4>5
        <3>2. CASE ~(step < BeaconStep)
            <4>1. Made(step) = Made(d)
                BY <1>3, <2>2, <3>2, StepsAre DEF Made
            <4>2. new.contributions = old.contributions
                BY <1>4, <3>2
            <4>. QED BY <2>5, <4>1, <4>2 DEF Recorded
        <3>. QED BY <3>1, <3>2
    <2>7. step >= BeaconStep /\ new.beacon \notin Rejected => BeaconMade(keys, new.beacon)
        <3>1. CASE step = BeaconStep
            BY <1>4, <2>1, <3>1 DEF RunTold
        <3>2. CASE step > BeaconStep
            <4>1. d >= BeaconStep /\ step # BeaconStep
                BY <1>3, <2>2, <3>2, StepsAre
            <4>2. new.beacon = old.beacon
                BY <1>4, <4>1
            <4>. QED BY <2>1, <4>1, <4>2 DEF ToldAt
        <3>. QED BY <1>3, <3>1, <3>2, StepsAre
    <2>8. step = LastStep => Finished(c)'
        BY <1>4, <2>1, <2>4 DEF RunTold, Finished
    <2>. QED BY <1>3, <2>2, <2>3, <2>4, <2>6, <2>7, <2>8 DEF ToldAt
<1>11. CircuitsTold'
    <2>1. ASSUME c \notin repeated' PROVE CircuitTold(c)'
        BY <1>10, <2>1 DEF CircuitTold, ToldAt
    <2>. QED BY <1>7, <2>1 DEF CircuitsTold
(* Its name or beacon is now in the manifest. *)
<1>12. ASSUME c \notin repeated', step < LastStep PROVE Refused(c, step)'
    <2>1. CASE step < BeaconStep
        <3>1. PICK p : p = Contribution(c, step - 1)
            OBVIOUS
        <3>2. step - 1 \in 1 .. Len(Names)
            BY <1>3, <2>1, StepsAre
        <3>3. p \in Contributions /\ p.name = Names[step - 1]
            BY <1>3, <3>1, <3>2, ContributionIs DEF Inv
        <3>4. PICK q : q = old.contributions
            OBVIOUS
        <3>5. q \in Seq(Contributions) /\ new.contributions = Append(q, p)
            BY <1>3, <1>4, <2>1, <3>1, <3>4 DEF IsEntry
        <3>6. PICK k : k = Len(q) + 1
            OBVIOUS
        <3>7. k \in DOMAIN Append(q, p) /\ Append(q, p)[k] = p
            BY <3>3, <3>5, <3>6
        <3>8. k \in DOMAIN manifest'[c].contributions /\ manifest'[c].contributions[k] = p
            BY <3>5, <3>7
        <3>. QED BY <2>1, <3>3, <3>8 DEF Refused, HasName
    <2>2. CASE step = BeaconStep
        <3>1. beacon # NoBeacon
            BY <1>8, <1>12, <2>2 DEF RunTold
        <3>2. new.beacon # NoBeacon
            BY <1>4, <2>2, <3>1
        <3>. QED BY <2>2, <3>2 DEF Refused
    <2>. QED BY <1>3, <1>12, <2>1, <2>2, StepsAre
<1>13. ScriptsTold'
    <2>1. Edited(s)'
        BY <1>3, <1>5 DEF Edited
    <2>2. c \notin repeated' => RunOf(s)'
        BY <1>2, <1>5, <1>8 DEF RunOf, RunTold, files
    <2>3. c \notin repeated' => RecordOf(s)'
        BY <1>5, <1>9, <1>12 DEF RecordOf, Refused, HasName
    <2>4. ScriptTold(s)'
        BY <1>5, <2>1, <2>2, <2>3 DEF ScriptTold
    <2>. QED BY <1>5, <2>4 DEF ScriptsTold
<1>14. StuckTold'
    <2>. SUFFICES ASSUME NEW b \in Circuits, b \in cut', b \notin repeated' PROVE Stuck(b)'
        BY DEF StuckTold
    <2>1. b # c /\ Stuck(b)
        BY <1>2, <1>9 DEF Inv, Told, StuckTold
    <2>2. manifest'[b] = manifest[b] /\ done'[b] = done[b]
        BY <1>2, <1>3, <2>1
    <2>. QED BY <1>3, <2>1, <2>2 DEF Stuck, Refused, HasName
<1>. QED BY <1>11, <1>13, <1>14 DEF Told

LEMMA InvNext == OneScript /\ Inv /\ [Next]_vars => Inv'
<1>. SUFFICES ASSUME OneScript, Inv, [Next]_vars PROVE Told'
    BY TypesNext DEF Inv
<1>1. CASE InitManifest
    BY <1>1, InitManifestKeepsTold
<1>2. ASSUME NEW c \in Circuits, DeleteFirst(c) PROVE Told'
    BY <1>2, DeleteFirstKeepsTold
<1>3. ASSUME NEW s \in Scripts, NEW c \in Circuits, Start(s, c) PROVE Told'
    BY <1>3, InitPhase2KeepsTold, ContributeKeepsTold, BeaconKeepsTold, ExportJsonKeepsTold DEF Start
<1>4. ASSUME NEW s \in Scripts, Proceed(s) PROVE Told'
    BY <1>4, ExportBinKeepsTold, ReadManifestKeepsTold, WriteManifestKeepsTold, SucceedKeepsTold,
       RefuseKeepsTold DEF Proceed
<1>5. ASSUME NEW s \in Scripts, Crash(s) PROVE Told'
    BY <1>5, CrashKeepsTold
<1>6. ASSUME NEW s \in Scripts, Break(s) PROVE Told'
    BY <1>6, BreakKeepsTold
<1>7. ASSUME NEW s \in Scripts, NEW c \in Circuits, NEW b \in Rejected, RejectedBeacon(s, c, b)
      PROVE  Told'
    BY <1>7, RejectedBeaconKeepsTold
<1>8. CASE UNCHANGED vars
    <2>1. UNCHANGED <<files, manifest, done, scripts, repeated, cut>>
        BY <1>8 DEF vars, files
    <2>2. CircuitsTold' /\ StuckTold'
        <3>1. \A c \in Circuits : Reached(c)' = Reached(c)
            BY <2>1 DEF Reached, Recording
        <3>. QED BY <2>1, <3>1, SameCircuitsTold, StillStuck DEF Inv, Told
    <2>3. ASSUME NEW s \in Scripts PROVE ScriptTold(s)'
        <3>1. ScriptTold(s)
            BY DEF Inv, Told, ScriptsTold
        <3>. QED BY <2>1, <3>1 DEF ScriptTold, Edited, RunOf, RunTold, RecordOf, Refused, HasName,
                 Rewritten, Edit, FinalizeCircuit, AddContribution, Contribution, files
    <2>. QED BY <2>2, <2>3 DEF ScriptsTold, Told
<1>. QED BY <1>1, <1>2, <1>3, <1>4, <1>5, <1>6, <1>7, <1>8, StepIs

------------------------------------------------------------------------------
(* Theorems. *)

LEMMA Invariance == ASSUME OneScript PROVE Spec => []Inv
BY InvInit, InvNext, PTL DEF Spec

LEMMA FinishedTells ==
    ASSUME Inv, NEW c \in Circuits, c \notin repeated, done[c] = LastStep, manifest # Torn
    PROVE  Verifies(c) /\ (manifest[c].beacon \notin Rejected => Tells(c))
<1>. DEFINE entry == manifest[c]
            keys == zkeys[c]
            key == keys[Final]
            n == Len(Names)
<1>1. n \in Nat /\ Final = n + 1 /\ Final - 1 = n /\ LastStep >= BeaconStep /\ LastStep >= 1
    BY StepsAre
<1>2. ToldAt(c, LastStep) /\ Made(LastStep) = n
    <2>1. LastStep \in 0 .. LastStep /\ LastStep >= BeaconStep
        BY StepsAre
    <2>2. Made(LastStep) = n
        BY <2>1, MadeIs
    <2>3. c \notin cut
        BY StepsAre DEF Inv, Told, StuckTold, Stuck
    <2>4. Reached(c) = LastStep
        BY ReachedIs, StepsAre DEF Reached
    <2>5. CircuitTold(c)
        BY <2>3 DEF Inv, Told, CircuitsTold
    <2>. QED BY <2>2, <2>4, <2>5 DEF CircuitTold
<1>3. /\ manifest # NoManifest /\ Recorded(entry, keys, n) /\ Chain(keys, n) /\ Finished(c)
      /\ entry.beacon \notin Rejected => BeaconMade(keys, entry.beacon)
    BY <1>1, <1>2 DEF ToldAt
<1>4. /\ Usable(key) /\ vkJson[c] = key /\ vkBin[c] = key
      /\ entry.final.zkey = key /\ entry.final.vkJson = key /\ entry.final.vkBin = key
    BY <1>3 DEF Finished
<1>5. \A k \in 0 .. n : keys[k] \in Seq(Parts) /\ Len(keys[k]) = k
    BY <1>1, <1>3 DEF Inv, Types, KeysFit, KeyFits, Chain
<1>0. Verifies(c)
    BY <1>3, <1>4 DEF Verifies
<1>. SUFFICES ASSUME entry.beacon \notin Rejected PROVE Tells(c)
    BY <1>0
<1>6. PICK p \in Parts : p.who = entry.beacon /\ key = Append(keys[n], p)
    BY <1>1, <1>3 DEF BeaconMade, AddedBy
<1>. HIDE DEF entry, keys
<1>7. /\ key \in Seq(Parts) /\ Len(key) = n + 1 /\ key[n + 1] = p
      /\ \A j \in 1 .. n : key[j] = keys[n][j]
    BY <1>1, <1>5, <1>6, NextKeyIs
<1>8. Len(entry.contributions) = n
    BY <1>3 DEF Recorded
<1>9. ASSUME NEW k \in 1 .. n
      PROVE  /\ entry.contributions[k].zkey = SubSeq(key, 1, k)
             /\ key[k].who = entry.contributions[k].name
    <2>1. k \in 0 .. n /\ n \in 1 .. n /\ \A j \in 1 .. k : j \in 1 .. n
        BY <1>1
    <2>2. entry.contributions[k].name = Names[k] /\ entry.contributions[k].zkey = keys[k]
        BY <1>3 DEF Recorded
    <2>3. \A j \in 1 .. n : key[j] = keys[j][j]
        BY <1>3, <1>7, <2>1 DEF Chain
    <2>4. \A j \in 1 .. k : key[j] = keys[k][j]
        BY <1>3, <2>1, <2>3 DEF Chain
    <2>5. SubSeq(key, 1, Len(keys[k])) = keys[k]
        BY <1>1, <1>5, <1>7, <2>1, <2>4, SubSeqIs
    <2>6. key[k].who = Names[k]
        BY <1>3, <2>3 DEF Chain
    <2>. QED BY <1>5, <2>1, <2>2, <2>5, <2>6
<1>. QED BY <1>1, <1>4, <1>6, <1>7, <1>8, <1>9 DEF Tells, entry, keys

(* Wherever scripts are killed and run again on the way: when a circuit's  *)
(* last script has succeeded and the manifest is not lost, verify-ceremony *)
(* accepts its files and, unless its beacon is one that snarkjs rejected,  *)
(* the transcript tells how its key came about, for any number of          *)
(* contributors (manifest.mjs, verify-ceremony.sh). *)
THEOREM TranscriptTells == ASSUME OneScript PROVE Spec => []FinishedIsTold
<1>1. Inv => FinishedIsTold
    BY FinishedTells DEF FinishedIsTold
<1>. QED BY <1>1, Invariance, PTL

(* What may happen to the manifest. *)
LEMMA ManifestChanges ==
    ASSUME [Next]_vars
    PROVE  \/ UNCHANGED manifest \/ manifest' = Torn
           \/ InitManifest
           \/ \E s \in Scripts : WriteManifest(s)
<1>1. ASSUME NEW s \in Scripts, NEW c \in Circuits, Start(s, c) PROVE UNCHANGED manifest
    BY <1>1 DEF Start, InitPhase2, Contribute, Beacon, ExportJson
<1>2. ASSUME NEW s \in Scripts, Proceed(s) PROVE UNCHANGED manifest \/ WriteManifest(s)
    BY <1>2 DEF Proceed, ExportBin, ReadManifest, Succeed, Refuse
<1>3. ASSUME NEW s \in Scripts, Break(s) PROVE UNCHANGED manifest \/ manifest' = Torn
    BY <1>3, BreakIs DEF BreakKey, BreakJson, BreakBin, BreakManifest
<1>. QED BY <1>1, <1>2, <1>3, StepIs DEF DeleteFirst, Crash, RejectedBeacon, vars

LEMMA EntriesGrow ==
    ASSUME Inv, [Next]_vars, manifest # NoManifest, manifest' # Torn, NEW c \in Circuits
    PROVE  /\ IsPrefix(manifest[c].contributions, manifest'[c].contributions)
           /\ manifest[c].beacon \in {NoBeacon, manifest'[c].beacon}
<1>1. manifest # Torn => manifest[c].contributions \in Seq(Contributions)
    BY DEF Inv, Types, IsManifest, IsEntry
<1>2. CASE UNCHANGED manifest
    BY <1>1, <1>2, PrefixOfItself
<1>3. ASSUME NEW s \in Scripts, WriteManifest(s)
      PROVE  /\ IsPrefix(manifest[c].contributions, manifest'[c].contributions)
             /\ manifest[c].beacon \in {NoBeacon, manifest'[c].beacon}
    <2>1. PICK x, step, beacon :
            x = scripts[s].circuit /\ step = scripts[s].step /\ beacon = scripts[s].beacon
        OBVIOUS
    <2>2. /\ x \in Circuits /\ step \in 2 .. LastStep /\ ~Refused(x, step) /\ IsEntry(manifest[x])
          /\ manifest # Torn
          /\ manifest'[x] = Edit(manifest[x], x, step, beacon)
          /\ \A d \in Circuits : d # x => manifest'[d] = manifest[d]
        BY <1>3, <2>1, WrittenIs
    <2>3. CASE c # x
        BY <1>1, <2>2, <2>3, PrefixOfItself
    <2>4. CASE c = x
        <3>1. /\ manifest'[c].contributions
                   = IF step < BeaconStep
                     THEN Append(manifest[c].contributions, Contribution(c, step - 1))
                     ELSE manifest[c].contributions
              /\ manifest'[c].beacon = IF step = BeaconStep THEN beacon ELSE manifest[c].beacon
            <4>1. PICK e : e = manifest[x]
                OBVIOUS
            <4>2. PICK new : new = Edit(e, x, step, beacon)
                OBVIOUS
            <4>3. /\ IsEntry(new)
                  /\ new.contributions = IF step < BeaconStep
                                         THEN Append(e.contributions, Contribution(x, step - 1))
                                         ELSE e.contributions
                  /\ new.beacon = IF step = BeaconStep THEN beacon ELSE e.beacon
                  /\ new.final = IF step = LastStep
                                 THEN [zkey |-> zkeys[x][Final], vkJson |-> vkJson[x], vkBin |-> vkBin[x]]
                                 ELSE e.final
                <5>1. Types /\ x \in Circuits /\ step \in 2 .. LastStep /\ IsEntry(e)
                    BY <2>2, <4>1 DEF Inv
                <5>. QED BY <4>2, <5>1, EditIs
            <4>4. manifest[c] = e /\ manifest'[c] = new
                BY <2>2, <2>4, <4>1, <4>2
            <4>. QED BY <2>4, <4>3, <4>4
        <3>2. step = BeaconStep => manifest[c].beacon = NoBeacon
            BY <2>2, <2>4 DEF Refused
        <3>3. CASE step < BeaconStep
            <4>1. step - 1 \in 1 .. Len(Names)
                BY <2>2, <3>3, StepsAre
            <4>2. Contribution(c, step - 1) \in Contributions
                BY <4>1, ContributionIs DEF Inv
            <4>3. IsPrefix(manifest[c].contributions, Append(manifest[c].contributions, Contribution(c, step - 1)))
                BY <1>1, <2>2, <4>2, PrefixOfAppended
            <4>. QED BY <3>1, <3>2, <3>3, <4>3
        <3>4. CASE ~(step < BeaconStep)
            BY <1>1, <2>2, <3>1, <3>2, <3>4, PrefixOfItself
        <3>. QED BY <3>3, <3>4
    <2>. QED BY <2>3, <2>4
<1>4. UNCHANGED manifest \/ \E s \in Scripts : WriteManifest(s)
    BY ManifestChanges DEF InitManifest
<1>. QED BY <1>2, <1>3, <1>4

LEMMA ManifestNotForgotten ==
    ASSUME Inv, [Next]_vars, manifest' # manifest
    PROVE  manifest # Torn
<1>1. CASE InitManifest
    BY <1>1, ManifestsDiffer DEF InitManifest
<1>2. ASSUME NEW s \in Scripts, WriteManifest(s) PROVE manifest # Torn
    BY <1>2, WrittenIs
<1>. QED BY <1>1, <1>2, ManifestChanges

(* Killed and repeated scripts never take a contribution or a beacon out   *)
(* of the transcript (manifest.mjs, "Guard against silent beacon           *)
(* overwrite"), and a manifest that breaks off is not replaced by another. *)
THEOREM NothingIsForgotten == ASSUME OneScript PROVE Spec => NothingForgotten
<1>1. Inv /\ [Next]_vars =>
        [/\ manifest # Torn
         /\ manifest # NoManifest /\ manifest' # Torn => \A c \in Circuits :
               /\ IsPrefix(manifest[c].contributions, manifest'[c].contributions)
               /\ manifest[c].beacon \in {NoBeacon, manifest'[c].beacon}]_manifest
    BY EntriesGrow, ManifestNotForgotten
<1>. QED BY <1>1, Invariance, PTL DEF Spec, NothingForgotten
===============================================================================

---------------------------- MODULE DeployJournal ----------------------------
(***************************************************************************)
(* scripts/hy2-deploy-recovery.py: the write-ahead journal of a            *)
(* deployment, with deploy.sh that drives it, the watchdog and the boot    *)
(* gate that call its recovery, and the managed units that may only run on *)
(* a whole set of artifacts.                                               *)
(*                                                                         *)
(* An artifact is in the generation it had when the transaction began      *)
(* ("old"), in the one the deployment installs ("new") or in any other     *)
(* ("foreign").  Units are up or down together; their enable states, the   *)
(* sysctls and the log directories are restored in one step.               *)
(***************************************************************************)
EXTENDS Naturals

CONSTANTS Paths,        \* the artifacts this deployment replaces or removes
          NoPath,
          MaxGlitches   \* commands that fail and processes that die

ASSUME JournalAssumption == NoPath \notin Paths /\ MaxGlitches \in Nat

VARIABLES artifact,     \* the generation of each path
          pending,      \* the recovery directory: "none", "bare" or "journaled"
          manifest,     \* the journal, meaningful while pending = "journaled"
          up,           \* the managed units run
          gate,         \* hy2-deploy-recovery.service is active: units may start
          watchdog,     \* hy2-deploy-watchdog.service waits for the deployment lock
          deployer,     \* deploy.sh: where it is
          recovery,     \* hy2-deploy-recovery.py recover: where it is
          glitches

deployVars == <<artifact, pending, manifest, up, gate, watchdog, deployer, recovery, glitches>>

EmptyManifest == [state |-> "preparing", taken |-> {}, committed |-> {}, begun |-> NoPath,
                  wasUp |-> FALSE, sameBoot |-> TRUE]
NoRecovery == [pc |-> "none", who |-> "gate", stopped |-> FALSE, began |-> FALSE]

Init ==
    /\ artifact = [p \in Paths |-> "old"] /\ pending = "none" /\ manifest = EmptyManifest
    /\ up \in BOOLEAN /\ gate = TRUE /\ watchdog = FALSE
    /\ deployer = "none" /\ recovery = NoRecovery /\ glitches = 0

-----------------------------------------------------------------------------

Glitch == glitches < MaxGlitches /\ glitches' = glitches + 1
Fine == UNCHANGED glitches
KeepUnits == UNCHANGED <<up, gate>>
KeepDisk == UNCHANGED <<artifact, pending>>

DeployLockFree == deployer = "none" /\ recovery.pc = "none"
Foreign == \E p \in Paths : artifact[p] = "foreign"

-----------------------------------------------------------------------------
(* deploy.sh with prepare, snapshot, before, after, replace, remove and      *)
(* complete.  What recovery it needs it runs first.                          *)

DeployAt(pc) == deployer = pc /\ recovery.pc = "none"
DeployGoto(pc) == deployer' = pc /\ UNCHANGED <<recovery, watchdog>> /\ Fine

\* The watchdog is armed before there is anything to recover.
Arm ==
    /\ DeployLockFree /\ pending = "none"
    /\ artifact' = [p \in Paths |-> "old"]
    /\ deployer' = "make" /\ watchdog' = TRUE /\ Fine
    /\ KeepUnits /\ UNCHANGED <<pending, manifest, recovery>>

MakeDirectory ==
    /\ DeployAt("make") /\ pending' = "bare" /\ DeployGoto("prepare")
    /\ KeepUnits /\ UNCHANGED <<artifact, manifest>>

\* _prepare: what ran, before packages may start more.
Prepare ==
    /\ DeployAt("prepare") /\ DeployGoto("packages")
    /\ pending' = "journaled" /\ manifest' = [EmptyManifest EXCEPT !.wasUp = up]
    /\ KeepUnits /\ UNCHANGED artifact

Packages ==
    /\ DeployAt("packages") /\ up' \in {up, TRUE} /\ DeployGoto("quiesce")
    /\ KeepDisk /\ UNCHANGED <<manifest, gate>>

Quiesce ==
    /\ DeployAt("quiesce") /\ up' = FALSE /\ DeployGoto("snapshot")
    /\ KeepDisk /\ UNCHANGED <<manifest, gate>>

\* _snapshot: one artifact and its entry at a time (what it has become since
\* Arm is its original), then the state.
Snapshot(p) ==
    /\ DeployAt("snapshot") /\ p \notin manifest.taken /\ DeployGoto("snapshot")
    /\ manifest' = [manifest EXCEPT !.taken = @ \cup {p}]
    /\ artifact' = [artifact EXCEPT ![p] = "old"] /\ KeepUnits /\ UNCHANGED pending

Activate ==
    /\ DeployAt("snapshot") /\ manifest.taken = Paths /\ DeployGoto("install")
    /\ manifest' = [manifest EXCEPT !.state = "active"]
    /\ KeepDisk /\ KeepUnits

\* Mutant: the artifact is replaced first, and the journal written after it.
BeforeUnjournaled(p) ==
    /\ DeployAt("install") /\ manifest.begun = NoPath /\ p \notin manifest.committed
    /\ IF artifact[p] = "old"
       THEN artifact' = [artifact EXCEPT ![p] = "new"] /\ UNCHANGED manifest
       ELSE manifest' = [manifest EXCEPT !.begun = p] /\ UNCHANGED artifact
    /\ DeployGoto("install") /\ KeepUnits /\ UNCHANGED pending

\* _before.
Before(p) ==
    /\ DeployAt("install") /\ manifest.begun = NoPath /\ p \notin manifest.committed
    /\ artifact[p] = "old"
    /\ manifest' = [manifest EXCEPT !.begun = p] /\ DeployGoto("install")
    /\ KeepDisk /\ KeepUnits

\* The rename or the unlink of _replace and _remove.
Mutate ==
    /\ DeployAt("install") /\ manifest.begun # NoPath /\ artifact[manifest.begun] = "old"
    /\ artifact' = [artifact EXCEPT ![manifest.begun] = "new"] /\ DeployGoto("install")
    /\ KeepUnits /\ UNCHANGED <<pending, manifest>>

\* _after.
After ==
    /\ DeployAt("install") /\ manifest.begun # NoPath /\ artifact[manifest.begun] = "new"
    /\ manifest' = [manifest EXCEPT !.committed = @ \cup {manifest.begun}, !.begun = NoPath]
    /\ DeployGoto("install")
    /\ KeepDisk /\ KeepUnits

\* The units start on the new set: the gate passes while the lock is held
\* (--success-if-locked).
StartNew ==
    /\ DeployAt("install") /\ manifest.committed = Paths /\ DeployGoto("complete")
    /\ up' = TRUE /\ gate' = TRUE
    /\ KeepDisk /\ UNCHANGED manifest

\* _complete: every artifact is the one that was installed.
Complete ==
    /\ DeployAt("complete") /\ \A p \in Paths : artifact[p] = "new"
    /\ manifest' = [manifest EXCEPT !.state = "complete"] /\ DeployGoto("clean")
    /\ KeepDisk /\ KeepUnits

\* _cleanup_pending: the manifest goes first or last, the directory after it.
DeployClean ==
    /\ DeployAt("clean") /\ pending' = IF pending = "journaled" THEN "bare" ELSE "none"
    /\ DeployGoto(IF pending = "bare" THEN "none" ELSE "clean")
    /\ KeepUnits /\ UNCHANGED <<artifact, manifest>>

\* The EXIT trap, unless the transaction was completed.
DeployFails ==
    /\ DeployAt(deployer) /\ deployer \notin {"none", "clean", "trap"} /\ Glitch
    /\ deployer' = "trap"
    /\ recovery' = [NoRecovery EXCEPT !.pc = "read", !.who = "trap"]
    /\ KeepDisk /\ KeepUnits /\ UNCHANGED <<manifest, watchdog>>

\* _before, _after or _complete meets a generation it does not know.
DeployRefuses ==
    /\ deployer \in {"install", "complete"} /\ recovery.pc = "none" /\ Foreign
    /\ deployer' = "trap" /\ Fine
    /\ recovery' = [NoRecovery EXCEPT !.pc = "read", !.who = "trap"]
    /\ KeepDisk /\ KeepUnits /\ UNCHANGED <<manifest, watchdog>>

\* SIGKILL.
DeployDies ==
    /\ deployer # "none" /\ deployer' = "none" /\ recovery' = NoRecovery /\ Glitch
    /\ KeepDisk /\ KeepUnits /\ UNCHANGED <<manifest, watchdog>>

-----------------------------------------------------------------------------
(* recover: from the trap, the watchdog, the gate of a unit that starts, or  *)
(* the next deployment.                                                      *)

\* "watchdog" re-arms the gate whatever the outcome (ExecStopPost); "gate"
\* opens it if the outcome is success.
StartRecovery(who) ==
    /\ DeployLockFree
    /\ \/ who = "watchdog" /\ watchdog
       \/ who = "gate" /\ ~gate
       \/ who = "deploy" /\ pending # "none"
    /\ recovery' = [NoRecovery EXCEPT !.pc = "read", !.who = who]
    /\ KeepDisk /\ KeepUnits /\ Fine /\ UNCHANGED <<manifest, watchdog, deployer>>

RecAt(pc) == recovery.pc = pc
RecGoto(pc) == recovery' = [recovery EXCEPT !.pc = pc] /\ UNCHANGED <<watchdog, deployer, gate>>

\* Mutant: the gate opens whatever the recovery came to.
RecEndsOpen(success) ==
    /\ recovery' = NoRecovery
    /\ deployer' = "none"
    /\ watchdog' = (watchdog /\ recovery.who # "watchdog")
    /\ gate' = (gate \/ recovery.who = "gate")

RecEnds(success) ==
    /\ recovery' = NoRecovery
    /\ deployer' = "none"
    /\ watchdog' = (watchdog /\ recovery.who # "watchdog")
    /\ gate' = CASE recovery.who = "watchdog" -> FALSE
                 [] recovery.who = "gate"     -> success
                 [] OTHER                     -> gate

\* An exception in the transaction: units it had stopped go on, unless an
\* artifact was restored.
RecFails ==
    /\ manifest' = [manifest EXCEPT !.state = "recovery-failed"]
    /\ up' = (up \/ (recovery.stopped /\ ~recovery.began))
    /\ RecEnds(FALSE)

\* Mutant: a transaction that was restored is examined again.
RecReadAgain ==
    /\ RecAt("read") /\ Fine /\ KeepDisk /\ UNCHANGED <<manifest, up>>
    /\ IF pending = "none" THEN RecEnds(TRUE)
       ELSE RecGoto(IF pending = "bare" THEN "clean"
                    ELSE CASE manifest.state = "complete"  -> "clean"
                           [] manifest.state = "preparing" -> "early"
                           [] OTHER                        -> "preflight")

RecRead ==
    /\ RecAt("read") /\ Fine /\ KeepDisk /\ UNCHANGED <<manifest, up>>
    /\ IF pending = "none" THEN RecEnds(TRUE)
       ELSE RecGoto(IF pending = "bare" THEN "clean"
                    ELSE CASE manifest.state = "complete"  -> "clean"
                           [] manifest.state = "restored"  -> "resume"
                           [] manifest.state = "preparing" -> "early"
                           [] OTHER                        -> "preflight")

\* An interrupted preparation: units that packages started are stopped.
RecEarly ==
    /\ RecAt("early") /\ KeepDisk
    /\ \/ up' = FALSE /\ manifest' = [manifest EXCEPT !.state = "restored"]
          /\ RecGoto("resume") /\ Fine
       \/ /\ up' \in {up, manifest.wasUp /\ manifest.sameBoot}
          /\ RecEnds(FALSE) /\ Glitch /\ UNCHANGED manifest

\* _preflight_recovery, before anything is touched.
RecPreflight ==
    /\ RecAt("preflight") /\ Fine /\ KeepDisk /\ UNCHANGED <<manifest, up>>
    /\ IF Foreign THEN RecEnds(FALSE) ELSE RecGoto("stop")

\* _stop_runtime_units: units that were stopped start again if one cannot be.
RecStop ==
    /\ RecAt("stop") /\ KeepDisk
    /\ \/ /\ up' = FALSE /\ Fine /\ UNCHANGED <<manifest, watchdog, deployer, gate>>
          /\ recovery' = [recovery EXCEPT !.pc = "mark", !.stopped = up]
       \/ RecFails /\ Glitch

\* Mutant: what was read before the units stopped is relied on.
RecMarkUnread ==
    /\ RecAt("mark") /\ KeepDisk /\ Fine
    /\ manifest' = [manifest EXCEPT !.state = "restoring"] /\ RecGoto("restore") /\ UNCHANGED up

\* The preflight again, now that no writer runs.
RecMark ==
    /\ RecAt("mark") /\ KeepDisk /\ Fine
    /\ IF Foreign THEN RecFails
       ELSE /\ manifest' = [manifest EXCEPT !.state = "restoring"] /\ RecGoto("restore")
            /\ UNCHANGED up

\* _restore_entry of an artifact that is still the one the journal names.
RecRestore(p) ==
    /\ RecAt("restore") /\ artifact[p] # "old" /\ UNCHANGED pending
    /\ \/ /\ artifact[p] = "new" /\ artifact' = [artifact EXCEPT ![p] = "old"] /\ Fine
          /\ recovery' = [recovery EXCEPT !.began = TRUE]
          /\ UNCHANGED <<manifest, up, watchdog, deployer, gate>>
       \/ artifact[p] = "foreign" /\ RecFails /\ Fine /\ UNCHANGED artifact
       \/ RecFails /\ Glitch /\ UNCHANGED artifact

\* _restore_runtime, _verify_all_original, and the state that ends the matter.
RecRestored ==
    /\ RecAt("restore") /\ KeepDisk /\ \A p \in Paths : artifact[p] = "old"
    /\ \/ manifest' = [manifest EXCEPT !.state = "restored"] /\ RecGoto("resume") /\ Fine
          /\ UNCHANGED up
       \/ RecFails /\ Glitch

\* _resume_runtime_units: in the boot that stopped them; later the boot does.
RecResume ==
    /\ RecAt("resume") /\ KeepDisk /\ UNCHANGED manifest
    /\ \/ up' = (up \/ (manifest.wasUp /\ manifest.sameBoot)) /\ RecGoto("clean") /\ Fine
       \/ UNCHANGED up /\ RecEnds(FALSE) /\ Glitch

RecClean ==
    /\ RecAt("clean") /\ Fine /\ UNCHANGED <<artifact, manifest, up>>
    /\ IF pending = "journaled" THEN pending' = "bare" /\ RecGoto("clean")
       ELSE pending' = "none" /\ RecEnds(TRUE)

RecDies ==
    /\ recovery.pc # "none" /\ RecEnds(FALSE) /\ Glitch
    /\ KeepDisk /\ UNCHANGED <<manifest, up>>

-----------------------------------------------------------------------------
(* The world. *)

\* A boot, a timer or an administrator starts units: only through the gate.
StartUnits ==
    /\ DeployLockFree /\ gate /\ ~up /\ up' = TRUE /\ Fine
    /\ KeepDisk /\ UNCHANGED <<manifest, gate, watchdog, deployer, recovery>>

\* A running unit writes one of the files.
Write(p) ==
    /\ up /\ artifact' = [artifact EXCEPT ![p] = "foreign"] /\ Fine
    /\ KeepUnits /\ UNCHANGED <<pending, manifest, watchdog, deployer, recovery>>

PowerLoss ==
    /\ Glitch /\ up' = FALSE /\ gate' = FALSE /\ watchdog' = FALSE
    /\ deployer' = "none" /\ recovery' = NoRecovery
    /\ manifest' = [manifest EXCEPT !.sameBoot = FALSE]
    /\ KeepDisk

-----------------------------------------------------------------------------

DeployStep == \/ MakeDirectory \/ Prepare \/ Packages \/ Quiesce \/ Activate \/ Mutate \/ After
              \/ StartNew \/ Complete \/ DeployClean \/ DeployRefuses
              \/ \E p \in Paths : Snapshot(p) \/ Before(p)
RecStep == \/ RecRead \/ RecEarly \/ RecPreflight \/ RecStop \/ RecMark \/ RecRestored
           \/ RecResume \/ RecClean \/ \E p \in Paths : RecRestore(p)
Recoveries == \E who \in {"watchdog", "gate", "deploy"} : StartRecovery(who)

Next == \/ Arm \/ DeployStep \/ DeployFails \/ DeployDies
        \/ Recoveries \/ RecStep \/ RecDies
        \/ StartUnits \/ (\E p \in Paths : Write(p)) \/ PowerLoss

\* Processes run; the watchdog gets the lock; a recovery that failed is tried
\* again, by the next unit that starts or the next deployment.
Fairness == WF_deployVars(DeployStep) /\ WF_deployVars(RecStep) /\ SF_deployVars(Recoveries)

Spec == Init /\ [][Next]_deployVars /\ Fairness

-----------------------------------------------------------------------------
(* Properties *)

Manifest == [state : {"preparing", "active", "complete", "restoring", "restored", "recovery-failed"},
             taken : SUBSET Paths, committed : SUBSET Paths, begun : Paths \cup {NoPath},
             wasUp : BOOLEAN, sameBoot : BOOLEAN]
DeployerPc == {"none", "make", "prepare", "packages", "quiesce", "snapshot", "install", "complete",
               "clean", "trap"}
RecoveryPc == {"none", "read", "early", "preflight", "stop", "mark", "restore", "resume", "clean"}
Recovery == [pc : RecoveryPc, who : {"trap", "watchdog", "gate", "deploy"},
             stopped : BOOLEAN, began : BOOLEAN]

TypeOK ==
    /\ artifact \in [Paths -> {"old", "new", "foreign"}]
    /\ pending \in {"none", "bare", "journaled"} /\ manifest \in Manifest
    /\ deployer \in DeployerPc /\ recovery \in Recovery
    /\ up \in BOOLEAN /\ gate \in BOOLEAN /\ watchdog \in BOOLEAN /\ glitches \in 0..MaxGlitches

\* A new generation is always one that the journal names and whose original was
\* taken, until the whole set is committed: a recovery can take it back.
Reversible ==
    \A p \in Paths : artifact[p] = "new" =>
        \/ pending # "journaled" /\ \A q \in Paths : artifact[q] # "old"
        \/ /\ pending = "journaled" /\ p \in manifest.taken
           /\ p \in manifest.committed \cup {manifest.begun}

\* After a boot, whatever was interrupted and however often, the units run on
\* the whole new set or on the whole old one (and on what they wrote themselves).
Mixed == \E p, q \in Paths : artifact[p] = "new" /\ artifact[q] = "old"
BootsOnWholeSet ==
    up /\ deployer = "none" /\ (pending # "journaled" \/ ~manifest.sameBoot) => ~Mixed

\* A recovery that begins to restore can finish: no writer has put in a
\* generation that it must refuse half-way.
RestoresAllOrNothing == recovery.pc = "restore" => ~Foreign

\* An interrupted deployment is undone or finished, unless a file was changed by
\* others before its originals were back.
Undecided == pending = "journaled" /\ manifest.state \in {"active", "restoring", "recovery-failed"}
RecoveryEnds ==
    (deployer = "none" /\ pending # "none") ~> (pending = "none" \/ (Undecided /\ Foreign))
=============================================================================

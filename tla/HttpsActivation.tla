--------------------------- MODULE HttpsActivation ---------------------------
(***************************************************************************)
(* scripts/hy2-enable-https.sh: the journaled transaction that puts the    *)
(* panel behind TLS, its recovery, the gate before nginx                   *)
(* (systemd/hy2-https-recovery.service) and the timer that renews the      *)
(* certificate, which is outside of the transaction and has a marker.      *)
(*                                                                         *)
(* A file is of the activation that wrote it, 0 before the first.  The     *)
(* script holds its lock from the first step to the last, so one process   *)
(* moves at a time.                                                        *)
(***************************************************************************)
EXTENDS Integers

CONSTANTS MaxActivations, MaxTroubles

VARIABLES installed,    \* the five artifacts
          served,       \* what nginx loaded of them
          nginx,        \* nginx runs
          recovery,     \* the pending directory: "none", "bare" or "journaled"
          ledger,       \* manifest.json, meaningful while recovery = "journaled"
          marker,       \* renewal-pending: the activation it names, 0 for none
          timer,        \* snap.certbot.renew.timer is active
          script,       \* the running script
          torn,         \* ghost: the restoration of an artifact failed
          troubles

httpsVars == <<installed, served, nginx, recovery, ledger, marker, timer, script, torn, troubles>>

\* Mutant of Order: the redirect before what it leads to.
ContractFirst == <<"log", "panel", "tls", "hook", "link">>

\* Expand first, contract last.
Order == <<"log", "tls", "hook", "link", "panel">>
Artifact == {"log", "tls", "hook", "link", "panel"}
Last == 5
Foreign == -1

\* phase: it recovers, works on its own activation or has completed it; live: how
\* many commits nginx has loaded; at, failed: the restoration.
NoScript == [pc |-> "none", mode |-> "activate", phase |-> "recover", live |-> 0,
             at |-> 0, failed |-> FALSE]
NoLedger == [tx |-> 0, state |-> "active", done |-> 0, begun |-> FALSE,
             original |-> [a \in Artifact |-> 0]]

HttpsInit ==
    /\ installed = [a \in Artifact |-> 0] /\ served = installed /\ nginx = TRUE
    /\ recovery = "none" /\ ledger = NoLedger /\ marker = 0 /\ timer = FALSE
    /\ script = NoScript /\ torn = FALSE /\ troubles = 0

-----------------------------------------------------------------------------

Trouble == troubles < MaxTroubles /\ troubles' = troubles + 1
Well == UNCHANGED troubles
KeepFiles == UNCHANGED <<installed, recovery, ledger, torn>>
KeepNginx == UNCHANGED <<served, nginx>>
KeepRenewal == UNCHANGED <<marker, timer>>

ScriptAt(pc) == script.pc = pc
ScriptGoto(pc) == script' = [script EXCEPT !.pc = pc]
ScriptEnds == script' = NoScript

\* What the manifest knows that may have been replaced.
Touched(i) == i <= ledger.done \/ (i = ledger.done + 1 /\ ledger.begun)
Current == Order[ledger.done + 1]
Verified == \A i \in 1..ledger.done : installed[Order[i]] = ledger.tx

\* A recovery that cannot go on keeps everything for the operator.
Preserve ==
    /\ ledger' = [ledger EXCEPT !.state = "recovery-failed"]
    /\ ScriptEnds /\ UNCHANGED <<installed, recovery, torn>>

\* On any failure and any signal on_exit rolls back what is in the manifest.
Rollback == script' = [script EXCEPT !.pc = "restore", !.at = Last, !.failed = FALSE]

-----------------------------------------------------------------------------
(* Entry: recover_pending_transaction, then the renewal marker.            *)

\* The lock is taken; recover-only at boot, by an operator or by deploy.sh.
Start(mode) ==
    /\ ScriptAt("none")
    /\ mode = "boot" => ~nginx
    /\ mode = "activate" => ledger.tx < MaxActivations
    /\ script' = [NoScript EXCEPT !.pc = "entry", !.mode = mode]
    /\ KeepFiles /\ KeepNginx /\ KeepRenewal /\ Well

RecoverPending ==
    /\ ScriptAt("entry")
    /\ \/ recovery = "none" /\ ScriptGoto("renew")
       \/ recovery = "bare" /\ ScriptGoto("drop")
       \/ recovery = "journaled" /\ ledger.state = "complete" /\ ScriptGoto("drop")
       \/ recovery = "journaled" /\ ledger.state # "complete" /\ Rollback
    /\ KeepFiles /\ KeepNginx /\ KeepRenewal /\ Well

\* restore_manifest_artifacts, the last commit first: what is neither the
\* original nor the replacement is left alone, and a failure passed over until
\* all were tried.
Restore ==
    /\ ScriptAt("restore") /\ script.at > 0
    /\ LET a == Order[script.at]
           passed == script' = [script EXCEPT !.at = @ - 1]
           failed == script' = [script EXCEPT !.at = @ - 1, !.failed = TRUE]
       IN \/ /\ ~Touched(script.at) \/ installed[a] = ledger.original[a]
             /\ passed /\ UNCHANGED <<installed, torn>> /\ Well
          \/ /\ Touched(script.at) /\ installed[a] = ledger.tx
             /\ \/ /\ installed' = [installed EXCEPT ![a] = ledger.original[a]]
                   /\ passed /\ UNCHANGED torn /\ Well
                \/ failed /\ torn' = TRUE /\ UNCHANGED installed /\ Trouble
          \/ /\ Touched(script.at) /\ installed[a] \notin {ledger.tx, ledger.original[a]}
             /\ failed /\ UNCHANGED <<installed, torn>> /\ Well
    /\ UNCHANGED <<recovery, ledger>> /\ KeepNginx /\ KeepRenewal

RecordRestored ==
    /\ ScriptAt("restore") /\ script.at = 0
    /\ IF script.failed THEN Preserve
       ELSE /\ ledger' = [ledger EXCEPT !.state = "restored"] /\ ScriptGoto("reload")
            /\ UNCHANGED <<installed, recovery, torn>>
    /\ KeepNginx /\ KeepRenewal /\ Well

\* reload_restored_nginx.  It need not run.
ReloadRestored ==
    /\ ScriptAt("reload")
    /\ \/ /\ served' = (IF nginx THEN installed ELSE served) /\ ScriptGoto("unown") /\ Well
          /\ torn' = FALSE /\ UNCHANGED <<installed, recovery, ledger>>
       \/ Preserve /\ UNCHANGED served /\ Trouble
    /\ KeepRenewal /\ UNCHANGED nginx

\* remove_renewal_marker_if_owned.
RemoveOwnMarker ==
    /\ ScriptAt("unown") /\ marker' = (IF marker = ledger.tx THEN 0 ELSE marker)
    /\ ScriptGoto("drop") /\ KeepFiles /\ KeepNginx /\ Well /\ UNCHANGED timer

\* cleanup_pending_directory: rmtree may come to the manifest first or last.  A
\* failure ends the script, but for one that is complete: it only mentions it.
Drop ==
    /\ ScriptAt("drop")
    /\ LET next == IF script.phase = "work" THEN "none" ELSE "renew"
       IN \/ recovery = "journaled" /\ recovery' = "bare" /\ Well /\ UNCHANGED script
          \/ recovery' = "none" /\ (IF next = "none" THEN ScriptEnds ELSE ScriptGoto(next)) /\ Well
          \/ /\ UNCHANGED recovery /\ Trouble
             /\ IF script.phase = "complete" THEN ScriptGoto("renew") ELSE ScriptEnds
    /\ UNCHANGED <<installed, ledger, torn>> /\ KeepNginx /\ KeepRenewal

\* reconcile_renewal_marker: the timer first.  A timer that does not start
\* is a warning.
Onwards == IF script.mode = "activate" /\ script.phase = "recover" THEN "make" ELSE "end"
Reconcile ==
    /\ ScriptAt("renew")
    /\ \/ marker = 0 /\ UNCHANGED timer /\ ScriptGoto(Onwards) /\ Well
       \/ marker # 0 /\ timer' = TRUE /\ ScriptGoto("unmark") /\ Well
       \/ marker # 0 /\ UNCHANGED timer /\ ScriptGoto(Onwards) /\ Trouble
    /\ KeepFiles /\ KeepNginx /\ UNCHANGED marker

Unmark ==
    /\ ScriptAt("unmark") /\ marker' = 0 /\ ScriptGoto(Onwards)
    /\ KeepFiles /\ KeepNginx /\ Well /\ UNCHANGED timer

\* The recovery before nginx succeeded: it starts.
End ==
    /\ ScriptAt("end") /\ ScriptEnds
    /\ IF script.mode = "boot" THEN nginx' = TRUE /\ served' = installed ELSE KeepNginx
    /\ KeepFiles /\ KeepRenewal /\ Well

-----------------------------------------------------------------------------
(* The transaction.                                                        *)

MakeRecovery ==
    /\ ScriptAt("make") /\ recovery = "none" /\ recovery' = "bare"
    /\ ScriptGoto("journal")
    /\ UNCHANGED <<installed, ledger, torn>> /\ KeepNginx /\ KeepRenewal /\ Well

\* manifest_initialize: the snapshots, then the manifest.
Initialize ==
    /\ ScriptAt("journal") /\ recovery' = "journaled"
    /\ ledger' = [NoLedger EXCEPT !.tx = ledger.tx + 1, !.original = installed]
    /\ script' = [script EXCEPT !.pc = "work", !.phase = "work"]
    /\ UNCHANGED <<installed, torn>> /\ KeepNginx /\ KeepRenewal /\ Well

\* nginx has to have loaded the log format, and then the TLS host, before the
\* next artifact is replaced.
Checked == ledger.done \in {1, 4, 5} => script.live = ledger.done

BeforeCommit ==
    /\ ScriptAt("work") /\ Checked /\ ledger.done < Last /\ ~ledger.begun
    /\ IF installed[Current] = ledger.original[Current]
       THEN ledger' = [ledger EXCEPT !.begun = TRUE] /\ UNCHANGED script
       ELSE Rollback /\ UNCHANGED ledger
    /\ UNCHANGED <<installed, recovery, torn>> /\ KeepNginx /\ KeepRenewal /\ Well

Move ==
    /\ ScriptAt("work") /\ ledger.begun /\ installed[Current] # ledger.tx
    /\ installed' = [installed EXCEPT ![Current] = ledger.tx] /\ ScriptGoto("moved")
    /\ UNCHANGED <<recovery, ledger, torn>> /\ KeepNginx /\ KeepRenewal /\ Well

AfterCommit ==
    /\ ScriptAt("moved")
    /\ IF installed[Current] = ledger.tx
       THEN /\ ledger' = [ledger EXCEPT !.done = @ + 1, !.begun = FALSE]
            /\ ScriptGoto("work")
       ELSE Rollback /\ UNCHANGED ledger
    /\ UNCHANGED <<installed, recovery, torn>> /\ KeepNginx /\ KeepRenewal /\ Well

\* verify (but for the log format), nginx -t, reload.
LoadChecked ==
    /\ ScriptAt("work") /\ ~Checked
    /\ IF nginx /\ (ledger.done = 1 \/ Verified)
       THEN /\ served' = installed
            /\ script' = [script EXCEPT !.live = ledger.done,
                                        !.pc = CASE ledger.done = 1 -> "certify"
                                                 [] ledger.done = Last -> "probe"
                                                 [] OTHER -> "work"]
       ELSE Rollback /\ UNCHANGED served
    /\ KeepFiles /\ KeepRenewal /\ Well /\ UNCHANGED nginx

\* The certificate, which needs the log format, and then the other candidates.
Certify ==
    /\ ScriptAt("certify") /\ ScriptGoto("stage")
    /\ KeepFiles /\ KeepNginx /\ KeepRenewal /\ Well

StageCandidates ==
    /\ ScriptAt("stage") /\ ScriptGoto("work")
    /\ KeepFiles /\ KeepNginx /\ KeepRenewal /\ Well

\* The redirect and TLS answer three times.
Probe ==
    /\ ScriptAt("probe")
    /\ IF nginx THEN ScriptGoto("mark") ELSE Rollback
    /\ KeepFiles /\ KeepNginx /\ KeepRenewal /\ Well

\* The renewal is journaled before the activation is complete; an older marker
\* is kept.
MarkRenewal ==
    /\ ScriptAt("mark")
    /\ IF Verified
       THEN /\ marker' = (IF marker = 0 THEN ledger.tx ELSE marker)
            /\ ScriptGoto("complete")
       ELSE Rollback /\ UNCHANGED marker
    /\ KeepFiles /\ KeepNginx /\ Well /\ UNCHANGED timer

Complete ==
    /\ ScriptAt("complete") /\ ledger' = [ledger EXCEPT !.state = "complete"]
    /\ script' = [script EXCEPT !.pc = "drop", !.phase = "complete"]
    /\ UNCHANGED <<installed, recovery, torn>> /\ KeepNginx /\ KeepRenewal /\ Well

\* A command fails, or a signal arrives: on_exit.
Fails ==
    /\ script.pc \in {"work", "moved", "certify", "stage", "probe", "mark", "complete"} /\ Trouble /\ Rollback
    /\ KeepFiles /\ KeepNginx /\ KeepRenewal

-----------------------------------------------------------------------------
(* The host.                                                               *)

\* nginx starts while the script holds the lock (--success-if-locked).
StartLocked ==
    /\ ~nginx /\ ~ScriptAt("none") /\ script.mode # "boot"
    /\ nginx' = TRUE /\ served' = installed
    /\ KeepFiles /\ KeepRenewal /\ Well /\ UNCHANGED script

\* The renewal hook reloads nginx at any time.
Renewal ==
    /\ timer /\ nginx /\ installed["hook"] # 0 /\ served' = installed
    /\ KeepFiles /\ KeepRenewal /\ Well /\ UNCHANGED <<nginx, script>>

Killed ==
    /\ ~ScriptAt("none") /\ Trouble /\ ScriptEnds
    /\ KeepFiles /\ KeepNginx /\ KeepRenewal

\* A rename that was not synchronised may be lost.
PowerOff ==
    /\ Trouble /\ ScriptEnds /\ nginx' = FALSE
    /\ \/ UNCHANGED installed
       \/ /\ ScriptAt("moved") /\ installed[Current] = ledger.tx
          /\ installed' = [installed EXCEPT ![Current] = ledger.original[Current]]
    /\ UNCHANGED <<recovery, ledger, torn, served>> /\ KeepRenewal

\* Somebody else writes an artifact.
Edit(a) ==
    /\ Trouble /\ installed' = [installed EXCEPT ![a] = Foreign]
    /\ UNCHANGED <<recovery, ledger, torn, script>> /\ KeepNginx /\ KeepRenewal

HttpsNext ==
    \/ \E mode \in {"activate", "recover", "boot"} : Start(mode)
    \/ RecoverPending \/ Restore \/ RecordRestored \/ ReloadRestored \/ RemoveOwnMarker
    \/ Drop \/ Reconcile \/ Unmark \/ End
    \/ MakeRecovery \/ Initialize \/ BeforeCommit \/ Move \/ AfterCommit \/ LoadChecked
    \/ Certify \/ StageCandidates \/ Probe \/ MarkRenewal \/ Complete \/ Fails
    \/ StartLocked \/ Renewal \/ Killed \/ PowerOff \/ \E a \in Artifact : Edit(a)

-----------------------------------------------------------------------------
(* Properties *)

HttpsTypeOK ==
    /\ installed \in [Artifact -> Foreign..MaxActivations]
    /\ served \in [Artifact -> Foreign..MaxActivations]
    /\ recovery \in {"none", "bare", "journaled"} /\ nginx \in BOOLEAN /\ timer \in BOOLEAN
    /\ ledger.done \in 0..Last /\ ledger.tx \in 0..MaxActivations
    /\ marker \in 0..MaxActivations /\ troubles \in 0..MaxTroubles

\* nginx never redirects to TLS before it serves TLS, whatever dies where, unless
\* the restoration of an artifact fails.
RedirectsAreServed ==
    ~torn /\ nginx /\ served["panel"] > 0 => served["tls"] # 0 /\ served["link"] # 0

\* Once nothing is left to recover an activation is there as a whole or not at
\* all, on disk and in nginx, and one that is there has its certificate renewed
\* or a marker that asks for it.
Whole(files, tx) == \A a \in Artifact : files[a] \in {tx, Foreign}
ActivationIsWhole ==
    ScriptAt("none") /\ recovery # "journaled" =>
        \E tx \in 0..ledger.tx :
            /\ Whole(installed, tx) /\ (nginx => Whole(served, tx))
            /\ tx > 0 => timer \/ marker # 0
=============================================================================

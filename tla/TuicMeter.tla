------------------------------ MODULE TuicMeter ------------------------------
(***************************************************************************)
(* Whose bytes tuic-server's counters are: traffic_limiter's               *)
(* _collect_tuic_users_locked with the functions of tuic_user_meter.py it  *)
(* calls, against the edits that rewrite tuic.json and the reload workers  *)
(* of tuic_config.py that restart the server behind the limiter's back.    *)
(*                                                                         *)
(* One user.  A credential is a number, 0 is none; a run of the server     *)
(* serves the credential that was in tuic.json when it started.  A credit  *)
(* is one step here: TrafficLedger shows that its three files change as    *)
(* one.  Failures to stop the server are StaticReload's subject.           *)
(***************************************************************************)
EXTENDS Integers

CONSTANTS Units,        \* transient units that run the reload worker
          MaxCred, MaxMoved, MaxTrouble,
          Grace         \* RELOAD_GRACE_SECONDS, in ticks of the clock

VARIABLES canonical,    \* users.json: the user's credential
          allowed,      \* the authorization plan keeps the user
          conf,         \* tuic.json: the credential it names
          intent,       \* tuic.json.reload.pending: a reload is asked for
          failedMark,   \* tuic.json.accounting-failed is there
          stopMark,     \* the fail-closed marker of tuic-server is there
          server,       \* tuic-server: the credential and counter of its run
          check,        \* tuic_user_state.json, the checkpoint
          meter,        \* the limiter's tick
          edit,         \* the request that changes the user
          unit,         \* the reload workers
          moved, charged, \* ghosts: bytes by credential, moved and charged to the user
          trouble

meterVars == <<canonical, allowed, conf, intent, failedMark, stopMark, server,
               check, meter, edit, unit, moved, charged, trouble>>

Creds == 1..MaxCred
Unknown == Grace + 1    \* reload_wait is None

IdleMeter == [pc |-> "idle", conf |-> 0, intent |-> FALSE, live |-> FALSE, same |-> FALSE, count |-> 0]
IdleUnit == [pc |-> "idle", mine |-> FALSE]

MeterInit ==
    /\ canonical = 1 /\ allowed = TRUE /\ conf = 1
    /\ intent = FALSE /\ failedMark = FALSE /\ stopMark = FALSE
    /\ server = [up |-> TRUE, cred |-> 1, count |-> 0]
    /\ check = [live |-> FALSE, cred |-> 0, count |-> 0, left |-> Unknown]
    /\ meter = IdleMeter /\ edit = "idle" /\ unit = [u \in Units |-> IdleUnit]
    /\ moved = [c \in Creds |-> 0] /\ charged = [c \in Creds |-> 0]
    /\ trouble = 0

-----------------------------------------------------------------------------

\* usage.lock has one holder; edit = "reload" has released it.
UsageLockFree == meter.pc \in {"idle", "reload"} /\ edit \in {"idle", "reload"}

Trouble == trouble < MaxTrouble /\ trouble' = trouble + 1
Quiet == UNCHANGED trouble

KeepPlan == UNCHANGED <<canonical, allowed>>
KeepConf == UNCHANGED <<conf, intent>>
KeepGhosts == UNCHANGED <<moved, charged>>

\* sync_user_plan records a new token: no worker under way holds it.
Ask == intent' = TRUE /\ unit' = [u \in Units |-> [unit[u] EXCEPT !.mine = FALSE]]

\* systemctl start, by the worker, by recover_if_pending or by systemd itself:
\* the run that was sampled or observed is not this one.
Start(following) ==
    /\ server' = [up |-> TRUE, cred |-> conf, count |-> 0]
    /\ check' = [check EXCEPT !.live = FALSE]
    /\ meter' = [following EXCEPT !.live = FALSE]
\* stop_fail_closed.
Stop == stopMark' = TRUE /\ server' = [server EXCEPT !.up = FALSE]

\* Mutant: an edit renders the plan whatever the accounting says.
DesiredByPlan == IF ~allowed THEN 0 ELSE canonical

\* The credential tuic.json should name (_render_for_runtime).
Desired == IF failedMark \/ ~allowed THEN 0 ELSE canonical

-----------------------------------------------------------------------------
(* Edits: a rotation or a change of the plan, and the synchronisation that   *)
(* goes with it, under usage.lock.                                           *)

BeginEdit ==
    /\ UsageLockFree /\ edit = "idle" /\ meter.pc = "idle"
    /\ \/ canonical < MaxCred /\ canonical' = canonical + 1 /\ UNCHANGED allowed
       \/ allowed' = ~allowed /\ UNCHANGED canonical
    /\ edit' = "mark" /\ Quiet
    /\ KeepConf /\ KeepGhosts /\ UNCHANGED <<failedMark, stopMark, server, check, meter, unit>>

\* Mutant: the file is replaced and the intent recorded after it, or never.
EditMarkSkipped ==
    /\ edit = "mark" /\ edit' = "save" /\ Quiet
    /\ KeepConf /\ KeepPlan /\ KeepGhosts
    /\ UNCHANGED <<failedMark, stopMark, server, check, meter, unit>>

\* sync_user_plan: nothing to change, or first the intent.
EditMark ==
    /\ edit = "mark" /\ Quiet
    /\ IF conf = Desired THEN edit' = "reload" /\ UNCHANGED <<intent, unit>> ELSE Ask /\ edit' = "save"
    /\ KeepPlan /\ KeepGhosts /\ UNCHANGED <<conf, failedMark, stopMark, server, check, meter>>

EditSave ==
    /\ edit = "save" /\ conf' = Desired /\ edit' = "reload" /\ Quiet
    /\ KeepPlan /\ KeepGhosts
    /\ UNCHANGED <<intent, failedMark, stopMark, server, check, meter, unit>>

EditDies ==
    /\ edit # "idle" /\ edit' = "idle" /\ Trouble
    /\ KeepConf /\ KeepPlan /\ KeepGhosts
    /\ UNCHANGED <<failedMark, stopMark, server, check, meter, unit>>

\* reload_async.  The token read is never one whose file is still to be written:
\* callers that overlap so are the finding of StaticReload.
Reload ==
    /\ edit # "save" /\ meter.pc # "save"
    /\ IF ~intent THEN UNCHANGED <<unit, stopMark, server>> /\ Quiet
       ELSE \/ \E u \in Units :
                 /\ unit[u].pc = "idle"
                 /\ unit' = [unit EXCEPT ![u] = [pc |-> "check", mine |-> TRUE]]
                 /\ UNCHANGED <<stopMark, server>> /\ Quiet
            \/ Stop /\ UNCHANGED unit /\ Trouble

EditReload ==
    /\ edit = "reload" /\ edit' = "idle" /\ Reload
    /\ KeepConf /\ KeepPlan /\ KeepGhosts /\ UNCHANGED <<failedMark, check, meter>>

-----------------------------------------------------------------------------
(* The worker: _run_reload_worker. *)

UnitAt(u, pc) == unit[u].pc = pc
UnitGoto(u, pc) == unit' = [unit EXCEPT ![u] = IF pc = "idle" THEN IdleUnit ELSE [@ EXCEPT !.pc = pc]]

WorkerCheck(u) ==
    /\ UnitAt(u, "check") /\ Quiet
    /\ IF failedMark THEN Stop /\ UnitGoto(u, "idle")
       ELSE UnitGoto(u, "restart") /\ UNCHANGED <<stopMark, server>>
    /\ KeepConf /\ KeepPlan /\ KeepGhosts /\ UNCHANGED <<failedMark, check, meter, edit>>

WorkerRestart(u) ==
    /\ UnitAt(u, "restart")
    /\ \/ Start(meter) /\ UnitGoto(u, "probe") /\ UNCHANGED stopMark /\ Quiet
       \/ Stop /\ UnitGoto(u, "idle") /\ Trouble /\ UNCHANGED <<check, meter>>
    /\ KeepConf /\ KeepPlan /\ KeepGhosts /\ UNCHANGED <<failedMark, edit>>

WorkerProbe(u) ==
    /\ UnitAt(u, "probe") /\ Quiet
    /\ IF server.up THEN UnitGoto(u, "ack") /\ UNCHANGED <<stopMark, server>>
       ELSE Stop /\ UnitGoto(u, "idle")
    /\ KeepConf /\ KeepPlan /\ KeepGhosts /\ UNCHANGED <<failedMark, check, meter, edit>>

\* Mutant: whatever intent is there is acknowledged.
AckAny(u) ==
    /\ UnitAt(u, "ack") /\ UnitGoto(u, "idle") /\ Quiet
    /\ edit # "save" /\ meter.pc # "save"
    /\ intent' = FALSE
    /\ KeepPlan /\ KeepGhosts
    /\ UNCHANGED <<conf, failedMark, stopMark, server, check, meter, edit>>

\* _clear_reload_pending, under the lock of tuic.json: only the worker's own token.
Ack(u) ==
    /\ UnitAt(u, "ack") /\ UnitGoto(u, "idle") /\ Quiet
    /\ edit # "save" /\ meter.pc # "save"
    /\ intent' = (intent /\ ~unit[u].mine)
    /\ KeepPlan /\ KeepGhosts
    /\ UNCHANGED <<conf, failedMark, stopMark, server, check, meter, edit>>

WorkerDies(u) ==
    /\ ~UnitAt(u, "idle") /\ UnitGoto(u, "idle") /\ Trouble
    /\ KeepConf /\ KeepPlan /\ KeepGhosts
    /\ UNCHANGED <<failedMark, stopMark, server, check, meter, edit>>

-----------------------------------------------------------------------------
(* The tick: _collect_tuic_users_locked. *)

MeterAt(pc) == meter.pc = pc

\* Mutant: every deferral starts the grace again.
WaitingAnew == [check EXCEPT !.left = Grace]

\* begin_reload_wait: only the first unresolved interval is recorded.
Waiting == IF check.left = Unknown THEN [check EXCEPT !.left = Grace] ELSE check

Expired == check.left = 0

\* The sample is refused: the inhibition is kept and the server is stopped.
Refuse == failedMark' = TRUE /\ Stop /\ meter' = [IdleMeter EXCEPT !.pc = "mark"]

TickRead ==
    /\ MeterAt("idle") /\ UsageLockFree /\ Quiet
    /\ IF failedMark \/ Expired \/ conf \notin {0, canonical}
       THEN Refuse /\ UNCHANGED check
       ELSE /\ check' = IF intent THEN Waiting ELSE check
            /\ meter' = [IdleMeter EXCEPT !.pc = "observe", !.conf = conf, !.intent = intent]
            /\ UNCHANGED <<failedMark, stopMark, server>>
    /\ KeepConf /\ KeepPlan /\ KeepGhosts /\ UNCHANGED <<edit, unit>>

\* Deferred: the counters are cumulative, the next tick reads them again.
Defer == /\ check' = Waiting
         /\ meter' = [IdleMeter EXCEPT !.pc = "mark"]
         /\ UNCHANGED <<failedMark, stopMark, server>>

\* observe(): one run before and after the query, or a failure, which a pending
\* reload excuses.
TickObserve ==
    /\ MeterAt("observe")
    /\ \/ /\ server.up /\ Quiet
          /\ meter' = [meter EXCEPT !.pc = "decide", !.live = TRUE, !.same = check.live,
                                   !.count = server.count]
          /\ UNCHANGED <<check, failedMark, stopMark, server>>
       \/ /\ IF server.up THEN Trouble ELSE Quiet
          /\ IF meter.intent \/ intent THEN Defer ELSE Refuse /\ UNCHANGED check
    /\ KeepConf /\ KeepPlan /\ KeepGhosts /\ UNCHANGED <<edit, unit>>

\* bind_observation: the identities of the run that was observed.
SameRun == meter.same
\* Mutant: the identities are always those of the file.
BoundToFile == meter.conf
Bound == IF SameRun THEN check.cred ELSE meter.conf
\* Mutant: a new run is attributed while a reload is pending.
DeferSameRun == meter.conf # conf \/ meter.intent # intent
MustDefer == meter.conf # conf \/ meter.intent # intent \/ (meter.intent /\ ~SameRun)
MustRefuse == \/ Expired
              \/ SameRun /\ ~meter.intent /\ meter.conf # check.cred
              \/ Bound = 0 /\ meter.count > 0

\* calculate_delta: a new run counts from zero.
NewBytes == IF SameRun THEN meter.count - check.count ELSE meter.count

\* Only the canonical owner of the identity is charged; the wait ends with a
\* sample that nothing was pending for.
TickDecide ==
    /\ MeterAt("decide") /\ Quiet
    /\ IF MustDefer THEN Defer /\ UNCHANGED charged
       ELSE IF MustRefuse THEN Refuse /\ UNCHANGED <<check, charged>>
       ELSE /\ charged' = IF Bound # 0 /\ Bound = canonical
                          THEN [charged EXCEPT ![Bound] = @ + NewBytes] ELSE charged
            /\ check' = [live |-> meter.live, cred |-> Bound, count |-> meter.count,
                         left |-> IF meter.intent THEN check.left ELSE Unknown]
            /\ meter' = [IdleMeter EXCEPT !.pc = "mark"]
            /\ UNCHANGED <<failedMark, stopMark, server>>
    /\ KeepConf /\ KeepPlan /\ UNCHANGED <<moved, edit, unit>>

\* _apply_static_access_plan, for TUIC: the same tick brings tuic.json to the plan.
TickMark ==
    /\ MeterAt("mark") /\ Quiet
    /\ IF conf = Desired
       THEN meter' = [meter EXCEPT !.pc = "start"] /\ UNCHANGED <<intent, unit>>
       ELSE Ask /\ meter' = [meter EXCEPT !.pc = "save"]
    /\ KeepPlan /\ KeepGhosts /\ UNCHANGED <<conf, failedMark, stopMark, server, check, edit>>

TickSave ==
    /\ MeterAt("save") /\ conf' = Desired /\ Quiet
    /\ meter' = [meter EXCEPT !.pc = "start"]
    /\ KeepPlan /\ KeepGhosts
    /\ UNCHANGED <<intent, failedMark, stopMark, server, check, edit, unit>>

\* recover_if_pending: a stopped server is started on the file that is safe now.
TickStart ==
    /\ MeterAt("start")
    /\ LET following == [meter EXCEPT !.pc = "reload"]
       IN IF ~stopMark THEN meter' = following /\ UNCHANGED <<stopMark, server, check>> /\ Quiet
          ELSE \/ Start(following) /\ stopMark' = FALSE /\ Quiet
               \/ /\ server' = [server EXCEPT !.up = FALSE] /\ Trouble
                  /\ meter' = following /\ UNCHANGED <<stopMark, check>>
    /\ KeepConf /\ KeepPlan /\ KeepGhosts /\ UNCHANGED <<failedMark, edit, unit>>

\* The lock is released; a failed sample asks for no reload.
TickReload ==
    /\ MeterAt("reload") /\ meter' = IdleMeter
    /\ IF failedMark THEN UNCHANGED <<unit, stopMark, server>> /\ Quiet ELSE Reload
    /\ KeepConf /\ KeepPlan /\ KeepGhosts /\ UNCHANGED <<failedMark, check, edit>>

TickDies ==
    /\ ~MeterAt("idle") /\ meter' = IdleMeter /\ Trouble
    /\ KeepConf /\ KeepPlan /\ KeepGhosts
    /\ UNCHANGED <<failedMark, stopMark, server, check, edit, unit>>

-----------------------------------------------------------------------------
(* The world. *)

Move ==
    /\ server.up /\ server.cred # 0 /\ moved[server.cred] < MaxMoved
    /\ server' = [server EXCEPT !.count = @ + 1]
    /\ moved' = [moved EXCEPT ![server.cred] = @ + 1]
    /\ KeepConf /\ KeepPlan /\ Quiet
    /\ UNCHANGED <<failedMark, stopMark, check, meter, edit, unit, charged>>

\* tuic-server dies and systemd starts it again (Restart=), on the file that is there.
ServerRestarts ==
    /\ server.up /\ Start(meter) /\ Trouble
    /\ KeepConf /\ KeepPlan /\ KeepGhosts /\ UNCHANGED <<failedMark, stopMark, edit, unit>>

Clock ==
    /\ check.left \in 1..Grace
    /\ check' = [check EXCEPT !.left = @ - 1]
    /\ KeepConf /\ KeepPlan /\ KeepGhosts /\ Quiet
    /\ UNCHANGED <<failedMark, stopMark, server, meter, edit, unit>>

-----------------------------------------------------------------------------

EditStep == EditMark \/ EditSave \/ EditReload
WorkerStep(u) == WorkerCheck(u) \/ WorkerRestart(u) \/ WorkerProbe(u) \/ Ack(u)
TickStep == TickRead \/ TickObserve \/ TickDecide \/ TickMark \/ TickSave \/ TickStart \/ TickReload

MeterNext ==
    \/ BeginEdit \/ EditStep \/ EditDies
    \/ \E u \in Units : WorkerStep(u) \/ WorkerDies(u)
    \/ TickStep \/ TickDies
    \/ Move \/ ServerRestarts \/ Clock

\* The timer, the clock, systemd's units and the request's thread keep going.
MeterFairness ==
    /\ WF_meterVars(EditStep) /\ SF_meterVars(TickRead) /\ WF_meterVars(TickStep)
    /\ WF_meterVars(Clock) /\ \A u \in Units : WF_meterVars(WorkerStep(u))

MeterSpec == MeterInit /\ [][MeterNext]_meterVars /\ MeterFairness

-----------------------------------------------------------------------------
(* Properties *)

MeterTypeOK ==
    /\ canonical \in Creds /\ allowed \in BOOLEAN /\ conf \in 0..MaxCred
    /\ intent \in BOOLEAN
    /\ failedMark \in BOOLEAN /\ stopMark \in BOOLEAN
    /\ server \in [up : BOOLEAN, cred : 0..MaxCred, count : 0..MaxMoved]
    /\ check \in [live : BOOLEAN, cred : 0..MaxCred, count : 0..MaxMoved, left : 0..Unknown]
    /\ unit \in [Units -> [pc : {"idle", "check", "restart", "probe", "ack"}, mine : BOOLEAN]]
    /\ charged \in [Creds -> Nat] /\ moved \in [Creds -> Nat]

\* The user is never charged for bytes that moved under another credential, nor
\* twice, whatever restarts, rotations and acknowledgements a sample falls between.
ChargesAreMoved == \A c \in Creds : charged[c] <= moved[c]

\* A grace that runs out ends the access, however many reloads are asked for; and
\* once the accounting has failed, in the end nobody is served, and no edit and no
\* reload that was under way opens the service again.
Served == server.up /\ server.cred # 0
OverdueAccessEnds ==
    /\ check.left = 0 ~> (~Served \/ check.left = Unknown)
    /\ failedMark ~> [](~Served)
=============================================================================

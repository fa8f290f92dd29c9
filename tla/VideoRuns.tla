------------------------------ MODULE VideoRuns ------------------------------
(***************************************************************************)
(* The paid image and video runs of the React API                          *)
(* (hysteria/web_api/video_service.py): a run is submitted for one node of *)
(* a workflow, sent to the provider, polled, and its result is handed to   *)
(* the node.  runs.json, the workflows and the submission have a lock      *)
(* each; none is held during a call to the provider.  Submissions, the     *)
(* scheduler and cancellations overlap; the process may die, and a save,   *)
(* a call or its answer may fail, MaxTrouble times.                        *)
(* A run is named by its submission_sequence; a node that is deleted and   *)
(* drawn again has another token.  The target needs no other paid node,    *)
(* and "cancelled" is cancel_unsupported too.                              *)
(***************************************************************************)
EXTENDS Integers

CONSTANTS Clients,      \* requests that submit a run
          MaxRuns, MaxToken, MaxTrouble

VARIABLES runs,       \* runs.json
          node,         \* the target in workflows.json
          gate,         \* the holder of runs.json.submission.lock
          client,       \* the submissions
          tick,         \* who holds run_tick_lock: a tick or a cancellation
          round,        \* the scheduler's resume_pending
          posts, job,   \* the provider: requests it accepted, and its jobs
          trouble

runVars == <<runs, node, gate, client, tick, round, posts, job, trouble>>

Runs == 1..MaxRuns

NoRun == [seq |-> 0, state |-> "none", status |-> "queued", pend |-> FALSE,
          job |-> FALSE, asset |-> FALSE, token |-> 0]
IdleTick == [pc |-> "idle", run |-> NoRun, ours |-> FALSE]
IdleClient == [pc |-> "idle", run |-> NoRun]
IdleRound == [pc |-> "idle", seen |-> [r \in Runs |-> NoRun], left |-> {}]

RunInit ==
    /\ runs = [r \in Runs |-> NoRun]
    /\ node = [token |-> 1, run |-> 0, version |-> 0, state |-> "none", result |-> 0]
    /\ gate = "nobody"
    /\ client = [c \in Clients |-> IdleClient]
    /\ tick = IdleTick /\ round = IdleRound
    /\ posts = [r \in Runs |-> 0] /\ job = [r \in Runs |-> "none"]
    /\ trouble = 0

-----------------------------------------------------------------------------

Trouble == trouble < MaxTrouble /\ trouble' = trouble + 1
Smooth == UNCHANGED trouble
KeepProvider == UNCHANGED <<posts, job>>

Terminal == {"succeeded", "failed", "cancelled"}
Submitted == {r \in Runs : runs[r].state # "none"}

\* _same_target, for runs of the one target.
SameTarget(run, other) == run.token = other.token
Newer(run) == \E r \in Submitted : SameTarget(runs[r], run) /\ r > run.seq

\* Mutant: a run that has no result yet takes away the one there is.
ShownAlone(run) == IF run.state = "succeeded" /\ run.asset THEN run.seq ELSE 0

Shown(run) == IF run.state = "succeeded" /\ run.asset THEN run.seq ELSE node.result

\* reconcile_*_run(claim=True): only a later submission takes the node.
ClaimedNode(run) ==
    IF node.token # run.token \/ run.seq <= node.version THEN node
    ELSE [node EXCEPT !.version = run.seq, !.run = run.seq, !.state = run.state, !.result = Shown(run)]

\* reconcile_*_run: only the run that has the node.
ReconciledNode(run) ==
    IF node.token # run.token \/ node.run # run.seq THEN node
    ELSE [node EXCEPT !.state = run.state, !.result = Shown(run)]

\* _replace.  Under run_tick_lock the storage_version never differs: it is left out.
Stored(run) == [runs EXCEPT ![run.seq] = run]

-----------------------------------------------------------------------------
(* submit. *)

ClientAt(c, pc) == client[c].pc = pc
ClientGoto(c, pc, run) == client' = [client EXCEPT ![c] = [pc |-> pc, run |-> run]]

\* prepare_run, and the checks of the workflow.
Snapshot(c) ==
    /\ ClientAt(c, "idle") /\ MaxRuns \notin Submitted
    /\ ClientGoto(c, "enter", [NoRun EXCEPT !.token = node.token, !.state = "queued"])
    /\ Smooth /\ KeepProvider /\ UNCHANGED <<runs, node, gate, tick, round>>

\* submission_sequence: one more than the largest there is.
NextSequence(n) == (\A r \in Submitted : r < n) /\ n - 1 \in Submitted \cup {0}

\* Under the submission lock: an earlier run that may have been paid for, or a
\* new run.  The save may fail, before or after the file is replaced.
Enter(c) ==
    /\ ClientAt(c, "enter") /\ gate = "nobody"
    /\ LET busy == \E r \in Submitted : SameTarget(runs[r], client[c].run) /\ runs[r].state = "running"
       IN \/ /\ busy \/ MaxRuns \in Submitted
             /\ ClientGoto(c, "idle", NoRun) /\ UNCHANGED <<runs, gate>> /\ Smooth
          \/ /\ ~busy
             /\ \E n \in Runs :
                  /\ NextSequence(n)
                  /\ LET run == [client[c].run EXCEPT !.seq = n]
                     IN \/ /\ runs' = Stored(run) /\ gate' = "client" /\ Smooth
                           /\ ClientGoto(c, "claim", run)
                        \/ /\ runs' \in {runs, Stored(run)} /\ UNCHANGED gate /\ Trouble
                           /\ ClientGoto(c, "idle", NoRun)
    /\ KeepProvider /\ UNCHANGED <<node, tick, round>>

\* The draft shows the run; a failure is swallowed.
ClaimDraft(c) ==
    /\ ClientAt(c, "claim") /\ gate' = "nobody" /\ ClientGoto(c, "idle", NoRun)
    /\ \/ node' = ClaimedNode(client[c].run) /\ Smooth
       \/ UNCHANGED node /\ Trouble
    /\ KeepProvider /\ UNCHANGED <<runs, tick, round>>

-----------------------------------------------------------------------------
(* tick and cancel, under run_tick_lock. *)

TickAt(pc) == tick.pc = pc
TickGoto(pc, run) == tick' = [tick EXCEPT !.pc = pc, !.run = run]
TickEnds == tick' = IdleTick

Failed(run) == [run EXCEPT !.state = "failed", !.status = "failed", !.pend = FALSE]
Finished(run) == [run EXCEPT !.state = "succeeded", !.status = "succeeded", !.asset = TRUE, !.pend = FALSE]
Running(run) == [run EXCEPT !.state = "running"]

\* A terminal run is only shown again, one with an unknown submission is left
\* alone, one that is too old fails, a queued node is claimed.
Look ==
    /\ TickAt("look")
    /\ LET run == tick.run
       IN \/ run.state \in Terminal /\ TickGoto("mirror", run) /\ Smooth
          \/ run.state \notin Terminal /\ run.pend /\ TickEnds /\ Smooth
          \/ /\ run.state \notin Terminal /\ ~run.pend
             /\ \/ TickGoto("save", Failed(run)) /\ Trouble            \* run_timeout, or a refused request
                \/ run.status = "queued" /\ TickGoto("claim", Running(run)) /\ Smooth
                \/ run.status = "running" /\ TickGoto("poll", Running(run)) /\ Smooth
    /\ KeepProvider /\ UNCHANGED <<runs, node, gate, client, round>>

Poll ==
    /\ TickAt("poll")
    /\ LET run == tick.run
       IN \/ job[run.seq] = "done" /\ TickGoto("save", Finished(run)) /\ Smooth
          \/ job[run.seq] = "failed" /\ TickGoto("save", Failed(run)) /\ Smooth
          \/ job[run.seq] = "working" /\ TickGoto("save", run) /\ Smooth
          \/ Trouble /\ (TickGoto("save", run) \/ TickGoto("save", Failed(run)))
    /\ KeepProvider /\ UNCHANGED <<runs, node, gate, client, round>>

\* _claim_submission: the draft first.
Claim ==
    /\ TickAt("claim") /\ gate = "nobody"
    /\ \/ node' = ClaimedNode(tick.run) /\ gate' = "tick" /\ TickGoto("check", tick.run) /\ Smooth
       \/ UNCHANGED <<node, gate>> /\ TickEnds /\ Trouble
    /\ KeepProvider /\ UNCHANGED <<runs, client, round>>

\* Mutant: the permission is given, and recorded with the answer.
CheckUnsaved ==
    /\ TickAt("check") /\ gate' = "nobody" /\ Smooth
    /\ runs[tick.run.seq].status = "queued" /\ ~Newer(tick.run)
    /\ TickGoto("post", [tick.run EXCEPT !.status = "running", !.pend = TRUE])
    /\ KeepProvider /\ UNCHANGED <<runs, node, client, round>>

\* The one permission to send the request is saved before it is sent.
Check ==
    /\ TickAt("check") /\ gate' = "nobody"
    /\ LET run == tick.run
           kept == runs[run.seq]
           mine == kept.status = "queued" /\ kept.state \in {"queued", "running"}
           superseded == node.token # run.token \/ Newer(run)
           granted == [run EXCEPT !.status = "running", !.pend = TRUE]
           gone == [run EXCEPT !.state = "cancelled", !.status = "cancelled"]
           next == IF superseded THEN gone ELSE granted
       IN \/ ~mine /\ TickEnds /\ UNCHANGED runs /\ Smooth
          \/ mine /\ superseded /\ runs' = Stored(gone) /\ TickEnds /\ Smooth
          \/ /\ mine /\ ~superseded /\ runs' = Stored(granted) /\ Smooth
             /\ TickGoto("post", granted)
          \/ mine /\ runs' \in {runs, Stored(next)} /\ TickEnds /\ Trouble
    /\ KeepProvider /\ UNCHANGED <<node, client, round>>

\* The request: answered, refused, or lost before or after it was accepted.
Post ==
    /\ TickAt("post")
    /\ LET run == tick.run
           known == [run EXCEPT !.pend = FALSE, !.job = TRUE]
           Accepted(state) == /\ posts' = [posts EXCEPT ![run.seq] = @ + 1]
                              /\ job' = [job EXCEPT ![run.seq] = state]
       IN \/ Accepted("working") /\ TickGoto("save", known) /\ Smooth
          \/ Accepted("done") /\ TickGoto("save", Finished(known)) /\ Smooth
          \/ Accepted("done") /\ TickGoto("save", Failed(known)) /\ Trouble     \* not archived
          \/ Accepted("working") /\ TickGoto("save", run) /\ Trouble
          \/ KeepProvider /\ Trouble /\ (TickGoto("save", run) \/ TickGoto("save", Failed(run)))
    /\ UNCHANGED <<runs, node, gate, client, round>>

Save ==
    /\ TickAt("save")
    /\ \/ runs' = Stored(tick.run) /\ TickGoto("mirror", tick.run) /\ Smooth
       \/ runs' \in {runs, Stored(tick.run)} /\ TickEnds /\ Trouble
    /\ KeepProvider /\ UNCHANGED <<node, gate, client, round>>

Mirror ==
    /\ TickAt("mirror") /\ TickEnds
    /\ \/ node' = ReconciledNode(tick.run) /\ Smooth
       \/ UNCHANGED node /\ Trouble
    /\ KeepProvider /\ UNCHANGED <<runs, gate, client, round>>

\* cancel, of a run in any state: nothing is stopped at the provider.
Cancel(r) ==
    /\ TickAt("idle") /\ r \in Submitted /\ ~runs[r].pend
    /\ tick' = [IdleTick EXCEPT !.pc = "save", !.run = [runs[r] EXCEPT !.state = "cancelled"]]
    /\ Trouble
    /\ KeepProvider /\ UNCHANGED <<runs, node, gate, client, round>>

-----------------------------------------------------------------------------
(* The scheduler: resume_pending, which takes no lock that a tick holds, and *)
(* then the ticks, one after the other.                                      *)

RoundAt(pc) == round.pc = pc

ResumeRead ==
    /\ RoundAt("idle") /\ ~tick.ours
    /\ round' = [pc |-> "resume", seen |-> runs, left |-> Submitted]
    /\ Smooth /\ KeepProvider /\ UNCHANGED <<runs, node, gate, client, tick>>

\* Each run claims the node, then shows what was read of it: two saves, of which
\* a newer run's claim may come between; a failure ends the round.
Resume(r) ==
    /\ RoundAt("resume") /\ r \in round.left
    /\ \/ /\ node' = ClaimedNode(round.seen[r]) /\ Smooth
          /\ node' # node /\ UNCHANGED round
       \/ /\ ClaimedNode(round.seen[r]) = node /\ node' = ReconciledNode(round.seen[r])
          /\ round' = [round EXCEPT !.left = @ \ {r}] /\ Smooth
       \/ UNCHANGED node /\ round' = IdleRound /\ Trouble
    /\ KeepProvider /\ UNCHANGED <<runs, gate, client, tick>>

Resumed ==
    /\ RoundAt("resume") /\ round.left = {}
    /\ round' = [IdleRound EXCEPT !.pc = "ticks",
                                  !.left = {r \in Runs : round.seen[r].state \in {"queued", "running"}}]
    /\ Smooth /\ KeepProvider /\ UNCHANGED <<runs, node, gate, client, tick>>

StartTick(r) ==
    /\ RoundAt("ticks") /\ r \in round.left /\ TickAt("idle")
    /\ tick' = [pc |-> "look", run |-> runs[r], ours |-> TRUE]
    /\ round' = [round EXCEPT !.left = @ \ {r}]
    /\ Smooth /\ KeepProvider /\ UNCHANGED <<runs, node, gate, client>>

RoundEnds ==
    /\ RoundAt("ticks") /\ round.left = {} /\ ~tick.ours
    /\ round' = IdleRound
    /\ Smooth /\ KeepProvider /\ UNCHANGED <<runs, node, gate, client, tick>>

-----------------------------------------------------------------------------
(* The world. *)

\* The node is deleted and drawn again.
Redraw ==
    /\ node.token < MaxToken
    /\ node' = [token |-> node.token + 1, run |-> 0, version |-> 0, state |-> "none", result |-> 0]
    /\ ~TickAt("check")     \* which holds the lock of the drafts
    /\ Smooth /\ KeepProvider /\ UNCHANGED <<runs, gate, client, tick, round>>

JobEnds(r) ==
    /\ job[r] = "working" /\ \E end \in {"done", "failed"} : job' = [job EXCEPT ![r] = end]
    /\ Smooth /\ UNCHANGED <<runs, node, gate, client, tick, round, posts>>

ProcessDies ==
    /\ Trouble /\ gate' = "nobody" /\ tick' = IdleTick /\ round' = IdleRound
    /\ client' = [c \in Clients |-> IdleClient]
    /\ KeepProvider /\ UNCHANGED <<runs, node>>

-----------------------------------------------------------------------------

TickStep == Look \/ Poll \/ Claim \/ Check \/ Post \/ Save \/ Mirror
RoundStep == ResumeRead \/ (\E r \in Runs : Resume(r) \/ StartTick(r)) \/ Resumed \/ RoundEnds
ClientStep == \E c \in Clients : Enter(c) \/ ClaimDraft(c)

RunNext ==
    \/ \E c \in Clients : Snapshot(c)
    \/ ClientStep \/ TickStep \/ RoundStep
    \/ \E r \in Runs : Cancel(r) \/ JobEnds(r)
    \/ Redraw \/ ProcessDies

-----------------------------------------------------------------------------
(* Properties *)

RunRecord == [seq : 0..MaxRuns, state : Terminal \cup {"none", "queued", "running"},
              status : {"queued", "running", "succeeded", "failed", "cancelled"},
              pend : BOOLEAN, job : BOOLEAN, asset : BOOLEAN, token : 0..MaxToken]

RunTypeOK ==
    /\ runs \in [Runs -> RunRecord]
    /\ node.token \in 1..MaxToken /\ node.run \in {0} \cup Submitted
    /\ node.version = node.run /\ node.result \in {0} \cup Submitted
    /\ gate \in {"nobody", "client", "tick"}
    /\ tick.pc \in {"idle", "look", "poll", "claim", "check", "post", "save", "mirror"}
    /\ \A r \in Submitted : runs[r].seq = r

\* No request is sent twice, whatever dies or is lost around it, and none is
\* sent for a node while another one is outstanding there.
InFlight(r) == runs[r].state = "running" /\ posts[r] > 0
NeverPaidTwice ==
    /\ \A r \in Runs : posts[r] <= 1
    /\ \A r, s \in Runs : r # s /\ SameTarget(runs[r], runs[s]) => ~(InFlight(r) /\ InFlight(s))

\* The result a node shows is never replaced by that of an earlier submission.
ResultsNeverGoBack == [][node'.token = node.token => node'.result >= node.result]_runVars
=============================================================================

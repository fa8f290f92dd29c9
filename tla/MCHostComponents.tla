-------------------------- MODULE MCHostComponents --------------------------
(***************************************************************************)
(* Four components of the host that share no state, each on a small      *)
(* instance and by itself: subject names the one that moves.               *)
(***************************************************************************)
EXTENDS DeployJournal

CONSTANTS Threads, MaxOps, MaxRelease, MaxMishaps,
          Conns, MaxWorkers, MaxPending, MaxRejects, Deadline,
          Runs, MaxMonth, MaxResets, MaxLapses, ClaimTTL

\* The token of a claim is a run's, or says that there is none or that its run is gone.
ASSUME HostAssumption == MaxRelease \in Nat /\ {"none", "lost"} \cap Runs = {}

VARIABLES subject, file, live, lastGood, good, asked, units, cli, panel, claim, mishaps,
          conn, backlog, free, rejects, guard, server,
          month, over, channels, entry, run, told, resets, lapses

updateVars == <<file, live, lastGood, good, asked, units, cli, panel, claim, mishaps>>
serverVars == <<conn, backlog, free, rejects, guard, server>>
alertVars == <<month, over, channels, entry, run, told, resets, lapses>>
hostVars == <<updateVars, deployVars, serverVars, alertVars>>

Update == INSTANCE HysteriaUpdate
Auth == INSTANCE AuthServer WITH watchdog <- guard
Alert == INSTANCE Alerts

HostInit ==
    /\ subject \in {"update", "journal", "server", "alerts"}
    /\ Init /\ Update!Init /\ Auth!ServerInit /\ Alert!AlertInit
    /\ (subject # "journal" => up)
    /\ (subject # "alerts" => channels = Alert!Channels)

UpdateMoves ==
    /\ subject = "update" /\ Update!Next
    /\ UNCHANGED <<subject, deployVars, serverVars, alertVars>>
JournalMoves ==
    /\ subject = "journal" /\ Next
    /\ UNCHANGED <<subject, updateVars, serverVars, alertVars>>

ServerMoves ==
    /\ subject = "server" /\ Auth!ServerNext
    /\ UNCHANGED <<subject, updateVars, deployVars, alertVars>>
AlertsMove ==
    /\ subject = "alerts" /\ Alert!AlertNext
    /\ UNCHANGED <<subject, updateVars, deployVars, serverVars>>

HostNext == UpdateMoves \/ JournalMoves \/ ServerMoves \/ AlertsMove

\* The fairness of each component, for the behaviours it is the subject of.
HostFairness ==
    /\ WF_updateVars(subject = "update" /\ Update!CliStep)
    /\ SF_updateVars(subject = "update" /\ Update!StartTimer)
    /\ SF_updateVars(subject = "update" /\ Update!StartUnit)
    /\ WF_updateVars(subject = "update" /\ Update!ClaimAges)
    /\ WF_deployVars(subject = "journal" /\ DeployStep)
    /\ WF_deployVars(subject = "journal" /\ RecStep)
    /\ SF_deployVars(subject = "journal" /\ Recoveries)
    /\ WF_serverVars(subject = "server" /\ Auth!ServerStep)
    /\ WF_serverVars(subject = "server" /\ Auth!WatchdogStep)
    /\ WF_serverVars(subject = "server" /\ Auth!Tick)
    /\ WF_serverVars(subject = "server" /\ Auth!CloseWatchdog)
    /\ \A c \in Conns : WF_serverVars(subject = "server" /\ Auth!Handled(c))
    /\ \A r \in Runs : /\ WF_alertVars(subject = "alerts" /\ Alert!Count(r))
                       /\ WF_alertVars(subject = "alerts" /\ Alert!RunStep(r))
    /\ WF_alertVars(subject = "alerts" /\ Alert!ClaimAges)

HostSpec == HostInit /\ [][HostNext]_<<subject, hostVars>> /\ HostFairness

-----------------------------------------------------------------------------

\* The properties of the components, under the names they have there.  An update can be
\* undone as long as it is not confirmed, and skips the policy only if it was asked to.
CandidateCanBeUndone == Update!CandidateCanBeUndone /\ Update!OnlyAskedSkipsPolicy
UpdatesEnd == Update!UpdatesEnd
EveryConnectionEnds == Auth!EveryConnectionEnds
ClearingIsFinal == Alert!ClearingIsFinal
CrossingIsTold == Alert!CrossingIsTold
=============================================================================

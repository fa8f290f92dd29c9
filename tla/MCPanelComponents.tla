-------------------------- MODULE MCPanelComponents --------------------------
(***************************************************************************)
(* Components of the panel that share no state, each on a small instance   *)
(* and by itself: subject names the one that moves.                        *)
(***************************************************************************)
EXTENDS Naturals, FiniteSets

CONSTANTS Clients, MaxRuns, MaxToken, MaxTrouble,
          Users, Requests, MaxOwn, MaxGlobal, MaxSecret, MaxSession,
          Sources, Guessers, Window, MaxGuesses, MaxTracked,
          SourceBurst, GlobalBurst, MaxConcurrent,
          MaxActivations, MaxTroubles,
          Admins, Refreshers, MaxRevision, MaxFlaws, TTL, Backoff, Cooldown,
          Turns, Forks, Callers, Calls, Slots, MaxText, MaxAnswers, MaxQuotes, Nobody,
          Docs, Askers, Indexing,
          Rules, Plans, MaxRecords, MaxRules, MaxEdits,
          Owners, Nodes, Endpoints, Operators, MaxStamp

\* Plans are stored under the numbers 1 .. n.
ASSUME RulesAssumption == Plans \subseteq Nat \ {0} /\ MaxRules \in Nat
ASSUME LandingsAssumption == Nobody \notin Endpoints
ASSUME LimitAssumption ==
    /\ IsFiniteSet(Guessers) /\ Sources # {}
    /\ {Window, MaxGuesses, SourceBurst, GlobalBurst, MaxConcurrent} \subseteq Nat \ {0}
ASSUME ChatAssumption == Turns # {} /\ Nobody \notin Turns /\ MaxAnswers \in Nat

VARIABLES subject,
          runs, node, gate, client, tick, round, posts, job, trouble,
          account, sessions, request, lastSecret, lastSession,
          failures, inflight, attempts, tracked, leases, guesser,
          installed, served, nginx, recovery, ledger, marker, timer, script, torn, troubles,
          settings, cache, settingsLock, refreshLock, page, change, refresh, flaws,
          chat, fresh, turned, branches, caller, cited, call, slot, count,
          project, doc, asker, running, drain, stalled,
          template, form, owed, edits, profile, draft, plan, mover, mine,
          owner, registry, route, op, stamp, good, chosen, behind

runVars == <<runs, node, gate, client, tick, round, posts, job, trouble>>
panelVars == <<account, sessions, request, lastSecret, lastSession>>
limitVars == <<failures, inflight, attempts, tracked, leases, guesser>>
httpsVars == <<installed, served, nginx, recovery, ledger, marker, timer, script, torn, troubles>>
shopVars == <<settings, cache, settingsLock, refreshLock, page, change, refresh, flaws>>
chatVars == <<chat, fresh, turned, branches, caller, cited, call, slot, count>>
docVars == <<project, doc, asker, running, drain, stalled>>
ruleVars == <<template, form, owed, edits, profile, draft, plan, mover, mine>>
landingVars == <<owner, registry, route, op, stamp, good, chosen, behind>>

\* The rule pack has one rule, and an account or the template may have another.
PackRules == <<"y">>

Video == INSTANCE VideoRuns
Panel == INSTANCE PanelSessions
Limit == INSTANCE VerificationLimits
Https == INSTANCE HttpsActivation
Shop == INSTANCE ShopSources
Document == INSTANCE DocumentJobs
\* Turns among themselves, and tool calls beside one turn at a time.
One(set) == {CHOOSE e \in set : TRUE}
Chat == INSTANCE ChatWorkspace
Tool == INSTANCE ChatWorkspace WITH Turns <- One(Turns), Callers <- One(Callers)
\* Administrators among themselves, and plans beside one administrator.
Rule == INSTANCE RuleChanges WITH account <- profile
Plan == INSTANCE RuleChanges WITH account <- profile, Admins <- One(Admins),
                                  MaxRules <- 1, MaxEdits <- 2
Landing == INSTANCE Landings

PanelInit ==
    /\ subject \in {"video", "panel", "limits", "https", "shop",
                   "chat", "tools", "documents", "templates", "plans", "landings"}
    /\ Video!RunInit /\ Panel!PanelInit /\ Limit!LimitInit /\ Https!HttpsInit /\ Shop!ShopInit
    /\ Document!DocInit /\ Landing!LandingInit
    /\ IF subject = "tools" THEN Tool!ChatInit ELSE Chat!ChatInit
    /\ IF subject = "plans" THEN Plan!RuleInit ELSE Rule!RuleInit

VideoMoves ==
    /\ subject = "video" /\ Video!RunNext
    /\ UNCHANGED <<subject, panelVars, limitVars, httpsVars, shopVars,
                   chatVars, docVars, ruleVars, landingVars>>
PanelMoves ==
    /\ subject = "panel" /\ Panel!PanelNext
    /\ UNCHANGED <<subject, runVars, limitVars, httpsVars, shopVars,
                   chatVars, docVars, ruleVars, landingVars>>
LimitMoves ==
    /\ subject = "limits" /\ Limit!LimitNext
    /\ UNCHANGED <<subject, runVars, panelVars, httpsVars, shopVars,
                   chatVars, docVars, ruleVars, landingVars>>
HttpsMoves ==
    /\ subject = "https" /\ Https!HttpsNext
    /\ UNCHANGED <<subject, runVars, panelVars, limitVars, shopVars,
                   chatVars, docVars, ruleVars, landingVars>>
ShopMoves ==
    /\ subject = "shop" /\ Shop!ShopNext
    /\ UNCHANGED <<subject, runVars, panelVars, limitVars, httpsVars,
                   chatVars, docVars, ruleVars, landingVars>>
ChatMoves ==
    /\ \/ subject = "chat" /\ Chat!TurnNext
       \/ subject = "tools" /\ Tool!ChatNext
    /\ UNCHANGED <<subject, runVars, panelVars, limitVars, httpsVars,
                   shopVars, docVars, ruleVars, landingVars>>
DocumentMoves ==
    /\ subject = "documents" /\ Document!DocNext
    /\ UNCHANGED <<subject, runVars, panelVars, limitVars, httpsVars,
                   shopVars, chatVars, ruleVars, landingVars>>
RuleMoves ==
    /\ \/ subject = "templates" /\ Rule!TemplateNext
       \/ subject = "plans" /\ Plan!RuleNext
    /\ UNCHANGED <<subject, runVars, panelVars, limitVars, httpsVars,
                   shopVars, chatVars, docVars, landingVars>>
LandingMoves ==
    /\ subject = "landings" /\ Landing!LandingNext
    /\ UNCHANGED <<subject, runVars, panelVars, limitVars, httpsVars,
                   shopVars, chatVars, docVars, ruleVars>>

PanelNext ==
    \/ VideoMoves \/ PanelMoves \/ LimitMoves \/ HttpsMoves \/ ShopMoves
    \/ ChatMoves \/ DocumentMoves \/ RuleMoves \/ LandingMoves

AllVars == <<subject, runVars, panelVars, limitVars, httpsVars, shopVars,
             chatVars, docVars, ruleVars, landingVars>>

PanelSpec == PanelInit /\ [][PanelNext]_AllVars

-----------------------------------------------------------------------------

\* The properties of the components, of the one that moves.

\* Work that costs money or acts on the world is done once, however often it is asked
\* for: a video is not paid for twice, a turn, a branch or a tool call not carried out
\* twice.
NeverPaidTwice ==
    /\ subject = "video" => Video!NeverPaidTwice
    /\ subject = "chat" => Chat!NothingRunsTwice
    /\ subject = "tools" => Tool!NothingRunsTwice
\* What was deleted does not come back with work that was under way: a supplier of the
\* shop, a document, its picture and its vectors.
DeletedStaysAway ==
    /\ subject = "shop" => Shop!DeletedStaysAway
    /\ subject = "documents" => Document!DeletedLeavesNothing
\* HTTPS is switched to as a whole, and a redirect leads to a server that answers.
ActivationIsWhole ==
    subject = "https" => Https!RedirectsAreServed /\ Https!ActivationIsWhole
\* A quoted answer is what the conversation says, and only the turn that holds the
\* conversation is shown as being written.
QuotesStayTrue ==
    /\ subject = "chat" => Chat!QuotesStayTrue /\ Chat!StreamsAreHeld
    /\ subject = "tools" => Tool!QuotesStayTrue /\ Tool!StreamsAreHeld
\* A document that waits has somebody who will see it, and never two who work at once.
NoLostWakeup == subject = "documents" => Document!NoLostWakeup /\ Document!OneDrain
\* The rules an administrator added stay, and a plan's status says what became of it.
RulesAreKept ==
    /\ subject = "templates" => Rule!NoRuleIsLost
    /\ subject = "plans" => Plan!NoRuleIsLost /\ Plan!PlanTellsTruth
\* An account may use exits that are there, chose what was probed, and is sent there.
LandingsAreReal == subject = "landings" => Landing!LandingsAreReal /\ Landing!RoutesFollowFiles
SelectionIsProbed == subject = "landings" => Landing!SelectionIsProbed
\* Results of videos, old sessions and secrets, and guesses of passwords.
ResultsNeverGoBack == Video!ResultsNeverGoBack
OldSecretsOpenNothing == subject = "panel" => Panel!OldSecretsOpenNothing
GuessesAreBounded == subject = "limits" => Limit!GuessesAreBounded
=============================================================================

------------------------------ MODULE HostProofs ------------------------------
(***************************************************************************)
(* Theorems about the components of the host that MCHostComponents puts    *)
(* together, each for every value of its constants: the updates of         *)
(* Hysteria, the deduplication of alerts and the journal of deployments.   *)
(***************************************************************************)
EXTENDS MCHostComponents, Integers, Sequences, TLAPS

-----------------------------------------------------------------------------
(* Updates of Hysteria.  The process works on a copy of the state file, and *)
(* what the file says lags behind the binary in one direction only.         *)

Statuses == Update!Pending \cup Update!Terminal \cup {"idle", "checked", "skipped"}
Events == Nat \X Update!Terminal
StateRec == [status : Statuses, op : Nat, mode : {"auto", "manual"}, candidate : Nat,
             liveReplaced : BOOLEAN, ownsLastGood : BOOLEAN, owed : Seq(Events),
             told : SUBSET Events]
ApplyPcs == {"check", "backup", "applying", "replace", "verifying", "probe", "done", "fail",
             "restore", "rolled", "barrier", "giveup"}
CliPcs == ApplyPcs \cup {"idle", "tell", "telling", "begin", "deliver", "refused"}
CliRec == [pc : CliPcs, unit : Nat, after : {"idle", "begin"}, gated : BOOLEAN, mem : StateRec]
ThreadRec == [pc : {"idle", "deliver", "refused"}, op : Nat, newest : BOOLEAN]

UpdateTyped ==
    /\ file \in StateRec /\ cli \in CliRec
    /\ live \in Nat /\ lastGood \in Nat /\ units \subseteq Nat
    /\ panel \in [Threads -> ThreadRec]

\* What can be undone on the word of a state file.
Undoable(state) == live \in good \/ Update!Eligible(state)

\* The file: it leads to a rollback while one may be needed, and an operation is
\* manual only if somebody asked for it.
FileInv ==
    /\ lastGood \in good
    /\ live \in good \/ file.status \in Update!Interrupted \cup {"rollback_failed"}
    /\ Undoable(file)
    /\ file.mode = "manual" => file.op \in asked

\* The process: the candidate is named in the file before it is installed, the last good
\* binary is kept before that, and nothing but a rollback is left once it is live.
CliInv ==
    /\ cli.pc \in {"check", "backup", "applying", "replace", "done", "giveup", "rolled"}
          => live \in good
    /\ cli.pc \in {"applying", "replace", "verifying", "probe"} => cli.mem.ownsLastGood
    /\ cli.pc \in {"replace", "verifying", "probe"} =>
          file = cli.mem /\ cli.mem.status \in Update!Interrupted /\ cli.mem.candidate # 0
    /\ cli.pc = "verifying" => live = cli.mem.candidate
    /\ cli.pc = "probe" => cli.mem.liveReplaced
    /\ cli.pc \in {"fail", "restore", "barrier"} => Undoable(cli.mem)
    /\ cli.pc = "telling" => file.owed # <<>>
    /\ cli.mem.mode = "manual" => cli.mem.op \in asked
    /\ cli.pc \in {"backup", "applying", "replace"} => cli.gated \/ cli.mem.op \in asked

UpdateInv == UpdateTyped /\ FileInv /\ CliInv

\* What an end and a new delivery do to a state.
Follows(old, new) ==
    /\ new \in StateRec /\ new.op = old.op /\ new.mode = old.mode
    /\ new.candidate = old.candidate /\ new.liveReplaced = old.liveReplaced
    /\ new.ownsLastGood = old.ownsLastGood
    /\ old.owed # <<>> => new.owed # <<>>

LEMMA EndedState ==
  ASSUME NEW state \in StateRec, NEW status \in Update!Terminal
  PROVE  Follows(state, Update!Ended(state, status)) /\ Update!Ended(state, status).status = status
  <1> DEFINE event == <<state.op, status>>
             kept == \/ event \in state.told
                     \/ \E i \in DOMAIN state.owed : state.owed[i] = event
             owing == IF kept THEN state.owed ELSE Append(state.owed, event)
  <1>1. event \in Events /\ state.owed \in Seq(Events) /\ status \in Statuses
    BY DEF StateRec, Events, Statuses
  <1>2. owing \in Seq(Events) /\ (state.owed # <<>> => owing # <<>>)
    BY <1>1
  <1>3. Update!Ended(state, status) = [state EXCEPT !.status = status, !.owed = owing]
    BY DEF Update!Ended
  <1> HIDE DEF owing
  <1> QED BY <1>1, <1>2, <1>3 DEF Follows, StateRec

LEMMA ScheduledState ==
  ASSUME UpdateTyped, NEW op \in Nat, NEW mode \in {"auto", "manual"}
  PROVE  LET new == Update!Scheduled(op, mode)
         IN /\ new \in StateRec /\ new.op = op /\ new.mode = mode
            /\ new.status = "scheduled" /\ new.owed = file.owed
  <1> DEFINE named == IF op = file.op THEN file.candidate ELSE 0
  <1>1. named \in Nat /\ "scheduled" \in Statuses
    BY DEF UpdateTyped, StateRec, Statuses, Update!Pending
  <1>2. Update!Scheduled(op, mode)
          = [file EXCEPT !.status = "scheduled", !.op = op, !.mode = mode, !.candidate = named,
                         !.liveReplaced = FALSE, !.ownsLastGood = FALSE]
    BY DEF Update!Scheduled
  <1> HIDE DEF named
  <1> QED BY <1>1, <1>2 DEF UpdateTyped, StateRec

LEMMA StatusState ==
  ASSUME NEW state \in StateRec, NEW status \in Statuses
  PROVE  /\ Follows(state, [state EXCEPT !.status = status])
         /\ [state EXCEPT !.status = status].status = status
  BY DEF Follows, StateRec

\* The steps of the process set these fields of it.
LEMMA CliSets ==
  ASSUME NEW job \in CliRec, NEW pc \in CliPcs
  PROVE  LET new == [job EXCEPT !.pc = pc]
         IN new \in CliRec /\ new.pc = pc /\ new.mem = job.mem /\ new.gated = job.gated
  BY DEF CliRec

LEMMA IdleState ==
  /\ Update!IdleState \in StateRec /\ Update!IdleState.mode = "auto"
  /\ Update!IdleCli \in CliRec /\ Update!IdleCli.pc = "idle"
  /\ Update!IdleCli.mem = Update!IdleState
  <1>1. /\ "idle" \in Statuses /\ 0 \in Nat /\ <<>> \in Seq(Events) /\ {} \in SUBSET Events
        /\ FALSE \in BOOLEAN /\ "idle" \in CliPcs
    BY DEF Statuses, CliPcs
  <1>2. Update!IdleState \in StateRec /\ Update!IdleState.mode = "auto"
    BY <1>1 DEF StateRec, Update!IdleState
  <1> QED BY <1>1, <1>2 DEF CliRec, Update!IdleCli

\* The end of an operation goes on to tell it.
LEMMA TellsState ==
  ASSUME UpdateTyped
  PROVE  /\ Update!Tells \in CliRec /\ Update!Tells.pc = "tell"
         /\ Update!Tells.mem = Update!IdleState
  <1>1. Update!IdleCli \in CliRec /\ cli.unit \in Nat /\ "tell" \in CliPcs
    BY IdleState DEF UpdateTyped, CliRec, CliPcs
  <1>2. Update!Tells = [Update!IdleCli EXCEPT !.pc = "tell", !.unit = cli.unit]
    BY DEF Update!Tells
  <1> QED BY <1>1, <1>2, IdleState DEF CliRec

-----------------------------------------------------------------------------
\* Steps of the panel: the file changes only while nothing has to be undone and no
\* process works on it.
LEMMA FileChanges ==
  ASSUME UpdateInv, UNCHANGED <<cli, live, lastGood, good>>, file' \in StateRec,
         file' = file \/ (Update!LockFree /\ live \in good),
         file.owed # <<>> => file'.owed # <<>>,
         asked \subseteq asked', file'.mode = "manual" => file'.op \in asked',
         units' \subseteq Nat, panel' \in [Threads -> ThreadRec]
  PROVE  UpdateInv'
  <1>1. UpdateTyped'
    BY DEF UpdateInv, UpdateTyped
  <1>2. FileInv'
    BY DEF UpdateInv, FileInv, Undoable, Update!Eligible
  <1>3. CliInv'
    BY DEF UpdateInv, CliInv, Undoable, Update!Eligible, Update!LockFree
  <1> QED BY <1>1, <1>2, <1>3 DEF UpdateInv

\* Steps of the process that let the file and the binaries be.
LEMMA CliGoes ==
  ASSUME UpdateInv, UNCHANGED <<file, live, lastGood, good, asked, panel>>, cli' \in CliRec,
         cli'.pc \notin {"check", "backup", "applying", "replace", "verifying", "probe", "done",
                         "fail", "restore", "barrier", "giveup", "rolled"},
         cli'.pc = "telling" => file.owed # <<>>,
         cli'.mem.mode = "manual" => cli'.mem.op \in asked,
         units' \subseteq Nat
  PROVE  UpdateInv'
  <1>1. UpdateTyped'
    BY DEF UpdateInv, UpdateTyped
  <1>2. FileInv'
    BY DEF UpdateInv, FileInv, Undoable, Update!Eligible
  <1>3. CliInv'
    BY DEF CliInv
  <1> QED BY <1>1, <1>2, <1>3 DEF UpdateInv

LEMMA OvertakenThreads ==
  ASSUME UpdateTyped
  PROVE  /\ Update!Overtaken \in [Threads -> ThreadRec] /\ Update!IdleThread \in ThreadRec
         /\ \A t \in Threads : panel[t].op \in Nat
  <1>1. Update!IdleThread \in ThreadRec
    BY DEF Update!IdleThread, ThreadRec
  <1>2. \A t \in Threads : [panel[t] EXCEPT !.newest = FALSE] \in ThreadRec /\ panel[t].op \in Nat
    BY DEF UpdateTyped, ThreadRec
  <1> QED BY <1>1, <1>2 DEF Update!Overtaken

LEMMA ThreadsKeep ==
  ASSUME UpdateInv, NEW t \in Threads,
         Update!Ask(t) \/ Update!Deliver(t) \/ Update!Withdraw(t) \/ Update!ThreadDies(t)
  PROVE  UpdateInv'
  <1>t. UpdateTyped /\ panel \in [Threads -> ThreadRec] /\ units \subseteq Nat
        /\ file \in StateRec /\ file.op \in Nat
        /\ (file.mode = "manual" => file.op \in asked)
    BY DEF UpdateInv, UpdateTyped, StateRec, FileInv
  <1>1. CASE Update!Ask(t)
    <2>1. live \in good /\ Update!LockFree /\ UNCHANGED <<cli, live, lastGood, good, units>>
      BY <1>1 DEF Update!Ask, Update!KeepBinaries, UpdateInv, FileInv, Update!Interrupted
    <2>2. /\ file' = Update!Scheduled(file.op + 1, "manual")
          /\ asked' = asked \cup {file.op + 1} /\ file.op + 1 \in Nat
          /\ panel' = [Update!Overtaken EXCEPT ![t] = [pc |-> "deliver", op |-> file.op + 1,
                                                       newest |-> TRUE]]
      BY <1>1, <1>t DEF Update!Ask
    <2>3. /\ file' \in StateRec /\ file'.op = file.op + 1 /\ file'.owed = file.owed
      BY <2>2, <1>t, ScheduledState
    <2>4. panel' \in [Threads -> ThreadRec]
      BY <2>2, <1>t, OvertakenThreads DEF ThreadRec
    <2> QED BY <2>1, <2>2, <2>3, <2>4, <1>t, FileChanges
  <1>2. CASE Update!Deliver(t)
    <2>1. UNCHANGED <<cli, live, lastGood, good, file, asked>>
      BY <1>2 DEF Update!Deliver, Update!KeepBinaries
    <2>2. units' \subseteq Nat
      BY <1>2, <1>t, OvertakenThreads DEF Update!Deliver
    <2>3. panel' \in [Threads -> ThreadRec]
      <3>1. [panel[t] EXCEPT !.pc = "refused"] \in ThreadRec
        BY <1>t DEF ThreadRec
      <3> QED BY <1>2, <1>t, <3>1, OvertakenThreads DEF Update!Deliver
    <2> QED BY <2>1, <2>2, <2>3, <1>t, FileChanges
  <1>3. CASE Update!Withdraw(t)
    <2>1. UNCHANGED <<cli, live, lastGood, good, asked, units>>
      BY <1>3 DEF Update!Withdraw, Update!KeepBinaries
    <2>2. panel' \in [Threads -> ThreadRec]
      BY <1>3, <1>t, OvertakenThreads DEF Update!Withdraw
    <2>3. CASE file' = file
      BY <2>1, <2>2, <2>3, <1>t, FileChanges
    <2>4. CASE Update!LockFree /\ file.status = "scheduled" /\ file' = Update!Ended(file, "failed")
      <3>1. Follows(file, file')
        BY <2>4, <1>t, EndedState DEF Update!Terminal
      <3>2. live \in good
        BY <2>4 DEF UpdateInv, FileInv, Update!Interrupted, Update!Pending
      <3> QED BY <2>1, <2>2, <2>4, <3>1, <3>2, <1>t, FileChanges DEF Follows
    <2> QED BY <1>3, <2>3, <2>4 DEF Update!Withdraw
  <1>4. CASE Update!ThreadDies(t)
    BY <1>4, <1>t, OvertakenThreads, FileChanges DEF Update!ThreadDies, Update!KeepBinaries
  <1> QED BY <1>1, <1>2, <1>3, <1>4

LEMMA CheckKeeps == ASSUME UpdateInv, Update!RecordCheck PROVE UpdateInv'
  <1>1. UNCHANGED <<cli, live, lastGood, good, asked, panel, units>>
    BY DEF Update!RecordCheck, Update!KeepBinaries, Update!KeepPanel
  <1>2. live \in good /\ Update!LockFree /\ file' = [file EXCEPT !.status = "checked"]
    BY DEF Update!RecordCheck, UpdateInv, FileInv, Update!Interrupted
  <1>3. Follows(file, file')
    BY <1>2, StatusState DEF UpdateInv, UpdateTyped, Statuses
  <1> QED BY <1>1, <1>2, <1>3, FileChanges DEF Follows, UpdateInv, UpdateTyped, FileInv

-----------------------------------------------------------------------------
\* Steps of the process around an operation.
LEMMA StartsKeep == ASSUME UpdateInv, Update!StartTimer \/ Update!StartUnit PROVE UpdateInv'
  <1>1. UNCHANGED <<file, live, lastGood, good, asked, panel>> /\ units' \subseteq Nat
    BY DEF Update!StartTimer, Update!StartUnit, Update!KeepBinaries, Update!KeepPanel, UpdateInv,
           UpdateTyped
  <1>2. cli' \in CliRec /\ cli'.pc = "tell" /\ cli'.mem = Update!IdleState
    <2>1. \A op \in Nat :
            LET new == [Update!IdleCli EXCEPT !.pc = "tell", !.unit = op, !.after = "begin"]
            IN new \in CliRec /\ new.pc = "tell" /\ new.mem = Update!IdleState
      BY IdleState DEF CliRec, CliPcs
    <2>2. LET new == [Update!IdleCli EXCEPT !.pc = "tell", !.after = "begin"]
          IN new \in CliRec /\ new.pc = "tell" /\ new.mem = Update!IdleState
      BY IdleState DEF CliRec, CliPcs
    <2>3. CASE Update!StartTimer
      BY <2>2, <2>3 DEF Update!StartTimer
    <2>4. CASE Update!StartUnit
      <3>1. PICK op \in units :
              cli' = [Update!IdleCli EXCEPT !.pc = "tell", !.unit = op, !.after = "begin"]
        BY <2>4 DEF Update!StartUnit
      <3>2. op \in Nat
        BY DEF UpdateInv, UpdateTyped
      <3> QED BY <2>1, <3>1, <3>2
    <2> QED BY <2>3, <2>4
  <1> QED BY <1>1, <1>2, CliGoes, IdleState

LEMMA TellKeeps == ASSUME UpdateInv, Update!Tell PROVE UpdateInv'
  <1>1. UNCHANGED <<file, live, lastGood, good, asked, panel, units>>
    BY DEF Update!Tell, Update!Goes, Update!KeepBinaries, Update!KeepPanel
  <1>2. PICK pc \in {cli.after, "telling"} :
          cli' = [cli EXCEPT !.pc = pc] /\ (pc = "telling" => file.owed # <<>>)
    BY DEF Update!Tell, Update!Goes, UpdateInv, UpdateTyped, CliRec
  <1>3. pc \in {"idle", "begin", "telling"} /\ pc \in CliPcs
    BY <1>2 DEF UpdateInv, UpdateTyped, CliRec, CliPcs
  <1>4. cli' \in CliRec /\ cli'.pc = pc /\ cli'.mem = cli.mem
    BY <1>2, <1>3, CliSets DEF UpdateInv, UpdateTyped
  <1> QED BY <1>1, <1>2, <1>3, <1>4, CliGoes DEF UpdateInv, UpdateTyped, CliInv

LEMMA TellingKeeps == ASSUME UpdateInv, Update!Telling PROVE UpdateInv'
  <1>1. UNCHANGED <<live, lastGood, good, asked, panel, units>>
    BY DEF Update!Telling, Update!Goes, Update!KeepBinaries, Update!KeepPanel
  <1>2. cli.after \in CliPcs /\ cli.after \in {"idle", "begin"}
    BY DEF UpdateInv, UpdateTyped, CliRec, CliPcs
  <1>3. cli' \in CliRec /\ cli'.pc = cli.after /\ cli'.mem = cli.mem
    BY <1>2, CliSets DEF Update!Telling, Update!Goes, UpdateInv, UpdateTyped
  <1>4. /\ file' \in StateRec /\ file'.status = file.status /\ file'.op = file.op
        /\ file'.mode = file.mode /\ file'.candidate = file.candidate
        /\ file'.liveReplaced = file.liveReplaced /\ file'.ownsLastGood = file.ownsLastGood
    <2>1. file \in StateRec /\ file.owed \in Seq(Events) /\ file.owed # <<>>
      BY DEF Update!Telling, Update!At, UpdateInv, UpdateTyped, StateRec, CliInv
    <2>2. PICK rest : rest = Tail(file.owed) OBVIOUS
    <2>3. PICK said : said = file.told \cup {Head(file.owed)} OBVIOUS
    <2>4. rest \in Seq(Events) /\ said \in SUBSET Events
      BY <2>1, <2>2, <2>3 DEF StateRec
    <2>5. file' = file \/ file' = [file EXCEPT !.owed = rest, !.told = said]
      BY <2>2, <2>3 DEF Update!Telling
    <2> QED BY <2>1, <2>4, <2>5 DEF StateRec
  <1>5. UpdateTyped'
    BY <1>1, <1>3, <1>4 DEF UpdateInv, UpdateTyped
  <1>6. FileInv'
    BY <1>1, <1>4 DEF UpdateInv, FileInv, Undoable, Update!Eligible
  <1>7. CliInv'
    BY <1>1, <1>2, <1>3 DEF UpdateInv, CliInv
  <1> QED BY <1>5, <1>6, <1>7 DEF UpdateInv

\* Steps of the process while the binary is one that passed its probes, or has passed
\* them now.
LEMMA GoodWork ==
  ASSUME UpdateInv, live \in good', UNCHANGED <<live, lastGood, asked, panel>>,
         good \subseteq good', file' \in StateRec, cli' \in CliRec, units' \subseteq Nat,
         file'.mode = "manual" => file'.op \in asked,
         cli'.mem.mode = "manual" => cli'.mem.op \in asked,
         cli'.pc \notin {"applying", "replace", "verifying", "probe", "telling"},
         cli'.pc = "backup" => cli'.gated \/ cli'.mem.op \in asked
  PROVE  UpdateInv'
  <1>1. UpdateTyped'
    BY DEF UpdateInv, UpdateTyped
  <1>2. FileInv'
    BY DEF UpdateInv, FileInv, Undoable
  <1>3. CliInv'
    BY DEF CliInv, Undoable
  <1> QED BY <1>1, <1>2, <1>3 DEF UpdateInv

LEMMA UnitsReturn ==
  ASSUME UpdateTyped
  PROVE  /\ Update!Fails => cli' = Update!IdleCli /\ units' \subseteq Nat
         /\ \A following : Update!Goes(following) => cli' = following /\ units' = units
  BY DEF UpdateTyped, CliRec, Update!Fails, Update!Retried, Update!Goes

LEMMA BeginKeeps ==
  ASSUME UpdateInv, Update!BeginUnit \/ Update!BeginAuto \/ Update!Redeliver
  PROVE  UpdateInv'
  <1>t. UpdateTyped /\ file \in StateRec /\ cli \in CliRec /\ units \subseteq Nat
        /\ file.op \in Nat /\ file.mode \in {"auto", "manual"}
        /\ (file.mode = "manual" => file.op \in asked)
        /\ (cli.mem.mode = "manual" => cli.mem.op \in asked)
        /\ {"check", "deliver"} \subseteq CliPcs
    BY DEF UpdateInv, UpdateTyped, StateRec, FileInv, CliInv, CliPcs, ApplyPcs
  <1>k. UNCHANGED <<live, lastGood, good, asked>>
    BY DEF Update!BeginUnit, Update!BeginAuto, Update!Redeliver, Update!KeepBinaries,
           Update!KeepPanel
  <1>i. UNCHANGED <<panel, file>> /\ units' = units /\ cli' = Update!IdleCli => UpdateInv'
    BY <1>t, <1>k, IdleState, CliGoes
  <1>1. CASE Update!BeginUnit
    <2>1. UNCHANGED <<panel, file>> /\ units' = units
      BY <1>1 DEF Update!BeginUnit, Update!Goes, Update!KeepPanel
    <2>2. CASE /\ file.status = "scheduled"
               /\ cli' = [cli EXCEPT !.pc = "check", !.mem = Update!Scheduled(file.op, file.mode)]
      <3>1. live \in good
        BY <2>2 DEF UpdateInv, FileInv, Update!Interrupted, Update!Pending
      <3>2. PICK new \in StateRec : /\ new = Update!Scheduled(file.op, file.mode)
                                    /\ new.op = file.op /\ new.mode = file.mode
        BY <1>t, ScheduledState
      <3>3. cli' \in CliRec /\ cli'.pc = "check" /\ cli'.mem = new
        <4>1. cli' = [cli EXCEPT !.pc = "check", !.mem = new]
          BY <2>2, <3>2
        <4>2. cli \in CliRec /\ "check" \in CliPcs /\ new \in StateRec
          BY <1>t, <3>2
        <4>3. LET after == [cli EXCEPT !.pc = "check", !.mem = new]
              IN after \in CliRec /\ after.pc = "check" /\ after.mem = new
          BY <4>2 DEF CliRec
        <4> QED BY <4>1, <4>3
      <3> QED BY <1>t, <1>k, <2>1, <3>1, <3>2, <3>3, GoodWork
    <2> QED BY <1>1, <1>i, <2>1, <2>2 DEF Update!BeginUnit, Update!Goes
  <1>2. CASE Update!BeginAuto
    <2>1. live \in good /\ UNCHANGED panel /\ units' = units
      BY <1>2 DEF Update!BeginAuto, Update!Goes, Update!KeepPanel, UpdateInv, FileInv,
                  Update!Interrupted
    <2>2. CASE file' = Update!Scheduled(file.op + 1, "auto")
               /\ cli' = [cli EXCEPT !.pc = "check", !.mem = Update!Scheduled(file.op + 1, "auto")]
      <3>1. PICK new \in StateRec : new = Update!Scheduled(file.op + 1, "auto") /\ new.mode = "auto"
        BY <1>t, ScheduledState
      <3>2. cli' \in CliRec /\ cli'.pc = "check" /\ cli'.mem = new
        <4>1. cli' = [cli EXCEPT !.pc = "check", !.mem = new]
          BY <2>2, <3>1
        <4>2. cli \in CliRec /\ "check" \in CliPcs /\ new \in StateRec
          BY <1>t, <3>1
        <4>3. LET after == [cli EXCEPT !.pc = "check", !.mem = new]
              IN after \in CliRec /\ after.pc = "check" /\ after.mem = new
          BY <4>2 DEF CliRec
        <4> QED BY <4>1, <4>3
      <3> QED BY <1>k, <1>t, <2>1, <2>2, <3>1, <3>2, GoodWork
    <2> QED BY <1>2, <1>i, <2>1, <2>2 DEF Update!BeginAuto, Update!Goes
  <1>3. CASE Update!Redeliver
    <2>1. live \in good /\ units' = units /\ panel' = Update!Overtaken
          /\ file' = Update!Scheduled(file.op, file.mode)
          /\ cli' = [cli EXCEPT !.pc = "deliver"]
      BY <1>3 DEF Update!Redeliver, Update!Goes, UpdateInv, FileInv, Update!Interrupted,
                  Update!Pending
    <2>2. file' \in StateRec /\ file'.op = file.op /\ file'.mode = file.mode
      BY <2>1, <1>t, ScheduledState
    <2>3. cli' \in CliRec /\ cli'.pc = "deliver" /\ cli'.mem = cli.mem
      BY <2>1, <1>t, CliSets
    <2>4. UpdateTyped'
      BY <1>t, <1>k, <2>1, <2>2, <2>3, OvertakenThreads DEF UpdateTyped
    <2>5. FileInv'
      BY <1>t, <1>k, <2>1, <2>2 DEF UpdateInv, FileInv, Undoable
    <2>6. CliInv'
      BY <1>t, <1>k, <2>3 DEF CliInv
    <2> QED BY <2>4, <2>5, <2>6 DEF UpdateInv
  <1> QED BY <1>1, <1>2, <1>3

LEMMA DeliverKeeps ==
  ASSUME UpdateInv, Update!DeliverAgain \/ Update!WithdrawAgain
  PROVE  UpdateInv'
  <1>t. UpdateTyped /\ file \in StateRec /\ cli \in CliRec /\ units \subseteq Nat
        /\ file.op \in Nat /\ "refused" \in CliPcs
        /\ (file.mode = "manual" => file.op \in asked)
        /\ (cli.mem.mode = "manual" => cli.mem.op \in asked)
    BY DEF UpdateInv, UpdateTyped, StateRec, FileInv, CliInv, CliPcs
  <1>k. UNCHANGED <<live, lastGood, good, asked, panel>> /\ units' \subseteq Nat
    BY <1>t DEF Update!DeliverAgain, Update!WithdrawAgain, Update!KeepBinaries,
                Update!KeepPanel, Update!Goes
  <1>1. CASE Update!DeliverAgain
    <2>1. LET new == [cli EXCEPT !.pc = "refused"]
          IN new \in CliRec /\ new.pc = "refused" /\ new.mem = cli.mem
      BY <1>t, CliSets
    <2> QED BY <1>1, <1>t, <1>k, <2>1, IdleState, CliGoes DEF Update!DeliverAgain
  <1>2. CASE Update!WithdrawAgain
    <2>1. cli' = Update!IdleCli
      BY <1>2 DEF Update!WithdrawAgain, Update!Goes
    <2>2. CASE file' = file
      BY <1>k, <2>1, <2>2, IdleState, CliGoes
    <2>3. CASE file.status = "scheduled" /\ file' = Update!Ended(file, "failed")
      <3>1. Follows(file, file')
        BY <2>3, <1>t, EndedState DEF Update!Terminal
      <3>2. live \in good
        BY <2>3 DEF UpdateInv, FileInv, Update!Interrupted, Update!Pending
      <3> QED BY <1>t, <1>k, <2>1, <3>1, <3>2, IdleState, GoodWork DEF Follows
    <2> QED BY <1>2, <2>2, <2>3 DEF Update!WithdrawAgain
  <1> QED BY <1>1, <1>2

LEMMA ReconcileKeeps == ASSUME UpdateInv, Update!Reconcile PROVE UpdateInv'
  <1>t. file \in StateRec /\ cli \in CliRec /\ (file.mode = "manual" => file.op \in asked)
    BY DEF UpdateInv, UpdateTyped, FileInv
  <1>k. UNCHANGED <<file, live, lastGood, good, asked, panel, units>>
    BY DEF Update!Reconcile, Update!KeepBinaries, Update!KeepPanel, Update!Goes
  <1>1. PICK pc \in {"restore", "tell", "giveup"} :
          /\ cli' = [cli EXCEPT !.pc = pc, !.after = "idle", !.mem = file]
          /\ pc = "giveup" => live \in good
    BY DEF Update!Reconcile, Update!Goes, UpdateInv, FileInv, Undoable
  <1>2. cli' \in CliRec /\ cli'.pc = pc /\ cli'.mem = file
    BY <1>t, <1>1 DEF CliRec, CliPcs, ApplyPcs
  <1>3. UpdateTyped'
    BY <1>k, <1>2 DEF UpdateInv, UpdateTyped
  <1>4. FileInv'
    BY <1>k DEF UpdateInv, FileInv, Undoable, Update!Eligible
  <1>5. CliInv'
    BY <1>k, <1>t, <1>1, <1>2 DEF UpdateInv, FileInv, CliInv, Undoable, Update!Eligible
  <1> QED BY <1>3, <1>4, <1>5 DEF UpdateInv

-----------------------------------------------------------------------------
\* The steps of apply_update.
LEMMA MemState ==
  ASSUME UpdateInv
  PROVE  /\ cli \in CliRec /\ cli.mem \in StateRec /\ file \in StateRec
         /\ Update!Mem = cli.mem /\ units \subseteq Nat /\ live \in Nat
         /\ (cli.mem.mode = "manual" => cli.mem.op \in asked)
         /\ (file.mode = "manual" => file.op \in asked)
         /\ ApplyPcs \subseteq CliPcs /\ cli.mem.mode \in {"auto", "manual"}
  BY DEF UpdateInv, UpdateTyped, FileInv, CliInv, CliRec, StateRec, CliPcs, Update!Mem

LEMMA CheckEndsKeeps == ASSUME UpdateInv, Update!CheckEnds PROVE UpdateInv'
  <1>k. UNCHANGED <<live, lastGood, good, asked, panel>> /\ live \in good
    BY DEF Update!CheckEnds, Update!At, Update!KeepBinaries, Update!KeepPanel, UpdateInv, CliInv
  <1>1. PICK new \in StateRec :
          /\ Follows(cli.mem, new)
          /\ \/ Update!Save(new, Update!Tells)
             \/ Update!SaveRaises(new) /\ Update!Fails
    <2>1. PICK status \in {"failed", "skipped", "done"} :
            LET new == IF status = "skipped" THEN [cli.mem EXCEPT !.status = status]
                       ELSE Update!Ended(cli.mem, status)
            IN \/ Update!Save(new, Update!Tells)
               \/ Update!SaveRaises(new) /\ Update!Fails
      BY MemState DEF Update!CheckEnds
    <2>2. Follows(cli.mem, [cli.mem EXCEPT !.status = "skipped"])
      BY MemState, StatusState DEF Statuses
    <2>3. /\ Follows(cli.mem, Update!Ended(cli.mem, "failed"))
          /\ Follows(cli.mem, Update!Ended(cli.mem, "done"))
      BY MemState, EndedState DEF Update!Terminal
    <2> QED BY <2>1, <2>2, <2>3 DEF Follows
  <1>2. file' \in {file, new}
    BY <1>1 DEF Update!Save, Update!SaveRaises
  <1>3. cli' \in {Update!Tells, Update!IdleCli} /\ units' \subseteq Nat
    BY <1>1, MemState, UnitsReturn DEF Update!Save, UpdateInv
  <1> QED BY <1>k, <1>1, <1>2, <1>3, MemState, IdleState, TellsState, GoodWork
          DEF Follows, UpdateInv

LEMMA CheckPassesKeeps == ASSUME UpdateInv, Update!CheckPasses PROVE UpdateInv'
  <1>k. UNCHANGED <<live, lastGood, good, asked, panel>> /\ live \in good
    BY DEF Update!CheckPasses, Update!At, Update!KeepBinaries, Update!KeepPanel, UpdateInv, CliInv
  <1>g. PICK gated \in BOOLEAN : gated = ~Update!Manual
    OBVIOUS
  <1>n. PICK new \in StateRec :
          /\ new = [cli.mem EXCEPT !.status = "downloading"] /\ Follows(cli.mem, new)
    <2>1. Follows(cli.mem, [cli.mem EXCEPT !.status = "downloading"])
      BY MemState, StatusState DEF Statuses, Update!Pending
    <2>2. [cli.mem EXCEPT !.status = "downloading"] \in StateRec
      BY <2>1 DEF Follows
    <2> QED BY <2>1, <2>2
  <1>f. PICK following \in CliRec :
          /\ following = [cli EXCEPT !.gated = gated, !.mem = new]
          /\ following.gated = gated /\ following.mem = new
    <2>1. LET following == [cli EXCEPT !.gated = gated, !.mem = new]
          IN /\ following \in CliRec
             /\ following.gated = gated /\ following.mem = new
      <3>1. cli \in CliRec
        BY MemState
      <3> QED BY <3>1 DEF CliRec
    <2> QED BY <2>1
  <1>1. \/ Update!Save(new, [following EXCEPT !.pc = "backup"])
        \/ Update!SaveRaises(new) /\ Update!Goes([following EXCEPT !.pc = "fail"])
    BY <1>g, <1>n, <1>f, MemState DEF Update!CheckPasses
  <1>2. file' \in {file, new} /\ units' = units
    BY <1>1 DEF Update!Save, Update!SaveRaises, Update!Goes
  <1>3. PICK pc \in {"backup", "fail"} : cli' = [following EXCEPT !.pc = pc]
    BY <1>1 DEF Update!Save, Update!Goes
  <1>4. cli' \in CliRec /\ cli'.pc = pc /\ cli'.mem = new /\ cli'.gated = gated
    <2>1. pc \in CliPcs
      BY <1>3 DEF CliPcs, ApplyPcs
    <2> QED BY <1>f, <1>3, <2>1, MemState, CliSets
  <1>5. gated \/ new.op \in asked
    BY <1>g, <1>n, MemState DEF Update!Manual, Follows
  <1> QED BY <1>k, <1>n, <1>2, <1>3, <1>4, <1>5, MemState, GoodWork DEF Follows

LEMMA BackupKeeps == ASSUME UpdateInv, Update!Backup PROVE UpdateInv'
  <1>k. /\ UNCHANGED <<live, good, asked, panel, file, units>> /\ live \in good
        /\ cli.gated \/ cli.mem.op \in asked
    BY DEF Update!Backup, Update!At, Update!KeepPanel, Update!Goes, UpdateInv, CliInv
  <1>1. CASE cli' = [cli EXCEPT !.pc = "fail"] /\ lastGood' = lastGood
    <2>1. cli' \in CliRec /\ cli'.pc = "fail" /\ cli'.mem = cli.mem
      BY <1>1, MemState, CliSets DEF ApplyPcs
    <2> QED BY <1>k, <1>1, <2>1, MemState, GoodWork
  <1>2. CASE cli' = [cli EXCEPT !.pc = "applying", !.mem.ownsLastGood = TRUE] /\ lastGood' = live
    <2>1. PICK yes : yes = TRUE OBVIOUS
    <2>2. PICK mem \in StateRec : /\ mem = [cli.mem EXCEPT !.ownsLastGood = yes]
                                  /\ mem.ownsLastGood /\ mem.op = cli.mem.op
                                  /\ mem.mode = cli.mem.mode
      <3>1. LET mem == [cli.mem EXCEPT !.ownsLastGood = yes]
            IN /\ mem \in StateRec /\ mem.ownsLastGood /\ mem.op = cli.mem.op
               /\ mem.mode = cli.mem.mode
        <4>1. cli.mem \in StateRec
          BY MemState
        <4> QED BY <2>1, <4>1 DEF StateRec
      <3> QED BY <3>1
    <2>3. cli' = [cli EXCEPT !.pc = "applying", !.mem = mem]
      BY <1>2, <2>1, <2>2
    <2>4. /\ cli' \in CliRec /\ cli'.pc = "applying" /\ cli'.mem = mem
          /\ cli'.gated = cli.gated
      <3>1. cli \in CliRec /\ "applying" \in CliPcs /\ mem \in StateRec
        BY <2>2, MemState DEF ApplyPcs
      <3>2. LET new == [cli EXCEPT !.pc = "applying", !.mem = mem]
            IN new \in CliRec /\ new.pc = "applying" /\ new.mem = mem /\ new.gated = cli.gated
        BY <3>1 DEF CliRec
      <3> QED BY <2>3, <3>2
    <2>5. UpdateTyped'
      BY <1>k, <1>2, <2>4 DEF UpdateInv, UpdateTyped
    <2>6. FileInv'
      BY <1>k, <1>2 DEF UpdateInv, FileInv, Undoable
    <2>7. CliInv'
      BY <1>k, <2>2, <2>4, MemState DEF CliInv
    <2> QED BY <2>5, <2>6, <2>7 DEF UpdateInv
  <1> QED BY <1>1, <1>2 DEF Update!Backup, Update!Goes

LEMMA SaveApplyingKeeps == ASSUME UpdateInv, Update!SaveApplying PROVE UpdateInv'
  <1>k. /\ UNCHANGED <<live, lastGood, good, asked, panel>> /\ live \in good
        /\ cli.gated \/ cli.mem.op \in asked
        /\ cli.mem.ownsLastGood
    BY DEF Update!SaveApplying, Update!At, Update!KeepBinaries, Update!KeepPanel, UpdateInv, CliInv
  <1>1. PICK release \in live + 1 .. MaxRelease :
          LET new == [cli.mem EXCEPT !.status = "applying", !.candidate = release]
          IN \/ Update!Save(new, [cli EXCEPT !.pc = "replace", !.mem = new])
             \/ Update!SaveRaises(new) /\ Update!Goes([cli EXCEPT !.pc = "fail", !.mem = new])
    BY MemState DEF Update!SaveApplying
  <1>r. release \in Nat /\ release # 0
    BY <1>1, MemState, HostAssumption
  <1>n. PICK new \in StateRec :
          /\ new = [cli.mem EXCEPT !.status = "applying", !.candidate = release]
          /\ new.status = "applying" /\ new.candidate = release
          /\ new.ownsLastGood = cli.mem.ownsLastGood /\ new.op = cli.mem.op
          /\ new.mode = cli.mem.mode
    <2>1. LET new == [cli.mem EXCEPT !.status = "applying", !.candidate = release]
          IN /\ new \in StateRec /\ new.status = "applying" /\ new.candidate = release
             /\ new.ownsLastGood = cli.mem.ownsLastGood /\ new.op = cli.mem.op
             /\ new.mode = cli.mem.mode
      <3>1. cli.mem \in StateRec /\ "applying" \in Statuses
        BY MemState DEF Statuses, Update!Pending
      <3> QED BY <1>r, <3>1 DEF StateRec
    <2> QED BY <2>1
  <1>2. file' \in {file, new} /\ units' = units
    BY <1>1, <1>n DEF Update!Save, Update!SaveRaises, Update!Goes
  <1>3. \/ cli' = [cli EXCEPT !.pc = "replace", !.mem = new] /\ file' = new
        \/ cli' = [cli EXCEPT !.pc = "fail", !.mem = new]
    BY <1>1, <1>n DEF Update!Save, Update!Goes
  <1>4. /\ cli' \in CliRec /\ cli'.mem = new /\ cli'.gated = cli.gated
        /\ (cli'.pc = "replace" /\ file' = new) \/ cli'.pc = "fail"
    <2>1. cli \in CliRec /\ {"replace", "fail"} \subseteq CliPcs /\ new \in StateRec
      BY <1>n, MemState DEF ApplyPcs
    <2>2. LET after == [cli EXCEPT !.pc = "replace", !.mem = new]
          IN after \in CliRec /\ after.pc = "replace" /\ after.mem = new /\ after.gated = cli.gated
      BY <2>1 DEF CliRec
    <2>3. LET after == [cli EXCEPT !.pc = "fail", !.mem = new]
          IN after \in CliRec /\ after.pc = "fail" /\ after.mem = new /\ after.gated = cli.gated
      BY <2>1 DEF CliRec
    <2> QED BY <1>3, <2>2, <2>3
  <1>5. UpdateTyped'
    BY <1>k, <1>n, <1>2, <1>4 DEF UpdateInv, UpdateTyped
  <1>6. FileInv'
    BY <1>k, <1>n, <1>2, MemState DEF UpdateInv, FileInv, Undoable
  <1>7. CliInv'
    BY <1>k, <1>r, <1>n, <1>4, MemState
       DEF CliInv, Undoable, Update!Interrupted, Update!Pending
  <1> QED BY <1>5, <1>6, <1>7 DEF UpdateInv

LEMMA ReplaceKeeps == ASSUME UpdateInv, Update!Replace PROVE UpdateInv'
  <1>k. /\ UNCHANGED <<file, lastGood, good, asked, panel, units>> /\ live \in good
        /\ cli.mem.ownsLastGood /\ file = cli.mem /\ cli.mem.status \in Update!Interrupted
        /\ cli.mem.candidate # 0 /\ cli.mem.candidate \in Nat
    BY MemState DEF Update!Replace, Update!At, Update!Goes, Update!KeepPanel, UpdateInv, CliInv,
                    StateRec
  <1>1. \/ live' = cli.mem.candidate /\ cli' = [cli EXCEPT !.pc = "verifying"]
        \/ live' \in {live, cli.mem.candidate} /\ cli' = [cli EXCEPT !.pc = "fail"]
    BY MemState DEF Update!Replace, Update!Goes
  <1>2. /\ cli' \in CliRec /\ cli'.mem = cli.mem
        /\ (cli'.pc = "verifying" /\ live' = cli.mem.candidate) \/ cli'.pc = "fail"
        /\ live' \in {live, cli.mem.candidate}
    <2>1. cli \in CliRec /\ {"verifying", "fail"} \subseteq CliPcs
      BY MemState DEF ApplyPcs
    <2>2. \A pc \in {"verifying", "fail"} :
            LET new == [cli EXCEPT !.pc = pc]
            IN new \in CliRec /\ new.pc = pc /\ new.mem = cli.mem
      BY <2>1, CliSets
    <2> QED BY <1>1, <2>2
  <1>3. (live \in good \/ Update!Eligible(cli.mem))'
    BY <1>k, <1>2 DEF Update!Eligible
  <1>5. UpdateTyped'
    BY <1>k, <1>2 DEF UpdateInv, UpdateTyped
  <1>6. FileInv'
    BY <1>k, <1>2 DEF UpdateInv, FileInv, Undoable, Update!Eligible
  <1>7. CliInv'
    BY <1>k, <1>2, <1>3, MemState DEF CliInv, Undoable
  <1> QED BY <1>5, <1>6, <1>7 DEF UpdateInv

LEMMA SaveVerifyingKeeps == ASSUME UpdateInv, Update!SaveVerifying PROVE UpdateInv'
  <1>k. /\ UNCHANGED <<live, lastGood, good, asked, panel>> /\ live = cli.mem.candidate
        /\ cli.mem.ownsLastGood /\ file = cli.mem /\ cli.mem.candidate # 0
        /\ cli.mem.status \in Update!Interrupted
    BY DEF Update!SaveVerifying, Update!At, Update!KeepBinaries, Update!KeepPanel, UpdateInv,
           CliInv
  <1>y. PICK yes : yes = TRUE OBVIOUS
  <1>n. PICK new \in StateRec :
          /\ new = [cli.mem EXCEPT !.status = "verifying", !.liveReplaced = yes]
          /\ new.status = "verifying" /\ new.candidate = cli.mem.candidate /\ new.liveReplaced
          /\ new.ownsLastGood = cli.mem.ownsLastGood /\ new.op = cli.mem.op
          /\ new.mode = cli.mem.mode
    <2>1. LET new == [cli.mem EXCEPT !.status = "verifying", !.liveReplaced = yes]
          IN /\ new \in StateRec /\ new.status = "verifying" /\ new.liveReplaced
             /\ new.candidate = cli.mem.candidate
             /\ new.ownsLastGood = cli.mem.ownsLastGood /\ new.op = cli.mem.op
             /\ new.mode = cli.mem.mode
      <3>1. cli.mem \in StateRec /\ "verifying" \in Statuses /\ yes \in BOOLEAN
        BY <1>y, MemState DEF Statuses, Update!Pending
      <3> QED BY <1>y, <3>1 DEF StateRec
    <2> QED BY <2>1
  <1>1. \/ Update!Save(new, [cli EXCEPT !.pc = "probe", !.mem = new])
        \/ Update!SaveRaises(new) /\ Update!Goes([cli EXCEPT !.pc = "fail", !.mem = new])
    BY <1>y, <1>n, MemState DEF Update!SaveVerifying
  <1>2. file' \in {file, new} /\ units' = units
    BY <1>1 DEF Update!Save, Update!SaveRaises, Update!Goes
  <1>3. \/ cli' = [cli EXCEPT !.pc = "probe", !.mem = new] /\ file' = new
        \/ cli' = [cli EXCEPT !.pc = "fail", !.mem = new]
    BY <1>1 DEF Update!Save, Update!Goes
  <1>4. /\ cli' \in CliRec /\ cli'.mem = new
        /\ (cli'.pc = "probe" /\ file' = new) \/ cli'.pc = "fail"
    <2>1. cli \in CliRec /\ {"probe", "fail"} \subseteq CliPcs /\ new \in StateRec
      BY <1>n, MemState DEF ApplyPcs
    <2>2. LET after == [cli EXCEPT !.pc = "probe", !.mem = new]
          IN after \in CliRec /\ after.pc = "probe" /\ after.mem = new
      BY <2>1 DEF CliRec
    <2>3. LET after == [cli EXCEPT !.pc = "fail", !.mem = new]
          IN after \in CliRec /\ after.pc = "fail" /\ after.mem = new
      BY <2>1 DEF CliRec
    <2> QED BY <1>3, <2>2, <2>3
  <1>5. UpdateTyped'
    BY <1>k, <1>n, <1>2, <1>4 DEF UpdateInv, UpdateTyped
  <1>6. FileInv'
    <2>1. Update!Eligible(new)'
      BY <1>k, <1>n DEF Update!Eligible
    <2>2. Update!Eligible(file)'
      BY <1>k, <1>2, <2>1 DEF Update!Eligible
    <2>3. new.status \in Update!Interrupted
      BY <1>n DEF Update!Interrupted, Update!Pending
    <2> QED BY <1>k, <1>n, <1>2, <2>2, <2>3, MemState DEF UpdateInv, FileInv, Undoable
  <1>7. CliInv'
    BY <1>k, <1>n, <1>4, MemState
       DEF CliInv, Undoable, Update!Eligible, Update!Interrupted, Update!Pending
  <1> QED BY <1>5, <1>6, <1>7 DEF UpdateInv

LEMMA ProbeKeeps == ASSUME UpdateInv, Update!Probe PROVE UpdateInv'
  <1>k. /\ UNCHANGED <<file, live, lastGood, asked, panel, units>>
        /\ cli.mem.ownsLastGood /\ cli.mem.liveReplaced
    BY DEF Update!Probe, Update!At, Update!Goes, Update!KeepPanel, UpdateInv, CliInv
  <1>1. CASE cli' = [cli EXCEPT !.pc = "done"] /\ good' = good \cup {live}
    <2>1. cli' \in CliRec /\ cli'.pc = "done" /\ cli'.mem = cli.mem
      BY <1>1, MemState, CliSets DEF ApplyPcs
    <2> QED BY <1>k, <1>1, <2>1, MemState, GoodWork
  <1>2. CASE cli' = [cli EXCEPT !.pc = "fail"] /\ good' = good
    <2>1. cli' \in CliRec /\ cli'.pc = "fail" /\ cli'.mem = cli.mem
      BY <1>2, MemState, CliSets DEF ApplyPcs
    <2>2. UpdateTyped'
      BY <1>k, <2>1 DEF UpdateInv, UpdateTyped
    <2>3. FileInv'
      BY <1>k, <1>2 DEF UpdateInv, FileInv, Undoable, Update!Eligible
    <2>4. CliInv'
      BY <1>k, <2>1, MemState DEF CliInv, Undoable, Update!Eligible
    <2> QED BY <2>2, <2>3, <2>4 DEF UpdateInv
  <1> QED BY <1>1, <1>2 DEF Update!Probe, Update!Goes

\* An end, told or not: the undo it stands for is that of the process's copy.
LEMMA EndKeeps ==
  ASSUME UpdateInv, UNCHANGED <<live, lastGood, good, asked, panel>>,
         NEW new \in StateRec, Follows(cli.mem, new), file' \in {file, new},
         Undoable(new), live \in good \/ new.status = "rollback_failed",
         cli' \in {Update!Tells, Update!IdleCli}, units' \subseteq Nat
  PROVE  UpdateInv'
  <1>1. cli' \in CliRec /\ cli'.pc \in {"tell", "idle"} /\ cli'.mem.mode = "auto"
    BY IdleState, TellsState DEF UpdateInv
  <1>2. UpdateTyped'
    BY <1>1 DEF UpdateInv, UpdateTyped
  <1>3. FileInv'
    <2>1. (new.mode = "manual" => new.op \in asked) /\ (file.mode = "manual" => file.op \in asked)
      BY MemState DEF Follows
    <2> QED BY <2>1 DEF UpdateInv, FileInv, Undoable, Update!Eligible
  <1>4. CliInv'
    BY <1>1 DEF CliInv
  <1> QED BY <1>2, <1>3, <1>4 DEF UpdateInv

LEMMA SaveEndKeeps ==
  ASSUME UpdateInv, NEW pc, NEW status \in Update!Terminal, Update!SaveEnd(pc, status),
         <<pc, status>> \in {<<"rolled", "rolled_back">>, <<"barrier", "rollback_failed">>,
                             <<"giveup", "failed">>}
  PROVE  UpdateInv'
  <1>k. /\ UNCHANGED <<live, lastGood, good, asked, panel>>
        /\ live \in good \/ (status = "rollback_failed" /\ Undoable(cli.mem))
    BY DEF Update!SaveEnd, Update!At, Update!KeepBinaries, Update!KeepPanel, UpdateInv, CliInv,
           Undoable
  <1>n. PICK new \in StateRec :
          /\ new = Update!Ended(cli.mem, status) /\ Follows(cli.mem, new) /\ new.status = status
    BY MemState, EndedState DEF Follows
  <1>1. \/ Update!Save(new, Update!Tells)
        \/ Update!SaveRaises(new) /\ Update!Fails
    BY <1>n, MemState DEF Update!SaveEnd
  <1>2. file' \in {file, new}
    BY <1>1 DEF Update!Save, Update!SaveRaises
  <1>3. cli' \in {Update!Tells, Update!IdleCli} /\ units' \subseteq Nat
    BY <1>1, MemState, UnitsReturn DEF Update!Save, UpdateInv
  <1>4. Undoable(new)
    BY <1>k, <1>n DEF Undoable, Update!Eligible, Follows
  <1> QED BY <1>k, <1>n, <1>2, <1>3, <1>4, EndKeeps

LEMMA SaveDoneKeeps == ASSUME UpdateInv, Update!SaveDone PROVE UpdateInv'
  <1>k. UNCHANGED <<live, lastGood, good, asked, panel>> /\ live \in good
    BY DEF Update!SaveDone, Update!At, Update!KeepBinaries, Update!KeepPanel, UpdateInv, CliInv
  <1>n. PICK new \in StateRec :
          new = Update!Ended(cli.mem, "done") /\ Follows(cli.mem, new)
    BY MemState, EndedState DEF Follows, Update!Terminal
  <1>1. \/ Update!Save(new, Update!Tells)
        \/ Update!SaveRaises(new) /\ Update!Goes([cli EXCEPT !.pc = "fail", !.mem = new])
    BY <1>n, MemState DEF Update!SaveDone
  <1>2. file' \in {file, new} /\ units' = units
    BY <1>1 DEF Update!Save, Update!SaveRaises, Update!Goes
  <1>3. cli' \in CliRec /\ cli'.pc \in {"tell", "fail"} /\ cli'.mem \in {new, Update!IdleState}
    <2>1. cli \in CliRec /\ "fail" \in CliPcs /\ new \in StateRec
      BY <1>n, MemState DEF ApplyPcs
    <2>2. LET after == [cli EXCEPT !.pc = "fail", !.mem = new]
          IN after \in CliRec /\ after.pc = "fail" /\ after.mem = new
      BY <2>1 DEF CliRec
    <2>3. cli' \in {Update!Tells, [cli EXCEPT !.pc = "fail", !.mem = new]}
      BY <1>1 DEF Update!Save, Update!Goes
    <2> QED BY <2>2, <2>3, TellsState DEF UpdateInv
  <1>4. (new.mode = "manual" => new.op \in asked) /\ new \in StateRec
    BY <1>n, MemState DEF Follows
  <1> QED BY <1>k, <1>2, <1>3, <1>4, MemState, IdleState, GoodWork

LEMMA FailKeeps == ASSUME UpdateInv, Update!Fail \/ Update!Restore PROVE UpdateInv'
  <1>s. cli \in CliRec /\ {"restore", "giveup", "rolled", "barrier"} \subseteq CliPcs
    BY MemState DEF ApplyPcs
  <1>p. \A pc \in {"restore", "giveup", "rolled", "barrier"} :
          LET new == [cli EXCEPT !.pc = pc]
          IN new \in CliRec /\ new.pc = pc /\ new.mem = cli.mem
    BY <1>s, CliSets
  <1>k. /\ UNCHANGED <<file, lastGood, good, asked, panel, units>>
        /\ live \in good \/ Update!Eligible(cli.mem)
        /\ lastGood \in good /\ lastGood \in Nat
    BY DEF Update!Fail, Update!Restore, Update!At, Update!Goes, Update!KeepBinaries,
           Update!KeepPanel, UpdateInv, UpdateTyped, FileInv, CliInv, Undoable
  <1>1. PICK pc \in {"restore", "giveup", "rolled", "barrier"} :
          /\ cli' = [cli EXCEPT !.pc = pc] /\ live' \in {live, lastGood}
          /\ pc \in {"giveup", "rolled"} => live' \in good
    BY <1>k, MemState DEF Update!Fail, Update!Restore, Update!Goes, Update!KeepBinaries
  <1>2. cli' \in CliRec /\ cli'.pc = pc /\ cli'.mem = cli.mem
    BY <1>1, <1>p
  <1>3. (live \in good \/ Update!Eligible(cli.mem))'
    BY <1>k, <1>1, <1>2 DEF Update!Eligible
  <1>4. UpdateTyped'
    BY <1>k, <1>1, <1>2 DEF UpdateInv, UpdateTyped
  <1>5. FileInv'
    BY <1>k, <1>1 DEF UpdateInv, FileInv, Undoable, Update!Eligible
  <1>6. CliInv'
    BY <1>k, <1>1, <1>2, <1>3, MemState DEF CliInv, Undoable
  <1> QED BY <1>4, <1>5, <1>6 DEF UpdateInv

LEMMA WorldKeeps ==
  ASSUME UpdateInv,
         Update!ClaimAges \/ Update!CliDies \/ Update!PowerLoss \/ UNCHANGED updateVars
  PROVE  UpdateInv'
  <1>1. CASE Update!ClaimAges \/ UNCHANGED updateVars
    <2>1. UNCHANGED <<file, live, lastGood, good, asked, units, cli, panel>>
      BY <1>1 DEF Update!ClaimAges, Update!KeepBinaries, Update!KeepPanel, updateVars
    <2> QED BY <2>1 DEF UpdateInv, UpdateTyped, FileInv, CliInv, Undoable, Update!Eligible
  <1>2. CASE Update!CliDies
    <2>1. UNCHANGED <<file, live, lastGood, good, asked, panel>>
      BY <1>2 DEF Update!CliDies, Update!KeepBinaries, Update!KeepPanel
    <2>2. cli' = Update!IdleCli /\ units' \subseteq Nat
      BY <1>2, UnitsReturn DEF Update!CliDies, UpdateInv
    <2> QED BY <2>1, <2>2, IdleState, CliGoes
  <1>3. CASE Update!PowerLoss
    <2>1. UNCHANGED <<file, live, lastGood, good, asked>> /\ cli' = Update!IdleCli /\ units' = {}
      BY <1>3 DEF Update!PowerLoss, Update!KeepBinaries
    <2>2. panel' \in [Threads -> ThreadRec]
      BY <1>3, OvertakenThreads DEF Update!PowerLoss, UpdateInv
    <2>3. UpdateTyped'
      BY <2>1, <2>2, IdleState DEF UpdateInv, UpdateTyped
    <2>4. FileInv'
      BY <2>1 DEF UpdateInv, FileInv, Undoable, Update!Eligible
    <2>5. CliInv'
      BY <2>1, IdleState DEF CliInv
    <2> QED BY <2>3, <2>4, <2>5 DEF UpdateInv
  <1> QED BY <1>1, <1>2, <1>3

LEMMA UpdateStep == ASSUME UpdateInv, Update!Next \/ UNCHANGED updateVars PROVE UpdateInv'
  <1>1. ASSUME NEW t \in Threads,
               Update!Ask(t) \/ Update!Deliver(t) \/ Update!Withdraw(t) \/ Update!ThreadDies(t)
        PROVE  UpdateInv'
    BY <1>1, ThreadsKeep
  <1>2. CASE Update!RecordCheck \/ Update!StartTimer \/ Update!StartUnit
    BY <1>2, CheckKeeps, StartsKeep
  <1>3. CASE Update!Tell \/ Update!Telling \/ Update!BeginUnit \/ Update!Reconcile
             \/ Update!Redeliver \/ Update!DeliverAgain \/ Update!WithdrawAgain
             \/ Update!BeginAuto
    BY <1>3, TellKeeps, TellingKeeps, BeginKeeps, ReconcileKeeps, DeliverKeeps
  <1>4. CASE Update!ApplyStep
    <2>1. ASSUME \/ Update!SaveEnd("rolled", "rolled_back")
                 \/ Update!SaveEnd("barrier", "rollback_failed")
                 \/ Update!SaveEnd("giveup", "failed")
          PROVE  UpdateInv'
      BY <2>1, SaveEndKeeps DEF Update!Terminal
    <2> QED BY <1>4, <2>1, CheckEndsKeeps, CheckPassesKeeps, BackupKeeps, SaveApplyingKeeps,
               ReplaceKeeps, SaveVerifyingKeeps, ProbeKeeps, SaveDoneKeeps, FailKeeps
            DEF Update!ApplyStep
  <1>5. CASE Update!ClaimAges \/ Update!CliDies \/ Update!PowerLoss \/ UNCHANGED updateVars
    BY <1>5, WorldKeeps
  <1> QED BY <1>1, <1>2, <1>3, <1>4, <1>5 DEF Update!Next, Update!CliStep

LEMMA UpdateStart == ASSUME Update!Init PROVE UpdateInv
  <1>1. UpdateTyped
    BY IdleState DEF Update!Init, UpdateTyped, Update!IdleThread, ThreadRec
  <1>2. FileInv
    BY IdleState DEF Update!Init, FileInv, Undoable
  <1>3. CliInv
    BY IdleState DEF Update!Init, CliInv
  <1> QED BY <1>1, <1>2, <1>3 DEF UpdateInv

\* Whatever process dies and whichever save or probe fails: a binary of Hysteria that
\* never passed its probes is live only while the state on disk leads the next run to put
\* the last good one back, and no gate is passed over but for an operation somebody asked
\* for (apply_update, reconcile, _rollback_context_owned).
THEOREM UpdatesCanBeUndone == HostSpec => []CandidateCanBeUndone
  <1>1. HostInit => UpdateInv
    BY UpdateStart DEF HostInit
  <1>2. UpdateInv /\ [HostNext]_<<subject, hostVars>> => UpdateInv'
    <2> SUFFICES ASSUME UpdateInv, [HostNext]_<<subject, hostVars>> PROVE UpdateInv'
      OBVIOUS
    <2>1. Update!Next \/ UNCHANGED updateVars
      BY DEF HostNext, UpdateMoves, JournalMoves, ServerMoves, AlertsMove, hostVars
    <2> QED BY <2>1, UpdateStep
  <1>3. UpdateInv => CandidateCanBeUndone
    BY DEF UpdateInv, FileInv, CliInv, Undoable, CandidateCanBeUndone,
           Update!CandidateCanBeUndone, Update!OnlyAskedSkipsPolicy, Update!At, Update!Mem
  <1> QED BY <1>1, <1>2, <1>3, PTL DEF HostSpec

-----------------------------------------------------------------------------
(* Alerts.  A token in the file is that of a run that is sending, and what   *)
(* that run read of the clearings is still so.                               *)

AlertRun == [pc : {"idle", "counted", "claim", "finish"} \cup Alert!Channels, key : Nat,
             crossing : Nat, config : SUBSET Alert!Channels, failed : BOOLEAN, since : BOOLEAN]
AlertInv ==
    /\ month \in Nat /\ resets \in Nat /\ channels \subseteq Alert!Channels
    /\ run \in [Runs -> AlertRun]
    /\ entry \in [key : Nat, token : Runs \cup {"none", "lost"}, age : Nat]
    /\ \A r \in Runs : entry.token = r =>
          /\ run[r].pc \in Alert!Channels \cup {"finish"}
          /\ run[r].key = entry.key /\ run[r].since
    /\ Alert!ClearingIsFinal

Entry == [key : Nat, token : Runs \cup {"none", "lost"}, age : Nat]

\* A step of one run, given what it does to itself and to the file.
LEMMA RunKeeps ==
  ASSUME AlertInv, NEW r \in Runs, NEW new \in AlertRun, run' = [run EXCEPT ![r] = new],
         UNCHANGED <<month, resets>>, channels' \subseteq Alert!Channels, entry' \in Entry,
         entry'.token \in Runs \ {r} => entry' = entry,
         entry'.token = r => /\ new.pc \in Alert!Channels \cup {"finish"}
                             /\ new.key = entry'.key /\ new.since,
         Alert!ClearingIsFinal'
  PROVE  AlertInv'
  <1>1. run' \in [Runs -> AlertRun] /\ \A q \in Runs : run'[q] = IF q = r THEN new ELSE run[q]
    BY DEF AlertInv
  <1>2. ASSUME NEW q \in Runs, entry'.token = q
        PROVE  /\ run'[q].pc \in Alert!Channels \cup {"finish"}
               /\ run'[q].key = entry'.key /\ run'[q].since
    BY <1>1, <1>2 DEF AlertInv
  <1> QED BY <1>1, <1>2 DEF AlertInv, Entry

LEMMA IdleRun ==
  /\ Alert!Idle \in AlertRun /\ Alert!Idle.pc = "idle" /\ Alert!Nothing \in Entry
  /\ Alert!Nothing.key = 0 /\ Alert!Nothing.token = "none"
  BY DEF Alert!Idle, Alert!Nothing, AlertRun, Entry

LEMMA RunSteps ==
  ASSUME AlertInv, NEW r \in Runs,
         Alert!Count(r) \/ Alert!RunStep(r) \/ Alert!Breaks(r)
  PROVE  AlertInv'
  <1>t. /\ run[r] \in AlertRun /\ entry \in Entry /\ run \in [Runs -> AlertRun]
        /\ channels \subseteq Alert!Channels /\ month \in Nat /\ resets \in Nat
        /\ run[r].key \in Nat /\ Alert!ClearingIsFinal
        /\ r # "none" /\ r # "lost"
    BY HostAssumption DEF AlertInv, Entry, AlertRun
  <1>o. entry.token = r => /\ run[r].pc \in Alert!Channels \cup {"finish"}
                           /\ run[r].key = entry.key /\ run[r].since
    BY DEF AlertInv
  <1>y. PICK yes : yes = TRUE OBVIOUS
  <1>w. UNCHANGED <<month, resets, channels>>
    BY DEF Alert!Count, Alert!RunStep, Alert!Breaks, Alert!Load, Alert!Claim, Alert!Complete,
           Alert!Post, Alert!KeepWorld
  <1>i. ASSUME Alert!Ends(r), UNCHANGED <<entry, told>>, entry.token # r PROVE AlertInv'
    BY <1>i, <1>t, <1>w, IdleRun, RunKeeps DEF Alert!Ends, Alert!ClearingIsFinal,
       Alert!HasDelivery
  <1>1. CASE Alert!Count(r)
    <2>1. PICK new : new = [Alert!Idle EXCEPT !.pc = "counted", !.key = month, !.crossing = resets]
      OBVIOUS
    <2>2. new \in AlertRun
      BY <1>t, <2>1, IdleRun DEF AlertRun
    <2>3. run' = [run EXCEPT ![r] = new] /\ UNCHANGED <<entry, told>> /\ run[r].pc = "idle"
      BY <1>1, <2>1 DEF Alert!Count, Alert!At
    <2> QED BY <1>t, <1>o, <1>w, <2>2, <2>3, RunKeeps
            DEF Alert!ClearingIsFinal, Alert!HasDelivery, Alert!Channels
  <1>2. CASE Alert!Load(r)
    <2>1. UNCHANGED <<entry, told>> /\ run[r].pc = "counted" /\ entry.token # r
      BY <1>2, <1>o DEF Alert!Load, Alert!At, Alert!Channels
    <2>2. CASE run' = [run EXCEPT ![r].pc = "claim", ![r].config = channels]
      <3>1. PICK new : new = [run[r] EXCEPT !.pc = "claim", !.config = channels]
        OBVIOUS
      <3>2. new \in AlertRun
        BY <1>t, <3>1 DEF AlertRun
      <3>3. run' = [run EXCEPT ![r] = new]
        BY <2>2, <3>1, <1>t
      <3> QED BY <1>t, <1>w, <2>1, <3>2, <3>3, RunKeeps
              DEF Alert!ClearingIsFinal, Alert!HasDelivery
    <2> QED BY <1>2, <1>i, <2>1, <2>2 DEF Alert!Load
  <1>3. CASE Alert!Claim(r)
    <2>1. UNCHANGED told /\ run[r].pc = "claim" /\ entry.token # r
      BY <1>3, <1>o DEF Alert!Claim, Alert!At, Alert!Channels
    <2>2. CASE /\ entry' = Alert!Claimed(run[r].key, r)
               /\ run' = [run EXCEPT ![r].pc = "telegram", ![r].since = TRUE]
      <3>1. PICK new : new = [run[r] EXCEPT !.pc = "telegram", !.since = yes]
        OBVIOUS
      <3>2. /\ new \in AlertRun /\ new.pc = "telegram" /\ new.since /\ new.key = run[r].key
        BY <1>t, <1>y, <3>1 DEF AlertRun, Alert!Channels
      <3>3. run' = [run EXCEPT ![r] = new]
        BY <2>2, <3>1, <1>t, <1>y
      <3>4. /\ entry' \in Entry /\ entry'.token = r /\ entry'.key = run[r].key
        BY <2>2, <1>t DEF Alert!Claimed, Entry
      <3> QED BY <1>t, <1>w, <2>1, <3>2, <3>3, <3>4, RunKeeps
              DEF Alert!ClearingIsFinal, Alert!HasDelivery, Alert!Channels
    <2> QED BY <1>3, <1>i, <2>1, <2>2 DEF Alert!Claim
  <1>4. ASSUME NEW channel \in Alert!Channels, NEW next \in {"webhook", "finish"},
               Alert!Post(r, channel, next)
        PROVE  AlertInv'
    <2>1. UNCHANGED <<entry, told>>
      BY <1>4 DEF Alert!Post
    <2>2. PICK new : /\ \/ new = [run[r] EXCEPT !.pc = next]
                        \/ new = [run[r] EXCEPT !.pc = next, !.failed = yes]
                     /\ run' = [run EXCEPT ![r] = new]
      <3>1. CASE Alert!Goto(r, next)
        <4>1. run' = [run EXCEPT ![r] = [run[r] EXCEPT !.pc = next]]
          BY <3>1, <1>t DEF Alert!Goto
        <4> QED BY <4>1
      <3>2. CASE run' = [run EXCEPT ![r].pc = next, ![r].failed = TRUE]
        <4>1. run' = [run EXCEPT ![r] = [run[r] EXCEPT !.pc = next, !.failed = yes]]
          BY <3>2, <1>t, <1>y
        <4> QED BY <4>1
      <3> QED BY <1>4, <3>1, <3>2 DEF Alert!Post
    <2>3. /\ new \in AlertRun /\ new.pc \in Alert!Channels \cup {"finish"}
          /\ new.key = run[r].key /\ new.since = run[r].since
      <3>1. /\ run[r] \in AlertRun /\ next \in Alert!Channels \cup {"finish"} /\ yes \in BOOLEAN
            /\ next \in {"idle", "counted", "claim", "finish"} \cup Alert!Channels
        BY <1>4, <1>t, <1>y DEF Alert!Channels
      <3>2. LET one == [run[r] EXCEPT !.pc = next]
            IN one \in AlertRun /\ one.pc = next /\ one.key = run[r].key /\ one.since = run[r].since
        BY <3>1 DEF AlertRun
      <3>3. LET one == [run[r] EXCEPT !.pc = next, !.failed = yes]
            IN one \in AlertRun /\ one.pc = next /\ one.key = run[r].key /\ one.since = run[r].since
        BY <3>1 DEF AlertRun
      <3> QED BY <2>2, <3>1, <3>2, <3>3
    <2> QED BY <1>t, <1>o, <1>w, <2>1, <2>2, <2>3, RunKeeps
            DEF Alert!ClearingIsFinal, Alert!HasDelivery
  <1>5. CASE Alert!Complete(r)
    <2>1. run' = [run EXCEPT ![r] = Alert!Idle]
      BY <1>5 DEF Alert!Complete, Alert!Ends
    <2>2. CASE ~Alert!Own(r)
      <3>1. UNCHANGED <<entry, told>> /\ entry.token # r
        BY <1>5, <1>o, <2>2 DEF Alert!Complete, Alert!Own
      <3> QED BY <1>5, <1>i, <3>1 DEF Alert!Complete
    <2>3. CASE Alert!Own(r) /\ run[r].failed
      <3>1. entry' = Alert!Nothing
        BY <1>5, <2>3 DEF Alert!Complete
      <3>2. Alert!ClearingIsFinal'
        BY <3>1, IdleRun DEF Alert!ClearingIsFinal, Alert!HasDelivery
      <3>3. entry' \in Entry /\ entry'.token = "none" /\ r # "none" /\ "none" \notin Runs
        BY <1>t, <3>1, IdleRun, HostAssumption
      <3> QED BY <1>t, <1>w, <2>1, <3>2, <3>3, IdleRun, RunKeeps
    <2>4. CASE Alert!Own(r) /\ ~run[r].failed
      <3>1. /\ entry' = Alert!Delivered(run[r].key)
            /\ told' = [since |-> run[r].since, crossing |-> run[r].crossing]
        BY <1>5, <2>4 DEF Alert!Complete
      <3>2. entry' \in Entry /\ entry'.token = "none"
        BY <3>1, <1>t DEF Alert!Delivered, Entry
      <3>3. told'.since
        BY <3>1, <1>o, <2>4 DEF Alert!Own
      <3>4. Alert!ClearingIsFinal' /\ r # "none" /\ "none" \notin Runs
        BY <1>t, <3>3, HostAssumption DEF Alert!ClearingIsFinal
      <3> QED BY <1>t, <1>w, <2>1, <3>2, <3>4, IdleRun, RunKeeps
    <2> QED BY <2>2, <2>3, <2>4
  <1>6. CASE Alert!Breaks(r)
    <2>1. run' = [run EXCEPT ![r] = Alert!Idle] /\ told' = told
      BY <1>6 DEF Alert!Breaks, Alert!Ends
    <2>2. CASE entry.token = r
      <3>1. entry' = [entry EXCEPT !.token = "lost"]
        BY <1>6, <2>2 DEF Alert!Breaks
      <3>2. entry' \in Entry /\ entry'.token = "lost"
        BY <1>t, <3>1 DEF Entry
      <3> QED BY <1>t, <1>w, <2>1, <3>2, IdleRun, RunKeeps, HostAssumption
              DEF Alert!ClearingIsFinal, Alert!HasDelivery
    <2>3. CASE entry.token # r
      BY <1>6, <1>i, <2>1, <2>3 DEF Alert!Breaks
    <2> QED BY <2>2, <2>3
  <1> QED BY <1>1, <1>2, <1>3, <1>4, <1>5, <1>6 DEF Alert!RunStep, Alert!Channels

LEMMA AlertWorldKeeps ==
  ASSUME AlertInv,
         \/ Alert!Crosses \/ Alert!Reset \/ Alert!NextMonth \/ Alert!Configure
         \/ Alert!ClaimAges \/ UNCHANGED alertVars
  PROVE  AlertInv'
  <1>1. CASE Alert!Crosses \/ Alert!NextMonth \/ Alert!Configure \/ UNCHANGED alertVars
    <2>1. /\ UNCHANGED <<run, entry, told, resets>> /\ month' \in {month, month + 1}
          /\ channels' \subseteq Alert!Channels
      BY <1>1 DEF Alert!Crosses, Alert!NextMonth, Alert!Configure, alertVars, AlertInv
    <2> QED BY <2>1 DEF AlertInv, Alert!ClearingIsFinal, Alert!HasDelivery
  <1>2. CASE Alert!Reset
    <2>1. UNCHANGED <<month, channels, told>>
      BY <1>2 DEF Alert!Reset
    <2>2. CASE UNCHANGED <<entry, run, resets>>
      BY <2>1, <2>2 DEF AlertInv, Alert!ClearingIsFinal, Alert!HasDelivery
    <2>3. CASE /\ resets' = resets + 1 /\ entry' = Alert!Nothing
               /\ run' = [r \in Runs |-> [run[r] EXCEPT !.since = FALSE]]
      <3>1. \A r \in Runs : [run[r] EXCEPT !.since = FALSE] \in AlertRun
        <4>1. \A r \in Runs : run[r] \in AlertRun
          BY DEF AlertInv
        <4>2. \A one \in AlertRun : [one EXCEPT !.since = FALSE] \in AlertRun
          BY DEF AlertRun
        <4> QED BY <4>1, <4>2
      <3>2. run' \in [Runs -> AlertRun]
        BY <2>3, <3>1
      <3> QED BY <2>1, <2>3, <3>2, IdleRun, HostAssumption
              DEF AlertInv, Entry, Alert!ClearingIsFinal, Alert!HasDelivery
    <2> QED BY <1>2, <2>2, <2>3 DEF Alert!Reset
  <1>3. CASE Alert!ClaimAges
    <2>1. UNCHANGED <<month, channels, run, told, resets>>
      BY <1>3 DEF Alert!ClaimAges
    <2>2. entry' = [entry EXCEPT !.age = entry.age + 1] /\ entry.token # "none"
      BY <1>3 DEF Alert!ClaimAges
    <2>3. entry' \in Entry /\ entry'.token = entry.token /\ entry'.key = entry.key
      BY <2>2 DEF AlertInv, Entry
    <2> QED BY <2>1, <2>2, <2>3 DEF AlertInv, Entry, Alert!ClearingIsFinal, Alert!HasDelivery
  <1> QED BY <1>1, <1>2, <1>3

\* An alert that the file records as delivered was claimed after the user was last reset,
\* however many runs send, expire, die and answer late (claim_alert, finish_alert_claim,
\* clear_quota_dedup_transaction, clear_user_dedup_transaction).
THEOREM ClearingsAreFinal == HostSpec => []ClearingIsFinal
  <1>1. HostInit => AlertInv
    <2> SUFFICES ASSUME HostInit PROVE AlertInv
      OBVIOUS
    <2>1. /\ month = 1 /\ resets = 0 /\ channels \subseteq Alert!Channels
          /\ entry = Alert!Nothing /\ run = [r \in Runs |-> Alert!Idle]
      BY DEF HostInit, Alert!AlertInit
    <2> QED BY <2>1, IdleRun, HostAssumption
            DEF AlertInv, Entry, Alert!ClearingIsFinal, Alert!HasDelivery
  <1>2. AlertInv /\ [HostNext]_<<subject, hostVars>> => AlertInv'
    <2> SUFFICES ASSUME AlertInv, [HostNext]_<<subject, hostVars>> PROVE AlertInv'
      OBVIOUS
    <2>1. Alert!AlertNext \/ UNCHANGED alertVars
      BY DEF HostNext, UpdateMoves, JournalMoves, ServerMoves, AlertsMove, hostVars
    <2> QED BY <2>1, RunSteps, AlertWorldKeeps DEF Alert!AlertNext
  <1>3. AlertInv => ClearingIsFinal
    BY DEF AlertInv, ClearingIsFinal
  <1> QED BY <1>1, <1>2, <1>3, PTL DEF HostSpec

-----------------------------------------------------------------------------
(* Deployments.  Every new generation can be taken back until the set is     *)
(* whole, a restore meets no unknown generation, and a boot runs one set.    *)

NoneNew == \A p \in Paths : artifact[p] # "new"
NoneOld == \A p \in Paths : artifact[p] # "old"

\* The states in which a set may be half installed or half restored.
Halfway == {"active", "restoring", "recovery-failed"}

\* Where deploy.sh is says how far the journal is.
DeployerInv ==
    /\ deployer \notin {"none", "trap"} => recovery.pc = "none"
    /\ deployer = "make" => pending = "none" /\ NoneNew
    /\ deployer = "prepare" => pending = "bare" /\ NoneNew
    /\ deployer \in {"packages", "quiesce", "snapshot"} =>
        pending = "journaled" /\ manifest.state = "preparing" /\ manifest.sameBoot
    /\ deployer \in {"install", "complete"} =>
        pending = "journaled" /\ manifest.state = "active" /\ manifest.sameBoot
    /\ deployer = "complete" => manifest.committed = Paths
    /\ deployer = "clean" =>
        (pending = "bare" /\ NoneOld) \/ (pending = "journaled" /\ manifest.state = "complete")

\* Where a recovery is says what it has read, and that nobody writes meanwhile.
RecoveryInv ==
    /\ recovery.pc \notin {"none", "read", "clean"} => pending = "journaled"
    /\ recovery.pc = "early" => manifest.state = "preparing"
    /\ recovery.pc \in {"preflight", "stop", "mark"} => manifest.state \in Halfway
    /\ recovery.pc = "restore" => manifest.state = "restoring" /\ ~Foreign
    /\ recovery.pc = "resume" => manifest.state = "restored"
    /\ recovery.pc = "clean" =>
        pending = "bare" \/ (pending = "journaled" /\ manifest.state \in {"complete", "restored"})
    /\ recovery.pc \in {"mark", "restore"} => ~up

\* What the journal's state says of the artifacts.
StateInv ==
    /\ pending # "journaled" => NoneOld \/ NoneNew
    /\ pending = "journaled" =>
        /\ manifest.state \in {"preparing", "restored"} => NoneNew
        /\ manifest.state = "complete" => NoneOld /\ manifest.committed = Paths
        /\ manifest.state \in Halfway \cup {"complete"} => manifest.taken = Paths
        /\ manifest.state \in Halfway =>
            \A p \in Paths : artifact[p] = "new" =>
                p \in manifest.committed \cup {manifest.begun}

\* After a boot, nothing is started while the set may be a mixture.
BootInv ==
    pending = "journaled" /\ ~manifest.sameBoot /\ manifest.state \in Halfway =>
        ~up /\ ~gate /\ ~recovery.stopped

Inv == TypeOK /\ DeployerInv /\ RecoveryInv /\ StateInv /\ BootInv

-----------------------------------------------------------------------------
(* What a step does to recovery, gate and journal, field by field.           *)

Moved(pc) ==
    /\ recovery' \in Recovery /\ recovery'.pc = pc /\ recovery'.stopped = recovery.stopped
    /\ UNCHANGED <<watchdog, deployer, gate>>
Ended(success) ==
    /\ recovery' \in Recovery /\ recovery'.pc = "none" /\ recovery'.stopped = FALSE
    /\ deployer' = "none" /\ watchdog' \in BOOLEAN /\ gate' \in BOOLEAN
    /\ gate' => gate \/ success
Marked(state) ==
    /\ manifest' \in Manifest /\ manifest'.state = state /\ manifest'.taken = manifest.taken
    /\ manifest'.committed = manifest.committed /\ manifest'.begun = manifest.begun
    /\ manifest'.wasUp = manifest.wasUp /\ manifest'.sameBoot = manifest.sameBoot

LEMMA GotoMoves == ASSUME Inv, NEW pc \in RecoveryPc, RecGoto(pc) PROVE Moved(pc)
  BY DEF Inv, TypeOK, Recovery, RecGoto, Moved

LEMMA EndsEnds == ASSUME Inv, NEW success \in BOOLEAN, RecEnds(success) PROVE Ended(success)
  <1>1. NoRecovery \in Recovery /\ NoRecovery.pc = "none" /\ NoRecovery.stopped = FALSE
    BY DEF NoRecovery, Recovery, RecoveryPc
  <1>2. recovery.who \in {"trap", "watchdog", "gate", "deploy"}
    BY DEF Inv, TypeOK, Recovery
  <1>3. recovery' = NoRecovery /\ deployer' = "none" /\ watchdog' \in BOOLEAN
    BY DEF Inv, TypeOK, RecEnds
  <1>4. gate' \in BOOLEAN /\ (gate' => gate \/ success)
    <2>1. CASE recovery.who = "watchdog"
      BY <2>1 DEF RecEnds
    <2>2. CASE recovery.who = "gate"
      BY <2>2 DEF RecEnds
    <2>3. CASE recovery.who \in {"trap", "deploy"}
      BY <2>3 DEF RecEnds, Inv, TypeOK
    <2> QED BY <2>1, <2>2, <2>3, <1>2
  <1> QED BY <1>1, <1>3, <1>4 DEF Ended

LEMMA StateMarks ==
  ASSUME Inv, NEW s \in {"active", "complete", "restoring", "restored", "recovery-failed"},
         manifest' = [manifest EXCEPT !.state = s]
  PROVE  Marked(s)
  BY DEF Inv, TypeOK, Manifest, Marked

LEMMA FailsEnds ==
  ASSUME Inv, RecFails
  PROVE  /\ Marked("recovery-failed") /\ Ended(FALSE)
         /\ up' \in BOOLEAN /\ (up' => up \/ recovery.stopped)
  <1>1. Marked("recovery-failed") BY StateMarks DEF RecFails
  <1>2. Ended(FALSE) BY EndsEnds DEF RecFails
  <1>3. up' \in BOOLEAN /\ (up' => up \/ recovery.stopped)
    BY DEF RecFails, Inv, TypeOK, Recovery
  <1> QED BY <1>1, <1>2, <1>3

LEMMA GlitchCounts == ASSUME Inv, Glitch PROVE glitches' \in 0..MaxGlitches
  BY JournalAssumption DEF Inv, TypeOK, Glitch

LEMMA FirstRead ==
  ASSUME NEW who \in {"trap", "watchdog", "gate", "deploy"},
         recovery' = [NoRecovery EXCEPT !.pc = "read", !.who = who]
  PROVE  recovery' \in Recovery /\ recovery'.pc = "read" /\ recovery'.stopped = FALSE
  BY DEF NoRecovery, Recovery, RecoveryPc

LEMMA Nobody ==
  ASSUME recovery' = NoRecovery
  PROVE  recovery' \in Recovery /\ recovery'.pc = "none" /\ recovery'.stopped = FALSE
  BY DEF NoRecovery, Recovery, RecoveryPc


-----------------------------------------------------------------------------
(* deploy.sh.                                                               *)

LEMMA ArmKeepsInv == ASSUME Inv, Arm PROVE Inv'
  <1>1. TypeOK'
    BY JournalAssumption DEF Inv, TypeOK, DeployerPc, Arm, DeployLockFree, Fine,
       KeepUnits
  <1>2. DeployerInv'
    BY DEF Inv, TypeOK, Manifest, DeployerPc, RecoveryPc, Recovery, DeployerInv,
       RecoveryInv, StateInv, NoneNew, NoneOld, Arm, DeployLockFree, Fine, KeepUnits
  <1>3. RecoveryInv'
    BY DEF Inv, TypeOK, Manifest, DeployerPc, RecoveryPc, Recovery, DeployerInv,
       RecoveryInv, Halfway, Foreign, Arm, DeployLockFree, Fine, KeepUnits
  <1>4. StateInv'
    BY DEF Inv, TypeOK, Manifest, DeployerPc, RecoveryPc, Recovery, DeployerInv,
       RecoveryInv, StateInv, NoneNew, NoneOld, Halfway, Foreign, Arm, DeployLockFree,
       Fine, KeepUnits
  <1>5. BootInv'
    BY DEF Inv, TypeOK, Manifest, DeployerPc, RecoveryPc, Recovery, DeployerInv,
       RecoveryInv, BootInv, Halfway, Arm, DeployLockFree, Fine, KeepUnits
  <1> QED BY <1>1, <1>2, <1>3, <1>4, <1>5 DEF Inv

LEMMA MakeDirectoryKeepsInv == ASSUME Inv, MakeDirectory PROVE Inv'
  <1>1. TypeOK'
    BY JournalAssumption DEF Inv, TypeOK, DeployerPc, MakeDirectory, DeployAt,
       DeployGoto, Fine, KeepUnits
  <1>2. DeployerInv'
    BY DEF Inv, TypeOK, Manifest, DeployerPc, RecoveryPc, Recovery, DeployerInv,
       RecoveryInv, StateInv, NoneNew, NoneOld, MakeDirectory, DeployAt, DeployGoto,
       Fine, KeepUnits
  <1>3. RecoveryInv'
    BY DEF Inv, TypeOK, Manifest, DeployerPc, RecoveryPc, Recovery, DeployerInv,
       RecoveryInv, Halfway, Foreign, MakeDirectory, DeployAt, DeployGoto, Fine,
       KeepUnits
  <1>4. StateInv'
    BY DEF Inv, TypeOK, Manifest, DeployerPc, RecoveryPc, Recovery, DeployerInv,
       RecoveryInv, StateInv, NoneNew, NoneOld, Halfway, Foreign, MakeDirectory,
       DeployAt, DeployGoto, Fine, KeepUnits
  <1>5. BootInv'
    BY DEF Inv, TypeOK, Manifest, DeployerPc, RecoveryPc, Recovery, DeployerInv,
       RecoveryInv, BootInv, Halfway, MakeDirectory, DeployAt, DeployGoto, Fine,
       KeepUnits
  <1> QED BY <1>1, <1>2, <1>3, <1>4, <1>5 DEF Inv

LEMMA PrepareKeepsInv == ASSUME Inv, Prepare PROVE Inv'
  <1>1. TypeOK'
    BY JournalAssumption DEF Inv, TypeOK, DeployerPc, Manifest, Prepare, DeployAt,
       DeployGoto, Fine, KeepUnits, EmptyManifest
  <1>2. DeployerInv'
    BY DEF Inv, TypeOK, Manifest, DeployerPc, RecoveryPc, Recovery, DeployerInv,
       RecoveryInv, StateInv, NoneNew, NoneOld, Prepare, DeployAt, DeployGoto, Fine,
       KeepUnits, EmptyManifest
  <1>3. RecoveryInv'
    BY DEF Inv, TypeOK, Manifest, DeployerPc, RecoveryPc, Recovery, DeployerInv,
       RecoveryInv, Halfway, Foreign, Prepare, DeployAt, DeployGoto, Fine, KeepUnits,
       EmptyManifest
  <1>4. StateInv'
    BY DEF Inv, TypeOK, Manifest, DeployerPc, RecoveryPc, Recovery, DeployerInv,
       RecoveryInv, StateInv, NoneNew, NoneOld, Halfway, Foreign, Prepare, DeployAt,
       DeployGoto, Fine, KeepUnits, EmptyManifest
  <1>5. BootInv'
    BY DEF Inv, TypeOK, Manifest, DeployerPc, RecoveryPc, Recovery, DeployerInv,
       RecoveryInv, BootInv, Halfway, Prepare, DeployAt, DeployGoto, Fine, KeepUnits,
       EmptyManifest
  <1> QED BY <1>1, <1>2, <1>3, <1>4, <1>5 DEF Inv

LEMMA PackagesKeepsInv == ASSUME Inv, Packages PROVE Inv'
  <1>1. TypeOK'
    BY JournalAssumption DEF Inv, TypeOK, DeployerPc, Packages, DeployAt, DeployGoto,
       Fine, KeepUnits, KeepDisk
  <1>2. DeployerInv'
    BY DEF Inv, TypeOK, Manifest, DeployerPc, RecoveryPc, Recovery, DeployerInv,
       RecoveryInv, StateInv, NoneNew, NoneOld, Packages, DeployAt, DeployGoto, Fine,
       KeepUnits, KeepDisk
  <1>3. RecoveryInv'
    BY DEF Inv, TypeOK, Manifest, DeployerPc, RecoveryPc, Recovery, DeployerInv,
       RecoveryInv, Halfway, Foreign, Packages, DeployAt, DeployGoto, Fine, KeepUnits,
       KeepDisk
  <1>4. StateInv'
    BY DEF Inv, TypeOK, Manifest, DeployerPc, RecoveryPc, Recovery, DeployerInv,
       RecoveryInv, StateInv, NoneNew, NoneOld, Halfway, Foreign, Packages, DeployAt,
       DeployGoto, Fine, KeepUnits, KeepDisk
  <1>5. BootInv'
    BY DEF Inv, TypeOK, Manifest, DeployerPc, RecoveryPc, Recovery, DeployerInv,
       RecoveryInv, BootInv, Halfway, Packages, DeployAt, DeployGoto, Fine, KeepUnits,
       KeepDisk
  <1> QED BY <1>1, <1>2, <1>3, <1>4, <1>5 DEF Inv

LEMMA QuiesceKeepsInv == ASSUME Inv, Quiesce PROVE Inv'
  <1>1. TypeOK'
    BY JournalAssumption DEF Inv, TypeOK, DeployerPc, Quiesce, DeployAt, DeployGoto,
       Fine, KeepUnits, KeepDisk
  <1>2. DeployerInv'
    BY DEF Inv, TypeOK, Manifest, DeployerPc, RecoveryPc, Recovery, DeployerInv,
       RecoveryInv, StateInv, NoneNew, NoneOld, Quiesce, DeployAt, DeployGoto, Fine,
       KeepUnits, KeepDisk
  <1>3. RecoveryInv'
    BY DEF Inv, TypeOK, Manifest, DeployerPc, RecoveryPc, Recovery, DeployerInv,
       RecoveryInv, Halfway, Foreign, Quiesce, DeployAt, DeployGoto, Fine, KeepUnits,
       KeepDisk
  <1>4. StateInv'
    BY DEF Inv, TypeOK, Manifest, DeployerPc, RecoveryPc, Recovery, DeployerInv,
       RecoveryInv, StateInv, NoneNew, NoneOld, Halfway, Foreign, Quiesce, DeployAt,
       DeployGoto, Fine, KeepUnits, KeepDisk
  <1>5. BootInv'
    BY DEF Inv, TypeOK, Manifest, DeployerPc, RecoveryPc, Recovery, DeployerInv,
       RecoveryInv, BootInv, Halfway, Quiesce, DeployAt, DeployGoto, Fine, KeepUnits,
       KeepDisk
  <1> QED BY <1>1, <1>2, <1>3, <1>4, <1>5 DEF Inv

LEMMA SnapshotKeepsInv ==
  ASSUME Inv, NEW p \in Paths, Snapshot(p) PROVE Inv'
  <1>1. TypeOK'
    BY JournalAssumption DEF Inv, TypeOK, DeployerPc, Manifest, Snapshot, DeployAt,
       DeployGoto, Fine, KeepUnits
  <1>2. DeployerInv'
    BY DEF Inv, TypeOK, Manifest, DeployerPc, RecoveryPc, Recovery, DeployerInv,
       RecoveryInv, StateInv, NoneNew, NoneOld, Snapshot, DeployAt, DeployGoto, Fine,
       KeepUnits
  <1>3. RecoveryInv'
    BY DEF Inv, TypeOK, Manifest, DeployerPc, RecoveryPc, Recovery, DeployerInv,
       RecoveryInv, Halfway, Foreign, Snapshot, DeployAt, DeployGoto, Fine, KeepUnits
  <1>4. StateInv'
    BY DEF Inv, TypeOK, Manifest, DeployerPc, RecoveryPc, Recovery, DeployerInv,
       RecoveryInv, StateInv, NoneNew, NoneOld, Halfway, Foreign, Snapshot, DeployAt,
       DeployGoto, Fine, KeepUnits
  <1>5. BootInv'
    BY DEF Inv, TypeOK, Manifest, DeployerPc, RecoveryPc, Recovery, DeployerInv,
       RecoveryInv, BootInv, Halfway, Snapshot, DeployAt, DeployGoto, Fine, KeepUnits
  <1> QED BY <1>1, <1>2, <1>3, <1>4, <1>5 DEF Inv

LEMMA ActivateKeepsInv == ASSUME Inv, Activate PROVE Inv'
  <1>1. TypeOK'
    BY JournalAssumption DEF Inv, TypeOK, DeployerPc, Manifest, Activate, DeployAt,
       DeployGoto, Fine, KeepUnits, KeepDisk
  <1>2. DeployerInv'
    BY DEF Inv, TypeOK, Manifest, DeployerPc, RecoveryPc, Recovery, DeployerInv,
       RecoveryInv, StateInv, NoneNew, NoneOld, Activate, DeployAt, DeployGoto, Fine,
       KeepUnits, KeepDisk
  <1>3. RecoveryInv'
    BY DEF Inv, TypeOK, Manifest, DeployerPc, RecoveryPc, Recovery, DeployerInv,
       RecoveryInv, Halfway, Foreign, Activate, DeployAt, DeployGoto, Fine, KeepUnits,
       KeepDisk
  <1>4. StateInv'
    BY DEF Inv, TypeOK, Manifest, DeployerPc, RecoveryPc, Recovery, DeployerInv,
       RecoveryInv, StateInv, NoneNew, NoneOld, Halfway, Foreign, Activate, DeployAt,
       DeployGoto, Fine, KeepUnits, KeepDisk
  <1>5. BootInv'
    BY DEF Inv, TypeOK, Manifest, DeployerPc, RecoveryPc, Recovery, DeployerInv,
       RecoveryInv, BootInv, Halfway, Activate, DeployAt, DeployGoto, Fine, KeepUnits,
       KeepDisk
  <1> QED BY <1>1, <1>2, <1>3, <1>4, <1>5 DEF Inv

LEMMA BeforeKeepsInv ==
  ASSUME Inv, NEW p \in Paths, Before(p) PROVE Inv'
  <1>1. TypeOK'
    BY JournalAssumption DEF Inv, TypeOK, DeployerPc, Manifest, Before, DeployAt,
       DeployGoto, Fine, KeepUnits, KeepDisk
  <1>2. DeployerInv'
    BY DEF Inv, TypeOK, Manifest, DeployerPc, RecoveryPc, Recovery, DeployerInv,
       RecoveryInv, StateInv, NoneNew, NoneOld, Before, DeployAt, DeployGoto, Fine,
       KeepUnits, KeepDisk
  <1>3. RecoveryInv'
    BY DEF Inv, TypeOK, Manifest, DeployerPc, RecoveryPc, Recovery, DeployerInv,
       RecoveryInv, Halfway, Foreign, Before, DeployAt, DeployGoto, Fine, KeepUnits,
       KeepDisk
  <1>4. StateInv'
    <2>1. manifest.state = "active" /\ NoPath \notin Paths /\ pending = "journaled"
      BY JournalAssumption DEF Inv, DeployerInv, Before, DeployAt
    <2>2. /\ manifest'.state = "active" /\ manifest'.taken = manifest.taken
          /\ manifest'.committed = manifest.committed /\ UNCHANGED <<artifact, pending>>
      BY <2>1 DEF Inv, TypeOK, Manifest, Before, KeepDisk
    <2>3. \A q \in Paths : artifact[q] = "new" => q \in manifest.committed
      BY <2>1 DEF Inv, StateInv, Halfway, Before
    <2> QED BY <2>1, <2>2, <2>3 DEF Inv, StateInv, Halfway
  <1>5. BootInv'
    BY DEF Inv, TypeOK, Manifest, DeployerPc, RecoveryPc, Recovery, DeployerInv,
       RecoveryInv, BootInv, Halfway, Before, DeployAt, DeployGoto, Fine, KeepUnits,
       KeepDisk
  <1> QED BY <1>1, <1>2, <1>3, <1>4, <1>5 DEF Inv

LEMMA MutateKeepsInv == ASSUME Inv, Mutate PROVE Inv'
  <1>1. TypeOK'
    BY JournalAssumption DEF Inv, TypeOK, DeployerPc, Mutate, DeployAt, DeployGoto,
       Fine, KeepUnits
  <1>2. DeployerInv'
    BY DEF Inv, TypeOK, Manifest, DeployerPc, RecoveryPc, Recovery, DeployerInv,
       RecoveryInv, StateInv, NoneNew, NoneOld, Mutate, DeployAt, DeployGoto, Fine,
       KeepUnits
  <1>3. RecoveryInv'
    BY DEF Inv, TypeOK, Manifest, DeployerPc, RecoveryPc, Recovery, DeployerInv,
       RecoveryInv, Halfway, Foreign, Mutate, DeployAt, DeployGoto, Fine, KeepUnits
  <1>4. StateInv'
    BY DEF Inv, TypeOK, Manifest, DeployerPc, RecoveryPc, Recovery, DeployerInv,
       RecoveryInv, StateInv, NoneNew, NoneOld, Halfway, Foreign, Mutate, DeployAt,
       DeployGoto, Fine, KeepUnits
  <1>5. BootInv'
    BY DEF Inv, TypeOK, Manifest, DeployerPc, RecoveryPc, Recovery, DeployerInv,
       RecoveryInv, BootInv, Halfway, Mutate, DeployAt, DeployGoto, Fine, KeepUnits
  <1> QED BY <1>1, <1>2, <1>3, <1>4, <1>5 DEF Inv

LEMMA AfterKeepsInv == ASSUME Inv, After PROVE Inv'
  <1>1. TypeOK'
    BY JournalAssumption DEF Inv, TypeOK, DeployerPc, Manifest, After, DeployAt,
       DeployGoto, Fine, KeepUnits, KeepDisk
  <1>2. DeployerInv'
    BY DEF Inv, TypeOK, Manifest, DeployerPc, RecoveryPc, Recovery, DeployerInv,
       RecoveryInv, StateInv, NoneNew, NoneOld, After, DeployAt, DeployGoto, Fine,
       KeepUnits, KeepDisk
  <1>3. RecoveryInv'
    BY DEF Inv, TypeOK, Manifest, DeployerPc, RecoveryPc, Recovery, DeployerInv,
       RecoveryInv, Halfway, Foreign, After, DeployAt, DeployGoto, Fine, KeepUnits,
       KeepDisk
  <1>4. StateInv'
    BY DEF Inv, TypeOK, Manifest, DeployerPc, RecoveryPc, Recovery, DeployerInv,
       RecoveryInv, StateInv, NoneNew, NoneOld, Halfway, Foreign, After, DeployAt,
       DeployGoto, Fine, KeepUnits, KeepDisk
  <1>5. BootInv'
    BY DEF Inv, TypeOK, Manifest, DeployerPc, RecoveryPc, Recovery, DeployerInv,
       RecoveryInv, BootInv, Halfway, After, DeployAt, DeployGoto, Fine, KeepUnits,
       KeepDisk
  <1> QED BY <1>1, <1>2, <1>3, <1>4, <1>5 DEF Inv

LEMMA StartNewKeepsInv == ASSUME Inv, StartNew PROVE Inv'
  <1>1. TypeOK'
    BY JournalAssumption DEF Inv, TypeOK, DeployerPc, StartNew, DeployAt, DeployGoto,
       Fine, KeepUnits, KeepDisk
  <1>2. DeployerInv'
    BY DEF Inv, TypeOK, Manifest, DeployerPc, RecoveryPc, Recovery, DeployerInv,
       RecoveryInv, StateInv, NoneNew, NoneOld, StartNew, DeployAt, DeployGoto, Fine,
       KeepUnits, KeepDisk
  <1>3. RecoveryInv'
    BY DEF Inv, TypeOK, Manifest, DeployerPc, RecoveryPc, Recovery, DeployerInv,
       RecoveryInv, Halfway, Foreign, StartNew, DeployAt, DeployGoto, Fine, KeepUnits,
       KeepDisk
  <1>4. StateInv'
    BY DEF Inv, TypeOK, Manifest, DeployerPc, RecoveryPc, Recovery, DeployerInv,
       RecoveryInv, StateInv, NoneNew, NoneOld, Halfway, Foreign, StartNew, DeployAt,
       DeployGoto, Fine, KeepUnits, KeepDisk
  <1>5. BootInv'
    BY DEF Inv, TypeOK, Manifest, DeployerPc, RecoveryPc, Recovery, DeployerInv,
       RecoveryInv, BootInv, Halfway, StartNew, DeployAt, DeployGoto, Fine, KeepUnits,
       KeepDisk
  <1> QED BY <1>1, <1>2, <1>3, <1>4, <1>5 DEF Inv

LEMMA CompleteKeepsInv == ASSUME Inv, Complete PROVE Inv'
  <1>1. TypeOK'
    BY JournalAssumption DEF Inv, TypeOK, DeployerPc, Manifest, Complete, DeployAt,
       DeployGoto, Fine, KeepUnits, KeepDisk
  <1>2. DeployerInv'
    BY DEF Inv, TypeOK, Manifest, DeployerPc, RecoveryPc, Recovery, DeployerInv,
       RecoveryInv, StateInv, NoneNew, NoneOld, Complete, DeployAt, DeployGoto, Fine,
       KeepUnits, KeepDisk
  <1>3. RecoveryInv'
    BY DEF Inv, TypeOK, Manifest, DeployerPc, RecoveryPc, Recovery, DeployerInv,
       RecoveryInv, Halfway, Foreign, Complete, DeployAt, DeployGoto, Fine, KeepUnits,
       KeepDisk
  <1>4. StateInv'
    BY DEF Inv, TypeOK, Manifest, DeployerPc, RecoveryPc, Recovery, DeployerInv,
       RecoveryInv, StateInv, NoneNew, NoneOld, Halfway, Foreign, Complete, DeployAt,
       DeployGoto, Fine, KeepUnits, KeepDisk
  <1>5. BootInv'
    BY DEF Inv, TypeOK, Manifest, DeployerPc, RecoveryPc, Recovery, DeployerInv,
       RecoveryInv, BootInv, Halfway, Complete, DeployAt, DeployGoto, Fine, KeepUnits,
       KeepDisk
  <1> QED BY <1>1, <1>2, <1>3, <1>4, <1>5 DEF Inv

LEMMA DeployCleanKeepsInv == ASSUME Inv, DeployClean PROVE Inv'
  <1>1. TypeOK'
    BY JournalAssumption DEF Inv, TypeOK, DeployerPc, DeployClean, DeployAt, DeployGoto,
       Fine, KeepUnits
  <1>2. DeployerInv'
    BY DEF Inv, TypeOK, Manifest, DeployerPc, RecoveryPc, Recovery, DeployerInv,
       RecoveryInv, StateInv, NoneNew, NoneOld, DeployClean, DeployAt, DeployGoto, Fine,
       KeepUnits
  <1>3. RecoveryInv'
    BY DEF Inv, TypeOK, Manifest, DeployerPc, RecoveryPc, Recovery, DeployerInv,
       RecoveryInv, Halfway, Foreign, DeployClean, DeployAt, DeployGoto, Fine, KeepUnits
  <1>4. StateInv'
    BY DEF Inv, TypeOK, Manifest, DeployerPc, RecoveryPc, Recovery, DeployerInv,
       RecoveryInv, StateInv, NoneNew, NoneOld, Halfway, Foreign, DeployClean, DeployAt,
       DeployGoto, Fine, KeepUnits
  <1>5. BootInv'
    BY DEF Inv, TypeOK, Manifest, DeployerPc, RecoveryPc, Recovery, DeployerInv,
       RecoveryInv, BootInv, Halfway, DeployClean, DeployAt, DeployGoto, Fine, KeepUnits
  <1> QED BY <1>1, <1>2, <1>3, <1>4, <1>5 DEF Inv

LEMMA DeployFailsKeepsInv == ASSUME Inv, DeployFails PROVE Inv'
  <1>1. /\ recovery' \in Recovery /\ recovery'.pc = "read" /\ recovery'.stopped = FALSE
         /\ glitches' \in 0..MaxGlitches /\ deployer' = "trap" /\ deployer # "clean" /\ recovery.pc = "none"
         /\ deployer # "none"
         /\ UNCHANGED <<artifact, pending, manifest, up, gate, watchdog>>
    BY FirstRead, GlitchCounts DEF DeployFails, DeployAt, KeepDisk, KeepUnits
  <1>2. TypeOK'
    BY <1>1, JournalAssumption DEF Inv, TypeOK, DeployerPc, RecoveryPc
  <1>3. DeployerInv'
    BY <1>1 DEF Inv, TypeOK, DeployerInv, RecoveryInv, StateInv, NoneNew, NoneOld
  <1>4. RecoveryInv'
    BY <1>1 DEF Inv, TypeOK, DeployerInv, RecoveryInv, Halfway, Foreign
  <1>5. StateInv'
    BY <1>1 DEF Inv, TypeOK, DeployerInv, RecoveryInv, StateInv, NoneNew, NoneOld,
       Halfway, Foreign
  <1>6. BootInv'
    BY <1>1 DEF Inv, TypeOK, DeployerInv, RecoveryInv, BootInv, Halfway
  <1> QED BY <1>2, <1>3, <1>4, <1>5, <1>6 DEF Inv

LEMMA DeployRefusesKeepsInv == ASSUME Inv, DeployRefuses PROVE Inv'
  <1>1. /\ recovery' \in Recovery /\ recovery'.pc = "read" /\ recovery'.stopped = FALSE
         /\ deployer' = "trap" /\ deployer \in {"install", "complete"}
         /\ UNCHANGED <<artifact, pending, manifest, up, gate, watchdog, glitches>>
    BY FirstRead DEF DeployRefuses, KeepDisk, KeepUnits, Fine
  <1>2. TypeOK'
    BY <1>1, JournalAssumption DEF Inv, TypeOK, DeployerPc, RecoveryPc
  <1>3. DeployerInv'
    BY <1>1 DEF Inv, TypeOK, DeployerInv, RecoveryInv, StateInv, NoneNew, NoneOld
  <1>4. RecoveryInv'
    BY <1>1 DEF Inv, TypeOK, DeployerInv, RecoveryInv, Halfway, Foreign
  <1>5. StateInv'
    BY <1>1 DEF Inv, TypeOK, DeployerInv, RecoveryInv, StateInv, NoneNew, NoneOld,
       Halfway, Foreign
  <1>6. BootInv'
    BY <1>1 DEF Inv, TypeOK, DeployerInv, RecoveryInv, BootInv, Halfway
  <1> QED BY <1>2, <1>3, <1>4, <1>5, <1>6 DEF Inv

LEMMA DeployDiesKeepsInv == ASSUME Inv, DeployDies PROVE Inv'
  <1>1. /\ recovery' \in Recovery /\ recovery'.pc = "none" /\ recovery'.stopped = FALSE
         /\ glitches' \in 0..MaxGlitches /\ deployer' = "none"
         /\ UNCHANGED <<artifact, pending, manifest, up, gate, watchdog>>
    BY Nobody, GlitchCounts DEF DeployDies, KeepDisk, KeepUnits
  <1>2. TypeOK'
    BY <1>1, JournalAssumption DEF Inv, TypeOK, DeployerPc, RecoveryPc
  <1>3. DeployerInv'
    BY <1>1 DEF Inv, TypeOK, DeployerInv, RecoveryInv, StateInv, NoneNew, NoneOld
  <1>4. RecoveryInv'
    BY <1>1 DEF Inv, TypeOK, DeployerInv, RecoveryInv, Halfway, Foreign
  <1>5. StateInv'
    BY <1>1 DEF Inv, TypeOK, DeployerInv, RecoveryInv, StateInv, NoneNew, NoneOld,
       Halfway, Foreign
  <1>6. BootInv'
    BY <1>1 DEF Inv, TypeOK, DeployerInv, RecoveryInv, BootInv, Halfway
  <1> QED BY <1>2, <1>3, <1>4, <1>5, <1>6 DEF Inv


-----------------------------------------------------------------------------
(* recover.                                                                 *)

LEMMA StartRecoveryKeepsInv ==
  ASSUME Inv, NEW who \in {"watchdog", "gate", "deploy"}, StartRecovery(who) PROVE Inv'
  <1>1. /\ recovery' \in Recovery /\ recovery'.pc = "read" /\ recovery'.stopped = FALSE
         /\ deployer = "none" /\ recovery.pc = "none"
         /\ UNCHANGED <<artifact, pending, manifest, up, gate, watchdog, deployer, glitches>>
    BY FirstRead DEF StartRecovery, DeployLockFree, KeepDisk, KeepUnits, Fine
  <1>2. TypeOK'
    BY <1>1, JournalAssumption DEF Inv, TypeOK, DeployerPc, RecoveryPc
  <1>3. DeployerInv'
    BY <1>1 DEF Inv, TypeOK, DeployerInv, RecoveryInv, StateInv, NoneNew, NoneOld
  <1>4. RecoveryInv'
    BY <1>1 DEF Inv, TypeOK, DeployerInv, RecoveryInv, Halfway, Foreign
  <1>5. StateInv'
    BY <1>1 DEF Inv, TypeOK, DeployerInv, RecoveryInv, StateInv, NoneNew, NoneOld,
       Halfway, Foreign
  <1>6. BootInv'
    BY <1>1 DEF Inv, TypeOK, DeployerInv, RecoveryInv, BootInv, Halfway
  <1> QED BY <1>2, <1>3, <1>4, <1>5, <1>6 DEF Inv

LEMMA RecReadKeepsInv == ASSUME Inv, RecRead PROVE Inv'
  <1>1. CASE pending = "none"
    <2>1. recovery.pc = "read" /\ Ended(TRUE) 
          /\ UNCHANGED <<artifact, pending, manifest, up>> /\ UNCHANGED glitches
      BY <1>1, EndsEnds DEF RecRead, RecAt, Fine, KeepDisk
    <2>2. TypeOK'
      BY <2>1, <1>1, JournalAssumption DEF Inv, TypeOK, DeployerPc, RecoveryPc, Ended
    <2>3. DeployerInv'
      BY <2>1, <1>1 DEF Inv, TypeOK, DeployerInv, RecoveryInv, StateInv, NoneNew,
         NoneOld, Ended
    <2>4. RecoveryInv'
      BY <2>1, <1>1 DEF Inv, TypeOK, DeployerInv, RecoveryInv, Halfway, Foreign, Ended
    <2>5. StateInv'
      BY <2>1, <1>1 DEF Inv, TypeOK, DeployerInv, RecoveryInv, StateInv, NoneNew,
         NoneOld, Halfway, Foreign, Ended
    <2>6. BootInv'
      BY <2>1, <1>1 DEF Inv, TypeOK, DeployerInv, RecoveryInv, BootInv, Halfway, Ended
    <2> QED BY <2>2, <2>3, <2>4, <2>5, <2>6 DEF Inv
  <1>2. CASE pending = "bare"
    <2>1. recovery.pc = "read" /\ Moved("clean") 
          /\ UNCHANGED <<artifact, pending, manifest, up>> /\ UNCHANGED glitches
      BY <1>2, GotoMoves DEF RecRead, RecAt, Fine, KeepDisk, RecoveryPc
    <2>2. TypeOK'
      BY <2>1, <1>2, JournalAssumption DEF Inv, TypeOK, DeployerPc, RecoveryPc, Moved
    <2>3. DeployerInv'
      BY <2>1, <1>2 DEF Inv, TypeOK, DeployerInv, RecoveryInv, StateInv, NoneNew,
         NoneOld, Moved
    <2>4. RecoveryInv'
      BY <2>1, <1>2 DEF Inv, TypeOK, DeployerInv, RecoveryInv, Halfway, Foreign, Moved
    <2>5. StateInv'
      BY <2>1, <1>2 DEF Inv, TypeOK, DeployerInv, RecoveryInv, StateInv, NoneNew,
         NoneOld, Halfway, Foreign, Moved
    <2>6. BootInv'
      BY <2>1, <1>2 DEF Inv, TypeOK, DeployerInv, RecoveryInv, BootInv, Halfway, Moved
    <2> QED BY <2>2, <2>3, <2>4, <2>5, <2>6 DEF Inv
  <1>3. CASE pending = "journaled" /\ manifest.state = "complete"
    <2>1. recovery.pc = "read" /\ Moved("clean") 
          /\ UNCHANGED <<artifact, pending, manifest, up>> /\ UNCHANGED glitches
      BY <1>3, GotoMoves DEF RecRead, RecAt, Fine, KeepDisk, RecoveryPc
    <2>2. TypeOK'
      BY <2>1, <1>3, JournalAssumption DEF Inv, TypeOK, DeployerPc, RecoveryPc, Moved
    <2>3. DeployerInv'
      BY <2>1, <1>3 DEF Inv, TypeOK, DeployerInv, RecoveryInv, StateInv, NoneNew,
         NoneOld, Moved
    <2>4. RecoveryInv'
      BY <2>1, <1>3 DEF Inv, TypeOK, DeployerInv, RecoveryInv, Halfway, Foreign, Moved
    <2>5. StateInv'
      BY <2>1, <1>3 DEF Inv, TypeOK, DeployerInv, RecoveryInv, StateInv, NoneNew,
         NoneOld, Halfway, Foreign, Moved
    <2>6. BootInv'
      BY <2>1, <1>3 DEF Inv, TypeOK, DeployerInv, RecoveryInv, BootInv, Halfway, Moved
    <2> QED BY <2>2, <2>3, <2>4, <2>5, <2>6 DEF Inv
  <1>4. CASE pending = "journaled" /\ manifest.state = "restored"
    <2>1. recovery.pc = "read" /\ Moved("resume") 
          /\ UNCHANGED <<artifact, pending, manifest, up>> /\ UNCHANGED glitches
      BY <1>4, GotoMoves DEF RecRead, RecAt, Fine, KeepDisk, RecoveryPc
    <2>2. TypeOK'
      BY <2>1, <1>4, JournalAssumption DEF Inv, TypeOK, DeployerPc, RecoveryPc, Moved
    <2>3. DeployerInv'
      BY <2>1, <1>4 DEF Inv, TypeOK, DeployerInv, RecoveryInv, StateInv, NoneNew,
         NoneOld, Moved
    <2>4. RecoveryInv'
      BY <2>1, <1>4 DEF Inv, TypeOK, DeployerInv, RecoveryInv, Halfway, Foreign, Moved
    <2>5. StateInv'
      BY <2>1, <1>4 DEF Inv, TypeOK, DeployerInv, RecoveryInv, StateInv, NoneNew,
         NoneOld, Halfway, Foreign, Moved
    <2>6. BootInv'
      BY <2>1, <1>4 DEF Inv, TypeOK, DeployerInv, RecoveryInv, BootInv, Halfway, Moved
    <2> QED BY <2>2, <2>3, <2>4, <2>5, <2>6 DEF Inv
  <1>5. CASE pending = "journaled" /\ manifest.state = "preparing"
    <2>1. recovery.pc = "read" /\ Moved("early") 
          /\ UNCHANGED <<artifact, pending, manifest, up>> /\ UNCHANGED glitches
      BY <1>5, GotoMoves DEF RecRead, RecAt, Fine, KeepDisk, RecoveryPc
    <2>2. TypeOK'
      BY <2>1, <1>5, JournalAssumption DEF Inv, TypeOK, DeployerPc, RecoveryPc, Moved
    <2>3. DeployerInv'
      BY <2>1, <1>5 DEF Inv, TypeOK, DeployerInv, RecoveryInv, StateInv, NoneNew,
         NoneOld, Moved
    <2>4. RecoveryInv'
      BY <2>1, <1>5 DEF Inv, TypeOK, DeployerInv, RecoveryInv, Halfway, Foreign, Moved
    <2>5. StateInv'
      BY <2>1, <1>5 DEF Inv, TypeOK, DeployerInv, RecoveryInv, StateInv, NoneNew,
         NoneOld, Halfway, Foreign, Moved
    <2>6. BootInv'
      BY <2>1, <1>5 DEF Inv, TypeOK, DeployerInv, RecoveryInv, BootInv, Halfway, Moved
    <2> QED BY <2>2, <2>3, <2>4, <2>5, <2>6 DEF Inv
  <1>6. CASE pending = "journaled" /\ manifest.state \in Halfway
    <2>1. recovery.pc = "read" /\ Moved("preflight") 
          /\ UNCHANGED <<artifact, pending, manifest, up>> /\ UNCHANGED glitches
      BY <1>6, GotoMoves DEF RecRead, RecAt, Fine, KeepDisk, RecoveryPc, Halfway
    <2>2. TypeOK'
      BY <2>1, <1>6, JournalAssumption DEF Inv, TypeOK, DeployerPc, RecoveryPc, Moved
    <2>3. DeployerInv'
      BY <2>1, <1>6 DEF Inv, TypeOK, DeployerInv, RecoveryInv, StateInv, NoneNew,
         NoneOld, Moved
    <2>4. RecoveryInv'
      BY <2>1, <1>6 DEF Inv, TypeOK, DeployerInv, RecoveryInv, Halfway, Foreign, Moved
    <2>5. StateInv'
      BY <2>1, <1>6 DEF Inv, TypeOK, DeployerInv, RecoveryInv, StateInv, NoneNew,
         NoneOld, Halfway, Foreign, Moved
    <2>6. BootInv'
      BY <2>1, <1>6 DEF Inv, TypeOK, DeployerInv, RecoveryInv, BootInv, Halfway, Moved
    <2> QED BY <2>2, <2>3, <2>4, <2>5, <2>6 DEF Inv
  <1> QED BY <1>1, <1>2, <1>3, <1>4, <1>5, <1>6 DEF Inv, TypeOK, Manifest, Halfway

LEMMA RecEarlyKeepsInv == ASSUME Inv, RecEarly PROVE Inv'
  <1>1. CASE up' = FALSE /\ manifest' = [manifest EXCEPT !.state = "restored"]
            /\ RecGoto("resume") /\ Fine
    <2>1. recovery.pc = "early" /\ Moved("resume") /\ Marked("restored") /\ ~up'
          /\ UNCHANGED <<artifact, pending, glitches>> /\ up' \in BOOLEAN
      BY <1>1, GotoMoves, StateMarks DEF RecEarly, RecAt, KeepDisk, Fine, RecoveryPc
    <2>2. TypeOK'
      BY <2>1, <1>1, JournalAssumption DEF Inv, TypeOK, DeployerPc, RecoveryPc, Moved,
         Marked
    <2>3. DeployerInv'
      BY <2>1, <1>1 DEF Inv, TypeOK, DeployerInv, RecoveryInv, StateInv, NoneNew,
         NoneOld, Moved, Marked
    <2>4. RecoveryInv'
      BY <2>1, <1>1 DEF Inv, TypeOK, DeployerInv, RecoveryInv, Halfway, Foreign, Moved,
         Marked
    <2>5. StateInv'
      BY <2>1, <1>1 DEF Inv, TypeOK, DeployerInv, RecoveryInv, StateInv, NoneNew,
         NoneOld, Halfway, Foreign, Moved, Marked
    <2>6. BootInv'
      BY <2>1, <1>1 DEF Inv, TypeOK, DeployerInv, RecoveryInv, BootInv, Halfway, Moved,
         Marked
    <2> QED BY <2>2, <2>3, <2>4, <2>5, <2>6 DEF Inv
  <1>2. CASE up' \in {up, manifest.wasUp /\ manifest.sameBoot} /\ RecEnds(FALSE) /\ Glitch
            /\ UNCHANGED manifest
    <2>1. recovery.pc = "early" /\ Ended(FALSE) /\ UNCHANGED <<artifact, pending, manifest>>
          /\ up' \in BOOLEAN /\ glitches' \in 0..MaxGlitches
      BY <1>2, EndsEnds, GlitchCounts DEF RecEarly, RecAt, KeepDisk, Inv, TypeOK,
         Manifest
    <2>2. TypeOK'
      BY <2>1, <1>2, JournalAssumption DEF Inv, TypeOK, DeployerPc, RecoveryPc, Ended
    <2>3. DeployerInv'
      BY <2>1, <1>2 DEF Inv, TypeOK, DeployerInv, RecoveryInv, StateInv, NoneNew,
         NoneOld, Ended
    <2>4. RecoveryInv'
      BY <2>1, <1>2 DEF Inv, TypeOK, DeployerInv, RecoveryInv, Halfway, Foreign, Ended
    <2>5. StateInv'
      BY <2>1, <1>2 DEF Inv, TypeOK, DeployerInv, RecoveryInv, StateInv, NoneNew,
         NoneOld, Halfway, Foreign, Ended
    <2>6. BootInv'
      BY <2>1, <1>2 DEF Inv, TypeOK, DeployerInv, RecoveryInv, BootInv, Halfway, Ended
    <2> QED BY <2>2, <2>3, <2>4, <2>5, <2>6 DEF Inv
  <1> QED BY <1>1, <1>2 DEF RecEarly

LEMMA RecPreflightKeepsInv == ASSUME Inv, RecPreflight PROVE Inv'
  <1>1. CASE Foreign
    <2>1. recovery.pc = "preflight" /\ Ended(FALSE) 
          /\ UNCHANGED <<artifact, pending, manifest, up>> /\ UNCHANGED glitches
      BY <1>1, EndsEnds DEF RecPreflight, RecAt, KeepDisk, Fine
    <2>2. TypeOK'
      BY <2>1, <1>1, JournalAssumption DEF Inv, TypeOK, DeployerPc, RecoveryPc, Ended
    <2>3. DeployerInv'
      BY <2>1, <1>1 DEF Inv, TypeOK, DeployerInv, RecoveryInv, StateInv, NoneNew,
         NoneOld, Ended
    <2>4. RecoveryInv'
      BY <2>1, <1>1 DEF Inv, TypeOK, DeployerInv, RecoveryInv, Halfway, Foreign, Ended
    <2>5. StateInv'
      BY <2>1, <1>1 DEF Inv, TypeOK, DeployerInv, RecoveryInv, StateInv, NoneNew,
         NoneOld, Halfway, Foreign, Ended
    <2>6. BootInv'
      BY <2>1, <1>1 DEF Inv, TypeOK, DeployerInv, RecoveryInv, BootInv, Halfway, Ended
    <2> QED BY <2>2, <2>3, <2>4, <2>5, <2>6 DEF Inv
  <1>2. CASE ~Foreign
    <2>1. recovery.pc = "preflight" /\ Moved("stop") 
          /\ UNCHANGED <<artifact, pending, manifest, up>> /\ UNCHANGED glitches
      BY <1>2, GotoMoves DEF RecPreflight, RecAt, KeepDisk, Fine, RecoveryPc
    <2>2. TypeOK'
      BY <2>1, <1>2, JournalAssumption DEF Inv, TypeOK, DeployerPc, RecoveryPc, Moved
    <2>3. DeployerInv'
      BY <2>1, <1>2 DEF Inv, TypeOK, DeployerInv, RecoveryInv, StateInv, NoneNew,
         NoneOld, Moved
    <2>4. RecoveryInv'
      BY <2>1, <1>2 DEF Inv, TypeOK, DeployerInv, RecoveryInv, Halfway, Foreign, Moved
    <2>5. StateInv'
      BY <2>1, <1>2 DEF Inv, TypeOK, DeployerInv, RecoveryInv, StateInv, NoneNew,
         NoneOld, Halfway, Foreign, Moved
    <2>6. BootInv'
      BY <2>1, <1>2 DEF Inv, TypeOK, DeployerInv, RecoveryInv, BootInv, Halfway, Moved
    <2> QED BY <2>2, <2>3, <2>4, <2>5, <2>6 DEF Inv
  <1> QED BY <1>1, <1>2

LEMMA RecStopKeepsInv == ASSUME Inv, RecStop PROVE Inv'
  <1>1. CASE up' = FALSE /\ Fine /\ UNCHANGED <<manifest, watchdog, deployer, gate>>
            /\ recovery' = [recovery EXCEPT !.pc = "mark", !.stopped = up]
    <2>1. recovery.pc = "stop" /\ recovery' \in Recovery /\ recovery'.pc = "mark"
          /\ recovery'.stopped = up /\ up' = FALSE
          /\ UNCHANGED <<artifact, pending, manifest, glitches, watchdog, deployer, gate>>
      BY <1>1 DEF RecStop, RecAt, KeepDisk, Fine, Inv, TypeOK, Recovery, RecoveryPc
    <2>2. TypeOK'
      BY <2>1, <1>1, JournalAssumption DEF Inv, TypeOK, DeployerPc, RecoveryPc
    <2>3. DeployerInv'
      BY <2>1, <1>1 DEF Inv, TypeOK, DeployerInv, RecoveryInv, StateInv, NoneNew,
         NoneOld
    <2>4. RecoveryInv'
      BY <2>1, <1>1 DEF Inv, TypeOK, DeployerInv, RecoveryInv, Halfway, Foreign
    <2>5. StateInv'
      BY <2>1, <1>1 DEF Inv, TypeOK, DeployerInv, RecoveryInv, StateInv, NoneNew,
         NoneOld, Halfway, Foreign
    <2>6. BootInv'
      BY <2>1, <1>1 DEF Inv, TypeOK, DeployerInv, RecoveryInv, BootInv, Halfway
    <2> QED BY <2>2, <2>3, <2>4, <2>5, <2>6 DEF Inv
  <1>2. CASE RecFails /\ Glitch
    <2>1. recovery.pc = "stop" /\ Marked("recovery-failed") /\ Ended(FALSE)
          /\ up' \in BOOLEAN /\ (up' => up \/ recovery.stopped) 
          /\ UNCHANGED <<artifact, pending>> /\ glitches' \in 0..MaxGlitches
      BY <1>2, FailsEnds, GlitchCounts DEF RecStop, RecAt, KeepDisk
    <2>2. TypeOK'
      BY <2>1, <1>2, JournalAssumption DEF Inv, TypeOK, DeployerPc, RecoveryPc, Marked,
         Ended
    <2>3. DeployerInv'
      BY <2>1, <1>2 DEF Inv, TypeOK, DeployerInv, RecoveryInv, StateInv, NoneNew,
         NoneOld, Marked, Ended
    <2>4. RecoveryInv'
      BY <2>1, <1>2 DEF Inv, TypeOK, DeployerInv, RecoveryInv, Halfway, Foreign, Marked,
         Ended
    <2>5. StateInv'
      BY <2>1, <1>2 DEF Inv, TypeOK, DeployerInv, RecoveryInv, StateInv, NoneNew,
         NoneOld, Halfway, Foreign, Marked, Ended
    <2>6. BootInv'
      BY <2>1, <1>2 DEF Inv, TypeOK, DeployerInv, RecoveryInv, BootInv, Halfway, Marked,
         Ended
    <2> QED BY <2>2, <2>3, <2>4, <2>5, <2>6 DEF Inv
  <1> QED BY <1>1, <1>2 DEF RecStop

LEMMA RecMarkKeepsInv == ASSUME Inv, RecMark PROVE Inv'
  <1>1. CASE Foreign
    <2>1. recovery.pc = "mark" /\ Marked("recovery-failed") /\ Ended(FALSE)
          /\ up' \in BOOLEAN /\ (up' => up \/ recovery.stopped) 
          /\ UNCHANGED <<artifact, pending>> /\ UNCHANGED glitches
      BY <1>1, FailsEnds DEF RecMark, RecAt, KeepDisk, Fine
    <2>2. TypeOK'
      BY <2>1, <1>1, JournalAssumption DEF Inv, TypeOK, DeployerPc, RecoveryPc, Marked,
         Ended
    <2>3. DeployerInv'
      BY <2>1, <1>1 DEF Inv, TypeOK, DeployerInv, RecoveryInv, StateInv, NoneNew,
         NoneOld, Marked, Ended
    <2>4. RecoveryInv'
      BY <2>1, <1>1 DEF Inv, TypeOK, DeployerInv, RecoveryInv, Halfway, Foreign, Marked,
         Ended
    <2>5. StateInv'
      BY <2>1, <1>1 DEF Inv, TypeOK, DeployerInv, RecoveryInv, StateInv, NoneNew,
         NoneOld, Halfway, Foreign, Marked, Ended
    <2>6. BootInv'
      BY <2>1, <1>1 DEF Inv, TypeOK, DeployerInv, RecoveryInv, BootInv, Halfway, Marked,
         Ended
    <2> QED BY <2>2, <2>3, <2>4, <2>5, <2>6 DEF Inv
  <1>2. CASE ~Foreign
    <2>1. recovery.pc = "mark" /\ Marked("restoring") /\ Moved("restore")
          /\ UNCHANGED <<artifact, pending, up, glitches>>
      BY <1>2, GotoMoves, StateMarks DEF RecMark, RecAt, KeepDisk, Fine, RecoveryPc
    <2>2. TypeOK'
      BY <2>1, <1>2, JournalAssumption DEF Inv, TypeOK, DeployerPc, RecoveryPc, Marked,
         Moved
    <2>3. DeployerInv'
      BY <2>1, <1>2 DEF Inv, TypeOK, DeployerInv, RecoveryInv, StateInv, NoneNew,
         NoneOld, Marked, Moved
    <2>4. RecoveryInv'
      BY <2>1, <1>2 DEF Inv, TypeOK, DeployerInv, RecoveryInv, Halfway, Foreign, Marked,
         Moved
    <2>5. StateInv'
      BY <2>1, <1>2 DEF Inv, TypeOK, DeployerInv, RecoveryInv, StateInv, NoneNew,
         NoneOld, Halfway, Foreign, Marked, Moved
    <2>6. BootInv'
      BY <2>1, <1>2 DEF Inv, TypeOK, DeployerInv, RecoveryInv, BootInv, Halfway, Marked,
         Moved
    <2> QED BY <2>2, <2>3, <2>4, <2>5, <2>6 DEF Inv
  <1> QED BY <1>1, <1>2

LEMMA RecRestoreKeepsInv ==
  ASSUME Inv, NEW p \in Paths, RecRestore(p) PROVE Inv'
  <1>1. CASE artifact[p] = "new" /\ artifact' = [artifact EXCEPT ![p] = "old"] /\ Fine
            /\ recovery' = [recovery EXCEPT !.began = TRUE]
            /\ UNCHANGED <<manifest, up, watchdog, deployer, gate>>
    <2>1. recovery.pc = "restore" /\ Moved("restore") /\ UNCHANGED <<pending, manifest, up, glitches>>
          /\ artifact' \in [Paths -> {"old", "new", "foreign"}] /\ artifact'[p] = "old"
          /\ \A q \in Paths \ {p} : artifact'[q] = artifact[q]
      BY <1>1 DEF RecRestore, RecAt, Fine, Moved, Inv, TypeOK, Recovery
    <2>2. TypeOK'
      BY <2>1, <1>1, JournalAssumption DEF Inv, TypeOK, DeployerPc, RecoveryPc, Moved
    <2>3. DeployerInv'
      BY <2>1, <1>1 DEF Inv, TypeOK, DeployerInv, RecoveryInv, StateInv, NoneNew,
         NoneOld, Moved
    <2>4. RecoveryInv'
      BY <2>1, <1>1 DEF Inv, TypeOK, DeployerInv, RecoveryInv, Halfway, Foreign, Moved
    <2>5. StateInv'
      BY <2>1, <1>1 DEF Inv, TypeOK, DeployerInv, RecoveryInv, StateInv, NoneNew,
         NoneOld, Halfway, Foreign, Moved
    <2>6. BootInv'
      BY <2>1, <1>1 DEF Inv, TypeOK, DeployerInv, RecoveryInv, BootInv, Halfway, Moved
    <2> QED BY <2>2, <2>3, <2>4, <2>5, <2>6 DEF Inv
  <1>2. CASE artifact[p] = "foreign" /\ RecFails /\ Fine /\ UNCHANGED artifact
    <2>1. recovery.pc = "restore" /\ Marked("recovery-failed") /\ Ended(FALSE)
          /\ up' \in BOOLEAN /\ (up' => up \/ recovery.stopped) 
          /\ UNCHANGED <<artifact, pending>> /\ UNCHANGED glitches
      BY <1>2, FailsEnds DEF RecRestore, RecAt, Fine
    <2>2. TypeOK'
      BY <2>1, <1>2, JournalAssumption DEF Inv, TypeOK, DeployerPc, RecoveryPc, Marked,
         Ended
    <2>3. DeployerInv'
      BY <2>1, <1>2 DEF Inv, TypeOK, DeployerInv, RecoveryInv, StateInv, NoneNew,
         NoneOld, Marked, Ended
    <2>4. RecoveryInv'
      BY <2>1, <1>2 DEF Inv, TypeOK, DeployerInv, RecoveryInv, Halfway, Foreign, Marked,
         Ended
    <2>5. StateInv'
      BY <2>1, <1>2 DEF Inv, TypeOK, DeployerInv, RecoveryInv, StateInv, NoneNew,
         NoneOld, Halfway, Foreign, Marked, Ended
    <2>6. BootInv'
      BY <2>1, <1>2 DEF Inv, TypeOK, DeployerInv, RecoveryInv, BootInv, Halfway, Marked,
         Ended
    <2> QED BY <2>2, <2>3, <2>4, <2>5, <2>6 DEF Inv
  <1>3. CASE RecFails /\ Glitch /\ UNCHANGED artifact
    <2>1. recovery.pc = "restore" /\ Marked("recovery-failed") /\ Ended(FALSE)
          /\ up' \in BOOLEAN /\ (up' => up \/ recovery.stopped) 
          /\ UNCHANGED <<artifact, pending>> /\ glitches' \in 0..MaxGlitches
      BY <1>3, FailsEnds, GlitchCounts DEF RecRestore, RecAt
    <2>2. TypeOK'
      BY <2>1, <1>3, JournalAssumption DEF Inv, TypeOK, DeployerPc, RecoveryPc, Marked,
         Ended
    <2>3. DeployerInv'
      BY <2>1, <1>3 DEF Inv, TypeOK, DeployerInv, RecoveryInv, StateInv, NoneNew,
         NoneOld, Marked, Ended
    <2>4. RecoveryInv'
      BY <2>1, <1>3 DEF Inv, TypeOK, DeployerInv, RecoveryInv, Halfway, Foreign, Marked,
         Ended
    <2>5. StateInv'
      BY <2>1, <1>3 DEF Inv, TypeOK, DeployerInv, RecoveryInv, StateInv, NoneNew,
         NoneOld, Halfway, Foreign, Marked, Ended
    <2>6. BootInv'
      BY <2>1, <1>3 DEF Inv, TypeOK, DeployerInv, RecoveryInv, BootInv, Halfway, Marked,
         Ended
    <2> QED BY <2>2, <2>3, <2>4, <2>5, <2>6 DEF Inv
  <1> QED BY <1>1, <1>2, <1>3 DEF RecRestore

LEMMA RecRestoredKeepsInv == ASSUME Inv, RecRestored PROVE Inv'
  <1>1. CASE manifest' = [manifest EXCEPT !.state = "restored"] /\ RecGoto("resume") /\ Fine
            /\ UNCHANGED up
    <2>1. recovery.pc = "restore" /\ Marked("restored") /\ Moved("resume")
          /\ NoneNew /\ UNCHANGED <<artifact, pending, up, glitches>>
      BY <1>1, GotoMoves, StateMarks DEF RecRestored, RecAt, KeepDisk, Fine, RecoveryPc,
         NoneNew
    <2>2. TypeOK'
      BY <2>1, <1>1, JournalAssumption DEF Inv, TypeOK, DeployerPc, RecoveryPc, Marked,
         Moved
    <2>3. DeployerInv'
      BY <2>1, <1>1 DEF Inv, TypeOK, DeployerInv, RecoveryInv, StateInv, NoneNew,
         NoneOld, Marked, Moved
    <2>4. RecoveryInv'
      BY <2>1, <1>1 DEF Inv, TypeOK, DeployerInv, RecoveryInv, Halfway, Foreign, Marked,
         Moved
    <2>5. StateInv'
      BY <2>1, <1>1 DEF Inv, TypeOK, DeployerInv, RecoveryInv, StateInv, NoneNew,
         NoneOld, Halfway, Foreign, Marked, Moved
    <2>6. BootInv'
      BY <2>1, <1>1 DEF Inv, TypeOK, DeployerInv, RecoveryInv, BootInv, Halfway, Marked,
         Moved
    <2> QED BY <2>2, <2>3, <2>4, <2>5, <2>6 DEF Inv
  <1>2. CASE RecFails /\ Glitch
    <2>1. recovery.pc = "restore" /\ Marked("recovery-failed") /\ Ended(FALSE)
          /\ up' \in BOOLEAN /\ (up' => up \/ recovery.stopped) 
          /\ UNCHANGED <<artifact, pending>> /\ glitches' \in 0..MaxGlitches
      BY <1>2, FailsEnds, GlitchCounts DEF RecRestored, RecAt, KeepDisk
    <2>2. TypeOK'
      BY <2>1, <1>2, JournalAssumption DEF Inv, TypeOK, DeployerPc, RecoveryPc, Marked,
         Ended
    <2>3. DeployerInv'
      BY <2>1, <1>2 DEF Inv, TypeOK, DeployerInv, RecoveryInv, StateInv, NoneNew,
         NoneOld, Marked, Ended
    <2>4. RecoveryInv'
      BY <2>1, <1>2 DEF Inv, TypeOK, DeployerInv, RecoveryInv, Halfway, Foreign, Marked,
         Ended
    <2>5. StateInv'
      BY <2>1, <1>2 DEF Inv, TypeOK, DeployerInv, RecoveryInv, StateInv, NoneNew,
         NoneOld, Halfway, Foreign, Marked, Ended
    <2>6. BootInv'
      BY <2>1, <1>2 DEF Inv, TypeOK, DeployerInv, RecoveryInv, BootInv, Halfway, Marked,
         Ended
    <2> QED BY <2>2, <2>3, <2>4, <2>5, <2>6 DEF Inv
  <1> QED BY <1>1, <1>2 DEF RecRestored

LEMMA RecResumeKeepsInv == ASSUME Inv, RecResume PROVE Inv'
  <1>1. CASE up' = (up \/ (manifest.wasUp /\ manifest.sameBoot)) /\ RecGoto("clean") /\ Fine
    <2>1. recovery.pc = "resume" /\ Moved("clean") /\ up' \in BOOLEAN
          /\ UNCHANGED <<artifact, pending, manifest, glitches>>
      BY <1>1, GotoMoves DEF RecResume, RecAt, KeepDisk, Fine, RecoveryPc, Inv, TypeOK,
         Manifest
    <2>2. TypeOK'
      BY <2>1, <1>1, JournalAssumption DEF Inv, TypeOK, DeployerPc, RecoveryPc, Moved
    <2>3. DeployerInv'
      BY <2>1, <1>1 DEF Inv, TypeOK, DeployerInv, RecoveryInv, StateInv, NoneNew,
         NoneOld, Moved
    <2>4. RecoveryInv'
      BY <2>1, <1>1 DEF Inv, TypeOK, DeployerInv, RecoveryInv, Halfway, Foreign, Moved
    <2>5. StateInv'
      BY <2>1, <1>1 DEF Inv, TypeOK, DeployerInv, RecoveryInv, StateInv, NoneNew,
         NoneOld, Halfway, Foreign, Moved
    <2>6. BootInv'
      BY <2>1, <1>1 DEF Inv, TypeOK, DeployerInv, RecoveryInv, BootInv, Halfway, Moved
    <2> QED BY <2>2, <2>3, <2>4, <2>5, <2>6 DEF Inv
  <1>2. CASE UNCHANGED up /\ RecEnds(FALSE) /\ Glitch
    <2>1. recovery.pc = "resume" /\ Ended(FALSE) 
          /\ UNCHANGED <<artifact, pending, manifest, up>> /\ glitches' \in 0..MaxGlitches
      BY <1>2, EndsEnds, GlitchCounts DEF RecResume, RecAt, KeepDisk
    <2>2. TypeOK'
      BY <2>1, <1>2, JournalAssumption DEF Inv, TypeOK, DeployerPc, RecoveryPc, Ended
    <2>3. DeployerInv'
      BY <2>1, <1>2 DEF Inv, TypeOK, DeployerInv, RecoveryInv, StateInv, NoneNew,
         NoneOld, Ended
    <2>4. RecoveryInv'
      BY <2>1, <1>2 DEF Inv, TypeOK, DeployerInv, RecoveryInv, Halfway, Foreign, Ended
    <2>5. StateInv'
      BY <2>1, <1>2 DEF Inv, TypeOK, DeployerInv, RecoveryInv, StateInv, NoneNew,
         NoneOld, Halfway, Foreign, Ended
    <2>6. BootInv'
      BY <2>1, <1>2 DEF Inv, TypeOK, DeployerInv, RecoveryInv, BootInv, Halfway, Ended
    <2> QED BY <2>2, <2>3, <2>4, <2>5, <2>6 DEF Inv
  <1> QED BY <1>1, <1>2 DEF RecResume

LEMMA RecCleanKeepsInv == ASSUME Inv, RecClean PROVE Inv'
  <1>1. CASE pending = "journaled"
    <2>1. recovery.pc = "clean" /\ Moved("clean") /\ pending' = "bare"
          /\ UNCHANGED <<artifact, manifest, up, glitches>>
      BY <1>1, GotoMoves DEF RecClean, RecAt, Fine, RecoveryPc
    <2>2. TypeOK'
      BY <2>1, <1>1, JournalAssumption DEF Inv, TypeOK, DeployerPc, RecoveryPc, Moved
    <2>3. DeployerInv'
      BY <2>1, <1>1 DEF Inv, TypeOK, DeployerInv, RecoveryInv, StateInv, NoneNew,
         NoneOld, Moved
    <2>4. RecoveryInv'
      BY <2>1, <1>1 DEF Inv, TypeOK, DeployerInv, RecoveryInv, Halfway, Foreign, Moved
    <2>5. StateInv'
      BY <2>1, <1>1 DEF Inv, TypeOK, DeployerInv, RecoveryInv, StateInv, NoneNew,
         NoneOld, Halfway, Foreign, Moved
    <2>6. BootInv'
      BY <2>1, <1>1 DEF Inv, TypeOK, DeployerInv, RecoveryInv, BootInv, Halfway, Moved
    <2> QED BY <2>2, <2>3, <2>4, <2>5, <2>6 DEF Inv
  <1>2. CASE pending # "journaled"
    <2>1. recovery.pc = "clean" /\ Ended(TRUE) /\ pending' = "none"
          /\ UNCHANGED <<artifact, manifest, up, glitches>>
      BY <1>2, EndsEnds DEF RecClean, RecAt, Fine
    <2>2. TypeOK'
      BY <2>1, <1>2, JournalAssumption DEF Inv, TypeOK, DeployerPc, RecoveryPc, Ended
    <2>3. DeployerInv'
      BY <2>1, <1>2 DEF Inv, TypeOK, DeployerInv, RecoveryInv, StateInv, NoneNew,
         NoneOld, Ended
    <2>4. RecoveryInv'
      BY <2>1, <1>2 DEF Inv, TypeOK, DeployerInv, RecoveryInv, Halfway, Foreign, Ended
    <2>5. StateInv'
      BY <2>1, <1>2 DEF Inv, TypeOK, DeployerInv, RecoveryInv, StateInv, NoneNew,
         NoneOld, Halfway, Foreign, Ended
    <2>6. BootInv'
      BY <2>1, <1>2 DEF Inv, TypeOK, DeployerInv, RecoveryInv, BootInv, Halfway, Ended
    <2> QED BY <2>2, <2>3, <2>4, <2>5, <2>6 DEF Inv
  <1> QED BY <1>1, <1>2

LEMMA RecDiesKeepsInv == ASSUME Inv, RecDies PROVE Inv'
  <1>1. recovery.pc # "none" /\ Ended(FALSE) 
          /\ UNCHANGED <<artifact, pending, manifest, up>> /\ glitches' \in 0..MaxGlitches
    BY EndsEnds, GlitchCounts DEF RecDies, KeepDisk
  <1>2. TypeOK'
    BY <1>1, JournalAssumption DEF Inv, TypeOK, DeployerPc, RecoveryPc, Ended
  <1>3. DeployerInv'
    BY <1>1 DEF Inv, TypeOK, DeployerInv, RecoveryInv, StateInv, NoneNew, NoneOld, Ended
  <1>4. RecoveryInv'
    BY <1>1 DEF Inv, TypeOK, DeployerInv, RecoveryInv, Halfway, Foreign, Ended
  <1>5. StateInv'
    BY <1>1 DEF Inv, TypeOK, DeployerInv, RecoveryInv, StateInv, NoneNew, NoneOld,
       Halfway, Foreign, Ended
  <1>6. BootInv'
    BY <1>1 DEF Inv, TypeOK, DeployerInv, RecoveryInv, BootInv, Halfway, Ended
  <1> QED BY <1>2, <1>3, <1>4, <1>5, <1>6 DEF Inv


-----------------------------------------------------------------------------
(* The world.                                                               *)

LEMMA StartUnitsKeepsInv == ASSUME Inv, StartUnits PROVE Inv'
  <1>1. TypeOK'
    BY JournalAssumption DEF Inv, TypeOK, DeployerPc, StartUnits, DeployLockFree, Fine,
       KeepDisk
  <1>2. DeployerInv'
    BY DEF Inv, TypeOK, Manifest, DeployerPc, RecoveryPc, Recovery, DeployerInv,
       RecoveryInv, StateInv, NoneNew, NoneOld, StartUnits, DeployLockFree, Fine,
       KeepDisk
  <1>3. RecoveryInv'
    BY DEF Inv, TypeOK, Manifest, DeployerPc, RecoveryPc, Recovery, DeployerInv,
       RecoveryInv, Halfway, Foreign, StartUnits, DeployLockFree, Fine, KeepDisk
  <1>4. StateInv'
    BY DEF Inv, TypeOK, Manifest, DeployerPc, RecoveryPc, Recovery, DeployerInv,
       RecoveryInv, StateInv, NoneNew, NoneOld, Halfway, Foreign, StartUnits,
       DeployLockFree, Fine, KeepDisk
  <1>5. BootInv'
    BY DEF Inv, TypeOK, Manifest, DeployerPc, RecoveryPc, Recovery, DeployerInv,
       RecoveryInv, BootInv, Halfway, StartUnits, DeployLockFree, Fine, KeepDisk
  <1> QED BY <1>1, <1>2, <1>3, <1>4, <1>5 DEF Inv

LEMMA WriteKeepsInv ==
  ASSUME Inv, NEW p \in Paths, Write(p) PROVE Inv'
  <1>1. TypeOK'
    BY JournalAssumption DEF Inv, TypeOK, DeployerPc, Write, Fine, KeepUnits
  <1>2. DeployerInv'
    BY DEF Inv, TypeOK, Manifest, DeployerPc, RecoveryPc, Recovery, DeployerInv,
       RecoveryInv, StateInv, NoneNew, NoneOld, Write, Fine, KeepUnits
  <1>3. RecoveryInv'
    BY DEF Inv, TypeOK, Manifest, DeployerPc, RecoveryPc, Recovery, DeployerInv,
       RecoveryInv, Halfway, Foreign, Write, Fine, KeepUnits
  <1>4. StateInv'
    BY DEF Inv, TypeOK, Manifest, DeployerPc, RecoveryPc, Recovery, DeployerInv,
       RecoveryInv, StateInv, NoneNew, NoneOld, Halfway, Foreign, Write, Fine, KeepUnits
  <1>5. BootInv'
    BY DEF Inv, TypeOK, Manifest, DeployerPc, RecoveryPc, Recovery, DeployerInv,
       RecoveryInv, BootInv, Halfway, Write, Fine, KeepUnits
  <1> QED BY <1>1, <1>2, <1>3, <1>4, <1>5 DEF Inv

LEMMA PowerLossKeepsInv == ASSUME Inv, PowerLoss PROVE Inv'
  <1>1. /\ recovery' \in Recovery /\ recovery'.pc = "none" /\ recovery'.stopped = FALSE
         /\ glitches' \in 0..MaxGlitches /\ deployer' = "none"
         /\ up' = FALSE /\ gate' = FALSE /\ watchdog' = FALSE /\ UNCHANGED <<artifact, pending>>
         /\ manifest' \in Manifest /\ manifest'.state = manifest.state
         /\ manifest'.taken = manifest.taken /\ manifest'.committed = manifest.committed
         /\ manifest'.begun = manifest.begun
    BY Nobody, GlitchCounts DEF PowerLoss, KeepDisk, Inv, TypeOK, Manifest
  <1>2. TypeOK'
    BY <1>1, JournalAssumption DEF Inv, TypeOK, DeployerPc, RecoveryPc
  <1>3. DeployerInv'
    BY <1>1 DEF Inv, TypeOK, DeployerInv, RecoveryInv, StateInv, NoneNew, NoneOld
  <1>4. RecoveryInv'
    BY <1>1 DEF Inv, TypeOK, DeployerInv, RecoveryInv, Halfway, Foreign
  <1>5. StateInv'
    BY <1>1 DEF Inv, TypeOK, DeployerInv, RecoveryInv, StateInv, NoneNew, NoneOld,
       Halfway, Foreign
  <1>6. BootInv'
    BY <1>1 DEF Inv, TypeOK, DeployerInv, RecoveryInv, BootInv, Halfway
  <1> QED BY <1>2, <1>3, <1>4, <1>5, <1>6 DEF Inv

-----------------------------------------------------------------------------
(* The theorems.                                                            *)

LEMMA StutterKeepsInv == ASSUME Inv, UNCHANGED deployVars PROVE Inv'
  BY DEF Inv, TypeOK, DeployerInv, RecoveryInv, StateInv, BootInv, NoneNew, NoneOld, Foreign,
         deployVars

LEMMA InitInv == ASSUME Init PROVE Inv
  <1>1. manifest \in Manifest /\ ~recovery.stopped /\ recovery \in Recovery
        /\ recovery.pc = "none"
    BY DEF Init, EmptyManifest, Manifest, NoRecovery, Recovery, RecoveryPc
  <1> QED
    <2>1. TypeOK
      <3>1. glitches \in 0..MaxGlitches BY JournalAssumption DEF Init
      <3>2. artifact \in [Paths -> {"old", "new", "foreign"}] BY DEF Init
      <3> QED BY <1>1, <3>1, <3>2 DEF Init, TypeOK, DeployerPc
    <2>2. DeployerInv /\ RecoveryInv /\ StateInv /\ BootInv
      BY <1>1 DEF Init, DeployerInv, RecoveryInv, StateInv, BootInv, NoneNew, NoneOld, Halfway
    <2> QED BY <2>1, <2>2 DEF Inv

LEMMA NextKeepsInv == ASSUME Inv, [Next]_deployVars PROVE Inv'
  <1>1. CASE DeployStep
    BY <1>1, MakeDirectoryKeepsInv, PrepareKeepsInv, PackagesKeepsInv, QuiesceKeepsInv,
       ActivateKeepsInv, MutateKeepsInv, AfterKeepsInv, StartNewKeepsInv, CompleteKeepsInv,
       DeployCleanKeepsInv, DeployRefusesKeepsInv, SnapshotKeepsInv, BeforeKeepsInv
       DEF DeployStep
  <1>2. CASE RecStep
    BY <1>2, RecReadKeepsInv, RecEarlyKeepsInv, RecPreflightKeepsInv, RecStopKeepsInv,
       RecMarkKeepsInv, RecRestoredKeepsInv, RecResumeKeepsInv, RecCleanKeepsInv,
       RecRestoreKeepsInv DEF RecStep
  <1>3. CASE Recoveries
    BY <1>3, StartRecoveryKeepsInv DEF Recoveries
  <1>4. CASE Arm \/ DeployFails \/ DeployDies \/ RecDies \/ StartUnits \/ PowerLoss
             \/ \E p \in Paths : Write(p)
    BY <1>4, ArmKeepsInv, DeployFailsKeepsInv, DeployDiesKeepsInv, RecDiesKeepsInv,
       StartUnitsKeepsInv, WriteKeepsInv, PowerLossKeepsInv
  <1> QED BY <1>1, <1>2, <1>3, <1>4, StutterKeepsInv DEF Next

\* The invariant: where deploy.sh and a recovery are, what the state of the
\* journal says of the artifacts, and that nothing runs after a boot while the
\* set may be a mixture.
THEOREM InvAlways == Spec => []Inv
  <1>1. Init => Inv BY InitInv
  <1>2. Inv /\ [Next]_deployVars => Inv' BY NextKeepsInv
  <1> QED BY <1>1, <1>2, PTL DEF Spec

\* Every variable keeps its type, whatever dies and whatever fails.
THEOREM TypesHold == Spec => []TypeOK
  <1>1. Inv => TypeOK BY DEF Inv
  <1> QED BY InvAlways, <1>1, PTL

\* _before journals an artifact before it is replaced: whatever a deployment
\* has changed, a recovery knows of it and has its original.
THEOREM DeploymentsAreReversible == Spec => []Reversible
  <1>1. Inv => Reversible
    <2> SUFFICES ASSUME Inv PROVE Reversible
      OBVIOUS
    <2>1. CASE pending = "journaled"
      BY <2>1 DEF Inv, TypeOK, Manifest, StateInv, NoneNew, NoneOld, Halfway, Reversible
    <2>2. CASE pending # "journaled"
      BY <2>2 DEF Inv, StateInv, NoneNew, NoneOld, Reversible
    <2> QED BY <2>1, <2>2
  <1> QED BY InvAlways, <1>1, PTL

\* The boot gate: units never start on half of a deployment.
THEOREM BootsAreWhole == Spec => []BootsOnWholeSet
  <1>1. Inv => BootsOnWholeSet
    <2> SUFFICES ASSUME Inv, up, deployer = "none", pending # "journaled" \/ ~manifest.sameBoot
                 PROVE  ~Mixed
      BY DEF BootsOnWholeSet
    <2>1. NoneOld \/ NoneNew
      BY DEF Inv, TypeOK, Manifest, StateInv, BootInv, Halfway
    <2> QED BY <2>1 DEF Mixed, NoneOld, NoneNew
  <1> QED BY InvAlways, <1>1, PTL

\* The second preflight of recover: once it restores, nothing stands in its way.
THEOREM RestoresFinish == Spec => []RestoresAllOrNothing
  <1>1. Inv => RestoresAllOrNothing BY DEF Inv, RecoveryInv, RestoresAllOrNothing
  <1> QED BY InvAlways, <1>1, PTL
==============================================================================

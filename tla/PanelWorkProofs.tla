--------------------------- MODULE PanelWorkProofs ---------------------------
(***************************************************************************)
(* Theorems about the work of the panel that is paid for or that answers   *)
(* for somebody: the runs of videos, the turns and calls of a conversation *)
(* and the sessions; and about the passwords that may be tried, each for   *)
(* every value of the constants.                                           *)
(***************************************************************************)
EXTENDS MCPanelComponents, Integers, FiniteSetTheorems, SequenceTheorems, TLAPS

-----------------------------------------------------------------------------
(* Videos.  A run has been sent at most once, and not before its permission  *)
(* was saved; of two runs for one node the earlier one is not running.       *)

VideoStates == {"none", "queued", "running", "succeeded", "failed", "cancelled"}
VideoRun == [seq : Nat, state : VideoStates, status : VideoStates, pend : BOOLEAN,
             job : BOOLEAN, asset : BOOLEAN, token : Int]
VideoNode == [token : Int, run : Nat, version : Nat, state : VideoStates, result : Nat]

VideoTick == [pc : {"idle", "look", "poll", "claim", "check", "post", "save", "mirror"},
              run : VideoRun, ours : BOOLEAN]
VideoRound == [pc : {"idle", "resume", "ticks"}, seen : [Video!Runs -> VideoRun],
               left : SUBSET Video!Runs]

VideoTyped ==
    /\ runs \in [Video!Runs -> VideoRun] /\ posts \in [Video!Runs -> Nat]
    /\ node \in VideoNode
    /\ tick \in VideoTick /\ round \in VideoRound
    /\ client \in [Clients -> [pc : {"idle", "enter", "claim"}, run : VideoRun]]
    /\ \A r \in Video!Submitted : runs[r].seq = r

SentOnce ==
    \A r \in Video!Runs : /\ posts[r] <= 1
                          /\ runs[r].state = "none" \/ runs[r].status = "queued" => posts[r] = 0
EarlierAtRest ==
    \A r, s \in Video!Submitted :
        r < s /\ runs[r].token = runs[s].token => runs[r].state # "running"
RoundKnows ==
    /\ \A r \in Video!Runs : round.seen[r].state # "none" => r \in Video!Submitted
    /\ round.left \subseteq Video!Submitted
TickKnows ==
    tick.pc # "idle" =>
        LET run == tick.run
            kept == runs[run.seq]
        IN /\ run.seq \in Video!Submitted /\ run.token = kept.token /\ run.state # "none"
           /\ tick.pc = "look" => run = kept
           /\ tick.pc \in {"poll", "save"} =>
                 /\ run.status = "queued" => posts[run.seq] = 0
                 /\ run.state = "running" => kept.state = "running"
           /\ tick.pc \in {"claim", "check"} => run.state = "running"
           /\ tick.pc \in {"poll", "post", "save"} => run.state # "queued"
           /\ tick.pc = "post" => run = kept /\ run.status = "running" /\ posts[run.seq] = 0
NodeKnows == node.version = node.run /\ node.result <= node.version
\* What is at work has left the queue, and what is submitted has not.
StatusTells ==
    /\ \A r \in Video!Submitted : runs[r].status = "running" => runs[r].state # "queued"
    /\ \A c \in Clients : client[c].pc = "enter" =>
          client[c].run.status = "queued" /\ client[c].run.state = "queued"
VideoInv ==
    /\ VideoTyped /\ SentOnce /\ EarlierAtRest /\ RoundKnows /\ TickKnows /\ NodeKnows
    /\ StatusTells

\* What the steps make of a run: another state of the same one.
LEMMA VideoRecords ==
  ASSUME NEW run \in VideoRun
  PROVE  /\ LET new == Video!Failed(run)
            IN new \in VideoRun /\ new.seq = run.seq /\ new.token = run.token
               /\ new.state = "failed" /\ new.status = "failed"
         /\ LET new == Video!Finished(run)
            IN new \in VideoRun /\ new.seq = run.seq /\ new.token = run.token
               /\ new.state = "succeeded" /\ new.status = "succeeded"
         /\ LET new == Video!Running(run)
            IN new \in VideoRun /\ new.seq = run.seq /\ new.token = run.token
               /\ new.state = "running" /\ new.status = run.status
  BY DEF VideoRun, VideoStates, Video!Failed, Video!Finished, Video!Running

LEMMA VideoPermissions ==
  ASSUME NEW run \in VideoRun
  PROVE  /\ LET new == [run EXCEPT !.status = "running", !.pend = TRUE]
            IN new \in VideoRun /\ new.seq = run.seq /\ new.token = run.token
               /\ new.state = run.state /\ new.status = "running"
         /\ LET new == [run EXCEPT !.state = "cancelled", !.status = "cancelled"]
            IN new \in VideoRun /\ new.seq = run.seq /\ new.token = run.token
               /\ new.state = "cancelled" /\ new.status = "cancelled"
         /\ LET new == [run EXCEPT !.pend = FALSE, !.job = TRUE]
            IN new \in VideoRun /\ new.seq = run.seq /\ new.token = run.token
               /\ new.state = run.state /\ new.status = run.status
         /\ LET new == [run EXCEPT !.state = "cancelled"]
            IN new \in VideoRun /\ new.seq = run.seq /\ new.token = run.token
               /\ new.state = "cancelled" /\ new.status = run.status
  BY DEF VideoRun, VideoStates

\* A run is stored in the place of its sequence number.
LEMMA VideoStored ==
  ASSUME VideoTyped, NEW run \in VideoRun, run.seq \in Video!Runs, runs' = Video!Stored(run),
         run.state # "none"
  PROVE  /\ runs' \in [Video!Runs -> VideoRun] /\ runs'[run.seq] = run
         /\ \A r \in Video!Runs \ {run.seq} : runs'[r] = runs[r]
         /\ Video!Submitted' = Video!Submitted \cup {run.seq}
         /\ \A r \in Video!Submitted' : runs'[r].seq = r
  <1>1. /\ runs' \in [Video!Runs -> VideoRun] /\ runs'[run.seq] = run
        /\ \A r \in Video!Runs \ {run.seq} : runs'[r] = runs[r]
    BY DEF VideoTyped, Video!Stored
  <1> QED BY <1>1 DEF VideoTyped, Video!Submitted

LEMMA VideoNodes ==
  ASSUME NEW run \in VideoRun, node \in VideoNode, NodeKnows, NEW new,
         new \in {node, Video!ClaimedNode(run), Video!ReconciledNode(run)}
  PROVE  /\ new \in VideoNode /\ new.token = node.token
         /\ new.version = new.run /\ new.result <= new.version /\ new.result >= node.result
  <1>1. CASE new = node
    BY <1>1 DEF NodeKnows, VideoNode
  <1>2. Video!Shown(run) \in {run.seq, node.result}
    BY DEF Video!Shown
  <1>3. ASSUME new = Video!ClaimedNode(run), new # node
        PROVE  /\ new \in VideoNode /\ new.token = node.token
               /\ new.version = new.run /\ new.result <= new.version /\ new.result >= node.result
    <2>1. /\ run.seq > node.version
          /\ new = [node EXCEPT !.version = run.seq, !.run = run.seq, !.state = run.state,
                                !.result = Video!Shown(run)]
      BY <1>3 DEF Video!ClaimedNode, VideoRun, VideoNode
    <2>2. /\ new \in VideoNode /\ new.token = node.token /\ new.version = run.seq
          /\ new.run = run.seq /\ new.result = Video!Shown(run)
      BY <1>2, <2>1 DEF VideoNode, VideoRun
    <2> QED BY <1>2, <2>1, <2>2 DEF NodeKnows, VideoNode, VideoRun
  <1>4. ASSUME new = Video!ReconciledNode(run), new # node
        PROVE  /\ new \in VideoNode /\ new.token = node.token
               /\ new.version = new.run /\ new.result <= new.version /\ new.result >= node.result
    <2>1. /\ run.seq = node.run
          /\ new = [node EXCEPT !.state = run.state, !.result = Video!Shown(run)]
      BY <1>4 DEF Video!ReconciledNode, VideoRun, VideoNode
    <2>2. /\ new \in VideoNode /\ new.token = node.token /\ new.version = node.version
          /\ new.run = node.run /\ new.result = Video!Shown(run)
      BY <1>2, <2>1 DEF VideoNode, VideoRun
    <2> QED BY <1>2, <2>1, <2>2 DEF NodeKnows, VideoNode, VideoRun
  <1> QED BY <1>1, <1>3, <1>4
\* A step that leaves the runs and what was sent, and the tick that goes on with its own.
LEMMA VideoQuiet ==
  ASSUME VideoInv, UNCHANGED runs,
         \/ UNCHANGED posts
         \/ posts' \in [Video!Runs -> Nat] /\ SentOnce',
         node' \in VideoNode, NodeKnows', TickKnows', tick' \in VideoTick,
         client' \in [Clients -> [pc : {"idle", "enter", "claim"}, run : VideoRun]],
         round' \in VideoRound,
         \A r \in Video!Runs : round'.seen[r].state # "none" => r \in Video!Submitted,
         round'.left \subseteq Video!Submitted,
         \A c \in Clients : client'[c].pc = "enter" =>
             client'[c].run.status = "queued" /\ client'[c].run.state = "queued"
  PROVE  VideoInv'
  <1>1. Video!Submitted' = Video!Submitted
    BY DEF Video!Submitted
  <1>2. VideoTyped'
    BY <1>1 DEF VideoInv, VideoTyped
  <1>3. SentOnce' /\ EarlierAtRest'
    BY <1>1 DEF VideoInv, SentOnce, EarlierAtRest
  <1>4. RoundKnows'
    BY <1>1 DEF RoundKnows
  <1>5. StatusTells'
    BY <1>1 DEF VideoInv, StatusTells
  <1> QED BY <1>2, <1>3, <1>4, <1>5 DEF VideoInv

LEMMA TickGoing ==
  ASSUME VideoInv, NEW pc \in {"idle", "look", "poll", "claim", "check", "post", "save", "mirror"},
         NEW run \in VideoRun, Video!TickGoto(pc, run)
  PROVE  tick' \in VideoTick /\ tick'.pc = pc /\ tick'.run = run
  BY DEF VideoInv, VideoTyped, VideoTick, Video!TickGoto

LEMMA TickIdle == ASSUME Video!TickEnds PROVE tick' \in VideoTick /\ TickKnows'
  BY DEF Video!TickEnds, Video!IdleTick, Video!NoRun, VideoTick, VideoRun, VideoStates, TickKnows

LEMMA IdleRounds ==
  /\ Video!NoRun \in VideoRun /\ Video!NoRun.state = "none"
  /\ Video!IdleRound \in VideoRound /\ Video!IdleRound.left = {}
  /\ \A r \in Video!Runs : Video!IdleRound.seen[r].state = "none"
  <1>1. Video!NoRun \in VideoRun /\ Video!NoRun.state = "none"
    BY DEF Video!NoRun, VideoRun, VideoStates
  <1> QED BY <1>1 DEF Video!IdleRound, VideoRound

LEMMA ClientGoing ==
  ASSUME VideoInv, NEW c \in Clients, NEW pc \in {"idle", "enter", "claim"}, NEW run \in VideoRun,
         Video!ClientGoto(c, pc, run)
  PROVE  /\ client' \in [Clients -> [pc : {"idle", "enter", "claim"}, run : VideoRun]]
         /\ client'[c].pc = pc /\ client'[c].run = run
         /\ \A d \in Clients \ {c} : client'[d] = client[d]
  BY DEF VideoInv, VideoTyped, Video!ClientGoto

\* The tick where the runs and what was sent stay.
LEMMA TickStays == ASSUME VideoInv, UNCHANGED <<runs, posts, tick>> PROVE TickKnows'
  BY DEF VideoInv, TickKnows, Video!Submitted

LEMMA Submissions ==
  ASSUME VideoInv, NEW c \in Clients, Video!Snapshot(c) \/ Video!ClaimDraft(c)
  PROVE  VideoInv'
  <1>1. UNCHANGED <<runs, posts, tick, round>>
    BY DEF Video!Snapshot, Video!ClaimDraft, Video!KeepProvider
  <1>2. client[c].run \in VideoRun /\ node \in VideoNode /\ NodeKnows
    BY DEF VideoInv, VideoTyped
  <1>3. node' \in {node, Video!ClaimedNode(client[c].run)}
    BY DEF Video!Snapshot, Video!ClaimDraft
  <1>4. node' \in VideoNode /\ NodeKnows'
    BY <1>2, <1>3, VideoNodes DEF NodeKnows
  <1>5. /\ client' \in [Clients -> [pc : {"idle", "enter", "claim"}, run : VideoRun]]
        /\ \A d \in Clients : client'[d].pc = "enter" =>
               client'[d].run.status = "queued" /\ client'[d].run.state = "queued"
    <2> DEFINE run == [Video!NoRun EXCEPT !.token = node.token, !.state = "queued"]
    <2>1. run \in VideoRun /\ run.status = "queued" /\ run.state = "queued"
      BY <1>2 DEF Video!NoRun, VideoRun, VideoStates, VideoNode
    <2> HIDE DEF run
    <2>2. CASE Video!Snapshot(c)
      <3>1. Video!ClientGoto(c, "enter", run)
        BY <2>2 DEF Video!Snapshot, run
      <3> QED BY <2>1, <3>1, ClientGoing DEF VideoInv, StatusTells
    <2>3. CASE Video!ClaimDraft(c)
      <3>1. Video!ClientGoto(c, "idle", Video!NoRun)
        BY <2>3 DEF Video!ClaimDraft
      <3> QED BY <3>1, IdleRounds, ClientGoing DEF VideoInv, StatusTells
    <2> QED BY <2>2, <2>3
  <1> QED BY <1>1, <1>4, <1>5, TickStays, VideoQuiet DEF VideoInv, VideoTyped, RoundKnows

LEMMA Looking == ASSUME VideoInv, Video!Look PROVE VideoInv'
  <1>1. /\ UNCHANGED <<runs, posts, node, client, round>> /\ tick.pc = "look"
    BY DEF Video!Look, Video!KeepProvider, Video!TickAt
  <1> DEFINE run == tick.run
  <1>2. /\ run \in VideoRun /\ run.seq \in Video!Submitted /\ run = runs[run.seq]
        /\ run.state # "none"
    BY <1>1 DEF VideoInv, VideoTyped, VideoTick, TickKnows
  <1>3. run.status = "queued" => posts[run.seq] = 0
    BY <1>2 DEF VideoInv, SentOnce, Video!Submitted
  <1>4. \/ Video!TickGoto("mirror", run)
        \/ Video!TickEnds
        \/ Video!TickGoto("save", Video!Failed(run))
        \/ Video!TickGoto("claim", Video!Running(run))
        \/ /\ run.state \notin Video!Terminal /\ run.status = "running"
           /\ Video!TickGoto("poll", Video!Running(run))
    BY DEF Video!Look
  <1>5. tick' \in VideoTick /\ TickKnows'
    <2>1. CASE Video!TickGoto("mirror", run)
      <3>1. tick' \in VideoTick /\ tick'.pc = "mirror" /\ tick'.run = run
        BY <1>2, <2>1, TickGoing
      <3> QED BY <1>1, <1>2, <3>1 DEF TickKnows, Video!Submitted
    <2>2. CASE Video!TickEnds
      BY <2>2, TickIdle
    <2>3. CASE Video!TickGoto("save", Video!Failed(run))
      <3> DEFINE new == Video!Failed(run)
      <3>1. new \in VideoRun /\ new.seq = run.seq /\ new.token = run.token
            /\ new.state = "failed" /\ new.status = "failed"
        BY <1>2, VideoRecords
      <3> HIDE DEF new
      <3>2. tick' \in VideoTick /\ tick'.pc = "save" /\ tick'.run = new
        BY <2>3, <3>1, TickGoing DEF new
      <3> QED BY <1>1, <1>2, <3>1, <3>2 DEF TickKnows, Video!Submitted
    <2>4. CASE Video!TickGoto("claim", Video!Running(run))
      <3> DEFINE new == Video!Running(run)
      <3>1. new \in VideoRun /\ new.seq = run.seq /\ new.token = run.token /\ new.state = "running"
        BY <1>2, VideoRecords
      <3> HIDE DEF new
      <3>2. tick' \in VideoTick /\ tick'.pc = "claim" /\ tick'.run = new
        BY <2>4, <3>1, TickGoing DEF new
      <3> QED BY <1>1, <1>2, <3>1, <3>2 DEF TickKnows, Video!Submitted
    <2>5. CASE run.state \notin Video!Terminal /\ run.status = "running"
               /\ Video!TickGoto("poll", Video!Running(run))
      <3> DEFINE new == Video!Running(run)
      <3>1. new \in VideoRun /\ new.seq = run.seq /\ new.token = run.token
            /\ new.state = "running" /\ new.status = "running"
        BY <1>2, <2>5, VideoRecords
      <3> HIDE DEF new
      <3>2. tick' \in VideoTick /\ tick'.pc = "poll" /\ tick'.run = new
        BY <2>5, <3>1, TickGoing DEF new
      <3>3. runs[run.seq].state = "running"
        BY <1>2, <2>5 DEF VideoInv, StatusTells, Video!Terminal, VideoRun, VideoStates
      <3> QED BY <1>1, <1>2, <3>1, <3>2, <3>3 DEF TickKnows, Video!Submitted
    <2> QED BY <1>4, <2>1, <2>2, <2>3, <2>4, <2>5
  <1> QED BY <1>1, <1>5, VideoQuiet DEF VideoInv, VideoTyped, RoundKnows, NodeKnows, StatusTells

\* A run is stored by the one who may: the tick over its own, or a submission at the end.
VideoMayStore(run) ==
    /\ run \in VideoRun /\ run.seq \in Video!Runs /\ run.state # "none"
    /\ run.status = "queued" => posts[run.seq] = 0
    /\ run.status = "running" => run.state # "queued"
    /\ \/ /\ run.seq \in Video!Submitted /\ run.token = runs[run.seq].token
          /\ \/ run.state = "running" => runs[run.seq].state = "running"
             \/ ~Video!Newer(run)
       \/ /\ run.state # "running" /\ \A r \in Video!Submitted : r < run.seq
          /\ \A r \in Video!Submitted : runs[r].token = run.token => runs[r].state # "running"

LEMMA VideoStoring ==
  ASSUME VideoInv, NEW run, VideoMayStore(run), runs' = Video!Stored(run), UNCHANGED posts,
         node' \in VideoNode, NodeKnows', TickKnows', tick' \in VideoTick,
         client' \in [Clients -> [pc : {"idle", "enter", "claim"}, run : VideoRun]],
         round' = round,
         \A c \in Clients : client'[c].pc = "enter" =>
             client'[c].run.status = "queued" /\ client'[c].run.state = "queued"
  PROVE  VideoInv'
  <1>1. /\ run \in VideoRun /\ run.seq \in Video!Runs /\ run.state # "none"
        /\ Video!Submitted \subseteq Video!Runs /\ Video!Runs \subseteq Int
        /\ run.status = "queued" => posts[run.seq] = 0
        /\ run.status = "running" => run.state # "queued"
    BY DEF VideoMayStore, Video!Submitted, Video!Runs
  <1>2. /\ runs' \in [Video!Runs -> VideoRun] /\ runs'[run.seq] = run
        /\ \A r \in Video!Runs \ {run.seq} : runs'[r] = runs[r]
        /\ Video!Submitted' = Video!Submitted \cup {run.seq}
        /\ \A r \in Video!Submitted' : runs'[r].seq = r
    BY <1>1, VideoStored DEF VideoInv
  <1>3. VideoTyped'
    BY <1>2 DEF VideoInv, VideoTyped
  <1>4. SentOnce'
    BY <1>1, <1>2 DEF VideoInv, SentOnce
  <1>5. EarlierAtRest'
    <2> SUFFICES ASSUME NEW r \in Video!Submitted', NEW s \in Video!Submitted', r < s,
                        runs'[r].token = runs'[s].token
                 PROVE  runs'[r].state # "running"
      BY DEF EarlierAtRest
    <2>1. CASE run.seq \in Video!Submitted /\ run.token = runs[run.seq].token
      <3>1. r \in Video!Submitted /\ s \in Video!Submitted /\ r \in Int /\ s \in Int
        BY <1>1, <1>2, <2>1
      <3>2. runs[r].token = runs[s].token
        BY <1>1, <1>2, <2>1, <3>1
      <3>3. runs[r].state # "running"
        BY <3>1, <3>2 DEF VideoInv, EarlierAtRest
      <3>4. CASE r # run.seq
        BY <1>1, <1>2, <3>1, <3>3, <3>4
      <3>5. CASE r = run.seq /\ run.state = "running"
        <4>1. ~Video!Newer(run)
          BY <1>1, <3>3, <3>5 DEF VideoMayStore
        <4>2. runs[s].token = run.token
          BY <2>1, <3>2, <3>5
        <4> QED BY <3>1, <3>5, <4>1, <4>2 DEF Video!Newer, Video!SameTarget
      <3> QED BY <1>2, <3>4, <3>5
    <2>2. CASE /\ run.state # "running" /\ \A q \in Video!Submitted : q < run.seq
               /\ \A q \in Video!Submitted : runs[q].token = run.token => runs[q].state # "running"
      <3>1. CASE r = run.seq
        BY <1>2, <2>2, <3>1
      <3>2. CASE r # run.seq
        <4>1. r \in Video!Submitted /\ runs'[r] = runs[r]
          BY <1>1, <1>2, <3>2
        <4>2. CASE s = run.seq
          BY <1>2, <2>2, <4>1, <4>2
        <4>3. CASE s # run.seq
          <5>1. s \in Video!Submitted /\ runs'[s] = runs[s]
            BY <1>1, <1>2, <4>3
          <5> QED BY <4>1, <5>1 DEF VideoInv, EarlierAtRest
        <4> QED BY <4>2, <4>3
      <3> QED BY <3>1, <3>2
    <2> QED BY <2>1, <2>2 DEF VideoMayStore
  <1>6. RoundKnows'
    BY <1>2 DEF VideoInv, RoundKnows
  <1>7. StatusTells'
    BY <1>1, <1>2 DEF VideoInv, StatusTells, Video!Submitted
  <1> QED BY <1>3, <1>4, <1>5, <1>6, <1>7 DEF VideoInv

LEMMA Entering == ASSUME VideoInv, NEW c \in Clients, Video!Enter(c) PROVE VideoInv'
  <1>1. UNCHANGED <<posts, node, tick, round>> /\ client[c].pc = "enter"
    BY DEF Video!Enter, Video!KeepProvider, Video!ClientAt
  <1>2. node' \in VideoNode /\ NodeKnows' /\ tick' \in VideoTick
    BY <1>1 DEF VideoInv, VideoTyped, NodeKnows
  <1>3. client[c].run \in VideoRun
    BY DEF VideoInv, VideoTyped
  <1>4. client[c].run.status = "queued" /\ client[c].run.state = "queued"
    BY <1>1 DEF VideoInv, StatusTells
  <1>5. ASSUME NEW pc \in {"idle", "claim"}, NEW run \in VideoRun, Video!ClientGoto(c, pc, run)
        PROVE  /\ client' \in [Clients -> [pc : {"idle", "enter", "claim"}, run : VideoRun]]
               /\ \A d \in Clients : client'[d].pc = "enter" =>
                      client'[d].run.status = "queued" /\ client'[d].run.state = "queued"
    BY <1>5, ClientGoing DEF VideoInv, StatusTells
  <1>6. ASSUME UNCHANGED runs, Video!ClientGoto(c, "idle", Video!NoRun)
        PROVE  VideoInv'
    BY <1>1, <1>2, <1>5, <1>6, IdleRounds, TickStays, VideoQuiet
       DEF VideoInv, VideoTyped, RoundKnows
  <1>7. ASSUME NEW n \in Video!Runs, Video!NextSequence(n), NEW run,
               run = [client[c].run EXCEPT !.seq = n],
               ~(\E r \in Video!Submitted : Video!SameTarget(runs[r], client[c].run)
                                           /\ runs[r].state = "running"),
               runs' = Video!Stored(run),
               \/ Video!ClientGoto(c, "claim", run)
               \/ Video!ClientGoto(c, "idle", Video!NoRun)
        PROVE  VideoInv'
    <2>1. /\ run \in VideoRun /\ run.seq = n /\ run.status = "queued" /\ run.state = "queued"
          /\ run.token = client[c].run.token
      BY <1>3, <1>4, <1>7 DEF VideoRun, Video!Runs
    <2>2. n \notin Video!Submitted /\ \A r \in Video!Submitted : r < n
      BY <1>7 DEF Video!NextSequence, Video!Runs
    <2>3. posts[n] = 0
      BY <2>2 DEF VideoInv, SentOnce, Video!Submitted
    <2>4. VideoMayStore(run)
      BY <1>7, <2>1, <2>2, <2>3 DEF VideoMayStore, Video!SameTarget
    <2>5. /\ \A r \in Video!Runs \ {n} : runs'[r] = runs[r]
          /\ Video!Submitted' = Video!Submitted \cup {n}
      BY <1>7, <2>1, VideoStored DEF VideoInv
    <2>6. TickKnows'
      <3>1. tick.pc # "idle" => tick.run.seq \in Video!Runs \ {n}
        BY <2>2 DEF VideoInv, TickKnows, Video!Submitted
      <3> QED BY <1>1, <2>5, <3>1 DEF VideoInv, TickKnows
    <2>7. /\ client' \in [Clients -> [pc : {"idle", "enter", "claim"}, run : VideoRun]]
          /\ \A d \in Clients : client'[d].pc = "enter" =>
                 client'[d].run.status = "queued" /\ client'[d].run.state = "queued"
      BY <1>5, <1>7, <2>1, IdleRounds
    <2> QED BY <1>1, <1>2, <1>7, <2>4, <2>6, <2>7, VideoStoring
  <1> QED BY <1>6, <1>7 DEF Video!Enter

\* A step of the tick that keeps the runs and goes on with another state of its own.
LEMMA TickGoesOn ==
  ASSUME VideoInv, UNCHANGED <<runs, client, round>>,
         \/ UNCHANGED posts
         \/ posts' \in [Video!Runs -> Nat] /\ SentOnce',
         node' \in VideoNode, NodeKnows', TickKnows', tick' \in VideoTick
  PROVE  VideoInv'
  BY VideoQuiet DEF VideoInv, VideoTyped, RoundKnows, StatusTells

LEMMA Polling == ASSUME VideoInv, Video!Poll PROVE VideoInv'
  <1>1. /\ UNCHANGED <<runs, posts, node, client, round>> /\ tick.pc = "poll"
    BY DEF Video!Poll, Video!KeepProvider, Video!TickAt
  <1> DEFINE run == tick.run
  <1>2. /\ run \in VideoRun /\ run.seq \in Video!Submitted /\ run.token = runs[run.seq].token
        /\ run.state # "none" /\ run.state # "queued"
        /\ run.status = "queued" => posts[run.seq] = 0
        /\ run.state = "running" => runs[run.seq].state = "running"
    BY <1>1 DEF VideoInv, VideoTyped, VideoTick, TickKnows
  <1>3. PICK new \in {run, Video!Finished(run), Video!Failed(run)} : Video!TickGoto("save", new)
    BY DEF Video!Poll
  <1>4. /\ new \in VideoRun /\ new.seq = run.seq /\ new.token = run.token
        /\ \/ new = run
           \/ new.state \in {"succeeded", "failed"} /\ new.status \in {"succeeded", "failed"}
    BY <1>2, <1>3, VideoRecords
  <1> HIDE DEF run
  <1>5. tick' \in VideoTick /\ tick'.pc = "save" /\ tick'.run = new
    BY <1>3, <1>4, TickGoing
  <1>6. TickKnows'
    BY <1>1, <1>2, <1>4, <1>5 DEF TickKnows, Video!Submitted
  <1> QED BY <1>1, <1>5, <1>6, TickGoesOn DEF VideoInv, VideoTyped, NodeKnows

LEMMA Claiming == ASSUME VideoInv, Video!Claim \/ Video!Mirror PROVE VideoInv'
  <1>1. UNCHANGED <<runs, posts, client, round>> /\ tick.pc \in {"claim", "mirror"}
    BY DEF Video!Claim, Video!Mirror, Video!KeepProvider, Video!TickAt
  <1>2. tick.run \in VideoRun /\ node \in VideoNode /\ NodeKnows
    BY DEF VideoInv, VideoTyped, VideoTick
  <1>3. node' \in {node, Video!ClaimedNode(tick.run), Video!ReconciledNode(tick.run)}
    BY DEF Video!Claim, Video!Mirror
  <1>4. node' \in VideoNode /\ NodeKnows'
    BY <1>2, <1>3, VideoNodes DEF NodeKnows
  <1>5. tick' \in VideoTick /\ TickKnows'
    <2>1. CASE Video!TickEnds
      BY <2>1, TickIdle
    <2>2. CASE tick.pc = "claim" /\ Video!TickGoto("check", tick.run)
      <3>1. tick' \in VideoTick /\ tick'.pc = "check" /\ tick'.run = tick.run
        BY <1>2, <2>2, TickGoing
      <3> QED BY <1>1, <2>2, <3>1 DEF VideoInv, TickKnows, Video!Submitted
    <2> QED BY <2>1, <2>2 DEF Video!Claim, Video!Mirror, Video!TickAt
  <1> QED BY <1>1, <1>4, <1>5, TickGoesOn

LEMMA Checking == ASSUME VideoInv, Video!Check PROVE VideoInv'
  <1>1. UNCHANGED <<posts, node, client, round>> /\ tick.pc = "check"
    BY DEF Video!Check, Video!KeepProvider, Video!TickAt
  <1> DEFINE run == tick.run
             granted == [run EXCEPT !.status = "running", !.pend = TRUE]
             gone == [run EXCEPT !.state = "cancelled", !.status = "cancelled"]
             waits == /\ runs[run.seq].status = "queued"
                      /\ runs[run.seq].state \in {"queued", "running"}
             superseded == node.token # run.token \/ Video!Newer(run)
  <1>2. /\ run \in VideoRun /\ run.seq \in Video!Submitted /\ run.token = runs[run.seq].token
        /\ run.state = "running"
    BY <1>1 DEF VideoInv, VideoTyped, VideoTick, TickKnows
  <1>3. /\ granted \in VideoRun /\ granted.seq = run.seq /\ granted.token = run.token
        /\ granted.state = "running" /\ granted.status = "running"
    BY <1>2, VideoPermissions
  <1>4. /\ gone \in VideoRun /\ gone.seq = run.seq /\ gone.token = run.token
        /\ gone.state = "cancelled" /\ gone.status = "cancelled"
    BY <1>2, VideoPermissions
  <1>5. \/ UNCHANGED runs /\ Video!TickEnds
        \/ waits /\ superseded /\ runs' = Video!Stored(gone) /\ Video!TickEnds
        \/ /\ waits /\ ~superseded /\ runs' = Video!Stored(granted)
           /\ Video!TickGoto("post", granted) \/ Video!TickEnds
    BY DEF Video!Check
  <1> HIDE DEF granted, gone
  <1>6. node' \in VideoNode /\ NodeKnows' /\ run.seq \in Video!Runs
    BY <1>1, <1>2 DEF VideoInv, VideoTyped, NodeKnows, Video!Submitted
  <1>7. CASE UNCHANGED runs /\ Video!TickEnds
    BY <1>1, <1>6, <1>7, TickIdle, TickGoesOn
  <1>8. CASE waits /\ superseded /\ runs' = Video!Stored(gone) /\ Video!TickEnds
    <2>1. VideoMayStore(gone)
      BY <1>2, <1>4, <1>6 DEF VideoMayStore
    <2> QED BY <1>1, <1>6, <1>8, <2>1, TickIdle, VideoStoring DEF VideoInv, VideoTyped, StatusTells
  <1>9. CASE /\ waits /\ ~superseded /\ runs' = Video!Stored(granted)
             /\ Video!TickGoto("post", granted) \/ Video!TickEnds
    <2>1. ~Video!Newer(granted)
      BY <1>3, <1>9 DEF Video!Newer, Video!SameTarget
    <2>2. VideoMayStore(granted)
      BY <1>2, <1>3, <1>6, <2>1 DEF VideoMayStore
    <2>3. runs'[run.seq] = granted /\ Video!Submitted' = Video!Submitted \cup {run.seq}
      BY <1>3, <1>6, <1>9, VideoStored DEF VideoInv
    <2>4. posts[run.seq] = 0
      BY <1>6, <1>9 DEF VideoInv, SentOnce
    <2>5. tick' \in VideoTick /\ TickKnows'
      <3>1. CASE Video!TickEnds
        BY <3>1, TickIdle
      <3>2. CASE Video!TickGoto("post", granted)
        <4>1. tick' \in VideoTick /\ tick'.pc = "post" /\ tick'.run = granted
          BY <1>3, <3>2, TickGoing
        <4> QED BY <1>1, <1>3, <2>3, <2>4, <4>1 DEF TickKnows
      <3> QED BY <1>9, <3>1, <3>2
    <2> QED BY <1>1, <1>6, <1>9, <2>2, <2>5, VideoStoring DEF VideoInv, VideoTyped, StatusTells
  <1> QED BY <1>5, <1>7, <1>8, <1>9

LEMMA Posting == ASSUME VideoInv, Video!Post PROVE VideoInv'
  <1>1. UNCHANGED <<runs, node, client, round>> /\ tick.pc = "post"
    BY DEF Video!Post, Video!TickAt
  <1> DEFINE run == tick.run
             known == [run EXCEPT !.pend = FALSE, !.job = TRUE]
             paid == [posts EXCEPT ![run.seq] = @ + 1]
  <1>2. /\ run \in VideoRun /\ run.seq \in Video!Submitted /\ run = runs[run.seq]
        /\ run.state # "none" /\ run.state # "queued"
        /\ run.status = "running" /\ posts[run.seq] = 0
    BY <1>1 DEF VideoInv, VideoTyped, VideoTick, TickKnows
  <1>3. /\ known \in VideoRun /\ known.seq = run.seq /\ known.token = run.token
        /\ known.state = run.state /\ known.status = run.status
    BY <1>2, VideoPermissions
  <1>4. /\ posts' \in {posts, paid}
        /\ \E new \in {run, known, Video!Finished(known), Video!Failed(known), Video!Failed(run)} :
               Video!TickGoto("save", new)
    BY DEF Video!Post, Video!KeepProvider
  <1> HIDE DEF known
  <1>5. PICK new \in {run, known, Video!Finished(known), Video!Failed(known), Video!Failed(run)} :
           Video!TickGoto("save", new)
    BY <1>4
  <1>6. /\ new \in VideoRun /\ new.seq = run.seq /\ new.token = run.token
        /\ \/ new.state = run.state /\ new.status = "running"
           \/ new.state \in {"succeeded", "failed"} /\ new.status \in {"succeeded", "failed"}
    BY <1>2, <1>3, <1>5, VideoRecords
  <1>7. tick' \in VideoTick /\ tick'.pc = "save" /\ tick'.run = new
    BY <1>5, <1>6, TickGoing
  <1>8. posts' \in [Video!Runs -> Nat] /\ SentOnce'
    <2>1. run.seq \in Video!Runs /\ posts \in [Video!Runs -> Nat]
      BY <1>2 DEF VideoInv, VideoTyped, Video!Submitted
    <2>2. /\ posts' \in [Video!Runs -> Nat] /\ posts'[run.seq] \in {0, 1}
          /\ \A r \in Video!Runs \ {run.seq} : posts'[r] = posts[r]
      BY <1>2, <1>4, <2>1
    <2> QED BY <1>1, <1>2, <2>1, <2>2 DEF VideoInv, SentOnce
  <1>9. TickKnows'
    BY <1>1, <1>2, <1>6, <1>7 DEF TickKnows, Video!Submitted
  <1> QED BY <1>1, <1>7, <1>8, <1>9, TickGoesOn DEF VideoInv, VideoTyped, NodeKnows

LEMMA Saving == ASSUME VideoInv, Video!Save PROVE VideoInv'
  <1>1. UNCHANGED <<posts, node, client, round>> /\ tick.pc = "save"
    BY DEF Video!Save, Video!KeepProvider, Video!TickAt
  <1> DEFINE run == tick.run
  <1>2. /\ run \in VideoRun /\ run.seq \in Video!Submitted /\ run.token = runs[run.seq].token
        /\ run.state # "none" /\ run.state # "queued"
        /\ run.status = "queued" => posts[run.seq] = 0
        /\ run.state = "running" => runs[run.seq].state = "running"
    BY <1>1 DEF VideoInv, VideoTyped, VideoTick, TickKnows
  <1>3. node' \in VideoNode /\ NodeKnows' /\ run.seq \in Video!Runs
    BY <1>1, <1>2 DEF VideoInv, VideoTyped, NodeKnows, Video!Submitted
  <1>4. CASE UNCHANGED runs /\ Video!TickEnds
    BY <1>1, <1>3, <1>4, TickIdle, TickGoesOn
  <1>5. CASE runs' = Video!Stored(run) /\ (Video!TickGoto("mirror", run) \/ Video!TickEnds)
    <2>1. VideoMayStore(run)
      BY <1>2, <1>3 DEF VideoMayStore
    <2>2. runs'[run.seq] = run /\ Video!Submitted' = Video!Submitted \cup {run.seq}
      BY <1>2, <1>3, <1>5, VideoStored DEF VideoInv
    <2>3. tick' \in VideoTick /\ TickKnows'
      <3>1. CASE Video!TickEnds
        BY <3>1, TickIdle
      <3>2. CASE Video!TickGoto("mirror", run)
        <4>1. tick' \in VideoTick /\ tick'.pc = "mirror" /\ tick'.run = run
          BY <1>2, <3>2, TickGoing
        <4> QED BY <1>2, <2>2, <4>1 DEF TickKnows
      <3> QED BY <1>5, <3>1, <3>2
    <2> QED BY <1>1, <1>3, <1>5, <2>1, <2>3, VideoStoring DEF VideoInv, VideoTyped, StatusTells
  <1> QED BY <1>4, <1>5 DEF Video!Save

LEMMA Cancelling == ASSUME VideoInv, NEW r \in Video!Runs, Video!Cancel(r) PROVE VideoInv'
  <1> DEFINE new == [runs[r] EXCEPT !.state = "cancelled"]
  <1>1. /\ UNCHANGED <<runs, posts, node, client, round>> /\ r \in Video!Submitted
        /\ tick' = [Video!IdleTick EXCEPT !.pc = "save", !.run = new]
    BY DEF Video!Cancel, Video!KeepProvider
  <1>2. runs[r].status = "queued" => posts[r] = 0
    BY <1>1 DEF VideoInv, VideoTyped, SentOnce, Video!Submitted
  <1>3. runs[r] \in VideoRun /\ runs[r].seq = r
    BY <1>1 DEF VideoInv, VideoTyped, Video!Submitted
  <1>4. /\ new \in VideoRun /\ new.seq = r /\ new.token = runs[r].token
        /\ new.state = "cancelled" /\ new.status = runs[r].status
    BY <1>3, VideoPermissions
  <1> HIDE DEF new
  <1>5. tick' \in VideoTick /\ tick'.pc = "save" /\ tick'.run = new
    BY <1>1, <1>4 DEF Video!IdleTick, VideoTick
  <1>6. TickKnows'
    BY <1>1, <1>2, <1>3, <1>4, <1>5 DEF TickKnows, Video!Submitted
  <1> QED BY <1>1, <1>5, <1>6, TickGoesOn DEF VideoInv, VideoTyped, NodeKnows

LEMMA Scheduling ==
  ASSUME VideoInv, Video!ResumeRead \/ Video!Resumed \/ Video!RoundEnds
  PROVE  VideoInv'
  <1>1. UNCHANGED <<runs, posts, node, client, tick>>
    BY DEF Video!ResumeRead, Video!Resumed, Video!RoundEnds, Video!KeepProvider
  <1>2. /\ round' \in VideoRound
        /\ \A r \in Video!Runs : round'.seen[r].state # "none" => r \in Video!Submitted
        /\ round'.left \subseteq Video!Submitted
    <2>1. CASE Video!ResumeRead
      BY <2>1 DEF Video!ResumeRead, Video!Submitted, VideoInv, VideoTyped, VideoRound
    <2>2. CASE Video!Resumed
      <3> DEFINE left == {r \in Video!Runs : round.seen[r].state \in {"queued", "running"}}
      <3>1. left \subseteq Video!Submitted
        BY DEF VideoInv, RoundKnows
      <3> HIDE DEF left
      <3>2. round' = [Video!IdleRound EXCEPT !.pc = "ticks", !.left = left]
        BY <2>2 DEF Video!Resumed, left
      <3>3. left \subseteq Video!Runs
        BY <3>1 DEF Video!Submitted
      <3>4. /\ round'.pc = "ticks" /\ round'.left = left /\ round'.seen = Video!IdleRound.seen
            /\ round' \in VideoRound
        BY <3>2, <3>3, IdleRounds DEF VideoRound
      <3> QED BY <3>1, <3>4, IdleRounds
    <2>3. CASE Video!RoundEnds
      BY <2>3, IdleRounds DEF Video!RoundEnds
    <2> QED BY <2>1, <2>2, <2>3
  <1> QED BY <1>1, <1>2, TickStays, VideoQuiet DEF VideoInv, VideoTyped, NodeKnows, StatusTells

LEMMA Resuming ==
  ASSUME VideoInv, NEW r \in Video!Runs, Video!Resume(r) \/ Video!StartTick(r)
  PROVE  VideoInv'
  <1>1. UNCHANGED <<runs, posts, client>>
    BY DEF Video!Resume, Video!StartTick, Video!KeepProvider
  <1>2. /\ r \in Video!Submitted
        /\ round' \in {round, Video!IdleRound, [round EXCEPT !.left = @ \ {r}]}
    BY DEF Video!Resume, Video!StartTick, VideoInv, RoundKnows
  <1>3. /\ round' \in VideoRound
        /\ \A q \in Video!Runs : round'.seen[q].state # "none" => q \in Video!Submitted
        /\ round'.left \subseteq Video!Submitted
    <2>1. CASE round' = [round EXCEPT !.left = @ \ {r}]
      <3>1. /\ round' \in VideoRound /\ round'.seen = round.seen /\ round'.left = round.left \ {r}
        BY <2>1 DEF VideoInv, VideoTyped, VideoRound
      <3> QED BY <3>1 DEF VideoInv, RoundKnows
    <2>2. CASE round' \in {round, Video!IdleRound}
      BY <2>2, IdleRounds DEF VideoInv, VideoTyped, RoundKnows
    <2> QED BY <1>2, <2>1, <2>2
  <1>4. node' \in VideoNode /\ NodeKnows'
    <2>1. round.seen[r] \in VideoRun
      BY DEF VideoInv, VideoTyped, VideoRound
    <2>2. node' \in {node, Video!ClaimedNode(round.seen[r]), Video!ReconciledNode(round.seen[r])}
      BY DEF Video!Resume, Video!StartTick
    <2> QED BY <2>1, <2>2, VideoNodes DEF VideoInv, VideoTyped, NodeKnows
  <1>5. tick' \in VideoTick /\ TickKnows'
    <2>1. CASE Video!Resume(r)
      BY <1>1, <2>1, TickStays DEF Video!Resume, VideoInv, VideoTyped
    <2>2. CASE Video!StartTick(r)
      <3>1. runs[r] \in VideoRun /\ runs[r].seq = r /\ runs[r].state # "none"
        BY <1>2 DEF VideoInv, VideoTyped, Video!Submitted
      <3>2. tick' \in VideoTick /\ tick'.pc = "look" /\ tick'.run = runs[r]
        BY <2>2, <3>1 DEF Video!StartTick, VideoTick
      <3> QED BY <1>1, <1>2, <3>1, <3>2 DEF TickKnows, Video!Submitted
    <2> QED BY <2>1, <2>2
  <1> QED BY <1>1, <1>3, <1>4, <1>5, VideoQuiet DEF VideoInv, VideoTyped, StatusTells

LEMMA Surroundings ==
  ASSUME VideoInv, Video!Redraw \/ Video!ProcessDies \/ \E r \in Video!Runs : Video!JobEnds(r)
  PROVE  VideoInv'
  <1>1. CASE Video!Redraw
    <2>1. node' \in VideoNode /\ NodeKnows'
      BY <1>1 DEF Video!Redraw, VideoInv, VideoTyped, VideoNode, VideoStates, NodeKnows
    <2>2. UNCHANGED <<runs, posts, client, tick, round>>
      BY <1>1 DEF Video!Redraw, Video!KeepProvider
    <2> QED BY <2>1, <2>2, TickStays, TickGoesOn DEF VideoInv, VideoTyped
  <1>2. CASE Video!ProcessDies
    <2>1. /\ UNCHANGED <<runs, posts, node>> /\ Video!TickEnds
          /\ round' = Video!IdleRound /\ client' = [c \in Clients |-> Video!IdleClient]
      BY <1>2 DEF Video!ProcessDies, Video!KeepProvider, Video!TickEnds
    <2>2. /\ client' \in [Clients -> [pc : {"idle", "enter", "claim"}, run : VideoRun]]
          /\ \A c \in Clients : client'[c].pc # "enter"
      BY <2>1, IdleRounds DEF Video!IdleClient
    <2> QED BY <2>1, <2>2, IdleRounds, TickIdle, VideoQuiet DEF VideoInv, VideoTyped, NodeKnows
  <1>3. CASE \E r \in Video!Runs : Video!JobEnds(r)
    <2>1. UNCHANGED <<runs, posts, node, client, tick, round>>
      BY <1>3 DEF Video!JobEnds
    <2> QED BY <2>1, TickStays, TickGoesOn DEF VideoInv, VideoTyped, NodeKnows
  <1> QED BY <1>1, <1>2, <1>3

LEMMA VideoStarts == ASSUME Video!RunInit PROVE VideoInv
  <1>1. /\ runs = [r \in Video!Runs |-> Video!NoRun] /\ posts = [r \in Video!Runs |-> 0]
        /\ node = [token |-> 1, run |-> 0, version |-> 0, state |-> "none", result |-> 0]
        /\ client = [c \in Clients |-> Video!IdleClient]
        /\ Video!IdleTick = tick /\ round = Video!IdleRound
    BY DEF Video!RunInit
  <1>2. Video!Submitted = {}
    BY <1>1, IdleRounds DEF Video!Submitted
  <1>3. /\ runs \in [Video!Runs -> VideoRun] /\ posts \in [Video!Runs -> Nat]
        /\ node \in VideoNode
    BY <1>1, IdleRounds DEF VideoNode, VideoStates
  <1>4. tick \in VideoTick /\ tick.pc = "idle"
    BY <1>1, IdleRounds DEF VideoTick, Video!IdleTick
  <1>5. /\ client \in [Clients -> [pc : {"idle", "enter", "claim"}, run : VideoRun]]
        /\ \A c \in Clients : client[c].pc = "idle"
    BY <1>1, IdleRounds DEF Video!IdleClient
  <1>6. VideoTyped
    BY <1>1, <1>2, <1>3, <1>4, <1>5, IdleRounds DEF VideoTyped
  <1>7. SentOnce /\ EarlierAtRest /\ RoundKnows /\ TickKnows /\ StatusTells
    BY <1>1, <1>2, <1>4, <1>5, IdleRounds
       DEF SentOnce, EarlierAtRest, RoundKnows, TickKnows, StatusTells
  <1>8. NodeKnows
    BY <1>1 DEF NodeKnows
  <1> QED BY <1>6, <1>7, <1>8 DEF VideoInv

LEMMA VideoSteps == ASSUME VideoInv, [Video!RunNext]_runVars PROVE VideoInv'
  <1>1. CASE UNCHANGED runVars
    BY <1>1, TickStays, TickGoesOn DEF runVars, VideoInv, VideoTyped, NodeKnows
  <1>2. CASE Video!RunNext
    BY <1>2, Submissions, Looking, Entering, Polling, Claiming, Checking, Posting, Saving,
       Cancelling, Scheduling, Resuming, Surroundings
       DEF Video!RunNext, Video!TickStep, Video!RoundStep, Video!ClientStep
  <1> QED BY <1>1, <1>2

\* What a node shows goes forward, and nothing is paid for twice.
LEMMA VideoPromises ==
  /\ VideoInv => Video!NeverPaidTwice
  /\ VideoInv /\ [Video!RunNext]_runVars => (node'.token = node.token => node'.result >= node.result)
  <1>1. ASSUME VideoInv PROVE Video!NeverPaidTwice
    <2>1. ASSUME NEW r \in Video!Runs, NEW s \in Video!Runs, r # s,
                 Video!SameTarget(runs[r], runs[s]), Video!InFlight(r), Video!InFlight(s)
          PROVE  FALSE
      <3>1. /\ r \in Int /\ s \in Int /\ r \in Video!Submitted /\ s \in Video!Submitted
            /\ runs[r].state = "running" /\ runs[s].state = "running"
            /\ runs[r].token = runs[s].token
        BY <2>1 DEF Video!InFlight, Video!Submitted, Video!Runs, Video!SameTarget
      <3>2. r < s \/ s < r
        BY <2>1, <3>1
      <3> QED BY <1>1, <3>1, <3>2 DEF VideoInv, EarlierAtRest
    <2> QED BY <1>1, <2>1 DEF Video!NeverPaidTwice, VideoInv, SentOnce
  <1>2. ASSUME VideoInv, [Video!RunNext]_runVars, node'.token = node.token
        PROVE  node'.result >= node.result
    <2>1. node \in VideoNode /\ NodeKnows
      BY <1>2 DEF VideoInv, VideoTyped
    <2>2. CASE Video!Redraw
      BY <1>2, <2>1, <2>2 DEF Video!Redraw, VideoNode
    <2>3. ASSUME NEW run \in VideoRun,
                 node' \in {node, Video!ClaimedNode(run), Video!ReconciledNode(run)}
          PROVE  node'.result >= node.result
      BY <2>1, <2>3, VideoNodes
    <2>4. CASE UNCHANGED node
      BY <2>1, <2>4 DEF VideoNode
    <2>5. CASE \E c \in Clients : Video!ClaimDraft(c)
      BY <1>2, <2>3, <2>5 DEF Video!ClaimDraft, VideoInv, VideoTyped
    <2>6. CASE Video!Claim \/ Video!Mirror
      BY <1>2, <2>3, <2>6 DEF Video!Claim, Video!Mirror, VideoInv, VideoTyped, VideoTick
    <2>7. CASE \E r \in Video!Runs : Video!Resume(r)
      <3>1. PICK r \in Video!Runs : Video!Resume(r)
        BY <2>7
      <3>2. round.seen[r] \in VideoRun
        BY <1>2 DEF VideoInv, VideoTyped, VideoRound
      <3> QED BY <2>3, <3>1, <3>2 DEF Video!Resume
    <2>8. ASSUME NEW c \in Clients, Video!Snapshot(c) \/ Video!Enter(c) PROVE UNCHANGED node
      BY <2>8 DEF Video!Snapshot, Video!Enter
    <2>9. ASSUME Video!Look \/ Video!Poll \/ Video!Check \/ Video!Post \/ Video!Save
          PROVE  UNCHANGED node
      BY <2>9 DEF Video!Look, Video!Poll, Video!Check, Video!Post, Video!Save
    <2>10. ASSUME NEW r \in Video!Runs,
                  Video!StartTick(r) \/ Video!Cancel(r) \/ Video!JobEnds(r)
           PROVE  UNCHANGED node
      BY <2>10 DEF Video!StartTick, Video!Cancel, Video!JobEnds
    <2>11. ASSUME Video!ResumeRead \/ Video!Resumed \/ Video!RoundEnds \/ Video!ProcessDies
           PROVE  UNCHANGED node
      BY <2>11 DEF Video!ResumeRead, Video!Resumed, Video!RoundEnds, Video!ProcessDies
    <2>12. CASE Video!RunNext
      BY <2>12, <2>2, <2>4, <2>5, <2>6, <2>7, <2>8, <2>9, <2>10, <2>11
         DEF Video!RunNext, Video!TickStep, Video!RoundStep, Video!ClientStep
    <2> QED BY <1>2, <2>4, <2>12 DEF runVars
  <1> QED BY <1>1, <1>2

LEMMA VideosHold == PanelSpec => [](subject = "video" => VideoInv)
  <1>1. PanelInit => (subject = "video" => VideoInv)
    BY VideoStarts DEF PanelInit
  <1>2. (subject = "video" => VideoInv) /\ [PanelNext]_AllVars => (subject = "video" => VideoInv)'
    <2> SUFFICES ASSUME subject = "video" => VideoInv, [PanelNext]_AllVars, subject' = "video"
                 PROVE  VideoInv'
      OBVIOUS
    <2>1. subject = "video" /\ [Video!RunNext]_runVars
      BY DEF PanelNext, AllVars, VideoMoves, PanelMoves, LimitMoves, HttpsMoves, ShopMoves,
             ChatMoves, DocumentMoves, RuleMoves, LandingMoves
    <2> QED BY <2>1, VideoSteps
  <1> QED BY <1>1, <1>2, PTL DEF PanelSpec

\* Of every instance: a result that a node of a workflow shows is never replaced by that of
\* an earlier submission (video_service.py:_reconcile), whatever the scheduler had read.
THEOREM ResultsGoForward == PanelSpec => ResultsNeverGoBack
  <1>1. (subject = "video" => VideoInv) /\ [PanelNext]_AllVars
           => [node'.token = node.token => node'.result >= node.result]_Video!runVars
    <2> SUFFICES ASSUME subject = "video" => VideoInv, [PanelNext]_AllVars, runVars' # runVars
                 PROVE  node'.token = node.token => node'.result >= node.result
      BY DEF runVars, Video!runVars
    <2>1. subject = "video" /\ Video!RunNext
      BY DEF PanelNext, AllVars, VideoMoves, PanelMoves, LimitMoves, HttpsMoves, ShopMoves,
             ChatMoves, DocumentMoves, RuleMoves, LandingMoves
    <2> QED BY <2>1, VideoPromises
  <1> QED BY <1>1, VideosHold, PTL DEF PanelSpec, ResultsNeverGoBack, Video!ResultsNeverGoBack

-----------------------------------------------------------------------------
(* Conversations, of several turns (Chat) and beside tool calls (Tool): what *)
(* the steps of either may do to what was carried out.                       *)

ToolCall == [status : {"none", "proposed", "running", "completed", "error", "uncertain"},
             old : BOOLEAN]
Askable(p) == call[p].status \in {"none", "proposed"}

CarriedOut(T) ==
    /\ count \in [turn : [T -> Nat], branch : [Forks -> Nat], call : [Calls -> Nat]]
    /\ call \in [Calls -> ToolCall]
    /\ \A r \in T : count.turn[r] <= 1 /\ (r \notin turned => count.turn[r] = 0)
    /\ \A f \in Forks : count.branch[f] <= 1 /\ (f \notin DOMAIN branches => count.branch[f] = 0)
    /\ \A p \in Calls : count.call[p] <= 1 /\ (chat.there /\ Askable(p) => count.call[p] = 0)

CountKeeps == UNCHANGED <<turned, branches, count>>
CallsKeep ==
    /\ call' \in [Calls -> ToolCall]
    /\ \A p \in Calls : chat'.there /\ Askable(p)' => Askable(p)
CarryStep(T) ==
    /\ chat'.there => chat.there
    /\ \/ CountKeeps /\ CallsKeep
       \/ /\ CallsKeep /\ UNCHANGED branches
          /\ \E r \in T \ turned : turned' = turned \cup {r} /\ count' = [count EXCEPT !.turn[r] = @ + 1]
       \/ /\ CallsKeep /\ UNCHANGED turned
          /\ \E f \in Forks \ DOMAIN branches : /\ DOMAIN branches' = DOMAIN branches \cup {f}
                                                /\ count' = [count EXCEPT !.branch[f] = @ + 1]
       \/ /\ chat.there /\ UNCHANGED <<turned, branches>>
          /\ \E p \in Calls : /\ Askable(p) /\ count' = [count EXCEPT !.call[p] = @ + 1]
                              /\ call' = [call EXCEPT ![p] = [status |-> "running", old |-> FALSE]]
       \/ /\ UNCHANGED <<turned, branches>>
          /\ \E p \in Calls : /\ count' = [count EXCEPT !.call[p] = 0]
                              /\ call' = [call EXCEPT ![p] = [status |-> "none", old |-> FALSE]]

LEMMA Carrying == ASSUME NEW T, CarriedOut(T), CarryStep(T) PROVE CarriedOut(T)'
  <1> USE DEF CarriedOut
  <1>0. chat'.there => chat.there
    BY DEF CarryStep
  <1>1. CASE CountKeeps /\ CallsKeep
    BY <1>0, <1>1 DEF CountKeeps, CallsKeep
  <1>2. CASE /\ CallsKeep /\ UNCHANGED branches
             /\ \E r \in T \ turned : turned' = turned \cup {r} /\ count' = [count EXCEPT !.turn[r] = @ + 1]
    <2>1. PICK r \in T \ turned : turned' = turned \cup {r} /\ count' = [count EXCEPT !.turn[r] = @ + 1]
      BY <1>2
    <2>2. /\ count' \in [turn : [T -> Nat], branch : [Forks -> Nat], call : [Calls -> Nat]]
          /\ count'.turn = [count.turn EXCEPT ![r] = @ + 1]
          /\ count'.branch = count.branch /\ count'.call = count.call
      BY <2>1
    <2>3. \A q \in T : count'.turn[q] <= 1 /\ (q \notin turned' => count'.turn[q] = 0)
      BY <2>1, <2>2
    <2>4. \A p \in Calls : count'.call[p] <= 1 /\ (chat'.there /\ Askable(p)' => count'.call[p] = 0)
      BY <1>0, <1>2, <2>2 DEF CallsKeep
    <2> QED BY <1>2, <2>2, <2>3, <2>4 DEF CallsKeep
  <1>3. CASE /\ CallsKeep /\ UNCHANGED turned
             /\ \E f \in Forks \ DOMAIN branches : /\ DOMAIN branches' = DOMAIN branches \cup {f}
                                                   /\ count' = [count EXCEPT !.branch[f] = @ + 1]
    <2>1. PICK f \in Forks \ DOMAIN branches : /\ DOMAIN branches' = DOMAIN branches \cup {f}
                                              /\ count' = [count EXCEPT !.branch[f] = @ + 1]
      BY <1>3
    <2>2. /\ count' \in [turn : [T -> Nat], branch : [Forks -> Nat], call : [Calls -> Nat]]
          /\ count'.branch = [count.branch EXCEPT ![f] = @ + 1]
          /\ count'.turn = count.turn /\ count'.call = count.call
      BY <2>1
    <2>3. \A q \in Forks : count'.branch[q] <= 1 /\ (q \notin DOMAIN branches' => count'.branch[q] = 0)
      BY <2>1, <2>2
    <2>4. \A p \in Calls : count'.call[p] <= 1 /\ (chat'.there /\ Askable(p)' => count'.call[p] = 0)
      BY <1>0, <1>3, <2>2 DEF CallsKeep
    <2> QED BY <1>3, <2>2, <2>3, <2>4 DEF CallsKeep
  <1>4. ASSUME UNCHANGED <<turned, branches>>, NEW p \in Calls, NEW n \in {0, count.call[p] + 1},
               NEW state \in ToolCall, n # 0 => chat.there /\ Askable(p),
               state.status = "running" \/ n = 0,
               count' = [count EXCEPT !.call[p] = n], call' = [call EXCEPT ![p] = state]
        PROVE  CarriedOut(T)'
    <2>1. /\ count' \in [turn : [T -> Nat], branch : [Forks -> Nat], call : [Calls -> Nat]]
          /\ count'.call = [count.call EXCEPT ![p] = n]
          /\ count'.turn = count.turn /\ count'.branch = count.branch
      BY <1>4
    <2>2. call' \in [Calls -> ToolCall] /\ call'[p] = state
          /\ \A q \in Calls \ {p} : call'[q] = call[q]
      BY <1>4
    <2> QED BY <1>4, <2>1, <2>2 DEF CarryStep, Askable
  <1>5. [status |-> "running", old |-> FALSE] \in ToolCall
        /\ [status |-> "none", old |-> FALSE] \in ToolCall
    BY DEF ToolCall
  <1>6. CASE /\ chat.there /\ UNCHANGED <<turned, branches>>
             /\ \E p \in Calls : /\ Askable(p) /\ count' = [count EXCEPT !.call[p] = @ + 1]
                                 /\ call' = [call EXCEPT ![p] = [status |-> "running", old |-> FALSE]]
    <2>1. PICK p \in Calls : /\ Askable(p) /\ count' = [count EXCEPT !.call[p] = @ + 1]
                             /\ call' = [call EXCEPT ![p] = [status |-> "running", old |-> FALSE]]
      BY <1>6
    <2> QED BY <1>4, <1>5, <1>6, <2>1
  <1>7. CASE /\ UNCHANGED <<turned, branches>>
             /\ \E p \in Calls : /\ count' = [count EXCEPT !.call[p] = 0]
                                 /\ call' = [call EXCEPT ![p] = [status |-> "none", old |-> FALSE]]
    <2>1. PICK p \in Calls : /\ count' = [count EXCEPT !.call[p] = 0]
                             /\ call' = [call EXCEPT ![p] = [status |-> "none", old |-> FALSE]]
      BY <1>7
    <2> QED BY <1>4, <1>5, <1>7, <2>1
  <1> QED BY <1>1, <1>2, <1>3, <1>6, <1>7 DEF CarryStep

\* The conversation: its last answer is being written exactly while its turn holds it.
TurnPcs == {"searching", "asked", "context", "streaming", "closing"}
ToldAnswer(T) == [by : T, text : Nat, status : Chat!Ended \cup {"streaming"}]
Quotation(T) == [at : Nat, answer : ToldAnswer(T)]
Conversation(T) ==
    [there : BOOLEAN, active : T \cup {Nobody}, overdue : BOOLEAN, answers : Seq(ToldAnswer(T))]
CallerRecord(T) ==
    [pc : TurnPcs \cup {"idle", "quoting"}, turn : T \cup {Nobody}, quote : Quotation(T) \cup {Nobody}]
Quoted(C) == cited \cup {caller[c].quote : c \in {d \in C : caller[d].pc = "quoting"}}
Closed(item) == \A n \in 1 .. Len(item) : item[n].status # "streaming"
Tells(q) == /\ q.at \in 1 .. Len(chat.answers) /\ chat.answers[q.at] = q.answer
            /\ q.answer.status # "streaming"

TurnHolds(T, C) ==
    /\ chat \in Conversation(T)
    /\ caller \in [C -> CallerRecord(T)]
    /\ \A c \in C : caller[c].pc \in TurnPcs => caller[c].turn \in T
    /\ chat.overdue => chat.active # Nobody
    /\ \A n \in 1 .. Len(chat.answers) : chat.answers[n].status = "streaming" =>
          n = Len(chat.answers) /\ chat.active = chat.answers[n].by
    /\ chat.active # Nobody =>
          /\ chat.answers # <<>> /\ chat.answers[Len(chat.answers)].by = chat.active
          /\ chat.answers[Len(chat.answers)].status = "streaming"
    /\ \A f \in DOMAIN branches : Closed(branches[f])
    /\ chat.there => \A q \in Quoted(C) : Tells(q)

\* What a step may do to the conversation: nothing, end the answer, write on, begin
\* another, or delete it; and to those who quote and copy it.
AnswersKeep ==
    /\ chat'.there = chat.there /\ chat'.active = chat.active /\ chat'.answers = chat.answers
    /\ chat'.overdue => chat.active # Nobody
AnswerEnds ==
    /\ chat.active # Nobody /\ chat'.active = Nobody /\ chat'.there = chat.there /\ ~chat'.overdue
    /\ \E status \in Chat!Ended :
          chat'.answers = [chat.answers EXCEPT ![Len(chat.answers)].status = status]
AnswerGrows ==
    /\ chat.active # Nobody /\ chat'.active = chat.active /\ chat'.there = chat.there /\ ~chat'.overdue
    /\ \E text \in Nat :
          chat'.answers = [chat.answers EXCEPT ![Len(chat.answers)].text = text]
AnswerBegins(T) ==
    /\ chat.active = Nobody /\ chat'.there = chat.there /\ ~chat'.overdue
    /\ \E r \in T : /\ chat'.active = r
                    /\ chat'.answers = Append(chat.answers, [by |-> r, text |-> 0, status |-> "streaming"])
AnswersGo ==
    /\ chat.active = Nobody /\ chat'.active = Nobody /\ ~chat'.overdue
    /\ ~chat'.there /\ chat'.answers = <<>>
TurnStep(T, C) ==
    /\ chat'.there \in BOOLEAN /\ chat'.overdue \in BOOLEAN
    /\ chat' = [there |-> chat'.there, active |-> chat'.active, overdue |-> chat'.overdue,
                answers |-> chat'.answers]
    /\ AnswersKeep \/ AnswerEnds \/ AnswerGrows \/ AnswerBegins(T) \/ AnswersGo
    /\ caller' \in [C -> CallerRecord(T)]
    /\ \A c \in C : caller'[c].pc \in TurnPcs => caller'[c].turn \in T
    /\ \A f \in DOMAIN branches' :
          \/ f \in DOMAIN branches /\ branches'[f] = branches[f]
          \/ /\ chat.active = Nobody
             /\ \E n \in 0 .. Len(chat.answers) : branches'[f] = SubSeq(chat.answers, 1, n)
    /\ chat.there => \A q \in Quoted(C)' : q \in Quoted(C) \/ (chat'.there => Tells(q)')

LEMMA Turning ==
  ASSUME NEW T, NEW C, Nobody \notin T, TurnHolds(T, C), TurnStep(T, C), chat'.there => chat.there
  PROVE  TurnHolds(T, C)'
  <1> DEFINE old == chat.answers
             new == chat'.answers
             k == Len(old)
  <1>1. /\ old \in Seq(ToldAnswer(T)) /\ k \in Nat /\ chat.active \in T \cup {Nobody}
        /\ \A n \in 1 .. k : old[n] \in ToldAnswer(T)
    BY LenProperties, ElementOfSeq DEF TurnHolds, Conversation
  <1>2. /\ \A n \in 1 .. k : old[n].status = "streaming" => n = k /\ chat.active = old[n].by
        /\ chat.active # Nobody => k \in 1 .. k /\ old[k].by = chat.active /\ old[k].status = "streaming"
        /\ chat.active = Nobody => \A n \in 1 .. k : old[n].status # "streaming"
    BY <1>1, EmptySeq DEF TurnHolds, ToldAnswer
  <1> DEFINE holds ==
               /\ chat'.active \in T \cup {Nobody} /\ new \in Seq(ToldAnswer(T))
               /\ chat'.overdue => chat'.active # Nobody
               /\ \A n \in 1 .. Len(new) : new[n].status = "streaming" =>
                     n = Len(new) /\ chat'.active = new[n].by
               /\ chat'.active # Nobody => /\ new # <<>> /\ new[Len(new)].by = chat'.active
                                           /\ new[Len(new)].status = "streaming"
               /\ chat'.there => \A n \in 1 .. k : /\ n \in 1 .. Len(new)
                                                   /\ old[n].status # "streaming" => new[n] = old[n]
  <1>3. holds
    <2>1. CASE AnswersKeep
      BY <1>1, <1>2, <2>1, EmptySeq DEF AnswersKeep
    <2>2. CASE AnswersGo
      BY <2>2, EmptySeq DEF AnswersGo
    <2>3. CASE AnswerBegins(T)
      <3>1. PICK r \in T : /\ chat'.active = r
                           /\ new = Append(old, [by |-> r, text |-> 0, status |-> "streaming"])
        BY <2>3 DEF AnswerBegins
      <3> DEFINE item == [by |-> r, text |-> 0, status |-> "streaming"]
      <3>2. item \in ToldAnswer(T) /\ item.by = r /\ item.status = "streaming"
        BY DEF ToldAnswer
      <3> HIDE DEF item
      <3>3. new = Append(old, item)
        BY <3>1 DEF item
      <3>4. /\ new \in Seq(ToldAnswer(T)) /\ Len(new) = k + 1 /\ new[k + 1] = item
            /\ \A n \in 1 .. k : new[n] = old[n]
        BY <1>1, <3>2, <3>3, AppendProperties
      <3>5. \A n \in 1 .. Len(new) : n \in 1 .. k \/ n = k + 1
        BY <1>1, <3>4
      <3>6. new # <<>> /\ \A n \in 1 .. k : n \in 1 .. Len(new)
        BY <1>1, <3>4, EmptySeq
      <3> QED BY <1>2, <2>3, <3>1, <3>2, <3>4, <3>5, <3>6 DEF AnswerBegins
    <2>4. ASSUME NEW item \in ToldAnswer(T), chat.active # Nobody,
                 new = [old EXCEPT ![k] = item], chat'.there = chat.there, ~chat'.overdue,
                 item.by = chat.active,
                 \/ chat'.active = Nobody /\ item.status # "streaming"
                 \/ chat'.active = chat.active /\ item.status = "streaming"
          PROVE  holds
      <3>1. k \in 1 .. k
        BY <1>2, <2>4
      <3>2. /\ new \in Seq(ToldAnswer(T)) /\ Len(new) = k
            /\ \A n \in 1 .. k : new[n] = IF n = k THEN item ELSE old[n]
        BY <1>1, <2>4, <3>1, ExceptSeq
      <3> QED BY <1>1, <1>2, <2>4, <3>1, <3>2, EmptySeq
    <2>5. CASE AnswerEnds
      <3>1. PICK status \in Chat!Ended : new = [old EXCEPT ![k].status = status]
        BY <2>5 DEF AnswerEnds
      <3> DEFINE item == [old[k] EXCEPT !.status = status]
      <3>2. old[k] \in ToldAnswer(T) /\ chat.active # Nobody
        BY <1>1, <1>2, <2>5 DEF AnswerEnds
      <3>3. item \in ToldAnswer(T) /\ item.by = old[k].by /\ item.status # "streaming"
        BY <3>2 DEF ToldAnswer, Chat!Ended
      <3>4. new = [old EXCEPT ![k] = item]
        BY <3>1
      <3> HIDE DEF item, new, old, holds
      <3> QED BY <1>2, <2>4, <2>5, <3>2, <3>3, <3>4 DEF AnswerEnds
    <2>6. CASE AnswerGrows
      <3>1. PICK text \in Nat : new = [old EXCEPT ![k].text = text]
        BY <2>6 DEF AnswerGrows
      <3> DEFINE item == [old[k] EXCEPT !.text = text]
      <3>2. old[k] \in ToldAnswer(T) /\ chat.active # Nobody
        BY <1>1, <1>2, <2>6 DEF AnswerGrows
      <3>3. item \in ToldAnswer(T) /\ item.by = old[k].by /\ item.status = old[k].status
        BY <3>2 DEF ToldAnswer
      <3>4. new = [old EXCEPT ![k] = item]
        BY <3>1
      <3> HIDE DEF item, new, old, holds
      <3> QED BY <1>2, <2>4, <2>6, <3>2, <3>3, <3>4 DEF AnswerGrows
    <2> QED BY <2>1, <2>2, <2>3, <2>5, <2>6 DEF TurnStep
  <1>4. chat' \in Conversation(T)
    BY <1>3 DEF TurnStep, Conversation
  <1>5. ASSUME NEW f \in DOMAIN branches' PROVE Closed(branches'[f])
    <2>1. CASE f \in DOMAIN branches /\ branches'[f] = branches[f]
      BY <2>1 DEF TurnHolds, Closed
    <2>2. ASSUME chat.active = Nobody, NEW n \in 0 .. k, branches'[f] = SubSeq(old, 1, n)
          PROVE  Closed(branches'[f])
      <3>1. /\ Len(SubSeq(old, 1, n)) = n
            /\ \A i \in 1 .. n : SubSeq(old, 1, n)[i] = old[i] /\ i \in 1 .. k
        <4>1. \A i \in 1 .. n : old[i] \in ToldAnswer(T) /\ i \in 1 .. k
          BY <1>1, <2>2
        <4>2. 1 \in Int /\ n \in Int
          BY <1>1, <2>2
        <4>3. /\ Len(SubSeq(old, 1, n)) = IF 1 <= n THEN n - 1 + 1 ELSE 0
              /\ \A i \in 1 .. n - 1 + 1 : SubSeq(old, 1, n)[i] = old[1 + i - 1]
          BY <4>1, <4>2, SubSeqProperties
        <4> QED BY <4>1, <4>2, <4>3, <2>2
      <3>2. \A i \in 1 .. n : old[i].status # "streaming"
        BY <1>1, <1>2, <2>2, <3>1
      <3> QED BY <2>2, <3>1, <3>2 DEF Closed
    <2> QED BY <2>1, <2>2 DEF TurnStep
  <1>6. ASSUME chat'.there, NEW q \in Quoted(C)' PROVE Tells(q)'
    <2>1. CASE Tells(q)
      BY <1>1, <1>3, <1>6, <2>1 DEF Tells
    <2> QED BY <1>6, <2>1 DEF TurnStep, TurnHolds
  <1> QED BY <1>3, <1>4, <1>5, <1>6 DEF TurnHolds, TurnStep

\* The steps of the store, as such moves.
ChatMove(T) ==
    /\ chat'.there \in BOOLEAN /\ chat'.overdue \in BOOLEAN
    /\ chat' = [there |-> chat'.there, active |-> chat'.active, overdue |-> chat'.overdue,
                answers |-> chat'.answers]
    /\ AnswersKeep \/ AnswerEnds \/ AnswerGrows \/ AnswerBegins(T) \/ AnswersGo
CallersGo(T, C) ==
    /\ caller' \in [C -> CallerRecord(T)]
    /\ \A c \in C : /\ caller'[c].pc \in TurnPcs => caller'[c].turn \in T
                    /\ caller'[c].pc = "quoting" => caller'[c] = caller[c]

LEMMA ChatKeeping ==
  ASSUME NEW T, NEW C, TurnHolds(T, C), NEW over \in BOOLEAN, over => chat.active # Nobody,
         chat' = chat \/ chat' = [chat EXCEPT !.overdue = over]
  PROVE  ChatMove(T) /\ AnswersKeep /\ chat'.there = chat.there
  <1>1. chat \in Conversation(T) /\ (chat.overdue => chat.active # Nobody)
    BY DEF TurnHolds
  <1> QED BY <1>1 DEF ChatMove, AnswersKeep, Conversation

LEMMA ChatEnding ==
  ASSUME NEW T, NEW C, TurnHolds(T, C), NEW status \in Chat!Ended, chat.active # Nobody,
         NEW item, item = Chat!EndedAs(chat, status),
         chat' = item \/ chat' = [item EXCEPT !.overdue = FALSE]
  PROVE  ChatMove(T) /\ chat'.there = chat.there /\ chat'.answers = item.answers
         /\ Len(chat'.answers) = Len(chat.answers) /\ chat'.answers \in Seq(ToldAnswer(T))
  <1> DEFINE told == [chat.answers EXCEPT ![Len(chat.answers)].status = status]
  <1>1. chat \in Conversation(T)
    BY DEF TurnHolds
  <1>2. item = [chat EXCEPT !.active = Nobody, !.overdue = FALSE, !.answers = told]
    BY <1>1 DEF Chat!EndedAs, Conversation
  <1>3. told \in Seq(ToldAnswer(T)) /\ Len(told) = Len(chat.answers)
    <2> DEFINE k == Len(chat.answers)
               answer == [chat.answers[k] EXCEPT !.status = status]
    <2>1. chat.answers \in Seq(ToldAnswer(T)) /\ k \in 1 .. k
      BY EmptySeq DEF TurnHolds, Conversation
    <2>2. chat.answers[k] \in ToldAnswer(T)
      BY <2>1, ElementOfSeq
    <2>4. answer \in ToldAnswer(T)
      BY <2>2 DEF ToldAnswer
    <2>3. told = [chat.answers EXCEPT ![k] = answer]
      OBVIOUS
    <2> HIDE DEF k, answer
    <2> QED BY <2>1, <2>3, <2>4, ExceptSeq DEF k
  <1> HIDE DEF told
  <1>4. item = [there |-> chat.there, active |-> Nobody, overdue |-> FALSE, answers |-> told]
    BY <1>1, <1>2 DEF Conversation
  <1>5. chat' = item
    BY <1>4
  <1>6. chat.there \in BOOLEAN
    BY <1>1 DEF Conversation
  <1>7. AnswerEnds
    BY <1>4, <1>5 DEF AnswerEnds, told
  <1> QED BY <1>3, <1>4, <1>5, <1>6, <1>7 DEF ChatMove

LEMMA ChatReading ==
  ASSUME NEW T, NEW C, TurnHolds(T, C), NEW readers, Chat!Read(readers)
  PROVE  /\ ChatMove(T) /\ chat'.there = chat.there /\ chat.there
         /\ chat'.answers = Chat!Recovered.answers /\ chat'.answers \in Seq(ToldAnswer(T))
         /\ Len(chat'.answers) = Len(chat.answers)
         /\ \A n \in 1 .. Len(chat.answers) : chat'.answers[n] \in ToldAnswer(T)
  <1>0. ASSUME chat'.answers \in Seq(ToldAnswer(T)), NEW n \in 1 .. Len(chat'.answers)
        PROVE  chat'.answers[n] \in ToldAnswer(T)
    BY <1>0, ElementOfSeq
  <1>1. CASE chat.overdue
    <2>1. chat' = Chat!EndedAs(chat, "interrupted") /\ chat.active # Nobody
      BY <1>1 DEF Chat!Read, Chat!Recovered, TurnHolds
    <2>2. "interrupted" \in Chat!Ended
      BY DEF Chat!Ended
    <2> QED BY <1>0, <1>1, <2>1, <2>2, ChatEnding DEF Chat!Read, Chat!Recovered
  <1>2. CASE ~chat.overdue
    BY <1>0, <1>2, ChatKeeping DEF TurnHolds, Conversation, Chat!Read, Chat!Recovered, AnswersKeep
  <1> QED BY <1>1, <1>2

LEMMA ChatRecording ==
  ASSUME NEW T, NEW C, Nobody \notin T, TurnHolds(T, C), NEW c \in C, caller[c].pc \in TurnPcs
  PROVE  /\ Chat!Records(c, chat) => ChatMove(T) /\ chat'.there = chat.there
         /\ \A status \in Chat!Ended : Chat!Records(c, Chat!EndedAs(chat, status)) =>
               ChatMove(T) /\ chat'.there = chat.there
         /\ Chat!Lost(c) => ChatMove(T) /\ chat'.there = chat.there
         /\ \A status \in Chat!Ended : Chat!RecordsEnd(c, status) =>
               ChatMove(T) /\ chat'.there = chat.there
  <1>1. caller[c].turn \in T
    BY DEF TurnHolds
  <1>2. Chat!Records(c, chat) => ChatMove(T) /\ chat'.there = chat.there
    BY ChatKeeping DEF Chat!Records, Chat!Save
  <1>3. ASSUME NEW status \in Chat!Ended, Chat!Records(c, Chat!EndedAs(chat, status))
        PROVE  ChatMove(T) /\ chat'.there = chat.there
    <2>1. chat.active # Nobody
      BY <1>1, <1>3 DEF Chat!Records, Chat!Holds
    <2>2. chat' = [Chat!EndedAs(chat, status) EXCEPT !.overdue = FALSE]
      BY <1>3 DEF Chat!Records, Chat!Save
    <2> QED BY <2>1, <2>2, ChatEnding
  <1>4. Chat!Lost(c) => ChatMove(T) /\ chat'.there = chat.there
    BY ChatKeeping, ChatReading DEF Chat!Lost
  <1> QED BY <1>2, <1>3, <1>4 DEF Chat!RecordsEnd

LEMMA CallerMoves ==
  ASSUME NEW T, NEW C, TurnHolds(T, C), NEW c \in C,
         \/ UNCHANGED caller
         \/ Chat!Ends(c)
         \/ \E pc \in TurnPcs : caller[c].pc \in TurnPcs /\ Chat!Becomes(c, pc)
         \/ \E r \in T : caller' = [caller EXCEPT ![c] = [Chat!Idle EXCEPT !.pc = "searching", !.turn = r]]
  PROVE  CallersGo(T, C)
  <1>1. caller \in [C -> CallerRecord(T)]
        /\ \A d \in C : caller[d].pc \in TurnPcs => caller[d].turn \in T
    BY DEF TurnHolds
  <1>2. CASE UNCHANGED caller
    BY <1>1, <1>2 DEF CallersGo
  <1>3. ASSUME NEW next \in CallerRecord(T), caller' = [caller EXCEPT ![c] = next],
               next.pc \in TurnPcs => next.turn \in T, next.pc # "quoting"
        PROVE  CallersGo(T, C)
    BY <1>1, <1>3 DEF CallersGo
  <1>4. CASE Chat!Ends(c)
    <2>1. Chat!Idle \in CallerRecord(T) /\ Chat!Idle.pc \notin TurnPcs /\ Chat!Idle.pc # "quoting"
      BY DEF Chat!Idle, CallerRecord, TurnPcs
    <2> QED BY <1>3, <1>4, <2>1 DEF Chat!Ends
  <1>5. CASE \E pc \in TurnPcs : caller[c].pc \in TurnPcs /\ Chat!Becomes(c, pc)
    <2>1. PICK pc \in TurnPcs : caller[c].pc \in TurnPcs /\ Chat!Becomes(c, pc)
      BY <1>5
    <2> DEFINE next == [caller[c] EXCEPT !.pc = pc]
    <2>2. next \in CallerRecord(T) /\ next.pc = pc /\ next.turn \in T
      BY <1>1, <2>1 DEF CallerRecord
    <2>3. caller' = [caller EXCEPT ![c] = next]
      BY <1>1, <2>1 DEF Chat!Becomes
    <2> HIDE DEF next
    <2> QED BY <1>3, <2>2, <2>3 DEF TurnPcs
  <1>6. CASE \E r \in T : caller' = [caller EXCEPT ![c] = [Chat!Idle EXCEPT !.pc = "searching", !.turn = r]]
    <2>1. PICK r \in T : caller' = [caller EXCEPT ![c] = [Chat!Idle EXCEPT !.pc = "searching", !.turn = r]]
      BY <1>6
    <2> DEFINE next == [Chat!Idle EXCEPT !.pc = "searching", !.turn = r]
    <2>2. next \in CallerRecord(T) /\ next.pc = "searching" /\ next.turn = r
      BY DEF Chat!Idle, CallerRecord, TurnPcs
    <2> HIDE DEF next
    <2> QED BY <1>3, <2>1, <2>2 DEF next
  <1> QED BY <1>2, <1>4, <1>5, <1>6

\* A step of a turn that is not its beginning, and makes no copy.
ChatHolds(T, C) == CarriedOut(T) /\ TurnHolds(T, C) /\ Nobody \notin T
ChatStep(T, C) == CarryStep(T) /\ TurnStep(T, C)
ChatQuiet(T, C) ==
    /\ ChatMove(T) /\ chat'.there = chat.there /\ CallersGo(T, C)
    /\ UNCHANGED <<turned, branches, cited, count, call>>

LEMMA QuietTurns == ASSUME NEW T, NEW C, ChatHolds(T, C), ChatQuiet(T, C) PROVE ChatStep(T, C)
  <1>1. CarryStep(T)
    BY DEF ChatQuiet, ChatHolds, CarriedOut, CarryStep, CountKeeps, CallsKeep, Askable
  <1>2. Quoted(C)' \subseteq Quoted(C)
    BY DEF ChatQuiet, CallersGo, Quoted
  <1>3. TurnStep(T, C)
    BY <1>2 DEF ChatQuiet, ChatMove, CallersGo, TurnStep
  <1> QED BY <1>1, <1>3 DEF ChatStep

LEMMA TurnsRequested ==
  ASSUME NEW T, NEW C, ChatHolds(T, C), NEW c \in C,
         Chat!Look(c) \/ Chat!Search(c) \/ Chat!Edit(c) \/ \E r \in T : Chat!Post(c, r)
  PROVE  ChatStep(T, C)
  <1>1. TurnHolds(T, C)
    BY DEF ChatHolds
  <1>2. ChatMove(T) /\ chat'.there = chat.there
    BY <1>1, ChatReading, ChatKeeping DEF Chat!Look, Chat!Search, Chat!Edit, Chat!Post, Chat!Save
  <1>3. CallersGo(T, C)
    BY <1>1, CallerMoves DEF Chat!Look, Chat!Search, Chat!Edit, Chat!Post
  <1>4. UNCHANGED <<turned, branches, cited, count, call>>
    BY DEF Chat!Look, Chat!Search, Chat!Edit, Chat!Post, Chat!turnVars, Chat!toolVars
  <1> QED BY <1>2, <1>3, <1>4, QuietTurns DEF ChatQuiet

LEMMA TurnsStreamed ==
  ASSUME NEW T, NEW C, ChatHolds(T, C), NEW c \in C,
         Chat!Dispatch(c) \/ Chat!Prepare(c) \/ Chat!Fail(c) \/ Chat!Close(c)
  PROVE  ChatStep(T, C)
  <1>1. TurnHolds(T, C) /\ Nobody \notin T /\ caller[c].pc \in TurnPcs
    BY DEF ChatHolds, Chat!Dispatch, Chat!Prepare, Chat!Fail, Chat!Close, TurnPcs
  <1>2. "error" \in Chat!Ended /\ "interrupted" \in Chat!Ended
    BY DEF Chat!Ended
  <1>3. ChatMove(T) /\ chat'.there = chat.there
    BY <1>1, <1>2, ChatRecording, ChatKeeping
       DEF Chat!Dispatch, Chat!Prepare, Chat!Fail, Chat!Close, Chat!Same
  <1>4. CallersGo(T, C)
    BY <1>1, CallerMoves
       DEF Chat!Dispatch, Chat!Prepare, Chat!Fail, Chat!Close, Chat!Same, TurnPcs
  <1>5. UNCHANGED <<turned, branches, cited, count, call>>
    BY DEF Chat!Dispatch, Chat!Prepare, Chat!Fail, Chat!Close, Chat!turnVars, Chat!toolVars
  <1> QED BY <1>3, <1>4, <1>5, QuietTurns DEF ChatQuiet

LEMMA TurnsDelivered ==
  ASSUME NEW T, NEW C, ChatHolds(T, C), NEW c \in C, Chat!Deliver(c)
  PROVE  ChatStep(T, C)
  <1>1. TurnHolds(T, C) /\ Nobody \notin T /\ caller[c].pc \in TurnPcs
    BY DEF ChatHolds, Chat!Deliver, TurnPcs
  <1>2. ChatMove(T) /\ chat'.there = chat.there
    <2>1. CASE Chat!Holds(c) /\ Chat!Records(c, [chat EXCEPT !.answers[Len(chat.answers)].text = @ + 1])
      <3> DEFINE k == Len(chat.answers)
                 text == chat.answers[k].text + 1
                 told == [chat.answers EXCEPT ![k].text = text]
      <3>1. chat \in Conversation(T) /\ chat.active # Nobody /\ chat.there /\ ~chat.overdue
        BY <1>1, <2>1 DEF TurnHolds, Chat!Holds
      <3>2. chat.answers \in Seq(ToldAnswer(T)) /\ chat.answers # <<>>
        BY <1>1, <3>1 DEF TurnHolds, Conversation
      <3>3. k \in 1 .. k
        BY <3>2, EmptySeq
      <3>4. chat.answers[k] \in ToldAnswer(T)
        BY <3>2, <3>3, ElementOfSeq
      <3>5. text \in Nat
        BY <3>4 DEF ToldAnswer
      <3>6. chat' = [[chat EXCEPT !.answers = told] EXCEPT !.overdue = FALSE]
        BY <2>1, <3>1 DEF Chat!Records, Chat!Save, Conversation
      <3> HIDE DEF told
      <3>7. chat' = [there |-> chat.there, active |-> chat.active, overdue |-> FALSE, answers |-> told]
        BY <3>1, <3>6 DEF Conversation
      <3>8. AnswerGrows
        BY <3>1, <3>5, <3>7 DEF AnswerGrows, told
      <3> QED BY <3>1, <3>7, <3>8 DEF ChatMove
    <2>2. CASE \E status \in {"completed", "error"} : Chat!Records(c, Chat!EndedAs(chat, status))
      BY <1>1, <2>2, ChatRecording DEF Chat!Ended
    <2>3. CASE Chat!Lost(c)
      BY <1>1, <2>3, ChatRecording
    <2> QED BY <2>1, <2>2, <2>3 DEF Chat!Deliver
  <1>3. CallersGo(T, C)
    BY <1>1, CallerMoves DEF Chat!Deliver, TurnPcs
  <1>4. UNCHANGED <<turned, branches, cited, count, call>>
    BY DEF Chat!Deliver, Chat!turnVars, Chat!toolVars
  <1> QED BY <1>2, <1>3, <1>4, QuietTurns DEF ChatQuiet

LEMMA TurnsBegun ==
  ASSUME NEW T, NEW C, ChatHolds(T, C), NEW c \in C, Chat!Begin(c)
  PROVE  ChatStep(T, C)
  <1> DEFINE r == caller[c].turn
             item == [by |-> r, text |-> 0, status |-> "streaming"]
             told == Append(chat.answers, item)
  <1>1. TurnHolds(T, C) /\ Nobody \notin T /\ caller[c].pc \in TurnPcs /\ r \in T
    BY DEF ChatHolds, Chat!Begin, TurnPcs, TurnHolds
  <1>2. CASE ChatMove(T) /\ chat'.there = chat.there /\ Chat!Ends(c) /\ UNCHANGED Chat!turnVars
    <2>1. CallersGo(T, C)
      BY <1>1, <1>2, CallerMoves
    <2>2. UNCHANGED <<turned, branches, cited, count, call>>
      BY <1>2 DEF Chat!Begin, Chat!turnVars, Chat!toolVars
    <2> QED BY <1>2, <2>1, <2>2, QuietTurns DEF ChatQuiet
  <1>3. CASE /\ r \notin turned /\ Chat!Checked(c) /\ Chat!Becomes(c, "asked")
             /\ Chat!Save([chat EXCEPT !.active = r, !.answers = told])
             /\ turned' = turned \cup {r} /\ count' = [count EXCEPT !.turn[r] = @ + 1]
             /\ UNCHANGED <<branches, cited>>
    <2>1. chat \in Conversation(T) /\ chat.there /\ chat.active = Nobody
      BY <1>1, <1>3 DEF TurnHolds, Chat!Checked
    <2>2. /\ chat' = [[chat EXCEPT !.active = r, !.answers = told] EXCEPT !.overdue = FALSE]
          /\ turned' = turned \cup {r} /\ count' = [count EXCEPT !.turn[r] = @ + 1]
          /\ UNCHANGED <<branches, cited, call>>
      BY <1>3 DEF Chat!Begin, Chat!Save, Chat!toolVars
    <2> HIDE DEF told
    <2>3. chat' = [there |-> chat.there, active |-> r, overdue |-> FALSE, answers |-> told]
      BY <2>1, <2>2 DEF Conversation
    <2>4. AnswerBegins(T)
      BY <1>1, <2>1, <2>3 DEF AnswerBegins, told
    <2>5. CallersGo(T, C)
      BY <1>1, <1>3, CallerMoves DEF TurnPcs
    <2>6. Quoted(C)' \subseteq Quoted(C)
      BY <2>2, <2>5 DEF CallersGo, Quoted
    <2>7. TurnStep(T, C)
      BY <2>1, <2>2, <2>3, <2>4, <2>5, <2>6 DEF TurnStep, CallersGo
    <2>8. CallsKeep
      BY <2>1, <2>2 DEF CallsKeep, ChatHolds, CarriedOut, Askable
    <2>9. CarryStep(T)
      BY <1>1, <1>3, <2>1, <2>2, <2>8 DEF CarryStep
    <2> QED BY <2>7, <2>9 DEF ChatStep
  <1> QED BY <1>1, <1>2, <1>3, ChatReading, ChatKeeping DEF Chat!Begin

\* A step that may quote, and makes no copy; a step that asks for no work.
LEMMA TurnSteps ==
  ASSUME NEW T, NEW C, TurnHolds(T, C), ChatMove(T), CallersGo(T, C), UNCHANGED branches,
         \A q \in cited' : q \in Quoted(C) \/ Tells(q)'
  PROVE  TurnStep(T, C)
  <1>1. \A q \in Quoted(C)' : q \in Quoted(C) \/ Tells(q)'
    BY DEF Quoted, CallersGo
  <1> QED BY <1>1 DEF ChatMove, CallersGo, TurnStep
LEMMA NothingAsked ==
  ASSUME NEW T, NEW C, ChatHolds(T, C), chat'.there => chat.there, CountKeeps, UNCHANGED call
  PROVE  CarryStep(T)
  BY DEF ChatHolds, CarriedOut, CarryStep, CallsKeep, Askable

LEMMA TurnsStopped ==
  ASSUME NEW T, NEW C, ChatHolds(T, C),
         \/ \E r \in T : Chat!StopTurn(r)
         \/ Chat!TurnAges
         \/ caller' = [c \in C |-> Chat!Idle] /\ UNCHANGED <<chat, Chat!turnVars, call>>
  PROVE  ChatStep(T, C)
  <1>1. TurnHolds(T, C) /\ Nobody \notin T
    BY DEF ChatHolds
  <1>2. ChatMove(T) /\ chat'.there = chat.there
    <2>1. CASE \E r \in T : Chat!StopTurn(r)
      <3>1. PICK r \in T : Chat!StopTurn(r)
        BY <2>1
      <3>2. PICK status \in Chat!Ended : Chat!Save(Chat!EndedAs(chat, status))
        BY <3>1 DEF Chat!StopTurn, Chat!Ended
      <3>3. chat.active # Nobody
        BY <1>1, <3>1 DEF Chat!StopTurn
      <3> QED BY <1>1, <3>2, <3>3, ChatEnding DEF Chat!Save
    <2>2. CASE UNCHANGED chat \/ Chat!TurnAges
      BY <1>1, <2>2, ChatKeeping DEF Chat!TurnAges
    <2> QED BY <2>1, <2>2
  <1>3. CallersGo(T, C)
    <2>1. CASE caller' = [c \in C |-> Chat!Idle]
      BY <2>1 DEF CallersGo, Chat!Idle, CallerRecord, TurnPcs
    <2>2. CASE UNCHANGED caller
      BY <1>1, <2>2 DEF TurnHolds, CallersGo
    <2> QED BY <2>1, <2>2 DEF Chat!StopTurn, Chat!TurnAges
  <1>4. UNCHANGED <<turned, branches, cited, count, call>>
    BY DEF Chat!StopTurn, Chat!TurnAges, Chat!turnVars, Chat!toolVars
  <1> QED BY <1>2, <1>3, <1>4, QuietTurns DEF ChatQuiet

LEMMA ConversationDeleted ==
  ASSUME NEW T, NEW C, ChatHolds(T, C), NEW c \in C, Chat!Delete(c)
  PROVE  ChatStep(T, C)
  <1>1. /\ TurnHolds(T, C) /\ chat \in Conversation(T) /\ chat.active = Nobody /\ ~chat.overdue
        /\ UNCHANGED <<turned, branches, cited, count, caller>>
        /\ chat' = [chat EXCEPT !.there = FALSE, !.answers = <<>>]
        /\ call' = [p \in Calls |-> [status |-> "none", old |-> FALSE]]
    BY DEF ChatHolds, TurnHolds, Chat!Delete, Chat!Checked, Chat!turnVars
  <1>2. chat' = [there |-> FALSE, active |-> Nobody, overdue |-> FALSE, answers |-> <<>>]
    BY <1>1 DEF Conversation
  <1>3. ChatMove(T)
    <2>1. /\ chat'.there = FALSE /\ chat'.active = Nobody /\ chat'.overdue = FALSE
          /\ chat'.answers = <<>>
      BY <1>2
    <2> QED BY <1>1, <1>2, <2>1 DEF ChatMove, AnswersGo
  <1>4. CallersGo(T, C)
    BY <1>1 DEF TurnHolds, CallersGo
  <1>5. TurnStep(T, C)
    BY <1>1, <1>3, <1>4, TurnSteps DEF Quoted
  <1>6. CarryStep(T)
    BY <1>1, <1>2 DEF CarryStep, CountKeeps, CallsKeep, ToolCall
  <1> QED BY <1>5, <1>6 DEF ChatStep

LEMMA Branching ==
  ASSUME NEW T, NEW C, ChatHolds(T, C), NEW c \in C, NEW f \in Forks, NEW n \in Nat, Chat!Fork(c, f, n)
  PROVE  ChatStep(T, C)
  <1>1. /\ TurnHolds(T, C) /\ chat.active = Nobody /\ f \notin DOMAIN branches
        /\ UNCHANGED <<chat, turned, cited, caller, call>> /\ n <= Len(chat.answers)
        /\ branches' = [g \in DOMAIN branches \cup {f} |->
                           IF g = f THEN SubSeq(chat.answers, 1, n) ELSE branches[g]]
        /\ count' = [count EXCEPT !.branch[f] = @ + 1]
    BY DEF ChatHolds, Chat!Fork, Chat!Checked, Chat!toolVars
  <1>2. ChatMove(T)
    BY <1>1, ChatKeeping
  <1>3. CallersGo(T, C)
    BY <1>1 DEF TurnHolds, CallersGo
  <1>4. n \in 0 .. Len(chat.answers)
    BY <1>1, LenProperties DEF TurnHolds, Conversation
  <1>5. TurnStep(T, C)
    <2>1. Quoted(C)' = Quoted(C)
      BY <1>1 DEF Quoted
    <2> QED BY <1>1, <1>2, <1>3, <1>4, <2>1 DEF TurnStep, ChatMove, CallersGo
  <1>6. CarryStep(T)
    <2>1. CallsKeep
      BY <1>1 DEF CallsKeep, ChatHolds, CarriedOut, Askable
    <2>2. DOMAIN branches' = DOMAIN branches \cup {f}
      BY <1>1
    <2> QED BY <1>1, <2>1, <2>2 DEF CarryStep
  <1> QED BY <1>5, <1>6 DEF ChatStep

LEMMA EntryWritten ==
  ASSUME NEW T, NEW C, ChatHolds(T, C), NEW c \in C, Chat!WriteEntry(c)
  PROVE  ChatStep(T, C)
  <1>1. TurnHolds(T, C)
    BY DEF ChatHolds
  <1>2. /\ ChatMove(T) /\ CallersGo(T, C) /\ UNCHANGED chat
        /\ caller[c].pc = "quoting" /\ cited' = cited \cup {caller[c].quote}
        /\ UNCHANGED <<turned, branches, count, call>>
    BY <1>1, ChatKeeping, CallerMoves DEF Chat!WriteEntry, Chat!toolVars
  <1>3. TurnStep(T, C)
    BY <1>1, <1>2, TurnSteps DEF Quoted
  <1> QED BY <1>2, <1>3, NothingAsked DEF ChatStep, CountKeeps

LEMMA Quoting ==
  ASSUME NEW T, NEW C, ChatHolds(T, C), NEW n \in Nat \ {0},
         Chat!Remember(n) \/ \E c \in C : Chat!Quote(c, n)
  PROVE  ChatStep(T, C)
  <1>0. PICK quote : quote = [at |-> n, answer |-> Chat!Recovered.answers[n]]
    OBVIOUS
  <1>1. TurnHolds(T, C) /\ caller \in [C -> CallerRecord(T)]
    BY DEF ChatHolds, TurnHolds
  <1>2. UNCHANGED <<turned, branches, count, call>>
    BY DEF Chat!Remember, Chat!Quote, Chat!turnVars, Chat!toolVars
  <1>3. /\ ChatMove(T) /\ chat'.there = chat.there /\ Tells(quote)' /\ quote \in Quotation(T)
    <2>1. ChatMove(T) /\ chat'.there = chat.there /\ chat'.answers = Chat!Recovered.answers
      BY <1>1, ChatReading DEF Chat!Remember, Chat!Quote
    <2>2. n \in 1 .. Len(chat.answers) /\ Chat!Recovered.answers[n].status # "streaming"
      BY DEF Chat!Remember, Chat!Quote
    <2>3. n \in 1 .. Len(chat'.answers) /\ chat'.answers[n] \in ToldAnswer(T)
      BY <1>1, <2>2, ChatReading DEF Chat!Remember, Chat!Quote
    <2>4. quote.at = n /\ quote.answer = chat'.answers[n]
      BY <1>0, <2>1
    <2>5. quote \in Quotation(T)
      BY <1>0, <2>1, <2>3 DEF Quotation
    <2> QED BY <2>1, <2>2, <2>3, <2>4, <2>5 DEF Tells
  <1>4. CASE Chat!Remember(n)
    <2>1. CallersGo(T, C) /\ cited' = cited \cup {quote}
      BY <1>0, <1>1, <1>4 DEF Chat!Remember, TurnHolds, CallersGo
    <2>2. TurnStep(T, C)
      BY <1>1, <1>2, <1>3, <2>1, TurnSteps DEF Quoted
    <2> QED BY <1>2, <1>3, <2>2, NothingAsked DEF ChatStep, CountKeeps
  <1>5. ASSUME NEW c \in C, Chat!Quote(c, n)
        PROVE  ChatStep(T, C)
    <2> DEFINE next == [Chat!Idle EXCEPT !.pc = "quoting", !.quote = quote]
    <2>1. caller' = [caller EXCEPT ![c] = next] /\ UNCHANGED cited
      BY <1>0, <1>5 DEF Chat!Quote, Chat!turnVars
    <2>2. next \in CallerRecord(T) /\ next.pc = "quoting" /\ next.quote = quote
      BY <1>3 DEF Chat!Idle, CallerRecord
    <2> HIDE DEF next
    <2>3. /\ caller' \in [C -> CallerRecord(T)] /\ caller'[c] = next
          /\ \A d \in C \ {c} : caller'[d] = caller[d]
      BY <1>1, <2>1, <2>2
    <2>4. \A d \in C : caller'[d].pc \in TurnPcs => caller'[d].turn \in T
      BY <1>1, <2>2, <2>3 DEF TurnHolds, TurnPcs
    <2>5. \A q \in Quoted(C)' : q \in Quoted(C) \/ q = quote
      BY <2>1, <2>2, <2>3 DEF Quoted
    <2>6. TurnStep(T, C)
      BY <1>2, <1>3, <2>3, <2>4, <2>5 DEF TurnStep, ChatMove
    <2> QED BY <1>2, <1>3, <2>6, NothingAsked DEF ChatStep, CountKeeps
  <1> QED BY <1>4, <1>5

LEMMA ToolsCalled ==
  ASSUME NEW T, NEW C, ChatHolds(T, C),
         \/ \E p \in Calls : Chat!Propose(p) \/ Chat!DeleteCall(p) \/ Chat!CallAges(p)
         \/ \E s \in Slots : Chat!FinishCall(s) \/ \E p \in Calls : Chat!Claim(s, p)
         \/ Chat!ListCalls
  PROVE  ChatStep(T, C)
  <1>1. TurnHolds(T, C) /\ call \in [Calls -> ToolCall]
    BY DEF ChatHolds, CarriedOut
  <1>2. UNCHANGED <<turned, branches, cited, caller>>
    BY DEF Chat!Propose, Chat!DeleteCall, Chat!CallAges, Chat!FinishCall, Chat!Claim,
           Chat!ListCalls, Chat!turnVars
  <1>3. ChatMove(T) /\ chat'.there = chat.there
    BY <1>1, ChatReading, ChatKeeping
       DEF Chat!Propose, Chat!DeleteCall, Chat!CallAges, Chat!FinishCall, Chat!Claim, Chat!ListCalls
  <1>4. TurnStep(T, C)
    <2>1. CallersGo(T, C)
      BY <1>1, <1>2 DEF TurnHolds, CallersGo
    <2> QED BY <1>1, <1>2, <1>3, <2>1, TurnSteps DEF Quoted
  <1>5. CarryStep(T)
    <2>1. ASSUME NEW p \in Calls, Chat!Propose(p) PROVE CarryStep(T)
      <3>1. CountKeeps /\ CallsKeep
        BY <1>1, <1>2, <1>3, <2>1
           DEF Chat!Propose, Chat!turnVars, CountKeeps, CallsKeep, Askable, ToolCall
      <3> QED BY <1>3, <3>1 DEF CarryStep
    <2>2. ASSUME NEW p \in Calls, Chat!DeleteCall(p) PROVE CarryStep(T)
      BY <1>2, <1>3, <2>2 DEF Chat!DeleteCall, CarryStep
    <2>3. ASSUME NEW p \in Calls, Chat!CallAges(p) PROVE CarryStep(T)
      <3>1. CountKeeps /\ CallsKeep
        BY <1>1, <1>2, <1>3, <2>3
           DEF Chat!CallAges, Chat!turnVars, CountKeeps, CallsKeep, Askable, ToolCall
      <3> QED BY <1>3, <3>1 DEF CarryStep
    <2>4. ASSUME NEW s \in Slots, Chat!FinishCall(s) PROVE CarryStep(T)
      <3>1. call' \in [Calls -> ToolCall] /\ \A p \in Calls : Askable(p)' => Askable(p)
        <4>1. ASSUME NEW status \in {"completed", "error", "uncertain"},
                     call' = [call EXCEPT ![slot[s]] = [status |-> status, old |-> FALSE]]
              PROVE  call' \in [Calls -> ToolCall] /\ \A p \in Calls : Askable(p)' => Askable(p)
          <5>1. PICK new : new = [status |-> status, old |-> FALSE]
            OBVIOUS
          <5>2. new \in ToolCall /\ new.status = status
            BY <5>1 DEF ToolCall
          <5> QED BY <1>1, <4>1, <5>1, <5>2 DEF Askable
        <4>2. CASE UNCHANGED call
          BY <1>1, <4>2 DEF Askable
        <4> QED BY <2>4, <4>1, <4>2 DEF Chat!FinishCall
      <3> QED BY <1>2, <1>3, <2>4, <3>1
              DEF Chat!FinishCall, Chat!turnVars, CarryStep, CountKeeps, CallsKeep
    <2>5. ASSUME NEW s \in Slots, NEW p \in Calls, Chat!Claim(s, p) PROVE CarryStep(T)
      <3>1. chat.there /\ Askable(p)
        BY <1>1, <2>5, ChatReading DEF Chat!Claim, Chat!Claimable, Askable
      <3> QED BY <1>2, <1>3, <2>5, <3>1 DEF Chat!Claim, CarryStep
    <2>6. CASE Chat!ListCalls
      <3>1. CountKeeps /\ CallsKeep
        BY <1>1, <1>2, <1>3, <2>6
           DEF Chat!ListCalls, Chat!turnVars, CountKeeps, CallsKeep, Askable, ToolCall
      <3> QED BY <1>3, <3>1 DEF CarryStep
    <2> QED BY <2>1, <2>2, <2>3, <2>4, <2>5, <2>6
  <1> QED BY <1>4, <1>5 DEF ChatStep

LEMMA ChatSteps ==
  ASSUME NEW T, NEW C, ChatHolds(T, C), ChatStep(T, C) \/ UNCHANGED chatVars
  PROVE  ChatHolds(T, C)'
  <1>1. CASE ChatStep(T, C)
    BY <1>1, Carrying, Turning DEF ChatHolds, ChatStep, CarryStep
  <1>2. CASE UNCHANGED chatVars
    <2>1. CarriedOut(T)'
      BY <1>2 DEF chatVars, ChatHolds, CarriedOut, Askable
    <2>2. Quoted(C)' = Quoted(C) /\ \A q : Tells(q)' <=> Tells(q)
      BY <1>2 DEF chatVars, Quoted, Tells
    <2>3. TurnHolds(T, C)'
      BY <1>2, <2>2 DEF chatVars, ChatHolds, TurnHolds
    <2> QED BY <2>1, <2>3 DEF ChatHolds
  <1> QED BY <1>1, <1>2

LEMMA TurnsGoOn ==
  ASSUME ChatHolds(Turns, Callers), [Chat!TurnNext]_chatVars
  PROVE  ChatHolds(Turns, Callers)'
  <1>1. ASSUME NEW c \in Callers,
               \/ Chat!Look(c) \/ Chat!Search(c) \/ Chat!Begin(c) \/ Chat!Dispatch(c)
               \/ Chat!Prepare(c) \/ Chat!Deliver(c) \/ Chat!Fail(c) \/ Chat!Close(c)
               \/ Chat!Edit(c) \/ Chat!Delete(c) \/ Chat!WriteEntry(c)
               \/ \E r \in Turns : Chat!Post(c, r)
        PROVE  ChatStep(Turns, Callers)
    BY <1>1, TurnsRequested, TurnsStreamed, TurnsDelivered, TurnsBegun, ConversationDeleted,
       EntryWritten
  <1>2. ASSUME NEW c \in Callers, NEW f \in Forks, NEW n \in 0 .. MaxAnswers, Chat!Fork(c, f, n)
        PROVE  ChatStep(Turns, Callers)
    BY <1>2, Branching, ChatAssumption
  <1>3. ASSUME NEW n \in 1 .. MaxAnswers,
               Chat!Remember(n) \/ \E c \in Callers : Chat!Quote(c, n)
        PROVE  ChatStep(Turns, Callers)
    BY <1>3, Quoting, ChatAssumption
  <1>4. ASSUME (\E r \in Turns : Chat!StopTurn(r)) \/ Chat!TurnAges \/ Chat!Dies
        PROVE  ChatStep(Turns, Callers)
    BY <1>4, TurnsStopped DEF Chat!Dies
  <1>5. Chat!TurnNext => ChatStep(Turns, Callers)
    BY <1>1, <1>2, <1>3, <1>4 DEF Chat!TurnNext
  <1> QED BY <1>5, ChatSteps

-----------------------------------------------------------------------------
(* The conversation beside tool calls is the same one: its steps are those of *)
(* Chat, of one turn and of one request.                                      *)

LEMMA ToolTerms ==
  /\ \A item, status : Tool!EndedAs(item, status) = Chat!EndedAs(item, status)
  /\ Tool!Recovered = Chat!Recovered /\ Tool!Idle = Chat!Idle
  /\ \A item : Tool!Save(item) <=> Chat!Save(item)
  /\ \A readers : Tool!Read(readers) <=> Chat!Read(readers)
  /\ \A c : /\ Tool!Checked(c) <=> Chat!Checked(c)
            /\ Tool!Ends(c) <=> Chat!Ends(c)
            /\ Tool!Holds(c) <=> Chat!Holds(c)
            /\ Tool!Lost(c) <=> Chat!Lost(c)
  /\ \A c, pc : /\ Tool!Becomes(c, pc) <=> Chat!Becomes(c, pc)
                /\ Tool!Same(c, pc) <=> Chat!Same(c, pc)
  /\ \A c, item : Tool!Records(c, item) <=> Chat!Records(c, item)
  /\ \A c, status : Tool!RecordsEnd(c, status) <=> Chat!RecordsEnd(c, status)
  <1>1. \A item, status : Tool!EndedAs(item, status) = Chat!EndedAs(item, status)
    BY Zenon DEF Tool!EndedAs, Chat!EndedAs
  <1>2. Tool!Recovered = Chat!Recovered /\ Tool!Idle = Chat!Idle
    BY <1>1, Zenon DEF Tool!Recovered, Chat!Recovered, Tool!Idle, Chat!Idle
  <1>3. \A item : Tool!Save(item) <=> Chat!Save(item)
    BY Zenon DEF Tool!Save, Chat!Save
  <1>4. \A readers : Tool!Read(readers) <=> Chat!Read(readers)
    BY <1>2, Zenon DEF Tool!Read, Chat!Read
  <1>5. \A c : (Tool!Checked(c) <=> Chat!Checked(c)) /\ (Tool!Holds(c) <=> Chat!Holds(c))
    BY Zenon DEF Tool!Checked, Chat!Checked, Tool!Holds, Chat!Holds
  <1>6. \A c : Tool!Ends(c) <=> Chat!Ends(c)
    BY <1>2, Zenon DEF Tool!Ends, Chat!Ends
  <1>7. \A c, pc : Tool!Becomes(c, pc) <=> Chat!Becomes(c, pc)
    BY Zenon DEF Tool!Becomes, Chat!Becomes
  <1>8. \A c, pc : Tool!Same(c, pc) <=> Chat!Same(c, pc)
    BY <1>7, Zenon DEF Tool!Same, Chat!Same
  <1>9. \A c : Tool!Lost(c) <=> Chat!Lost(c)
    BY <1>4, <1>5, Zenon DEF Tool!Lost, Chat!Lost
  <1>10. \A c, item : Tool!Records(c, item) <=> Chat!Records(c, item)
    BY <1>3, <1>5, Zenon DEF Tool!Records, Chat!Records
  <1>11. \A c, status : Tool!RecordsEnd(c, status) <=> Chat!RecordsEnd(c, status)
    BY <1>1, <1>9, <1>10, Zenon DEF Tool!RecordsEnd, Chat!RecordsEnd
  <1> QED BY <1>1, <1>2, <1>3, <1>4, <1>5, <1>6, <1>7, <1>8, <1>9, <1>10, <1>11

LEMMA ToolIsChat ==
  ASSUME NEW c, NEW r, NEW f, NEW n, NEW p, NEW s
  PROVE  /\ (Tool!Look(c) => Chat!Look(c)) /\ (Tool!Search(c) => Chat!Search(c))
         /\ (Tool!Begin(c) => Chat!Begin(c)) /\ (Tool!Dispatch(c) => Chat!Dispatch(c))
         /\ (Tool!Prepare(c) => Chat!Prepare(c)) /\ (Tool!Deliver(c) => Chat!Deliver(c))
         /\ (Tool!Fail(c) => Chat!Fail(c)) /\ (Tool!Close(c) => Chat!Close(c))
         /\ (Tool!Edit(c) => Chat!Edit(c)) /\ (Tool!Delete(c) => Chat!Delete(c))
         /\ (Tool!WriteEntry(c) => Chat!WriteEntry(c)) /\ (Tool!Post(c, r) => Chat!Post(c, r))
         /\ (Tool!Fork(c, f, n) => Chat!Fork(c, f, n)) /\ (Tool!Quote(c, n) => Chat!Quote(c, n))
         /\ (Tool!StopTurn(r) => Chat!StopTurn(r)) /\ (Tool!Remember(n) => Chat!Remember(n))
         /\ (Tool!TurnAges => Chat!TurnAges) /\ (Tool!Propose(p) => Chat!Propose(p))
         /\ (Tool!DeleteCall(p) => Chat!DeleteCall(p)) /\ (Tool!CallAges(p) => Chat!CallAges(p))
         /\ (Tool!FinishCall(s) => Chat!FinishCall(s)) /\ (Tool!Claim(s, p) => Chat!Claim(s, p))
         /\ (Tool!ListCalls => Chat!ListCalls)
  <1>1. Tool!Look(c) => Chat!Look(c)
    BY ToolTerms, Zenon DEF Tool!Look, Chat!Look, Tool!turnVars, Chat!turnVars, Tool!toolVars, Chat!toolVars
  <1>2. Tool!Search(c) => Chat!Search(c)
    BY ToolTerms, Zenon DEF Tool!Search, Chat!Search, Tool!turnVars, Chat!turnVars, Tool!toolVars, Chat!toolVars
  <1>3. Tool!Begin(c) => Chat!Begin(c)
    BY ToolTerms, Zenon DEF Tool!Begin, Chat!Begin, Tool!turnVars, Chat!turnVars, Tool!toolVars, Chat!toolVars
  <1>4. Tool!Dispatch(c) => Chat!Dispatch(c)
    BY ToolTerms, Zenon DEF Tool!Dispatch, Chat!Dispatch, Tool!turnVars, Chat!turnVars, Tool!toolVars, Chat!toolVars
  <1>5. Tool!Prepare(c) => Chat!Prepare(c)
    BY ToolTerms, Zenon DEF Tool!Prepare, Chat!Prepare, Tool!turnVars, Chat!turnVars, Tool!toolVars, Chat!toolVars
  <1>6. Tool!Deliver(c) => Chat!Deliver(c)
    BY ToolTerms, Zenon DEF Tool!Deliver, Chat!Deliver, Tool!Last, Chat!Last, Tool!turnVars, Chat!turnVars, Tool!toolVars, Chat!toolVars
  <1>7. Tool!Fail(c) => Chat!Fail(c)
    BY ToolTerms, Zenon DEF Tool!Fail, Chat!Fail, Tool!turnVars, Chat!turnVars, Tool!toolVars, Chat!toolVars
  <1>8. Tool!Close(c) => Chat!Close(c)
    BY ToolTerms, Zenon DEF Tool!Close, Chat!Close, Tool!turnVars, Chat!turnVars, Tool!toolVars, Chat!toolVars
  <1>9. Tool!Edit(c) => Chat!Edit(c)
    BY ToolTerms, Zenon DEF Tool!Edit, Chat!Edit, Tool!turnVars, Chat!turnVars, Tool!toolVars, Chat!toolVars
  <1>10. Tool!Delete(c) => Chat!Delete(c)
    BY ToolTerms, Zenon DEF Tool!Delete, Chat!Delete, Tool!turnVars, Chat!turnVars, Tool!toolVars, Chat!toolVars
  <1>11. Tool!WriteEntry(c) => Chat!WriteEntry(c)
    BY ToolTerms, Zenon DEF Tool!WriteEntry, Chat!WriteEntry, Tool!turnVars, Chat!turnVars, Tool!toolVars, Chat!toolVars
  <1>12. Tool!Post(c, r) => Chat!Post(c, r)
    BY ToolTerms, Zenon DEF Tool!Post, Chat!Post, Tool!turnVars, Chat!turnVars, Tool!toolVars, Chat!toolVars
  <1>13. Tool!Fork(c, f, n) => Chat!Fork(c, f, n)
    BY ToolTerms, Zenon DEF Tool!Fork, Chat!Fork, Tool!turnVars, Chat!turnVars, Tool!toolVars, Chat!toolVars
  <1>14. Tool!Quote(c, n) => Chat!Quote(c, n)
    BY ToolTerms, Zenon DEF Tool!Quote, Chat!Quote, Tool!Cardinality, Chat!Cardinality, Tool!turnVars, Chat!turnVars, Tool!toolVars, Chat!toolVars
  <1>15. Tool!StopTurn(r) => Chat!StopTurn(r)
    BY ToolTerms, Zenon DEF Tool!StopTurn, Chat!StopTurn, Tool!turnVars, Chat!turnVars, Tool!toolVars, Chat!toolVars
  <1>16. Tool!Remember(n) => Chat!Remember(n)
    BY ToolTerms, Zenon DEF Tool!Remember, Chat!Remember, Tool!Cardinality, Chat!Cardinality, Tool!turnVars, Chat!turnVars, Tool!toolVars, Chat!toolVars
  <1>17. Tool!TurnAges => Chat!TurnAges
    BY ToolTerms, Zenon DEF Tool!TurnAges, Chat!TurnAges, Tool!turnVars, Chat!turnVars, Tool!toolVars, Chat!toolVars
  <1>18. Tool!Propose(p) => Chat!Propose(p)
    BY ToolTerms, Zenon DEF Tool!Propose, Chat!Propose, Tool!turnVars, Chat!turnVars, Tool!toolVars, Chat!toolVars
  <1>19. Tool!DeleteCall(p) => Chat!DeleteCall(p)
    BY ToolTerms, Zenon DEF Tool!DeleteCall, Chat!DeleteCall, Tool!turnVars, Chat!turnVars, Tool!toolVars, Chat!toolVars
  <1>20. Tool!CallAges(p) => Chat!CallAges(p)
    BY ToolTerms, Zenon DEF Tool!CallAges, Chat!CallAges, Tool!turnVars, Chat!turnVars, Tool!toolVars, Chat!toolVars
  <1>21. Tool!FinishCall(s) => Chat!FinishCall(s)
    BY ToolTerms, Zenon DEF Tool!FinishCall, Chat!FinishCall, Tool!turnVars, Chat!turnVars, Tool!toolVars, Chat!toolVars
  <1>22. Tool!Claim(s, p) => Chat!Claim(s, p)
    BY ToolTerms, Zenon DEF Tool!Claim, Chat!Claim, Tool!Claimable, Chat!Claimable, Tool!turnVars, Chat!turnVars, Tool!toolVars, Chat!toolVars
  <1>23. Tool!ListCalls => Chat!ListCalls
    BY ToolTerms, Zenon DEF Tool!ListCalls, Chat!ListCalls, Tool!turnVars, Chat!turnVars, Tool!toolVars, Chat!toolVars
  <1> QED BY <1>1, <1>2, <1>3, <1>4, <1>5, <1>6, <1>7, <1>8, <1>9, <1>10, <1>11, <1>12, <1>13, <1>14, <1>15, <1>16, <1>17, <1>18, <1>19, <1>20, <1>21, <1>22, <1>23

LEMMA ToolsGoOn ==
  ASSUME ChatHolds(One(Turns), One(Callers)), [Tool!ChatNext]_chatVars
  PROVE  ChatHolds(One(Turns), One(Callers))'
  <1> DEFINE T == One(Turns)
             C == One(Callers)
  <1>1. ASSUME NEW c \in C,
               \/ Tool!Look(c) \/ Tool!Search(c) \/ Tool!Begin(c) \/ Tool!Dispatch(c)
               \/ Tool!Prepare(c) \/ Tool!Deliver(c) \/ Tool!Fail(c) \/ Tool!Close(c)
               \/ Tool!Edit(c) \/ Tool!Delete(c) \/ Tool!WriteEntry(c)
               \/ \E r \in T : Tool!Post(c, r)
        PROVE  ChatStep(T, C)
    BY <1>1, ToolIsChat, TurnsRequested, TurnsStreamed, TurnsDelivered, TurnsBegun,
       ConversationDeleted, EntryWritten
  <1>2. ASSUME NEW c \in C, NEW f \in Forks, NEW n \in 0 .. MaxAnswers, Tool!Fork(c, f, n)
        PROVE  ChatStep(T, C)
    <2>1. n \in Nat /\ Chat!Fork(c, f, n)
      BY <1>2, ToolIsChat, ChatAssumption
    <2> HIDE DEF T, C
    <2> QED BY <1>2, <2>1, Branching DEF T, C
  <1>3. ASSUME NEW n \in 1 .. MaxAnswers,
               Tool!Remember(n) \/ \E c \in C : Tool!Quote(c, n)
        PROVE  ChatStep(T, C)
    BY <1>3, ToolIsChat, Quoting, ChatAssumption
  <1>4. ASSUME (\E r \in T : Tool!StopTurn(r)) \/ Tool!TurnAges \/ Tool!Dies
        PROVE  ChatStep(T, C)
    <2>1. CASE (\E r \in T : Tool!StopTurn(r)) \/ Tool!TurnAges
      BY <2>1, ToolIsChat, TurnsStopped
    <2>2. CASE Tool!Dies
      BY <2>2, TurnsStopped DEF Tool!Dies, Tool!Idle, Chat!Idle, Tool!turnVars, Chat!turnVars
    <2> QED BY <1>4, <2>1, <2>2
  <1>5. ASSUME Tool!ToolNext PROVE ChatStep(T, C)
    BY <1>5, ToolIsChat, ToolsCalled DEF Tool!ToolNext
  <1> HIDE DEF T, C
  <1>6. Tool!ChatNext => ChatStep(T, C)
    BY <1>1, <1>2, <1>3, <1>4, <1>5 DEF Tool!ChatNext, Tool!TurnNext, T, C
  <1> QED BY <1>6, ChatSteps DEF T, C

LEMMA ChatStarts ==
  ASSUME NEW T, NEW C, Nobody \notin T,
         chat = [there |-> TRUE, active |-> Nobody, overdue |-> FALSE, answers |-> <<>>],
         cited = {}, branches = <<>>, caller = [c \in C |-> Chat!Idle],
         call = [p \in Calls |-> [status |-> "none", old |-> FALSE]],
         count = [turn |-> [r \in T |-> 0], branch |-> [f \in Forks |-> 0],
                  call |-> [p \in Calls |-> 0]]
  PROVE  ChatHolds(T, C)
  <1>1. CarriedOut(T)
    BY DEF CarriedOut, ToolCall
  <1>2. chat \in Conversation(T) /\ Len(chat.answers) = 0
    BY EmptySeq DEF Conversation
  <1>3. caller \in [C -> CallerRecord(T)] /\ \A c \in C : caller[c].pc = "idle"
    BY DEF Chat!Idle, CallerRecord
  <1>4. DOMAIN branches = {} /\ Quoted(C) = {}
    BY <1>3 DEF Quoted
  <1>5. TurnHolds(T, C)
    BY <1>2, <1>3, <1>4 DEF TurnHolds, TurnPcs
  <1> QED BY <1>1, <1>5 DEF ChatHolds

LEMMA OneTurn == Nobody \notin Turns /\ Nobody \notin One(Turns)
  BY ChatAssumption DEF One

ChatInv ==
    /\ subject = "chat" => ChatHolds(Turns, Callers)
    /\ subject = "tools" => ChatHolds(One(Turns), One(Callers))

LEMMA ChatsHold == PanelSpec => []ChatInv
  <1>1. PanelInit => ChatInv
    <2> SUFFICES ASSUME PanelInit PROVE ChatInv
      OBVIOUS
    <2>1. CASE subject = "chat"
      BY <2>1, OneTurn, ChatStarts DEF PanelInit, Chat!ChatInit, ChatInv
    <2>2. CASE subject = "tools"
      BY <2>2, OneTurn, ChatStarts DEF PanelInit, Tool!ChatInit, Tool!Idle, Chat!Idle, ChatInv
    <2> QED BY <2>1, <2>2 DEF ChatInv
  <1>2. ChatInv /\ [PanelNext]_AllVars => ChatInv'
    <2> SUFFICES ASSUME ChatInv, [PanelNext]_AllVars PROVE ChatInv'
      OBVIOUS
    <2>1. /\ subject' = subject
          /\ subject = "chat" => [Chat!TurnNext]_chatVars
          /\ subject = "tools" => [Tool!ChatNext]_chatVars
      BY DEF PanelNext, AllVars, VideoMoves, PanelMoves, LimitMoves, HttpsMoves, ShopMoves,
             ChatMoves, DocumentMoves, RuleMoves, LandingMoves
    <2> QED BY <2>1, TurnsGoOn, ToolsGoOn DEF ChatInv
  <1> QED BY <1>1, <1>2, PTL DEF PanelSpec

LEMMA ChatPromises ==
  ASSUME NEW T, NEW C, ChatHolds(T, C)
  PROVE  /\ \A r \in T : count.turn[r] <= 1
         /\ \A f \in Forks : count.branch[f] <= 1
         /\ \A p \in Calls : count.call[p] <= 1
         /\ \A q \in cited : chat.there => q.at <= Len(chat.answers) /\ chat.answers[q.at] = q.answer
         /\ \A n \in 1 .. Len(chat.answers) :
               chat.answers[n].status = "streaming" <=>
                   n = Len(chat.answers) /\ chat.active = chat.answers[n].by
         /\ \A f \in DOMAIN branches : \A n \in 1 .. Len(branches[f]) :
               branches[f][n].status # "streaming"
  <1>1. TurnHolds(T, C) /\ Nobody \notin T /\ chat \in Conversation(T)
    BY DEF ChatHolds, TurnHolds
  <1>2. Len(chat.answers) \in Nat /\ \A n \in 1 .. Len(chat.answers) : chat.answers[n].by \in T
    <2>1. chat.answers \in Seq(ToldAnswer(T))
      BY <1>1 DEF Conversation
    <2>2. \A n \in 1 .. Len(chat.answers) : chat.answers[n] \in ToldAnswer(T)
      BY <2>1, ElementOfSeq
    <2> QED BY <2>1, <2>2, LenProperties DEF ToldAnswer
  <1>3. \A q \in cited : chat.there => q.at <= Len(chat.answers) /\ chat.answers[q.at] = q.answer
    BY <1>1, <1>2 DEF TurnHolds, Quoted, Tells
  <1>4. \A n \in 1 .. Len(chat.answers) :
          chat.answers[n].status = "streaming" <=>
              n = Len(chat.answers) /\ chat.active = chat.answers[n].by
    BY <1>1, <1>2 DEF TurnHolds
  <1> QED BY <1>1, <1>3, <1>4 DEF ChatHolds, CarriedOut, TurnHolds, Closed

\* Of every instance: what a memory or the journal quotes is what the conversation says,
\* however its turns end, and only the turn that holds it is shown as being written
\* (chat_service.py: begin, event, save_memory, to_journal).
THEOREM QuotesAreKept == PanelSpec => []QuotesStayTrue
  <1>1. ChatInv => QuotesStayTrue
    BY ChatPromises DEF ChatInv, QuotesStayTrue, Chat!QuotesStayTrue, Tool!QuotesStayTrue,
       Chat!StreamsAreHeld, Tool!StreamsAreHeld
  <1> QED BY <1>1, ChatsHold, PTL

\* Of every instance: no video is paid for twice, and no turn, branch or tool call is
\* carried out twice, whatever is asked again, dies or is lost.
THEOREM PaidAtMostOnce == PanelSpec => []NeverPaidTwice
  <1>1. ChatInv /\ (subject = "video" => VideoInv) => NeverPaidTwice
    BY ChatPromises, VideoPromises
       DEF ChatInv, NeverPaidTwice, Chat!NothingRunsTwice, Tool!NothingRunsTwice
  <1> QED BY <1>1, ChatsHold, VideosHold, PTL

-----------------------------------------------------------------------------
(* Sessions.  The secret of an account is never one it had before, so that a  *)
(* session that was there when a request arrived either was opened by the     *)
(* account's present secret or never will be.                                 *)

AccountRecord == [there : BOOLEAN, off : BOOLEAN, secret : [Panel!Kinds -> Nat]]
SessionRecord ==
    [id : Nat, who : Panel!Names, kind : Panel!Kinds, secret : Nat, by : Nat]
RequestRecord ==
    [pc : {"idle", "verify", "open", "check", "compare", "served", "expel", "replace", "revoke"},
     who : Panel!Names, kind : Panel!Kinds, session : Nat, secret : Nat, current : Nat,
     by : Nat, since : Nat]

\* The administrator has a password and no token of his own.
KindOf(who, kind) == who = "admin" => kind = "password"

AccountsKnown ==
    /\ account \in [Panel!Names -> AccountRecord] /\ lastSecret \in Nat /\ lastSession \in Nat
    /\ \A x \in Panel!Names, k \in Panel!Kinds : account[x].secret[k] <= lastSecret
SessionKnown(s) ==
    /\ s \in SessionRecord /\ s.secret = s.by /\ s.by <= lastSecret /\ s.by # 0
    /\ s.id <= lastSession /\ KindOf(s.who, s.kind)
Found(req) == req.pc \in {"check", "compare"}
RequestKnown(req) ==
    /\ req \in RequestRecord /\ KindOf(req.who, req.kind)
    /\ req.pc \in {"verify", "open", "replace"} => req.secret # 0 /\ req.secret <= lastSecret
    /\ Found(req) =>
          LET now == account[req.who].secret[req.kind]
          IN /\ req.session <= lastSession /\ req.by <= lastSecret
             /\ req.who = "admin" => req.current = req.since
             /\ req.pc = "compare" => req.secret = req.by
             /\ \/ now = 0
                \/ now = req.since
                \/ /\ \A s \in sessions : s.id = req.session => s.by < now
                   /\ req.pc = "compare" => req.by < now
    /\ req.pc = "served" => req.by >= req.since /\ req.since # 0
SessionInv ==
    /\ AccountsKnown
    /\ \A s \in sessions : SessionKnown(s)
    /\ request \in [Requests -> RequestRecord] /\ \A r \in Requests : RequestKnown(request[r])

\* What a step may do to the accounts and to the sessions.
AccountsMove ==
    /\ account' \in [Panel!Names -> AccountRecord] /\ lastSecret' \in {lastSecret, lastSecret + 1}
    /\ \A x \in Panel!Names, k \in Panel!Kinds :
          \/ account'[x].secret[k] \in {account[x].secret[k], 0}
          \/ account'[x].secret[k] = lastSecret + 1 /\ lastSecret' = lastSecret + 1
SessionsMove ==
    /\ lastSession' \in {lastSession, lastSession + 1}
    /\ \A s \in sessions' :
          \/ s \in sessions
          \/ /\ s.id = lastSession + 1 /\ lastSession' = lastSession + 1
             /\ s \in SessionRecord /\ s.secret = s.by /\ s.by <= lastSecret /\ s.by # 0
             /\ KindOf(s.who, s.kind)

LEMMA SessionsRest ==
  ASSUME SessionInv
  PROVE  /\ UNCHANGED <<account, lastSecret>> => AccountsMove
         /\ UNCHANGED lastSession /\ sessions' \subseteq sessions => SessionsMove
  BY DEF SessionInv, AccountsKnown, AccountsMove, SessionsMove

LEMMA SessionsGoOn ==
  ASSUME SessionInv, AccountsMove, SessionsMove, NEW r, NEW req,
         \/ UNCHANGED request
         \/ r \in Requests /\ request' = [request EXCEPT ![r] = req] /\ RequestKnown(req)'
  PROVE  SessionInv'
  <1>2. lastSecret \in Nat /\ lastSession \in Nat /\ lastSecret' \in Nat /\ lastSession' \in Nat
        /\ lastSecret <= lastSecret' /\ lastSession <= lastSession'
    BY DEF SessionInv, AccountsKnown, AccountsMove, SessionsMove
  <1>1. AccountsKnown'
    <2>1. ASSUME NEW x \in Panel!Names, NEW k \in Panel!Kinds
          PROVE  account'[x].secret[k] <= lastSecret'
      <3>1. account[x].secret[k] <= lastSecret /\ account[x].secret[k] \in Nat
        BY DEF SessionInv, AccountsKnown, AccountRecord
      <3> QED BY <1>2, <3>1 DEF AccountsMove
    <2> QED BY <1>2, <2>1 DEF AccountsKnown, AccountsMove
  <1>3. \A s \in sessions' : SessionKnown(s)'
    <2> TAKE s \in sessions'
    <2>1. CASE s \in sessions
      BY <1>2, <2>1 DEF SessionInv, SessionKnown, SessionRecord
    <2>2. CASE s \notin sessions
      BY <1>2, <2>2 DEF SessionsMove, SessionKnown, SessionRecord
    <2> QED BY <2>1, <2>2
  <1>4. ASSUME NEW old, RequestKnown(old) PROVE RequestKnown(old)'
    <2> DEFINE now == account[old.who].secret[old.kind]
               then == account'[old.who].secret[old.kind]
    <2>1. /\ old \in RequestRecord /\ KindOf(old.who, old.kind)
          /\ old.pc \in {"verify", "open", "replace"} => old.secret # 0 /\ old.secret <= lastSecret'
          /\ old.pc = "served" => old.by >= old.since /\ old.since # 0
      BY <1>2, <1>4 DEF RequestKnown, RequestRecord
    <2>2. ASSUME Found(old)
          PROVE  /\ old.session <= lastSession' /\ old.by <= lastSecret'
                 /\ old.who = "admin" => old.current = old.since
                 /\ old.pc = "compare" => old.secret = old.by
      BY <1>2, <1>4, <2>1, <2>2 DEF RequestKnown, RequestRecord
    <2>3. ASSUME Found(old)
          PROVE  \/ then = 0
                 \/ then = old.since
                 \/ /\ \A s \in sessions' : s.id = old.session => s.by < then
                    /\ old.pc = "compare" => old.by < then
      <3>1. then = now \/ then = 0 \/ then = lastSecret + 1
        BY <2>1 DEF AccountsMove, RequestRecord
      <3>2. \A s \in sessions' : s.id = old.session => s \in sessions
        <4>1. old.session <= lastSession /\ old.session \in Nat
          BY <1>4, <2>1, <2>3 DEF RequestKnown, RequestRecord
        <4> QED BY <1>2, <4>1 DEF SessionsMove
      <3>3. CASE then = lastSecret + 1
        <4>1. \A s \in sessions : s.by < then
          BY <1>2, <3>3 DEF SessionInv, SessionKnown, SessionRecord
        <4>2. old.by < then
          <5>1. old.by <= lastSecret
            BY <1>4, <2>3 DEF RequestKnown
          <5>2. old.by \in Nat /\ lastSecret \in Nat
            BY <1>2, <2>1 DEF RequestRecord
          <5> QED BY <3>3, <5>1, <5>2
        <4> QED BY <3>2, <4>1, <4>2
      <3>4. CASE then = now
        BY <1>4, <2>3, <3>2, <3>4 DEF RequestKnown
      <3> QED BY <3>1, <3>3, <3>4
    <2> QED BY <2>1, <2>2, <2>3 DEF RequestKnown, Found
  <1>5. request' \in [Requests -> RequestRecord]
    BY DEF SessionInv, RequestKnown
  <1>6. ASSUME NEW q \in Requests PROVE RequestKnown(request[q])'
    <2>1. CASE q = r /\ request'[q] = req /\ RequestKnown(req)'
      BY <2>1 DEF SessionInv, RequestKnown
    <2>2. CASE request'[q] = request[q]
      <3>1. PICK old : old = request[q]
        OBVIOUS
      <3>2. RequestKnown(old)' /\ request'[q] = old
        BY <1>4, <2>2, <3>1 DEF SessionInv
      <3> QED BY <3>2 DEF RequestKnown
    <2> QED BY <2>1, <2>2 DEF SessionInv
  <1> QED BY <1>1, <1>3, <1>5, <1>6 DEF SessionInv

LEMMA IdleRequests ==
  Panel!NoRequest \in RequestRecord /\ Panel!NoRequest.pc = "idle"
  /\ KindOf(Panel!NoRequest.who, Panel!NoRequest.kind)
  BY DEF Panel!NoRequest, RequestRecord, Panel!Names, Panel!Kinds, Panel!Admin, KindOf

\* A request that has not found its session, or has been judged.
LEMMA PlainRequests ==
  ASSUME SessionInv, AccountsMove, NEW req \in RequestRecord, KindOf(req.who, req.kind),
         ~Found(req),
         req.pc \in {"verify", "open", "replace"} => req.secret # 0 /\ req.secret <= lastSecret',
         req.pc = "served" => req.by >= req.since /\ req.since # 0
  PROVE  RequestKnown(req)'
  BY DEF RequestKnown, Found

LEMMA RequestsEnd ==
  ASSUME SessionInv, AccountsMove, SessionsMove, NEW r \in Requests,
         \/ Panel!Ends(r)
         \/ \E x \in Panel!Names : Panel!ThenRevoke(r, x)
  PROVE  SessionInv'
  <1>1. CASE Panel!Ends(r)
    <2>1. PICK req : req = Panel!NoRequest
      OBVIOUS
    <2>2. RequestKnown(req)'
      BY <2>1, IdleRequests, PlainRequests DEF Found
    <2> QED BY <1>1, <2>1, <2>2, SessionsGoOn DEF Panel!Ends
  <1>2. CASE \E x \in Panel!Names : Panel!ThenRevoke(r, x)
    <2>1. PICK x \in Panel!Names : Panel!ThenRevoke(r, x)
      BY <1>2
    <2>2. PICK req : req = [Panel!NoRequest EXCEPT !.pc = "revoke", !.who = x]
      OBVIOUS
    <2>3. req \in RequestRecord /\ req.pc = "revoke" /\ KindOf(req.who, req.kind)
      BY <2>2 DEF Panel!NoRequest, RequestRecord, Panel!Names, Panel!Kinds, Panel!Admin, KindOf
    <2>4. RequestKnown(req)'
      BY <2>3, PlainRequests DEF Found
    <2> QED BY <2>1, <2>2, <2>4, SessionsGoOn DEF Panel!ThenRevoke
  <1> QED BY <1>1, <1>2

LEMMA SecretsAreNew ==
  ASSUME SessionInv, NEW x \in Panel!Names, NEW kinds, Panel!NewSecret(x, kinds)
  PROVE  AccountsMove /\ lastSecret' = lastSecret + 1
  <1> DEFINE fresh1 == [k \in Panel!Kinds |-> IF k \in kinds THEN lastSecret + 1
                                             ELSE account[x].secret[k]]
  <1>1. account \in [Panel!Names -> AccountRecord] /\ lastSecret \in Nat
    BY DEF SessionInv, AccountsKnown
  <1>2. fresh1 \in [Panel!Kinds -> Nat]
    BY <1>1 DEF AccountRecord
  <1>3. account' = [account EXCEPT ![x].there = TRUE, ![x].secret = fresh1]
    BY DEF Panel!NewSecret
  <1>4. \A k \in Panel!Kinds : fresh1[k] \in {lastSecret + 1, account[x].secret[k]}
    OBVIOUS
  <1> HIDE DEF fresh1
  <1>5. /\ account' \in [Panel!Names -> AccountRecord] /\ account'[x].secret = fresh1
        /\ \A y \in Panel!Names \ {x} : account'[y] = account[y]
    BY <1>1, <1>2, <1>3 DEF AccountRecord
  <1> QED BY <1>1, <1>4, <1>5 DEF AccountsMove, Panel!NewSecret

LEMMA LoginsGoOn ==
  ASSUME SessionInv, NEW r \in Requests, NEW x, NEW secret,
         \/ /\ x \in Panel!Names /\ secret \in 1 .. lastSecret
            /\ Panel!StartLogin(r, x, secret) \/ Panel!Exchange(r, x, secret)
         \/ Panel!Verify(r)
  PROVE  SessionInv'
  <1>1. UNCHANGED <<account, lastSecret, sessions, lastSession>>
    BY DEF Panel!StartLogin, Panel!Exchange, Panel!Verify, Panel!KeepAccounts, Panel!KeepSessions
  <1>2. AccountsMove /\ SessionsMove
    BY <1>1, SessionsRest
  <1>3. /\ account \in [Panel!Names -> AccountRecord] /\ lastSecret \in Nat
        /\ request \in [Requests -> RequestRecord] /\ RequestKnown(request[r])
    BY DEF SessionInv, AccountsKnown
  <1>4. "admin" \in Panel!Names /\ "password" \in Panel!Kinds /\ "token" \in Panel!Kinds
    BY DEF Panel!Names, Panel!Admin, Panel!Kinds
  <1>8. x \in Panel!Names /\ secret \in 1 .. lastSecret =>
          secret \in Nat /\ secret # 0 /\ secret <= lastSecret
    BY <1>3
  <1>5. CASE /\ x \in Panel!Names /\ secret \in 1 .. lastSecret
             /\ Panel!StartLogin(r, x, secret)
    <2> DEFINE current == account["admin"].secret["password"]
    <2>1. current \in Nat
      BY <1>3, <1>4 DEF AccountRecord
    <2> HIDE DEF current
    <2>2. PICK req : req = [Panel!NoRequest EXCEPT !.pc = "verify", !.who = x, !.secret = secret,
                                                  !.current = current]
      OBVIOUS
    <2>3. /\ req \in RequestRecord /\ req.pc = "verify" /\ req.kind = "password"
          /\ req.secret = secret
      BY <1>3, <1>4, <1>5, <1>8, <2>1, <2>2 DEF Panel!NoRequest, RequestRecord, Panel!Admin
    <2>4. RequestKnown(req)'
      BY <1>1, <1>2, <1>3, <1>5, <1>8, <2>3, PlainRequests DEF Found, KindOf
    <2>5. request' = [request EXCEPT ![r] = req]
      BY <1>5, <2>2 DEF Panel!StartLogin, Panel!Admin, current
    <2> QED BY <1>2, <2>4, <2>5, SessionsGoOn
  <1>6. CASE /\ x \in Panel!Names /\ secret \in 1 .. lastSecret
             /\ Panel!Exchange(r, x, secret)
    <2> DEFINE kind == IF x = "admin" THEN "password" ELSE "token"
    <2>1. PICK req : req = [Panel!NoRequest EXCEPT !.pc = "open", !.who = x, !.kind = kind,
                                                  !.secret = secret]
      OBVIOUS
    <2>2. /\ req \in RequestRecord /\ req.pc = "open" /\ req.who = x /\ req.kind = kind
          /\ req.secret = secret
      BY <1>3, <1>4, <1>6, <1>8, <2>1 DEF Panel!NoRequest, RequestRecord, Panel!Admin
    <2>3. RequestKnown(req)'
      BY <1>1, <1>2, <1>3, <1>6, <1>8, <2>2, PlainRequests DEF Found, KindOf
    <2>4. request' = [request EXCEPT ![r] = req]
      BY <1>6, <2>1 DEF Panel!Exchange, Panel!Admin
    <2> QED BY <1>2, <2>3, <2>4, SessionsGoOn
  <1>7. CASE Panel!Verify(r)
    <2>1. CASE Panel!Ends(r)
      BY <1>2, <2>1, RequestsEnd
    <2>2. CASE Panel!Goto(r, "open") /\ request[r].pc = "verify"
      <3>1. PICK req : req = [request[r] EXCEPT !.pc = "open"]
        OBVIOUS
      <3>2. /\ req \in RequestRecord /\ req.pc = "open" /\ req.who = request[r].who
            /\ req.kind = request[r].kind /\ req.secret = request[r].secret
        BY <1>3, <3>1 DEF RequestRecord
      <3>3. RequestKnown(req)'
        BY <1>1, <1>2, <1>3, <2>2, <3>2, PlainRequests DEF RequestKnown, Found
      <3>4. request' = [request EXCEPT ![r] = req]
        BY <1>3, <2>2, <3>1 DEF Panel!Goto
      <3> QED BY <1>2, <3>3, <3>4, SessionsGoOn
    <2> QED BY <1>7, <2>1, <2>2 DEF Panel!Verify, Panel!At
  <1> QED BY <1>5, <1>6, <1>7

\* What is left of the sessions when one is opened is among those there were.
LEMMA SessionsOpen ==
  ASSUME SessionInv, UNCHANGED <<account, lastSecret>>, NEW r \in Requests,
         Panel!Open(r) \/ Panel!Replace(r)
  PROVE  SessionInv'
  <1> DEFINE req == request[r]
             kind == IF Panel!At(r, "open") THEN req.kind ELSE "password"
             new == Panel!NewSession(req.who, kind, req.secret, req.secret)
  <1>1. /\ req \in RequestRecord /\ req.secret # 0 /\ req.secret <= lastSecret
        /\ KindOf(req.who, req.kind) /\ lastSession \in Nat
    BY DEF SessionInv, RequestKnown, AccountsKnown, Panel!Open, Panel!Replace, Panel!At
  <1>2. kind \in Panel!Kinds /\ KindOf(req.who, kind)
    BY <1>1 DEF RequestRecord, Panel!Kinds, KindOf
  <1>3. /\ new \in SessionRecord /\ new.secret = new.by /\ new.by = req.secret
        /\ new.id = lastSession + 1 /\ new.who = req.who /\ new.kind = kind
    BY <1>1, <1>2 DEF Panel!NewSession, SessionRecord, RequestRecord
  <1>4. sessions' \subseteq sessions \cup {new} /\ lastSession' = lastSession + 1 /\ Panel!Ends(r)
    <2>1. \A x, s : Panel!WithNew(x, s) \subseteq sessions \cup {s}
      BY DEF Panel!WithNew, Panel!File, Panel!Newest
    <2>2. CASE Panel!Open(r)
      <3>1. kind = req.kind
        BY <2>2 DEF Panel!Open
      <3> QED BY <2>1, <2>2, <3>1 DEF Panel!Open
    <2>3. CASE Panel!Replace(r)
      <3>1. kind = "password"
        BY <2>3 DEF Panel!Replace, Panel!At
      <3> QED BY <2>3, <3>1 DEF Panel!Replace, Panel!WithoutOwn
    <2> QED BY <2>2, <2>3
  <1> HIDE DEF new
  <1>5. SessionsMove
    BY <1>1, <1>2, <1>3, <1>4 DEF SessionsMove
  <1> QED BY <1>4, <1>5, SessionsRest, RequestsEnd

LEMMA SessionsSought ==
  ASSUME SessionInv, NEW r \in Requests,
         (\E s \in sessions : Panel!Arrive(r, s)) \/ Panel!FindSession(r) \/ Panel!Compare(r)
  PROVE  SessionInv'
  <1>1. UNCHANGED <<account, lastSecret, sessions, lastSession>>
    BY DEF Panel!Arrive, Panel!FindSession, Panel!Compare, Panel!KeepAccounts, Panel!KeepSessions
  <1>2. AccountsMove /\ SessionsMove
    BY <1>1, SessionsRest
  <1>3. /\ account \in [Panel!Names -> AccountRecord] /\ lastSecret \in Nat
        /\ request \in [Requests -> RequestRecord] /\ RequestKnown(request[r])
        /\ "admin" \in Panel!Names /\ "password" \in Panel!Kinds
    BY DEF SessionInv, AccountsKnown, Panel!Names, Panel!Admin, Panel!Kinds
  <1>4. ASSUME NEW s \in sessions, Panel!Arrive(r, s) PROVE SessionInv'
    <2> DEFINE current == account["admin"].secret["password"]
               now == account[s.who].secret[s.kind]
    <2>1. SessionKnown(s) /\ s \in SessionRecord
      BY DEF SessionInv, SessionKnown
    <2>2. current \in Nat /\ now \in Nat
      BY <1>3, <2>1 DEF AccountRecord, SessionRecord
    <2>3. s.who = "admin" => current = now
      BY <2>1 DEF SessionKnown, KindOf
    <2>4. PICK req : req = [pc |-> "check", who |-> s.who, kind |-> s.kind, session |-> s.id,
                            secret |-> 0, current |-> current, by |-> 0, since |-> now]
      OBVIOUS
    <2>5. request' = [request EXCEPT ![r] = req]
      BY <1>4, <2>4 DEF Panel!Arrive, Panel!Admin
    <2>6. now' = now
      BY <1>1
    <2> HIDE DEF current, now
    <2>7. req \in RequestRecord
      BY <2>1, <2>2, <2>4 DEF RequestRecord, SessionRecord
    <2>8. RequestKnown(req)'
      BY <1>1, <1>3, <2>1, <2>3, <2>4, <2>6, <2>7 DEF RequestKnown, SessionKnown, Found, KindOf, now
    <2> QED BY <1>2, <2>5, <2>8, SessionsGoOn
  <1>5. CASE Panel!FindSession(r)
    <2>1. CASE Panel!Ends(r)
      BY <1>2, <2>1, RequestsEnd
    <2>2. ASSUME NEW s \in sessions, s.id = request[r].session, request[r].pc = "check",
                 request' = [request EXCEPT ![r].pc = "compare", ![r].secret = s.secret, ![r].by = s.by]
          PROVE  SessionInv'
      <3>1. SessionKnown(s) /\ s.secret \in Nat /\ s.by \in Nat
        BY DEF SessionInv, SessionKnown, SessionRecord
      <3>2. PICK req : req = [[[request[r] EXCEPT !.pc = "compare"] EXCEPT !.secret = s.secret]
                                 EXCEPT !.by = s.by]
        OBVIOUS
      <3>3. /\ req \in RequestRecord /\ req.pc = "compare" /\ req.secret = s.secret /\ req.by = s.by
            /\ req.who = request[r].who /\ req.kind = request[r].kind
            /\ req.session = request[r].session /\ req.current = request[r].current
            /\ req.since = request[r].since
        BY <1>3, <3>1, <3>2 DEF RequestRecord
      <3>4. request' = [request EXCEPT ![r] = req]
        BY <1>3, <2>2, <3>2
      <3>5. RequestKnown(req)'
        BY <1>1, <1>3, <2>2, <3>1, <3>3 DEF RequestKnown, SessionKnown, Found
      <3> QED BY <1>2, <3>4, <3>5, SessionsGoOn
    <2> QED BY <1>5, <2>1, <2>2 DEF Panel!FindSession, Panel!At
  <1>6. CASE Panel!Compare(r)
    <2> DEFINE old == request[r]
               now == account[old.who].secret[old.kind]
               current == IF old.who = "admin" THEN old.current ELSE now
               verdict == IF current # 0 /\ current = old.secret THEN "served" ELSE "expel"
    <2>1. old.pc = "compare" /\ Panel!Goto(r, verdict)
      BY <1>6 DEF Panel!Compare, Panel!At, Panel!Admin
    <2>2. PICK req : req = [old EXCEPT !.pc = verdict]
      OBVIOUS
    <2>3. request' = [request EXCEPT ![r] = req]
      BY <1>3, <2>1, <2>2 DEF Panel!Goto
    <2>4. now \in Nat /\ old \in RequestRecord
      BY <1>3 DEF AccountRecord, RequestRecord
    <2>5. verdict = "served" => old.by >= old.since /\ old.since # 0
      <3>1. Found(old)
        BY <2>1 DEF Found
      <3>2. /\ old.secret = old.by /\ (old.who = "admin" => old.current = old.since)
            /\ now = 0 \/ now = old.since \/ old.by < now
        BY <1>3, <2>1, <3>1 DEF RequestKnown
      <3>3. old.by \in Nat /\ old.since \in Nat /\ old.current \in Nat
        BY <2>4 DEF RequestRecord
      <3>4. verdict = "served" => current # 0 /\ current = old.secret
        OBVIOUS
      <3>5. current = IF old.who = "admin" THEN old.current ELSE now
        OBVIOUS
      <3> HIDE DEF old, now, current, verdict
      <3> QED BY <2>4, <3>2, <3>3, <3>4, <3>5
    <2>6. verdict \in {"served", "expel"}
      OBVIOUS
    <2> HIDE DEF verdict
    <2>7. /\ req \in RequestRecord /\ req.pc = verdict /\ req.who = old.who /\ req.kind = old.kind
          /\ req.by = old.by /\ req.since = old.since
      BY <2>2, <2>4, <2>6 DEF RequestRecord
    <2>8. RequestKnown(req)'
      BY <1>2, <1>3, <2>5, <2>6, <2>7, PlainRequests DEF RequestKnown, Found
    <2> QED BY <1>2, <2>3, <2>8, SessionsGoOn
  <1> QED BY <1>4, <1>5, <1>6

LEMMA SessionsClose ==
  ASSUME SessionInv,
         \/ \E r \in Requests : Panel!Expel(r) \/ Panel!Finish(r) \/ Panel!Revoke(r)
         \/ \E s \in sessions : Panel!Expire(s)
         \/ UNCHANGED panelVars
  PROVE  SessionInv'
  <1>1. /\ UNCHANGED <<account, lastSecret, lastSession>> /\ sessions' \subseteq sessions
        /\ UNCHANGED request \/ \E r \in Requests : Panel!Ends(r)
    BY DEF Panel!Expel, Panel!Finish, Panel!Revoke, Panel!Expire, Panel!KeepAccounts,
           Panel!KeepSessions, Panel!WithoutOwn, panelVars
  <1>2. AccountsMove /\ SessionsMove
    BY <1>1, SessionsRest
  <1> QED BY <1>1, <1>2, RequestsEnd, SessionsGoOn

LEMMA AccountsChange ==
  ASSUME SessionInv, NEW r \in Requests, NEW x \in Users, NEW kinds,
         \/ Panel!Create(r, x, kinds) \/ Panel!SetPassword(r, x) \/ Panel!RotateToken(r, x)
         \/ Panel!Disable(r, x) \/ Panel!Enable(r, x) \/ Panel!Delete(r, x)
  PROVE  SessionInv'
  <1>1. x \in Panel!Names /\ account \in [Panel!Names -> AccountRecord]
    BY DEF Panel!Names, SessionInv, AccountsKnown
  <1>2. AccountsMove
    <2>1. CASE \E set : Panel!NewSecret(x, set)
      BY <1>1, <2>1, SecretsAreNew
    <2>2. CASE Panel!Delete(r, x)
      <3>1. Panel!NoAccount \in AccountRecord /\ \A k \in Panel!Kinds : Panel!NoAccount.secret[k] = 0
        BY DEF Panel!NoAccount, AccountRecord
      <3> QED BY <1>1, <2>2, <3>1 DEF Panel!Delete, AccountsMove
    <2>3. ASSUME NEW off \in BOOLEAN, account' = [account EXCEPT ![x].off = off], UNCHANGED lastSecret
          PROVE  AccountsMove
      <3>1. /\ account' \in [Panel!Names -> AccountRecord] /\ account'[x].secret = account[x].secret
            /\ \A y \in Panel!Names \ {x} : account'[y] = account[y]
        BY <1>1, <2>3 DEF AccountRecord
      <3> QED BY <2>3, <3>1 DEF AccountsMove
    <2> QED BY <2>1, <2>2, <2>3
            DEF Panel!Create, Panel!SetPassword, Panel!RotateToken, Panel!Disable, Panel!Enable
  <1>3. SessionsMove
    <2>1. UNCHANGED lastSession /\ sessions' \subseteq sessions
      BY DEF Panel!Create, Panel!SetPassword, Panel!RotateToken, Panel!Disable, Panel!Enable,
             Panel!Delete, Panel!KeepSessions, Panel!WithoutOwn
    <2> QED BY <2>1, SessionsRest
  <1>4. Panel!Ends(r) \/ Panel!ThenRevoke(r, x)
    BY DEF Panel!Create, Panel!SetPassword, Panel!RotateToken, Panel!Disable, Panel!Enable,
           Panel!Delete
  <1> QED BY <1>1, <1>2, <1>3, <1>4, RequestsEnd

LEMMA PasswordsChange ==
  ASSUME SessionInv, NEW r \in Requests, Panel!ChangePassword(r)
  PROVE  SessionInv'
  <1>1. /\ request \in [Requests -> RequestRecord] /\ RequestKnown(request[r])
        /\ lastSecret \in Nat /\ request[r].who \in Panel!Names
    BY DEF SessionInv, AccountsKnown, RequestKnown, RequestRecord
  <1>2. AccountsMove /\ lastSecret' = lastSecret + 1
    BY <1>1, SecretsAreNew DEF Panel!ChangePassword
  <1>3. SessionsMove
    BY SessionsRest DEF Panel!ChangePassword, Panel!KeepSessions
  <1>4. PICK waits : waits = [request[r] EXCEPT !.pc = "replace"]
    OBVIOUS
  <1>5. waits \in RequestRecord /\ waits.pc = "replace" /\ waits.who = request[r].who
        /\ waits.kind = request[r].kind
    BY <1>1, <1>4 DEF RequestRecord
  <1>6. PICK req : req = [waits EXCEPT !.secret = lastSecret + 1]
    OBVIOUS
  <1>7. lastSecret + 1 \in Nat /\ lastSecret + 1 # 0
    BY <1>1
  <1>8. /\ req \in RequestRecord /\ req.pc = "replace" /\ req.secret = lastSecret + 1
        /\ req.who = request[r].who /\ req.kind = request[r].kind
    BY <1>5, <1>6, <1>7 DEF RequestRecord
  <1>9. RequestKnown(req)'
    <2>1. lastSecret' = lastSecret + 1 /\ lastSecret + 1 <= lastSecret + 1
      BY <1>1, <1>2
    <2>2. KindOf(req.who, req.kind)
      BY <1>1, <1>8 DEF RequestKnown
    <2> QED BY <1>7, <1>8, <2>1, <2>2 DEF RequestKnown, Found
  <1>10. request' = [request EXCEPT ![r] = req]
    BY <1>1, <1>4, <1>6 DEF Panel!ChangePassword
  <1> QED BY <1>2, <1>3, <1>9, <1>10, SessionsGoOn

LEMMA SessionsStart == ASSUME Panel!PanelInit PROVE SessionInv
  <1>1. "admin" \in Panel!Names
    BY DEF Panel!Names, Panel!Admin
  <1>2. PICK first : first = [Panel!NoAccount EXCEPT !.there = TRUE, !.secret = [k \in Panel!Kinds |-> 1]]
    OBVIOUS
  <1>3. first \in AccountRecord /\ \A k \in Panel!Kinds : first.secret[k] = 1
    BY <1>2 DEF Panel!NoAccount, AccountRecord
  <1>4. AccountsKnown
    <2>1. account = [x \in Panel!Names |-> first] /\ lastSecret = 1 /\ lastSession = 0
      BY <1>2 DEF Panel!PanelInit
    <2>2. account \in [Panel!Names -> AccountRecord] /\ lastSecret \in Nat /\ lastSession \in Nat
      BY <1>3, <2>1
    <2>3. ASSUME NEW x \in Panel!Names, NEW k \in Panel!Kinds
          PROVE  account[x].secret[k] <= lastSecret
      BY <1>3, <2>1
    <2> QED BY <2>2, <2>3 DEF AccountsKnown
  <1>5. sessions = {} /\ request = [r \in Requests |-> Panel!NoRequest]
    BY DEF Panel!PanelInit
  <1>6. RequestKnown(Panel!NoRequest)
    BY IdleRequests DEF RequestKnown, Found
  <1> QED BY <1>4, <1>5, <1>6, IdleRequests DEF SessionInv

LEMMA SessionSteps == ASSUME SessionInv, [Panel!PanelNext]_panelVars PROVE SessionInv'
  <1>1. ASSUME NEW r \in Requests, Panel!Open(r) \/ Panel!Replace(r) PROVE SessionInv'
    BY <1>1, SessionsOpen DEF Panel!Open, Panel!Replace, Panel!KeepAccounts
  <1>2. ASSUME NEW r \in Requests, Panel!Verify(r) PROVE SessionInv'
    BY <1>2, LoginsGoOn
  <1>3. CASE Panel!PanelNext
    BY <1>1, <1>2, <1>3, LoginsGoOn, SessionsSought, SessionsClose, AccountsChange, PasswordsChange
       DEF Panel!PanelNext
  <1> QED BY <1>3, SessionsClose

LEMMA SessionsHold == PanelSpec => [](subject = "panel" => SessionInv)
  <1>1. PanelInit => (subject = "panel" => SessionInv)
    BY SessionsStart DEF PanelInit
  <1>2. (subject = "panel" => SessionInv) /\ [PanelNext]_AllVars => (subject = "panel" => SessionInv)'
    <2> SUFFICES ASSUME subject = "panel" => SessionInv, [PanelNext]_AllVars, subject' = "panel"
                 PROVE  SessionInv'
      OBVIOUS
    <2>1. subject = "panel" /\ [Panel!PanelNext]_panelVars
      BY DEF PanelNext, AllVars, VideoMoves, PanelMoves, LimitMoves, HttpsMoves, ShopMoves,
             ChatMoves, DocumentMoves, RuleMoves, LandingMoves
    <2> QED BY <2>1, SessionSteps
  <1> QED BY <1>1, <1>2, PTL DEF PanelSpec

\* Of every instance: no request is served with a session that a password or a token opened
\* which had been replaced, or whose account had been deleted, before the request arrived
\* (identity_service.py:get_logged_in_user_context, session_store.py).
THEOREM SessionsFollowSecrets == PanelSpec => []OldSecretsOpenNothing
  <1>1. (subject = "panel" => SessionInv) => OldSecretsOpenNothing
    BY DEF OldSecretsOpenNothing, Panel!OldSecretsOpenNothing, SessionInv, RequestKnown, Panel!At
  <1> QED BY <1>1, SessionsHold, PTL

-----------------------------------------------------------------------------
(* Guesses.  What is counted of an address, a source or the server is what   *)
(* is recent of its times; forgetting, sweeping and the clock take from it   *)
(* and a check adds one to it where there was room for one.                  *)

Guesser == [pc : {"idle", "panel", "server"}, ip : Sources]
Serving == {g \in Guessers : Limit!At(g, "server")}
LimitTyped ==
    /\ failures.times \in [Sources -> Seq(Nat)] /\ tracked.times \in [Sources -> Seq(Nat)]
    /\ attempts \in Seq(Nat) /\ inflight \in [Sources -> Nat] /\ leases \in Nat
    /\ guesser \in [Guessers -> Guesser]
Reserved ==
    /\ \A ip \in Sources : inflight[ip] = Cardinality(Limit!Verifying("panel", ip))
    /\ leases = Cardinality(Serving)
Bounded ==
    /\ \A ip \in Sources : /\ Len(Limit!Recent(failures.times[ip])) + inflight[ip] <= MaxGuesses
                           /\ Len(Limit!Recent(tracked.times[ip])) <= SourceBurst
    /\ Len(Limit!Recent(attempts)) <= GlobalBurst
    /\ leases <= MaxConcurrent
LimitInv == LimitTyped /\ Reserved /\ Bounded

\* Each key has at most what it had of recent times.
Fewer(new, old) ==
    /\ new \in [Sources -> Seq(Nat)]
    /\ \A ip \in Sources : Len(Limit!Recent(new[ip])) <= Len(Limit!Recent(old[ip]))

LEMMA SameSize == \A S : Limit!Cardinality(S) = Cardinality(S)
  BY DEF Limit!Cardinality, Cardinality

LEMMA RecentTimes ==
  ASSUME NEW times \in Seq(Nat)
  PROVE  /\ Limit!Recent(times) \in Seq(Nat)
         /\ Cardinality(Limit!Expired(times)) \in 0 .. Len(times)
         /\ Len(Limit!Recent(times)) = Len(times) - Cardinality(Limit!Expired(times))
         /\ Len(Limit!Recent(times)) \in Nat /\ Len(Limit!Recent(times)) <= Len(times)
  <1>1. Len(times) \in Nat /\ DOMAIN times = 1 .. Len(times)
    BY LenProperties
  <1>2. IsFiniteSet(1 .. Len(times)) /\ Cardinality(1 .. Len(times)) = Len(times)
    <2>1. Cardinality(1 .. Len(times)) = IF 1 > Len(times) THEN 0 ELSE Len(times) - 1 + 1
      BY <1>1, FS_Interval
    <2>2. IsFiniteSet(1 .. Len(times))
      BY <1>1, FS_Interval
    <2> QED BY <1>1, <2>1, <2>2
  <1>3. Limit!Expired(times) \in SUBSET (1 .. Len(times))
    BY <1>1 DEF Limit!Expired
  <1>4. Cardinality(Limit!Expired(times)) \in Nat /\ Cardinality(Limit!Expired(times)) <= Len(times)
    BY <1>2, <1>3, FS_Subset, FS_CardinalityType
  <1>5. \A i \in Cardinality(Limit!Expired(times)) + 1 .. Len(times) : times[i] \in Nat
    BY <1>1, <1>4, ElementOfSeq
  <1>6. /\ Limit!Recent(times) \in Seq(Nat)
        /\ Len(Limit!Recent(times)) =
             IF Cardinality(Limit!Expired(times)) + 1 <= Len(times)
             THEN Len(times) - (Cardinality(Limit!Expired(times)) + 1) + 1 ELSE 0
    BY <1>1, <1>4, <1>5, SameSize, SubSeqProperties DEF Limit!Recent
  <1> QED BY <1>1, <1>4, <1>6

LEMMA NoTimes == <<>> \in Seq(Nat) /\ Len(Limit!Recent(<<>>)) = 0
  <1> SUFFICES ASSUME NEW times, times = <<>>
               PROVE  times \in Seq(Nat) /\ Len(Limit!Recent(times)) = 0
    OBVIOUS
  <1>1. times \in Seq(Nat) /\ Len(times) = 0
    OBVIOUS
  <1>2. Len(Limit!Recent(times)) \in Nat /\ Len(Limit!Recent(times)) <= Len(times)
    BY <1>1, RecentTimes
  <1> QED BY <1>1, <1>2

\* A check that is admitted now counts once.
LEMMA OneMore ==
  ASSUME NEW times \in Seq(Nat)
  PROVE  /\ Append(times, 0) \in Seq(Nat)
         /\ Len(Limit!Recent(Append(times, 0))) = Len(Limit!Recent(times)) + 1
  <1>1. /\ Append(times, 0) \in Seq(Nat) /\ Len(Append(times, 0)) = Len(times) + 1
        /\ \A i \in 1 .. Len(times) : Append(times, 0)[i] = times[i]
        /\ Append(times, 0)[Len(times) + 1] = 0
    BY AppendProperties
  <1>2. /\ Len(times) \in Nat /\ DOMAIN times = 1 .. Len(times)
        /\ DOMAIN Append(times, 0) = 1 .. Len(times) + 1
    BY <1>1, LenProperties
  <1>3. ~(0 >= Window)
    BY LimitAssumption
  <1>4. Limit!Expired(Append(times, 0)) = Limit!Expired(times)
    BY <1>1, <1>2, <1>3 DEF Limit!Expired
  <1>5. /\ Len(Limit!Recent(times)) = Len(times) - Cardinality(Limit!Expired(times))
        /\ Cardinality(Limit!Expired(times)) \in 0 .. Len(times)
    BY RecentTimes
  <1>6. Len(Limit!Recent(Append(times, 0))) =
          Len(Append(times, 0)) - Cardinality(Limit!Expired(Append(times, 0)))
    BY <1>1, RecentTimes
  <1> QED BY <1>1, <1>2, <1>4, <1>5, <1>6

LEMMA TimePasses ==
  ASSUME NEW times \in Seq(Nat)
  PROVE  /\ Limit!Older(times) \in Seq(Nat)
         /\ Len(Limit!Recent(Limit!Older(times))) <= Len(Limit!Recent(times))
  <1>1. /\ Len(times) \in Nat /\ DOMAIN times = 1 .. Len(times)
        /\ \A i \in 1 .. Len(times) : times[i] \in Nat
    BY LenProperties, ElementOfSeq
  <1>2. Window \in Nat
    BY LimitAssumption
  <1>3. /\ Limit!Older(times) \in Seq(Nat) /\ Len(Limit!Older(times)) = Len(times)
        /\ \A i \in 1 .. Len(times) : times[i] >= Window => Limit!Older(times)[i] >= Window
    BY <1>1, <1>2 DEF Limit!Older
  <1>4. DOMAIN Limit!Older(times) = 1 .. Len(times)
    BY <1>3, LenProperties
  <1>5. Limit!Expired(times) \in SUBSET Limit!Expired(Limit!Older(times))
    BY <1>1, <1>3, <1>4 DEF Limit!Expired
  <1>6. Limit!Expired(Limit!Older(times)) \in SUBSET (1 .. Len(times))
    BY <1>4 DEF Limit!Expired
  <1>7. IsFiniteSet(Limit!Expired(Limit!Older(times)))
    <2>1. IsFiniteSet(1 .. Len(times))
      BY <1>1, FS_Interval
    <2> QED BY <1>6, <2>1, FS_Subset
  <1>8. Cardinality(Limit!Expired(times)) <= Cardinality(Limit!Expired(Limit!Older(times)))
    BY <1>5, <1>7, FS_Subset
  <1> QED BY <1>1, <1>3, <1>8, RecentTimes

LEMMA FewerYet ==
  ASSUME NEW old \in [Sources -> Seq(Nat)], NEW new, Fewer(new, old), NEW newer, Fewer(newer, new)
  PROVE  Fewer(newer, old)
  <1> SUFFICES ASSUME NEW ip \in Sources
               PROVE  Len(Limit!Recent(newer[ip])) <= Len(Limit!Recent(old[ip]))
    BY DEF Fewer
  <1>1. newer[ip] \in Seq(Nat) /\ new[ip] \in Seq(Nat) /\ old[ip] \in Seq(Nat)
    BY DEF Fewer
  <1> QED BY <1>1, RecentTimes DEF Fewer

LEMMA OnlyFewer ==
  ASSUME NEW dict, dict.times \in [Sources -> Seq(Nat)], NEW order
  PROVE  Fewer(Limit!Only(dict, order).times, dict.times)
  <1> DEFINE left == Limit!Only(dict, order).times
  <1>1. left = [ip \in Sources |-> IF ip \in Limit!ToSet(order) THEN dict.times[ip] ELSE <<>>]
    BY DEF Limit!Only
  <1>2. \A ip \in Sources : left[ip] = dict.times[ip] \/ left[ip] = <<>>
    BY <1>1
  <1>3. \A ip \in Sources : dict.times[ip] \in Seq(Nat) /\ Len(Limit!Recent(dict.times[ip])) \in Nat
    BY RecentTimes
  <1>4. left \in [Sources -> Seq(Nat)]
    BY <1>1, <1>3, NoTimes
  <1>5. \A ip \in Sources : Len(Limit!Recent(left[ip])) <= Len(Limit!Recent(dict.times[ip]))
    BY <1>2, <1>3, NoTimes
  <1> HIDE DEF left
  <1> QED BY <1>4, <1>5 DEF Fewer, left

LEMMA Kept == ASSUME NEW times \in [Sources -> Seq(Nat)] PROVE Fewer(times, times)
  <1>1. \A ip \in Sources : Len(Limit!Recent(times[ip])) \in Nat
    BY RecentTimes
  <1> QED BY <1>1 DEF Fewer

\* What a new check finds of an address has nothing that expired.
LEMMA PruningFewer ==
  ASSUME LimitTyped, NEW ip \in Sources
  PROVE  Fewer(Limit!Pruned(ip).times, failures.times)
  <1> DEFINE times == Limit!Recent(failures.times[ip])
  <1>1. failures.times[ip] \in Seq(Nat)
    BY DEF LimitTyped
  <1>2. times \in Seq(Nat) /\ Len(Limit!Recent(times)) <= Len(times)
        /\ Len(Limit!Recent(times)) \in Nat /\ Len(times) \in Nat
    BY <1>1, RecentTimes
  <1> HIDE DEF times
  <1>3. CASE times = <<>>
    BY <1>3, OnlyFewer DEF Limit!Pruned, Limit!Without, LimitTyped, times
  <1>4. CASE times # <<>>
    <2>1. Limit!Pruned(ip).times = [failures.times EXCEPT ![ip] = times]
      BY <1>4 DEF Limit!Pruned, Limit!With, times
    <2>2. \A s \in Sources : Len(Limit!Recent(failures.times[s])) \in Nat
      BY RecentTimes DEF LimitTyped
    <2>3. [failures.times EXCEPT ![ip] = times] \in [Sources -> Seq(Nat)]
      BY <1>2 DEF LimitTyped
    <2>4. \A s \in Sources : [failures.times EXCEPT ![ip] = times][s] =
                                IF s = ip THEN times ELSE failures.times[s]
      BY DEF LimitTyped
    <2>5. Len(times) = Len(Limit!Recent(failures.times[ip]))
      BY DEF times
    <2>6. \A s \in Sources : Len(Limit!Recent([failures.times EXCEPT ![ip] = times][s]))
                                <= Len(Limit!Recent(failures.times[s]))
      BY <1>2, <2>2, <2>4, <2>5
    <2> QED BY <2>1, <2>3, <2>6 DEF Fewer
  <1> QED BY <1>3, <1>4

LEMMA SweepingFewer ==
  ASSUME LimitTyped, NEW ip \in Sources
  PROVE  Fewer(Limit!Others(ip).times, tracked.times)
  <1> DEFINE others == Limit!Without(tracked, ip)
             pruned == [others EXCEPT !.times = [s \in Sources |-> Limit!Recent(@[s])]]
  <1>1. Fewer(others.times, tracked.times) /\ others.times \in [Sources -> Seq(Nat)]
    BY OnlyFewer DEF LimitTyped, Limit!Without, Fewer
  <1>2. pruned.times = [s \in Sources |-> Limit!Recent(others.times[s])]
    BY DEF Limit!Without, Limit!Only
  <1>3. \A s \in Sources : /\ Limit!Recent(others.times[s]) \in Seq(Nat)
                           /\ Len(Limit!Recent(Limit!Recent(others.times[s])))
                                <= Len(Limit!Recent(others.times[s]))
    BY <1>1, RecentTimes
  <1>4. Fewer(pruned.times, others.times) /\ pruned.times \in [Sources -> Seq(Nat)]
    BY <1>2, <1>3 DEF Fewer
  <1>5. Fewer(Limit!Swept(others).times, pruned.times)
    BY <1>4, OnlyFewer DEF Limit!Swept
  <1>6. Limit!Swept(others).times \in [Sources -> Seq(Nat)]
    BY <1>5 DEF Fewer
  <1>7. Fewer(Limit!Shortened(Limit!Swept(others)).times, Limit!Swept(others).times)
    BY <1>6, OnlyFewer DEF Limit!Shortened
  <1>8. Limit!Others(ip) \in {others, Limit!Shortened(Limit!Swept(others))}
    BY DEF Limit!Others
  <1> HIDE DEF others, pruned
  <1>9. Fewer(Limit!Shortened(Limit!Swept(others)).times, others.times)
    BY <1>1, <1>4, <1>5, <1>7, FewerYet
  <1> QED BY <1>1, <1>8, <1>9, FewerYet DEF LimitTyped

\* Who verifies and what is reserved go up and down together.
LEMMA Arrivals ==
  ASSUME LimitTyped, Reserved, NEW g \in Guessers, NEW ip \in Sources, guesser[g].pc = "idle",
         NEW pc \in {"panel", "server"}, Limit!Goto(g, pc, ip)
  PROVE  /\ guesser' \in [Guessers -> Guesser]
         /\ pc = "panel" =>
              /\ \A s \in Sources : Cardinality(Limit!Verifying("panel", s))' =
                                      IF s = ip THEN inflight[s] + 1 ELSE inflight[s]
              /\ Serving' = Serving
         /\ pc = "server" =>
              /\ \A s \in Sources : Limit!Verifying("panel", s)' = Limit!Verifying("panel", s)
              /\ Cardinality(Serving)' = leases + 1
  <1>1. guesser' = [guesser EXCEPT ![g] = [pc |-> pc, ip |-> ip]]
    BY DEF Limit!Goto
  <1>2. /\ guesser' \in [Guessers -> Guesser] /\ guesser'[g].pc = pc /\ guesser'[g].ip = ip
        /\ \A h \in Guessers \ {g} : guesser'[h] = guesser[h]
    BY <1>1 DEF LimitTyped, Guesser
  <1>3. \A s \in Sources : IsFiniteSet(Limit!Verifying("panel", s))
    <2>1. \A s \in Sources : Limit!Verifying("panel", s) \in SUBSET Guessers
      BY DEF Limit!Verifying
    <2> QED BY <2>1, FS_Subset, LimitAssumption
  <1>4. IsFiniteSet(Serving)
    <2>1. Serving \in SUBSET Guessers
      BY DEF Serving
    <2> QED BY <2>1, FS_Subset, LimitAssumption
  <1>5. g \notin Serving /\ \A s \in Sources : g \notin Limit!Verifying("panel", s)
    BY DEF Serving, Limit!Verifying, Limit!At
  <1>6. CASE pc = "panel"
    <2>1. Serving' = Serving
      BY <1>2, <1>5, <1>6 DEF Serving, Limit!At
    <2>2. \A s \in Sources : Limit!Verifying("panel", s)' =
             IF s = ip THEN Limit!Verifying("panel", s) \cup {g} ELSE Limit!Verifying("panel", s)
      BY <1>2, <1>5, <1>6 DEF Limit!Verifying, Limit!At
    <2>3. ASSUME NEW s \in Sources
          PROVE  Cardinality(Limit!Verifying("panel", s))' =
                   IF s = ip THEN inflight[s] + 1 ELSE inflight[s]
      BY <1>3, <1>5, <2>2, FS_AddElement DEF Reserved
    <2> QED BY <1>2, <1>6, <2>1, <2>3
  <1>7. CASE pc = "server"
    <2>1. Serving' = Serving \cup {g}
      BY <1>2, <1>5, <1>7 DEF Serving, Limit!At
    <2>2. \A s \in Sources : Limit!Verifying("panel", s)' = Limit!Verifying("panel", s)
      BY <1>2, <1>5, <1>7 DEF Limit!Verifying, Limit!At
    <2>3. Cardinality(Serving)' = leases + 1
      BY <1>4, <1>5, <2>1, FS_AddElement DEF Reserved
    <2> QED BY <1>2, <1>7, <2>2, <2>3
  <1> QED BY <1>6, <1>7

LEMMA Departures ==
  ASSUME LimitTyped, Reserved, NEW g \in Guessers, guesser[g].pc \in {"panel", "server"},
         Limit!Goto(g, "idle", guesser[g].ip)
  PROVE  /\ guesser' \in [Guessers -> Guesser] /\ guesser[g].ip \in Sources
         /\ guesser[g].pc = "panel" =>
              /\ inflight[guesser[g].ip] > 0
              /\ \A s \in Sources : Cardinality(Limit!Verifying("panel", s))' =
                   IF s = guesser[g].ip THEN inflight[s] - 1 ELSE inflight[s]
              /\ Serving' = Serving
         /\ guesser[g].pc = "server" =>
              /\ \A s \in Sources : Limit!Verifying("panel", s)' = Limit!Verifying("panel", s)
              /\ leases > 0 /\ Cardinality(Serving)' = leases - 1
  <1> DEFINE pc == guesser[g].pc
             ip == guesser[g].ip
  <1>1. guesser' = [guesser EXCEPT ![g] = [pc |-> "idle", ip |-> ip]]
    BY DEF Limit!Goto
  <1>2. ip \in Sources
    BY DEF LimitTyped, Guesser
  <1>3. /\ guesser' \in [Guessers -> Guesser] /\ guesser'[g].pc = "idle"
        /\ \A h \in Guessers \ {g} : guesser'[h] = guesser[h]
    BY <1>1, <1>2 DEF LimitTyped, Guesser
  <1>4. \A s \in Sources : IsFiniteSet(Limit!Verifying("panel", s))
    <2>1. \A s \in Sources : Limit!Verifying("panel", s) \in SUBSET Guessers
      BY DEF Limit!Verifying
    <2> QED BY <2>1, FS_Subset, LimitAssumption
  <1>5. IsFiniteSet(Serving)
    <2>1. Serving \in SUBSET Guessers
      BY DEF Serving
    <2> QED BY <2>1, FS_Subset, LimitAssumption
  <1>6. CASE pc = "panel"
    <2>1. Serving' = Serving
      BY <1>3, <1>6 DEF Serving, Limit!At
    <2>2. g \in Limit!Verifying("panel", ip)
      BY <1>6 DEF Limit!Verifying, Limit!At
    <2>3. \A s \in Sources : Limit!Verifying("panel", s)' =
             IF s = ip THEN Limit!Verifying("panel", s) \ {g} ELSE Limit!Verifying("panel", s)
      BY <1>3, <1>6 DEF Limit!Verifying, Limit!At
    <2>4. inflight[ip] > 0
      <3>1. Cardinality(Limit!Verifying("panel", ip)) # 0
        BY <1>2, <1>4, <2>2, FS_EmptySet
      <3> QED BY <1>2, <3>1 DEF Reserved, LimitTyped
    <2>5. ASSUME NEW s \in Sources
          PROVE  Cardinality(Limit!Verifying("panel", s))' =
                   IF s = ip THEN inflight[s] - 1 ELSE inflight[s]
      BY <1>4, <2>2, <2>3, FS_RemoveElement DEF Reserved
    <2> QED BY <1>2, <1>3, <1>6, <2>1, <2>4, <2>5
  <1>7. CASE pc = "server"
    <2>1. Serving' = Serving \ {g} /\ g \in Serving
      BY <1>3, <1>7 DEF Serving, Limit!At
    <2>2. \A s \in Sources : Limit!Verifying("panel", s)' = Limit!Verifying("panel", s)
      BY <1>3, <1>7 DEF Limit!Verifying, Limit!At
    <2>3. Cardinality(Serving)' = leases - 1
      BY <1>5, <2>1, FS_RemoveElement DEF Reserved
    <2>4. leases > 0
      BY <1>5, <2>1, FS_EmptySet DEF Reserved, LimitTyped
    <2> QED BY <1>2, <1>3, <1>7, <2>2, <2>3, <2>4
  <1> QED BY <1>6, <1>7

\* Nobody comes or goes.
LEMMA NobodyMoves ==
  ASSUME Reserved, UNCHANGED <<inflight, leases, guesser>> PROVE Reserved'
  BY DEF Reserved, Serving, Limit!Verifying, Limit!At

LEMMA PanelReserves ==
  ASSUME LimitInv, NEW g \in Guessers, NEW ip \in Sources, Limit!Begin(g, ip)
  PROVE  LimitInv'
  <1>1. Fewer(failures'.times, failures.times)
    BY PruningFewer DEF LimitInv, Limit!Begin
  <1>2. /\ failures'.times \in [Sources -> Seq(Nat)]
        /\ \A s \in Sources : /\ Len(Limit!Recent(failures'.times[s])) \in Nat
                              /\ Len(failures'.times[s]) \in Nat
                              /\ Len(Limit!Recent(failures'.times[s])) <= Len(failures'.times[s])
                              /\ Len(Limit!Recent(failures.times[s])) \in Nat
    BY <1>1, RecentTimes, LenProperties DEF Fewer, LimitInv, LimitTyped
  <1>3. UNCHANGED <<attempts, tracked, leases>>
    BY DEF Limit!Begin, Limit!KeepServer
  <1>4. MaxGuesses \in Nat
    BY LimitAssumption
  <1>5. CASE Len(failures'.times[ip]) + inflight[ip] >= MaxGuesses
    <2>1. UNCHANGED <<inflight, guesser>>
      BY <1>5 DEF Limit!Begin
    <2>2. LimitTyped' /\ Reserved'
      BY <1>2, <1>3, <2>1, NobodyMoves DEF LimitInv, LimitTyped
    <2>3. Bounded'
      <3>1. ASSUME NEW s \in Sources
            PROVE  Len(Limit!Recent(failures'.times[s])) + inflight'[s] <= MaxGuesses
        BY <1>1, <1>2, <1>4, <2>1 DEF LimitInv, Bounded, LimitTyped, Fewer
      <3> QED BY <1>3, <3>1 DEF LimitInv, Bounded
    <2> QED BY <2>2, <2>3 DEF LimitInv
  <1>6. CASE ~(Len(failures'.times[ip]) + inflight[ip] >= MaxGuesses)
    <2>1. inflight' = [inflight EXCEPT ![ip] = @ + 1] /\ Limit!Goto(g, "panel", ip)
      BY <1>6 DEF Limit!Begin
    <2>2. /\ guesser' \in [Guessers -> Guesser]
          /\ \A s \in Sources : Cardinality(Limit!Verifying("panel", s))' =
                                  IF s = ip THEN inflight[s] + 1 ELSE inflight[s]
          /\ Serving' = Serving
      BY <2>1, Arrivals DEF LimitInv, Limit!Begin, Limit!At
    <2>3. /\ inflight' \in [Sources -> Nat]
          /\ \A s \in Sources : inflight'[s] = IF s = ip THEN inflight[s] + 1 ELSE inflight[s]
      BY <2>1 DEF LimitInv, LimitTyped
    <2>4. LimitTyped' /\ Reserved'
      BY <1>2, <1>3, <2>2, <2>3 DEF LimitInv, LimitTyped, Reserved
    <2>5. Bounded'
      <3>1. ASSUME NEW s \in Sources
            PROVE  Len(Limit!Recent(failures'.times[s])) + inflight'[s] <= MaxGuesses
        <4>1. inflight[s] \in Nat
          BY DEF LimitInv, LimitTyped
        <4>2. CASE s = ip
          BY <1>2, <1>4, <1>6, <2>3, <4>1, <4>2
        <4>3. CASE s # ip
          BY <1>1, <1>2, <1>4, <2>3, <4>1, <4>3 DEF LimitInv, Bounded, Fewer
        <4> QED BY <4>2, <4>3
      <3> QED BY <1>3, <3>1 DEF LimitInv, Bounded
    <2> QED BY <2>4, <2>5 DEF LimitInv
  <1> QED BY <1>5, <1>6

LEMMA PanelFinishes ==
  ASSUME LimitInv, NEW g \in Guessers, Limit!Finish(g)
  PROVE  LimitInv'
  <1> DEFINE ip == guesser[g].ip
             wrong == Append(failures.times[ip], 0)
  <1>1. Limit!Goto(g, "idle", ip) /\ guesser[g].pc = "panel"
    BY DEF Limit!Finish, Limit!At
  <1>2. /\ guesser' \in [Guessers -> Guesser] /\ ip \in Sources /\ inflight[ip] > 0
        /\ \A s \in Sources : Cardinality(Limit!Verifying("panel", s))' =
                                IF s = ip THEN inflight[s] - 1 ELSE inflight[s]
        /\ Serving' = Serving
    BY <1>1, Departures DEF LimitInv
  <1>3. UNCHANGED <<attempts, tracked, leases>>
    BY DEF Limit!Finish, Limit!KeepServer
  <1>4. /\ inflight' \in [Sources -> Nat]
        /\ \A s \in Sources : inflight'[s] = IF s = ip THEN inflight[s] - 1 ELSE inflight[s]
    <2>1. inflight' = [inflight EXCEPT ![ip] = inflight[ip] - 1]
      BY <1>2 DEF Limit!Finish
    <2>2. inflight[ip] - 1 \in Nat
      BY <1>2 DEF LimitInv, LimitTyped
    <2> QED BY <1>2, <2>1, <2>2 DEF LimitInv, LimitTyped
  <1>5. /\ failures.times \in [Sources -> Seq(Nat)]
        /\ \A s \in Sources : Len(Limit!Recent(failures.times[s])) \in Nat
    BY RecentTimes DEF LimitInv, LimitTyped
  <1>6. failures' \in {Limit!Without(failures, ip), failures,
                       Limit!With(Limit!Room(ip), ip, wrong)}
    BY DEF Limit!Finish
  <1> HIDE DEF ip
  <1>7. /\ failures'.times \in [Sources -> Seq(Nat)]
        /\ \A s \in Sources :
             Len(Limit!Recent(failures'.times[s])) <=
                Len(Limit!Recent(failures.times[s])) + (IF s = ip THEN 1 ELSE 0)
    <2>1. CASE failures' \in {Limit!Without(failures, ip), failures}
      <3>1. Fewer(failures'.times, failures.times)
        BY <1>5, <2>1, OnlyFewer, Kept DEF Limit!Without
      <3>2. \A s \in Sources : Len(Limit!Recent(failures'.times[s])) \in Nat
        BY <3>1, RecentTimes DEF Fewer
      <3> QED BY <1>5, <3>1, <3>2 DEF Fewer
    <2>2. CASE failures' = Limit!With(Limit!Room(ip), ip, wrong)
      <3>1. Fewer(Limit!Room(ip).times, failures.times)
        BY <1>5, OnlyFewer, Kept DEF Limit!Room
      <3>2. /\ wrong \in Seq(Nat)
            /\ Len(Limit!Recent(wrong)) = Len(Limit!Recent(failures.times[ip])) + 1
        BY <1>2, <1>5, OneMore
      <3>3. failures'.times = [Limit!Room(ip).times EXCEPT ![ip] = wrong]
        BY <2>2 DEF Limit!With
      <3> HIDE DEF wrong
      <3>4. /\ failures'.times \in [Sources -> Seq(Nat)]
            /\ \A s \in Sources : failures'.times[s] =
                                    IF s = ip THEN wrong ELSE Limit!Room(ip).times[s]
        BY <1>2, <3>1, <3>2, <3>3 DEF Fewer
      <3>5. \A s \in Sources : Len(Limit!Recent(Limit!Room(ip).times[s])) \in Nat
        BY <3>1, RecentTimes DEF Fewer
      <3> QED BY <1>2, <1>5, <3>1, <3>2, <3>4, <3>5 DEF Fewer
    <2> QED BY <1>6, <2>1, <2>2
  <1>8. LimitTyped' /\ Reserved'
    BY <1>2, <1>3, <1>4, <1>7 DEF LimitInv, LimitTyped, Reserved
  <1>9. Bounded'
    <2>1. ASSUME NEW s \in Sources
          PROVE  Len(Limit!Recent(failures'.times[s])) + inflight'[s] <= MaxGuesses
      <3>1. inflight[s] \in Nat /\ MaxGuesses \in Nat
        BY LimitAssumption DEF LimitInv, LimitTyped
      <3>2. Len(Limit!Recent(failures'.times[s])) \in Nat
        BY <1>7, RecentTimes
      <3>3. Len(Limit!Recent(failures.times[s])) + inflight[s] <= MaxGuesses
        BY DEF LimitInv, Bounded
      <3>4. /\ inflight'[s] = (IF s = ip THEN inflight[s] - 1 ELSE inflight[s])
            /\ Len(Limit!Recent(failures'.times[s])) <=
                  Len(Limit!Recent(failures.times[s])) + (IF s = ip THEN 1 ELSE 0)
            /\ Len(Limit!Recent(failures.times[s])) \in Nat
        BY <1>4, <1>5, <1>7
      <3>5. CASE s = ip
        BY <3>1, <3>2, <3>3, <3>4, <3>5
      <3>6. CASE s # ip
        BY <3>1, <3>2, <3>3, <3>4, <3>6
      <3> QED BY <3>5, <3>6
    <2> QED BY <1>3, <2>1 DEF LimitInv, Bounded
  <1> QED BY <1>8, <1>9 DEF LimitInv

LEMMA ServerAdmits ==
  ASSUME LimitInv, NEW g \in Guessers, NEW ip \in Sources, Limit!TryAcquire(g, ip)
  PROVE  LimitInv'
  <1> DEFINE times == Limit!Recent(tracked.times[ip])
             others == Limit!Others(ip)
             admitted == /\ Len(Limit!Recent(attempts)) < GlobalBurst /\ Len(times) < SourceBurst
                         /\ leases < MaxConcurrent
  <1>1. UNCHANGED <<failures, inflight>> /\ guesser[g].pc = "idle"
    BY DEF Limit!TryAcquire, Limit!KeepPanel, Limit!At
  <1>2. SourceBurst \in Nat /\ GlobalBurst \in Nat /\ MaxConcurrent \in Nat
    BY LimitAssumption
  <1>3. /\ tracked.times[ip] \in Seq(Nat) /\ times \in Seq(Nat) /\ Len(times) \in Nat
        /\ Len(Limit!Recent(times)) \in Nat /\ Len(Limit!Recent(times)) <= Len(times)
        /\ Len(times) <= SourceBurst
    BY RecentTimes DEF LimitInv, LimitTyped, Bounded
  <1>4. /\ attempts \in Seq(Nat) /\ Limit!Recent(attempts) \in Seq(Nat)
        /\ Len(Limit!Recent(attempts)) \in Nat
        /\ Len(Limit!Recent(Limit!Recent(attempts))) \in Nat
        /\ Len(Limit!Recent(Limit!Recent(attempts))) <= Len(Limit!Recent(attempts))
        /\ Len(Limit!Recent(attempts)) <= GlobalBurst
    BY RecentTimes DEF LimitInv, LimitTyped, Bounded
  <1>5. Fewer(others.times, tracked.times)
    BY SweepingFewer DEF LimitInv
  <1>6. \A s \in Sources : /\ Len(Limit!Recent(others.times[s])) \in Nat
                           /\ Len(Limit!Recent(others.times[s])) <= SourceBurst
    <2>1. ASSUME NEW s \in Sources
          PROVE  /\ Len(Limit!Recent(others.times[s])) \in Nat
                 /\ Len(Limit!Recent(tracked.times[s])) \in Nat
      BY <1>5, RecentTimes DEF Fewer, LimitInv, LimitTyped
    <2> QED BY <1>2, <1>5, <2>1 DEF Fewer, LimitInv, Bounded
  \* A source is left with the times it is given.
  <1>7. ASSUME NEW new \in Seq(Nat), Len(Limit!Recent(new)) <= SourceBurst,
               tracked' = Limit!With(others, ip, new)
        PROVE  /\ tracked'.times \in [Sources -> Seq(Nat)]
               /\ \A s \in Sources : Len(Limit!Recent(tracked'.times[s])) <= SourceBurst
    <2>1. tracked'.times = [others.times EXCEPT ![ip] = new]
      BY <1>7 DEF Limit!With
    <2> HIDE DEF others
    <2>2. /\ tracked'.times \in [Sources -> Seq(Nat)]
          /\ \A s \in Sources : tracked'.times[s] = IF s = ip THEN new ELSE others.times[s]
      BY <1>5, <2>1 DEF Fewer
    <2> QED BY <1>6, <1>7, <2>2
  <1>8. CASE admitted
    <2>1. /\ attempts' = Append(Limit!Recent(attempts), 0) /\ leases' = leases + 1
          /\ tracked' = Limit!With(others, ip, Append(times, 0)) /\ Limit!Goto(g, "server", ip)
      BY <1>8 DEF Limit!TryAcquire
    <2>2. /\ guesser' \in [Guessers -> Guesser]
          /\ \A s \in Sources : Limit!Verifying("panel", s)' = Limit!Verifying("panel", s)
          /\ Cardinality(Serving)' = leases + 1
      BY <1>1, <2>1, Arrivals DEF LimitInv
    <2>3. Append(times, 0) \in Seq(Nat) /\ Len(Limit!Recent(Append(times, 0))) <= SourceBurst
      BY <1>2, <1>3, <1>8, OneMore
    <2>4. /\ tracked'.times \in [Sources -> Seq(Nat)]
          /\ \A s \in Sources : Len(Limit!Recent(tracked'.times[s])) <= SourceBurst
      BY <1>7, <2>1, <2>3
    <2>5. attempts' \in Seq(Nat) /\ Len(Limit!Recent(attempts')) <= GlobalBurst
      BY <1>2, <1>4, <1>8, <2>1, OneMore
    <2>6. leases' \in Nat /\ leases' <= MaxConcurrent
      BY <1>2, <1>8, <2>1 DEF LimitInv, LimitTyped
    <2>7. LimitTyped' /\ Reserved'
      BY <1>1, <2>1, <2>2, <2>4, <2>5, <2>6 DEF LimitInv, LimitTyped, Reserved
    <2>8. Bounded'
      BY <1>1, <2>4, <2>5, <2>6 DEF LimitInv, Bounded
    <2> QED BY <2>7, <2>8 DEF LimitInv
  <1>9. CASE ~admitted
    <2>1. /\ attempts' = Limit!Recent(attempts) /\ UNCHANGED <<leases, guesser>>
          /\ tracked' = Limit!With(others, ip, times)
      BY <1>9 DEF Limit!TryAcquire
    <2>2. Len(Limit!Recent(times)) <= SourceBurst
      BY <1>2, <1>3
    <2>3. /\ tracked'.times \in [Sources -> Seq(Nat)]
          /\ \A s \in Sources : Len(Limit!Recent(tracked'.times[s])) <= SourceBurst
      BY <1>3, <1>7, <2>1, <2>2
    <2>4. attempts' \in Seq(Nat) /\ Len(Limit!Recent(attempts')) <= GlobalBurst
      BY <1>2, <1>4, <2>1
    <2>5. LimitTyped' /\ Reserved'
      BY <1>1, <2>1, <2>3, <2>4, NobodyMoves DEF LimitInv, LimitTyped
    <2>6. Bounded'
      BY <1>1, <2>1, <2>3, <2>4 DEF LimitInv, Bounded
    <2> QED BY <2>5, <2>6 DEF LimitInv
  <1> QED BY <1>8, <1>9

LEMMA ServerReleases ==
  ASSUME LimitInv, NEW g \in Guessers, Limit!Release(g)
  PROVE  LimitInv'
  <1>1. /\ Limit!Goto(g, "idle", guesser[g].ip) /\ guesser[g].pc = "server"
        /\ leases' = leases - 1 /\ UNCHANGED <<failures, inflight, attempts, tracked>>
    BY DEF Limit!Release, Limit!At, Limit!KeepPanel
  <1>2. /\ guesser' \in [Guessers -> Guesser]
        /\ \A s \in Sources : Limit!Verifying("panel", s)' = Limit!Verifying("panel", s)
        /\ leases > 0 /\ Cardinality(Serving)' = leases - 1
    BY <1>1, Departures DEF LimitInv
  <1>3. leases' \in Nat /\ leases' <= MaxConcurrent
    BY <1>1, <1>2, LimitAssumption DEF LimitInv, LimitTyped, Bounded
  <1> QED BY <1>1, <1>2, <1>3 DEF LimitInv, LimitTyped, Reserved, Bounded

LEMMA LimitTicks == ASSUME LimitInv, Limit!Tick PROVE LimitInv'
  <1>1. /\ attempts' = Limit!Older(attempts) /\ UNCHANGED <<inflight, leases, guesser>>
        /\ failures'.times = [ip \in Sources |-> Limit!Older(failures.times[ip])]
        /\ tracked'.times = [ip \in Sources |-> Limit!Older(tracked.times[ip])]
    BY DEF Limit!Tick
  <1>2. ASSUME NEW old \in [Sources -> Seq(Nat)], NEW new,
               new = [ip \in Sources |-> Limit!Older(old[ip])]
        PROVE  /\ Fewer(new, old)
               /\ \A ip \in Sources : /\ Len(Limit!Recent(new[ip])) \in Nat
                                      /\ Len(Limit!Recent(old[ip])) \in Nat
    <2>1. \A ip \in Sources : /\ Limit!Older(old[ip]) \in Seq(Nat)
                              /\ Len(Limit!Recent(Limit!Older(old[ip]))) <= Len(Limit!Recent(old[ip]))
      BY TimePasses
    <2>2. Fewer(new, old)
      BY <1>2, <2>1 DEF Fewer
    <2> QED BY <2>2, RecentTimes DEF Fewer
  <1>3. /\ Fewer(failures'.times, failures.times) /\ Fewer(tracked'.times, tracked.times)
        /\ \A ip \in Sources : /\ Len(Limit!Recent(failures'.times[ip])) \in Nat
                               /\ Len(Limit!Recent(failures.times[ip])) \in Nat
                               /\ Len(Limit!Recent(tracked'.times[ip])) \in Nat
                               /\ Len(Limit!Recent(tracked.times[ip])) \in Nat
    BY <1>1, <1>2 DEF LimitInv, LimitTyped
  <1>4. /\ attempts' \in Seq(Nat) /\ Len(Limit!Recent(attempts')) \in Nat
        /\ Len(Limit!Recent(attempts)) \in Nat
        /\ Len(Limit!Recent(attempts')) <= Len(Limit!Recent(attempts))
    BY <1>1, TimePasses, RecentTimes DEF LimitInv, LimitTyped
  <1>5. LimitTyped' /\ Reserved'
    BY <1>1, <1>3, <1>4, NobodyMoves DEF LimitInv, LimitTyped, Fewer
  <1>6. MaxGuesses \in Nat /\ SourceBurst \in Nat /\ GlobalBurst \in Nat
    BY LimitAssumption
  <1>7. ASSUME NEW ip \in Sources
        PROVE  /\ Len(Limit!Recent(failures'.times[ip])) + inflight'[ip] <= MaxGuesses
               /\ Len(Limit!Recent(tracked'.times[ip])) <= SourceBurst
    <2>1. inflight[ip] \in Nat
      BY DEF LimitInv, LimitTyped
    <2> QED BY <1>1, <1>3, <1>6, <2>1 DEF LimitInv, Bounded, Fewer
  <1>8. Bounded'
    BY <1>1, <1>4, <1>6, <1>7 DEF LimitInv, Bounded
  <1> QED BY <1>5, <1>8 DEF LimitInv

LEMMA LimitStart == ASSUME Limit!LimitInit PROVE LimitInv
  <1>1. /\ failures.times = [ip \in Sources |-> <<>>] /\ tracked.times = [ip \in Sources |-> <<>>]
        /\ attempts = <<>> /\ leases = 0 /\ inflight = [ip \in Sources |-> 0]
    BY DEF Limit!LimitInit, Limit!Empty
  <1>2. PICK ip \in Sources :
          guesser = [g \in Guessers |-> [pc |-> "idle", ip |-> ip]]
    BY LimitAssumption DEF Limit!LimitInit
  <1>3. guesser \in [Guessers -> Guesser]
    BY <1>2 DEF Guesser
  <1>4. LimitTyped
    BY <1>1, <1>3, NoTimes DEF LimitTyped
  <1>5. Serving = {} /\ \A s \in Sources : Limit!Verifying("panel", s) = {}
    BY <1>2 DEF Serving, Limit!Verifying, Limit!At
  <1>6. Reserved
    BY <1>1, <1>5, FS_EmptySet DEF Reserved
  <1>7. Bounded
    BY <1>1, NoTimes, LimitAssumption DEF Bounded
  <1> QED BY <1>4, <1>6, <1>7 DEF LimitInv

LEMMA LimitSteps == ASSUME LimitInv, [Limit!LimitNext]_limitVars PROVE LimitInv'
  <1>1. CASE Limit!LimitNext
    BY <1>1, PanelReserves, PanelFinishes, ServerAdmits, ServerReleases, LimitTicks
       DEF Limit!LimitNext
  <1>2. CASE UNCHANGED limitVars
    BY <1>2, NobodyMoves DEF limitVars, LimitInv, LimitTyped, Bounded
  <1> QED BY <1>1, <1>2

LEMMA LimitsHold == PanelSpec => [](subject = "limits" => LimitInv)
  <1>1. PanelInit => (subject = "limits" => LimitInv)
    BY LimitStart DEF PanelInit
  <1>2. (subject = "limits" => LimitInv) /\ [PanelNext]_AllVars => (subject = "limits" => LimitInv)'
    <2> SUFFICES ASSUME subject = "limits" => LimitInv, [PanelNext]_AllVars, subject' = "limits"
                 PROVE  LimitInv'
      OBVIOUS
    <2>1. subject = "limits" /\ [Limit!LimitNext]_limitVars
      BY DEF PanelNext, AllVars, VideoMoves, PanelMoves, LimitMoves, HttpsMoves, ShopMoves,
             ChatMoves, DocumentMoves, RuleMoves, LandingMoves
    <2> QED BY <2>1, LimitSteps
  <1> QED BY <1>1, <1>2, PTL DEF PanelSpec

\* For any threads and addresses: however the logins overlap, an address has no more wrong or
\* undecided passwords within a window than it may (login_throttle.py:_begin_login_attempt), and
\* the authorization server no more hashes at a time, within a window, or for one source
\* (auth_service.py:PasswordWorkLimiter), whichever addresses are forgotten meanwhile.
THEOREM GuessesStayBounded == PanelSpec => []GuessesAreBounded
  <1>1. (subject = "limits" => LimitInv) => GuessesAreBounded
    <2> SUFFICES ASSUME LimitInv PROVE Limit!GuessesAreBounded
      BY DEF GuessesAreBounded
    <2> QED BY SameSize DEF LimitInv, Bounded, Reserved, Serving, Limit!GuessesAreBounded
  <1> QED BY <1>1, LimitsHold, PTL
=============================================================================

---------------------------- MODULE Session ----------------------------
(***************************************************************************)
(* One torrent's session: the goroutines started by Engine.runSession, the *)
(* peer manager's download goroutines and the storage writer, and the      *)
(* channels that carry a piece between them:                               *)
(*                                                                         *)
(*   scheduler.WorkQueue -> feeder -> m.work -> downloadFromPeer           *)
(*        -> m.results -> collector -> storage writer -> bitfields         *)
(*                                                                         *)
(* together with Pause, Resume, Remove, Shutdown and a restart of the      *)
(* program from the fast-resume record.  A member of Peers is a download   *)
(* goroutine: two connections to one remote are two members.               *)
(***************************************************************************)
EXTENDS Naturals, Sequences, FiniteSets

CONSTANTS
    PieceCount,   \* number of pieces of the torrent
    Peers,        \* download goroutines
    Holds,        \* [Peers -> SUBSET Pieces]: the bitfield each remote sends
    Flaky,        \* peers whose dial or download may fail at any time
    Corrupt,      \* peers that may deliver data with a wrong SHA1
    DiskMayFail,  \* whether WriteAt may fail
    MinWorkCap,   \* least capacity of m.work (256 in the code)
    ResultsCap,   \* capacity of m.results (64 in the code)
    Clients,      \* requests of the API that may be under way at a time
    MaxRestarts   \* bound: restarts of the program in a behaviour

Pieces == 0 .. PieceCount - 1

\* "no piece in hand"
NoPiece == PieceCount

ASSUME SessionAssumption ==
    /\ PieceCount \in Nat \ {0}
    /\ IsFiniteSet(Peers)
    /\ Holds \in [Peers -> SUBSET Pieces]
    /\ Flaky \subseteq Peers /\ Corrupt \subseteq Peers
    /\ DiskMayFail \in BOOLEAN
    /\ IsFiniteSet(Clients)
    /\ MinWorkCap \in Nat /\ ResultsCap \in Nat \ {0} /\ MaxRestarts \in Nat

VARIABLES
    feed,      \* pieces still in the channel WorkQueue() returned (ascending)
    feeding,   \* the piece in the feeder goroutine's hand
    work,      \* m.work
    at,        \* where each download goroutine is
    hand,      \* the piece it holds
    misses,    \* its count of rejected pieces
    results,   \* m.results
    collector, \* where runSession's collector loop is
    cur,       \* the result the collector is handling
    rejected,  \* history: pieces whose WritePiece returned an error
    stored,    \* storage.Manager.bf
    have,      \* Scheduler.have
    tbf,       \* Torrent.Bitfield, shared with the peer manager's m.bf
    announced, \* pieces BroadcastHave was called for
    state,     \* Torrent.State
    request,   \* where a Pause or Resume under way is
    mquit,     \* the peer manager's quit channel is closed
    squit,     \* the session's quit channel is closed
    stquit,    \* the storage manager's quit channel is closed
    writer,    \* storage.writerLoop is running
    teardown,  \* how far Remove or Shutdown has come
    onDisk,    \* durable: pieces whose verified bytes are in the files
    saved,     \* durable: the fast-resume record ({} when there is none)
    restarts   \* number of restarts so far

queueVars == <<feed, feeding, work, results>>
peerVars  == <<at, hand, misses>>
collVars  == <<collector, cur, rejected>>
claimVars == <<stored, have, tbf, announced>>
diskVars  == <<onDisk, saved>>
ctlVars   == <<state, request, mquit, squit, stquit, writer, teardown, restarts>>
vars == <<queueVars, peerVars, collVars, claimVars, diskVars, ctlVars>>

Result == [piece : Pieces, good : BOOLEAN]
NoResult == [piece |-> NoPiece, good |-> FALSE]

----------------------------------------------------------------------------
\* What NewManager, scheduler.New and WorkQueue build from a bitfield.

\* (mutant) a capacity that ignores the piece count
FixedCapacity == MinWorkCap

WorkQueueCapacity == IF PieceCount < MinWorkCap THEN MinWorkCap ELSE PieceCount

OutstandingWork(bf) == Pieces \ bf

StartSession(bf) ==
    /\ feed' = OutstandingWork(bf)
    /\ feeding' = NoPiece
    /\ work' = <<>> /\ results' = <<>>
    /\ at' = [p \in Peers |-> "off"]
    /\ hand' = [p \in Peers |-> NoPiece]
    /\ misses' = [p \in Peers |-> 0]
    /\ collector' = "select" /\ cur' = NoResult /\ rejected' = {}
    /\ stored' = {} /\ have' = bf /\ tbf' = bf /\ announced' = {}
    /\ state' = "downloading" /\ request' = [c \in Clients |-> "none"]
    /\ mquit' = FALSE /\ squit' = FALSE /\ stquit' = FALSE
    /\ writer' = TRUE /\ teardown' = "none"

Init ==
    /\ feed = OutstandingWork({})
    /\ feeding = NoPiece
    /\ work = <<>> /\ results = <<>>
    /\ at = [p \in Peers |-> "off"]
    /\ hand = [p \in Peers |-> NoPiece]
    /\ misses = [p \in Peers |-> 0]
    /\ collector = "select" /\ cur = NoResult /\ rejected = {}
    /\ stored = {} /\ have = {} /\ tbf = {} /\ announced = {}
    /\ state = "downloading" /\ request = [c \in Clients |-> "none"]
    /\ mquit = FALSE /\ squit = FALSE /\ stquit = FALSE
    /\ writer = TRUE /\ teardown = "none"
    /\ onDisk = {} /\ saved = {}
    /\ restarts = 0

----------------------------------------------------------------------------
\* The feeder goroutine of runSession.  FeederQuit is its return: the piece
\* in its hand, and those left in the channel, go nowhere any more.

FeederTake ==
    /\ feeding = NoPiece
    /\ \E i \in feed :
        /\ \A j \in feed : i <= j
        /\ feeding' = i
        /\ feed' = feed \ {i}
    /\ UNCHANGED <<work, results, peerVars, collVars, claimVars, diskVars, ctlVars>>

FeederPut ==
    /\ feeding # NoPiece
    /\ Len(work) < WorkQueueCapacity
    /\ work' = Append(work, feeding)
    /\ feeding' = NoPiece
    /\ UNCHANGED <<feed, results, peerVars, collVars, claimVars, diskVars, ctlVars>>

FeederQuit ==
    /\ squit
    /\ feed' = {} /\ feeding' = NoPiece
    /\ UNCHANGED <<work, results, peerVars, collVars, claimVars, diskVars, ctlVars>>

----------------------------------------------------------------------------
\* downloadFromPeer, one goroutine per connection.  Manager.Run's select may
\* prefer a batch of addresses to m.quit, so a dial is not guarded by mquit.

Dial(p) ==
    /\ at[p] = "off"
    /\ at' = [at EXCEPT ![p] = "dialing"]
    /\ UNCHANGED <<queueVars, hand, misses, collVars, claimVars, diskVars, ctlVars>>

\* handshake done, awaitReady returned nil: bitfield known, unchoked
Connect(p) ==
    /\ at[p] = "dialing"
    /\ at' = [at EXCEPT ![p] = "loop"]
    /\ UNCHANGED <<queueVars, hand, misses, collVars, claimVars, diskVars, ctlVars>>

\* Stop closes the connections of the pool, which fails awaitReady's read
DialFails(p) ==
    /\ at[p] = "dialing"
    /\ p \in Flaky \/ mquit
    /\ at' = [at EXCEPT ![p] = "off"]
    /\ UNCHANGED <<queueVars, hand, misses, collVars, claimVars, diskVars, ctlVars>>

Take(p) ==
    /\ at[p] = "loop" /\ work # <<>>
    /\ hand' = [hand EXCEPT ![p] = Head(work)]
    /\ work' = Tail(work)
    /\ at' = [at EXCEPT ![p] = IF Head(work) \in Holds[p] THEN "fetch" ELSE "reject"]
    /\ misses' = [misses EXCEPT ![p] = IF Head(work) \in Holds[p] THEN 0 ELSE @]
    /\ UNCHANGED <<feed, feeding, results, collVars, claimVars, diskVars, ctlVars>>

\* requeue: with room the send is ready; a closed m.quit is ready too and the
\* select may take either, dropping the piece.  The goroutine started when
\* neither is ready is left out: RequeueNeverBlocks shows it never is.
Requeue(p) ==
    \/ Len(work) < WorkQueueCapacity /\ work' = Append(work, hand[p])
    \/ mquit /\ work' = work

Reject(p) ==
    /\ at[p] = "reject"
    /\ Requeue(p)
    /\ hand' = [hand EXCEPT ![p] = NoPiece]
    /\ misses' = [misses EXCEPT ![p] = @ + 1]
    /\ at' = [at EXCEPT ![p] = "count"]
    /\ UNCHANGED <<feed, feeding, results, collVars, claimVars, diskVars, ctlVars>>

\* the read of len(m.work) is a step of its own: others use the queue meanwhile
CountMiss(p) ==
    /\ at[p] = "count"
    /\ at' = [at EXCEPT ![p] = IF misses[p] > Len(work) THEN "nap" ELSE "loop"]
    /\ misses' = [misses EXCEPT ![p] = IF @ > Len(work) THEN 0 ELSE @]
    /\ UNCHANGED <<queueVars, hand, collVars, claimVars, diskVars, ctlVars>>

Wake(p) ==
    /\ at[p] = "nap"
    /\ at' = [at EXCEPT ![p] = "loop"]
    /\ UNCHANGED <<queueVars, hand, misses, collVars, claimVars, diskVars, ctlVars>>

Downloaded(p) ==
    /\ at[p] = "fetch"
    /\ at' = [at EXCEPT ![p] = "deliver"]
    /\ UNCHANGED <<queueVars, hand, misses, collVars, claimVars, diskVars, ctlVars>>

\* (mutant) a failed download is not requeued
DownloadForgotten(p) ==
    /\ at[p] = "fetch"
    /\ p \in Flaky \/ mquit
    /\ hand' = [hand EXCEPT ![p] = NoPiece]
    /\ misses' = [misses EXCEPT ![p] = 0]
    /\ at' = [at EXCEPT ![p] = "off"]
    /\ UNCHANGED <<queueVars, collVars, claimVars, diskVars, ctlVars>>

DownloadFails(p) ==
    /\ at[p] = "fetch"
    /\ p \in Flaky \/ mquit
    /\ Requeue(p)
    /\ hand' = [hand EXCEPT ![p] = NoPiece]
    /\ misses' = [misses EXCEPT ![p] = 0]
    /\ at' = [at EXCEPT ![p] = "off"]
    /\ UNCHANGED <<feed, feeding, results, collVars, claimVars, diskVars, ctlVars>>

\* (mutant) a deferred requeue that also runs on success
DeliverAndRequeue(p) ==
    /\ at[p] = "deliver" /\ Len(results) < ResultsCap
    /\ results' = Append(results, [piece |-> hand[p], good |-> TRUE])
    /\ Requeue(p)
    /\ hand' = [hand EXCEPT ![p] = NoPiece]
    /\ at' = [at EXCEPT ![p] = "loop"]
    /\ UNCHANGED <<feed, feeding, misses, collVars, claimVars, diskVars, ctlVars>>

Deliver(p) ==
    /\ at[p] = "deliver" /\ Len(results) < ResultsCap
    /\ \E good \in {TRUE} \cup {b \in {FALSE} : p \in Corrupt} :
        results' = Append(results, [piece |-> hand[p], good |-> good])
    /\ hand' = [hand EXCEPT ![p] = NoPiece]
    /\ at' = [at EXCEPT ![p] = "loop"]
    /\ UNCHANGED <<feed, feeding, work, misses, collVars, claimVars, diskVars, ctlVars>>

\* the <-m.quit cases of the loop, of the nap and of the send to m.results
Leave(p) ==
    /\ mquit
    /\ at[p] \in {"loop", "nap", "deliver"}
    /\ hand' = [hand EXCEPT ![p] = NoPiece]
    /\ misses' = [misses EXCEPT ![p] = 0]
    /\ at' = [at EXCEPT ![p] = "off"]
    /\ UNCHANGED <<queueVars, collVars, claimVars, diskVars, ctlVars>>

PeerStep(p) ==
    \/ Dial(p) \/ Connect(p) \/ DialFails(p)
    \/ Take(p) \/ Reject(p) \/ CountMiss(p) \/ Wake(p)
    \/ Downloaded(p) \/ DownloadFails(p) \/ Deliver(p) \/ Leave(p)

----------------------------------------------------------------------------
\* The collector: runSession's own loop, and the storage writer it waits for.

Collect ==
    /\ collector = "select" /\ results # <<>>
    /\ cur' = Head(results)
    /\ results' = Tail(results)
    /\ collector' = "write"
    /\ UNCHANGED <<feed, feeding, work, peerVars, rejected, claimVars, diskVars, ctlVars>>

\* writePiece verified the SHA1 and wrote every region
WriteOK ==
    /\ collector = "write" /\ writer /\ cur.good
    /\ onDisk' = onDisk \cup {cur.piece}
    /\ stored' = stored \cup {cur.piece}
    /\ collector' = "mark"
    /\ UNCHANGED <<queueVars, peerVars, cur, rejected, have, tbf, announced, saved, ctlVars>>

\* (mutant) the error branch without its continue
WriteErrorIgnored ==
    /\ collector = "write" /\ writer
    /\ ~cur.good \/ DiskMayFail \/ stquit
    /\ rejected' = rejected \cup {cur.piece}
    /\ collector' = "mark"
    /\ UNCHANGED <<queueVars, peerVars, cur, claimVars, diskVars, ctlVars>>

\* WritePiece returned an error: ReturnWork deletes an inFlight entry that
\* nothing here ever made, and the loop continues
WriteFails ==
    /\ collector = "write" /\ writer
    /\ ~cur.good \/ DiskMayFail \/ stquit
    /\ rejected' = rejected \cup {cur.piece}
    /\ cur' = NoResult
    /\ collector' = "select"
    /\ UNCHANGED <<queueVars, peerVars, claimVars, diskVars, ctlVars>>

\* (mutant) the result is released before Torrent.Bitfield is set
MarkAndRelease ==
    /\ collector = "mark"
    /\ have' = have \cup {cur.piece}
    /\ collector' = "setbit"
    /\ cur' = NoResult
    /\ UNCHANGED <<queueVars, peerVars, rejected, stored, tbf, announced, diskVars, ctlVars>>

MarkComplete ==
    /\ collector = "mark"
    /\ have' = have \cup {cur.piece}
    /\ collector' = "setbit"
    /\ UNCHANGED <<queueVars, peerVars, cur, rejected, stored, tbf, announced, diskVars, ctlVars>>

SetPiece ==
    /\ collector = "setbit"
    /\ tbf' = tbf \cup {cur.piece}
    /\ collector' = "announce"
    /\ UNCHANGED <<queueVars, peerVars, cur, rejected, stored, have, announced, diskVars, ctlVars>>

BroadcastHave ==
    /\ collector = "announce"
    /\ announced' = announced \cup {cur.piece}
    /\ collector' = "check"
    /\ UNCHANGED <<queueVars, peerVars, cur, rejected, stored, have, tbf, diskVars, ctlVars>>

\* (mutant) done one piece early
AlmostComplete == Cardinality(have) + 1 >= PieceCount

AllComplete == Cardinality(have) = PieceCount

CheckMore ==
    /\ collector = "check" /\ ~AllComplete
    /\ collector' = "select" /\ cur' = NoResult
    /\ UNCHANGED <<queueVars, peerVars, rejected, claimVars, diskVars, ctlVars>>

\* dbSaveFastResume, State = Seeding, cancel, return
Finish ==
    /\ collector = "check" /\ AllComplete
    /\ saved' = stored
    /\ state' = "seeding"
    /\ collector' = "finished" /\ cur' = NoResult
    /\ UNCHANGED <<queueVars, peerVars, rejected, claimVars, onDisk,
                   request, mquit, squit, stquit, writer, teardown, restarts>>

FastResumeTick ==
    /\ collector = "select"
    /\ saved' = stored
    /\ UNCHANGED <<queueVars, peerVars, collVars, claimVars, onDisk, ctlVars>>

CollectorQuit ==
    /\ collector = "select" /\ squit
    /\ collector' = "quit"
    /\ UNCHANGED <<queueVars, peerVars, cur, rejected, claimVars, diskVars, ctlVars>>

WriterQuit ==
    /\ writer /\ stquit
    /\ writer' = FALSE
    /\ UNCHANGED <<queueVars, peerVars, collVars, claimVars, diskVars,
                   state, request, mquit, squit, stquit, teardown, restarts>>

CollectorStep ==
    \/ Collect \/ WriteOK \/ WriteFails \/ MarkComplete \/ SetPiece
    \/ BroadcastHave \/ CheckMore \/ Finish \/ FastResumeTick
    \/ CollectorQuit \/ WriterQuit

----------------------------------------------------------------------------
\* The engine's operations on the session.

\* Pause and Resume find the session under e.mu and go on without a lock: the
\* write of the state and Stop, and the check and the write it decides, are
\* steps of their own, between which the collector and other requests run.
Pause(c) ==
    /\ teardown = "none" /\ request[c] = "none"
    /\ state' = "paused"
    /\ request' = [request EXCEPT ![c] = "pausing"]
    /\ UNCHANGED <<queueVars, peerVars, collVars, claimVars, diskVars,
                   mquit, squit, stquit, writer, teardown, restarts>>

PauseStop(c) ==
    /\ request[c] = "pausing"
    /\ mquit' = TRUE
    /\ request' = [request EXCEPT ![c] = "none"]
    /\ UNCHANGED <<queueVars, peerVars, collVars, claimVars, diskVars,
                   state, squit, stquit, writer, teardown, restarts>>

ResumeCheck(c) ==
    /\ teardown = "none" /\ request[c] = "none"
    /\ state = "paused"
    /\ request' = [request EXCEPT ![c] = "resuming"]
    /\ UNCHANGED <<queueVars, peerVars, collVars, claimVars, diskVars,
                   state, mquit, squit, stquit, writer, teardown, restarts>>

Resume(c) ==
    /\ request[c] = "resuming"
    /\ state' = "downloading"
    /\ request' = [request EXCEPT ![c] = "none"]
    /\ UNCHANGED <<queueVars, peerVars, collVars, claimVars, diskVars,
                   mquit, squit, stquit, writer, teardown, restarts>>

ClientStep(c) == Pause(c) \/ PauseStop(c) \/ ResumeCheck(c) \/ Resume(c)

\* Remove: map entry deleted, close(sess.quit); then Stop, Close, dbDelete
Remove ==
    /\ teardown = "none"
    /\ squit' = TRUE /\ teardown' = "stop"
    /\ UNCHANGED <<queueVars, peerVars, collVars, claimVars, diskVars,
                   state, request, mquit, stquit, writer, restarts>>

\* Shutdown: dbSaveFastResume; then Stop, Close.  It leaves sess.quit open.
Shutdown ==
    /\ teardown = "none"
    /\ saved' = stored
    /\ teardown' = "stop"
    /\ UNCHANGED <<queueVars, peerVars, collVars, claimVars, onDisk,
                   state, request, mquit, squit, stquit, writer, restarts>>

StopPeers ==
    /\ teardown = "stop"
    /\ mquit' = TRUE /\ teardown' = "close"
    /\ UNCHANGED <<queueVars, peerVars, collVars, claimVars, diskVars,
                   state, request, squit, stquit, writer, restarts>>

CloseStorage ==
    /\ teardown = "close"
    /\ stquit' = TRUE
    /\ teardown' = IF squit THEN "delete" ELSE "done"
    /\ UNCHANGED <<queueVars, peerVars, collVars, claimVars, diskVars,
                   state, request, mquit, squit, writer, restarts>>

DeleteRecord ==
    /\ teardown = "delete"
    /\ saved' = {}
    /\ teardown' = "removed"
    /\ UNCHANGED <<queueVars, peerVars, collVars, claimVars, onDisk,
                   state, request, mquit, squit, stquit, writer, restarts>>

\* The program exits or crashes, starts again and RestoreFromDB finds the
\* torrent's record: everything volatile is rebuilt from the fast-resume data.
Restart ==
    /\ restarts < MaxRestarts
    /\ teardown # "removed"
    /\ StartSession(saved)
    /\ restarts' = restarts + 1
    /\ UNCHANGED diskVars

EngineStep ==
    \/ \E c \in Clients : ClientStep(c)
    \/ Remove \/ Shutdown
    \/ StopPeers \/ CloseStorage \/ DeleteRecord \/ Restart

Next ==
    \/ FeederTake \/ FeederPut \/ FeederQuit
    \/ \E p \in Peers : PeerStep(p)
    \/ CollectorStep
    \/ EngineStep

Spec == Init /\ [][Next]_vars

----------------------------------------------------------------------------
(***************************************************************************)
(* Scheduling.  Every goroutine that can run does (WF), and one that waits *)
(* to receive from m.work is served in its turn whoever else receives from *)
(* it (SF): a channel queues its receivers.  Nothing is said of how long a *)
(* nap lasts, and nothing is assumed of faults, of the clients' requests   *)
(* or of the ticker.                                                       *)
(***************************************************************************)
Fairness ==
    /\ WF_vars(FeederTake) /\ WF_vars(FeederPut)
    /\ \A p \in Peers :
        /\ WF_vars(Dial(p)) /\ WF_vars(Connect(p))
        /\ SF_vars(Take(p))
        /\ WF_vars(Reject(p)) /\ WF_vars(CountMiss(p)) /\ WF_vars(Wake(p))
        /\ WF_vars(Downloaded(p) \/ DownloadFails(p)) /\ WF_vars(Deliver(p))
    /\ WF_vars(Collect) /\ WF_vars(WriteOK \/ WriteFails)
    /\ WF_vars(MarkComplete) /\ WF_vars(SetPiece) /\ WF_vars(BroadcastHave)
    /\ WF_vars(CheckMore \/ Finish)
    /\ WF_vars(StopPeers \/ CloseStorage \/ DeleteRecord)

FairSpec == Spec /\ Fairness

----------------------------------------------------------------------------
(***************************************************************************)
(* Properties.                                                             *)
(***************************************************************************)

\* Every variable stays in its type.
TypeOK ==
    /\ feed \subseteq Pieces
    /\ feeding \in Pieces \cup {NoPiece}
    /\ work \in Seq(Pieces)
    /\ at \in [Peers -> {"off", "dialing", "loop", "reject", "count", "nap",
                         "fetch", "deliver"}]
    /\ hand \in [Peers -> Pieces \cup {NoPiece}]
    /\ misses \in [Peers -> Nat]
    /\ results \in Seq(Result)
    /\ collector \in {"select", "write", "mark", "setbit", "announce", "check",
                      "finished", "quit"}
    /\ cur \in Result \cup {NoResult}
    /\ rejected \subseteq Pieces
    /\ stored \subseteq Pieces /\ have \subseteq Pieces
    /\ tbf \subseteq Pieces /\ announced \subseteq Pieces
    /\ state \in {"downloading", "paused", "seeding"}
    /\ request \in [Clients -> {"none", "pausing", "resuming"}]
    /\ mquit \in BOOLEAN /\ squit \in BOOLEAN /\ stquit \in BOOLEAN
    /\ writer \in BOOLEAN
    /\ teardown \in {"none", "stop", "close", "delete", "removed", "done"}
    /\ onDisk \subseteq Pieces /\ saved \subseteq Pieces
    /\ restarts \in Nat

\* The places a piece can be, in the order it passes through them:
\* feed, InFeeder, Queued, Hands, Delivered, InCollector, have.
InFeeder    == {feeding} \ {NoPiece}
Queued      == {work[k] : k \in DOMAIN work}
Hands       == {hand[p] : p \in Peers} \ {NoPiece}
Delivered   == {results[k].piece : k \in DOMAIN results}
InCollector == IF collector \in {"write", "mark"} THEN {cur.piece} ELSE {}

Accounted ==
    feed \cup InFeeder \cup Queued \cup Hands \cup Delivered \cup InCollector \cup have

StagesApart ==
    /\ feed \cap (InFeeder \cup Queued \cup Hands \cup Delivered \cup InCollector \cup have) = {}
    /\ InFeeder \cap (Queued \cup Hands \cup Delivered \cup InCollector \cup have) = {}
    /\ Queued \cap (Hands \cup Delivered \cup InCollector \cup have) = {}
    /\ Hands \cap (Delivered \cup InCollector \cup have) = {}
    /\ Delivered \cap (InCollector \cup have) = {}
    /\ InCollector \cap have = {}

QueuedOnce    == \A j, k \in DOMAIN work : work[j] = work[k] => j = k
DeliveredOnce == \A j, k \in DOMAIN results : results[j].piece = results[k].piece => j = k
HeldOnce      == \A p, q \in Peers : hand[p] = hand[q] /\ hand[p] # NoPiece => p = q

\* A piece is in one place at a time, once: never queued or downloaded twice
\* over, and never queued again once the scheduler has it, however takes,
\* requeues, failures, stops and restarts interleave (manager.go requeue and
\* downloadFromPeer, engine.go feeder and collector).
UniqueCustody == StagesApart /\ QueuedOnce /\ DeliveredOnce /\ HeldOnce

\* A peer that has to put a piece back finds room in m.work: the claim of
\* workQueueCapacity's comment, on which requeue never blocking rests.
RequeueNeverBlocks ==
    \A p \in Peers : at[p] \in {"reject", "fetch"} => Len(work) < WorkQueueCapacity

\* While nobody stopped the session, a piece is somewhere in the pipeline,
\* complete, or was refused by WritePiece: nothing else ever loses one.
OnlyRejectedLost ==
    ~mquit /\ ~squit => Pieces = Accounted \cup rejected

\* What a peer is told (bitfield on connect, Have), what the scheduler and
\* the API call complete, and what the fast-resume record claims has been
\* verified and written, in this run or in one before a crash.
ClaimsOnDisk ==
    /\ announced \subseteq tbf
    /\ tbf \subseteq have
    /\ have \subseteq onDisk
    /\ stored \subseteq onDisk
    /\ saved \subseteq onDisk

\* A torrent shown as seeding has every piece, on disk and in the bitfield it
\* shows peers, and no piece of it is still on its way.
SeedingComplete ==
    state = "seeding" =>
        /\ tbf = Pieces /\ onDisk = Pieces
        /\ feed = {} /\ work = <<>> /\ Hands = {} /\ results = <<>>

\* Resumed with every piece in the record, there is nothing to collect.
RestoredComplete == have = Pieces /\ collector = "select"

\* If one peer holds every piece and neither fails nor corrupts, then unless it
\* is stopped or a write is refused the session in the end verifies every
\* piece: what other peers take, cannot serve, put back, fail with and take
\* again, however their naps fall, starves nobody.
EventuallyComplete ==
    <>[](collector = "finished" \/ RestoredComplete \/ mquit \/ squit \/ rejected # {})

----------------------------------------------------------------------------
\* The inductive strengthening the proofs use.

\* a download goroutine holds a piece exactly between the take and the
\* requeue or the delivery
HandBusy == \A p \in Peers :
    hand[p] # NoPiece <=> at[p] \in {"reject", "fetch", "deliver"}

\* the collector has a result in hand between Collect and the check
CurBusy ==
    collector \in {"write", "mark", "setbit", "announce", "check"} => cur \in Result

TypeInv == TypeOK /\ HandBusy /\ CurBusy

\* the order verify, MarkComplete, SetPiece, BroadcastHave of the collector
ClaimOrder ==
    /\ ClaimsOnDisk
    /\ collector = "mark" => cur.piece \in onDisk
    /\ collector = "setbit" => have = tbf \cup {cur.piece}
    /\ collector # "setbit" => have = tbf
    /\ collector \in {"announce", "check"} => cur.piece \in tbf

SeedingFinished ==
    state = "seeding" => collector = "finished" /\ have = Pieces

IInv == TypeInv /\ UniqueCustody /\ ClaimOrder /\ SeedingFinished /\ OnlyRejectedLost

\* no receive but the one that finishes the torrent, or the quit channel, ends
\* the collector; the storage writer outlives it unless the peers were stopped
CollectorEnds ==
    /\ collector = "finished" => have = Pieces
    /\ collector = "quit" => squit
    /\ ~writer => stquit
    /\ stquit => mquit
    /\ teardown \in {"close", "delete", "removed", "done"} => mquit

\* the guards under which the feeder, a download goroutine and the collector
\* (with the writer it waits for) get past the channel they are at
FeederReady ==
    IF feeding = NoPiece THEN feed # {} ELSE Len(work) < WorkQueueCapacity

PeerReady(p) ==
    /\ at[p] = "loop" => work # <<>>
    /\ at[p] \in {"reject", "fetch"} => Len(work) < WorkQueueCapacity
    /\ at[p] = "deliver" => Len(results) < ResultsCap

CollectorReady ==
    /\ collector \notin {"finished", "quit"}
    /\ collector = "select" => results # <<>>
    /\ collector = "write" => writer

\* A peer with a piece to put back always finds room.  The goroutines of a
\* session nobody stopped never all wait for one another while a piece is
\* neither complete nor refused; its feeder always finds room, and a peer that
\* waits to deliver waits for a collector that goes on (runSession,
\* downloadFromPeer, WritePiece).
NeverStuck ==
    /\ RequeueNeverBlocks
    /\ ~mquit /\ ~squit =>
        /\ feeding # NoPiece => FeederReady
        /\ \A p \in Peers : at[p] = "deliver" => PeerReady(p) \/ CollectorReady
        /\ Peers # {} /\ Pieces # have \cup rejected =>
            FeederReady \/ CollectorReady \/ \E p \in Peers : PeerReady(p)

----------------------------------------------------------------------------
\* The abstract specification the session implements: queues, peers and the
\* collector are hidden, the sets of pieces are seen as they are.
Ledger == INSTANCE PieceLedger WITH
    disk <- onDisk, record <- saved, run <- stored, known <- have,
    shown <- tbf, told <- announced, status <- state

\* Pieces are verified one at a time and at most once per run, each is known,
\* shown and told in this order before the next, seeding starts only when all
\* are, and a restart claims what the record did: every step of the session is
\* one of the ledger's or changes none of this (engine.go runSession, with the
\* queues, peers, stops, failures and crashes around it).
ImplementsLedger == Ledger!Spec

\* (inductive, for the refinement) the collector handles one verified piece at
\* a time, which nobody has been told of yet
OnePieceAtATime ==
    IF collector \in {"mark", "setbit", "announce"}
    THEN stored = announced \cup {cur.piece} /\ cur.piece \notin announced
    ELSE stored = announced

----------------------------------------------------------------------------
\* What the code and its documents say, and the code does not do.

\* engine.go:659 "Hash mismatch: return piece to work queue."
NoPieceLost == ~mquit /\ ~squit => Pieces = Accounted

============================================================================

----------------------------- MODULE Tracker -----------------------------
(***************************************************************************)
(* The tracker client of one session: MultiTracker.AnnounceLoop, the       *)
(* announces it fans out to every tracker at once, and the exchange of     *)
(* datagrams behind a UDP announce.                                        *)
(*                                                                         *)
(* MultiTracker.Announce returns with the first answer and leaves its      *)
(* other goroutines running, so announces of several rounds may be under   *)
(* way at one tracker, all of them on the one socket of its udpClient:     *)
(* whichever of them reads first takes the datagram, whoever asked for it. *)
(* A request that is sent again after a timeout is the same request; its   *)
(* second answer stays in the socket for the next reader.  The loop         *)
(* implements AnnounceRounds whatever happens there.                       *)
(*                                                                         *)
(* Transaction identifiers are random 32-bit numbers in the code; here     *)
(* every exchange has its own, named by its round and its kind.            *)
(***************************************************************************)
EXTENDS Naturals, Sequences, FiniteSets

CONSTANTS
    Udp,         \* UDP trackers of the torrent
    Http,        \* HTTP trackers of the torrent
    Refusing,    \* UDP trackers that may answer with an error
    Attempts,    \* times sendWithRetry sends a request
    MaxDelay,    \* longest backoff, in units of the shortest
    PeersCap,    \* capacity of the channel of peer lists
    MaxRounds,   \* bound: rounds of announces a behaviour may hold
    NetCap,      \* bound: requests under way to one tracker at once
    SocketCap    \* bound: datagrams a socket holds

Trackers == Udp \cup Http
Rounds == 1..MaxRounds
Events == {"started", "regular", "stopped"}

ASSUME TrackerAssumption ==
    /\ Udp \cap Http = {}
    /\ Refusing \subseteq Udp
    /\ IsFiniteSet(Trackers)
    /\ Attempts \in Nat \ {0}
    /\ MaxDelay \in Nat \ {0}
    /\ PeersCap \in Nat \ {0}
    /\ MaxRounds \in Nat \ {0, 1}
    /\ NetCap \in Nat
    /\ SocketCap \in Nat

VARIABLES
    loop,       \* where AnnounceLoop is
    event,      \* its variable event; the empty event is "regular"
    round,      \* number of the round last started, 0 before the first
    said,       \* said[r]: the event of round r
    delay,      \* the backoff's next wait
    cancelled,  \* the session's context is done
    peers,      \* number of peer lists in the channel
    calls,      \* calls[r][t]: Client.Announce of round r at tracker t
    net,        \* requests under way to UDP trackers
    inbox,      \* inbox[t]: answers in the socket of t's client
    answered,   \* <<t, e>>: an answer of t to an announce of event e arrived
    misled      \* an announce took an error sent to a connect for its answer

loopVars == <<loop, event, round, said, delay, peers>>
heardVars == <<answered, misled>>
netVars == <<net, inbox, heardVars>>
vars == <<loopVars, cancelled, calls, netVars>>

Idle == [at |-> "idle", attempt |-> 0, conn |-> 0]
Positions == {"idle", "connecting", "announcing", "request", "ok", "failed"}

(* A request names its round; an announce also whose connection it uses. *)
Requests == [t : Udp, kind : {"connect", "announce"}, round : Rounds,
             attempt : 1..Attempts, conn : 0..MaxRounds]

(* Of an answer the client looks at two things: which connect it belongs   *)
(* to (none is 0), and whether it could be an announce answer, which any   *)
(* datagram of 20 bytes and whole peers after them is.  What it answers    *)
(* is told apart for the properties only; the client does not look.        *)
Answers == [to : {"connect", "announce"}, connect : 0..MaxRounds, parses : BOOLEAN]

----------------------------------------------------------------------------

Init ==
    /\ loop = "start"
    /\ event = "started"
    /\ round = 0
    /\ said = [r \in Rounds |-> "regular"]
    /\ delay = 1
    /\ cancelled = FALSE
    /\ peers = 0
    /\ calls = [r \in Rounds |-> [t \in Trackers |-> Idle]]
    /\ net = {}
    /\ inbox = [t \in Udp |-> <<>>]
    /\ answered = {}
    /\ misled = FALSE

(* The session.  Its reader of peer lists goes away when the session is   *)
(* stopped, before the context is cancelled: it is never bound to read.    *)
Cancel ==
    /\ ~cancelled
    /\ cancelled' = TRUE
    /\ UNCHANGED <<loopVars, calls, netVars>>

ReadPeers ==
    /\ peers > 0
    /\ peers' = peers - 1
    /\ UNCHANGED <<loop, event, round, said, delay, cancelled, calls, netVars>>

----------------------------------------------------------------------------
(* MultiTracker.Announce and AnnounceLoop.                                 *)

Request(r, t, kind, attempt, conn) ==
    [t |-> t, kind |-> kind, round |-> r, attempt |-> attempt, conn |-> conn]

(* Bound: what is sent while NetCap requests are under way is lost. *)
Send(requests) ==
    net' = net \cup {d \in requests : Cardinality({e \in net : e.t = d.t}) < NetCap}

(* Announce starts one goroutine per client; those of UDP trackers send    *)
(* their connect. *)
FanOut(e) ==
    /\ round' = round + 1
    /\ said' = [said EXCEPT ![round + 1] = e]
    /\ calls' = [calls EXCEPT ![round + 1] =
                    [t \in Trackers |->
                        IF t \in Udp THEN [at |-> "connecting", attempt |-> 1, conn |-> 0]
                                     ELSE [at |-> "request", attempt |-> 0, conn |-> 0]]]
    /\ Send({Request(round + 1, t, "connect", 1, 0) : t \in Udp})

Announce ==
    /\ loop = "start"
    /\ FanOut(event)
    /\ loop' = "announcing"
    /\ UNCHANGED <<event, delay, peers, cancelled, inbox, heardVars>>

Succeeded(r) == \E t \in Trackers : calls[r][t].at = "ok"
Failed(r) == \A t \in Trackers : calls[r][t].at = "failed"

\* (mutant) event is not emptied after the first answer
AnnounceReturnsStarted ==
    /\ loop = "announcing"
    /\ Succeeded(round)
    /\ delay' = 1
    /\ loop' = "deliver"
    /\ UNCHANGED <<event, round, said, peers, cancelled, calls, netVars>>

(* The first answer wins; the other goroutines go on. *)
AnnounceReturns ==
    /\ loop = "announcing"
    /\ Succeeded(round)
    /\ delay' = 1
    /\ event' = "regular"
    /\ loop' = "deliver"
    /\ UNCHANGED <<round, said, peers, cancelled, calls, netVars>>

\* (mutant) the backoff has no maximum
AnnounceFailsUncapped ==
    /\ loop = "announcing"
    /\ Failed(round)
    /\ delay' = 2 * delay
    /\ loop' = "backoff"
    /\ UNCHANGED <<event, round, said, peers, cancelled, calls, netVars>>

AnnounceFails ==
    /\ loop = "announcing"
    /\ Failed(round)
    /\ delay' = IF 2 * delay > MaxDelay THEN MaxDelay ELSE 2 * delay
    /\ loop' = "backoff"
    /\ UNCHANGED <<event, round, said, peers, cancelled, calls, netVars>>

(* Bound: the last round of a behaviour is kept for the stopped event. *)
RoundLeft == round + 1 < MaxRounds

BackoffOver ==
    /\ loop = "backoff"
    /\ RoundLeft
    /\ loop' = "start"
    /\ UNCHANGED <<event, round, said, delay, peers, cancelled, calls, netVars>>

BackoffCancelled ==
    /\ loop = "backoff"
    /\ cancelled
    /\ loop' = "ended"
    /\ UNCHANGED <<event, round, said, delay, peers, cancelled, calls, netVars>>

DeliverPeers ==
    /\ loop = "deliver"
    /\ peers < PeersCap
    /\ peers' = peers + 1
    /\ loop' = "interval"
    /\ UNCHANGED <<event, round, said, delay, cancelled, calls, netVars>>

IntervalOver ==
    /\ loop = "interval"
    /\ RoundLeft
    /\ loop' = "start"
    /\ UNCHANGED <<event, round, said, delay, peers, cancelled, calls, netVars>>

\* (mutant) the peer list is sent without the ctx.Done case
SayStoppedLater ==
    /\ loop = "interval"
    /\ cancelled
    /\ FanOut("stopped")
    /\ loop' = "stopping"
    /\ UNCHANGED <<event, delay, peers, cancelled, inbox, heardVars>>

SayStopped ==
    /\ loop \in {"deliver", "interval"}
    /\ cancelled
    /\ FanOut("stopped")
    /\ loop' = "stopping"
    /\ UNCHANGED <<event, delay, peers, cancelled, inbox, heardVars>>

StoppedReturns ==
    /\ loop = "stopping"
    /\ Succeeded(round) \/ Failed(round)
    /\ loop' = "ended"
    /\ UNCHANGED <<event, round, said, delay, peers, cancelled, calls, netVars>>

----------------------------------------------------------------------------
(* udpClient.Announce: connect, then announce, each through sendWithRetry. *)

Move(r, t, at, attempt, conn) ==
    calls' = [calls EXCEPT ![r][t] = [at |-> at, attempt |-> attempt, conn |-> conn]]

Waiting(r, t) == calls[r][t].at \in {"connecting", "announcing"}

(* A write to the socket fails. *)
SendFails(r, t) ==
    /\ Waiting(r, t)
    /\ Move(r, t, "failed", 0, 0)
    /\ UNCHANGED <<loopVars, cancelled, netVars>>

(* The deadline passes: the same request again, or ErrTrackerUnreachable. *)
Resend(r, t) ==
    LET c == calls[r][t] IN
    /\ Waiting(r, t)
    /\ c.attempt < Attempts
    /\ Move(r, t, c.at, c.attempt + 1, c.conn)
    /\ Send({Request(r, t, IF c.at = "connecting" THEN "connect" ELSE "announce",
                     c.attempt + 1, c.conn)})
    /\ UNCHANGED <<loopVars, cancelled, inbox, heardVars>>

GiveUp(r, t) ==
    /\ Waiting(r, t)
    /\ calls[r][t].attempt = Attempts
    /\ Move(r, t, "failed", 0, 0)
    /\ UNCHANGED <<loopVars, cancelled, netVars>>

\* (mutant) the transaction identifier is not compared
IsAnyConnect(r, d) == d.connect # 0

(* connect looks at the action and the transaction identifier. *)
IsOwnConnect(r, d) == d.connect = r

\* (mutant) the length is not checked
IsAnyAnswer(r, d) == TRUE

(* announce only needs 20 bytes and whole peers after them. *)
IsAnnounceAnswer(r, d) == d.parses

(* (history) An error sent to a connect, with a text of such a length. *)
Misleads(d) == d.to = "connect" /\ d.parses

(* ReadFromUDP: the first datagram of the socket goes to whoever reads. *)
Take(t) ==
    /\ inbox[t] # <<>>
    /\ inbox' = [inbox EXCEPT ![t] = Tail(@)]

ReadConnect(r, t) ==
    /\ calls[r][t].at = "connecting"
    /\ Take(t)
    /\ LET d == Head(inbox[t]) IN
       IF IsOwnConnect(r, d)
         THEN /\ Move(r, t, "announcing", 1, d.connect)
              /\ Send({Request(r, t, "announce", 1, d.connect)})
         ELSE /\ Move(r, t, "failed", 0, 0)
              /\ UNCHANGED net
    /\ UNCHANGED <<loopVars, cancelled, heardVars>>

ReadAnnounce(r, t) ==
    /\ calls[r][t].at = "announcing"
    /\ Take(t)
    /\ LET d == Head(inbox[t])
           taken == IsAnnounceAnswer(r, d) IN
       /\ Move(r, t, IF taken THEN "ok" ELSE "failed", 0, 0)
       /\ misled' = (misled \/ (taken /\ Misleads(d)))
    /\ UNCHANGED <<loopVars, cancelled, net, answered>>

(* httpClient.Announce: one request over TCP, no retry.  The request may   *)
(* have reached the tracker when it fails.                                 *)
HttpAnswered(r, t) ==
    /\ calls[r][t].at = "request"
    /\ answered' = answered \cup {<<t, said[r]>>}
    /\ \E at \in {"ok", "failed"} : Move(r, t, at, 0, 0)
    /\ UNCHANGED <<loopVars, cancelled, net, inbox, misled>>

HttpFails(r, t) ==
    /\ calls[r][t].at = "request"
    /\ Move(r, t, "failed", 0, 0)
    /\ UNCHANGED <<loopVars, cancelled, netVars>>

----------------------------------------------------------------------------
(* The UDP trackers and the network between.  A request that is lost, or   *)
(* whose answer is lost, is never taken from net; requests overtake one    *)
(* another, and an answer counts from when it arrives.                     *)

Arrives(t, to, connect, parses) ==
    /\ Len(inbox[t]) < SocketCap
    /\ inbox' = [inbox EXCEPT ![t] =
                    Append(@, [to |-> to, connect |-> connect, parses |-> parses])]

(* A connect answer has 16 bytes: never an announce answer.  An error is   *)
(* no connect answer, but its text may have any length.                    *)
AnswerConnect(d) ==
    /\ d.kind = "connect"
    /\ net' = net \ {d}
    /\ \/ Arrives(d.t, "connect", d.round, FALSE)
       \/ d.t \in Refusing /\ \E parses \in BOOLEAN : Arrives(d.t, "connect", 0, parses)
    /\ UNCHANGED <<loopVars, cancelled, calls, heardVars>>

(* An answer with a list of peers, or an error: a text of any length. *)
AnswerAnnounce(d) ==
    /\ d.kind = "announce"
    /\ net' = net \ {d}
    /\ \E parses \in IF d.t \in Refusing THEN BOOLEAN ELSE {TRUE} :
          Arrives(d.t, "announce", 0, parses)
    /\ answered' = answered \cup {<<d.t, said[d.round]>>}
    /\ UNCHANGED <<loopVars, cancelled, calls, misled>>

----------------------------------------------------------------------------

LoopStep ==
    \/ Announce \/ AnnounceReturns \/ AnnounceFails \/ BackoffOver \/ BackoffCancelled
    \/ DeliverPeers \/ IntervalOver \/ SayStopped \/ StoppedReturns

UdpStep(r, t) ==
    \/ SendFails(r, t) \/ Resend(r, t) \/ GiveUp(r, t)
    \/ ReadConnect(r, t) \/ ReadAnnounce(r, t)

HttpStep(r, t) == HttpAnswered(r, t) \/ HttpFails(r, t)

NetStep ==
    \E d \in net : AnswerConnect(d) \/ AnswerAnnounce(d)

Next ==
    \/ Cancel \/ ReadPeers
    \/ LoopStep
    \/ \E r \in Rounds, t \in Udp : UdpStep(r, t)
    \/ \E r \in Rounds, t \in Http : HttpStep(r, t)
    \/ NetStep

Spec == Init /\ [][Next]_vars

(* The goroutines run, their deadlines pass and an HTTP request ends after *)
(* its 15 seconds at the latest.  Nothing is asked of the network, of the  *)
(* trackers or of the session.  The select of AnnounceLoop takes either of *)
(* two ready cases; a round that keeps being chosen over ctx.Done ends     *)
(* with the bound on rounds.                                               *)
Fairness ==
    /\ WF_vars(LoopStep)
    /\ \A r \in Rounds, t \in Udp : WF_vars(UdpStep(r, t))
    /\ \A r \in Rounds, t \in Http : WF_vars(HttpStep(r, t))

FairSpec == Spec /\ Fairness

----------------------------------------------------------------------------
(* Properties.                                                             *)

TypeOK ==
    /\ loop \in {"start", "announcing", "backoff", "deliver", "interval", "stopping", "ended"}
    /\ event \in {"started", "regular"}
    /\ round \in 0..MaxRounds
    /\ said \in [Rounds -> Events]
    /\ delay \in 1..MaxDelay
    /\ cancelled \in BOOLEAN
    /\ peers \in 0..PeersCap
    /\ calls \in [Rounds -> [Trackers -> [at : Positions, attempt : 0..Attempts,
                                          conn : 0..MaxRounds]]]
    /\ net \subseteq Requests
    /\ inbox \in [Udp -> Seq(Answers)]
    /\ answered \subseteq Trackers \X Events
    /\ misled \in BOOLEAN

(* An announce carries the connection identifier that was given to its own *)
(* connect (udp.go:36-41), never one left in the socket by an earlier      *)
(* round, which the tracker has long forgotten.                            *)
ConnIdIsOwn ==
    \A d \in net : d.kind = "announce" => d.conn = d.round

(* A tracker has answered an announce that said started. *)
Heard == \E t \in Trackers : <<t, "started">> \in answered

(* The client has reason to think so. *)
SeemsHeard == Heard \/ misled

(* The loop stops saying started (client.go:135) only when a tracker has   *)
(* answered an announce that said it, however the answers on the shared    *)
(* socket were exchanged between readers - or when an announce took for    *)
(* its answer an error that was sent to a connect (udp.go:87-105 looks at  *)
(* neither action nor transaction), the one way to be silent unheard.      *)
StartedIsHeard == event # "started" => SeemsHeard

(* A round says started exactly when every client of every earlier round   *)
(* failed (client.go:123-135).                                             *)
StartedUntilAnswered ==
    \A r \in 1..round : said[r] = "started" <=> \A q \in 1..(r - 1) : Failed(q)

(* Once the session's context is cancelled the loop ends, whoever reads    *)
(* the peer lists and whatever the trackers answer.                        *)
LoopEnds == cancelled ~> loop = "ended"

(* A round that has not ended has a call that still can step: a deadline   *)
(* of an attempt that is left, or an HTTP request (client.go Announce      *)
(* waits for one answer or for all its clients, and for nothing else).     *)
RoundGoesOn ==
    loop \in {"announcing", "stopping"} =>
        \/ Succeeded(round) \/ Failed(round)
        \/ \E t \in Udp : Waiting(round, t) /\ calls[round][t].attempt \in 1..Attempts
        \/ \E t \in Http : calls[round][t].at = "request"

(* The steps a call may still take.                                        *)
StepsLeft(c) ==
    CASE c.at = "idle" -> 2 * Attempts + 2
      [] c.at = "connecting" -> 2 * Attempts + 2 - c.attempt
      [] c.at = "announcing" -> Attempts + 1 - c.attempt
      [] c.at = "request" -> 1
      [] OTHER -> 0

(* Whoever reads whose datagrams from the shared socket, each step of a    *)
(* call leaves it fewer, and no later round gives one back what it used    *)
(* up (udp.go sendWithRetry, client.go Announce).                          *)
CallsRunDown ==
    [][\A r \in Rounds, t \in Trackers :
          calls'[r][t] # calls[r][t] => StepsLeft(calls'[r][t]) < StepsLeft(calls[r][t])]_vars

----------------------------------------------------------------------------
(* The abstract specification the loop implements.  What a round ended     *)
(* with is read off its calls, which go on long after it was over.         *)

(* The rounds that have returned to the loop. *)
RoundsOver == IF loop \in {"announcing", "stopping"} THEN round - 1 ELSE round

Announced == INSTANCE AnnounceRounds WITH
    said <- [r \in 1..round |-> said[r]],
    ends <- [r \in 1..RoundsOver |-> IF Succeeded(r) THEN "answered" ELSE "failed"],
    heard <- SeemsHeard,
    over <- loop = "ended"

(* Rounds follow one another; each says started until one was answered and *)
(* regular from then on; stopped is said once, in the last round; what a   *)
(* round ended with stays, and none ends well before started was heard or  *)
(* an error sent to a connect was taken for an answer (client.go:122-148,  *)
(* over the goroutines, the retries and the shared sockets below it).      *)
(* Whether a loop that is cancelled says stopped is left open: its comment *)
(* (client.go:119-120) says so, its backoff (client.go:127-129) does not.  *)
ImplementsAnnounceRounds == Announced!Spec

(* (inductive, for the refinement) How the rounds that are over ended, and *)
(* that stopped is the last thing said.                                    *)
RoundInv ==
    /\ \A q \in 1..RoundsOver : Succeeded(q) \/ Failed(q)
    /\ loop \in {"deliver", "interval"} => round > 0 /\ Succeeded(round)
    /\ loop = "backoff" => round > 0 /\ Failed(round)
    /\ loop = "stopping" => round > 0 /\ said[round] = "stopped"
    /\ loop \notin {"stopping", "ended"} => \A r \in 1..round : said[r] # "stopped"

============================================================================

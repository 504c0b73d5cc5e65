-------------------------- MODULE TrackerProofs --------------------------
(***************************************************************************)
(* Proofs about Tracker, for every set of trackers, every number of        *)
(* attempts and every bound.                                               *)
(***************************************************************************)
EXTENDS Tracker, SequenceTheorems, TLAPS

Call == [at : Positions, attempt : 0..Attempts, conn : 0..MaxRounds]

(* A round is only begun when there is one left. *)
Bounded ==
    /\ loop = "start" => round + 1 < MaxRounds
    /\ loop \in {"announcing", "backoff", "deliver", "interval"} => round < MaxRounds
    /\ loop = "announcing" => round > 0

TypeInv == TypeOK /\ Bounded

(* What every step leaves of a call: nothing moves but what still runs.    *)
Kept(r, t) ==
    calls[r][t].at \in {"idle", "ok", "failed"} => calls'[r][t] = calls[r][t]

----------------------------------------------------------------------------
\* Types, and what Move, Send and FanOut do.

LEMMA Constants ==
    /\ Attempts \in Nat /\ Attempts > 0
    /\ MaxDelay \in Nat /\ MaxDelay > 0
    /\ PeersCap \in Nat /\ PeersCap > 0
    /\ MaxRounds \in Nat /\ MaxRounds > 1
    /\ Udp \subseteq Trackers /\ Http \subseteq Trackers
    /\ Udp \cap Http = {}
BY TrackerAssumption DEF Trackers

LEMMA MoveCalls ==
    ASSUME TypeOK, NEW r \in Rounds, NEW t \in Trackers,
           NEW at \in Positions, NEW attempt \in 0..Attempts, NEW conn \in 0..MaxRounds,
           Move(r, t, at, attempt, conn)
    PROVE  /\ calls' \in [Rounds -> [Trackers -> Call]]
           /\ calls'[r][t] = [at |-> at, attempt |-> attempt, conn |-> conn]
           /\ \A q \in Rounds, u \in Trackers :
                 <<q, u>> # <<r, t>> => calls'[q][u] = calls[q][u]
<1>1. calls \in [Rounds -> [Trackers -> Call]]
    BY DEF TypeOK, Call
<1>2. [at |-> at, attempt |-> attempt, conn |-> conn] \in Call
    BY DEF Call
<1> QED BY <1>1, <1>2 DEF Move

LEMMA MoveEnds ==
    ASSUME TypeOK, NEW r \in Rounds, NEW t \in Trackers, NEW at \in Positions,
           Move(r, t, at, 0, 0)
    PROVE  calls'[r][t].at = at
<1>1. 0 \in 0..Attempts /\ 0 \in 0..MaxRounds
    BY Constants
<1>2. calls'[r][t] = [at |-> at, attempt |-> 0, conn |-> 0]
    BY <1>1, MoveCalls
<1> QED BY <1>2

LEMMA SendNet ==
    ASSUME NEW R, Send(R)
    PROVE  net' \subseteq net \cup R
BY DEF Send

LEMMA RequestType ==
    ASSUME NEW r \in Rounds, NEW t \in Udp, NEW kind \in {"connect", "announce"},
           NEW attempt \in 1..Attempts, NEW conn \in 0..MaxRounds
    PROVE  Request(r, t, kind, attempt, conn) \in Requests
BY DEF Request, Requests

LEMMA FanOutFacts ==
    ASSUME TypeOK, round < MaxRounds, NEW e \in Events, FanOut(e)
    PROVE  /\ round' = round + 1
           /\ round' \in Rounds
           /\ said' \in [Rounds -> Events]
           /\ said'[round + 1] = e
           /\ \A r \in Rounds : r # round + 1 => said'[r] = said[r] /\ calls'[r] = calls[r]
           /\ calls' \in [Rounds -> [Trackers -> Call]]
           /\ \A t \in Trackers : calls'[round + 1][t].at \in {"connecting", "request"}
           /\ net' \subseteq Requests
           /\ \A d \in net' \ net : d.kind = "connect" /\ d.round = round + 1
<1> USE Constants
<1>1. round + 1 \in Rounds /\ round' = round + 1
    BY DEF TypeOK, Rounds, FanOut
<1> DEFINE New == [t \in Trackers |->
                      IF t \in Udp THEN [at |-> "connecting", attempt |-> 1, conn |-> 0]
                                   ELSE [at |-> "request", attempt |-> 0, conn |-> 0]]
<1>2. New \in [Trackers -> Call]
    BY DEF Call, Positions
<1>3. calls' = [calls EXCEPT ![round + 1] = New] /\ calls \in [Rounds -> [Trackers -> Call]]
    BY DEF FanOut, TypeOK, Call
<1>4. /\ calls' \in [Rounds -> [Trackers -> Call]]
      /\ calls'[round + 1] = New
      /\ \A r \in Rounds : r # round + 1 => calls'[r] = calls[r]
    BY <1>1, <1>2, <1>3
<1>5. \A t \in Trackers : New[t].at \in {"connecting", "request"}
    OBVIOUS
<1> HIDE DEF New
<1>6. said' = [said EXCEPT ![round + 1] = e] /\ said \in [Rounds -> Events]
    BY DEF FanOut, TypeOK
<1>7. net' \subseteq net \cup {Request(round + 1, t, "connect", 1, 0) : t \in Udp}
    BY SendNet DEF FanOut
<1>8. \A t \in Udp : /\ Request(round + 1, t, "connect", 1, 0) \in Requests
                     /\ Request(round + 1, t, "connect", 1, 0).kind = "connect"
                     /\ Request(round + 1, t, "connect", 1, 0).round = round + 1
    BY <1>1 DEF Request, Requests
<1>9. /\ net' \subseteq Requests
      /\ \A d \in net' \ net : d.kind = "connect" /\ d.round = round + 1
    BY <1>7, <1>8 DEF TypeOK
<1> QED BY <1>1, <1>4, <1>5, <1>6, <1>9

LEMMA SeqFacts ==
    ASSUME NEW S
    PROVE  /\ <<>> \in Seq(S)
           /\ \A s \in Seq(S), x \in S : Append(s, x) \in Seq(S)
           /\ \A s \in Seq(S) : s # <<>> => Head(s) \in S /\ Tail(s) \in Seq(S)
OBVIOUS

LEMMA TakeType ==
    ASSUME TypeOK, NEW t \in Udp, Take(t)
    PROVE  /\ inbox' \in [Udp -> Seq(Answers)]
           /\ Head(inbox[t]) \in Answers
<1>1. inbox[t] \in Seq(Answers) /\ inbox[t] # <<>>
    BY DEF TypeOK, Take
<1>2. Head(inbox[t]) \in Answers /\ Tail(inbox[t]) \in Seq(Answers)
    BY <1>1, SeqFacts
<1> QED BY <1>2 DEF Take, TypeOK

LEMMA TypeInit == Init => TypeInv
<1> SUFFICES ASSUME Init PROVE TypeInv
    OBVIOUS
<1> USE Constants DEF Init
<1>1. TypeOK
    <2>1. Idle \in Call /\ calls \in [Rounds -> [Trackers -> Call]]
        BY DEF Call, Idle, Positions
    <2>2. "regular" \in Events /\ said \in [Rounds -> Events]
        BY DEF Events
    <2>3. inbox \in [Udp -> Seq(Answers)]
        BY SeqFacts
    <2>4. round \in 0..MaxRounds /\ delay \in 1..MaxDelay /\ peers \in 0..PeersCap
        BY DEF Init
    <2>5. net \subseteq Requests /\ answered \subseteq Trackers \X Events /\ misled \in BOOLEAN
        BY DEF Init
    <2>6. loop = "start" /\ event = "started" /\ cancelled \in BOOLEAN
        BY DEF Init
    <2> HIDE DEF Init
    <2> QED BY <2>1, <2>2, <2>3, <2>4, <2>5, <2>6 DEF TypeOK, Call
<1>2. Bounded
    BY DEF Bounded
<1> QED BY <1>1, <1>2 DEF TypeInv

LEMMA TypeStutter == TypeInv /\ UNCHANGED vars => TypeInv'
BY DEF TypeInv, TypeOK, Bounded, vars, loopVars, netVars, heardVars

LEMMA TypeLoop ==
    ASSUME TypeInv, LoopStep
    PROVE  TypeInv'
<1> USE Constants
<1>0. event \in Events /\ "stopped" \in Events
    BY DEF TypeInv, TypeOK, Events
<1>1. CASE Announce
    <2>1. round < MaxRounds /\ round + 1 < MaxRounds
        BY <1>1 DEF Announce, TypeInv, TypeOK, Bounded
    <2>2. FanOut(event) /\ TypeOK
        BY <1>1 DEF Announce, TypeInv
    <2>3. TypeOK'
        <3>1. /\ round' \in 0..MaxRounds /\ said' \in [Rounds -> Events]
              /\ calls' \in [Rounds -> [Trackers -> Call]] /\ net' \subseteq Requests
            BY <1>0, <2>1, <2>2, FanOutFacts DEF Rounds
        <3> HIDE <2>1, <2>2
        <3> QED BY <1>1, <3>1 DEF Announce, TypeInv, TypeOK, Call, heardVars
    <2>4. Bounded'
        BY <1>0, <1>1, <2>1, <2>2, FanOutFacts DEF Announce, Bounded, TypeOK
    <2> QED BY <2>3, <2>4 DEF TypeInv
<1>2. CASE SayStopped
    <2>1. round < MaxRounds
        BY <1>2 DEF SayStopped, TypeInv, Bounded
    <2>2. FanOut("stopped") /\ TypeOK
        BY <1>2 DEF SayStopped, TypeInv
    <2>3. TypeOK'
        <3>1. /\ round' \in 0..MaxRounds /\ said' \in [Rounds -> Events]
              /\ calls' \in [Rounds -> [Trackers -> Call]] /\ net' \subseteq Requests
            BY <1>0, <2>1, <2>2, FanOutFacts DEF Rounds
        <3> HIDE <2>1, <2>2
        <3> QED BY <1>2, <3>1 DEF SayStopped, TypeInv, TypeOK, Call, heardVars
    <2>4. Bounded'
        BY <1>2 DEF SayStopped, Bounded
    <2> QED BY <2>3, <2>4 DEF TypeInv
<1> USE DEF TypeInv, TypeOK, Bounded, netVars, heardVars
<1>3. CASE AnnounceReturns BY <1>3 DEF AnnounceReturns
<1>4. CASE AnnounceFails BY <1>4 DEF AnnounceFails
<1>5. CASE BackoffOver BY <1>5 DEF BackoffOver, RoundLeft
<1>6. CASE BackoffCancelled BY <1>6 DEF BackoffCancelled
<1>7. CASE DeliverPeers BY <1>7 DEF DeliverPeers
<1>8. CASE IntervalOver BY <1>8 DEF IntervalOver, RoundLeft
<1>9. CASE StoppedReturns BY <1>9 DEF StoppedReturns
<1> QED BY <1>1, <1>2, <1>3, <1>4, <1>5, <1>6, <1>7, <1>8, <1>9 DEF LoopStep

(* A step of one announce changes one call, and that call still ran. *)
Steps(r, t) ==
    /\ calls[r][t].at \in {"connecting", "announcing", "request"}
    /\ \E at \in Positions \ {"idle"}, attempt \in 0..Attempts, conn \in 0..MaxRounds :
          Move(r, t, at, attempt, conn)
    /\ UNCHANGED <<loopVars, cancelled>>

LEMMA UdpSteps ==
    ASSUME TypeInv, NEW r \in Rounds, NEW t \in Udp, UdpStep(r, t)
    PROVE  /\ Steps(r, t)
           /\ net' \subseteq Requests
           /\ inbox' \in [Udp -> Seq(Answers)]
           /\ answered' = answered
           /\ misled' \in BOOLEAN
           /\ misled => misled'
<1> USE Constants DEF TypeInv
<1>0. /\ t \in Trackers /\ calls[r][t] \in Call
      /\ {"failed", "ok", "announcing", "connecting"} \subseteq Positions \ {"idle"}
      /\ 0 \in 0..Attempts /\ 0 \in 0..MaxRounds /\ 1 \in 1..Attempts
    BY DEF TypeOK, Call, Positions
<1>1. CASE SendFails(r, t)
    BY <1>0, <1>1 DEF SendFails, Waiting, Steps, TypeOK, netVars, heardVars
<1>2. CASE Resend(r, t)
    <2> DEFINE c == calls[r][t]
               kind == IF c.at = "connecting" THEN "connect" ELSE "announce"
    <2>1. /\ c.at \in Positions \ {"idle"} /\ c.attempt + 1 \in 1..Attempts
          /\ c.conn \in 0..MaxRounds
        BY <1>0, <1>2 DEF Resend, Waiting, Call
    <2>2. Move(r, t, c.at, c.attempt + 1, c.conn) /\ Waiting(r, t)
        BY <1>2 DEF Resend
    <2>3. Steps(r, t)
        BY <1>0, <1>2, <2>1, <2>2 DEF Steps, Waiting, Resend
    <2>4. Request(r, t, kind, c.attempt + 1, c.conn) \in Requests
        BY <2>1, RequestType
    <2>5. net' \subseteq net \cup {Request(r, t, kind, c.attempt + 1, c.conn)}
        BY <1>2, SendNet DEF Resend
    <2>6. net' \subseteq Requests
        BY <2>4, <2>5 DEF TypeOK
    <2> QED BY <1>2, <2>3, <2>6 DEF Resend, TypeOK, heardVars
<1>3. CASE GiveUp(r, t)
    BY <1>0, <1>3 DEF GiveUp, Waiting, Steps, TypeOK, netVars, heardVars
<1>4. CASE ReadConnect(r, t)
    <2> DEFINE d == Head(inbox[t])
    <2>1. d \in Answers /\ inbox' \in [Udp -> Seq(Answers)]
        BY <1>4, TakeType DEF ReadConnect
    <2>2. d.connect \in 0..MaxRounds
        BY <2>1 DEF Answers
    <2>3. CASE IsOwnConnect(r, d)
        <3>1. /\ Move(r, t, "announcing", 1, d.connect)
              /\ Send({Request(r, t, "announce", 1, d.connect)})
            BY <1>4, <2>3 DEF ReadConnect
        <3>2. net' \subseteq net \cup {Request(r, t, "announce", 1, d.connect)}
            BY <3>1, SendNet
        <3>3. Request(r, t, "announce", 1, d.connect) \in Requests
            BY <1>0, <2>2, RequestType
        <3>4. net' \subseteq Requests
            BY <3>2, <3>3 DEF TypeOK
        <3>5. Steps(r, t)
            BY <1>0, <1>4, <2>2, <3>1 DEF Steps, ReadConnect
        <3> QED BY <1>4, <2>1, <3>4, <3>5 DEF ReadConnect, heardVars, TypeOK
    <2>4. CASE ~IsOwnConnect(r, d)
        BY <1>0, <1>4, <2>1, <2>4 DEF ReadConnect, Steps, TypeOK, heardVars
    <2> QED BY <2>3, <2>4
<1>5. CASE ReadAnnounce(r, t)
    <2>1. inbox' \in [Udp -> Seq(Answers)]
        BY <1>5, TakeType DEF ReadAnnounce
    <2>2. misled' \in BOOLEAN /\ (misled => misled')
        <3> DEFINE taken == IsAnnounceAnswer(r, Head(inbox[t])) /\ Misleads(Head(inbox[t]))
        <3>1. misled' = (misled \/ taken)
            BY <1>5 DEF ReadAnnounce
        <3> HIDE DEF taken
        <3> QED BY <3>1
    <2>3. Steps(r, t)
        BY <1>0, <1>5 DEF ReadAnnounce, Steps
    <2>4. answered' = answered /\ net' \subseteq Requests
        BY <1>5 DEF ReadAnnounce, TypeOK
    <2> QED BY <2>1, <2>2, <2>3, <2>4
<1> QED BY <1>1, <1>2, <1>3, <1>4, <1>5 DEF UdpStep

LEMMA HttpSteps ==
    ASSUME TypeInv, NEW r \in Rounds, NEW t \in Http, HttpStep(r, t)
    PROVE  /\ Steps(r, t)
           /\ UNCHANGED <<net, inbox, misled>>
           /\ answered \subseteq answered'
           /\ answered' \subseteq answered \cup {<<t, said[r]>>}
<1> USE Constants
<1>0. /\ {"failed", "ok"} \subseteq Positions \ {"idle"}
      /\ 0 \in 0..Attempts /\ 0 \in 0..MaxRounds
    BY DEF Positions
<1>1. CASE HttpAnswered(r, t) BY <1>0, <1>1 DEF HttpAnswered, Steps
<1>2. CASE HttpFails(r, t) BY <1>0, <1>2 DEF HttpFails, Steps, netVars, heardVars
<1> QED BY <1>1, <1>2 DEF HttpStep

LEMMA StepsCalls ==
    ASSUME TypeInv, NEW r \in Rounds, NEW t \in Trackers, Steps(r, t)
    PROVE  /\ calls' \in [Rounds -> [Trackers -> Call]]
           /\ \A q \in Rounds, u \in Trackers :
                 <<q, u>> # <<r, t>> => calls'[q][u] = calls[q][u]
           /\ calls'[r][t].at # "idle"
           /\ \A q \in Rounds, u \in Trackers : Kept(q, u)
<1>1. PICK at \in Positions \ {"idle"}, attempt \in 0..Attempts, conn \in 0..MaxRounds :
          Move(r, t, at, attempt, conn)
    BY DEF Steps
<1>2. /\ calls' \in [Rounds -> [Trackers -> Call]]
      /\ calls'[r][t] = [at |-> at, attempt |-> attempt, conn |-> conn]
      /\ \A q \in Rounds, u \in Trackers :
            <<q, u>> # <<r, t>> => calls'[q][u] = calls[q][u]
    BY <1>1, MoveCalls DEF TypeInv
<1> QED BY <1>1, <1>2 DEF Steps, Kept

LEMMA NetFacts ==
    ASSUME TypeInv, NEW d \in net, AnswerConnect(d) \/ AnswerAnnounce(d)
    PROVE  /\ net' \subseteq net
           /\ inbox' \in [Udp -> Seq(Answers)]
           /\ UNCHANGED <<loopVars, cancelled, calls, misled>>
           /\ answered \subseteq answered'
           /\ answered' \subseteq answered \cup {<<d.t, said[d.round]>>}
<1>1. d \in Requests
    BY DEF TypeInv, TypeOK
<1>2. d.t \in Udp /\ d.round \in 0..MaxRounds /\ 0 \in 0..MaxRounds
    BY <1>1, Constants DEF Requests, Rounds
<1>3. \A to \in {"connect", "announce"}, c \in 0..MaxRounds, p \in BOOLEAN :
          Arrives(d.t, to, c, p) => inbox' \in [Udp -> Seq(Answers)]
    <2> SUFFICES ASSUME NEW to \in {"connect", "announce"}, NEW c \in 0..MaxRounds,
                        NEW p \in BOOLEAN, Arrives(d.t, to, c, p)
                 PROVE  inbox' \in [Udp -> Seq(Answers)]
        OBVIOUS
    <2> DEFINE a == [to |-> to, connect |-> c, parses |-> p]
    <2>1. a \in Answers /\ inbox[d.t] \in Seq(Answers)
        BY <1>2 DEF Answers, TypeInv, TypeOK
    <2>2. Append(inbox[d.t], a) \in Seq(Answers)
        BY <2>1, SeqFacts
    <2> QED BY <1>2, <2>2 DEF Arrives, TypeInv, TypeOK
<1>4. CASE AnswerConnect(d)
    <2>1. PICK c \in 0..MaxRounds, p \in BOOLEAN : Arrives(d.t, "connect", c, p)
        BY <1>2, <1>4 DEF AnswerConnect
    <2> QED BY <1>2, <1>3, <1>4, <2>1 DEF AnswerConnect, heardVars
<1>5. CASE AnswerAnnounce(d)
    <2>1. PICK p \in BOOLEAN : Arrives(d.t, "announce", 0, p)
        BY <1>5 DEF AnswerAnnounce
    <2> QED BY <1>2, <1>3, <1>5, <2>1 DEF AnswerAnnounce
<1> QED BY <1>4, <1>5

LEMMA TypeStep == TypeInv /\ [Next]_vars => TypeInv'
<1> SUFFICES ASSUME TypeInv, [Next]_vars PROVE TypeInv'
    OBVIOUS
<1> USE Constants
<1>0. \A r \in Rounds, t \in Trackers : <<t, said[r]>> \in Trackers \X Events
    BY DEF TypeInv, TypeOK
<1>1. CASE Cancel \/ ReadPeers
    <2>1. CASE Cancel BY <2>1 DEF Cancel, TypeInv, TypeOK, Bounded, loopVars, netVars, heardVars
    <2>2. CASE ReadPeers
        <3>1. peers' \in 0..PeersCap
            BY <2>2 DEF ReadPeers, TypeInv, TypeOK
        <3> QED BY <2>2, <3>1 DEF ReadPeers, TypeInv, TypeOK, Bounded, netVars, heardVars
    <2> QED BY <1>1, <2>1, <2>2
<1>2. CASE LoopStep BY <1>2, TypeLoop
<1>3. CASE \E r \in Rounds, t \in Udp : UdpStep(r, t)
    <2>1. PICK r \in Rounds, t \in Udp : UdpStep(r, t) BY <1>3
    <2>2. t \in Trackers /\ Steps(r, t) BY <2>1, UdpSteps
    <2>3. calls' \in [Rounds -> [Trackers -> Call]]
        BY <2>2, StepsCalls
    <2>4. UNCHANGED <<loopVars, cancelled>>
        BY <2>2 DEF Steps
    <2> QED BY <2>1, <2>3, <2>4, UdpSteps DEF TypeInv, TypeOK, Bounded, Call, loopVars
<1>4. CASE \E r \in Rounds, t \in Http : HttpStep(r, t)
    <2>1. PICK r \in Rounds, t \in Http : HttpStep(r, t) BY <1>4
    <2>2. t \in Trackers /\ Steps(r, t) /\ UNCHANGED <<net, inbox, misled>>
          /\ answered' \subseteq answered \cup {<<t, said[r]>>}
        BY <2>1, HttpSteps
    <2>3. calls' \in [Rounds -> [Trackers -> Call]]
        BY <2>2, StepsCalls
    <2>4. UNCHANGED <<loopVars, cancelled>>
        BY <2>2 DEF Steps
    <2>5. answered' \subseteq Trackers \X Events
        BY <1>0, <2>2 DEF TypeInv, TypeOK
    <2> QED BY <2>2, <2>3, <2>4, <2>5 DEF TypeInv, TypeOK, Bounded, Call, loopVars
<1>5. CASE NetStep
    <2>1. PICK d \in net : AnswerConnect(d) \/ AnswerAnnounce(d)
        BY <1>5 DEF NetStep
    <2>2. d.t \in Trackers /\ d.round \in Rounds
        BY DEF TypeInv, TypeOK, Requests
    <2>3. answered' \subseteq Trackers \X Events
        BY <1>0, <2>1, <2>2, NetFacts DEF TypeInv, TypeOK
    <2> QED BY <2>1, <2>3, NetFacts DEF TypeInv, TypeOK, Bounded, loopVars
<1>6. CASE UNCHANGED vars BY <1>6, TypeStutter
<1> QED BY <1>1, <1>2, <1>3, <1>4, <1>5, <1>6 DEF Next

LEMMA TypeInvariant == Spec => []TypeInv
BY TypeInit, TypeStep, PTL DEF Spec

(* Every state of the loop, the announces and the sockets has its type,    *)
(* and no round is begun beyond the bound, whatever the trackers do.       *)
THEOREM TypeCorrect == Spec => []TypeOK
BY TypeInvariant, PTL DEF TypeInv

----------------------------------------------------------------------------
\* What the announces of the rounds say and send.

(* A round that has not begun has no call and no request, and every call   *)
(* and every request that announces holds the connection of its round.     *)
Own ==
    /\ \A d \in net : d.round <= round /\ (d.kind = "announce" => d.conn = d.round)
    /\ \A r \in Rounds, t \in Trackers :
          /\ calls[r][t].at # "idle" => r <= round
          /\ calls[r][t].at = "announcing" => calls[r][t].conn = r

LEMMA OwnInit == Init => Own
BY DEF Init, Own, Idle

(* A step of the loop either begins a round or leaves rounds alone. *)
LEMMA LoopKinds ==
    ASSUME TypeInv, LoopStep
    PROVE  \/ /\ loop = "start" /\ loop' = "announcing" /\ round < MaxRounds
              /\ FanOut(event) /\ event \in Events /\ UNCHANGED event
              /\ UNCHANGED <<inbox, heardVars>>
           \/ /\ loop \in {"deliver", "interval"} /\ loop' = "stopping" /\ round < MaxRounds
              /\ FanOut("stopped") /\ "stopped" \in Events /\ UNCHANGED event
              /\ UNCHANGED <<inbox, heardVars>>
           \/ UNCHANGED <<round, said, calls, netVars>>
<1> USE Constants DEF TypeInv, TypeOK, Bounded, Events
<1>1. CASE Announce BY <1>1 DEF Announce
<1>2. CASE SayStopped BY <1>2 DEF SayStopped
<1>3. CASE AnnounceReturns BY <1>3 DEF AnnounceReturns
<1>4. CASE AnnounceFails BY <1>4 DEF AnnounceFails
<1>5. CASE BackoffOver BY <1>5 DEF BackoffOver
<1>6. CASE BackoffCancelled BY <1>6 DEF BackoffCancelled
<1>7. CASE DeliverPeers BY <1>7 DEF DeliverPeers
<1>8. CASE IntervalOver BY <1>8 DEF IntervalOver
<1>9. CASE StoppedReturns BY <1>9 DEF StoppedReturns
<1> QED BY <1>1, <1>2, <1>3, <1>4, <1>5, <1>6, <1>7, <1>8, <1>9 DEF LoopStep

LEMMA FanOutOwn ==
    ASSUME TypeInv, Own, round < MaxRounds, NEW e \in Events, FanOut(e)
    PROVE  Own'
<1>1. /\ round' = round + 1 /\ round + 1 \in Rounds /\ round \in Nat
      /\ \A r \in Rounds : r # round + 1 => calls'[r] = calls[r]
      /\ \A t \in Trackers : calls'[round + 1][t].at \in {"connecting", "request"}
      /\ \A d \in net' \ net : d.kind = "connect" /\ d.round = round + 1
    BY FanOutFacts DEF TypeInv, TypeOK
<1>2. ASSUME NEW d \in net' PROVE d.round <= round' /\ (d.kind = "announce" => d.conn = d.round)
    <2>1. CASE d \in net
        <3>1. d.round \in Nat
            BY <2>1, Constants DEF TypeInv, TypeOK, Requests, Rounds
        <3> QED BY <1>1, <2>1, <3>1 DEF Own
    <2>2. CASE d \notin net
        BY <1>1, <2>2
    <2> QED BY <2>1, <2>2
<1>3. ASSUME NEW r \in Rounds, NEW t \in Trackers
      PROVE  /\ calls'[r][t].at # "idle" => r <= round'
             /\ calls'[r][t].at = "announcing" => calls'[r][t].conn = r
    <2>1. CASE r = round + 1
        BY <1>1, <2>1
    <2>2. CASE r # round + 1
        BY <1>1, <2>2, Constants DEF Own, Rounds
    <2> QED BY <2>1, <2>2
<1> QED BY <1>2, <1>3 DEF Own

LEMMA UdpSends ==
    ASSUME TypeInv, Own, NEW r \in Rounds, NEW t \in Udp, UdpStep(r, t)
    PROVE  /\ r <= round
           /\ \A d \in net' \ net : d.round = r /\ (d.kind = "announce" => d.conn = r)
           /\ calls'[r][t].at = "announcing" => calls'[r][t].conn = r
<1> USE Constants
<1> DEFINE c == calls[r][t]
<1>0. t \in Trackers /\ c \in Call /\ (c.at # "idle" => r <= round)
      /\ (c.at = "announcing" => c.conn = r)
    BY DEF TypeInv, TypeOK, Call, Own
<1>1. r <= round
    BY <1>0, UdpSteps DEF Steps
<1>2. CASE SendFails(r, t) \/ GiveUp(r, t) \/ ReadAnnounce(r, t)
    <2>1. UNCHANGED net
        BY <1>2 DEF SendFails, GiveUp, ReadAnnounce, netVars
    <2>2. PICK at \in {"ok", "failed"} : Move(r, t, at, 0, 0)
        BY <1>2 DEF SendFails, GiveUp, ReadAnnounce
    <2>3. calls'[r][t].at # "announcing"
        BY <1>0, <2>2, MoveEnds DEF Positions, TypeInv
    <2> QED BY <1>1, <2>1, <2>3
<1>3. CASE Resend(r, t)
    <2> DEFINE kind == IF c.at = "connecting" THEN "connect" ELSE "announce"
               d == Request(r, t, kind, c.attempt + 1, c.conn)
    <2>1. net' \subseteq net \cup {d}
        BY <1>3, SendNet DEF Resend
    <2>2. d.round = r /\ (d.kind = "announce" => d.conn = r)
        BY <1>0, <1>3 DEF Request, Resend, Waiting
    <2>3. calls'[r][t].at = c.at /\ calls'[r][t].conn = c.conn
        <3>1. c.at \in Positions /\ c.attempt + 1 \in 0..Attempts /\ c.conn \in 0..MaxRounds
            BY <1>0, <1>3 DEF Resend, Call
        <3>2. Move(r, t, c.at, c.attempt + 1, c.conn)
            BY <1>3 DEF Resend
        <3>3. calls'[r][t] = [at |-> c.at, attempt |-> c.attempt + 1, conn |-> c.conn]
            BY <1>0, <3>1, <3>2, MoveCalls DEF TypeInv
        <3> QED BY <3>3
    <2> QED BY <1>0, <1>1, <2>1, <2>2, <2>3
<1>4. CASE ReadConnect(r, t)
    <2> DEFINE a == Head(inbox[t])
    <2>1. CASE IsOwnConnect(r, a)
        <3>1. /\ Move(r, t, "announcing", 1, r)
              /\ Send({Request(r, t, "announce", 1, r)})
            BY <1>4, <2>1 DEF ReadConnect, IsOwnConnect
        <3>2. net' \subseteq net \cup {Request(r, t, "announce", 1, r)}
            BY <3>1, SendNet
        <3>3. calls'[r][t].conn = r
            <4>1. /\ "announcing" \in Positions /\ 1 \in 0..Attempts /\ r \in 0..MaxRounds
                  /\ Move(r, t, "announcing", 1, r)
                BY <3>1 DEF Positions, Rounds
            <4>2. calls'[r][t] = [at |-> "announcing", attempt |-> 1, conn |-> r]
                BY <1>0, <4>1, MoveCalls DEF TypeInv
            <4> QED BY <4>2
        <3> QED BY <1>1, <3>2, <3>3 DEF Request
    <2>2. CASE ~IsOwnConnect(r, a)
        <3>1. Move(r, t, "failed", 0, 0) /\ UNCHANGED net
            BY <1>4, <2>2 DEF ReadConnect
        <3>2. calls'[r][t].at = "failed"
            BY <1>0, <3>1, MoveEnds DEF TypeInv, Positions
        <3> QED BY <1>1, <3>1, <3>2
    <2> QED BY <2>1, <2>2
<1> QED BY <1>2, <1>3, <1>4 DEF UdpStep

LEMMA HttpCalls ==
    ASSUME TypeInv, NEW r \in Rounds, NEW t \in Http, HttpStep(r, t)
    PROVE  calls'[r][t].at \in {"ok", "failed"}
<1>1. PICK at \in {"ok", "failed"} : Move(r, t, at, 0, 0)
    BY DEF HttpStep, HttpAnswered, HttpFails
<1> QED BY <1>1, MoveEnds, Constants DEF TypeInv, Positions

LEMMA OwnStep == TypeInv /\ Own /\ [Next]_vars => Own'
<1> SUFFICES ASSUME TypeInv, Own, [Next]_vars PROVE Own'
    OBVIOUS
<1>1. CASE Cancel \/ ReadPeers
    BY <1>1 DEF Cancel, ReadPeers, Own, loopVars, netVars
<1>2. CASE LoopStep
    BY <1>2, LoopKinds, FanOutOwn DEF Own, netVars
<1>3. CASE \E r \in Rounds, t \in Udp : UdpStep(r, t)
    <2>1. PICK r \in Rounds, t \in Udp : UdpStep(r, t) BY <1>3
    <2>2. t \in Trackers /\ Steps(r, t) /\ round' = round
        BY <2>1, UdpSteps, Constants DEF Steps, loopVars
    <2>3. \A q \in Rounds, u \in Trackers : <<q, u>> # <<r, t>> => calls'[q][u] = calls[q][u]
        BY <2>2, StepsCalls
    <2>4. \A d \in net' : d.round <= round' /\ (d.kind = "announce" => d.conn = d.round)
        BY <2>1, <2>2, UdpSends DEF Own
    <2>5. ASSUME NEW q \in Rounds, NEW u \in Trackers
          PROVE  /\ calls'[q][u].at # "idle" => q <= round'
                 /\ calls'[q][u].at = "announcing" => calls'[q][u].conn = q
        BY <2>1, <2>2, <2>3, UdpSends DEF Own
    <2> QED BY <2>4, <2>5 DEF Own
<1>4. CASE \E r \in Rounds, t \in Http : HttpStep(r, t)
    <2>1. PICK r \in Rounds, t \in Http : HttpStep(r, t) BY <1>4
    <2>2. t \in Trackers /\ Steps(r, t) /\ round' = round /\ net' = net
        BY <2>1, HttpSteps, Constants DEF Steps, loopVars
    <2>3. \A q \in Rounds, u \in Trackers : <<q, u>> # <<r, t>> => calls'[q][u] = calls[q][u]
        BY <2>2, StepsCalls
    <2>4. r <= round /\ calls'[r][t].at # "announcing"
        BY <2>1, <2>2, HttpCalls DEF Own, Steps
    <2> QED BY <2>2, <2>3, <2>4 DEF Own
<1>5. CASE NetStep
    <2>1. PICK d \in net : AnswerConnect(d) \/ AnswerAnnounce(d)
        BY <1>5 DEF NetStep
    <2> QED BY <2>1, NetFacts DEF Own, loopVars
<1>6. CASE UNCHANGED vars
    BY <1>6 DEF Own, vars, loopVars, netVars
<1> QED BY <1>1, <1>2, <1>3, <1>4, <1>5, <1>6 DEF Next

LEMMA OwnInvariant == Spec => []Own
BY TypeInvariant, OwnInit, OwnStep, PTL DEF Spec

(* An announce carries the connection identifier of its own round, for     *)
(* every exchange of answers between the readers of a socket: a reader     *)
(* only becomes "announcing" with the identifier its own connect was given,*)
(* and a repeated request repeats it.                                      *)
THEOREM AnnounceOnOwnConnection == Spec => []ConnIdIsOwn
<1>1. Own => ConnIdIsOwn
    BY DEF Own, ConnIdIsOwn
<1> QED BY <1>1, OwnInvariant, PTL

----------------------------------------------------------------------------
\* The event of a round.

(* A round that has succeeded or failed never becomes anything else. *)
LEMMA Lasting ==
    ASSUME TypeInv, [Next]_vars, NEW q \in 1..round
    PROVE  /\ Succeeded(q) => Succeeded(q)'
           /\ Failed(q) => Failed(q)'
           /\ \A t \in Trackers : calls[q][t].at \in {"ok", "failed"} =>
                 calls'[q][t].at = calls[q][t].at
<1>0. q \in Rounds /\ round \in Nat
    BY Constants DEF TypeInv, TypeOK, Rounds
<1>1. \A t \in Trackers : calls[q][t].at \in {"ok", "failed"} =>
          calls'[q][t].at = calls[q][t].at
    <2>1. CASE Cancel \/ ReadPeers
        BY <2>1 DEF Cancel, ReadPeers
    <2>2. CASE LoopStep
        <3>1. CASE UNCHANGED calls
            BY <3>1
        <3>2. CASE \E e \in Events : FanOut(e) /\ round < MaxRounds
            <4>1. q # round + 1
                BY <1>0
            <4> QED BY <1>0, <3>2, <4>1, FanOutFacts DEF TypeInv
        <3> QED BY <2>2, <3>1, <3>2, LoopKinds
    <2>3. CASE \E r \in Rounds, t \in Trackers : Steps(r, t)
        BY <1>0, <2>3, StepsCalls DEF Kept
    <2>4. CASE NetStep
        BY <2>4, NetFacts DEF NetStep
    <2>5. CASE UNCHANGED vars
        BY <2>5 DEF vars
    <2> QED BY <2>1, <2>2, <2>3, <2>4, <2>5, UdpSteps, HttpSteps, Constants DEF Next
<1> QED BY <1>1 DEF Succeeded, Failed

(* The variable event is what the rounds that are over say it should be.  *)
SaidInv ==
    /\ \A r \in 1..round :
          \/ said[r] = "started" /\ \A q \in 1..(r - 1) : Failed(q)
          \/ said[r] # "started" /\ \E q \in 1..(r - 1) : Succeeded(q)
    /\ event = "started" =>
          /\ loop \notin {"deliver", "interval", "stopping"}
          /\ \A q \in 1..RoundsOver : Failed(q)
    /\ event # "started" => \E q \in 1..round : Succeeded(q)

LEMMA SaidInit == Init => SaidInv
BY DEF Init, SaidInv, RoundsOver

LEMMA SaidFanOut ==
    ASSUME TypeInv, SaidInv, round < MaxRounds, NEW e \in Events, FanOut(e),
           [Next]_vars, event' = event,
           \/ e = event /\ loop = "start" /\ loop' = "announcing"
           \/ e = "stopped" /\ loop \in {"deliver", "interval"} /\ loop' = "stopping"
    PROVE  SaidInv'
<1>1. /\ round' = round + 1 /\ round + 1 \in Rounds /\ round \in Nat
      /\ said'[round + 1] = e
      /\ \A r \in Rounds : r # round + 1 => said'[r] = said[r]
    BY FanOutFacts DEF TypeInv, TypeOK
<1>2. \A q \in 1..round : (Succeeded(q) => Succeeded(q)') /\ (Failed(q) => Failed(q)')
    BY Lasting
<1>3. ASSUME NEW r \in 1..round
      PROVE  \/ said'[r] = "started" /\ \A q \in 1..(r - 1) : Failed(q)'
             \/ said'[r] # "started" /\ \E q \in 1..(r - 1) : Succeeded(q)'
    <2>1. r \in Rounds /\ r # round + 1 /\ 1..(r - 1) \subseteq 1..round
        BY <1>1, Constants DEF Rounds
    <2> QED BY <1>1, <1>2, <2>1 DEF SaidInv
<1>4. RoundsOver' = round
    BY <1>1 DEF RoundsOver
<1>5. event = "started" => e = "started" /\ \A q \in 1..round : Failed(q)'
    <2>1. SUFFICES ASSUME event = "started"
                   PROVE  e = "started" /\ \A q \in 1..round : Failed(q)'
        OBVIOUS
    <2>2. loop = "start" /\ e = "started"
        BY <2>1 DEF SaidInv
    <2> QED BY <1>2, <2>1, <2>2 DEF SaidInv, RoundsOver
<1>6. event # "started" => e # "started" /\ \E q \in 1..round : Succeeded(q)'
    BY <1>2 DEF SaidInv
<1>7. \A r \in 1..round' : r \in 1..round \/ r = round + 1
    BY <1>1
<1>8. \A r \in 1..round' :
          \/ said'[r] = "started" /\ \A q \in 1..(r - 1) : Failed(q)'
          \/ said'[r] # "started" /\ \E q \in 1..(r - 1) : Succeeded(q)'
    <2> TAKE r \in 1..round'
    <2>1. CASE r \in 1..round BY <1>3, <2>1
    <2>2. CASE r = round + 1
        <3>1. r - 1 = round BY <1>1, <2>2
        <3> QED BY <1>1, <1>5, <1>6, <2>2, <3>1
    <2> QED BY <1>7, <2>1, <2>2
<1>9. event' = "started" =>
          /\ loop' \notin {"deliver", "interval", "stopping"}
          /\ \A q \in 1..RoundsOver' : Failed(q)'
    BY <1>4, <1>5 DEF SaidInv
<1>10. event' # "started" => \E q \in 1..round' : Succeeded(q)'
    BY <1>1, <1>6
<1> QED BY <1>8, <1>9, <1>10 DEF SaidInv

LEMMA SaidKept ==
    ASSUME TypeInv, SaidInv, [Next]_vars, round' = round, said' = said,
           event' = "started" =>
              /\ event = "started"
              /\ loop' \notin {"deliver", "interval", "stopping"}
              /\ RoundsOver' = RoundsOver \/ Failed(round),
           event' # "started" => event # "started" \/ (round > 0 /\ Succeeded(round))
    PROVE  SaidInv'
<1>1. \A q \in 1..round : (Succeeded(q) => Succeeded(q)') /\ (Failed(q) => Failed(q)')
    BY Lasting
<1>2. /\ round \in Nat
      /\ RoundsOver \in {round, round - 1}
      /\ RoundsOver' \in {round, round - 1}
    BY DEF TypeInv, TypeOK, RoundsOver
<1>3. \A r \in 1..round :
          \/ said'[r] = "started" /\ \A q \in 1..(r - 1) : Failed(q)'
          \/ said'[r] # "started" /\ \E q \in 1..(r - 1) : Succeeded(q)'
    <2> TAKE r \in 1..round
    <2>1. 1..(r - 1) \subseteq 1..round
        BY <1>2
    <2> QED BY <1>1, <2>1 DEF SaidInv
<1>4. event' = "started" => \A q \in 1..RoundsOver' : Failed(q)'
    <2> SUFFICES ASSUME event' = "started", NEW q \in 1..RoundsOver' PROVE Failed(q)'
        OBVIOUS
    <2>1. q \in 1..round
        BY <1>2
    <2>2. q \in 1..RoundsOver \/ (q = round /\ Failed(round))
        BY <1>2
    <2>3. Failed(q)
        BY <2>2 DEF SaidInv
    <2> QED BY <1>1, <2>1, <2>3
<1>5. event' # "started" => \E q \in 1..round : Succeeded(q)'
    BY <1>1, <1>2 DEF SaidInv
<1> QED BY <1>3, <1>4, <1>5 DEF SaidInv

LEMMA SaidStep == TypeInv /\ SaidInv /\ [Next]_vars => SaidInv'
<1> SUFFICES ASSUME TypeInv, SaidInv, [Next]_vars PROVE SaidInv'
    OBVIOUS
<1>1. CASE LoopStep
    <2> USE DEF netVars
    <2>0. round \in Nat
        BY DEF TypeInv, TypeOK
    <2>1. CASE Announce
        <3>1. event \in Events /\ round < MaxRounds
            BY <2>0, <2>1, Constants DEF Announce, TypeInv, TypeOK, Bounded, Events
        <3>2. /\ FanOut(event) /\ event' = event
              /\ loop = "start" /\ loop' = "announcing"
            BY <2>1 DEF Announce
        <3> QED BY <3>1, <3>2, SaidFanOut
    <2>2. CASE SayStopped
        BY <1>1, <2>2, SaidFanOut DEF SayStopped, TypeInv, Bounded, Events
    <2>3. CASE AnnounceReturns
        BY <2>0, <2>3, SaidKept DEF AnnounceReturns, TypeInv, Bounded
    <2>4. CASE AnnounceFails
        BY <2>4, SaidKept DEF AnnounceFails
    <2>5. CASE BackoffOver
        BY <2>5, SaidKept DEF BackoffOver, RoundsOver
    <2>6. CASE BackoffCancelled
        BY <2>6, SaidKept DEF BackoffCancelled, RoundsOver
    <2>7. CASE DeliverPeers
        BY <2>7, SaidKept DEF DeliverPeers, SaidInv
    <2>8. CASE IntervalOver
        BY <2>8, SaidKept DEF IntervalOver, SaidInv
    <2>9. CASE StoppedReturns
        BY <2>9, SaidKept DEF StoppedReturns, SaidInv
    <2> QED BY <1>1, <2>1, <2>2, <2>3, <2>4, <2>5, <2>6, <2>7, <2>8, <2>9 DEF LoopStep
<1>2. CASE UNCHANGED <<loop, event, round, said>>
    BY <1>2, SaidKept DEF RoundsOver, SaidInv
<1>3. CASE ReadPeers
    BY <1>2, <1>3 DEF ReadPeers
<1>4. CASE UNCHANGED loopVars
    BY <1>2, <1>4 DEF loopVars
<1>5. CASE \E r \in Rounds, t \in Trackers : Steps(r, t)
    BY <1>4, <1>5 DEF Steps
<1>6. CASE NetStep
    BY <1>4, <1>6, NetFacts DEF NetStep
<1> QED BY <1>1, <1>3, <1>4, <1>5, <1>6, UdpSteps, HttpSteps, Constants
        DEF Next, Cancel, vars

LEMMA SaidInvariant == Spec => []SaidInv
BY TypeInvariant, SaidInit, SaidStep, PTL DEF Spec

(* A round says started exactly when every earlier round failed: what a    *)
(* round ended with never changes, however late its other goroutines end,  *)
(* and the variable event only leaves "started" in a round that succeeded. *)
THEOREM SaysStartedUntilAnswered == Spec => []StartedUntilAnswered
<1>1. TypeInv /\ SaidInv => StartedUntilAnswered
    <2> SUFFICES ASSUME TypeInv, SaidInv, NEW r \in 1..round
                 PROVE  said[r] = "started" <=> \A q \in 1..(r - 1) : Failed(q)
        BY DEF StartedUntilAnswered
    <2>1. \A q \in 1..(r - 1) : ~(Failed(q) /\ Succeeded(q))
        BY DEF Failed, Succeeded
    <2> QED BY <2>1 DEF SaidInv
<1> QED BY <1>1, TypeInvariant, SaidInvariant, PTL

----------------------------------------------------------------------------
\* Who has heard that the torrent was started.

(* Before the first answer to a started announce, nothing that could pass  *)
(* for one is anywhere but an error sent to a connect: neither in a socket *)
(* nor returned by an announce.                                            *)
Harmless(d) == d.parses => d.to = "connect"

Unheard ==
    /\ event = "started"
    /\ \A r \in 1..round : said[r] = "started"
    /\ \A t \in Udp : \A i \in 1..Len(inbox[t]) : Harmless(inbox[t][i])
    /\ \A r \in Rounds, t \in Trackers : calls[r][t].at # "ok"

HeardInv == SeemsHeard \/ Unheard

LEMMA HeardInit == Init => HeardInv
BY DEF Init, HeardInv, Unheard, Idle

LEMMA HeardLoop ==
    ASSUME TypeInv, SaidInv, Unheard, LoopStep
    PROVE  Unheard'
<1>0. round \in Nat /\ \A r \in 1..round : r \in Rounds
    BY Constants DEF TypeInv, TypeOK, Rounds
<1>1. CASE Announce
    <2>1. /\ event = "started" /\ event \in Events /\ event' = event
          /\ round < MaxRounds /\ FanOut(event) /\ inbox' = inbox
        BY <1>0, <1>1, Constants DEF Unheard, Events, Announce, TypeInv, Bounded
    <2>2. /\ round' = round + 1 /\ said'[round + 1] = "started"
          /\ \A r \in Rounds : r # round + 1 => said'[r] = said[r] /\ calls'[r] = calls[r]
          /\ \A t \in Trackers : calls'[round + 1][t].at \in {"connecting", "request"}
        BY <2>1, FanOutFacts DEF TypeInv
    <2>3. \A r \in 1..round' : said'[r] = "started"
        <3> TAKE r \in 1..round'
        <3>1. r = round + 1 \/ (r \in 1..round /\ r # round + 1)
            BY <1>0, <2>2
        <3> QED BY <1>0, <2>2, <3>1 DEF Unheard
    <2>4. \A r \in Rounds, t \in Trackers : calls'[r][t].at # "ok"
        <3> TAKE r \in Rounds, t \in Trackers
        <3>1. CASE r = round + 1 BY <2>2, <3>1
        <3>2. CASE r # round + 1 BY <2>2, <3>2 DEF Unheard
        <3> QED BY <3>1, <3>2
    <2> QED BY <2>1, <2>3, <2>4 DEF Unheard
<1>2. ~SayStopped /\ ~AnnounceReturns
    <2>1. ~SayStopped
        BY DEF SayStopped, SaidInv, Unheard
    <2>2. loop = "announcing" => round \in Rounds
        BY <1>0 DEF TypeInv, Bounded
    <2> QED BY <2>1, <2>2 DEF AnnounceReturns, Succeeded, Unheard
<1>3. CASE UNCHANGED <<event, round, said, calls, inbox>>
    BY <1>3 DEF Unheard
<1> QED BY <1>1, <1>2, <1>3 DEF LoopStep, AnnounceFails, BackoffOver, BackoffCancelled,
        DeliverPeers, IntervalOver, StoppedReturns, netVars

(* What is read from a socket that holds no answer that parses. *)
LEMMA HeardUdp ==
    ASSUME TypeInv, Unheard, NEW r \in Rounds, NEW t \in Udp, UdpStep(r, t)
    PROVE  HeardInv'
<1> SUFFICES ASSUME ~misled' PROVE Unheard'
    BY DEF HeardInv, SeemsHeard
<1>1. /\ t \in Trackers /\ Steps(r, t) /\ UNCHANGED <<event, round, said>>
      /\ \A q \in Rounds, u \in Trackers : <<q, u>> # <<r, t>> => calls'[q][u] = calls[q][u]
    BY UdpSteps, StepsCalls, Constants DEF Steps, loopVars
<1>2. inbox[t] \in Seq(Answers)
    BY DEF TypeInv, TypeOK
<1>3. inbox[t] # <<>> => Harmless(Head(inbox[t]))
    BY <1>2 DEF Unheard
<1>4. \A u \in Udp : \A i \in 1..Len(inbox'[u]) : Harmless(inbox'[u][i])
    <2>1. CASE inbox' = inbox
        BY <2>1 DEF Unheard
    <2>2. CASE Take(t)
        <3>1. inbox[t] # <<>> /\ inbox' = [inbox EXCEPT ![t] = Tail(inbox[t])]
            BY <2>2 DEF Take
        <3>2. \A i \in 1..Len(Tail(inbox[t])) :
                  i + 1 \in 1..Len(inbox[t]) /\ Tail(inbox[t])[i] = inbox[t][i + 1]
            BY <1>2, <3>1
        <3>3. \A u \in Udp : u # t => inbox'[u] = inbox[u]
            BY <3>1 DEF TypeInv, TypeOK
        <3>4. inbox'[t] = Tail(inbox[t])
            BY <3>1 DEF TypeInv, TypeOK
        <3>5. \A i \in 1..Len(inbox'[t]) : Harmless(inbox'[t][i])
            BY <3>2, <3>4 DEF Unheard
        <3>6. ASSUME NEW u \in Udp, u # t
              PROVE  \A i \in 1..Len(inbox'[u]) : Harmless(inbox'[u][i])
            BY <3>3, <3>6 DEF Unheard
        <3> QED BY <3>5, <3>6
    <2> QED BY <2>1, <2>2 DEF UdpStep, SendFails, Resend, GiveUp, ReadConnect,
            ReadAnnounce, netVars
<1>5. calls'[r][t].at # "ok"
    <2>1. PICK at \in Positions, attempt \in 0..Attempts, conn \in 0..MaxRounds :
              Move(r, t, at, attempt, conn) /\ at # "ok"
        <3>1. /\ 0 \in 0..Attempts /\ 0 \in 0..MaxRounds /\ 1 \in 0..Attempts
              /\ r \in 0..MaxRounds /\ {"failed", "announcing"} \subseteq Positions
            BY Constants DEF Positions, Rounds
        <3>2. CASE SendFails(r, t) BY <3>1, <3>2 DEF SendFails
        <3>3. CASE GiveUp(r, t) BY <3>1, <3>3 DEF GiveUp
        <3>4. CASE Resend(r, t)
            <4>1. /\ calls[r][t].at \in Positions /\ calls[r][t].conn \in 0..MaxRounds
                  /\ calls[r][t].attempt + 1 \in 0..Attempts
                BY <1>1, <3>4, Constants DEF Resend, TypeInv, TypeOK
            <4> QED BY <3>4, <4>1 DEF Resend, Waiting
        <3>5. CASE ReadConnect(r, t)
            <4>1. \/ Move(r, t, "announcing", 1, r)
                  \/ Move(r, t, "failed", 0, 0)
                BY <3>5 DEF ReadConnect, IsOwnConnect
            <4> QED BY <3>1, <4>1
        <3>6. CASE ReadAnnounce(r, t)
            BY <1>3, <3>1, <3>6 DEF ReadAnnounce, IsAnnounceAnswer, Misleads, Harmless, Take
        <3> QED BY <3>2, <3>3, <3>4, <3>5, <3>6 DEF UdpStep
    <2>2. calls'[r][t] = [at |-> at, attempt |-> attempt, conn |-> conn]
        BY <1>1, <2>1, MoveCalls DEF TypeInv
    <2> QED BY <2>1, <2>2
<1>6. \A q \in Rounds, u \in Trackers : calls'[q][u].at # "ok"
    BY <1>1, <1>5 DEF Unheard
<1> QED BY <1>1, <1>4, <1>6 DEF Unheard

LEMMA HeardHttp ==
    ASSUME TypeInv, Own, Unheard, NEW r \in Rounds, NEW t \in Http, HttpStep(r, t)
    PROVE  HeardInv'
<1>0. t \in Trackers
    BY Constants
<1>1. CASE HttpAnswered(r, t)
    <2>1. r \in 1..round
        BY <1>0, <1>1, Constants DEF HttpAnswered, Own, Rounds, TypeInv, TypeOK
    <2>2. <<t, "started">> \in answered'
        BY <1>1, <2>1 DEF HttpAnswered, Unheard
    <2> QED BY <1>0, <2>2 DEF HeardInv, SeemsHeard, Heard
<1>2. CASE HttpFails(r, t)
    <2>1. Move(r, t, "failed", 0, 0) /\ UNCHANGED <<event, round, said, inbox>>
        BY <1>2 DEF HttpFails, loopVars, netVars
    <2>2. calls'[r][t].at = "failed"
        BY <1>0, <2>1, MoveEnds DEF TypeInv, Positions
    <2>3. \A q \in Rounds, u \in Trackers : <<q, u>> # <<r, t>> => calls'[q][u] = calls[q][u]
        BY <1>0, HttpSteps, StepsCalls
    <2>4. \A q \in Rounds, u \in Trackers : calls'[q][u].at # "ok"
        BY <2>2, <2>3 DEF Unheard
    <2> QED BY <2>1, <2>4 DEF HeardInv, Unheard
<1> QED BY <1>1, <1>2 DEF HttpStep

LEMMA HeardNet ==
    ASSUME TypeInv, Own, Unheard, NEW d \in net, AnswerConnect(d) \/ AnswerAnnounce(d)
    PROVE  HeardInv'
<1>0. d.t \in Udp /\ d.t \in Trackers /\ d.round \in 1..round
    BY Constants DEF TypeInv, TypeOK, Own, Requests, Rounds
<1>1. CASE AnswerAnnounce(d)
    <2>1. <<d.t, "started">> \in answered'
        BY <1>0, <1>1 DEF AnswerAnnounce, Unheard
    <2> QED BY <1>0, <2>1 DEF HeardInv, SeemsHeard, Heard
<1>2. CASE AnswerConnect(d)
    <2>0. PICK c \in {0, d.round}, p \in BOOLEAN : Arrives(d.t, "connect", c, p)
        BY <1>2 DEF AnswerConnect
    <2> DEFINE a == [to |-> "connect", connect |-> c, parses |-> p]
    <2>1. /\ inbox' = [inbox EXCEPT ![d.t] = Append(inbox[d.t], a)]
          /\ UNCHANGED <<event, round, said, calls>>
        BY <1>2, <2>0 DEF AnswerConnect, Arrives, loopVars
    <2>2. inbox[d.t] \in Seq(Answers) /\ Harmless(a)
        BY <1>0 DEF TypeInv, TypeOK, Harmless
    <2>3. inbox'[d.t] = Append(inbox[d.t], a) /\ \A u \in Udp : u # d.t => inbox'[u] = inbox[u]
        BY <1>0, <2>1 DEF TypeInv, TypeOK
    <2> HIDE DEF a
    <2>4. \A i \in 1..Len(inbox'[d.t]) : Harmless(inbox'[d.t][i])
        <3> TAKE i \in 1..Len(inbox'[d.t])
        <3>1. CASE i = Len(inbox[d.t]) + 1 BY <2>2, <2>3, <3>1
        <3>2. CASE i # Len(inbox[d.t]) + 1
            <4>1. i \in 1..Len(inbox[d.t]) /\ inbox'[d.t][i] = inbox[d.t][i]
                BY <2>2, <2>3, <3>2
            <4> QED BY <1>0, <4>1 DEF Unheard
        <3> QED BY <3>1, <3>2
    <2>5. \A u \in Udp : \A i \in 1..Len(inbox'[u]) : Harmless(inbox'[u][i])
        BY <2>3, <2>4 DEF Unheard
    <2> QED BY <2>1, <2>5 DEF HeardInv, Unheard
<1> QED BY <1>1, <1>2

(* An answer that has arrived stays so, and a mistake. *)
LEMMA HeardStays ==
    ASSUME TypeInv, [Next]_vars
    PROVE  answered \subseteq answered' /\ (misled => misled')
<1>1. CASE LoopStep
    BY <1>1, LoopKinds DEF netVars, heardVars
<1>2. CASE \E r \in Rounds, t \in Http : HttpStep(r, t)
    BY <1>2, HttpSteps
<1> QED BY <1>1, <1>2, UdpSteps, NetFacts DEF Next, Cancel, ReadPeers, NetStep, netVars, heardVars, vars

LEMMA HeardStep == TypeInv /\ Own /\ SaidInv /\ HeardInv /\ [Next]_vars => HeardInv'
<1> SUFFICES ASSUME TypeInv, Own, SaidInv, HeardInv, [Next]_vars PROVE HeardInv'
    OBVIOUS
<1>1. CASE SeemsHeard
    BY <1>1, HeardStays DEF SeemsHeard, Heard, HeardInv
<1>2. CASE Unheard
    <2>1. CASE LoopStep
        BY <1>2, <2>1, HeardLoop DEF HeardInv
    <2>2. CASE \E r \in Rounds, t \in Udp : UdpStep(r, t)
        BY <1>2, <2>2, HeardUdp
    <2>3. CASE \E r \in Rounds, t \in Http : HttpStep(r, t)
        BY <1>2, <2>3, HeardHttp
    <2>4. CASE NetStep
        BY <1>2, <2>4, HeardNet DEF NetStep
    <2>5. CASE UNCHANGED <<event, round, said, calls, inbox>>
        BY <1>2, <2>5 DEF HeardInv, Unheard
    <2> QED BY <2>1, <2>2, <2>3, <2>4, <2>5 DEF Next, Cancel, ReadPeers, vars, loopVars, netVars
<1> QED BY <1>1, <1>2 DEF HeardInv

LEMMA HeardInvariant == Spec => []HeardInv
BY TypeInvariant, OwnInvariant, SaidInvariant, HeardInit, HeardStep, PTL DEF Spec

(* The loop only stops saying started when some tracker has answered an    *)
(* announce that said it, or an announce took an error sent to a connect   *)
(* for its answer: whatever a reader took from the socket, the first that  *)
(* parses is one or the other.                                             *)
THEOREM SilentOnlyWhenHeard == Spec => []StartedIsHeard
<1>1. HeardInv => StartedIsHeard
    BY DEF HeardInv, Unheard, StartedIsHeard
<1> QED BY <1>1, HeardInvariant, PTL

----------------------------------------------------------------------------
\* The loop implements AnnounceRounds.

LEMMA RoundFacts ==
    ASSUME TypeInv, RoundInv
    PROVE  /\ round \in Nat /\ 1..round \subseteq Rounds
           /\ RoundsOver \in 0..round
           /\ RoundsOver = IF loop \in {"announcing", "stopping"} THEN round - 1 ELSE round
           /\ \A r \in 1..round : said[r] \in Events
BY Constants DEF TypeInv, TypeOK, Bounded, RoundInv, RoundsOver, Rounds

LEMMA RoundsInit == Init => RoundInv
BY DEF Init, RoundInv, RoundsOver

(* What is over stays over, with the same end. *)
LEMMA OverStays ==
    ASSUME TypeInv, RoundInv, [Next]_vars, NEW q \in 1..RoundsOver
    PROVE  /\ (Succeeded(q) \/ Failed(q))'
           /\ Succeeded(q)' <=> Succeeded(q)
<1>1. q \in 1..round
    BY RoundFacts
<1>2. \/ Succeeded(q) /\ Succeeded(q)'
      \/ Failed(q) /\ Failed(q)'
    BY <1>1, Lasting DEF RoundInv
<1> QED BY <1>2 DEF Succeeded, Failed

LEMMA RoundsFanOut ==
    ASSUME TypeInv, RoundInv, round < MaxRounds, NEW e \in Events, FanOut(e),
           [Next]_vars, loop \notin {"stopping", "ended"}, RoundsOver = round,
           \/ e # "stopped" /\ loop' = "announcing"
           \/ e = "stopped" /\ loop' = "stopping"
    PROVE  RoundInv'
<1>1. /\ round' = round + 1 /\ round \in Nat
      /\ said'[round + 1] = e
      /\ \A r \in 1..round : said'[r] = said[r]
    BY FanOutFacts, RoundFacts DEF TypeInv
<1>2. RoundsOver' = RoundsOver
    BY <1>1 DEF RoundsOver
<1>3. \A q \in 1..RoundsOver' : (Succeeded(q) \/ Failed(q))'
    BY <1>2, OverStays
<1>4. e # "stopped" => \A r \in 1..round' : said'[r] # "stopped"
    <2> SUFFICES ASSUME e # "stopped", NEW r \in 1..round' PROVE said'[r] # "stopped"
        OBVIOUS
    <2>1. r = round + 1 \/ r \in 1..round
        BY <1>1
    <2> QED BY <1>1, <2>1 DEF RoundInv
<1> QED BY <1>1, <1>3, <1>4 DEF RoundInv

(* A step that begins no round; if one returns to the loop, it has ended. *)
LEMMA RoundsKept ==
    ASSUME TypeInv, RoundInv, [Next]_vars, UNCHANGED <<round, said>>,
           \/ RoundsOver' = RoundsOver
           \/ RoundsOver' = round /\ round > 0 /\ (Succeeded(round) \/ Failed(round)),
           loop' \in {"deliver", "interval"} => round > 0 /\ Succeeded(round),
           loop' = "backoff" => round > 0 /\ Failed(round),
           loop' = "stopping" => loop = "stopping",
           loop' \notin {"stopping", "ended"} => loop \notin {"stopping", "ended"}
    PROVE  RoundInv'
<1>1. round > 0 => round \in 1..round
    BY RoundFacts
<1>2. \A q \in 1..RoundsOver' : (Succeeded(q) \/ Failed(q))'
    <2> SUFFICES ASSUME NEW q \in 1..RoundsOver' PROVE (Succeeded(q) \/ Failed(q))'
        OBVIOUS
    <2>1. q \in 1..RoundsOver \/ (q = round /\ round > 0 /\ (Succeeded(round) \/ Failed(round)))
        BY RoundFacts
    <2> QED BY <1>1, <2>1, OverStays, Lasting
<1>3. round > 0 => (Succeeded(round) => Succeeded(round)') /\ (Failed(round) => Failed(round)')
    BY <1>1, Lasting
<1>4. round' = round
    OBVIOUS
<1> QED BY <1>2, <1>3, <1>4 DEF RoundInv

(* Where a step of the loop that begins no round takes it. *)
LEMMA LoopOthers ==
    ASSUME TypeInv, RoundInv, LoopStep, ~Announce, ~SayStopped
    PROVE  /\ UNCHANGED <<round, said, calls, netVars>>
           /\ \/ /\ loop = "announcing" /\ loop' = "deliver" /\ Succeeded(round)
                 /\ round > 0
              \/ /\ loop = "announcing" /\ loop' = "backoff" /\ Failed(round)
                 /\ round > 0
              \/ loop \in {"backoff", "interval"} /\ loop' = "start"
              \/ loop = "backoff" /\ loop' = "ended"
              \/ loop = "deliver" /\ loop' = "interval"
              \/ /\ loop = "stopping" /\ loop' = "ended"
                 /\ round > 0 /\ (Succeeded(round) \/ Failed(round))
<1>0. loop = "announcing" => round > 0
    BY DEF TypeInv, Bounded
<1>1. CASE AnnounceReturns BY <1>0, <1>1 DEF AnnounceReturns, netVars
<1>2. CASE AnnounceFails BY <1>0, <1>2 DEF AnnounceFails, netVars
<1>3. CASE BackoffOver BY <1>3 DEF BackoffOver, netVars
<1>4. CASE BackoffCancelled BY <1>4 DEF BackoffCancelled, netVars
<1>5. CASE DeliverPeers BY <1>5 DEF DeliverPeers, netVars
<1>6. CASE IntervalOver BY <1>6 DEF IntervalOver, netVars
<1>7. CASE StoppedReturns BY <1>7 DEF StoppedReturns, RoundInv, netVars
<1> QED BY <1>1, <1>2, <1>3, <1>4, <1>5, <1>6, <1>7 DEF LoopStep

LEMMA RoundsStep == TypeInv /\ RoundInv /\ [Next]_vars => RoundInv'
<1> SUFFICES ASSUME TypeInv, RoundInv, [Next]_vars PROVE RoundInv'
    OBVIOUS
<1>1. CASE LoopStep
    <2>1. CASE Announce
        <3>1. /\ round < MaxRounds /\ event \in Events /\ event # "stopped"
              /\ FanOut(event) /\ loop = "start" /\ loop' = "announcing"
              /\ RoundsOver = round
            BY <2>1, RoundFacts, Constants
               DEF Announce, TypeInv, TypeOK, Bounded, Events
        <3> QED BY <3>1, RoundsFanOut
    <2>2. CASE SayStopped
        <3>1. /\ round < MaxRounds /\ "stopped" \in Events /\ FanOut("stopped")
              /\ loop \in {"deliver", "interval"} /\ loop' = "stopping"
              /\ RoundsOver = round
            BY <2>2, RoundFacts DEF SayStopped, TypeInv, Bounded, Events
        <3> QED BY <3>1, RoundsFanOut
    <2>3. CASE ~Announce /\ ~SayStopped
        <3>1. UNCHANGED <<round, said>>
            BY <1>1, <2>3, LoopOthers
        <3>2. \/ RoundsOver' = RoundsOver
              \/ RoundsOver' = round /\ round > 0 /\ (Succeeded(round) \/ Failed(round))
            BY <1>1, <2>3, <3>1, LoopOthers DEF RoundsOver
        <3> QED BY <1>1, <2>3, <3>1, <3>2, LoopOthers, RoundsKept DEF RoundInv
    <2> QED BY <2>1, <2>2, <2>3
<1>2. CASE UNCHANGED <<loop, round, said>>
    BY <1>2, RoundsKept DEF RoundsOver, RoundInv
<1>3. CASE ReadPeers
    BY <1>2, <1>3 DEF ReadPeers
<1>4. CASE UNCHANGED loopVars
    BY <1>2, <1>4 DEF loopVars
<1>5. CASE \E r \in Rounds, t \in Trackers : Steps(r, t)
    BY <1>4, <1>5 DEF Steps
<1>6. CASE NetStep
    BY <1>4, <1>6, NetFacts DEF NetStep
<1> QED BY <1>1, <1>3, <1>4, <1>5, <1>6, UdpSteps, HttpSteps, Constants
        DEF Next, Cancel, vars

LEMMA RoundInvariant == Spec => []RoundInv
BY TypeInvariant, RoundsInit, RoundsStep, PTL DEF Spec

(* The two sequences that the abstract specification sees. *)
saidSeq == [r \in 1..round |-> said[r]]
endSeq == [r \in 1..RoundsOver |-> IF Succeeded(r) THEN "answered" ELSE "failed"]

LEMMA SeqOfFunction ==
    ASSUME NEW S, NEW n \in Nat, NEW s \in [1..n -> S]
    PROVE  s \in Seq(S) /\ Len(s) = n /\ DOMAIN s = 1..n
BY SeqDef, LenProperties

LEMMA SeqGrows ==
    ASSUME NEW S, NEW n \in Nat, NEW s \in [1..n -> S], NEW z \in [1..(n + 1) -> S],
           \A i \in 1..n : z[i] = s[i]
    PROVE  z = Append(s, z[n + 1])
<1>1. /\ s \in Seq(S) /\ Len(s) = n
      /\ z \in Seq(S) /\ Len(z) = n + 1
    BY SeqOfFunction
<1>2. z[n + 1] \in S
    OBVIOUS
<1>3. /\ Append(s, z[n + 1]) \in Seq(S)
      /\ Len(Append(s, z[n + 1])) = n + 1
      /\ \A i \in 1..(n + 1) : Append(s, z[n + 1])[i] = z[i]
    BY <1>1, <1>2
<1> QED BY <1>1, <1>3, SeqEqual

SaidSeqOf ==
    /\ saidSeq \in [1..round -> Events]
    /\ Len(saidSeq) = round /\ DOMAIN saidSeq = 1..round
    /\ \A r \in 1..round : saidSeq[r] = said[r]

LEMMA SaidSeqType == TypeInv /\ RoundInv => SaidSeqOf
<1> SUFFICES ASSUME TypeInv, RoundInv PROVE SaidSeqOf
    OBVIOUS
<1>1. saidSeq \in [1..round -> Events] /\ round \in Nat
    BY RoundFacts DEF saidSeq
<1> QED BY <1>1, SeqOfFunction DEF saidSeq, SaidSeqOf

EndSeqOf ==
    /\ endSeq \in [1..RoundsOver -> {"answered", "failed"}]
    /\ Len(endSeq) = RoundsOver /\ DOMAIN endSeq = 1..RoundsOver
    /\ \A r \in 1..RoundsOver :
          endSeq[r] = IF Succeeded(r) THEN "answered" ELSE "failed"

LEMMA EndSeqType == TypeInv /\ RoundInv => EndSeqOf
<1> SUFFICES ASSUME TypeInv, RoundInv PROVE EndSeqOf
    OBVIOUS
<1>1. endSeq \in [1..RoundsOver -> {"answered", "failed"}] /\ RoundsOver \in Nat
    BY RoundFacts DEF endSeq
<1> QED BY <1>1, SeqOfFunction DEF endSeq, EndSeqOf

(* The state predicates of AnnounceRounds, in the loop's terms. *)
LEMMA Seen ==
    ASSUME TypeInv, RoundInv
    PROVE  /\ Announced!UnderWay <=> RoundsOver < round
           /\ Announced!Answered <=> \E q \in 1..RoundsOver : Succeeded(q)
           /\ endSeq # <<>> <=> RoundsOver > 0
           /\ Announced!Leaving <=> \E r \in 1..round : said[r] = "stopped"
<1>0. RoundsOver \in Nat
    BY RoundFacts
<1>1. Announced!UnderWay <=> RoundsOver < round
    <2>1. Announced!UnderWay <=> Len(endSeq) < Len(saidSeq)
        BY DEF Announced!UnderWay, endSeq, saidSeq
    <2> QED BY <2>1, SaidSeqType, EndSeqType DEF SaidSeqOf, EndSeqOf
<1>2. Announced!Answered <=> \E q \in 1..RoundsOver : Succeeded(q)
    <2>1. Announced!Answered <=> \E q \in DOMAIN endSeq : endSeq[q] = "answered"
        BY DEF Announced!Answered, endSeq
    <2> QED BY <2>1, EndSeqType DEF EndSeqOf
<1>3. endSeq # <<>> <=> RoundsOver > 0
    <2>1. endSeq \in Seq({"answered", "failed"})
        BY <1>0, EndSeqType, SeqOfFunction DEF EndSeqOf
    <2> QED BY <1>0, <2>1, EndSeqType, EmptySeq DEF EndSeqOf
<1>7. Announced!Leaving <=> \E r \in 1..round : said[r] = "stopped"
    <2>1. Announced!Leaving <=> \E r \in DOMAIN saidSeq : saidSeq[r] = "stopped"
        BY DEF Announced!Leaving, saidSeq
    <2> QED BY <2>1, SaidSeqType DEF SaidSeqOf
<1> QED BY <1>1, <1>2, <1>3, <1>7

(* What a step does to the two sequences. *)
LEMMA SaidGrows ==
    ASSUME TypeInv, RoundInv, TypeInv', RoundInv', round < MaxRounds,
           NEW e \in Events, FanOut(e)
    PROVE  saidSeq' = Append(saidSeq, e)
<1>1. /\ round' = round + 1 /\ said'[round + 1] = e /\ round \in Nat
      /\ \A r \in 1..round : said'[r] = said[r]
    BY FanOutFacts, RoundFacts DEF TypeInv
<1>2. /\ saidSeq' \in [1..round' -> Events]
      /\ \A r \in 1..round' : saidSeq'[r] = said'[r]
    <2>1. SaidSeqOf'
        BY SaidSeqType, PTL
    <2> QED BY <2>1 DEF SaidSeqOf
<1>3. /\ saidSeq \in [1..round -> Events]
      /\ \A r \in 1..round : saidSeq[r] = said[r]
    BY SaidSeqType DEF SaidSeqOf
<1>4. \A r \in 1..round : saidSeq'[r] = saidSeq[r]
    BY <1>1, <1>2, <1>3
<1>5. saidSeq'[round + 1] = e
    BY <1>1, <1>2
<1> QED BY <1>1, <1>2, <1>3, <1>4, <1>5, SeqGrows

LEMMA SaidStays ==
    ASSUME UNCHANGED <<round, said>> PROVE saidSeq' = saidSeq
BY DEF saidSeq

LEMMA EndsStay ==
    ASSUME TypeInv, RoundInv, [Next]_vars, RoundsOver' = RoundsOver
    PROVE  endSeq' = endSeq
<1>1. \A r \in 1..RoundsOver : Succeeded(r)' <=> Succeeded(r)
    BY OverStays
<1> QED BY <1>1 DEF endSeq

LEMMA EndsGrow ==
    ASSUME TypeInv, RoundInv, TypeInv', RoundInv', [Next]_vars, UNCHANGED calls,
           RoundsOver' = RoundsOver + 1
    PROVE  endSeq' = Append(endSeq, IF Succeeded(RoundsOver + 1) THEN "answered" ELSE "failed")
<1>1. /\ endSeq' \in [1..RoundsOver' -> {"answered", "failed"}]
      /\ \A r \in 1..RoundsOver' :
            endSeq'[r] = IF Succeeded(r)' THEN "answered" ELSE "failed"
    <2>1. EndSeqOf'
        BY EndSeqType, PTL
    <2> QED BY <2>1 DEF EndSeqOf
<1>2. \A r : Succeeded(r)' <=> Succeeded(r)
    BY DEF Succeeded
<1>3. /\ endSeq \in [1..RoundsOver -> {"answered", "failed"}] /\ RoundsOver \in Nat
      /\ \A r \in 1..RoundsOver : endSeq[r] = IF Succeeded(r) THEN "answered" ELSE "failed"
    BY EndSeqType, RoundFacts DEF EndSeqOf
<1>4. \A r \in 1..RoundsOver : endSeq'[r] = endSeq[r]
    BY <1>1, <1>2, <1>3
<1>5. endSeq'[RoundsOver + 1] = IF Succeeded(RoundsOver + 1) THEN "answered" ELSE "failed"
    BY <1>1, <1>2, <1>3
<1> QED BY <1>1, <1>3, <1>4, <1>5, SeqGrows

announcedVars == <<saidSeq, endSeq, SeemsHeard, loop = "ended">>

AllInv == TypeInv /\ Own /\ SaidInv /\ HeardInv /\ RoundInv

(* A round that succeeded was not the first to be heard of. *)
LEMMA SucceededIsHeard ==
    ASSUME AllInv, NEW r \in Rounds, Succeeded(r) PROVE SeemsHeard
BY DEF AllInv, HeardInv, Unheard, Succeeded

LEMMA SimulateBegin ==
    ASSUME AllInv, AllInv', [Next]_vars, Announce \/ SayStopped
    PROVE  Announced!Next
<1>0. TypeInv /\ RoundInv /\ TypeInv' /\ RoundInv' /\ round \in Nat
    BY RoundFacts DEF AllInv
<1>1. CASE Announce
    <2>1. /\ loop = "start" /\ loop' = "announcing" /\ FanOut(event)
          /\ event \in Events /\ round < MaxRounds /\ UNCHANGED heardVars
        BY <1>0, <1>1, Constants DEF Announce, TypeInv, TypeOK, Bounded, Events
    <2>2. RoundsOver = round /\ RoundsOver' = round
        BY <1>0, <2>1 DEF RoundsOver, FanOut
    <2>3. saidSeq' = Append(saidSeq, event) /\ endSeq' = endSeq
        BY <1>0, <2>1, <2>2, SaidGrows, EndsStay
    <2>4. ~Announced!UnderWay /\ ~Announced!Leaving
        BY <1>0, <2>1, <2>2, Seen DEF RoundInv
    <2>5. event = IF Announced!Answered THEN "regular" ELSE "started"
        <3>1. Announced!Answered <=> \E q \in 1..round : Succeeded(q)
            BY <1>0, <2>2, Seen
        <3>2. event = "started" => ~\E q \in 1..round : Succeeded(q)
            BY <2>2 DEF AllInv, SaidInv, Succeeded, Failed
        <3>3. event # "started" => event = "regular" /\ \E q \in 1..round : Succeeded(q)
            BY DEF AllInv, SaidInv, TypeInv, TypeOK
        <3> QED BY <3>1, <3>2, <3>3
    <2>6. UNCHANGED <<SeemsHeard, loop = "ended">> /\ loop # "ended"
        BY <2>1 DEF SeemsHeard, Heard, heardVars
    <2>7. Announced!Say
        BY <2>3, <2>4, <2>5, <2>6 DEF Announced!Say, Announced!Begin, saidSeq, endSeq
    <2> QED BY <2>7 DEF Announced!Next
<1>2. CASE SayStopped
    <2>1. /\ loop \in {"deliver", "interval"} /\ loop' = "stopping" /\ FanOut("stopped")
          /\ "stopped" \in Events /\ round < MaxRounds /\ UNCHANGED heardVars
        BY <1>0, <1>2 DEF SayStopped, TypeInv, Bounded, Events
    <2>2. RoundsOver = round /\ RoundsOver' = round
        BY <1>0, <2>1 DEF RoundsOver, FanOut
    <2>3. saidSeq' = Append(saidSeq, "stopped") /\ endSeq' = endSeq
        BY <1>0, <2>1, <2>2, SaidGrows, EndsStay
    <2>4. ~Announced!UnderWay /\ ~Announced!Leaving /\ endSeq # <<>>
        BY <1>0, <2>1, <2>2, Seen DEF RoundInv
    <2>5. Announced!Begin("stopped")
        <3>1. UNCHANGED <<SeemsHeard, loop = "ended">> /\ loop # "ended"
            BY <2>1 DEF SeemsHeard, Heard, heardVars
        <3> QED BY <2>3, <2>4, <3>1 DEF Announced!Begin, saidSeq, endSeq
    <2> QED BY <2>4, <2>5 DEF Announced!SayStopped, Announced!Next, endSeq
<1> QED BY <1>1, <1>2

LEMMA SimulateLoop ==
    ASSUME AllInv, AllInv', [Next]_vars, LoopStep, ~Announce, ~SayStopped
    PROVE  Announced!Next \/ UNCHANGED announcedVars
<1>0. TypeInv /\ RoundInv /\ TypeInv' /\ RoundInv' /\ round \in Nat
    BY RoundFacts DEF AllInv
<1>1. /\ UNCHANGED <<round, said, calls, heardVars>> /\ SeemsHeard' = SeemsHeard
      /\ saidSeq' = saidSeq
    BY <1>0, LoopOthers, SaidStays DEF netVars, heardVars, SeemsHeard, Heard
<1>2. CASE RoundsOver' = RoundsOver /\ (loop' = "ended") = (loop = "ended")
    BY <1>0, <1>1, <1>2, EndsStay DEF announcedVars
<1>3. CASE loop = "backoff" /\ loop' = "ended"
    <2>1. RoundsOver = round /\ RoundsOver' = round /\ round > 0 /\ ~Succeeded(round)
        BY <1>0, <1>1, <1>3 DEF RoundsOver, RoundInv, Failed, Succeeded
    <2>2. endSeq' = endSeq /\ ~Announced!UnderWay
        BY <1>0, <2>1, Seen, EndsStay
    <2>3. (loop' = "ended") = TRUE /\ loop # "ended"
        BY <1>3
    <2> QED BY <1>1, <2>2, <2>3 DEF Announced!Return, Announced!Next, saidSeq, endSeq
<1>4. CASE loop \in {"announcing", "stopping"} /\ loop' \notin {"announcing", "stopping"}
    <2> DEFINE end == IF Succeeded(round) THEN "answered" ELSE "failed"
    <2>1. /\ RoundsOver = round - 1 /\ RoundsOver' = round /\ round > 0
          /\ loop # "ended"
          /\ (loop' = "ended") <=> (loop = "stopping")
        BY <1>0, <1>1, <1>4, LoopOthers DEF RoundsOver, RoundInv
    <2>2. RoundsOver \in Nat /\ RoundsOver + 1 = round /\ round \in 1..round
        BY <1>0, <2>1
    <2>3. endSeq' = Append(endSeq, end)
        BY <1>0, <1>1, <2>1, <2>2, EndsGrow
    <2>4. Announced!UnderWay
        BY <1>0, <2>1, Seen
    <2>5. Announced!Leaving <=> loop = "stopping"
        BY <1>0, <1>4, <2>2, Seen DEF RoundInv
    <2>6. end = "answered" => SeemsHeard
        <3>1. round \in Rounds
            BY <1>0, <2>2, RoundFacts
        <3> QED BY <3>1, SucceededIsHeard
    <2>7. end \in {"answered", "failed"}
        OBVIOUS
    <2> HIDE DEF end
    <2>8. (loop' = "ended") = Announced!Leaving
        BY <2>1, <2>5 DEF Announced!Leaving
    <2>9. Announced!End(end)
        BY <1>1, <2>1, <2>3, <2>4, <2>6, <2>8 DEF Announced!End, saidSeq, endSeq
    <2> QED BY <2>7, <2>9 DEF Announced!Next
<1> QED BY <1>0, <1>1, <1>2, <1>3, <1>4, LoopOthers DEF RoundsOver

(* Steps below the loop only let somebody hear. *)
LEMMA SimulateBelow ==
    ASSUME AllInv, [Next]_vars, UNCHANGED <<loop, round, said>>,
           answered \subseteq answered', misled => misled',
           round > 0 \/ UNCHANGED heardVars
    PROVE  Announced!Next \/ UNCHANGED announcedVars
<1>1. RoundsOver' = RoundsOver /\ saidSeq' = saidSeq
    BY SaidStays DEF RoundsOver
<1>2. endSeq' = endSeq
    BY <1>1, EndsStay DEF AllInv
<1>3. CASE SeemsHeard' = SeemsHeard
    BY <1>1, <1>2, <1>3 DEF announcedVars
<1>4. CASE SeemsHeard' # SeemsHeard
    <2>1. SeemsHeard' = TRUE /\ ~SeemsHeard /\ round > 0
        BY <1>4 DEF SeemsHeard, Heard, heardVars
    <2>2. Unheard /\ 1 \in 1..round
        BY <2>1 DEF AllInv, HeardInv, TypeInv, TypeOK
    <2>3. \E r \in DOMAIN saidSeq : saidSeq[r] = "started"
        BY <2>2, SaidSeqType DEF AllInv, SaidSeqOf, Unheard
    <2> QED BY <1>1, <1>2, <2>1, <2>3 DEF Announced!Hear, Announced!Next, saidSeq, endSeq
<1> QED BY <1>3, <1>4

LEMMA Simulate ==
    ASSUME AllInv, AllInv', [Next]_vars
    PROVE  Announced!Next \/ UNCHANGED announcedVars
<1> USE Constants
<1>1. CASE LoopStep
    BY <1>1, SimulateBegin, SimulateLoop
<1>2. ASSUME UNCHANGED <<loop, round, said>>, round > 0 \/ UNCHANGED heardVars
      PROVE  Announced!Next \/ UNCHANGED announcedVars
    <2>1. answered \subseteq answered' /\ (misled => misled')
        BY HeardStays DEF AllInv
    <2> QED BY <1>2, <2>1, SimulateBelow
<1>3. ASSUME NEW r \in Rounds, NEW t \in Trackers, Steps(r, t)
      PROVE  Announced!Next \/ UNCHANGED announcedVars
    <2>1. UNCHANGED <<loop, round, said>>
        BY <1>3 DEF Steps, loopVars
    <2>2. r <= round
        BY <1>3 DEF AllInv, Own, Steps
    <2>3. round > 0
        BY <2>2 DEF AllInv, TypeInv, TypeOK, Rounds
    <2> QED BY <1>2, <2>1, <2>3
<1>4. ASSUME NEW d \in net, AnswerConnect(d) \/ AnswerAnnounce(d)
      PROVE  Announced!Next \/ UNCHANGED announcedVars
    <2>1. UNCHANGED <<loop, round, said>>
        BY <1>4, NetFacts DEF AllInv, loopVars
    <2>2. round > 0
        BY DEF AllInv, Own, TypeInv, TypeOK, Requests, Rounds
    <2> QED BY <1>2, <2>1, <2>2
<1>5. CASE Cancel \/ ReadPeers \/ UNCHANGED vars
    <2>1. UNCHANGED <<loop, round, said, heardVars>>
        BY <1>5 DEF Cancel, ReadPeers, vars, loopVars, netVars
    <2> QED BY <1>2, <2>1
<1> QED BY <1>1, <1>3, <1>4, <1>5, UdpSteps, HttpSteps DEF AllInv, Next, NetStep

(* Every step of the tracker client, whatever its goroutines, sockets and  *)
(* trackers do, is a step of AnnounceRounds or invisible to it.            *)
THEOREM TrackerImplementsAnnounceRounds == Spec => ImplementsAnnounceRounds
<1>1. Init => Announced!Init
    <2> SUFFICES ASSUME Init PROVE Announced!Init
        OBVIOUS
    <2>1. round = 0 /\ RoundsOver = 0 /\ SeemsHeard = FALSE /\ loop # "ended"
        BY DEF Init, RoundsOver, SeemsHeard, Heard
    <2>2. saidSeq = <<>> /\ endSeq = <<>>
        BY <2>1 DEF saidSeq, endSeq
    <2> QED BY <2>1, <2>2 DEF Announced!Init, saidSeq, endSeq
<1>2. AllInv /\ AllInv' /\ [Next]_vars => [Announced!Next]_(Announced!vars)
    <2>1. announcedVars = Announced!vars
        BY DEF announcedVars, Announced!vars, saidSeq, endSeq
    <2>2. UNCHANGED announcedVars => UNCHANGED Announced!vars
        BY DEF announcedVars, Announced!vars, saidSeq, endSeq
    <2> QED BY <2>2, Simulate
<1>3. Spec => []AllInv
    BY TypeInvariant, OwnInvariant, SaidInvariant, HeardInvariant, RoundInvariant, PTL
       DEF AllInv
<1>4. Spec => Announced!Spec
    BY <1>1, <1>2, <1>3, PTL DEF Spec, Announced!Spec
<1> QED BY <1>4 DEF ImplementsAnnounceRounds

----------------------------------------------------------------------------
\* Every announce ends.

(* Only UDP calls wait for datagrams, with an attempt that counts; a call  *)
(* is begun with its round.                                                *)
Proper(t, c) ==
    /\ c.at \in {"connecting", "announcing"} => t \in Udp /\ c.attempt \in 1..Attempts
    /\ c.at = "request" => t \in Http

CallsInv ==
    \A r \in Rounds, t \in Trackers :
        /\ Proper(t, calls[r][t])
        /\ calls[r][t].at = "idle" <=> r > round

LEMMA CallsInit == Init => CallsInv
BY DEF Init, CallsInv, Proper, Idle, Rounds

(* A step of a call spends some of what it may still do. *)
Spends(r, t) ==
    /\ Proper(t, calls'[r][t])
    /\ calls'[r][t].at # "idle"
    /\ StepsLeft(calls'[r][t]) < StepsLeft(calls[r][t])
    /\ \A q \in Rounds, u \in Trackers : <<q, u>> # <<r, t>> => calls'[q][u] = calls[q][u]

LEMMA EndSpends ==
    ASSUME TypeInv, NEW r \in Rounds, NEW t \in Trackers, Proper(t, calls[r][t]),
           calls[r][t].at \in {"connecting", "announcing", "request"},
           NEW at \in {"ok", "failed"}, Move(r, t, at, 0, 0)
    PROVE  Spends(r, t)
<1> USE Constants
<1>1. at \in Positions /\ 0 \in 0..Attempts /\ 0 \in 0..MaxRounds
    BY DEF Positions
<1>2. /\ calls'[r][t].at = at
      /\ \A q \in Rounds, u \in Trackers : <<q, u>> # <<r, t>> => calls'[q][u] = calls[q][u]
    BY <1>1, MoveEnds, MoveCalls DEF TypeInv
<1>3. StepsLeft(calls'[r][t]) = 0
    BY <1>2 DEF StepsLeft
<1>4. StepsLeft(calls[r][t]) > 0
    BY DEF StepsLeft, Proper
<1> QED BY <1>2, <1>3, <1>4 DEF Spends, Proper

LEMMA UdpSpends ==
    ASSUME TypeInv, NEW r \in Rounds, NEW t \in Udp, Proper(t, calls[r][t]), UdpStep(r, t)
    PROVE  Spends(r, t)
<1> USE Constants
<1> DEFINE c == calls[r][t]
<1>0. t \in Trackers /\ c \in Call
    BY DEF TypeInv, TypeOK, Call
<1>1. CASE SendFails(r, t)
    BY <1>0, <1>1, EndSpends DEF SendFails, Waiting
<1>2. CASE Resend(r, t)
    <2>1. /\ c.at \in {"connecting", "announcing"} /\ c.attempt \in 1..Attempts
          /\ c.attempt < Attempts /\ Move(r, t, c.at, c.attempt + 1, c.conn)
        BY <1>2 DEF Resend, Waiting, Proper
    <2>2. /\ c.at \in Positions /\ c.attempt + 1 \in 0..Attempts /\ c.conn \in 0..MaxRounds
          /\ c.attempt + 1 \in 1..Attempts
        BY <1>0, <2>1 DEF Call
    <2>3. /\ calls'[r][t] = [at |-> c.at, attempt |-> c.attempt + 1, conn |-> c.conn]
          /\ \A q \in Rounds, u \in Trackers : <<q, u>> # <<r, t>> => calls'[q][u] = calls[q][u]
        BY <1>0, <2>1, <2>2, MoveCalls DEF TypeInv
    <2>4. calls'[r][t].at = c.at /\ calls'[r][t].attempt = c.attempt + 1
        BY <2>3
    <2>5. StepsLeft(calls'[r][t]) < StepsLeft(c)
        BY <2>1, <2>4 DEF StepsLeft
    <2> QED BY <2>1, <2>2, <2>3, <2>4, <2>5 DEF Spends, Proper
<1>3. CASE GiveUp(r, t)
    BY <1>0, <1>3, EndSpends DEF GiveUp, Waiting
<1>4. CASE ReadConnect(r, t)
    <2> DEFINE d == Head(inbox[t])
    <2>1. CASE IsOwnConnect(r, d)
        <3>1. /\ c.at = "connecting" /\ c.attempt \in 1..Attempts
              /\ Move(r, t, "announcing", 1, d.connect)
            BY <1>4, <2>1 DEF ReadConnect, Proper
        <3>2. d.connect \in 0..MaxRounds /\ "announcing" \in Positions /\ 1 \in 0..Attempts
            BY <1>4, TakeType DEF ReadConnect, TypeInv, Answers, Positions
        <3>3. /\ calls'[r][t] = [at |-> "announcing", attempt |-> 1, conn |-> d.connect]
              /\ \A q \in Rounds, u \in Trackers : <<q, u>> # <<r, t>> => calls'[q][u] = calls[q][u]
            BY <1>0, <3>1, <3>2, MoveCalls DEF TypeInv
        <3>4. calls'[r][t].at = "announcing" /\ calls'[r][t].attempt = 1
            BY <3>3
        <3>5. StepsLeft(calls'[r][t]) < StepsLeft(c)
            BY <3>1, <3>4 DEF StepsLeft
        <3> QED BY <3>3, <3>4, <3>5 DEF Spends, Proper
    <2>2. CASE ~IsOwnConnect(r, d)
        BY <1>0, <1>4, <2>2, EndSpends DEF ReadConnect
    <2> QED BY <2>1, <2>2
<1>5. CASE ReadAnnounce(r, t)
    BY <1>0, <1>5, EndSpends DEF ReadAnnounce
<1> QED BY <1>1, <1>2, <1>3, <1>4, <1>5 DEF UdpStep

LEMMA HttpSpends ==
    ASSUME TypeInv, NEW r \in Rounds, NEW t \in Http, Proper(t, calls[r][t]), HttpStep(r, t)
    PROVE  Spends(r, t)
BY EndSpends, Constants DEF HttpStep, HttpAnswered, HttpFails

(* A round begins with calls that had not begun. *)
LEMMA FanOutSpends ==
    ASSUME TypeInv, CallsInv, round < MaxRounds, NEW e, FanOut(e)
    PROVE  /\ CallsInv'
           /\ \A r \in Rounds, t \in Trackers :
                 calls'[r][t] # calls[r][t] => StepsLeft(calls'[r][t]) < StepsLeft(calls[r][t])
<1> USE Constants
<1>0. round' = round + 1 /\ round \in Nat /\ round + 1 \in Rounds
    BY DEF FanOut, TypeInv, TypeOK, Rounds
<1>1. \A t \in Trackers : calls'[round + 1][t] =
          IF t \in Udp THEN [at |-> "connecting", attempt |-> 1, conn |-> 0]
                       ELSE [at |-> "request", attempt |-> 0, conn |-> 0]
    BY <1>0 DEF FanOut, TypeInv, TypeOK
<1>2. \A r \in Rounds : r # round + 1 => calls'[r] = calls[r]
    BY DEF FanOut, TypeInv, TypeOK
<1>3. ASSUME NEW t \in Trackers
      PROVE  /\ Proper(t, calls'[round + 1][t])
             /\ calls'[round + 1][t].at # "idle"
             /\ StepsLeft(calls'[round + 1][t]) < StepsLeft(calls[round + 1][t])
    <2>1. StepsLeft(calls[round + 1][t]) = 2 * Attempts + 2
        BY <1>0 DEF CallsInv, StepsLeft
    <2>2. CASE t \in Udp
        <3>1. calls'[round + 1][t].at = "connecting" /\ calls'[round + 1][t].attempt = 1
            BY <1>1, <2>2
        <3>2. StepsLeft(calls'[round + 1][t]) = 2 * Attempts + 2 - 1
            BY <3>1 DEF StepsLeft
        <3> QED BY <2>1, <2>2, <3>1, <3>2 DEF Proper
    <2>3. CASE t \notin Udp
        <3>1. calls'[round + 1][t].at = "request" /\ t \in Http
            BY <1>1, <2>3 DEF Trackers
        <3>2. StepsLeft(calls'[round + 1][t]) = 1
            BY <3>1 DEF StepsLeft
        <3> QED BY <2>1, <3>1, <3>2 DEF Proper
    <2> QED BY <2>2, <2>3
<1>4. ASSUME NEW r \in Rounds, NEW t \in Trackers
      PROVE  Proper(t, calls'[r][t]) /\ (calls'[r][t].at = "idle" <=> r > round')
    <2>1. r \in Nat
        BY DEF Rounds
    <2>2. CASE r = round + 1
        BY <1>0, <1>3, <2>2
    <2>3. CASE r # round + 1
        BY <1>0, <1>2, <2>1, <2>3 DEF CallsInv
    <2> QED BY <2>2, <2>3
<1> QED BY <1>2, <1>3, <1>4 DEF CallsInv

LEMMA SpendsKeeps ==
    ASSUME TypeInv, CallsInv, NEW r \in Rounds, NEW t \in Trackers,
           Steps(r, t), Spends(r, t)
    PROVE  /\ CallsInv'
           /\ \A q \in Rounds, u \in Trackers :
                 calls'[q][u] # calls[q][u] => StepsLeft(calls'[q][u]) < StepsLeft(calls[q][u])
<1>1. round' = round /\ calls[r][t].at # "idle"
    BY DEF Steps, loopVars
<1> QED BY <1>1 DEF CallsInv, Spends

LEMMA CallsStep ==
    TypeInv /\ CallsInv /\ [Next]_vars =>
        /\ CallsInv'
        /\ \A r \in Rounds, t \in Trackers :
              calls'[r][t] # calls[r][t] => StepsLeft(calls'[r][t]) < StepsLeft(calls[r][t])
<1> DEFINE Goal == /\ CallsInv'
                   /\ \A r \in Rounds, t \in Trackers : calls'[r][t] # calls[r][t] =>
                         StepsLeft(calls'[r][t]) < StepsLeft(calls[r][t])
<1> SUFFICES ASSUME TypeInv, CallsInv, [Next]_vars PROVE Goal
    OBVIOUS
<1>1. CASE UNCHANGED <<round, calls>>
    BY <1>1 DEF CallsInv
<1>2. CASE LoopStep
    <2>1. CASE \E e \in Events : FanOut(e) /\ round < MaxRounds
        BY <2>1, FanOutSpends
    <2> QED BY <1>1, <1>2, <2>1, LoopKinds
<1>3. CASE \E r \in Rounds, t \in Udp : UdpStep(r, t)
    <2>1. PICK r \in Rounds, t \in Udp : UdpStep(r, t)
        BY <1>3
    <2>2. t \in Trackers /\ Proper(t, calls[r][t])
        BY Constants DEF CallsInv
    <2>3. Steps(r, t) /\ Spends(r, t)
        BY <2>1, <2>2, UdpSteps, UdpSpends
    <2> QED BY <2>2, <2>3, SpendsKeeps
<1>4. CASE \E r \in Rounds, t \in Http : HttpStep(r, t)
    <2>1. PICK r \in Rounds, t \in Http : HttpStep(r, t)
        BY <1>4
    <2>2. t \in Trackers /\ Proper(t, calls[r][t])
        BY Constants DEF CallsInv
    <2>3. Steps(r, t) /\ Spends(r, t)
        BY <2>1, <2>2, HttpSteps, HttpSpends
    <2> QED BY <2>2, <2>3, SpendsKeeps
<1>5. CASE NetStep
    <2>1. UNCHANGED <<round, calls>>
        BY <1>5, NetFacts DEF NetStep, loopVars
    <2> QED BY <1>1, <2>1
<1>6. CASE Cancel \/ ReadPeers \/ UNCHANGED vars
    <2>1. UNCHANGED <<round, calls>>
        BY <1>6 DEF Cancel, ReadPeers, vars, loopVars
    <2> QED BY <1>1, <2>1
<1> QED BY <1>2, <1>3, <1>4, <1>5, <1>6 DEF Next

LEMMA CallsInvariant == Spec => []CallsInv
BY TypeInvariant, CallsInit, CallsStep, PTL DEF Spec

(* Whatever datagrams its neighbours take from the shared socket, each     *)
(* announce comes closer to its end with every step, for any number of     *)
(* attempts: the first half of why the loop ends.                          *)
THEOREM AnnouncesRunDown == Spec => CallsRunDown
<1>1. TypeInv /\ CallsInv /\ [Next]_vars =>
          [\A r \in Rounds, t \in Trackers : calls'[r][t] # calls[r][t] =>
              StepsLeft(calls'[r][t]) < StepsLeft(calls[r][t])]_vars
    BY CallsStep
<1> QED BY <1>1, TypeInvariant, CallsInvariant, PTL DEF Spec, CallsRunDown

(* The other half: while a round has not ended there is an announce of it  *)
(* that can take such a step without anybody's help.                       *)
THEOREM RoundsNeverHang == Spec => []RoundGoesOn
<1>1. TypeInv /\ RoundInv /\ CallsInv => RoundGoesOn
    <2> SUFFICES ASSUME TypeInv, RoundInv, CallsInv, loop \in {"announcing", "stopping"},
                        ~Succeeded(round), ~Failed(round)
                 PROVE  \/ \E t \in Udp : Waiting(round, t) /\ calls[round][t].attempt \in 1..Attempts
                        \/ \E t \in Http : calls[round][t].at = "request"
        BY DEF RoundGoesOn
    <2>1. round \in Rounds /\ ~(round > round)
        BY Constants DEF TypeInv, TypeOK, Bounded, RoundInv, Rounds
    <2>2. PICK t \in Trackers : calls[round][t].at # "failed"
        BY DEF Failed
    <2>3. calls[round][t].at \in {"connecting", "announcing", "request"}
        BY <2>1, <2>2 DEF CallsInv, Succeeded, TypeInv, TypeOK, Positions
    <2>4. Proper(t, calls[round][t])
        BY <2>1 DEF CallsInv
    <2> QED BY <2>3, <2>4 DEF Proper, Waiting
<1> QED BY <1>1, TypeInvariant, RoundInvariant, CallsInvariant, PTL
============================================================================

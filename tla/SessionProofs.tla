-------------------------- MODULE SessionProofs --------------------------
(***************************************************************************)
(* Proofs about Session, for every number of pieces and peers, every       *)
(* capacity and every set of faulty peers.                                 *)
(***************************************************************************)
EXTENDS Session, FiniteSetTheorems, TLAPS

----------------------------------------------------------------------------
\* Types.

LEMMA PieceFacts ==
    /\ PieceCount \in Nat /\ PieceCount > 0
    /\ NoPiece \notin Pieces
    /\ Pieces \subseteq Nat
    /\ NoResult \notin Result
BY SessionAssumption DEF Pieces, NoPiece, NoResult, Result

LEMMA SeqFacts ==
    ASSUME NEW S
    PROVE  /\ <<>> \in Seq(S)
           /\ \A s \in Seq(S), x \in S : Append(s, x) \in Seq(S)
           /\ \A s \in Seq(S) : s # <<>> =>
                 Head(s) \in S /\ Tail(s) \in Seq(S) /\ 1 \in DOMAIN s
OBVIOUS

LEMMA TypeInit == Init => TypeInv
<1> SUFFICES ASSUME Init PROVE TypeInv
    OBVIOUS
<1> USE PieceFacts DEF Init, OutstandingWork
<1>1. TypeOK
    BY SeqFacts DEF TypeOK
<1>2. HandBusy
    BY DEF HandBusy
<1>3. CurBusy
    BY DEF CurBusy
<1> QED BY <1>1, <1>2, <1>3 DEF TypeInv

\* the frame conditions, expanded together
LEMMA TypeStutter == TypeInv /\ UNCHANGED vars => TypeInv'
BY DEF TypeInv, TypeOK, HandBusy, CurBusy, vars, queueVars, peerVars, collVars,
       claimVars, diskVars, ctlVars

LEMMA TypeFeeder ==
    TypeInv /\ (FeederTake \/ FeederPut \/ FeederQuit) => TypeInv'
<1> SUFFICES ASSUME TypeInv, FeederTake \/ FeederPut \/ FeederQuit PROVE TypeInv'
    OBVIOUS
<1> USE PieceFacts DEF TypeInv, TypeOK, HandBusy, CurBusy, peerVars, collVars,
                       claimVars, diskVars, ctlVars
<1>1. CASE FeederTake BY <1>1 DEF FeederTake
<1>2. CASE FeederPut
    <2>1. work' \in Seq(Pieces) /\ feeding' = NoPiece
        BY <1>2, SeqFacts DEF FeederPut
    <2> QED BY <1>2, <2>1 DEF FeederPut
<1>3. CASE FeederQuit BY <1>3 DEF FeederQuit
<1> QED BY <1>1, <1>2, <1>3

LEMMA RequeueType ==
    ASSUME work \in Seq(Pieces), NEW p \in Peers, hand[p] \in Pieces, Requeue(p)
    PROVE  work' \in Seq(Pieces)
<1>1. CASE work' = work BY <1>1
<1>2. CASE work' = Append(work, hand[p]) BY <1>2, SeqFacts
<1> QED BY <1>1, <1>2 DEF Requeue

LEMMA TypePeer ==
    ASSUME TypeInv, NEW p \in Peers, PeerStep(p)
    PROVE  TypeInv'
<1> USE PieceFacts DEF TypeInv, TypeOK, HandBusy, CurBusy, queueVars, collVars,
                       claimVars, diskVars, ctlVars
<1>1. CASE Dial(p) BY <1>1 DEF Dial
<1>2. CASE Connect(p) BY <1>2 DEF Connect
<1>3. CASE DialFails(p) BY <1>3 DEF DialFails
<1>4. CASE Take(p)
    <2>1. Head(work) \in Pieces /\ Tail(work) \in Seq(Pieces)
        BY <1>4 DEF Take
    <2>2. /\ hand' \in [Peers -> Pieces \cup {NoPiece}] /\ misses' \in [Peers -> Nat]
          /\ at' = [at EXCEPT ![p] = IF Head(work) \in Holds[p] THEN "fetch" ELSE "reject"]
        BY <1>4, <2>1 DEF Take
    <2>3. TypeOK'
        <3> HIDE DEF HandBusy, CurBusy
        <3> QED BY <1>4, <2>1, <2>2 DEF Take
    <2>4. HandBusy' /\ CurBusy'
        BY <1>4, <2>1, <2>2 DEF Take
    <2> QED BY <2>3, <2>4
<1>5. CASE Reject(p)
    <2>1. hand[p] \in Pieces
        BY <1>5 DEF Reject
    <2>2. work' \in Seq(Pieces)
        BY <1>5, <2>1, RequeueType DEF Reject
    <2>3. HandBusy' /\ CurBusy'
        BY <1>5, <2>2 DEF Reject
    <2>4. /\ hand' \in [Peers -> Pieces \cup {NoPiece}] /\ misses' \in [Peers -> Nat]
          /\ at' \in [Peers -> {"off", "dialing", "loop", "reject", "count", "nap",
                                "fetch", "deliver"}]
        BY <1>5 DEF Reject
    <2>5. UNCHANGED <<feed, feeding, results, collVars, claimVars, diskVars, ctlVars>>
        BY <1>5 DEF Reject
    <2>6. TypeOK'
        <3> HIDE DEF HandBusy, CurBusy
        <3>1. /\ UNCHANGED <<feed, feeding, results, collector, cur, rejected, stored, have>>
              /\ UNCHANGED <<tbf, announced, onDisk, saved, state, request, mquit, squit>>
              /\ UNCHANGED <<stquit, writer, teardown, restarts>>
            BY <2>5
        <3> HIDE DEF NoPiece, Pieces, Result, NoResult
        <3> QED BY SMTT(20), <2>2, <2>4, <3>1
    <2> QED BY <2>3, <2>6
<1>6. CASE CountMiss(p) BY <1>6 DEF CountMiss
<1>7. CASE Wake(p) BY <1>7 DEF Wake
<1>8. CASE Downloaded(p) BY <1>8 DEF Downloaded
<1>9. CASE DownloadFails(p)
    <2>1. hand[p] \in Pieces
        BY <1>9 DEF DownloadFails
    <2>2. work' \in Seq(Pieces)
        BY <1>9, <2>1, RequeueType DEF DownloadFails
    <2> QED BY <1>9, <2>2 DEF DownloadFails
<1>10. CASE Deliver(p)
    <2>1. hand[p] \in Pieces
        BY <1>10 DEF Deliver
    <2>2. PICK good \in BOOLEAN :
               results' = Append(results, [piece |-> hand[p], good |-> good])
        BY <1>10 DEF Deliver
    <2>3. [piece |-> hand[p], good |-> good] \in Result
        BY <2>1 DEF Result
    <2>4. results' \in Seq(Result)
        BY <2>2, <2>3, SeqFacts
    <2> QED BY SMTT(20), <1>10, <2>4 DEF Deliver
<1>11. CASE Leave(p) BY <1>11 DEF Leave
<1> QED BY <1>1, <1>2, <1>3, <1>4, <1>5, <1>6, <1>7, <1>8, <1>9, <1>10, <1>11
        DEF PeerStep

LEMMA TypeCollector ==
    ASSUME TypeInv, CollectorStep
    PROVE  TypeInv'
<1>h. HandBusy'
    <2>1. UNCHANGED <<at, hand>>
        BY DEF CollectorStep, Collect, WriteOK, WriteFails, MarkComplete, SetPiece,
               BroadcastHave, CheckMore, Finish, FastResumeTick, CollectorQuit, WriterQuit,
               peerVars
    <2> QED BY <2>1 DEF TypeInv, HandBusy
<1> SUFFICES ASSUME TypeOK, CurBusy PROVE TypeOK' /\ CurBusy'
    BY <1>h DEF TypeInv
<1> USE PieceFacts DEF TypeOK, CurBusy, queueVars, peerVars,
                       collVars, claimVars, diskVars, ctlVars
<1>0. cur \in Result => cur.piece \in Pieces
    BY DEF Result
<1>1. CASE Collect
    <2>1. Head(results) \in Result /\ Tail(results) \in Seq(Result)
        BY <1>1 DEF Collect
    <2> QED BY <1>1, <2>1 DEF Collect
<1>2. CASE WriteOK BY <1>0, <1>2 DEF WriteOK
<1>3. CASE WriteFails BY <1>0, <1>3 DEF WriteFails
<1>4. CASE MarkComplete BY <1>0, <1>4 DEF MarkComplete
<1>5. CASE SetPiece BY <1>0, <1>5 DEF SetPiece
<1>6. CASE BroadcastHave BY <1>0, <1>6 DEF BroadcastHave
<1>7. CASE CheckMore BY <1>7 DEF CheckMore
<1>8. CASE Finish BY <1>8 DEF Finish
<1>9. CASE FastResumeTick BY <1>9 DEF FastResumeTick
<1>10. CASE CollectorQuit BY <1>10 DEF CollectorQuit
<1>11. CASE WriterQuit
    <2>1. writer' \in BOOLEAN
        BY <1>11 DEF WriterQuit
    <2>2. /\ UNCHANGED <<feed, feeding, work, at, hand, misses, results, collector, cur>>
          /\ UNCHANGED <<rejected, stored, have, tbf, announced, state, request, mquit, squit>>
          /\ UNCHANGED <<stquit, teardown, onDisk, saved, restarts>>
        BY <1>11 DEF WriterQuit
    <2> QED BY <2>1, <2>2
<1> QED BY <1>1, <1>2, <1>3, <1>4, <1>5, <1>6, <1>7, <1>8, <1>9, <1>10, <1>11
        DEF CollectorStep

LEMMA TypeEngine ==
    ASSUME TypeInv, EngineStep
    PROVE  TypeInv'
<1> USE PieceFacts DEF TypeInv, TypeOK, HandBusy, CurBusy, queueVars, peerVars,
                       collVars, claimVars, diskVars
<1>1. ASSUME NEW c \in Clients, ClientStep(c) PROVE TypeInv'
    <2>1. /\ state' \in {"downloading", "paused", "seeding"} /\ mquit' \in BOOLEAN
          /\ request' \in [Clients -> {"none", "pausing", "resuming"}]
        BY <1>1 DEF ClientStep, Pause, PauseStop, ResumeCheck, Resume
    <2>2. /\ UNCHANGED <<queueVars, peerVars, collVars, claimVars, diskVars>>
          /\ UNCHANGED <<squit, stquit, writer, teardown, restarts>>
        BY <1>1 DEF ClientStep, Pause, PauseStop, ResumeCheck, Resume
    <2> QED BY <2>1, <2>2
<1>3. CASE Remove BY <1>3 DEF Remove
<1>4. CASE Shutdown BY <1>4 DEF Shutdown
<1>5. CASE StopPeers BY <1>5 DEF StopPeers
<1>6. CASE CloseStorage BY <1>6 DEF CloseStorage
<1>7. CASE DeleteRecord BY <1>7 DEF DeleteRecord
<1>8. CASE Restart
    <2>1. /\ StartSession(saved) /\ UNCHANGED <<onDisk, saved>>
          /\ restarts' \in Nat
        BY <1>8, SessionAssumption DEF Restart
    <2>2. work' \in Seq(Pieces) /\ results' \in Seq(Result)
        BY <2>1, SeqFacts DEF StartSession
    <2>3. TypeOK'
        BY <2>1, <2>2 DEF StartSession, OutstandingWork
    <2>4. HandBusy'
        BY <2>1 DEF StartSession
    <2>5. CurBusy'
        BY <2>1 DEF StartSession
    <2> QED BY <2>3, <2>4, <2>5
<1> QED BY <1>1, <1>3, <1>4, <1>5, <1>6, <1>7, <1>8 DEF EngineStep

LEMMA TypeNext == TypeInv /\ [Next]_vars => TypeInv'
BY TypeStutter, TypeFeeder, TypePeer, TypeCollector, TypeEngine DEF Next

\* Every variable keeps its type (TypeOK), for every value of the constants.
THEOREM TypeCorrect == Spec => []TypeOK
<1>1. TypeInv => TypeOK
    BY DEF TypeInv
<1> QED BY TypeInit, TypeNext, <1>1, PTL DEF Spec

----------------------------------------------------------------------------
\* What a channel send, a channel receive and a change of hands do to the
\* stages of the pipeline.

LEMMA QueueAppend ==
    ASSUME work \in Seq(Pieces), QueuedOnce,
           NEW x \in Pieces, x \notin Queued, work' = Append(work, x)
    PROVE  Queued' = Queued \cup {x} /\ QueuedOnce'
<1>1. /\ DOMAIN work = 1 .. Len(work) /\ Len(work) \in Nat
      /\ DOMAIN work' = 1 .. Len(work) + 1
      /\ \A k \in 1 .. Len(work) : work'[k] = work[k]
      /\ work'[Len(work) + 1] = x
    OBVIOUS
<1>2. Queued' = Queued \cup {x}
    BY <1>1 DEF Queued
<1>3. QueuedOnce'
    BY <1>1 DEF QueuedOnce, Queued
<1> QED BY <1>2, <1>3

LEMMA QueueTail ==
    ASSUME work \in Seq(Pieces), QueuedOnce, work # <<>>, work' = Tail(work)
    PROVE  /\ Head(work) \in Queued
           /\ Queued' = Queued \ {Head(work)}
           /\ QueuedOnce'
<1>1. /\ DOMAIN work = 1 .. Len(work) /\ Len(work) \in Nat /\ Len(work) > 0
      /\ DOMAIN work' = 1 .. Len(work) - 1
      /\ \A k \in 1 .. Len(work) - 1 : work'[k] = work[k + 1]
      /\ Head(work) = work[1]
    OBVIOUS
<1>2. Head(work) \in Queued
    BY <1>1 DEF Queued
<1>3. ASSUME NEW x
      PROVE  x \in Queued' <=> x \in Queued \ {Head(work)}
    <2>1. ASSUME x \in Queued'
          PROVE  x \in Queued \ {Head(work)}
        <3>1. PICK k \in 1 .. Len(work) - 1 : x = work[k + 1]
            BY <1>1, <2>1 DEF Queued
        <3>2. k + 1 \in DOMAIN work /\ 1 \in DOMAIN work /\ k + 1 # 1
            BY <1>1
        <3> QED BY <1>1, <3>1, <3>2 DEF Queued, QueuedOnce
    <2>2. ASSUME x \in Queued \ {Head(work)}
          PROVE  x \in Queued'
        <3>1. PICK k \in 1 .. Len(work) : x = work[k] /\ k # 1
            BY <1>1, <2>2 DEF Queued
        <3>2. k - 1 \in 1 .. Len(work) - 1 /\ work'[k - 1] = x
            BY <1>1, <3>1
        <3> QED BY <1>1, <3>2 DEF Queued
    <2> QED BY <2>1, <2>2
<1>4. QueuedOnce'
    <2> SUFFICES ASSUME NEW j \in 1 .. Len(work) - 1, NEW k \in 1 .. Len(work) - 1,
                        work'[j] = work'[k]
                 PROVE  j = k
        BY <1>1 DEF QueuedOnce
    <2>1. j + 1 \in DOMAIN work /\ k + 1 \in DOMAIN work /\ work[j + 1] = work[k + 1]
        BY <1>1
    <2>2. j + 1 = k + 1
        BY <2>1 DEF QueuedOnce
    <2> QED BY <2>2
<1> QED BY <1>2, <1>3, <1>4

LEMMA ResultsAppend ==
    ASSUME results \in Seq(Result), DeliveredOnce, NEW r \in Result,
           r.piece \notin Delivered, results' = Append(results, r)
    PROVE  Delivered' = Delivered \cup {r.piece} /\ DeliveredOnce'
<1>1. /\ DOMAIN results = 1 .. Len(results) /\ Len(results) \in Nat
      /\ DOMAIN results' = 1 .. Len(results) + 1
      /\ \A k \in 1 .. Len(results) : results'[k] = results[k]
      /\ results'[Len(results) + 1] = r
    OBVIOUS
<1>2. Delivered' = Delivered \cup {r.piece}
    BY <1>1 DEF Delivered
<1>3. DeliveredOnce'
    BY <1>1 DEF DeliveredOnce, Delivered
<1> QED BY <1>2, <1>3

LEMMA ResultsTail ==
    ASSUME results \in Seq(Result), DeliveredOnce, results # <<>>,
           results' = Tail(results)
    PROVE  /\ Head(results) \in Result
           /\ Head(results).piece \in Delivered
           /\ Delivered' = Delivered \ {Head(results).piece}
           /\ DeliveredOnce'
<1> DEFINE h == Head(results).piece
<1>1. /\ DOMAIN results = 1 .. Len(results) /\ Len(results) \in Nat /\ Len(results) > 0
      /\ DOMAIN results' = 1 .. Len(results) - 1
      /\ \A k \in 1 .. Len(results) - 1 : results'[k] = results[k + 1]
      /\ Head(results) = results[1]
      /\ Head(results) \in Result
    BY SeqFacts
<1>2. h \in Delivered
    BY <1>1 DEF Delivered
<1>3. ASSUME NEW x
      PROVE  x \in Delivered' <=> x \in Delivered \ {h}
    <2>1. ASSUME x \in Delivered'
          PROVE  x \in Delivered \ {h}
        <3>1. PICK k \in 1 .. Len(results) - 1 : x = results[k + 1].piece
            BY <1>1, <2>1 DEF Delivered
        <3>2. k + 1 \in DOMAIN results /\ 1 \in DOMAIN results /\ k + 1 # 1
            BY <1>1
        <3> QED BY <1>1, <3>1, <3>2 DEF Delivered, DeliveredOnce
    <2>2. ASSUME x \in Delivered \ {h}
          PROVE  x \in Delivered'
        <3>1. PICK k \in 1 .. Len(results) : x = results[k].piece /\ k # 1
            BY <1>1, <2>2 DEF Delivered
        <3>2. k - 1 \in 1 .. Len(results) - 1 /\ results'[k - 1].piece = x
            BY <1>1, <3>1
        <3> QED BY <1>1, <3>2 DEF Delivered
    <2> QED BY <2>1, <2>2
<1>4. DeliveredOnce'
    <2> SUFFICES ASSUME NEW j \in 1 .. Len(results) - 1, NEW k \in 1 .. Len(results) - 1,
                        results'[j].piece = results'[k].piece
                 PROVE  j = k
        BY <1>1 DEF DeliveredOnce
    <2>1. /\ j + 1 \in DOMAIN results /\ k + 1 \in DOMAIN results
          /\ results[j + 1].piece = results[k + 1].piece
        BY <1>1
    <2>2. j + 1 = k + 1
        BY <2>1 DEF DeliveredOnce
    <2> QED BY <2>2
<1> QED BY <1>1, <1>2, <1>3, <1>4

LEMMA HandFill ==
    ASSUME TypeInv, HeldOnce, NEW p \in Peers, hand[p] = NoPiece,
           NEW x \in Pieces, x \notin Hands, hand' = [hand EXCEPT ![p] = x]
    PROVE  Hands' = Hands \cup {x} /\ HeldOnce'
<1>1. /\ hand \in [Peers -> Pieces \cup {NoPiece}]
      /\ hand'[p] = x /\ x # NoPiece
      /\ \A q \in Peers : q # p => hand'[q] = hand[q]
      /\ \A q \in Peers : hand[q] # x
    BY PieceFacts DEF TypeInv, TypeOK, Hands
<1>2. Hands' = Hands \cup {x}
    BY <1>1 DEF Hands
<1>3. HeldOnce'
    BY <1>1 DEF HeldOnce
<1> QED BY <1>2, <1>3

LEMMA HandEmpty ==
    ASSUME TypeInv, HeldOnce, NEW p \in Peers, hand' = [hand EXCEPT ![p] = NoPiece]
    PROVE  Hands' = Hands \ {hand[p]} /\ HeldOnce'
<1>1. /\ hand \in [Peers -> Pieces \cup {NoPiece}]
      /\ hand'[p] = NoPiece
      /\ \A q \in Peers : q # p => hand'[q] = hand[q]
    BY DEF TypeInv, TypeOK
<1>2. Hands' = Hands \ {hand[p]}
    <2>1. ASSUME NEW q \in Peers, q # p, hand[q] # NoPiece
          PROVE  hand[q] # hand[p]
        BY <2>1 DEF HeldOnce
    <2> QED BY <1>1, <2>1 DEF Hands
<1>3. HeldOnce'
    BY <1>1 DEF HeldOnce
<1> QED BY <1>2, <1>3

----------------------------------------------------------------------------
\* Custody: each step moves at most one piece, to the next stage or back.

LEMMA HandsType ==
    ASSUME TypeInv
    PROVE  /\ Hands \subseteq Pieces
           /\ \A p \in Peers : hand[p] # NoPiece => hand[p] \in Hands
BY DEF TypeInv, TypeOK, Hands

LEMMA CustodyFrame ==
    ASSUME UniqueCustody, UNCHANGED <<feed, feeding, work, hand, results, have>>,
           InCollector' = InCollector
    PROVE  UniqueCustody' /\ Accounted' = Accounted
<1>1. Queued' = Queued /\ QueuedOnce'
    BY DEF UniqueCustody, QueuedOnce, Queued
<1>2. Delivered' = Delivered /\ DeliveredOnce'
    BY DEF UniqueCustody, DeliveredOnce, Delivered
<1>3. Hands' = Hands /\ HeldOnce'
    BY DEF UniqueCustody, HeldOnce, Hands
<1>4. InFeeder' = InFeeder
    BY DEF InFeeder
<1> QED BY <1>1, <1>2, <1>3, <1>4 DEF UniqueCustody, StagesApart, Accounted

LEMMA QueueFrame ==
    ASSUME UniqueCustody, UNCHANGED work PROVE Queued' = Queued /\ QueuedOnce'
BY DEF UniqueCustody, QueuedOnce, Queued

LEMMA ResultsFrame ==
    ASSUME UniqueCustody, UNCHANGED results PROVE Delivered' = Delivered /\ DeliveredOnce'
BY DEF UniqueCustody, DeliveredOnce, Delivered

LEMMA HandsFrame ==
    ASSUME UniqueCustody, UNCHANGED hand PROVE Hands' = Hands /\ HeldOnce'
BY DEF UniqueCustody, HeldOnce, Hands

LEMMA CustodyFeeder ==
    ASSUME TypeInv, UniqueCustody, FeederTake \/ FeederPut
    PROVE  UniqueCustody' /\ Accounted' = Accounted
<1>0. InCollector' = InCollector /\ have' = have
    BY DEF FeederTake, FeederPut, collVars, claimVars, InCollector
<1>1. CASE FeederTake
    <2>1. PICK i \in feed : feeding' = i /\ feed' = feed \ {i}
        BY <1>1 DEF FeederTake
    <2>2. InFeeder = {} /\ InFeeder' = {i}
        BY <1>1, <2>1, PieceFacts DEF FeederTake, InFeeder, TypeInv, TypeOK
    <2>3. UNCHANGED <<work, results, hand>>
        BY <1>1 DEF FeederTake, peerVars
    <2> HIDE DEF InFeeder, Queued, Hands, Delivered, InCollector
    <2> QED BY <1>0, <2>1, <2>2, <2>3, QueueFrame, ResultsFrame, HandsFrame
            DEF UniqueCustody, StagesApart, Accounted
<1>2. CASE FeederPut
    <2>1. feeding \in Pieces /\ InFeeder = {feeding} /\ InFeeder' = {}
        BY <1>2 DEF FeederPut, InFeeder, TypeInv, TypeOK
    <2>2. feeding \notin Queued
        BY <2>1 DEF UniqueCustody, StagesApart
    <2>3. Queued' = Queued \cup {feeding} /\ QueuedOnce'
        BY <1>2, <2>1, <2>2, QueueAppend DEF FeederPut, UniqueCustody, TypeInv, TypeOK
    <2>4. UNCHANGED <<feed, results, hand>>
        BY <1>2 DEF FeederPut, peerVars
    <2> QED BY <1>0, <2>1, <2>3, <2>4, ResultsFrame, HandsFrame
            DEF UniqueCustody, StagesApart, Accounted
<1> QED BY <1>1, <1>2

\* a piece taken out of a stage and dropped
LEMMA CustodyFeederQuit ==
    ASSUME TypeInv, UniqueCustody, FeederQuit
    PROVE  UniqueCustody'
<1>1. InFeeder' = {} /\ feed' = {} /\ InCollector' = InCollector /\ have' = have
    BY DEF FeederQuit, InFeeder, collVars, claimVars, InCollector
<1>2. UNCHANGED <<work, results, hand>>
    BY DEF FeederQuit, peerVars
<1> QED BY <1>1, <1>2, QueueFrame, ResultsFrame, HandsFrame
        DEF UniqueCustody, StagesApart

\* requeue: the piece goes back, or is dropped because m.quit is closed
LEMMA CustodyRequeue ==
    ASSUME TypeInv, UniqueCustody, NEW p \in Peers, hand[p] \in Pieces, Requeue(p),
           hand' = [hand EXCEPT ![p] = NoPiece],
           UNCHANGED <<feed, feeding, results, collVars, claimVars>>
    PROVE  UniqueCustody' /\ (~mquit => Accounted' = Accounted)
<1>1. hand[p] \in Hands
    BY HandsType, PieceFacts
<1>2. Hands' = Hands \ {hand[p]} /\ HeldOnce'
    BY HandEmpty DEF UniqueCustody
<1>3. /\ InFeeder' = InFeeder /\ InCollector' = InCollector
      /\ have' = have /\ feed' = feed
      /\ Delivered' = Delivered /\ DeliveredOnce'
    BY ResultsFrame DEF InFeeder, InCollector, collVars, claimVars
<1>4. CASE work' = Append(work, hand[p])
    <2>1. hand[p] \notin Queued
        BY <1>1 DEF UniqueCustody, StagesApart
    <2>2. Queued' = Queued \cup {hand[p]} /\ QueuedOnce'
        BY <1>4, <2>1, QueueAppend DEF UniqueCustody, TypeInv, TypeOK
    <2> QED BY <1>1, <1>2, <1>3, <2>2 DEF UniqueCustody, StagesApart, Accounted
<1>5. CASE mquit /\ work' = work
    BY <1>1, <1>2, <1>3, <1>5, QueueFrame DEF UniqueCustody, StagesApart
<1> QED BY <1>4, <1>5 DEF Requeue

LEMMA CustodyPeer ==
    ASSUME TypeInv, UniqueCustody, NEW p \in Peers, PeerStep(p)
    PROVE  UniqueCustody' /\ (~mquit => Accounted' = Accounted)
<1>0. UNCHANGED <<feed, feeding, collVars, claimVars>>
    BY DEF PeerStep, Dial, Connect, DialFails, Take, Reject, CountMiss, Wake,
           Downloaded, DownloadFails, Deliver, Leave, queueVars
<1>00. /\ InFeeder' = InFeeder /\ InCollector' = InCollector
       /\ have' = have /\ feed' = feed
    BY <1>0 DEF InFeeder, InCollector, collVars, claimVars
<1>1. CASE Dial(p) \/ Connect(p) \/ DialFails(p) \/ CountMiss(p) \/ Wake(p) \/ Downloaded(p)
    <2>1. UNCHANGED <<work, hand, results>>
        BY <1>1 DEF Dial, Connect, DialFails, CountMiss, Wake, Downloaded, queueVars
    <2> QED BY <1>0, <1>00, <2>1, CustodyFrame
<1>2. CASE Take(p)
    <2> DEFINE i == Head(work)
    <2>1. hand[p] = NoPiece
        BY <1>2 DEF Take, TypeInv, HandBusy
    <2>2. i \in Pieces
        BY <1>2, SeqFacts DEF Take, TypeInv, TypeOK
    <2>3. i \in Queued /\ Queued' = Queued \ {i} /\ QueuedOnce'
        BY <1>2, QueueTail DEF Take, UniqueCustody, TypeInv, TypeOK
    <2>4. i \notin Hands
        BY <2>3 DEF UniqueCustody, StagesApart
    <2>5. Hands' = Hands \cup {i} /\ HeldOnce'
        BY <1>2, <2>1, <2>2, <2>4, HandFill DEF Take, UniqueCustody
    <2>6. UNCHANGED results
        BY <1>2 DEF Take
    <2> HIDE DEF i
    <2> QED BY <1>00, <2>3, <2>5, <2>6, ResultsFrame
            DEF UniqueCustody, StagesApart, Accounted
<1>3. CASE Reject(p)
    <2>1. hand[p] \in Pieces
        BY <1>3 DEF Reject, TypeInv, TypeOK, HandBusy
    <2> QED BY <1>0, <1>3, <2>1, CustodyRequeue DEF Reject
<1>4. CASE DownloadFails(p)
    <2>1. hand[p] \in Pieces
        BY <1>4 DEF DownloadFails, TypeInv, TypeOK, HandBusy
    <2> QED BY <1>0, <1>4, <2>1, CustodyRequeue DEF DownloadFails
<1>5. CASE Deliver(p)
    <2>1. hand[p] \in Pieces /\ hand[p] \in Hands
        BY <1>5, HandsType, PieceFacts DEF Deliver, TypeInv, TypeOK, HandBusy
    <2>2. PICK good \in BOOLEAN :
               results' = Append(results, [piece |-> hand[p], good |-> good])
        BY <1>5 DEF Deliver
    <2> DEFINE r == [piece |-> hand[p], good |-> good]
    <2>3. r \in Result /\ r.piece = hand[p]
        BY <2>1 DEF Result
    <2>4. hand[p] \notin Delivered
        BY <2>1 DEF UniqueCustody, StagesApart
    <2>5. Delivered' = Delivered \cup {hand[p]} /\ DeliveredOnce'
        BY <2>2, <2>3, <2>4, ResultsAppend DEF UniqueCustody, TypeInv, TypeOK
    <2>6. Hands' = Hands \ {hand[p]} /\ HeldOnce'
        BY <1>5, HandEmpty DEF Deliver, UniqueCustody
    <2>7. UNCHANGED work
        BY <1>5 DEF Deliver
    <2> QED BY <1>00, <2>1, <2>5, <2>6, <2>7, QueueFrame
            DEF UniqueCustody, StagesApart, Accounted
<1>6. CASE Leave(p)
    <2>1. Hands' = Hands \ {hand[p]} /\ HeldOnce'
        BY <1>6, HandEmpty DEF Leave, UniqueCustody
    <2>2. UNCHANGED <<work, results>> /\ mquit
        BY <1>6 DEF Leave, queueVars
    <2> QED BY <1>00, <2>1, <2>2, QueueFrame, ResultsFrame
            DEF UniqueCustody, StagesApart
<1> QED BY <1>1, <1>2, <1>3, <1>4, <1>5, <1>6 DEF PeerStep

LEMMA CustodyCollector ==
    ASSUME TypeInv, UniqueCustody, CollectorStep
    PROVE  UniqueCustody' /\ Accounted \subseteq Accounted' \cup rejected'
<1>0. UNCHANGED <<feed, feeding, work, hand>>
    BY DEF CollectorStep, Collect, WriteOK, WriteFails, MarkComplete, SetPiece,
           BroadcastHave, CheckMore, Finish, FastResumeTick, CollectorQuit,
           WriterQuit, queueVars, peerVars
<1>00. /\ InFeeder' = InFeeder /\ feed' = feed
       /\ Queued' = Queued /\ QueuedOnce' /\ Hands' = Hands /\ HeldOnce'
    BY <1>0, QueueFrame, HandsFrame DEF InFeeder
<1>1. CASE Collect
    <2> DEFINE i == Head(results).piece
    <2>1. i \in Delivered /\ Delivered' = Delivered \ {i} /\ DeliveredOnce'
        BY <1>1, ResultsTail DEF Collect, UniqueCustody, TypeInv, TypeOK
    <2>2. InCollector = {} /\ InCollector' = {i} /\ have' = have
        BY <1>1 DEF Collect, InCollector, claimVars
    <2> HIDE DEF i
    <2> QED BY <1>00, <2>1, <2>2 DEF UniqueCustody, StagesApart, Accounted
<1>2. CASE WriteOK \/ SetPiece \/ BroadcastHave \/ CheckMore \/ Finish
           \/ FastResumeTick \/ CollectorQuit \/ WriterQuit
    <2>1. UNCHANGED <<results, have>> /\ InCollector' = InCollector
        BY <1>2 DEF WriteOK, SetPiece, BroadcastHave, CheckMore, Finish, FastResumeTick,
                    CollectorQuit, WriterQuit, queueVars, claimVars, collVars, InCollector
    <2> QED BY <1>0, <2>1, CustodyFrame
<1>3. CASE WriteFails
    <2>1. /\ UNCHANGED <<results, have>>
          /\ InCollector = {cur.piece} /\ InCollector' = {} /\ cur.piece \in rejected'
        BY <1>3 DEF WriteFails, queueVars, claimVars, InCollector
    <2> QED BY <1>00, <2>1, ResultsFrame DEF UniqueCustody, StagesApart, Accounted
<1>4. CASE MarkComplete
    <2>1. /\ UNCHANGED results /\ have' = have \cup {cur.piece}
          /\ InCollector = {cur.piece} /\ InCollector' = {}
        BY <1>4 DEF MarkComplete, queueVars, InCollector
    <2> QED BY <1>00, <2>1, ResultsFrame DEF UniqueCustody, StagesApart, Accounted
<1> QED BY <1>1, <1>2, <1>3, <1>4 DEF CollectorStep

LEMMA CustodyStart ==
    ASSUME NEW bf \in SUBSET Pieces, StartSession(bf)
    PROVE  UniqueCustody' /\ Accounted' = Pieces
<1>1. /\ InFeeder' = {} /\ Queued' = {} /\ Hands' = {} /\ Delivered' = {}
      /\ InCollector' = {} /\ feed' = Pieces \ bf /\ have' = bf
    BY DEF StartSession, OutstandingWork, InFeeder, Queued, Hands, Delivered, InCollector
<1>2. QueuedOnce' /\ DeliveredOnce' /\ HeldOnce'
    BY DEF StartSession, QueuedOnce, DeliveredOnce, HeldOnce
<1> QED BY <1>1, <1>2 DEF UniqueCustody, StagesApart, Accounted

LEMMA CustodyEngine ==
    ASSUME TypeInv, UniqueCustody, EngineStep
    PROVE  UniqueCustody' /\ (Accounted' = Accounted \/ Accounted' = Pieces)
<1>1. CASE Restart
    <2>1. saved \in SUBSET Pieces /\ StartSession(saved)
        BY <1>1 DEF Restart, TypeInv, TypeOK
    <2> QED BY <2>1, CustodyStart
<1>2. CASE ~Restart
    <2>1. UNCHANGED <<feed, feeding, work, hand, results, have>> /\ InCollector' = InCollector
        BY <1>2 DEF EngineStep, ClientStep, Pause, PauseStop, ResumeCheck, Resume, Remove, Shutdown, StopPeers, CloseStorage,
                    DeleteRecord, queueVars, peerVars, claimVars, collVars, InCollector
    <2> QED BY <2>1, CustodyFrame
<1> QED BY <1>1, <1>2

----------------------------------------------------------------------------
\* What is claimed of a piece, and in which order.

LEMMA ClaimStep ==
    ASSUME TypeInv, ClaimOrder, [Next]_vars
    PROVE  ClaimOrder'
<1> USE DEF ClaimOrder, ClaimsOnDisk
<1>1. CASE UNCHANGED <<collVars, claimVars, diskVars>>
    BY <1>1 DEF collVars, claimVars, diskVars
<1>2. CASE CollectorStep
    <2> USE DEF claimVars, diskVars, collVars
    <2>1. CASE Collect BY <2>1 DEF Collect
    <2>2. CASE WriteOK BY <2>2 DEF WriteOK
    <2>3. CASE WriteFails BY <2>3 DEF WriteFails
    <2>4. CASE MarkComplete BY <2>4 DEF MarkComplete
    <2>5. CASE SetPiece BY <2>5 DEF SetPiece
    <2>6. CASE BroadcastHave BY <2>6 DEF BroadcastHave
    <2>7. CASE CheckMore BY <2>7 DEF CheckMore
    <2>8. CASE Finish BY <2>8 DEF Finish
    <2>9. CASE FastResumeTick BY <2>9 DEF FastResumeTick
    <2>10. CASE CollectorQuit BY <2>10 DEF CollectorQuit
    <2>11. CASE WriterQuit BY <2>11 DEF WriterQuit
    <2> QED BY <1>2, <2>1, <2>2, <2>3, <2>4, <2>5, <2>6, <2>7, <2>8, <2>9, <2>10, <2>11
            DEF CollectorStep
<1>3. CASE EngineStep
    <2>1. CASE Shutdown \/ DeleteRecord
        BY <2>1 DEF Shutdown, DeleteRecord, claimVars, collVars
    <2>2. CASE Restart
        BY <2>2 DEF Restart, StartSession, diskVars
    <2>3. CASE (\E c \in Clients : ClientStep(c)) \/ Remove \/ StopPeers \/ CloseStorage
        BY <1>1, <2>3 DEF ClientStep, Pause, PauseStop, ResumeCheck, Resume, Remove,
               StopPeers, CloseStorage
    <2> QED BY <1>3, <2>1, <2>2, <2>3 DEF EngineStep
<1>4. CASE FeederTake \/ FeederPut \/ FeederQuit
    BY <1>1, <1>4 DEF FeederTake, FeederPut, FeederQuit
<1>5. ASSUME NEW p \in Peers, PeerStep(p) PROVE UNCHANGED <<collVars, claimVars, diskVars>>
    BY <1>5 DEF PeerStep, Dial, Connect, DialFails, Take, Reject, CountMiss, Wake,
                Downloaded, DownloadFails, Deliver, Leave
<1>6. CASE UNCHANGED vars
    BY <1>1, <1>6 DEF vars
<1> QED BY <1>1, <1>2, <1>3, <1>4, <1>5, <1>6 DEF Next

LEMMA CardinalityOfPieces == IsFiniteSet(Pieces) /\ Cardinality(Pieces) = PieceCount
<1>1. 0 \in Int /\ PieceCount - 1 \in Int /\ ~(0 > PieceCount - 1)
      /\ PieceCount - 1 - 0 + 1 = PieceCount
    BY PieceFacts
<1> QED BY <1>1, FS_Interval DEF Pieces

LEMMA AllCompleteMeansAll ==
    ASSUME TypeInv, AllComplete PROVE have = Pieces
<1>1. have \in SUBSET Pieces /\ Cardinality(have) = Cardinality(Pieces)
    BY CardinalityOfPieces DEF TypeInv, TypeOK, AllComplete
<1> QED BY <1>1, CardinalityOfPieces, FS_Subset

LEMMA SeedingStep ==
    ASSUME TypeInv, SeedingFinished, [Next]_vars
    PROVE  SeedingFinished'
<1> USE DEF SeedingFinished
<1>1. CASE UNCHANGED <<collVars, claimVars, ctlVars>>
    BY <1>1 DEF collVars, claimVars, ctlVars
<1>2. CASE CollectorStep
    <2>1. CASE Finish
        BY <2>1, AllCompleteMeansAll DEF Finish, claimVars
    <2>2. CASE ~Finish
        BY <1>2, <2>2 DEF CollectorStep, Collect, WriteOK, WriteFails, MarkComplete, SetPiece,
               BroadcastHave, CheckMore, FastResumeTick, CollectorQuit, WriterQuit,
               collVars, claimVars, ctlVars
    <2> QED BY <2>1, <2>2
<1>3. CASE EngineStep
    BY <1>3 DEF EngineStep, ClientStep, Pause, PauseStop, ResumeCheck, Resume, Remove, Shutdown, StopPeers, CloseStorage,
           DeleteRecord, Restart, StartSession, collVars, claimVars
<1>4. CASE FeederTake \/ FeederPut \/ FeederQuit
    BY <1>1, <1>4 DEF FeederTake, FeederPut, FeederQuit
<1>5. ASSUME NEW p \in Peers, PeerStep(p) PROVE UNCHANGED <<collVars, claimVars, ctlVars>>
    BY <1>5 DEF PeerStep, Dial, Connect, DialFails, Take, Reject, CountMiss, Wake,
                Downloaded, DownloadFails, Deliver, Leave
<1>6. CASE UNCHANGED vars
    BY <1>1, <1>6 DEF vars
<1> QED BY <1>1, <1>2, <1>3, <1>4, <1>5, <1>6 DEF Next

----------------------------------------------------------------------------
\* Nothing but a refused write loses a piece.

LEMMA AccountedType ==
    TypeInv => Accounted \subseteq Pieces /\ rejected \subseteq Pieces
<1> SUFFICES ASSUME TypeInv PROVE Accounted \subseteq Pieces /\ rejected \subseteq Pieces
    OBVIOUS
<1>1. InCollector \subseteq Pieces
    BY DEF InCollector, TypeInv, CurBusy, Result
<1>2. Delivered \subseteq Pieces
    <2>1. \A k \in DOMAIN results : results[k] \in Result
        BY DEF TypeInv, TypeOK
    <2> QED BY <2>1 DEF Delivered, Result
<1>3. Queued \subseteq Pieces /\ InFeeder \subseteq Pieces
    BY DEF TypeInv, TypeOK, Queued, InFeeder
<1> QED BY <1>1, <1>2, <1>3, HandsType DEF Accounted, TypeInv, TypeOK

LEMMA LostStep ==
    ASSUME TypeInv, TypeInv', UniqueCustody, OnlyRejectedLost, [Next]_vars
    PROVE  OnlyRejectedLost'
<1> SUFFICES ASSUME ~mquit', ~squit'
             PROVE  Pieces \subseteq Accounted' \cup rejected'
    <2>0. TypeInv' => (Accounted \subseteq Pieces /\ rejected \subseteq Pieces)'
        BY AccountedType, PTL
    <2>1. Accounted' \subseteq Pieces /\ rejected' \subseteq Pieces
        BY <2>0
    <2> QED BY <2>1 DEF OnlyRejectedLost
<1>1. ASSUME ~mquit, ~squit, Accounted \subseteq Accounted' \cup rejected',
             rejected \subseteq rejected'
      PROVE  Pieces \subseteq Accounted' \cup rejected'
    BY <1>1 DEF OnlyRejectedLost
<1>2. CASE FeederTake \/ FeederPut \/ FeederQuit
    <2>1. UNCHANGED <<mquit, squit, rejected>>
        BY <1>2 DEF FeederTake, FeederPut, FeederQuit, ctlVars, collVars
    <2>2. ~FeederQuit
        BY <2>1 DEF FeederQuit
    <2> QED BY <1>1, <1>2, <2>1, <2>2, CustodyFeeder
<1>3. CASE \E p \in Peers : PeerStep(p)
    <2>1. PICK p \in Peers : PeerStep(p)
        BY <1>3
    <2>2. UNCHANGED <<mquit, squit, rejected>>
        BY <2>1 DEF PeerStep, Dial, Connect, DialFails, Take, Reject, CountMiss, Wake,
                    Downloaded, DownloadFails, Deliver, Leave, ctlVars, collVars
    <2> QED BY <1>1, <2>1, <2>2, CustodyPeer
<1>4. CASE CollectorStep
    <2>1. UNCHANGED <<mquit, squit>> /\ rejected \subseteq rejected'
        BY <1>4 DEF CollectorStep, Collect, WriteOK, WriteFails, MarkComplete, SetPiece,
               BroadcastHave, CheckMore, Finish, FastResumeTick, CollectorQuit, WriterQuit,
               ctlVars, collVars
    <2> QED BY <1>1, <1>4, <2>1, CustodyCollector
<1>5. CASE EngineStep
    <2>1. CASE Accounted' = Pieces
        BY <2>1
    <2>2. CASE Accounted' = Accounted /\ ~Restart
        <3>1. (mquit => mquit') /\ (squit => squit') /\ rejected' = rejected
            BY <1>5, <2>2 DEF EngineStep, ClientStep, Pause, PauseStop, ResumeCheck, Resume, Remove, Shutdown, StopPeers,
                   CloseStorage, DeleteRecord, collVars
        <3> QED BY <1>1, <2>2, <3>1
    <2>3. CASE Restart
        BY <2>3, CustodyStart DEF Restart, TypeInv, TypeOK
    <2> QED BY <1>5, <2>1, <2>2, <2>3, CustodyEngine
<1>6. CASE UNCHANGED vars
    <2>1. /\ UNCHANGED <<feed, feeding, work, hand, results, have>>
          /\ UNCHANGED <<mquit, squit, rejected>> /\ InCollector' = InCollector
        BY <1>6 DEF vars, queueVars, peerVars, claimVars, collVars, ctlVars, InCollector
    <2> QED BY <1>1, <2>1, CustodyFrame
<1> QED BY <1>2, <1>3, <1>4, <1>5, <1>6 DEF Next

LEMMA CustodyStep ==
    ASSUME TypeInv, UniqueCustody, [Next]_vars
    PROVE  UniqueCustody'
<1>1. CASE UNCHANGED vars
    <2>1. /\ UNCHANGED <<feed, feeding, work, hand, results, have>>
          /\ InCollector' = InCollector
        BY <1>1 DEF vars, queueVars, peerVars, claimVars, collVars, InCollector
    <2> QED BY <2>1, CustodyFrame
<1> QED BY <1>1, CustodyFeeder, CustodyFeederQuit, CustodyPeer, CustodyCollector,
           CustodyEngine DEF Next

----------------------------------------------------------------------------
\* The inductive invariant.

LEMMA InvInit == Init => IInv
<1> SUFFICES ASSUME Init PROVE IInv
    OBVIOUS
<1>1. TypeInv
    BY TypeInit
<1>2. /\ InFeeder = {} /\ Queued = {} /\ Hands = {} /\ Delivered = {}
      /\ InCollector = {} /\ feed = Pieces /\ have = {}
    BY DEF Init, OutstandingWork, InFeeder, Queued, Hands, Delivered, InCollector
<1>3. QueuedOnce /\ DeliveredOnce /\ HeldOnce
    BY DEF Init, QueuedOnce, DeliveredOnce, HeldOnce
<1>4. UniqueCustody /\ Accounted = Pieces
    BY <1>2, <1>3 DEF UniqueCustody, StagesApart, Accounted
<1>5. ClaimOrder /\ SeedingFinished
    BY DEF Init, ClaimOrder, ClaimsOnDisk, SeedingFinished
<1>6. OnlyRejectedLost
    BY <1>4 DEF Init, OnlyRejectedLost
<1> QED BY <1>1, <1>4, <1>5, <1>6 DEF IInv

LEMMA InvNext == IInv /\ [Next]_vars => IInv'
<1> SUFFICES ASSUME IInv, [Next]_vars PROVE IInv'
    OBVIOUS
<1>1. TypeInv'
    BY TypeNext DEF IInv
<1> QED BY <1>1, CustodyStep, ClaimStep, SeedingStep, LostStep DEF IInv

LEMMA Invariant == Spec => []IInv
BY InvInit, InvNext, PTL DEF Spec

----------------------------------------------------------------------------
\* The theorems.

\* A piece is never in two places of the pipeline, nor twice in one.
THEOREM CustodyIsUnique == Spec => []UniqueCustody
<1>1. IInv => UniqueCustody
    BY DEF IInv
<1> QED BY <1>1, Invariant, PTL

\* What peers, the API and the fast-resume record are told is on the disk.
THEOREM ClaimsAreOnDisk == Spec => []ClaimsOnDisk
<1>1. IInv => ClaimsOnDisk
    BY DEF IInv, ClaimOrder
<1> QED BY <1>1, Invariant, PTL

\* In a session nobody stopped, only a refused write loses a piece.
THEOREM OnlyRejectedAreLost == Spec => []OnlyRejectedLost
<1>1. IInv => OnlyRejectedLost
    BY DEF IInv
<1> QED BY <1>1, Invariant, PTL

\* A sequence without repetitions is no longer than the set it draws from.
LEMMA QueueBound ==
    ASSUME NEW S, IsFiniteSet(S), work \in Seq(Pieces), QueuedOnce, Queued \subseteq S
    PROVE  Len(work) <= Cardinality(S)
<1>1. Len(work) \in Nat /\ DOMAIN work = 1 .. Len(work)
    OBVIOUS
<1>2. work \in [1 .. Len(work) -> S]
    BY <1>1 DEF Queued
<1>3. IsFiniteSet(1 .. Len(work)) /\ Cardinality(1 .. Len(work)) = Len(work)
    BY SMTT(20), <1>1, FS_Interval
<1>4. Cardinality(S) \in Nat
    BY FS_CardinalityType
<1>5. CASE Cardinality(S) < Len(work)
    <2>1. \E x, y \in 1 .. Len(work) : x # y /\ work[x] = work[y]
        BY <1>2, <1>3, <1>5, FS_PigeonHole
    <2> QED BY <1>1, <2>1 DEF QueuedOnce
<1> QED BY <1>1, <1>4, <1>5

\* a piece that is held outside the queue leaves room for itself in it
LEMMA RoomForOne ==
    ASSUME IInv, NEW i \in Pieces, i \notin Queued
    PROVE  Len(work) < WorkQueueCapacity
<1>1. Queued \subseteq Pieces \ {i}
    BY DEF IInv, TypeInv, TypeOK, Queued
<1>2. /\ IsFiniteSet(Pieces \ {i})
      /\ Cardinality(Pieces \ {i}) = PieceCount - 1
    BY CardinalityOfPieces, FS_RemoveElement
<1>3. Len(work) <= PieceCount - 1
    BY <1>1, <1>2, QueueBound DEF IInv, TypeInv, TypeOK, UniqueCustody
<1>4. WorkQueueCapacity \in Nat /\ WorkQueueCapacity >= PieceCount
    BY PieceFacts, SessionAssumption DEF WorkQueueCapacity
<1>5. Len(work) \in Nat
    BY DEF IInv, TypeInv, TypeOK
<1> QED BY <1>3, <1>4, <1>5, PieceFacts

LEMMA HandHasRoom ==
    ASSUME IInv, NEW p \in Peers, at[p] \in {"reject", "fetch", "deliver"}
    PROVE  Len(work) < WorkQueueCapacity /\ hand[p] \in Pieces \ have
<1>1. hand[p] \in Hands /\ hand[p] \in Pieces
    BY HandsType DEF IInv, TypeInv, HandBusy
<1>2. hand[p] \notin Queued /\ hand[p] \notin have
    BY <1>1 DEF IInv, UniqueCustody, StagesApart
<1> QED BY <1>1, <1>2, RoomForOne

\* The claim of workQueueCapacity's comment: a peer that puts a piece back
\* finds room, because what is queued and what is held are distinct pieces
\* and the channel holds every piece.
LEMMA RequeueFindsRoom == IInv => RequeueNeverBlocks
BY HandHasRoom DEF RequeueNeverBlocks

\* A torrent shown as seeding is complete, and nothing of it is under way.
THEOREM SeedingIsComplete == Spec => []SeedingComplete
<1>1. IInv => SeedingComplete
    <2> SUFFICES ASSUME IInv, state = "seeding"
                 PROVE  /\ tbf = Pieces /\ onDisk = Pieces
                        /\ feed = {} /\ work = <<>> /\ Hands = {} /\ results = <<>>
        BY DEF SeedingComplete
    <2>1. have = Pieces /\ collector = "finished"
        BY DEF IInv, SeedingFinished
    <2>2. tbf = Pieces /\ onDisk = Pieces
        BY <2>1 DEF IInv, ClaimOrder, ClaimsOnDisk, TypeInv, TypeOK
    <2>3. feed = {} /\ Queued = {} /\ Hands = {} /\ Delivered = {}
        BY <2>1, AccountedType DEF IInv, UniqueCustody, StagesApart, Accounted
    <2>4. work = <<>>
        BY <2>3, SeqFacts DEF IInv, TypeInv, TypeOK, Queued
    <2>5. results = <<>>
        <3>1. results \in Seq(Result)
            BY DEF IInv, TypeInv, TypeOK
        <3>2. DOMAIN results = {}
            BY <2>3 DEF Delivered
        <3> QED BY <3>1, <3>2, SeqFacts
    <2> QED BY <2>2, <2>3, <2>4, <2>5
<1> QED BY <1>1, Invariant, PTL

----------------------------------------------------------------------------
\* A session nobody stopped never waits for itself.

LEMMA EndsInit == Init => CollectorEnds
BY DEF Init, CollectorEnds

LEMMA EndsStep ==
    ASSUME IInv, CollectorEnds, [Next]_vars
    PROVE  CollectorEnds'
<1> USE DEF CollectorEnds, claimVars, ctlVars, collVars
<1>1. CASE UNCHANGED <<collector, have, squit, mquit, stquit, writer, teardown>>
    BY <1>1
<1>2. CASE FeederTake \/ FeederPut \/ FeederQuit
    BY <1>1, <1>2 DEF FeederTake, FeederPut, FeederQuit
<1>3. ASSUME NEW p \in Peers, PeerStep(p) PROVE CollectorEnds'
    BY <1>1, <1>3 DEF PeerStep, Dial, Connect, DialFails, Take, Reject, CountMiss, Wake,
                Downloaded, DownloadFails, Deliver, Leave
<1>4. CASE CollectorStep
    <2>1. CASE Collect BY <2>1 DEF Collect
    <2>2. CASE WriteOK BY <2>2 DEF WriteOK
    <2>3. CASE WriteFails BY <2>3 DEF WriteFails
    <2>4. CASE MarkComplete BY <2>4 DEF MarkComplete
    <2>5. CASE SetPiece BY <2>5 DEF SetPiece
    <2>6. CASE BroadcastHave BY <2>6 DEF BroadcastHave
    <2>7. CASE CheckMore BY <2>7 DEF CheckMore
    <2>8. CASE Finish
        BY <2>8, AllCompleteMeansAll DEF Finish, IInv
    <2>9. CASE FastResumeTick BY <2>9 DEF FastResumeTick
    <2>10. CASE CollectorQuit BY <2>10 DEF CollectorQuit
    <2>11. CASE WriterQuit BY <2>11 DEF WriterQuit
    <2> QED BY <1>4, <2>1, <2>2, <2>3, <2>4, <2>5, <2>6, <2>7, <2>8, <2>9, <2>10, <2>11
            DEF CollectorStep
<1>5. CASE EngineStep
    <2>1. ASSUME NEW c \in Clients, ClientStep(c) PROVE CollectorEnds'
        BY <2>1 DEF ClientStep, Pause, PauseStop, ResumeCheck, Resume
    <2>3. CASE Remove BY <2>3 DEF Remove
    <2>4. CASE Shutdown BY <2>4 DEF Shutdown
    <2>5. CASE StopPeers BY <2>5 DEF StopPeers
    <2>6. CASE CloseStorage BY <2>6 DEF CloseStorage
    <2>7. CASE DeleteRecord BY <2>7 DEF DeleteRecord
    <2>8. CASE Restart BY <2>8 DEF Restart, StartSession
    <2> QED BY <1>5, <2>1, <2>3, <2>4, <2>5, <2>6, <2>7, <2>8 DEF EngineStep
<1>6. CASE UNCHANGED vars
    BY <1>1, <1>6 DEF vars
<1> QED BY <1>2, <1>3, <1>4, <1>5, <1>6 DEF Next

LEMMA FeederHasRoom ==
    ASSUME IInv, feeding # NoPiece
    PROVE  FeederReady
<1>1. feeding \in InFeeder /\ feeding \in Pieces
    BY DEF InFeeder, IInv, TypeInv, TypeOK
<1>2. feeding \notin Queued
    BY <1>1 DEF IInv, UniqueCustody, StagesApart
<1> QED BY <1>1, <1>2, RoomForOne DEF FeederReady

\* the collector of a session with a piece missing goes on, given a result
LEMMA CollectorGoesOn ==
    ASSUME IInv, CollectorEnds, ~mquit, ~squit, Pieces # have,
           results # <<>> \/ collector # "select"
    PROVE  CollectorReady
BY DEF CollectorEnds, CollectorReady

LEMMA DeliveryGoesOn ==
    ASSUME IInv, CollectorEnds, ~mquit, ~squit,
           NEW p \in Peers, at[p] = "deliver"
    PROVE  PeerReady(p) \/ CollectorReady
<1>1. CASE Len(results) < ResultsCap
    BY <1>1 DEF PeerReady
<1>2. CASE ~(Len(results) < ResultsCap)
    <2>1. results # <<>>
        <3>1. SUFFICES ASSUME results = <<>> PROVE FALSE
            OBVIOUS
        <3>2. Len(results) = 0
            BY <3>1
        <3> QED BY <1>2, <3>2, SessionAssumption
    <2>2. Pieces # have
        BY HandHasRoom
    <2> QED BY <2>1, <2>2, CollectorGoesOn
<1> QED BY <1>1, <1>2

\* A requeue never blocks, and while a piece is missing in a session nobody
\* stopped, some goroutine gets past its channel: the bounded channels and the
\* hand-overs between the feeder, the peers, the collector and the writer
\* cannot deadlock, whatever their capacities.
THEOREM PipelineNeverStuck == Spec => []NeverStuck
<1>1. IInv /\ CollectorEnds /\ [Next]_vars => CollectorEnds'
    BY EndsStep
<1>2. IInv /\ CollectorEnds => NeverStuck
    <2> SUFFICES ASSUME IInv, CollectorEnds, ~mquit, ~squit
                 PROVE  /\ feeding # NoPiece => FeederReady
                        /\ \A p \in Peers : at[p] = "deliver" => PeerReady(p) \/ CollectorReady
                        /\ Peers # {} /\ Pieces # have \cup rejected =>
                            FeederReady \/ CollectorReady \/ \E p \in Peers : PeerReady(p)
        BY RequeueFindsRoom DEF NeverStuck
    <2>1. feeding # NoPiece => FeederReady
        BY FeederHasRoom
    <2>2. ASSUME NEW p \in Peers, at[p] \in {"reject", "fetch"} PROVE PeerReady(p)
        BY <2>2, HandHasRoom DEF PeerReady
    <2>3. ASSUME NEW p \in Peers, at[p] = "deliver" PROVE PeerReady(p) \/ CollectorReady
        BY <2>3, DeliveryGoesOn
    <2>4. ASSUME Peers # {}, Pieces # have \cup rejected
          PROVE  FeederReady \/ CollectorReady \/ \E p \in Peers : PeerReady(p)
        <3>1. PICK i \in Pieces : i \notin have /\ i \notin rejected
            BY <2>4 DEF IInv, TypeInv, TypeOK
        <3>2. i \in feed \cup InFeeder \cup Queued \cup Hands \cup Delivered \cup InCollector
            BY <3>1 DEF IInv, OnlyRejectedLost, Accounted
        <3>3. CASE i \in feed \cup InFeeder
            BY <3>3, <2>1 DEF InFeeder, FeederReady
        <3>4. CASE i \in Hands
            <4>1. PICK p \in Peers : hand[p] = i /\ hand[p] # NoPiece
                BY <3>4 DEF Hands
            <4>2. at[p] \in {"reject", "fetch", "deliver"}
                BY <4>1 DEF IInv, TypeInv, HandBusy
            <4> QED BY <2>2, <2>3, <4>2
        <3>5. CASE i \in Delivered \cup InCollector
            <4>1. results # <<>> \/ collector # "select"
                <5>1. CASE i \in Delivered
                    BY <5>1 DEF Delivered
                <5>2. CASE i \in InCollector
                    BY <5>2 DEF InCollector
                <5> QED BY <3>5, <5>1, <5>2
            <4> QED BY <3>1, <4>1, CollectorGoesOn
        <3>6. CASE i \in Queued
            <4>1. work # <<>>
                BY <3>6 DEF Queued
            <4>2. PICK p \in Peers : TRUE
                BY <2>4
            <4>3. CASE at[p] \in {"reject", "fetch", "deliver"}
                BY <2>2, <2>3, <4>3
            <4>4. CASE at[p] \notin {"reject", "fetch", "deliver"}
                BY <4>1, <4>4 DEF PeerReady
            <4> QED BY <4>3, <4>4
        <3> QED BY <3>2, <3>3, <3>4, <3>5, <3>6
    <2> QED BY <2>1, <2>3, <2>4
<1> QED BY <1>1, <1>2, EndsInit, Invariant, PTL DEF Spec

----------------------------------------------------------------------------
\* The session implements the ledger.

ledgerVars == <<onDisk, saved, stored, have, tbf, announced, state>>

LEMMA LedgerPieces ==
    ASSUME IInv, collector \in {"write", "mark", "setbit", "announce", "check"}
    PROVE  /\ cur.piece \in Pieces
           /\ collector \in {"write", "mark"} => cur.piece \notin have
<1>1. cur.piece \in Pieces
    BY DEF IInv, TypeInv, CurBusy, Result
<1>2. collector \in {"write", "mark"} => cur.piece \in InCollector
    BY DEF InCollector
<1> QED BY <1>1, <1>2 DEF IInv, UniqueCustody, StagesApart

\* which steps touch neither the ledger nor the collector
LEMMA LedgerFrame ==
    ASSUME FeederTake \/ FeederPut \/ FeederQuit \/ (\E p \in Peers : PeerStep(p))
    PROVE  UNCHANGED <<ledgerVars, collector, cur>>
<1> USE DEF ledgerVars, claimVars, diskVars, ctlVars, collVars
<1>1. CASE FeederTake \/ FeederPut \/ FeederQuit
    BY <1>1 DEF FeederTake, FeederPut, FeederQuit
<1>2. ASSUME NEW p \in Peers, PeerStep(p) PROVE UNCHANGED <<ledgerVars, collector, cur>>
    BY <1>2 DEF PeerStep, Dial, Connect, DialFails, Take, Reject, CountMiss, Wake,
                Downloaded, DownloadFails, Deliver, Leave
<1> QED BY <1>1, <1>2

LEMMA OnePieceStep ==
    ASSUME IInv, OnePieceAtATime, [Next]_vars
    PROVE  OnePieceAtATime'
<1> USE DEF OnePieceAtATime
<1>1. CASE UNCHANGED <<collector, cur, stored, announced>>
    BY <1>1
<1>2. CASE CollectorStep
    <2> USE DEF claimVars, diskVars, collVars
    <2>1. CASE Collect BY <2>1 DEF Collect
    <2>2. CASE WriteOK
        <3>1. cur.piece \notin announced
            BY <2>2, LedgerPieces DEF WriteOK, IInv, ClaimOrder, ClaimsOnDisk
        <3> QED BY <2>2, <3>1 DEF WriteOK
    <2>3. CASE WriteFails BY <2>3 DEF WriteFails
    <2>4. CASE MarkComplete BY <2>4 DEF MarkComplete
    <2>5. CASE SetPiece BY <2>5 DEF SetPiece
    <2>6. CASE BroadcastHave BY <2>6 DEF BroadcastHave
    <2>7. CASE CheckMore BY <2>7 DEF CheckMore
    <2>8. CASE Finish BY <2>8 DEF Finish
    <2>9. CASE FastResumeTick BY <2>9 DEF FastResumeTick
    <2>10. CASE CollectorQuit BY <2>10 DEF CollectorQuit
    <2>11. CASE WriterQuit BY <2>11 DEF WriterQuit
    <2> QED BY <1>2, <2>1, <2>2, <2>3, <2>4, <2>5, <2>6, <2>7, <2>8, <2>9, <2>10, <2>11
            DEF CollectorStep
<1>3. CASE EngineStep
    <2>1. CASE Restart
        BY <2>1 DEF Restart, StartSession
    <2>2. CASE ~Restart
        BY <1>1, <1>3, <2>2 DEF EngineStep, ClientStep, Pause, PauseStop, ResumeCheck, Resume, Remove, Shutdown, StopPeers,
               CloseStorage, DeleteRecord, claimVars, collVars
    <2> QED BY <2>1, <2>2
<1>4. CASE FeederTake \/ FeederPut \/ FeederQuit \/ (\E p \in Peers : PeerStep(p))
    BY <1>1, <1>4, LedgerFrame DEF ledgerVars
<1>5. CASE UNCHANGED vars
    BY <1>1, <1>5 DEF vars, collVars, claimVars
<1> QED BY <1>2, <1>3, <1>4, <1>5 DEF Next

\* what this run verified, and all that a save records, is on disk
LEMMA RecordIsOnDisk ==
    ASSUME IInv, saved' = stored, onDisk' = onDisk
    PROVE  Ledger!Records
BY DEF IInv, ClaimOrder, ClaimsOnDisk, Ledger!Records

LEMMA LedgerCollector ==
    ASSUME IInv, OnePieceAtATime, CollectorStep
    PROVE  Ledger!Next \/ UNCHANGED ledgerVars
<1> USE DEF ledgerVars, claimVars, diskVars, ctlVars, collVars, OnePieceAtATime,
            Ledger!Next, Ledger!Settled, Ledger!claims
<1>1. CASE Collect \/ WriteFails \/ CheckMore \/ CollectorQuit \/ WriterQuit
    BY <1>1 DEF Collect, WriteFails, CheckMore, CollectorQuit, WriterQuit
<1>2. CASE WriteOK
    <2>1. Ledger!Verify(cur.piece)
        BY <1>2, LedgerPieces DEF WriteOK, Ledger!Verify
    <2> QED BY <1>2, <2>1, LedgerPieces DEF WriteOK
<1>3. CASE MarkComplete
    <2>1. Ledger!Learn(cur.piece)
        BY <1>3, LedgerPieces DEF MarkComplete, Ledger!Learn
    <2> QED BY <1>3, <2>1, LedgerPieces DEF MarkComplete
<1>4. CASE SetPiece
    <2>1. have = tbf \cup {cur.piece}
        BY <1>4 DEF SetPiece, IInv, ClaimOrder
    <2>2. CASE tbf = have
        BY <1>4, <2>1, <2>2 DEF SetPiece
    <2>3. CASE tbf # have
        BY <1>4, <2>1, <2>3 DEF SetPiece, Ledger!Show
    <2> QED BY <2>2, <2>3
<1>5. CASE BroadcastHave
    <2>1. cur.piece \in tbf
        BY <1>5 DEF BroadcastHave, IInv, ClaimOrder
    <2>2. Ledger!Tell(cur.piece)
        BY <1>5, <2>1 DEF BroadcastHave, Ledger!Tell
    <2> QED BY <1>5, <2>2, LedgerPieces DEF BroadcastHave
<1>6. CASE Finish
    <2>1. have = Pieces
        BY <1>6, AllCompleteMeansAll DEF Finish, IInv
    <2>2. tbf = have
        BY <1>6 DEF Finish, IInv, ClaimOrder
    <2> QED BY <1>6, <2>1, <2>2, RecordIsOnDisk DEF Finish, Ledger!Complete
<1>7. CASE FastResumeTick
    BY <1>7, RecordIsOnDisk DEF FastResumeTick, Ledger!Record
<1> QED BY <1>1, <1>2, <1>3, <1>4, <1>5, <1>6, <1>7 DEF CollectorStep

LEMMA LedgerEngine ==
    ASSUME IInv, EngineStep
    PROVE  Ledger!Next \/ UNCHANGED ledgerVars
<1> USE DEF ledgerVars, claimVars, diskVars, Ledger!Next, Ledger!claims
<1>1. ASSUME NEW c \in Clients, ClientStep(c) PROVE Ledger!Next \/ UNCHANGED ledgerVars
    <2>1. CASE Pause(c) \/ Resume(c)
        BY <2>1 DEF Pause, Resume, Ledger!Ask
    <2>2. CASE PauseStop(c) \/ ResumeCheck(c)
        BY <2>2 DEF PauseStop, ResumeCheck
    <2> QED BY <1>1, <2>1, <2>2 DEF ClientStep
<1>3. CASE Shutdown BY <1>3, RecordIsOnDisk DEF Shutdown, Ledger!Record
<1>4. CASE DeleteRecord BY <1>4 DEF DeleteRecord, Ledger!Forget
<1>5. CASE Restart BY <1>5 DEF Restart, StartSession, Ledger!Crash
<1>6. CASE Remove \/ StopPeers \/ CloseStorage
    BY <1>6 DEF Remove, StopPeers, CloseStorage
<1> QED BY <1>1, <1>3, <1>4, <1>5, <1>6 DEF EngineStep

\* Every step of a session, whatever the number of pieces and peers, faults,
\* stops and restarts, is a step of the ledger or invisible to it.
THEOREM SessionImplementsLedger == Spec => ImplementsLedger
<1>1. Init => Ledger!Init /\ OnePieceAtATime
    BY DEF Init, Ledger!Init, OnePieceAtATime
<1>2. IInv /\ OnePieceAtATime /\ [Next]_vars => OnePieceAtATime'
    BY OnePieceStep
<1>3. IInv /\ OnePieceAtATime /\ [Next]_vars => [Ledger!Next]_(Ledger!vars)
    <2> SUFFICES ASSUME IInv, OnePieceAtATime, [Next]_vars
                 PROVE  Ledger!Next \/ UNCHANGED ledgerVars
        BY DEF ledgerVars, Ledger!vars, Ledger!claims
    <2>1. CASE UNCHANGED vars
        BY <2>1 DEF vars, ledgerVars, claimVars, diskVars, ctlVars
    <2> QED BY <2>1, LedgerFrame, LedgerCollector, LedgerEngine DEF Next
<1>4. Spec => Ledger!Spec
    BY <1>1, <1>2, <1>3, Invariant, PTL DEF Spec, Ledger!Spec
<1> QED BY <1>4 DEF ImplementsLedger

============================================================================

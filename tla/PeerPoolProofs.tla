------------------------- MODULE PeerPoolProofs -------------------------
(***************************************************************************)
(* Proofs about PeerPool, for every set of connections and addresses,      *)
(* every cap and every channel capacity.                                   *)
(***************************************************************************)
EXTENDS PeerPool, FiniteSetTheorems, TLAPS

LEMMA ConnFacts ==
    /\ None \notin Conns
    /\ AddrOf \in [Conns -> Addrs]
    /\ OutboundCap \in Nat /\ OutboundCap > 0
    /\ 0 \in 0 .. OutboundCap
BY PoolAssumption DEF Conns

LEMMA RegisteredType == TypeOK => Registered \subseteq Conns
BY DEF TypeOK, Registered

\* Send keeps the channel within its capacity.
LEMMA SendType ==
    ASSUME TypeOK, NEW c \in Conns, Send(c)
    PROVE  queued' \in [Conns -> 0 .. OutboundCap]
<1>1. CASE queued[c] < OutboundCap /\ queued' = [queued EXCEPT ![c] = @ + 1]
    <2>1. queued[c] + 1 \in 0 .. OutboundCap
        BY <1>1, ConnFacts DEF TypeOK
    <2> QED BY <1>1, <2>1 DEF TypeOK
<1>2. CASE UNCHANGED queued
    BY <1>2 DEF TypeOK
<1> QED BY <1>1, <1>2 DEF Send

----------------------------------------------------------------------------
\* The inductive invariant, one lemma per part of Next.

LEMMA InvInit == Init => IInv
<1> SUFFICES ASSUME Init PROVE IInv
    OBVIOUS
<1>1. TypeOK
    BY ConnFacts DEF Init, TypeOK, NoRound
<1>2. NoStaleEntry
    BY DEF Init, NoStaleEntry
<1>3. RoundsStayRegistered /\ LockHeld
    BY DEF Init, RoundsStayRegistered, LockHeld, WriteLocked, NoRound
<1> QED BY <1>1, <1>2, <1>3 DEF IInv

LEMMA InvStutter == IInv /\ UNCHANGED vars => IInv'
BY DEF IInv, TypeOK, NoStaleEntry, RoundsStayRegistered, LockHeld, WriteLocked,
       Registered, NoRound, vars, connVars

\* the connection and its writer, outside the pool's map
LEMMA InvWriter ==
    ASSUME IInv, NEW c \in Conns, Write(c) \/ WriteFails(c) \/ WriterQuit(c)
    PROVE  IInv'
<1> USE ConnFacts DEF IInv
<1>1. TypeOK'
    <2>1. CASE queued[c] > 0 /\ queued' = [queued EXCEPT ![c] = @ - 1]
        <3>1. queued[c] - 1 \in 0 .. OutboundCap
            BY <2>1 DEF TypeOK
        <3> QED BY <2>1, <3>1 DEF TypeOK, Write, WriteFails, WriterQuit
    <2>2. CASE UNCHANGED queued
        BY <2>2 DEF TypeOK, Write, WriteFails, WriterQuit
    <2> QED BY <2>1, <2>2 DEF Write, WriteFails, WriterQuit
<1>2. UNCHANGED <<conns, at, run, round, bcast>>
    BY DEF Write, WriteFails, WriterQuit
<1>3. NoStaleEntry' /\ RoundsStayRegistered' /\ LockHeld'
    BY <1>2 DEF NoStaleEntry, RoundsStayRegistered, LockHeld, WriteLocked, Registered, NoRound
<1> QED BY <1>1, <1>3

\* a connection that only moves on while the map stays as it is
LEMMA MoveKeepsPool ==
    ASSUME IInv, NEW c \in Conns, NEW to \in Live \cup {"new", "dialing", "register", "close", "done"},
           at' = [at EXCEPT ![c] = to], c \in Registered => to \in Live,
           UNCHANGED <<conns, run, round, bcast>>
    PROVE  NoStaleEntry' /\ RoundsStayRegistered' /\ LockHeld'
<1>1. NoStaleEntry'
    <2> SUFFICES ASSUME NEW a \in Addrs, conns[a] # None
                 PROVE  AddrOf[conns[a]] = a /\ at'[conns[a]] \in Live
        BY DEF NoStaleEntry
    <2>1. conns[a] \in Registered /\ conns[a] \in Conns
        BY DEF Registered, IInv, TypeOK
    <2>2. AddrOf[conns[a]] = a /\ at[conns[a]] \in Live
        BY DEF IInv, NoStaleEntry
    <2> QED BY <2>1, <2>2 DEF IInv, TypeOK
<1>2. RoundsStayRegistered' /\ LockHeld'
    BY DEF IInv, RoundsStayRegistered, LockHeld, WriteLocked, Registered, NoRound
<1> QED BY <1>1, <1>2

\* what is not Live is not in the map
LEMMA NotLiveNotRegistered ==
    ASSUME IInv, NEW c \in Conns, at[c] \notin Live
    PROVE  c \notin Registered
BY DEF IInv, NoStaleEntry, Registered

LEMMA InvMoves ==
    ASSUME IInv, NEW c \in Conns,
           \/ MaybeConnect(c) \/ DialFails(c) \/ Opened(c)
           \/ SendBitfield(c) \/ SendGreeting(c)
           \/ Ready(c) \/ Ends(c) \/ Close(c)
    PROVE  IInv'
<1> USE ConnFacts
<1>1. CASE MaybeConnect(c)
    <2>1. TypeOK'
        BY <1>1 DEF IInv, TypeOK, MaybeConnect, Move, Live
    <2>2. c \notin Registered
        BY <1>1, NotLiveNotRegistered DEF MaybeConnect, Move, Live
    <2> QED BY <1>1, <2>1, <2>2, MoveKeepsPool DEF IInv, MaybeConnect, Move
<1>2. CASE DialFails(c)
    <2>1. TypeOK'
        BY <1>2 DEF IInv, TypeOK, DialFails, Move, Live
    <2>2. c \notin Registered
        BY <1>2, NotLiveNotRegistered DEF DialFails, Move, Live
    <2> QED BY <1>2, <2>1, <2>2, MoveKeepsPool DEF IInv, DialFails, Move
<1>3. CASE Opened(c)
    <2>1. TypeOK'
        BY <1>3 DEF IInv, TypeOK, Opened, Move, Live
    <2>2. c \notin Registered
        BY <1>3, NotLiveNotRegistered DEF Opened, Move, Live
    <2> QED BY <1>3, <2>1, <2>2, MoveKeepsPool DEF IInv, Opened, Move
<1>4. CASE SendBitfield(c)
    <2>1. TypeOK'
        BY <1>4, SendType DEF IInv, TypeOK, SendBitfield, Move, Live
    <2> QED BY <1>4, <2>1, MoveKeepsPool DEF IInv, SendBitfield, Move, Live
<1>5. CASE SendGreeting(c)
    <2>1. TypeOK'
        BY <1>5, SendType DEF IInv, TypeOK, SendGreeting, Move, Live
    <2>2. at' = [at EXCEPT ![c] = "await"] \/ at' = [at EXCEPT ![c] = "serve"]
        BY <1>5 DEF SendGreeting, Move
    <2> QED BY <1>5, <2>1, <2>2, MoveKeepsPool DEF IInv, SendGreeting, Live
<1>6. CASE Ready(c)
    <2>1. TypeOK'
        BY <1>6 DEF IInv, TypeOK, Ready, Move, Live
    <2> QED BY <1>6, <2>1, MoveKeepsPool DEF IInv, Ready, Move, Live
<1>7. CASE Ends(c)
    <2>1. TypeOK'
        BY <1>7 DEF IInv, TypeOK, Ends, Live
    <2> QED BY <1>7, <2>1, MoveKeepsPool DEF IInv, Ends, Live
<1>8. CASE Close(c)
    <2>1. TypeOK'
        BY <1>8 DEF IInv, TypeOK, Close, Move, Live
    <2>2. c \notin Registered
        BY <1>8, NotLiveNotRegistered DEF Close, Move, Live
    <2> QED BY <1>8, <2>1, <2>2, MoveKeepsPool DEF IInv, Close, Move
<1> QED BY <1>1, <1>2, <1>3, <1>4, <1>5, <1>6, <1>7, <1>8

LEMMA InvTraffic ==
    ASSUME IInv, NEW c \in Conns,
           (\E b \in BOOLEAN : ReadChoke(c, b)) \/ Request(c) \/ Upload(c)
    PROVE  IInv'
<1>1. UNCHANGED <<conns, at, run, round, bcast>>
    BY DEF ReadChoke, Request, Upload
<1>2. TypeOK'
    BY SendType DEF IInv, TypeOK, ReadChoke, Request, Upload
<1>3. NoStaleEntry' /\ RoundsStayRegistered' /\ LockHeld'
    BY <1>1 DEF IInv, NoStaleEntry, RoundsStayRegistered, LockHeld, WriteLocked, Registered, NoRound
<1> QED BY <1>2, <1>3 DEF IInv

\* the writers of the map hold the lock alone, so no round or broadcast is
\* sending to what they replace or remove
LEMMA AloneNothingPending ==
    ASSUME IInv, CanLock
    PROVE  bcast = {} /\ round = NoRound
BY DEF IInv, LockHeld, CanLock

LEMMA InvRegister ==
    ASSUME IInv, NEW c \in Conns, Register(c)
    PROVE  IInv'
<1> USE ConnFacts
<1>1. bcast = {} /\ round = NoRound /\ UNCHANGED <<run, round, bcast>>
    BY AloneNothingPending DEF Register
<1>2. TypeOK'
    BY DEF IInv, TypeOK, Register, Move, Live
<1>3. RoundsStayRegistered' /\ LockHeld'
    BY <1>1 DEF IInv, RoundsStayRegistered, LockHeld, WriteLocked, NoRound
<1>4. CASE Full
    <2>1. c \notin Registered
        BY NotLiveNotRegistered DEF Register, Move, Live
    <2> QED BY <1>2, <1>4, <2>1, MoveKeepsPool DEF IInv, Register, Move
<1>5. CASE ~Full
    <2>1. NoStaleEntry'
        BY <1>5 DEF IInv, TypeOK, NoStaleEntry, Register, Move, Live
    <2> QED BY <1>2, <1>3, <2>1 DEF IInv
<1> QED BY <1>4, <1>5

LEMMA InvCleanup ==
    ASSUME IInv, NEW c \in Conns, Cleanup(c)
    PROVE  IInv'
<1> USE ConnFacts
<1>1. bcast = {} /\ round = NoRound /\ UNCHANGED <<run, round, bcast>>
    BY AloneNothingPending DEF Cleanup
<1>2. TypeOK'
    BY DEF IInv, TypeOK, Cleanup, Move, Live
<1>3. RoundsStayRegistered' /\ LockHeld'
    BY <1>1 DEF IInv, RoundsStayRegistered, LockHeld, WriteLocked, NoRound
<1>4. NoStaleEntry'
    \* another address names another connection
    <2> SUFFICES ASSUME NEW a \in Addrs, conns'[a] # None
                 PROVE  AddrOf[conns'[a]] = a /\ at'[conns'[a]] \in Live
        BY DEF NoStaleEntry
    <2>1. a # AddrOf[c] /\ conns'[a] = conns[a]
        BY DEF IInv, TypeOK, Cleanup
    <2>2. AddrOf[conns[a]] = a /\ at[conns[a]] \in Live /\ conns[a] \in Conns
        BY <2>1 DEF IInv, TypeOK, NoStaleEntry
    <2> QED BY <2>1, <2>2 DEF IInv, TypeOK, Cleanup, Move
<1> QED BY <1>2, <1>3, <1>4 DEF IInv

LEMMA InvRounds ==
    ASSUME IInv,
           \/ RegularBegin \/ OptimisticBegin \/ RunQuit
           \/ \E c \in Conns : RegularSend(c) \/ OptimisticSend(c)
    PROVE  IInv'
<1> USE ConnFacts
<1>0. UNCHANGED <<conns, at>>
    BY DEF RegularBegin, OptimisticBegin, RunQuit, RegularSend, OptimisticSend, connVars
<1>1. NoStaleEntry'
    BY <1>0 DEF IInv, NoStaleEntry
<1>2. CASE RegularBegin
    <2>1. PICK top \in SUBSET Registered :
               round' = [top |-> top, rest |-> Registered \ top]
        BY <1>2 DEF RegularBegin
    <2>2. TypeOK'
        BY <1>2, <2>1, RegisteredType DEF IInv, TypeOK, RegularBegin, connVars
    <2>3. RoundsStayRegistered' /\ LockHeld'
        BY <1>2, <2>1 DEF IInv, RoundsStayRegistered, LockHeld, WriteLocked, Registered,
                          RegularBegin, CanLock
    <2> QED BY <1>1, <2>2, <2>3 DEF IInv
<1>3. CASE OptimisticBegin
    <2>1. PICK c \in Registered : round' = [top |-> {c}, rest |-> {}]
        BY <1>3 DEF OptimisticBegin
    <2>2. TypeOK'
        BY <1>3, <2>1, RegisteredType DEF IInv, TypeOK, OptimisticBegin, connVars
    <2>3. RoundsStayRegistered' /\ LockHeld'
        BY <1>3, <2>1 DEF IInv, RoundsStayRegistered, LockHeld, WriteLocked, Registered,
                          OptimisticBegin, CanLock
    <2> QED BY <1>1, <2>2, <2>3 DEF IInv
<1>4. CASE RunQuit
    <2>1. TypeOK'
        BY <1>4 DEF IInv, TypeOK, RunQuit, connVars
    <2>2. RoundsStayRegistered' /\ LockHeld'
        BY <1>4 DEF IInv, RoundsStayRegistered, LockHeld, WriteLocked, Registered, RunQuit, NoRound
    <2> QED BY <1>1, <2>1, <2>2 DEF IInv
<1>5. ASSUME NEW c \in Conns, RegularSend(c) PROVE IInv'
    <2>1. queued' \in [Conns -> 0 .. OutboundCap]
        BY <1>5, SendType DEF IInv, RegularSend
    <2>2. choked' \in [Conns -> BOOLEAN]
        BY <1>5 DEF IInv, TypeOK, RegularSend
    <2>3. round' = [top |-> round.top \ {c}, rest |-> round.rest \ {c}]
        BY <1>5 DEF RegularSend
    <2>4. round' \in [top : SUBSET Conns, rest : SUBSET Conns]
        BY <2>3 DEF IInv, TypeOK
    <2>5. TypeOK'
        BY <1>5, <2>1, <2>2, <2>4 DEF IInv, TypeOK, RegularSend
    <2>6. RoundsStayRegistered'
        BY <1>5, <2>3 DEF IInv, RoundsStayRegistered, Registered, RegularSend
    <2>7. bcast' = {}
        BY <1>5 DEF IInv, LockHeld, WriteLocked, RegularSend
    <2>8. run' = "select" => round' = NoRound
        <3>1. run' = "select" => round.top \cup round.rest = {c}
            BY <1>5 DEF RegularSend
        <3> QED BY <2>3, <3>1 DEF NoRound
    <2>9. LockHeld'
        BY <1>5, <2>7, <2>8 DEF LockHeld, WriteLocked, RegularSend
    <2> QED BY <1>1, <2>5, <2>6, <2>9 DEF IInv
<1>6. ASSUME NEW c \in Conns, OptimisticSend(c) PROVE IInv'
    <2>1. queued' \in [Conns -> 0 .. OutboundCap]
        BY <1>6, SendType DEF IInv, OptimisticSend
    <2>2. TypeOK'
        BY <1>6, <2>1 DEF IInv, TypeOK, OptimisticSend, NoRound
    <2>3. RoundsStayRegistered'
        BY <1>6 DEF IInv, RoundsStayRegistered, Registered, OptimisticSend, NoRound
    <2>4. LockHeld'
        BY <1>6 DEF IInv, LockHeld, WriteLocked, OptimisticSend
    <2> QED BY <1>1, <2>2, <2>3, <2>4 DEF IInv
<1> QED BY <1>2, <1>3, <1>4, <1>5, <1>6

LEMMA InvCallers ==
    ASSUME IInv,
           \/ HaveBegin \/ StopQuit \/ StopClose
           \/ \E c \in Conns : HaveSend(c)
    PROVE  IInv'
<1> USE ConnFacts
<1>0. UNCHANGED <<conns, at, run, round>>
    BY DEF HaveBegin, HaveSend, StopQuit, StopClose, connVars
<1>1. NoStaleEntry'
    BY <1>0 DEF IInv, NoStaleEntry
<1>2. CASE HaveBegin
    <2>1. TypeOK'
        BY <1>2, RegisteredType DEF IInv, TypeOK, HaveBegin, connVars
    <2>2. RoundsStayRegistered' /\ LockHeld'
        BY <1>2 DEF IInv, RoundsStayRegistered, LockHeld, WriteLocked, Registered,
                    HaveBegin, CanRLock, NoRound
    <2> QED BY <1>1, <2>1, <2>2 DEF IInv
<1>3. CASE StopQuit
    <2>1. TypeOK'
        BY <1>3 DEF IInv, TypeOK, StopQuit, connVars
    <2>2. RoundsStayRegistered' /\ LockHeld'
        BY <1>3 DEF IInv, RoundsStayRegistered, LockHeld, WriteLocked, Registered, StopQuit, NoRound
    <2> QED BY <1>1, <2>1, <2>2 DEF IInv
<1>4. CASE StopClose
    <2>1. closed' \in [Conns -> BOOLEAN]
        BY <1>4 DEF StopClose, IInv, TypeOK
    <2>2. TypeOK'
        BY <1>4, <2>1 DEF IInv, TypeOK, StopClose
    <2>3. RoundsStayRegistered' /\ LockHeld'
        BY <1>4 DEF IInv, RoundsStayRegistered, LockHeld, WriteLocked, Registered, StopClose, NoRound
    <2> QED BY <1>1, <2>2, <2>3 DEF IInv
<1>5. ASSUME NEW c \in Conns, HaveSend(c) PROVE IInv'
    <2>1. queued' \in [Conns -> 0 .. OutboundCap]
        BY <1>5, SendType DEF IInv, HaveSend
    <2>2. TypeOK'
        BY <1>5, <2>1 DEF IInv, TypeOK, HaveSend
    <2>3. RoundsStayRegistered' /\ LockHeld'
        BY <1>5 DEF IInv, RoundsStayRegistered, LockHeld, WriteLocked, Registered, HaveSend, NoRound
    <2> QED BY <1>1, <2>2, <2>3 DEF IInv
<1> QED BY <1>2, <1>3, <1>4, <1>5

LEMMA InvNext == IInv /\ [Next]_vars => IInv'
<1> SUFFICES ASSUME IInv, [Next]_vars PROVE IInv'
    OBVIOUS
<1>1. ASSUME NEW c \in Conns, ConnStep(c) PROVE IInv'
    BY <1>1, InvWriter, InvMoves, InvTraffic, InvRegister, InvCleanup DEF ConnStep
<1>2. CASE UNCHANGED vars
    BY <1>2, InvStutter
<1> QED BY <1>1, <1>2, InvRounds, InvCallers DEF Next

LEMMA Invariant == Spec => []IInv
BY InvInit, InvNext, PTL DEF Spec

----------------------------------------------------------------------------
\* The theorems.

\* Every variable keeps its type; an outbound channel keeps to its capacity.
THEOREM TypeCorrect == Spec => []TypeOK
BY Invariant, PTL DEF IInv

\* The map never names a connection whose goroutine has removed it, whatever
\* duplicates at one address were registered over it.
THEOREM EntriesAreLive == Spec => []NoStaleEntry
BY Invariant, PTL DEF IInv

\* What a choking round or a broadcast still has to send to is in the map.
THEOREM RoundsAreStable == Spec => []RoundsStayRegistered
BY Invariant, PTL DEF IInv

\* The pool keeps to its cap: the check under the lock that inserts is what
\* counts, the one before the dial does not.
THEOREM CapRespected == Spec => []PoolBounded
<1>1. Init => PoolBounded
    <2> SUFFICES ASSUME Init PROVE PoolBounded
        OBVIOUS
    <2>1. Registered = {}
        BY DEF Init, Registered
    <2> QED BY <2>1, FS_EmptySet, PoolAssumption DEF PoolBounded
<1>2. IInv /\ PoolBounded /\ [Next]_vars => PoolBounded'
    <2> SUFFICES ASSUME IInv, PoolBounded, [Next]_vars PROVE PoolBounded'
        OBVIOUS
    <2>0. IsFiniteSet(Registered) /\ Cardinality(Registered) \in Nat
        BY RegisteredType, PoolAssumption, FS_Union, FS_Subset, FS_CardinalityType
            DEF IInv, Conns
    <2>1. CASE UNCHANGED conns
        BY <2>1 DEF PoolBounded, Registered
    <2>2. ASSUME NEW c \in Conns, Cleanup(c) PROVE PoolBounded'
        <3>1. Registered' \subseteq Registered
            BY <2>2 DEF Cleanup, Registered, IInv, TypeOK
        <3>2. Cardinality(Registered') <= Cardinality(Registered) /\ Cardinality(Registered') \in Nat
            BY <2>0, <3>1, FS_Subset, FS_CardinalityType
        <3> QED BY <2>0, <3>2, PoolAssumption DEF PoolBounded
    <2>3. ASSUME NEW c \in Conns, Register(c), ~Full PROVE PoolBounded'
        <3>1. Registered' \subseteq Registered \cup {c}
            BY <2>3 DEF Register, Registered, IInv, TypeOK
        <3>2. /\ IsFiniteSet(Registered \cup {c})
              /\ Cardinality(Registered \cup {c}) <= Cardinality(Registered) + 1
            BY <2>0, FS_AddElement
        <3>3. /\ Cardinality(Registered') <= Cardinality(Registered \cup {c})
              /\ Cardinality(Registered') \in Nat /\ Cardinality(Registered \cup {c}) \in Nat
            BY <3>1, <3>2, FS_Subset, FS_CardinalityType
        <3>4. Cardinality(Registered) < MaxConns
            BY <2>0, <2>3, PoolAssumption DEF Full
        <3> QED BY <2>0, <3>2, <3>3, <3>4, PoolAssumption DEF PoolBounded
    <2>4. \/ UNCHANGED conns
          \/ \E c \in Conns : Cleanup(c) \/ (Register(c) /\ ~Full)
        BY DEF Next, ConnStep, vars, connVars, Write, WriteFails, WriterQuit, MaybeConnect,
               DialFails, Opened, Register, SendBitfield, SendGreeting, ReadChoke, Ready,
               Request, Upload, Ends, Close, RegularBegin, RegularSend, OptimisticBegin,
               OptimisticSend, RunQuit, HaveBegin, HaveSend, StopQuit, StopClose
    <2> QED BY <2>1, <2>2, <2>3, <2>4
<1> QED BY <1>1, <1>2, Invariant, PTL DEF Spec

----------------------------------------------------------------------------
\* Nobody waits in vain with the lock held.

LEMMA WriterStep ==
    ASSUME IInv, WriterLives, [Next]_vars
    PROVE  WriterLives'
<1> SUFFICES ASSUME ~WriteMayFail, NEW d \in Conns,
                    at'[d] \in Live \cup {"register", "close"}
             PROVE  writing'[d] \/ closed'[d]
    BY DEF WriterLives
<1> USE DEF IInv, TypeOK
<1>1. ASSUME at[d] \in Live \cup {"register", "close"},
             writing[d] => writing'[d] \/ closed'[d], closed[d] => closed'[d]
      PROVE  writing'[d] \/ closed'[d]
    BY <1>1 DEF WriterLives
<1>2. ASSUME NEW c \in Conns, WriterQuit(c)
      PROVE  writing'[d] \/ closed'[d]
    <2>1. UNCHANGED <<at, closed>> /\ closed[c] /\ (d # c => writing'[d] = writing[d])
        BY <1>2 DEF WriterQuit
    <2> QED BY <1>1, <2>1
<1>3. ASSUME NEW c \in Conns, Opened(c)
      PROVE  writing'[d] \/ closed'[d]
    <2>1. UNCHANGED closed /\ writing' = [writing EXCEPT ![c] = TRUE]
          /\ (d # c => at'[d] = at[d])
        BY <1>3 DEF Opened, Move
    <2> QED BY <1>1, <2>1
<1>4. ASSUME NEW c \in Conns, Close(c)
      PROVE  writing'[d] \/ closed'[d]
    <2>1. UNCHANGED writing /\ closed' = [closed EXCEPT ![c] = TRUE]
          /\ (d # c => at'[d] = at[d])
        BY <1>4 DEF Close, Move
    <2> QED BY <1>1, <2>1
<1>5. CASE StopClose
    <2>1. UNCHANGED <<at, writing>> /\ (closed[d] => closed'[d])
        BY <1>5 DEF StopClose
    <2> QED BY <1>1, <2>1
<1>6. ASSUME NEW c \in Conns,
             \/ MaybeConnect(c) \/ DialFails(c) \/ Register(c) \/ SendBitfield(c)
             \/ SendGreeting(c) \/ Ready(c) \/ Ends(c) \/ Cleanup(c)
      PROVE  writing'[d] \/ closed'[d]
    <2>1. UNCHANGED <<writing, closed>> /\ (d # c => at'[d] = at[d])
        BY <1>6 DEF MaybeConnect, DialFails, Register, SendBitfield, SendGreeting, Ready,
                    Ends, Cleanup, Move
    <2>2. d = c => at[d] \in Live \cup {"register", "close"}
        BY <1>6 DEF MaybeConnect, DialFails, Register, SendBitfield, SendGreeting, Ready,
                    Ends, Cleanup, Move, Live
    <2> QED BY <1>1, <2>1, <2>2
<1>7. CASE UNCHANGED <<at, writing, closed>>
    BY <1>1, <1>7
<1>8. ASSUME NEW c \in Conns, ConnStep(c)
      PROVE  writing'[d] \/ closed'[d]
    BY <1>2, <1>3, <1>4, <1>6, <1>7, <1>8
       DEF ConnStep, ReadChoke, Request, Upload, Write, WriteFails
<1>9. ASSUME NEW c \in Conns, RegularSend(c) \/ OptimisticSend(c) \/ HaveSend(c)
      PROVE  writing'[d] \/ closed'[d]
    BY <1>7, <1>9 DEF RegularSend, OptimisticSend, HaveSend
<1>10. CASE RegularBegin \/ OptimisticBegin \/ RunQuit \/ HaveBegin \/ StopQuit \/ UNCHANGED vars
    BY <1>7, <1>10 DEF RegularBegin, OptimisticBegin, RunQuit, HaveBegin, StopQuit,
                       vars, connVars
<1> QED BY <1>5, <1>8, <1>9, <1>10 DEF Next

\* Without write errors neither a choking round nor a broadcast can be stuck in
\* Send with m.mu held: the registered connections have their write loops.
THEOREM LockHolderIsServed == Spec => []LockHolderGoesOn
<1>1. Init => WriterLives
    BY DEF Init, WriterLives, Live
<1>2. IInv /\ WriterLives /\ [Next]_vars => WriterLives'
    BY WriterStep
<1>3. IInv /\ WriterLives => LockHolderGoesOn
    <2> SUFFICES ASSUME IInv, WriterLives, ~WriteMayFail,
                        NEW c \in bcast \cup round.top \cup round.rest
                 PROVE  queued[c] < OutboundCap \/ closed[c] \/ (writing[c] /\ queued[c] > 0)
        BY DEF LockHolderGoesOn
    <2>1. c \in Registered /\ c \in Conns
        BY RegisteredType DEF IInv, RoundsStayRegistered
    <2>2. at[c] \in Live
        BY <2>1, NotLiveNotRegistered
    <2>3. writing[c] \/ closed[c]
        BY <2>1, <2>2 DEF WriterLives
    <2>4. queued[c] \in 0 .. OutboundCap
        BY <2>1 DEF IInv, TypeOK
    <2> QED BY <2>3, <2>4, ConnFacts
<1> QED BY <1>1, <1>2, <1>3, Invariant, PTL DEF Spec

============================================================================

---------------------------- MODULE PeerPool ----------------------------
(***************************************************************************)
(* The connection pool of one torrent's peer.Manager: the map m.conns and  *)
(* its RWMutex m.mu, the goroutines that register and remove connections,  *)
(* Run's choking rounds and BroadcastHave, which send to connections while *)
(* they hold the lock, each connection's outbound channel and writeLoop,   *)
(* and Stop.  What the download goroutines do with pieces is in Session.   *)
(*                                                                         *)
(* A member of Outs is one call of maybeConnect's goroutine, a member of   *)
(* Ins one call of AcceptInbound, so a redial is another member.           *)
(***************************************************************************)
EXTENDS Naturals, FiniteSets

CONSTANTS
    Outs,         \* dialled connections
    Ins,          \* accepted connections
    AddrOf,       \* the key in m.conns: remote address of each connection
    MaxConns,     \* m.maxConns
    MaxUnchoked,  \* upload slots of a regular round (3 in the code)
    OutboundCap,  \* capacity of Conn.outbound (32 in the code)
    WriteMayFail, \* whether a write to a connection may fail or time out
    None          \* no connection

Conns == Outs \cup Ins
Addrs == {AddrOf[c] : c \in Conns}

ASSUME PoolAssumption ==
    /\ IsFiniteSet(Outs) /\ IsFiniteSet(Ins) /\ Outs \cap Ins = {}
    /\ AddrOf \in [Conns -> Addrs]
    /\ MaxConns \in Nat \ {0} /\ MaxUnchoked \in Nat /\ OutboundCap \in Nat \ {0}
    /\ WriteMayFail \in BOOLEAN
    /\ None \notin Conns

VARIABLES
    conns,    \* m.conns: address -> connection, None when absent
    at,       \* where each connection's goroutine is
    choked,   \* Conn.Choked: written by the choking rounds and by the reader
    queued,   \* number of messages in Conn.outbound
    writing,  \* Conn.writeLoop is running
    closed,   \* Conn.quit is closed
    run,      \* Manager.Run: "select", "regular", "optimistic" or "exited"
    round,    \* what the current choking round still sends
    bcast,    \* connections BroadcastHave still has to send to
    quit,     \* m.quit is closed
    stop      \* Stop: "none", "lock", "done"

connVars == <<at, choked, queued, writing, closed>>
vars == <<conns, connVars, run, round, bcast, quit, stop>>

NoRound == [top |-> {}, rest |-> {}]

Registered == {conns[a] : a \in Addrs} \ {None}

\* m.mu: Run's rounds hold it for writing, BroadcastHave for reading, while
\* they wait for room in an outbound channel.  The other critical sections do
\* not wait and are single steps.
WriteLocked == run \in {"regular", "optimistic"}
CanRLock == ~WriteLocked
CanLock  == ~WriteLocked /\ bcast = {}

Init ==
    /\ conns = [a \in Addrs |-> None]
    /\ at = [c \in Conns |-> "new"]
    /\ choked = [c \in Conns |-> TRUE]
    /\ queued = [c \in Conns |-> 0]
    /\ writing = [c \in Conns |-> FALSE]
    /\ closed = [c \in Conns |-> FALSE]
    /\ run = "select" /\ round = NoRound /\ bcast = {}
    /\ quit = FALSE /\ stop = "none"

----------------------------------------------------------------------------
\* Conn: the outbound channel and its writing.

\* (mutant) a channel without a capacity
SendUnbounded(c) == queued' = [queued EXCEPT ![c] = @ + 1]

\* (mutant) Send without its <-c.quit case
SendRegardless(c) ==
    /\ queued[c] < OutboundCap
    /\ queued' = [queued EXCEPT ![c] = @ + 1]

\* Send waits for room or for c.quit; with both, the select may take either
Send(c) ==
    \/ queued[c] < OutboundCap /\ queued' = [queued EXCEPT ![c] = @ + 1]
    \/ closed[c] /\ UNCHANGED queued

Write(c) ==
    /\ writing[c] /\ queued[c] > 0
    /\ queued' = [queued EXCEPT ![c] = @ - 1]
    /\ UNCHANGED <<conns, at, choked, writing, closed, run, round, bcast, quit, stop>>

\* a write error ends the loop and nothing else: the connection stays open
WriteFails(c) ==
    /\ WriteMayFail
    /\ writing[c] /\ queued[c] > 0
    /\ queued' = [queued EXCEPT ![c] = @ - 1]
    /\ writing' = [writing EXCEPT ![c] = FALSE]
    /\ UNCHANGED <<conns, at, choked, closed, run, round, bcast, quit, stop>>

WriterQuit(c) ==
    /\ writing[c] /\ closed[c]
    /\ writing' = [writing EXCEPT ![c] = FALSE]
    /\ UNCHANGED <<conns, at, choked, queued, closed, run, round, bcast, quit, stop>>

----------------------------------------------------------------------------
\* A connection's own goroutine, from the dial or the accept to its deferred
\* removal from the pool.

Move(c, from, to) == at[c] = from /\ at' = [at EXCEPT ![c] = to]

Full == Cardinality(Registered) >= MaxConns

\* Run's case of a batch of addresses; an address that is connected, or one
\* too many, is skipped.  Nothing marks the address while the dial is under way.
MaybeConnect(c) ==
    /\ c \in Outs
    /\ run = "select" /\ CanRLock
    /\ conns[AddrOf[c]] = None /\ ~Full
    /\ Move(c, "new", "dialing")
    /\ UNCHANGED <<conns, choked, queued, writing, closed, run, round, bcast, quit, stop>>

DialFails(c) ==
    /\ Move(c, "dialing", "done")
    /\ UNCHANGED <<conns, choked, queued, writing, closed, run, round, bcast, quit, stop>>

\* newConn: the connection and its writeLoop
Opened(c) ==
    /\ IF c \in Ins THEN Move(c, "new", "register") ELSE Move(c, "dialing", "register")
    /\ writing' = [writing EXCEPT ![c] = TRUE]
    /\ UNCHANGED <<conns, choked, queued, closed, run, round, bcast, quit, stop>>

\* (mutant) the cap is only checked before the dial
RegisterUnchecked(c) ==
    /\ CanLock
    /\ Move(c, "register", "hello")
    /\ conns' = [conns EXCEPT ![AddrOf[c]] = c]
    /\ UNCHANGED <<choked, queued, writing, closed, run, round, bcast, quit, stop>>

Register(c) ==
    /\ CanLock
    /\ IF Full
       THEN /\ Move(c, "register", "close")
            /\ UNCHANGED conns
       ELSE /\ Move(c, "register", "hello")
            /\ conns' = [conns EXCEPT ![AddrOf[c]] = c]
    /\ UNCHANGED <<choked, queued, writing, closed, run, round, bcast, quit, stop>>

\* the bitfield, and then Interested (downloadFromPeer) or Unchoke (serveUpload)
SendBitfield(c) ==
    /\ Move(c, "hello", "greet")
    /\ Send(c)
    /\ UNCHANGED <<conns, choked, writing, closed, run, round, bcast, quit, stop>>

SendGreeting(c) ==
    /\ Move(c, "greet", IF c \in Outs THEN "await" ELSE "serve")
    /\ Send(c)
    /\ UNCHANGED <<conns, choked, writing, closed, run, round, bcast, quit, stop>>

\* awaitReady and Download read Choke and Unchoke
ReadChoke(c, b) ==
    /\ at[c] \in {"await", "loop"}
    /\ choked' = [choked EXCEPT ![c] = b]
    /\ UNCHANGED <<conns, at, queued, writing, closed, run, round, bcast, quit, stop>>

\* awaitReady returns nil once it has a bitfield and c.Choked is false
Ready(c) ==
    /\ ~choked[c]
    /\ Move(c, "await", "loop")
    /\ UNCHANGED <<conns, choked, queued, writing, closed, run, round, bcast, quit, stop>>

Request(c) ==
    /\ at[c] = "loop" /\ ~choked[c]
    /\ Send(c)
    /\ UNCHANGED <<conns, at, choked, writing, closed, run, round, bcast, quit, stop>>

\* serveUpload answers a Request unless c.Choked
Upload(c) ==
    /\ at[c] = "serve" /\ ~choked[c]
    /\ Send(c)
    /\ UNCHANGED <<conns, at, choked, writing, closed, run, round, bcast, quit, stop>>

\* a read error or a deadline, or m.quit in the download loop
Ends(c) ==
    /\ at[c] \in {"await", "loop", "serve"}
    /\ at' = [at EXCEPT ![c] = "exit"]
    /\ UNCHANGED <<conns, choked, queued, writing, closed, run, round, bcast, quit, stop>>

\* (mutant) a connection Stop has closed is left in the map
CleanupUnlessClosed(c) ==
    /\ CanLock
    /\ Move(c, "exit", "close")
    /\ conns' = [conns EXCEPT ![AddrOf[c]] = IF closed[c] THEN @ ELSE None]
    /\ UNCHANGED <<choked, queued, writing, closed, run, round, bcast, quit, stop>>

\* (mutant) the entry is deleted without m.mu
CleanupUnlocked(c) ==
    /\ Move(c, "exit", "close")
    /\ conns' = [conns EXCEPT ![AddrOf[c]] = None]
    /\ UNCHANGED <<choked, queued, writing, closed, run, round, bcast, quit, stop>>

\* the deferred delete removes the address, whichever connection it names
Cleanup(c) ==
    /\ CanLock
    /\ Move(c, "exit", "close")
    /\ conns' = [conns EXCEPT ![AddrOf[c]] = None]
    /\ UNCHANGED <<choked, queued, writing, closed, run, round, bcast, quit, stop>>

\* out of the pool and closed, nothing reads its channel or its flag again
\* (they are reset here so that finished connections do not tell states apart)
Close(c) ==
    /\ Move(c, "close", "done")
    /\ closed' = [closed EXCEPT ![c] = TRUE]
    /\ queued' = [queued EXCEPT ![c] = 0]
    /\ choked' = [choked EXCEPT ![c] = TRUE]
    /\ UNCHANGED <<conns, writing, run, round, bcast, quit, stop>>

ConnStep(c) ==
    \/ MaybeConnect(c) \/ DialFails(c) \/ Opened(c) \/ Register(c)
    \/ SendBitfield(c) \/ SendGreeting(c)
    \/ \E b \in BOOLEAN : ReadChoke(c, b)
    \/ Ready(c) \/ Request(c) \/ Upload(c)
    \/ Ends(c) \/ Cleanup(c) \/ Close(c)
    \/ Write(c) \/ WriteFails(c) \/ WriterQuit(c)

----------------------------------------------------------------------------
\* The choking rounds of Run.  Which peers uploaded most is left open: any
\* MaxUnchoked of them may come first in the sorted order.

RegularBegin ==
    /\ run = "select" /\ CanLock /\ Registered # {}
    /\ \E top \in SUBSET Registered :
        /\ Cardinality(top) = MaxUnchoked \/ (Cardinality(top) < MaxUnchoked /\ top = Registered)
        /\ round' = [top |-> top, rest |-> Registered \ top]
    /\ run' = "regular"
    /\ UNCHANGED <<conns, connVars, bcast, quit, stop>>

\* one turn of the loop; the lock is released after the last
RegularSend(c) ==
    /\ run = "regular"
    /\ IF round.top # {} THEN c \in round.top ELSE c \in round.rest
    /\ Send(c)
    /\ choked' = [choked EXCEPT ![c] = c \notin round.top]
    /\ round' = [top |-> round.top \ {c}, rest |-> round.rest \ {c}]
    /\ run' = IF round.top \cup round.rest = {c} THEN "select" ELSE "regular"
    /\ UNCHANGED <<conns, at, writing, closed, bcast, quit, stop>>

\* with nobody choked the round returns at once
OptimisticBegin ==
    /\ run = "select" /\ CanLock
    /\ \E c \in Registered : choked[c] /\ round' = [top |-> {c}, rest |-> {}]
    /\ run' = "optimistic"
    /\ UNCHANGED <<conns, connVars, bcast, quit, stop>>

OptimisticSend(c) ==
    /\ run = "optimistic" /\ c \in round.top
    /\ Send(c)
    /\ choked' = [choked EXCEPT ![c] = FALSE]
    /\ round' = NoRound /\ run' = "select"
    /\ UNCHANGED <<conns, at, writing, closed, bcast, quit, stop>>

RunQuit ==
    /\ run = "select" /\ quit
    /\ run' = "exited"
    /\ UNCHANGED <<conns, connVars, round, bcast, quit, stop>>

----------------------------------------------------------------------------
\* BroadcastHave, called by the session's collector, and Stop, by the engine.

HaveBegin ==
    /\ bcast = {} /\ CanRLock
    /\ Registered # {}
    /\ bcast' = Registered
    /\ UNCHANGED <<conns, connVars, run, round, quit, stop>>

HaveSend(c) ==
    /\ c \in bcast
    /\ Send(c)
    /\ bcast' = bcast \ {c}
    /\ UNCHANGED <<conns, at, choked, writing, closed, run, round, quit, stop>>

\* Pause, Remove and Shutdown may each call it
StopQuit ==
    /\ stop \in {"none", "done"}
    /\ quit' = TRUE /\ stop' = "lock"
    /\ UNCHANGED <<conns, connVars, run, round, bcast>>

StopClose ==
    /\ stop = "lock" /\ CanLock
    /\ closed' = [c \in Conns |-> closed[c] \/ c \in Registered]
    /\ stop' = "done"
    /\ UNCHANGED <<conns, at, choked, queued, writing, run, round, bcast, quit>>

Next ==
    \/ \E c \in Conns : ConnStep(c) \/ RegularSend(c) \/ OptimisticSend(c) \/ HaveSend(c)
    \/ RegularBegin \/ OptimisticBegin \/ RunQuit
    \/ HaveBegin \/ StopQuit \/ StopClose

Spec == Init /\ [][Next]_vars

----------------------------------------------------------------------------
(***************************************************************************)
(* Scheduling.  A goroutine that can run does.  Waiting for m.mu or for    *)
(* room in a channel it is not overtaken for ever (sync.RWMutex starves    *)
(* neither readers nor writers, a channel serves its senders in order),    *)
(* hence SF for the goroutines that do either.  A dial and a write end by  *)
(* their deadlines.  A connection has to end when its goroutine has a      *)
(* reason of its own to return: awaitReady's deadline, a closed            *)
(* connection, m.quit in the download loop.  The tickers, the remote's     *)
(* messages, the begin of a broadcast and Stop are not promised.           *)
(***************************************************************************)
\* (mutant) the download loop without its <-m.quit case
EndsOnlyClosed(c) ==
    \/ at[c] = "await"
    \/ at[c] \in {"loop", "serve"} /\ closed[c]

HasToEnd(c) ==
    \/ at[c] = "await"
    \/ at[c] = "loop" /\ (quit \/ closed[c])
    \/ at[c] = "serve" /\ closed[c]

OwnStep(c) ==
    \/ c \in Outs /\ (DialFails(c) \/ Opened(c))
    \/ Register(c) \/ SendBitfield(c) \/ SendGreeting(c)
    \/ Ready(c) \/ (HasToEnd(c) /\ Ends(c))
    \/ Cleanup(c) \/ Close(c)

Fairness ==
    /\ \A c \in Conns :
        /\ SF_vars(OwnStep(c))
        /\ WF_vars(Write(c) \/ WriteFails(c) \/ WriterQuit(c))
    /\ SF_vars(\E c \in Conns : RegularSend(c) \/ OptimisticSend(c))
    /\ SF_vars(\E c \in Conns : HaveSend(c))

FairSpec == Spec /\ Fairness

----------------------------------------------------------------------------
(***************************************************************************)
(* Properties.                                                             *)
(***************************************************************************)

Live == {"hello", "greet", "await", "loop", "serve", "exit"}

\* Every variable stays in its type.
TypeOK ==
    /\ conns \in [Addrs -> Conns \cup {None}]
    /\ at \in [Conns -> Live \cup {"new", "dialing", "register", "close", "done"}]
    /\ choked \in [Conns -> BOOLEAN]
    /\ queued \in [Conns -> 0 .. OutboundCap]
    /\ writing \in [Conns -> BOOLEAN]
    /\ closed \in [Conns -> BOOLEAN]
    /\ run \in {"select", "regular", "optimistic", "exited"}
    /\ round \in [top : SUBSET Conns, rest : SUBSET Conns]
    /\ bcast \subseteq Conns
    /\ quit \in BOOLEAN /\ stop \in {"none", "lock", "done"}

\* The pool never exceeds maxConns, however many dials and accepts that all
\* found room finish together.
PoolBounded == Cardinality(Registered) <= MaxConns

\* No entry outlives its connection: what the map names, under its own
\* address, is a connection whose goroutine has not yet removed it, whatever
\* duplicate at that address came or went.
NoStaleEntry ==
    \A a \in Addrs : conns[a] # None =>
        AddrOf[conns[a]] = a /\ at[conns[a]] \in Live

\* While a round or a broadcast holds the lock and sends, the connections it
\* still has to reach stay in the pool.
RoundsStayRegistered == bcast \cup round.top \cup round.rest \subseteq Registered

\* A broadcast, and the collector with it, always comes to its end: no
\* connection can keep BroadcastHave waiting in Send for ever.
BroadcastReturns == bcast # {} ~> bcast = {}

\* A connection whose goroutine returns leaves the pool and is closed, and after
\* Stop every dialled connection returns, those still being dialled and
\* registered after Stop walked the pool included.
ConnectionsEnd ==
    /\ \A c \in Conns : at[c] = "exit" ~> at[c] = "done"
    /\ \A c \in Outs : quit /\ at[c] # "new" ~> at[c] = "done"

----------------------------------------------------------------------------
\* The inductive strengthening the proofs use.

\* a round is under way exactly while Run holds the lock, and then no
\* broadcast is
LockHeld ==
    /\ ~WriteLocked => round = NoRound
    /\ WriteLocked => bcast = {}

IInv == TypeOK /\ NoStaleEntry /\ RoundsStayRegistered /\ LockHeld

\* As long as writes do not fail, whoever holds m.mu and sends is not stuck:
\* each connection it has yet to reach has room, is closed, or has a write loop
\* that makes room.  This is why BroadcastReturns needs no more than fairness.
LockHolderGoesOn ==
    ~WriteMayFail => \A c \in bcast \cup round.top \cup round.rest :
        queued[c] < OutboundCap \/ closed[c] \/ (writing[c] /\ queued[c] > 0)

\* (inductive) from newConn until its Close a connection has a write loop, which
\* ends before only when Stop closed the connection
WriterLives ==
    ~WriteMayFail => \A c \in Conns :
        at[c] \in Live \cup {"register", "close"} => writing[c] \/ closed[c]

============================================================================

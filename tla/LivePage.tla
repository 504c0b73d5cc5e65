---------------------------- MODULE LivePage ----------------------------
(***************************************************************************)
(* How the page of the web client stays current (App.jsx): the effect that *)
(* keeps one WebSocket open and reconnects with backoff, the pushes of the *)
(* server's feed (server.go handleWebSocket), and refresh, which fetches   *)
(* the list and the figures side by side and may be under way several      *)
(* times at once.                                                          *)
(*                                                                         *)
(* What the server would answer is one number, version, that grows with    *)
(* every change; what the page shows is the version it got it from.  React *)
(* runs the effect again after its cleanup when StrictMode mounts the page *)
(* (main.jsx) and when a development build reloads a module; each run has  *)
(* its own socket, retries, reconnectTimer and unmounted.                  *)
(***************************************************************************)
EXTENDS Naturals, Sequences

CONSTANTS
    MaxMounts,    \* bound: runs of the effect
    MaxCalls,     \* bound: refreshes under way at once
    MaxVersion,   \* bound: changes of the server's state
    MaxOutages,   \* bound: stops of the server and broken connections
    WireCap,      \* bound: pushed messages under way on one socket
    MaxDelay      \* longest wait before a reconnect, in units of the shortest

ASSUME LivePageAssumption ==
    /\ MaxMounts \in Nat \ {0} /\ MaxCalls \in Nat \ {0}
    /\ MaxVersion \in Nat \ {0} /\ MaxDelay \in Nat \ {0}
    /\ MaxOutages \in Nat /\ WireCap \in Nat

Mounts == 1 .. MaxMounts
Calls == 1 .. MaxCalls
Versions == 0 .. MaxVersion      \* 0: nothing yet

\* every run of the effect refers to one socket, and the run that reconnects
\* replaces a closed one
Sockets == 1 .. MaxMounts + 1
NoSocket == 0

Parts == {"torrents", "stats"}

\* a fetch: not answered yet, answered with a version, or bound to fail
\* because the server is not there
Fetch == [at : {"idle", "asked", "answered", "lost"}, version : Versions]
At(s) == [at |-> s, version |-> 0]
Idle == [p \in Parts |-> At("idle")]

VARIABLES
    version,      \* the engine's state, as List and Stats would read it
    up,           \* the server runs
    outages,      \* outages so far
    call,         \* call[c]: the two fetches of a refresh
    shown,        \* shown[p]: version of the torrents and of the stats on the page
    pushed,       \* history: the version of the last message handled
    online,       \* the page says Connected
    mounts,       \* runs of the effect so far; the last is the mounted one
    unmounted,    \* unmounted[e], socket[e], timer[e]: the variables of
    socket,       \* run e of the effect; timer 0: none
    timer,
    backoff,      \* backoff[e]: the wait that its retries stands for
    ready,        \* ready[w]: the socket's readyState, CLOSED is "closed"
    owner,        \* owner[w]: the run whose handlers it has
    link,         \* link[w]: the server's end is there and its loop pushes
    wire          \* wire[w]: messages pushed and not yet handled

serverVars == <<version, up, outages>>
effectVars == <<mounts, unmounted, socket, backoff, timer>>
socketVars == <<ready, owner, link, wire>>
view == <<shown, pushed>>
vars == <<serverVars, call, view, online, effectVars, socketVars>>

----------------------------------------------------------------------------
(***************************************************************************)
(* refresh: Promise.all of two fetches.  It fails with the first that      *)
(* fails and succeeds when both have answered, whatever began or ended     *)
(* meanwhile.                                                              *)
(***************************************************************************)
Fetches == [p \in Parts |-> At(IF up THEN "asked" ELSE "lost")]

Ask(c) ==
    /\ call[c] = Idle /\ \A d \in Calls : call[d] = Idle => c <= d
    /\ call' = [call EXCEPT ![c] = Fetches]

Refresh(c) ==
    /\ Ask(c)
    /\ UNCHANGED <<serverVars, view, online, effectVars, socketVars>>

\* server.go listTorrents and globalStats
Answer(c, p) ==
    /\ up
    /\ call[c][p].at = "asked"
    /\ call' = [call EXCEPT ![c][p] = [at |-> "answered", version |-> version]]
    /\ UNCHANGED <<serverVars, view, online, effectVars, socketVars>>

RefreshDone(c) ==
    /\ \A p \in Parts : call[c][p].at = "answered"
    /\ shown' = [p \in Parts |-> call[c][p].version]
    /\ call' = [call EXCEPT ![c] = Idle]
    /\ UNCHANGED <<serverVars, pushed, online, effectVars, socketVars>>

RefreshFails(c) ==
    /\ \E p \in Parts : call[c][p].at = "lost"
    /\ call' = [call EXCEPT ![c] = Idle]
    /\ UNCHANGED <<serverVars, view, online, effectVars, socketVars>>

----------------------------------------------------------------------------
(***************************************************************************)
(* The effect.                                                             *)
(***************************************************************************)

Free(w) == ready[w] = "closed" /\ \A e \in Mounts : socket[e] # w

\* new WebSocket, under the first number that is free; from is what
\* readyState was before
OpenSocket(e, w, from) ==
    /\ Free(w) /\ \A v \in Sockets : Free(v) => w <= v
    /\ socket' = [socket EXCEPT ![e] = w]
    /\ ready' = [from EXCEPT ![w] = "connecting"]
    /\ owner' = [owner EXCEPT ![w] = e]
    /\ UNCHANGED <<link, wire>>

\* mutant: the cleanup forgets socket.close()
KeepSocket(w) == ready

\* close() of a socket that is not closed yet
CloseSocket(w) ==
    IF ready[w] = "closed" THEN ready ELSE [ready EXCEPT ![w] = "closing"]

\* The cleanup of the mounted run, and the effect again.
Remount(w, c) ==
    /\ mounts < MaxMounts
    /\ mounts' = mounts + 1
    /\ unmounted' = [unmounted EXCEPT ![mounts] = TRUE]
    /\ timer' = [timer EXCEPT ![mounts] = 0]
    /\ Ask(c)
    /\ OpenSocket(mounts + 1, w, CloseSocket(socket[mounts]))
    /\ UNCHANGED <<serverVars, view, online, backoff>>

\* mutant: the handlers do not ask whether their run is mounted
Latest(w) == socket[owner[w]] = w

\* an event of w is for the socket of a mounted run
Live(w) == ~unmounted[owner[w]] /\ socket[owner[w]] = w

OnOpen(w) ==
    /\ up
    /\ ready[w] = "connecting"
    /\ ready' = [ready EXCEPT ![w] = "open"]
    /\ link' = [link EXCEPT ![w] = TRUE]
    /\ IF Live(w)
       THEN backoff' = [backoff EXCEPT ![owner[w]] = 1] /\ online' = TRUE
       ELSE UNCHANGED <<backoff, online>>
    /\ UNCHANGED <<serverVars, call, view, mounts, unmounted, socket, timer,
                   owner, wire>>

\* mutant: the wait grows without end
Uncapped(n) == 2 * n

\* the wait doubles with every retry, up to MaxDelay
Doubled(n) == IF 2 * n > MaxDelay THEN MaxDelay ELSE 2 * n

\* The browser gives up a connection that is refused, broken or closed here.
CloseDue(w) ==
    \/ ready[w] = "connecting" /\ ~up
    \/ ready[w] = "open" /\ ~link[w]
    \/ ready[w] = "closing"

Closed(w) ==
    /\ CloseDue(w)
    /\ ready' = [ready EXCEPT ![w] = "closed"]
    /\ link' = [link EXCEPT ![w] = FALSE]
    /\ wire' = [wire EXCEPT ![w] = <<>>]
    /\ owner' = [owner EXCEPT ![w] = 1]
    /\ UNCHANGED <<serverVars, call, view, mounts, unmounted, socket>>

\* mutant: onclose starts no timer
NoTimer(w) ==
    /\ Closed(w)
    /\ online' = IF Live(w) THEN FALSE ELSE online
    /\ UNCHANGED <<timer, backoff>>

OnClose(w) ==
    /\ Closed(w)
    /\ IF Live(w)
       THEN /\ online' = FALSE
            /\ timer' = [timer EXCEPT ![owner[w]] = backoff[owner[w]]]
            /\ backoff' = [backoff EXCEPT ![owner[w]] = Doubled(@)]
       ELSE UNCHANGED <<online, timer, backoff>>

\* reconnectTimer fires: connect
Reconnect(e, w) ==
    /\ timer[e] # 0
    /\ timer' = [timer EXCEPT ![e] = 0]
    /\ IF unmounted[e]
       THEN UNCHANGED <<socket, socketVars>>
       ELSE OpenSocket(e, w, ready)
    /\ UNCHANGED <<serverVars, call, view, online, mounts, unmounted, backoff>>

\* The browser hands messages to an open socket only; no handler asks
\* whether the socket is the live one.
OnMessage(w) ==
    /\ ready[w] = "open" /\ wire[w] # <<>>
    /\ shown' = [shown EXCEPT ![Head(wire[w]).type] = Head(wire[w]).version]
    /\ pushed' = Head(wire[w]).version
    /\ wire' = [wire EXCEPT ![w] = Tail(@)]
    /\ UNCHANGED <<serverVars, call, online, effectVars, ready, owner, link>>

----------------------------------------------------------------------------
(***************************************************************************)
(* The server and the network.                                             *)
(***************************************************************************)

\* a second has passed in the loop of handleWebSocket
Tick(w) ==
    /\ link[w]
    /\ Len(wire[w]) + 2 <= WireCap
    /\ wire' = [wire EXCEPT ![w] = @ \o <<[type |-> "stats", version |-> version],
                                         [type |-> "torrents", version |-> version]>>]
    /\ UNCHANGED <<serverVars, call, view, online, effectVars, ready, owner, link>>

Change ==
    /\ up /\ version < MaxVersion
    /\ version' = version + 1
    /\ UNCHANGED <<up, outages, call, view, online, effectVars, socketVars>>

\* What is sent before a connection breaks may still arrive.
Break(w) ==
    /\ link[w] /\ outages < MaxOutages
    /\ outages' = outages + 1
    /\ link' = [link EXCEPT ![w] = FALSE]
    /\ UNCHANGED <<version, up, call, view, online, effectVars, ready, owner, wire>>

StopServer ==
    /\ up /\ outages < MaxOutages
    /\ outages' = outages + 1
    /\ up' = FALSE
    /\ link' = [w \in Sockets |-> FALSE]
    /\ call' = [c \in Calls |-> [p \in Parts |->
                   IF \E q \in Parts : call[c][q].at = "asked" THEN At("lost") ELSE call[c][p]]]
    /\ UNCHANGED <<version, view, online, effectVars, ready, owner, wire>>

StartServer ==
    /\ ~up
    /\ up' = TRUE
    /\ UNCHANGED <<version, outages, call, view, online, effectVars, socketVars>>

----------------------------------------------------------------------------

Init ==
    /\ version = 1 /\ up = TRUE /\ outages = 0
    /\ call = [c \in Calls |-> IF c = 1 THEN Fetches ELSE Idle]
    /\ shown = [p \in Parts |-> 0] /\ pushed = 0
    /\ online = FALSE
    /\ mounts = 1
    /\ unmounted = [e \in Mounts |-> FALSE]
    /\ socket = [e \in Mounts |-> IF e = 1 THEN 1 ELSE NoSocket]
    /\ backoff = [e \in Mounts |-> 1]
    /\ timer = [e \in Mounts |-> 0]
    /\ ready = [w \in Sockets |-> IF w = 1 THEN "connecting" ELSE "closed"]
    /\ owner = [w \in Sockets |-> 1]
    /\ link = [w \in Sockets |-> FALSE]
    /\ wire = [w \in Sockets |-> <<>>]

RefreshStep(c) == (\E p \in Parts : Answer(c, p)) \/ RefreshDone(c) \/ RefreshFails(c)
SocketStep(w) == OnOpen(w) \/ OnClose(w)
TimerStep(e) == \E w \in Sockets : Reconnect(e, w)

Next ==
    \/ \E c \in Calls : Refresh(c) \/ RefreshStep(c)
    \/ \E w \in Sockets, c \in Calls : Remount(w, c)
    \/ \E w \in Sockets : SocketStep(w) \/ OnMessage(w) \/ Tick(w) \/ Break(w)
    \/ \E e \in Mounts : TimerStep(e)
    \/ Change \/ StopServer \/ StartServer

Spec == Init /\ [][Next]_vars

\* The browser delivers events and fires timers, and the server's handlers
\* and tickers run.  Nothing is asked of the user, of StrictMode, or of who
\* stops and starts the server.
Fairness ==
    /\ \A c \in Calls : WF_vars(RefreshStep(c))
    /\ \A w \in Sockets : WF_vars(SocketStep(w)) /\ WF_vars(OnMessage(w)) /\ WF_vars(Tick(w))
    /\ \A e \in Mounts : WF_vars(TimerStep(e))

FairSpec == Spec /\ Fairness

----------------------------------------------------------------------------
(***************************************************************************)
(* Properties.                                                             *)
(***************************************************************************)

Message == [type : Parts, version : Versions]

\* Every variable stays in its type.
TypeOK ==
    /\ version \in Versions /\ up \in BOOLEAN /\ outages \in 0 .. MaxOutages
    /\ call \in [Calls -> [Parts -> Fetch]]
    /\ shown \in [Parts -> Versions] /\ pushed \in Versions
    /\ online \in BOOLEAN
    /\ mounts \in Mounts
    /\ unmounted \in [Mounts -> BOOLEAN]
    /\ socket \in [Mounts -> Sockets \cup {NoSocket}]
    /\ backoff \in [Mounts -> 1 .. MaxDelay] /\ timer \in [Mounts -> 0 .. MaxDelay]
    /\ ready \in [Sockets -> {"connecting", "open", "closing", "closed"}]
    /\ owner \in [Sockets -> Mounts]
    /\ link \in [Sockets -> BOOLEAN]
    /\ wire \in [Sockets -> Seq(Message)]

\* The mounted run has a connection or, exactly when it has none, a timer
\* that will make one, and only one of each; a run that was cleaned up
\* (App.jsx:63-67) connects no more and keeps no connection, although its
\* socket's events still arrive (App.jsx:41-43).
OneConnection ==
    /\ socket[mounts] # NoSocket
    /\ timer[mounts] # 0 <=> ready[socket[mounts]] = "closed"
    /\ \A e \in 1 .. mounts - 1 : timer[e] = 0
    /\ \A w \in Sockets : ready[w] \in {"connecting", "open"} => w = socket[mounts]

\* The page says Connected while its connection is open, and stops saying so
\* when it is gone: the close of a discarded socket changes neither
\* (App.jsx:44 and 50).
OnlineIsLive ==
    /\ ready[socket[mounts]] = "open" => online
    /\ online => ready[socket[mounts]] # "closed"

\* Pushes reach the page in the order the engine changed: what an open
\* socket still holds is never older than what a push showed before, on this
\* connection or an earlier one, although no handler of a message asks whose
\* socket it came from (App.jsx:34-37).
PushesInOrder ==
    \A w \in Sockets : ready[w] = "open" =>
        \A i \in DOMAIN wire[w] : wire[w][i].version >= pushed

\* App.jsx:51-54: whatever connections dropped and whichever late refresh
\* overwrote what, a page whose server stays up in the end shows the server's
\* state and says Connected.
PageCatchesUp ==
    <>[]up => <>[](online /\ \A p \in Parts : shown[p] = version)

\* The page is never left without a way to its server: the mounted run has a
\* socket that is connecting or open, whose events reach it, or its timer is
\* set, and there is a socket for it to open (App.jsx:46-54).
NeverStranded ==
    LET w == socket[mounts] IN
    \/ ready[w] \in {"connecting", "open"} /\ Live(w)
    \/ /\ ready[w] = "closed" /\ timer[mounts] # 0 /\ ~unmounted[mounts]
       /\ \E v \in Sockets : Free(v)

\* a run never closes the socket it has while it is mounted
NotClosing == ready[socket[mounts]] # "closing"

\* A push never takes the page back to what it showed of the engine before
\* (App.jsx:34-37, server.go handleWebSocket), whichever sockets came and went.
PushesNeverGoBack == [][pushed' >= pushed]_vars

----------------------------------------------------------------------------
\* The inductive strengthening the proofs use.

\* which run has which socket: a run owns the events of its own socket only,
\* and only the mounted one is neither cleaned up nor still to come
Ownership ==
    /\ \A e \in Mounts : e > mounts => socket[e] = NoSocket /\ timer[e] = 0
    /\ \A e \in Mounts : unmounted[e] <=> e < mounts
    /\ \A e, f \in Mounts : socket[e] = socket[f] /\ socket[e] # NoSocket => e = f
    /\ \A w \in Sockets : ready[w] # "closed" => socket[owner[w]] = w

\* messages are under way on a connection only, oldest first
WireOrder ==
    /\ pushed <= version
    /\ \A w \in Sockets :
        /\ link[w] => ready[w] \in {"open", "closing"}
        /\ ready[w] \in {"connecting", "closed"} => wire[w] = <<>>
        /\ \A i \in DOMAIN wire[w] : wire[w][i].version <= version
        /\ \A i, j \in DOMAIN wire[w] : i <= j => wire[w][i].version <= wire[w][j].version

IInv == TypeOK /\ Ownership /\ OneConnection /\ OnlineIsLive /\ WireOrder /\ PushesInOrder

============================================================================

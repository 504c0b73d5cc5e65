-------------------------- MODULE LivePageProofs --------------------------
(***************************************************************************)
(* Proofs of LivePage's invariants, for any number of runs of the effect,  *)
(* refreshes, changes, outages and messages: TypeOK and Ownership with     *)
(* OneConnection are inductive; OnlineIsLive and the order of the messages *)
(* (WireOrder, PushesInOrder) follow on top of them.                       *)
(***************************************************************************)
EXTENDS LivePage, TLAPS, SequenceTheorems, FiniteSetTheorems

ReadyStates == {"connecting", "open", "closing", "closed"}

LEMMA Bounds ==
    /\ MaxMounts \in Nat \ {0} /\ MaxCalls \in Nat \ {0} /\ MaxDelay \in Nat \ {0}
    /\ MaxVersion \in Nat \ {0} /\ MaxOutages \in Nat
    /\ 1 \in Mounts /\ 1 \in Sockets /\ NoSocket \notin Sockets
    /\ Mounts \subseteq Nat /\ Sockets \subseteq Nat
BY LivePageAssumption DEF Mounts, Sockets, NoSocket

----------------------------------------------------------------------------
\* Types.

LEMMA FetchTypes ==
    /\ \A s \in {"idle", "asked", "answered", "lost"} : At(s) \in Fetch
    /\ Idle \in [Parts -> Fetch]
    /\ Fetches \in [Parts -> Fetch]
<1>1. \A s \in {"idle", "asked", "answered", "lost"} : At(s) \in Fetch
    BY Bounds DEF At, Fetch, Versions
<1> QED BY <1>1 DEF Idle, Fetches

LEMMA TypeInit == Init => TypeOK
<1> SUFFICES ASSUME Init PROVE TypeOK
    OBVIOUS
<1>1. /\ version \in Versions /\ up \in BOOLEAN /\ outages \in 0 .. MaxOutages
      /\ shown \in [Parts -> Versions] /\ pushed \in Versions
      /\ online \in BOOLEAN /\ mounts \in Mounts
    <2>1. 1 \in Versions /\ 0 \in Versions /\ 0 \in 0 .. MaxOutages
        BY Bounds DEF Versions
    <2> QED BY <2>1, Bounds DEF Init
<1>2. call \in [Calls -> [Parts -> Fetch]]
    BY FetchTypes DEF Init
<1>3. /\ unmounted \in [Mounts -> BOOLEAN]
      /\ socket \in [Mounts -> Sockets \cup {NoSocket}]
      /\ backoff \in [Mounts -> 1 .. MaxDelay] /\ timer \in [Mounts -> 0 .. MaxDelay]
    BY Bounds DEF Init
<1>4. /\ ready \in [Sockets -> ReadyStates]
      /\ owner \in [Sockets -> Mounts]
      /\ link \in [Sockets -> BOOLEAN]
    BY Bounds DEF Init, ReadyStates
<1>5. wire \in [Sockets -> Seq(Message)]
    BY EmptySeq DEF Init
<1> QED BY <1>1, <1>2, <1>3, <1>4, <1>5 DEF TypeOK, ReadyStates

LEMMA OpenSocketType ==
    ASSUME TypeOK, NEW e \in Mounts, NEW w \in Sockets,
           NEW from \in [Sockets -> ReadyStates], OpenSocket(e, w, from)
    PROVE  /\ socket' \in [Mounts -> Sockets \cup {NoSocket}]
           /\ ready' \in [Sockets -> ReadyStates]
           /\ owner' \in [Sockets -> Mounts]
           /\ UNCHANGED <<link, wire>>
BY DEF OpenSocket, TypeOK, ReadyStates

LEMMA CloseSocketType ==
    ASSUME TypeOK, NEW w \in Sockets
    PROVE  CloseSocket(w) \in [Sockets -> ReadyStates]
BY DEF CloseSocket, TypeOK, ReadyStates

\* the refreshes, the server and the network
LEMMA TypeCalls ==
    ASSUME TypeOK, NEW c \in Calls, Refresh(c) \/ RefreshStep(c)
    PROVE  TypeOK'
<1> USE DEF serverVars, view, effectVars, socketVars
<1>1. CASE Refresh(c)
    <2>1. call' \in [Calls -> [Parts -> Fetch]]
        BY <1>1, FetchTypes DEF Refresh, Ask, TypeOK
    <2> QED BY <1>1, <2>1 DEF Refresh, TypeOK
<1>2. ASSUME NEW p \in Parts, Answer(c, p) PROVE TypeOK'
    <2>1. call' \in [Calls -> [Parts -> Fetch]]
        BY <1>2 DEF Answer, TypeOK, Fetch
    <2> QED BY <1>2, <2>1 DEF Answer, TypeOK
<1>3. CASE RefreshDone(c)
    <2>1. call' \in [Calls -> [Parts -> Fetch]]
        BY <1>3, FetchTypes DEF RefreshDone, TypeOK
    <2>2. shown' \in [Parts -> Versions]
        BY <1>3 DEF RefreshDone, TypeOK, Fetch
    <2> QED BY <1>3, <2>1, <2>2 DEF RefreshDone, TypeOK
<1>4. CASE RefreshFails(c)
    <2>1. call' \in [Calls -> [Parts -> Fetch]]
        BY <1>4, FetchTypes DEF RefreshFails, TypeOK
    <2> QED BY <1>4, <2>1 DEF RefreshFails, TypeOK
<1> QED BY <1>1, <1>2, <1>3, <1>4 DEF RefreshStep

LEMMA TypeServer ==
    ASSUME TypeOK, Change \/ StopServer \/ StartServer
    PROVE  TypeOK'
<1> USE DEF serverVars, view, effectVars, socketVars
<1>1. CASE Change
    <2>1. version' \in Versions
        BY <1>1, Bounds DEF Change, TypeOK, Versions
    <2> QED BY <1>1, <2>1 DEF Change, TypeOK
<1>2. CASE StartServer
    BY <1>2 DEF StartServer, TypeOK
<1>3. CASE StopServer
    <2>1. call' \in [Calls -> [Parts -> Fetch]]
        BY <1>3, FetchTypes DEF StopServer, TypeOK
    <2>2. outages' \in 0 .. MaxOutages
        BY <1>3, Bounds DEF StopServer, TypeOK
    <2> QED BY <1>3, <2>1, <2>2 DEF StopServer, TypeOK
<1> QED BY <1>1, <1>2, <1>3

LEMMA TypeSocket ==
    ASSUME TypeOK, NEW w \in Sockets, SocketStep(w) \/ OnMessage(w) \/ Tick(w) \/ Break(w)
    PROVE  TypeOK'
<1> USE DEF serverVars, view, effectVars, socketVars
<1>1. CASE OnOpen(w)
    <2>1. ready' \in [Sockets -> ReadyStates] /\ link' \in [Sockets -> BOOLEAN]
        BY <1>1 DEF OnOpen, TypeOK, ReadyStates
    <2>2. backoff' \in [Mounts -> 1 .. MaxDelay] /\ online' \in BOOLEAN
        <3>1. 1 \in 1 .. MaxDelay /\ backoff \in [Mounts -> 1 .. MaxDelay] /\ online \in BOOLEAN
            BY Bounds DEF TypeOK
        <3> QED BY <1>1, <3>1 DEF OnOpen
    <2> QED BY <1>1, <2>1, <2>2 DEF OnOpen, TypeOK, ReadyStates
<1>2. CASE OnClose(w)
    <2>1. /\ ready' \in [Sockets -> ReadyStates]
          /\ owner' \in [Sockets -> Mounts]
          /\ link' \in [Sockets -> BOOLEAN]
        BY <1>2, Bounds DEF OnClose, Closed, TypeOK, ReadyStates
    <2>2. wire' \in [Sockets -> Seq(Message)]
        BY <1>2, EmptySeq DEF OnClose, Closed, TypeOK
    <2>3. /\ online' \in BOOLEAN
          /\ timer' \in [Mounts -> 0 .. MaxDelay]
          /\ backoff' \in [Mounts -> 1 .. MaxDelay]
        <3>1. \A n \in 1 .. MaxDelay : n \in 0 .. MaxDelay /\ Doubled(n) \in 1 .. MaxDelay
            BY Bounds DEF Doubled
        <3>2. /\ backoff \in [Mounts -> 1 .. MaxDelay] /\ timer \in [Mounts -> 0 .. MaxDelay]
              /\ owner[w] \in Mounts /\ online \in BOOLEAN
            BY DEF TypeOK
        <3>3. CASE Live(w)
            <4>1. /\ online' = FALSE
                  /\ timer' = [timer EXCEPT ![owner[w]] = backoff[owner[w]]]
                  /\ backoff' = [backoff EXCEPT ![owner[w]] = Doubled(backoff[owner[w]])]
                BY <1>2, <3>3 DEF OnClose
            <4> QED BY <3>1, <3>2, <4>1
        <3>4. CASE ~Live(w)
            BY <1>2, <3>2, <3>4 DEF OnClose
        <3> QED BY <3>3, <3>4
    <2> QED BY <1>2, <2>1, <2>2, <2>3 DEF OnClose, Closed, TypeOK, ReadyStates
<1>3. CASE OnMessage(w)
    <2>1. wire[w] \in Seq(Message) /\ wire[w] # <<>>
        BY <1>3 DEF OnMessage, TypeOK
    <2>2. Head(wire[w]) \in Message /\ Tail(wire[w]) \in Seq(Message)
        BY <2>1, HeadTailProperties
    <2>3. Head(wire[w]).version \in Versions
        BY <2>2 DEF Message
    <2> QED BY <1>3, <2>2, <2>3 DEF OnMessage, TypeOK
<1>4. CASE Tick(w)
    <2>1. <<[type |-> "stats", version |-> version], [type |-> "torrents", version |-> version]>>
              \in Seq(Message)
        BY DEF Message, Parts, TypeOK
    <2>2. wire[w] \in Seq(Message)
        BY DEF TypeOK
    <2>3. wire[w] \o <<[type |-> "stats", version |-> version],
                       [type |-> "torrents", version |-> version]>> \in Seq(Message)
        BY <2>1, <2>2, ConcatProperties
    <2> QED BY <1>4, <2>3 DEF Tick, TypeOK
<1>5. CASE Break(w)
    <2>1. outages' \in 0 .. MaxOutages
        BY <1>5, Bounds DEF Break, TypeOK
    <2>2. link' \in [Sockets -> BOOLEAN]
        BY <1>5 DEF Break, TypeOK
    <2> QED BY <1>5, <2>1, <2>2 DEF Break, TypeOK
<1> QED BY <1>1, <1>2, <1>3, <1>4, <1>5 DEF SocketStep

LEMMA TypeEffect ==
    ASSUME TypeOK, OneConnection
    PROVE  /\ \A w \in Sockets, c \in Calls : Remount(w, c) => TypeOK'
           /\ \A e \in Mounts : TimerStep(e) => TypeOK'
<1> USE DEF serverVars, view, effectVars, socketVars
<1>1. ASSUME NEW w \in Sockets, NEW c \in Calls, Remount(w, c) PROVE TypeOK'
    <2>1. mounts + 1 \in Mounts /\ socket[mounts] \in Sockets
        BY <1>1, Bounds DEF Remount, Mounts, OneConnection, TypeOK
    <2>2. /\ socket' \in [Mounts -> Sockets \cup {NoSocket}]
          /\ ready' \in [Sockets -> ReadyStates]
          /\ owner' \in [Sockets -> Mounts]
          /\ UNCHANGED <<link, wire>>
        BY <1>1, <2>1, OpenSocketType, CloseSocketType DEF Remount
    <2>3. call' \in [Calls -> [Parts -> Fetch]]
        BY <1>1, FetchTypes DEF Remount, Ask, TypeOK
    <2>4. unmounted' \in [Mounts -> BOOLEAN] /\ timer' \in [Mounts -> 0 .. MaxDelay]
        BY <1>1, Bounds DEF Remount, TypeOK
    <2> QED BY <1>1, <2>1, <2>2, <2>3, <2>4 DEF Remount, TypeOK, ReadyStates
<1>2. ASSUME NEW e \in Mounts, NEW w \in Sockets, Reconnect(e, w) PROVE TypeOK'
    <2>1. /\ socket' \in [Mounts -> Sockets \cup {NoSocket}]
          /\ ready' \in [Sockets -> ReadyStates]
          /\ owner' \in [Sockets -> Mounts]
          /\ UNCHANGED <<link, wire>>
        <3>1. ready \in [Sockets -> ReadyStates]
            BY DEF TypeOK, ReadyStates
        <3>2. CASE unmounted[e]
            BY <1>2, <3>1, <3>2 DEF Reconnect, TypeOK
        <3>3. CASE ~unmounted[e]
            BY <1>2, <3>1, <3>3, OpenSocketType DEF Reconnect
        <3> QED BY <3>2, <3>3
    <2>2. timer' \in [Mounts -> 0 .. MaxDelay]
        BY <1>2, Bounds DEF Reconnect, TypeOK
    <2> QED BY <1>2, <2>1, <2>2 DEF Reconnect, TypeOK, ReadyStates
<1> QED BY <1>1, <1>2 DEF TimerStep

LEMMA TypeStep ==
    ASSUME TypeOK, OneConnection, [Next]_vars
    PROVE  TypeOK'
<1>1. CASE UNCHANGED vars
    BY <1>1 DEF vars, serverVars, view, effectVars, socketVars, TypeOK
<1> QED BY <1>1, TypeCalls, TypeServer, TypeSocket, TypeEffect DEF Next

----------------------------------------------------------------------------
\* One connection.

connVars == <<mounts, unmounted, socket, timer, ready, owner>>

\* the steps that leave the effect and the sockets' states as they are
LEMMA ConnFrame ==
    ASSUME \/ \E c \in Calls : Refresh(c) \/ RefreshStep(c)
           \/ \E w \in Sockets : OnMessage(w) \/ Tick(w) \/ Break(w)
           \/ Change \/ StopServer \/ StartServer
    PROVE  UNCHANGED <<connVars, online>>
BY DEF Refresh, RefreshStep, Answer, RefreshDone, RefreshFails, OnMessage, Tick, Break,
       Change, StopServer, StartServer, connVars, effectVars, socketVars

\* a socket that is not closed is the mounted run's or belongs to an old one
LEMMA WhoseSocket ==
    ASSUME TypeOK, Ownership, OneConnection, NEW w \in Sockets, ready[w] # "closed"
    PROVE  /\ Live(w) <=> owner[w] = mounts
           /\ Live(w) <=> w = socket[mounts]
<1>1. socket[owner[w]] = w /\ owner[w] \in Mounts /\ mounts \in Mounts /\ w # NoSocket
    BY Bounds DEF Ownership, TypeOK
<1>2. ~(owner[w] > mounts)
    BY <1>1 DEF Ownership
<1>3. unmounted[owner[w]] <=> owner[w] < mounts
    BY <1>1 DEF Ownership
<1>4. Live(w) <=> owner[w] = mounts
    <2>1. owner[w] \in Nat /\ mounts \in Nat
        BY <1>1, Bounds
    <2>2. owner[w] < mounts <=> owner[w] # mounts
        BY <1>2, <2>1
    <2> QED BY <1>1, <1>3, <2>2 DEF Live
<1>5. w = socket[mounts] <=> owner[w] = mounts
    BY <1>1 DEF Ownership
<1> QED BY <1>4, <1>5

LEMMA ConnOpen ==
    ASSUME TypeOK, Ownership, OneConnection, NEW w \in Sockets, OnOpen(w)
    PROVE  Ownership' /\ OneConnection'
<1>1. /\ ready[w] = "connecting" /\ ready' = [ready EXCEPT ![w] = "open"]
      /\ UNCHANGED <<mounts, unmounted, socket, timer, owner>>
    BY DEF OnOpen
<1>2. mounts \in Mounts /\ socket[mounts] \in Sockets /\ ready \in [Sockets -> ReadyStates]
    BY DEF OneConnection, TypeOK, ReadyStates
<1>3. \A v \in Sockets : ready'[v] = "closed" <=> ready[v] = "closed"
    BY <1>1, <1>2
<1>4. w = socket[mounts]
    BY <1>1 DEF OneConnection
<1>5. Ownership'
    BY <1>1, <1>3 DEF Ownership
<1>6. OneConnection'
    BY <1>1, <1>2, <1>3, <1>4 DEF OneConnection
<1> QED BY <1>5, <1>6

LEMMA ConnClose ==
    ASSUME TypeOK, Ownership, OneConnection, NEW w \in Sockets, OnClose(w)
    PROVE  Ownership' /\ OneConnection'
<1>1. /\ ready' = [ready EXCEPT ![w] = "closed"] /\ ready[w] # "closed"
      /\ owner' = [owner EXCEPT ![w] = 1]
      /\ UNCHANGED <<mounts, unmounted, socket>>
    BY DEF OnClose, Closed, CloseDue
<1>2. /\ mounts \in Mounts /\ socket[mounts] \in Sockets /\ ready \in [Sockets -> ReadyStates]
      /\ owner \in [Sockets -> Mounts] /\ timer \in [Mounts -> 0 .. MaxDelay]
      /\ backoff \in [Mounts -> 1 .. MaxDelay] /\ Mounts \subseteq Nat
    BY Bounds DEF OneConnection, TypeOK, ReadyStates
<1>3. /\ Live(w) <=> owner[w] = mounts
      /\ Live(w) <=> w = socket[mounts]
    BY <1>1, WhoseSocket
<1>4. CASE Live(w)
    <2>1. timer' = [timer EXCEPT ![mounts] = backoff[mounts]]
        BY <1>3, <1>4 DEF OnClose
    <2>2. timer'[mounts] # 0 /\ \A e \in Mounts : e # mounts => timer'[e] = timer[e]
        BY <1>2, <2>1, Bounds
    <2>3. Ownership'
        BY <1>1, <1>2, <2>2 DEF Ownership
    <2>4. \A e \in 1 .. mounts - 1 : e \in Mounts /\ e # mounts
        BY <1>2, Bounds DEF Mounts
    <2>5. OneConnection'
        BY <1>1, <1>2, <1>3, <1>4, <2>2, <2>4 DEF OneConnection
    <2> QED BY <2>3, <2>5
<1>5. CASE ~Live(w)
    <2>1. timer' = timer
        BY <1>5 DEF OnClose
    <2>2. Ownership'
        BY <1>1, <1>2, <2>1 DEF Ownership
    <2>3. OneConnection'
        BY <1>1, <1>2, <1>3, <1>5, <2>1 DEF OneConnection
    <2> QED BY <2>2, <2>3
<1> QED BY <1>4, <1>5

LEMMA ConnReconnect ==
    ASSUME TypeOK, Ownership, OneConnection, NEW e \in Mounts, NEW w \in Sockets,
           Reconnect(e, w)
    PROVE  /\ e = mounts /\ w = socket'[mounts] /\ ready'[w] = "connecting"
           /\ ready[w] = "closed" /\ mounts' = mounts
           /\ \A v \in Sockets : v # w => ready'[v] = ready[v]
           /\ Ownership' /\ OneConnection'
<1>1. timer[e] # 0 /\ timer' = [timer EXCEPT ![e] = 0] /\ UNCHANGED <<mounts, unmounted>>
    BY DEF Reconnect
<1>2. /\ mounts \in Mounts /\ socket[mounts] \in Sockets /\ ready \in [Sockets -> ReadyStates]
      /\ owner \in [Sockets -> Mounts] /\ timer \in [Mounts -> 0 .. MaxDelay]
      /\ socket \in [Mounts -> Sockets \cup {NoSocket}]
    BY DEF OneConnection, TypeOK, ReadyStates
<1>3. e = mounts
    <2>1. ~(e > mounts)
        BY <1>1 DEF Ownership
    <2>2. ~(e < mounts)
        BY <1>1, <1>2, Bounds DEF OneConnection, Mounts
    <2> QED BY <1>2, <2>1, <2>2, Bounds
<1>4. ~unmounted[e]
    BY <1>2, <1>3, Bounds DEF Ownership
<1>5. /\ ready[w] = "closed" /\ \A f \in Mounts : socket[f] # w
      /\ socket' = [socket EXCEPT ![e] = w]
      /\ ready' = [ready EXCEPT ![w] = "connecting"]
      /\ owner' = [owner EXCEPT ![w] = e]
    BY <1>4 DEF Reconnect, OpenSocket, Free
<1>6. ready[socket[mounts]] = "closed"
    BY <1>1, <1>3 DEF OneConnection
<1>7. /\ socket'[mounts] = w /\ \A f \in Mounts : f # mounts => socket'[f] = socket[f]
      /\ ready'[w] = "connecting" /\ \A v \in Sockets : v # w => ready'[v] = ready[v]
      /\ owner'[w] = mounts /\ \A v \in Sockets : v # w => owner'[v] = owner[v]
      /\ timer'[mounts] = 0 /\ \A f \in Mounts : f # mounts => timer'[f] = timer[f]
    BY <1>1, <1>2, <1>3, <1>5
<1>8. Ownership'
    <2>1. \A v \in Sockets : ready'[v] # "closed" => socket'[owner'[v]] = v
        <3> SUFFICES ASSUME NEW v \in Sockets, ready'[v] # "closed"
                     PROVE  socket'[owner'[v]] = v
            OBVIOUS
        <3>1. CASE v = w
            BY <1>7, <3>1
        <3>2. CASE v # w
            <4>1. ready[v] # "closed" /\ owner'[v] = owner[v] /\ owner[v] \in Mounts
                BY <1>2, <1>7, <3>2
            <4>2. socket[owner[v]] = v
                BY <4>1 DEF Ownership
            <4>3. owner[v] # mounts
                BY <1>6, <4>1, <4>2
            <4> QED BY <1>7, <4>1, <4>2, <4>3
        <3> QED BY <3>1, <3>2
    <2>2. \A f, g \in Mounts : socket'[f] = socket'[g] /\ socket'[f] # NoSocket => f = g
        BY <1>5, <1>7 DEF Ownership
    <2>3. \A f \in Mounts : f > mounts => socket'[f] = NoSocket /\ timer'[f] = 0
        BY <1>2, <1>7, Bounds DEF Ownership
    <2> QED BY <1>1, <2>1, <2>2, <2>3 DEF Ownership
<1>9. OneConnection'
    <2>1. \A f \in 1 .. mounts - 1 : f \in Mounts /\ f # mounts
        BY <1>2, Bounds DEF Mounts
    <2>2. w # NoSocket
        BY Bounds
    <2> QED BY <1>1, <1>2, <1>6, <1>7, <2>1, <2>2 DEF OneConnection
<1> QED BY <1>1, <1>3, <1>5, <1>7, <1>8, <1>9

LEMMA ConnRemount ==
    ASSUME TypeOK, Ownership, OneConnection, NEW w \in Sockets, NEW c \in Calls,
           Remount(w, c)
    PROVE  /\ w = socket'[mounts'] /\ ready'[w] = "connecting" /\ ready[w] = "closed"
           /\ \A v \in Sockets : v # w => ready'[v] \in {"closing", "closed"}
           /\ \A v \in Sockets : v # w /\ ready'[v] # "closing" => ready'[v] = ready[v]
           /\ \A v \in Sockets : v # w /\ ready[v] = "closed" => ready'[v] = "closed"
           /\ Ownership' /\ OneConnection'
<1> DEFINE n == mounts + 1
           old == socket[mounts]
<1>1. /\ mounts' = n /\ mounts < MaxMounts
      /\ unmounted' = [unmounted EXCEPT ![mounts] = TRUE]
      /\ timer' = [timer EXCEPT ![mounts] = 0]
      /\ ready[w] = "closed" /\ \A f \in Mounts : socket[f] # w
      /\ socket' = [socket EXCEPT ![n] = w]
      /\ ready' = [CloseSocket(old) EXCEPT ![w] = "connecting"]
      /\ owner' = [owner EXCEPT ![w] = n]
    BY DEF Remount, OpenSocket, Free
<1>2. /\ mounts \in Mounts /\ n \in Mounts /\ n # mounts /\ old \in Sockets
      /\ ready \in [Sockets -> ReadyStates] /\ owner \in [Sockets -> Mounts]
      /\ timer \in [Mounts -> 0 .. MaxDelay] /\ unmounted \in [Mounts -> BOOLEAN]
      /\ socket \in [Mounts -> Sockets \cup {NoSocket}]
    <2>1. mounts \in Mounts
        BY DEF TypeOK
    <2>2. n \in Mounts /\ n # mounts
        BY <1>1, <2>1, Bounds DEF Mounts
    <2>3. old \in Sockets
        BY <2>1 DEF OneConnection, TypeOK
    <2> QED BY <2>1, <2>2, <2>3 DEF TypeOK, ReadyStates
<1> HIDE DEF n, old
<1>3. /\ CloseSocket(old) \in [Sockets -> ReadyStates]
      /\ \A v \in Sockets : CloseSocket(old)[v] = "closed" <=> ready[v] = "closed"
      /\ \A v \in Sockets : v # old => CloseSocket(old)[v] = ready[v]
      /\ CloseSocket(old)[old] \in {"closing", "closed"}
    BY <1>2 DEF CloseSocket, ReadyStates
<1>4. old # w /\ \A v \in Sockets : v # old => ready[v] \in {"closing", "closed"}
    BY <1>1, <1>2 DEF OneConnection, ReadyStates, old
<1>5. /\ socket'[n] = w /\ \A f \in Mounts : f # n => socket'[f] = socket[f]
      /\ owner'[w] = n /\ \A v \in Sockets : v # w => owner'[v] = owner[v]
      /\ timer'[mounts] = 0 /\ \A f \in Mounts : f # mounts => timer'[f] = timer[f]
      /\ unmounted'[mounts] /\ \A f \in Mounts : f # mounts => unmounted'[f] = unmounted[f]
      /\ ready'[w] = "connecting" /\ \A v \in Sockets : v # w => ready'[v] = CloseSocket(old)[v]
    BY <1>1, <1>2, <1>3
<1>6. \A v \in Sockets : v # w => /\ ready'[v] \in {"closing", "closed"}
                                  /\ ready'[v] # "closing" => ready'[v] = ready[v]
                                  /\ ready[v] = "closed" => ready'[v] = "closed"
    BY <1>3, <1>4, <1>5
<1>7. \A f \in Mounts : /\ f > n => f > mounts /\ f # n
                        /\ f < n <=> f < mounts \/ f = mounts
                        /\ f \in 1 .. n - 1 => f = mounts \/ f \in 1 .. mounts - 1
    BY <1>2, Bounds DEF n, Mounts
<1>8. Ownership'
    <2>1. \A f \in Mounts : f > n => socket'[f] = NoSocket /\ timer'[f] = 0
        BY <1>2, <1>5, <1>7, Bounds DEF Ownership
    <2>2. \A f \in Mounts : unmounted'[f] <=> f < n
        BY <1>2, <1>5, <1>7 DEF Ownership
    <2>3. \A f, g \in Mounts : socket'[f] = socket'[g] /\ socket'[f] # NoSocket => f = g
        BY <1>1, <1>5 DEF Ownership
    <2>4. \A v \in Sockets : ready'[v] # "closed" => socket'[owner'[v]] = v
        <3> SUFFICES ASSUME NEW v \in Sockets, ready'[v] # "closed"
                     PROVE  socket'[owner'[v]] = v
            OBVIOUS
        <3>1. CASE v = w
            BY <1>5, <3>1
        <3>2. CASE v # w
            <4>1. ready[v] # "closed" /\ owner'[v] = owner[v] /\ owner[v] \in Mounts
                BY <1>2, <1>5, <1>6, <3>2
            <4>2. socket[owner[v]] = v /\ v # NoSocket
                BY <4>1, Bounds DEF Ownership
            <4>3. socket[n] = NoSocket
                BY <1>2, Bounds DEF Ownership, n
            <4> QED BY <1>5, <4>1, <4>2, <4>3
        <3> QED BY <3>1, <3>2
    <2> QED BY <1>1, <2>1, <2>2, <2>3, <2>4 DEF Ownership
<1>9. OneConnection'
    <2>1. timer'[n] = 0
        BY <1>2, <1>5, Bounds DEF Ownership, n
    <2>2. \A f \in 1 .. n - 1 : f \in Mounts /\ timer'[f] = 0
        <3> SUFFICES ASSUME NEW f \in 1 .. n - 1 PROVE f \in Mounts /\ timer'[f] = 0
            OBVIOUS
        <3>1. f \in Mounts
            BY <1>2, Bounds DEF Mounts
        <3>2. CASE f = mounts
            BY <1>5, <3>1, <3>2
        <3>3. CASE f # mounts
            BY <1>5, <1>7, <3>1, <3>3 DEF OneConnection
        <3> QED BY <3>1, <3>2, <3>3
    <2> QED BY <1>1, <1>5, <1>6, <2>1, <2>2, Bounds DEF OneConnection
<1> QED BY <1>1, <1>5, <1>6, <1>8, <1>9

LEMMA ConnStep ==
    ASSUME TypeOK, Ownership, OneConnection, [Next]_vars
    PROVE  Ownership' /\ OneConnection'
<1>1. CASE UNCHANGED connVars
    BY <1>1 DEF connVars, Ownership, OneConnection
<1>2. CASE UNCHANGED vars
    BY <1>1, <1>2 DEF vars, connVars, effectVars, socketVars
<1> QED BY <1>1, <1>2, ConnFrame, ConnOpen, ConnClose, ConnReconnect, ConnRemount
        DEF Next, SocketStep, TimerStep, connVars

----------------------------------------------------------------------------
\* What the page says of its connection.

LEMMA OnlineStep ==
    ASSUME TypeOK, Ownership, OneConnection, OnlineIsLive, [Next]_vars
    PROVE  OnlineIsLive'
<1>0. mounts \in Mounts /\ socket[mounts] \in Sockets /\ ready \in [Sockets -> ReadyStates]
    BY DEF OneConnection, TypeOK, ReadyStates
<1>1. CASE UNCHANGED <<connVars, online>>
    BY <1>1 DEF connVars, OnlineIsLive
<1>2. ASSUME NEW w \in Sockets, OnOpen(w) PROVE OnlineIsLive'
    <2>1. w = socket[mounts] /\ ready[w] # "closed"
        BY <1>2 DEF OnOpen, OneConnection
    <2>2. online' /\ ready'[w] = "open" /\ UNCHANGED <<mounts, socket>>
        BY <1>0, <1>2, <2>1, WhoseSocket DEF OnOpen
    <2> QED BY <2>1, <2>2 DEF OnlineIsLive
<1>3. ASSUME NEW w \in Sockets, OnClose(w) PROVE OnlineIsLive'
    <2>1. /\ ready[w] # "closed" /\ ready' = [ready EXCEPT ![w] = "closed"]
          /\ UNCHANGED <<mounts, socket>>
        BY <1>3 DEF OnClose, Closed, CloseDue
    <2>2. Live(w) <=> w = socket[mounts]
        BY <2>1, WhoseSocket
    <2>3. IF Live(w) THEN ~online' ELSE online' = online
        BY <1>3 DEF OnClose
    <2> QED BY <1>0, <2>1, <2>2, <2>3 DEF OnlineIsLive
<1>4. ASSUME NEW e \in Mounts, NEW w \in Sockets, Reconnect(e, w) PROVE OnlineIsLive'
    <2>1. ready'[socket'[mounts']] = "connecting"
        BY <1>4, ConnReconnect
    <2> QED BY <2>1 DEF OnlineIsLive
<1>5. ASSUME NEW w \in Sockets, NEW c \in Calls, Remount(w, c) PROVE OnlineIsLive'
    <2>1. ready'[socket'[mounts']] = "connecting"
        BY <1>5, ConnRemount
    <2> QED BY <2>1 DEF OnlineIsLive
<1>6. CASE UNCHANGED vars
    BY <1>1, <1>6 DEF vars, connVars, effectVars, socketVars
<1> QED BY <1>1, <1>2, <1>3, <1>4, <1>5, <1>6, ConnFrame DEF Next, SocketStep, TimerStep

----------------------------------------------------------------------------
\* The order of the messages.

pushVars == <<version, pushed, ready, link, wire>>

LEMMA PushFrame ==
    ASSUME WireOrder, PushesInOrder, UNCHANGED pushVars
    PROVE  WireOrder' /\ PushesInOrder'
BY DEF WireOrder, PushesInOrder, pushVars

\* what the other steps do to the sockets
LEMMA PushSockets ==
    ASSUME TypeOK, WireOrder, PushesInOrder, UNCHANGED <<version, pushed>>,
           \A w \in Sockets :
               /\ link'[w] => ready'[w] \in {"open", "closing"}
               /\ ready'[w] \in {"connecting", "closed"} => wire'[w] = <<>>
               /\ wire'[w] = wire[w] \/ wire'[w] = <<>>
               /\ ready'[w] = "open" => ready[w] = "open" \/ wire'[w] = <<>>
    PROVE  WireOrder' /\ PushesInOrder'
BY DEF WireOrder, PushesInOrder

\* messages appended to a wire, none older than those on it
LEMMA PushTick ==
    ASSUME TypeOK, WireOrder, PushesInOrder, NEW w \in Sockets, Tick(w)
    PROVE  WireOrder' /\ PushesInOrder'
<1> DEFINE new == <<[type |-> "stats", version |-> version],
                    [type |-> "torrents", version |-> version]>>
           n == Len(wire[w])
           z == wire[w] \o new
<1>1. /\ link[w] /\ wire' = [wire EXCEPT ![w] = z]
      /\ UNCHANGED <<version, pushed, ready, link>>
    BY DEF Tick, serverVars, view
<1>2. /\ wire \in [Sockets -> Seq(Message)] /\ wire[w] \in Seq(Message)
      /\ new \in Seq(Message) /\ Len(new) = 2
      /\ new[1].version = version /\ new[2].version = version
      /\ version \in Nat /\ pushed \in Nat
    <2>1. version \in Versions /\ pushed \in Versions /\ Versions \subseteq Nat
        BY Bounds DEF TypeOK, Versions
    <2>2. /\ [type |-> "stats", version |-> version] \in Message
          /\ [type |-> "torrents", version |-> version] \in Message
        BY <2>1 DEF Message, Parts
    <2>3. wire \in [Sockets -> Seq(Message)]
        BY DEF TypeOK
    <2> QED BY <2>1, <2>2, <2>3
<1>3. z \in Seq(Message) /\ n \in Nat /\ DOMAIN wire[w] = 1 .. n /\ DOMAIN z = 1 .. n + 2
    BY <1>2, ConcatProperties
<1>4. \A i \in 1 .. n + 2 : z[i] = IF i <= n THEN wire[w][i] ELSE new[i - n]
    BY <1>2, <1>3, ConcatProperties
<1> HIDE DEF new, z
<1>5. /\ \A i \in 1 .. n : i \in 1 .. n + 2 /\ z[i] = wire[w][i] /\ z[i].version \in Nat
      /\ z[n + 1].version = version /\ z[n + 2].version = version
    <2>1. \A i \in 1 .. n : wire[w][i] \in Message
        BY <1>2, <1>3
    <2>2. \A i \in 1 .. n : i \in 1 .. n + 2 /\ z[i] = wire[w][i]
        BY <1>3, <1>4
    <2>3. z[n + 1] = new[1] /\ z[n + 2] = new[2]
        BY <1>3, <1>4
    <2> QED BY <1>2, <2>1, <2>2, <2>3 DEF Message, Versions
<1>6. \A i \in 1 .. n : z[i].version <= version
    BY <1>3, <1>5 DEF WireOrder
<1>7. \A i \in 1 .. n + 2 : z[i].version <= version
    <2>1. \A i \in 1 .. n + 2 : i \in 1 .. n \/ i = n + 1 \/ i = n + 2
        BY <1>3
    <2> QED BY <1>2, <1>5, <1>6, <2>1
<1>8. \A i, j \in 1 .. n + 2 : i <= j => z[i].version <= z[j].version
    <2> SUFFICES ASSUME NEW i \in 1 .. n + 2, NEW j \in 1 .. n + 2, i <= j
                 PROVE  z[i].version <= z[j].version
        OBVIOUS
    <2>1. CASE j \in 1 .. n
        <3>1. i \in 1 .. n
            BY <1>3, <2>1
        <3> QED BY <1>3, <1>5, <2>1, <3>1 DEF WireOrder
    <2>2. CASE j \notin 1 .. n
        <3>1. j = n + 1 \/ j = n + 2
            BY <1>3, <2>2
        <3>2. z[j].version = version
            BY <1>5, <3>1
        <3> QED BY <1>7, <3>2
    <2> QED BY <2>1, <2>2
<1>9. WireOrder'
    <2>1. \A v \in Sockets : v # w => wire'[v] = wire[v]
        BY <1>1, <1>2
    <2>2. wire'[w] = z /\ ready[w] \in {"open", "closing"}
        BY <1>1, <1>2 DEF WireOrder
    <2> QED BY <1>1, <1>3, <1>7, <1>8, <2>1, <2>2 DEF WireOrder
<1>10. ready[w] = "open" => \A i \in 1 .. n + 2 : z[i].version >= pushed
    <2> SUFFICES ASSUME ready[w] = "open", NEW i \in 1 .. n + 2
                 PROVE  z[i].version >= pushed
        OBVIOUS
    <2>1. CASE i \in 1 .. n
        BY <1>3, <1>5, <2>1 DEF PushesInOrder
    <2>2. CASE i \notin 1 .. n
        <3>1. i = n + 1 \/ i = n + 2
            BY <1>3, <2>2
        <3>2. z[i].version = version
            BY <1>5, <3>1
        <3> QED BY <1>2, <3>2 DEF WireOrder
    <2> QED BY <2>1, <2>2
<1>11. PushesInOrder'
    BY <1>1, <1>2, <1>3, <1>10 DEF PushesInOrder
<1> QED BY <1>9, <1>11

\* the oldest message of the one open socket is handled
LEMMA PushMessage ==
    ASSUME TypeOK, OneConnection, WireOrder, PushesInOrder, NEW w \in Sockets, OnMessage(w)
    PROVE  WireOrder' /\ PushesInOrder'
<1> DEFINE q == wire[w]
<1>1. /\ ready[w] = "open" /\ q # <<>>
      /\ pushed' = Head(q).version /\ wire' = [wire EXCEPT ![w] = Tail(q)]
      /\ UNCHANGED <<version, ready, link>>
    BY DEF OnMessage, serverVars
<1>2. wire \in [Sockets -> Seq(Message)] /\ q \in Seq(Message)
    BY DEF TypeOK
<1>3. /\ Tail(q) \in Seq(Message) /\ Len(q) \in Nat \ {0} /\ Head(q) = q[1]
      /\ DOMAIN q = 1 .. Len(q) /\ DOMAIN Tail(q) = 1 .. Len(q) - 1
      /\ \A i \in 1 .. Len(q) - 1 : Tail(q)[i] = q[i + 1]
    BY <1>1, <1>2, HeadTailProperties
<1> HIDE DEF q
<1>4. \A v \in Sockets : v # w => wire'[v] = wire[v] /\ ready[v] # "open"
    BY <1>1, <1>2 DEF OneConnection
<1>5. wire'[w] = Tail(q)
    BY <1>1, <1>2
<1>6. 1 \in DOMAIN q /\ \A i \in DOMAIN Tail(q) : i + 1 \in DOMAIN q /\ 1 <= i + 1
    BY <1>3
<1>7. pushed' <= version /\ \A i \in DOMAIN Tail(q) : Tail(q)[i].version <= version
    BY <1>1, <1>3, <1>6 DEF WireOrder, q
<1>8. \A i, j \in DOMAIN Tail(q) : i <= j => Tail(q)[i].version <= Tail(q)[j].version
    <2>1. \A i, j \in DOMAIN Tail(q) : i <= j => i + 1 <= j + 1
        BY <1>3
    <2> QED BY <1>3, <1>6, <2>1 DEF WireOrder, q
<1>9. \A i \in DOMAIN Tail(q) : Tail(q)[i].version >= pushed'
    <2> SUFFICES ASSUME NEW i \in DOMAIN Tail(q) PROVE Tail(q)[i].version >= pushed'
        OBVIOUS
    <2>1. q[1].version <= q[i + 1].version
        BY <1>6 DEF WireOrder, q
    <2>2. q[1] \in Message /\ q[i + 1] \in Message
        BY <1>2, <1>3, <1>6
    <2> QED BY <1>1, <1>3, <2>1, <2>2 DEF Message, Versions
<1>10. WireOrder'
    BY <1>1, <1>4, <1>5, <1>7, <1>8 DEF WireOrder
<1>11. PushesInOrder'
    BY <1>1, <1>4, <1>5, <1>9 DEF PushesInOrder
<1> QED BY <1>10, <1>11

LEMMA PushStep ==
    ASSUME TypeOK, Ownership, OneConnection, WireOrder, PushesInOrder, [Next]_vars
    PROVE  WireOrder' /\ PushesInOrder'
<1>0. /\ ready \in [Sockets -> ReadyStates] /\ link \in [Sockets -> BOOLEAN]
      /\ wire \in [Sockets -> Seq(Message)]
    BY DEF TypeOK, ReadyStates
<1>1. CASE UNCHANGED pushVars
    BY <1>1, PushFrame
<1>2. ASSUME NEW c \in Calls, Refresh(c) \/ RefreshStep(c) PROVE UNCHANGED pushVars
    BY <1>2 DEF Refresh, RefreshStep, Answer, RefreshDone, RefreshFails, serverVars, view,
                socketVars, pushVars
<1>3. CASE Change
    <2>1. version \in Nat /\ version' = version + 1
          /\ UNCHANGED <<pushed, ready, link, wire>>
        BY <1>3 DEF Change, view, socketVars, TypeOK, Versions
    <2>2. pushed \in Nat /\ \A w \in Sockets : \A i \in DOMAIN wire[w] : wire[w][i].version \in Nat
        <3>1. Versions \subseteq Nat /\ pushed \in Versions
            BY Bounds DEF TypeOK, Versions
        <3>2. \A w \in Sockets : \A i \in DOMAIN wire[w] : wire[w][i] \in Message
            <4> SUFFICES ASSUME NEW w \in Sockets, NEW i \in DOMAIN wire[w]
                         PROVE  wire[w][i] \in Message
                OBVIOUS
            <4>1. wire[w] \in Seq(Message)
                BY <1>0
            <4> QED BY <4>1
        <3> QED BY <3>1, <3>2 DEF Message
    <2>3. \A x \in Nat : x <= version => x <= version'
        BY <2>1
    <2> QED BY <2>1, <2>2, <2>3 DEF WireOrder, PushesInOrder
<1>4. CASE StartServer
    BY <1>1, <1>4 DEF StartServer, view, socketVars, pushVars
<1>5. CASE StopServer
    BY <1>5, PushSockets DEF StopServer, view, WireOrder
<1>6. ASSUME NEW w \in Sockets, Break(w) PROVE WireOrder' /\ PushesInOrder'
    BY <1>0, <1>6, PushSockets DEF Break, view, WireOrder
<1>7. ASSUME NEW w \in Sockets, OnOpen(w) PROVE WireOrder' /\ PushesInOrder'
    BY <1>0, <1>7, PushSockets DEF OnOpen, serverVars, view, WireOrder
<1>8. ASSUME NEW w \in Sockets, OnClose(w) PROVE WireOrder' /\ PushesInOrder'
    BY <1>0, <1>8, PushSockets DEF OnClose, Closed, serverVars, view, WireOrder
<1>9. ASSUME NEW e \in Mounts, NEW w \in Sockets, Reconnect(e, w)
      PROVE  WireOrder' /\ PushesInOrder'
    <2>1. /\ ready'[w] = "connecting" /\ ready[w] = "closed"
          /\ \A v \in Sockets : v # w => ready'[v] = ready[v]
        BY <1>9, ConnReconnect
    <2>2. UNCHANGED <<version, pushed, link, wire>>
        BY <1>9 DEF Reconnect, OpenSocket, serverVars, view, socketVars
    <2> QED BY <2>1, <2>2, PushSockets DEF WireOrder
<1>10. ASSUME NEW w \in Sockets, NEW c \in Calls, Remount(w, c)
       PROVE  WireOrder' /\ PushesInOrder'
    <2>1. /\ ready'[w] = "connecting" /\ ready[w] = "closed"
          /\ \A v \in Sockets : v # w => ready'[v] \in {"closing", "closed"}
          /\ \A v \in Sockets : v # w /\ ready'[v] # "closing" => ready'[v] = ready[v]
          /\ \A v \in Sockets : v # w /\ ready[v] = "closed" => ready'[v] = "closed"
        BY <1>10, ConnRemount
    <2>2. UNCHANGED <<version, pushed, link, wire>>
        BY <1>10 DEF Remount, OpenSocket, serverVars, view
    <2> QED BY <1>0, <2>1, <2>2, PushSockets DEF WireOrder, ReadyStates
<1>11. CASE UNCHANGED vars
    BY <1>1, <1>11 DEF vars, serverVars, view, socketVars, pushVars
<1> QED BY <1>1, <1>2, <1>3, <1>4, <1>5, <1>6, <1>7, <1>8, <1>9, <1>10, <1>11,
           PushTick, PushMessage DEF Next, SocketStep, TimerStep

----------------------------------------------------------------------------
\* The inductive invariant.

LEMMA InvInit == Init => IInv
<1> SUFFICES ASSUME Init PROVE IInv
    OBVIOUS
<1>1. TypeOK
    BY TypeInit
<1>2. Ownership
    BY Bounds DEF Init, Ownership, Mounts, NoSocket
<1>3. OneConnection /\ OnlineIsLive
    BY Bounds DEF Init, OneConnection, OnlineIsLive, NoSocket
<1>4. WireOrder /\ PushesInOrder
    BY DEF Init, WireOrder, PushesInOrder
<1> QED BY <1>1, <1>2, <1>3, <1>4 DEF IInv

LEMMA InvNext == IInv /\ [Next]_vars => IInv'
<1> SUFFICES ASSUME IInv, [Next]_vars PROVE IInv'
    OBVIOUS
<1>1. TypeOK' /\ Ownership' /\ OneConnection'
    BY TypeStep, ConnStep DEF IInv
<1>2. OnlineIsLive'
    BY OnlineStep DEF IInv
<1>3. WireOrder' /\ PushesInOrder'
    BY PushStep DEF IInv
<1> QED BY <1>1, <1>2, <1>3 DEF IInv

LEMMA Invariant == Spec => []IInv
BY InvInit, InvNext, PTL DEF Spec

----------------------------------------------------------------------------
\* The theorems.

\* Every variable of the page keeps its type; the wait before a reconnect
\* never exceeds its cap.
THEOREM TypeCorrect == Spec => []TypeOK
<1>1. IInv => TypeOK
    BY DEF IInv
<1> QED BY <1>1, Invariant, PTL

\* However often the effect runs again and connections drop, the page has
\* one connection or one timer that will make one.
THEOREM ConnectionIsOne == Spec => []OneConnection
<1>1. IInv => OneConnection
    BY DEF IInv
<1> QED BY <1>1, Invariant, PTL

\* The page says Connected of the connection it has, never of one it had.
THEOREM OnlineIsOfTheLive == Spec => []OnlineIsLive
<1>1. IInv => OnlineIsLive
    BY DEF IInv
<1> QED BY <1>1, Invariant, PTL

\* The pushes an open connection delivers never go back behind what one
\* before it showed.
THEOREM PushesKeepOrder == Spec => []PushesInOrder
<1>1. IInv => PushesInOrder
    BY DEF IInv
<1> QED BY <1>1, Invariant, PTL

----------------------------------------------------------------------------
\* There is a way to the server.

LEMMA NotClosingStep == IInv /\ NotClosing /\ [Next]_vars => NotClosing'
<1> SUFFICES ASSUME IInv, NotClosing, [Next]_vars PROVE NotClosing'
    OBVIOUS
<1> DEFINE w == socket[mounts]
<1>0. /\ w \in Sockets /\ mounts \in Mounts /\ ready \in [Sockets -> ReadyStates]
      /\ socket \in [Mounts -> Sockets \cup {NoSocket}]
    BY DEF IInv, TypeOK, OneConnection, ReadyStates
<1>1. CASE UNCHANGED <<mounts, socket, ready>>
    BY <1>1 DEF NotClosing
<1>2. CASE \E v \in Sockets, c \in Calls : Remount(v, c)
    <2>1. PICK v \in Sockets, c \in Calls : Remount(v, c)
        BY <1>2
    <2>2. mounts' = mounts + 1 /\ mounts' \in Mounts
        BY <2>1, <1>0, Bounds DEF Remount, Mounts
    <2>3. CloseSocket(w) \in [Sockets -> ReadyStates]
        BY <1>0 DEF CloseSocket, ReadyStates
    <2>4. socket'[mounts'] = v /\ ready'[v] = "connecting"
        BY <2>1, <2>2, <2>3, <1>0 DEF Remount, OpenSocket
    <2> QED BY <2>4 DEF NotClosing
<1>3. ASSUME NEW v \in Sockets, OnOpen(v) \/ OnClose(v) PROVE NotClosing'
    <2>1. UNCHANGED <<mounts, socket>> /\ ready' \in {[ready EXCEPT ![v] = "open"],
                                                     [ready EXCEPT ![v] = "closed"]}
        BY <1>3 DEF OnOpen, OnClose, Closed
    <2> QED BY <2>1, <1>0 DEF NotClosing
<1>4. ASSUME NEW e \in Mounts, NEW v \in Sockets, Reconnect(e, v) PROVE NotClosing'
    <2>1. CASE unmounted[e]
        BY <1>1, <1>4, <2>1 DEF Reconnect, socketVars
    <2>2. CASE ~unmounted[e]
        <3>1. /\ socket' = [socket EXCEPT ![e] = v]
              /\ ready' = [ready EXCEPT ![v] = "connecting"] /\ mounts' = mounts
            BY <1>4, <2>2 DEF Reconnect, OpenSocket
        <3> QED BY <3>1, <1>0 DEF NotClosing
    <2> QED BY <2>1, <2>2
<1>5. CASE \/ \E c \in Calls : Refresh(c) \/ RefreshStep(c)
           \/ \E v \in Sockets : OnMessage(v) \/ Tick(v) \/ Break(v)
           \/ Change \/ StopServer \/ StartServer \/ UNCHANGED vars
    BY <1>1, <1>5 DEF Refresh, RefreshStep, Answer, RefreshDone, RefreshFails, OnMessage, Tick,
           Break, Change, StopServer, StartServer, vars, effectVars, socketVars
<1> QED BY <1>2, <1>3, <1>4, <1>5 DEF Next, SocketStep, TimerStep

\* every run refers to one socket at most, and there is one more
LEMMA SocketToSpare ==
    ASSUME TypeOK, Ownership
    PROVE  \E v \in Sockets : \A e \in Mounts : socket[e] # v
<1> SUFFICES ASSUME \A v \in Sockets : \E e \in Mounts : socket[e] = v PROVE FALSE
    OBVIOUS
<1> DEFINE f == [v \in Sockets |-> CHOOSE e \in Mounts : socket[e] = v]
<1>1. \A v \in Sockets : f[v] \in Mounts /\ socket[f[v]] = v
    OBVIOUS
<1>2. f \in [Sockets -> Mounts]
    BY <1>1
<1>3. /\ IsFiniteSet(Mounts) /\ IsFiniteSet(Sockets)
      /\ Cardinality(Mounts) = MaxMounts /\ Cardinality(Sockets) = MaxMounts + 1
    BY Bounds, FS_Interval DEF Mounts, Sockets
<1>4. Cardinality(Mounts) < Cardinality(Sockets)
    BY <1>3, Bounds
<1> HIDE DEF f
<1>5. \E u, v \in Sockets : u # v /\ f[u] = f[v]
    BY <1>2, <1>3, <1>4, FS_PigeonHole
<1> QED BY <1>1, <1>5

\* For any number of runs of the effect and of outages, a page without a
\* connection has a timer set that finds a socket to open: the safety of
\* PageCatchesUp, whose rest is that timers fire and sockets open.
THEOREM NeverLeftStranded == Spec => []NeverStranded
<1>1. Init => NotClosing
    BY Bounds DEF Init, NotClosing
<1>2. IInv /\ NotClosing /\ [Next]_vars => NotClosing'
    BY NotClosingStep
<1>3. IInv /\ NotClosing => NeverStranded
    <2> SUFFICES ASSUME IInv, NotClosing PROVE NeverStranded
        OBVIOUS
    <2> DEFINE w == socket[mounts]
    <2>1. /\ w \in Sockets /\ mounts \in Mounts /\ ready[w] \in ReadyStates
          /\ ~unmounted[mounts] /\ owner[w] \in Mounts
        BY DEF IInv, TypeOK, OneConnection, Ownership, ReadyStates, Mounts
    <2>2. CASE ready[w] = "closed"
        <3>1. PICK v \in Sockets : \A e \in Mounts : socket[e] # v
            BY SocketToSpare DEF IInv
        <3>2. ready[v] = "closed"
            BY <3>1 DEF IInv, TypeOK, Ownership
        <3> QED BY <2>1, <2>2, <3>1, <3>2 DEF IInv, OneConnection, NeverStranded, Free
    <2>3. CASE ready[w] # "closed"
        <3>1. socket[owner[w]] = w /\ owner[w] = mounts
            BY <2>1, <2>3, Bounds DEF IInv, Ownership
        <3>2. Live(w)
            BY <2>1, <3>1 DEF Live
        <3>3. ready[w] \in {"connecting", "open"}
            BY <2>1, <2>3 DEF NotClosing, ReadyStates
        <3> QED BY <3>2, <3>3 DEF NeverStranded
    <2> QED BY <2>2, <2>3
<1> QED BY <1>1, <1>2, <1>3, Invariant, PTL DEF Spec

\* A push never shows an older state of the engine than the push before it.
THEOREM PushesGoForward == Spec => PushesNeverGoBack
<1>1. IInv /\ [Next]_vars => [pushed' >= pushed]_vars
    <2> SUFFICES ASSUME IInv, [Next]_vars PROVE pushed' >= pushed
        OBVIOUS
    <2>1. pushed \in Nat
        BY Bounds DEF IInv, TypeOK, Versions
    <2>2. CASE pushed' = pushed
        BY <2>1, <2>2
    <2>3. ASSUME NEW w \in Sockets, OnMessage(w) PROVE pushed' >= pushed
        <3>1. wire[w] \in Seq(Message) /\ wire[w] # <<>> /\ ready[w] = "open"
            BY <2>3 DEF OnMessage, IInv, TypeOK
        <3>2. 1 \in DOMAIN wire[w] /\ Head(wire[w]) = wire[w][1]
            BY <3>1
        <3>3. pushed' = wire[w][1].version
            BY <2>3, <3>2 DEF OnMessage
        <3> QED BY <3>1, <3>2, <3>3 DEF IInv, PushesInOrder
    <2>4. CASE \/ \E c \in Calls : Refresh(c) \/ RefreshStep(c)
               \/ \E w \in Sockets, c \in Calls : Remount(w, c)
               \/ \E w \in Sockets : SocketStep(w) \/ Tick(w) \/ Break(w)
               \/ \E e \in Mounts : TimerStep(e)
               \/ Change \/ StopServer \/ StartServer \/ UNCHANGED vars
        BY <2>2, <2>4 DEF Refresh, RefreshStep, Answer, RefreshDone, RefreshFails, Remount,
               SocketStep, OnOpen, OnClose, Closed, TimerStep, Reconnect, Tick, Break,
               Change, StopServer, StartServer, vars, view
    <2> QED BY <2>3, <2>4 DEF Next
<1> QED BY <1>1, Invariant, PTL DEF Spec, PushesNeverGoBack

============================================================================

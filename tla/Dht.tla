------------------------------- MODULE Dht -------------------------------
(***************************************************************************)
(* The DHT node: its routing table, the queries it sends and matches with  *)
(* their answers, and the operations made of them: Bootstrap at startup,   *)
(* FindPeers for each magnet link, Announce.                               *)
(*                                                                         *)
(* An operation runs one goroutine per query, at most Alpha at a time; a   *)
(* query registers a channel under its transaction identifier, waits for   *)
(* it or for five seconds, and deletes the registration by identifier.     *)
(* Each datagram that arrives is handled by a goroutine of its own, and    *)
(* each bucket of the table has its own lock.                              *)
(*                                                                         *)
(* A node is its identifier, a sequence of bits (160 in the code); a token *)
(* is named for the node that issued it.  Transaction identifiers are      *)
(* random and may repeat.                                                  *)
(***************************************************************************)
EXTENDS Naturals, Sequences, FiniteSets

CONSTANTS
    Bits,        \* length of a node identifier
    Self,        \* our own identifier
    Nodes,       \* the nodes of the network
    Routers,     \* the bootstrap nodes, a sequence
    K,           \* nodes per bucket, and asked per lookup
    Alpha,       \* queries of a lookup at a time
    TxIds,       \* transaction identifiers
    Boot,        \* the call of Bootstrap
    Finds,       \* calls of FindPeers
    Announces,   \* calls of Announce
    Callers,     \* bound: nodes that send queries of their own
    Named,       \* bound: nodes that answers name
    MaxNames,    \* bound: names in an answer (8 in the protocol)
    NoTx, NoNode, NoOp

Ids == [1..Bits -> {0, 1}]
Lookups == Finds \cup Announces
Ops == {Boot} \cup Lookups

ASSUME DhtAssumption ==
    /\ Bits \in Nat \ {0}
    /\ Self \in Ids
    /\ Nodes \subseteq Ids
    /\ Routers \in Seq(Nodes)
    /\ \A i, j \in 1..Len(Routers) : Routers[i] = Routers[j] => i = j
    /\ K \in Nat \ {0}
    /\ Alpha \in Nat \ {0}
    /\ Boot \notin Lookups
    /\ Finds \cap Announces = {}
    /\ NoTx \notin TxIds
    /\ NoNode \notin Nodes
    /\ NoOp \notin Ops
    /\ Callers \subseteq Nodes
    /\ Named \subseteq Nodes
    /\ MaxNames \in Nat

VARIABLES
    table,      \* table[i]: bucket i, oldest node first
    stage,      \* stage[o]: where operation o is
    next,       \* next[o]: the bucket it gathers nodes from next
    todo,       \* todo[o]: nodes it has gathered and not asked yet
    query,      \* query[o][n]: its query to node n
    results,    \* results[o]: what its queries returned, as <<node, token>>
    told,       \* told[o]: the results it has sent announce_peer for
    pending,    \* pending[tx]: the query registered under tx
    tokens,     \* tokens[n]: the token kept for n
    net,        \* datagrams sent; each may arrive never, late or repeatedly
    closed      \* the node has been closed

opVars == <<stage, next, todo, results, told>>
vars == <<table, opVars, query, pending, tokens, net, closed>>

Buckets == 0..(Bits - 1)
NoQuery == [op |-> NoOp, node |-> NoNode]
Queries == [op : Ops, node : Nodes]
Tokens == Nodes \cup {NoNode}
Names == UNION {[1..k -> Named] : k \in 0..MaxNames}

(* An answer: its token and the nodes it names. *)
Answers == [token : Tokens, names : Names]

(* A channel of capacity one is a set of at most one answer. *)
Unasked == [at |-> "unasked", tx |-> NoTx, channel |-> {}, token |-> NoNode, names |-> <<>>]

Datagrams == [kind : {"query", "announce"}, op : Ops, node : Nodes, tx : TxIds, token : Tokens]

----------------------------------------------------------------------------
(* The routing table.                                                      *)

(* The bits before the first that differs; the last bucket for an          *)
(* identifier that does not differ. *)
BucketIndex(a, b) ==
    IF a = b THEN Bits - 1
             ELSE Cardinality({i \in 1..Bits : \A j \in 1..i : a[j] = b[j]})

Holds(bucket, n) == \E i \in 1..Len(bucket) : bucket[i] = n

\* (mutant) nobody looks whether the node is in the bucket
BucketAddAgain(bucket, n) ==
    IF Len(bucket) < K THEN Append(bucket, n) ELSE Append(Tail(bucket), n)

\* (mutant) the oldest node stays
BucketAddFull(bucket, n) ==
    IF Holds(bucket, n) THEN bucket ELSE Append(bucket, n)

(* A node that is there keeps its place; a full bucket drops its oldest. *)
BucketAdd(bucket, n) ==
    IF Holds(bucket, n) THEN bucket
    ELSE IF Len(bucket) < K THEN Append(bucket, n)
    ELSE Append(Tail(bucket), n)

AddToTable(n) ==
    table' = [table EXCEPT ![BucketIndex(Self, n)] = BucketAdd(@, n)]

(* What kBucket.closest makes of the nodes gathered so far: the target     *)
(* plays no part. *)
Gathered(out, bucket) ==
    LET all == out \o bucket
    IN  SubSeq(all, 1, IF Len(all) < K THEN Len(all) ELSE K)

----------------------------------------------------------------------------

Init ==
    /\ table = [i \in Buckets |-> <<>>]
    /\ stage = [o \in Ops |-> "none"]
    /\ next = [o \in Ops |-> 0]
    /\ todo = [o \in Ops |-> <<>>]
    /\ query = [o \in Ops |-> [n \in Nodes |-> Unasked]]
    /\ results = [o \in Ops |-> {}]
    /\ told = [o \in Ops |-> {}]
    /\ pending = [tx \in TxIds |-> NoQuery]
    /\ tokens = [n \in Nodes |-> NoNode]
    /\ net = {}
    /\ closed = FALSE

(* The engine calls Bootstrap once, before anything else. *)
StartBootstrap ==
    /\ stage[Boot] = "none"
    /\ stage' = [stage EXCEPT ![Boot] = "asking"]
    /\ todo' = [todo EXCEPT ![Boot] = Routers]
    /\ UNCHANGED <<table, next, results, told, query, pending, tokens, net, closed>>

StartLookup(o) ==
    /\ stage[Boot] = "done"
    /\ stage[o] = "none"
    /\ stage' = [stage EXCEPT ![o] = "gathering"]
    /\ UNCHANGED <<table, next, todo, results, told, query, pending, tokens, net, closed>>

(* closestN, one bucket under its lock at a time. *)
Gather(o) ==
    /\ stage[o] = "gathering"
    /\ next[o] < Bits
    /\ Len(todo[o]) < K
    /\ todo' = [todo EXCEPT ![o] = Gathered(@, table[next[o]])]
    /\ next' = [next EXCEPT ![o] = @ + 1]
    /\ UNCHANGED <<table, stage, results, told, query, pending, tokens, net, closed>>

(* With an empty table a lookup is an error. *)
GatherEnds(o) ==
    /\ stage[o] = "gathering"
    /\ next[o] = Bits \/ Len(todo[o]) = K
    /\ stage' = [stage EXCEPT ![o] = IF todo[o] = <<>> THEN "failed" ELSE "asking"]
    /\ UNCHANGED <<table, next, todo, results, told, query, pending, tokens, net, closed>>

----------------------------------------------------------------------------
(* Queries.                                                                *)

Running(o) == {n \in Nodes : query[o][n].at \in {"waiting", "adding"}}

(* A write to a closed socket fails, and nobody looks at the error. *)
Transmit(d) == net' = IF closed THEN net ELSE net \cup {d}

(* findNode or getPeers begins: register, send.  Bootstrap has no limit. *)
Ask(o) ==
    /\ stage[o] = "asking"
    /\ todo[o] # <<>>
    /\ o # Boot => Cardinality(Running(o)) < Alpha
    /\ LET n == Head(todo[o]) IN
       \E tx \in TxIds :
          /\ query' = [query EXCEPT ![o][n] = [Unasked EXCEPT !.at = "waiting", !.tx = tx]]
          /\ pending' = [pending EXCEPT ![tx] = [op |-> o, node |-> n]]
          /\ Transmit([kind |-> "query", op |-> o, node |-> n, tx |-> tx, token |-> NoNode])
    /\ todo' = [todo EXCEPT ![o] = Tail(@)]
    /\ UNCHANGED <<table, stage, next, results, told, tokens, closed>>

(* The deferred delete is by identifier, whoever is registered under it. *)
Unregister(o, n) == pending' = [pending EXCEPT ![query[o][n].tx] = NoQuery]

Finished(o, n) == query' = [query EXCEPT ![o][n] = [Unasked EXCEPT !.at = "done"]]

\* (mutant) without the timer, an answer is waited for
TimeoutNever(o, n) ==
    /\ query[o][n].at = "waiting"
    /\ FALSE
    /\ UNCHANGED vars

(* Five seconds pass; an answer in the channel may lose against them. *)
Timeout(o, n) ==
    /\ query[o][n].at = "waiting"
    /\ Finished(o, n)
    /\ Unregister(o, n)
    /\ UNCHANGED <<table, opVars, tokens, net, closed>>

TakeAnswer(o, n) ==
    /\ query[o][n].at = "waiting"
    /\ \E a \in query[o][n].channel :
          query' = [query EXCEPT ![o][n].at = "adding", ![o][n].channel = {},
                                 ![o][n].token = a.token, ![o][n].names = a.names]
    /\ UNCHANGED <<table, opVars, pending, tokens, net, closed>>

(* addNodesFromResponse, one bucket under its lock at a time. *)
AddName(o, n) ==
    /\ query[o][n].at = "adding"
    /\ query[o][n].names # <<>>
    /\ AddToTable(Head(query[o][n].names))
    /\ query' = [query EXCEPT ![o][n].names = Tail(@)]
    /\ UNCHANGED <<opVars, pending, tokens, net, closed>>

(* The query returns.  getPeers keeps the token it was given, and the      *)
(* lookup appends what it returned; findNode returns nothing.              *)
Return(o, n) ==
    LET token == query[o][n].token IN
    /\ query[o][n].at = "adding"
    /\ query[o][n].names = <<>>
    /\ Finished(o, n)
    /\ Unregister(o, n)
    /\ IF o = Boot
         THEN UNCHANGED <<tokens, results>>
         ELSE /\ tokens' = IF token = NoNode THEN tokens ELSE [tokens EXCEPT ![n] = token]
              /\ results' = [results EXCEPT ![o] = @ \cup {<<n, token>>}]
    /\ UNCHANGED <<table, stage, next, todo, told, net, closed>>

\* (mutant) the operation does not wait for its goroutines
AllAsked(o) == stage[o] = "asking" /\ todo[o] = <<>>

(* wg.Wait returns. *)
AllReturned(o) == stage[o] = "asking" /\ todo[o] = <<>> /\ Running(o) = {}

EndAsking(o) ==
    /\ AllReturned(o)
    /\ stage' = [stage EXCEPT ![o] = IF o \in Announces THEN "telling" ELSE "done"]
    /\ UNCHANGED <<table, next, todo, results, told, query, pending, tokens, net, closed>>

(* announcePeer: nobody waits for the answer. *)
Tell(o) ==
    /\ stage[o] = "telling"
    /\ \E r \in results[o] \ told[o], tx \in TxIds :
          /\ r[2] # NoNode
          /\ told' = [told EXCEPT ![o] = @ \cup {r}]
          /\ Transmit([kind |-> "announce", op |-> o, node |-> r[1], tx |-> tx, token |-> r[2]])
    /\ UNCHANGED <<table, stage, next, todo, results, query, pending, tokens, closed>>

EndTelling(o) ==
    /\ stage[o] = "telling"
    /\ \A r \in results[o] \ told[o] : r[2] = NoNode
    /\ stage' = [stage EXCEPT ![o] = "done"]
    /\ UNCHANGED <<table, next, todo, results, told, query, pending, tokens, net, closed>>

----------------------------------------------------------------------------
(* Datagrams that arrive.                                                  *)

\* (mutant) the answer goes to some query that waits, if the one meant does
HandOverLoosely(tx, a) ==
    query' = IF pending[tx] = NoQuery THEN query
             ELSE LET q == CHOOSE p \in {pending[x] : x \in TxIds} : p # NoQuery
                  IN  [query EXCEPT ![q.op][q.node].channel = IF @ = {} THEN {a} ELSE @]

(* To the query registered under tx, unless its channel is full. *)
HandOver(tx, a) ==
    query' = LET q == pending[tx] IN
             IF q = NoQuery THEN query
             ELSE [query EXCEPT ![q.op][q.node].channel = IF @ = {} THEN {a} ELSE @]

(* A node gives a token with every answer to get_peers, and no other. *)
TokenOf(d) == IF d.kind = "query" /\ d.op # Boot THEN d.node ELSE NoNode

(* The answer to d arrives: its sender goes into the table first. *)
HandleResponse(d) ==
    /\ ~closed
    /\ AddToTable(d.node)
    /\ \E a \in Answers :
          /\ a.token = TokenOf(d)
          /\ d.kind = "announce" => a.names = <<>>
          /\ HandOver(d.tx, a)
    /\ UNCHANGED <<opVars, pending, tokens, net, closed>>

(* A query from another node; the answer changes nothing here. *)
HandleQuery(n) ==
    /\ ~closed
    /\ AddToTable(n)
    /\ UNCHANGED <<opVars, query, pending, tokens, net, closed>>

(* The engine shuts down. *)
Close ==
    /\ ~closed
    /\ stage[Boot] = "done"
    /\ closed' = TRUE
    /\ UNCHANGED <<table, opVars, query, pending, tokens, net>>

----------------------------------------------------------------------------

OpStep(o) ==
    \/ Gather(o) \/ GatherEnds(o) \/ Ask(o) \/ EndAsking(o) \/ Tell(o) \/ EndTelling(o)

QueryStep(o, n) == Timeout(o, n) \/ TakeAnswer(o, n) \/ AddName(o, n) \/ Return(o, n)

Next ==
    \/ StartBootstrap
    \/ \E o \in Lookups : StartLookup(o)
    \/ \E o \in Ops : OpStep(o)
    \/ \E o \in Ops, n \in Nodes : QueryStep(o, n)
    \/ \E d \in net : HandleResponse(d)
    \/ \E n \in Callers : HandleQuery(n)
    \/ Close

Spec == Init /\ [][Next]_vars

(* The goroutines of an operation run and its timers fire: as long as one  *)
(* of them can step, one of them does.  Nothing is asked of the network or *)
(* of other nodes.                                                         *)
Fairness == \A o \in Ops : WF_vars(OpStep(o) \/ \E n \in Nodes : QueryStep(o, n))

FairSpec == Spec /\ Fairness

----------------------------------------------------------------------------
(* Properties.                                                             *)

TypeOK ==
    /\ table \in [Buckets -> Seq(Nodes)]
    /\ \A i \in Buckets : Len(table[i]) <= K
    /\ stage \in [Ops -> {"none", "gathering", "asking", "telling", "done", "failed"}]
    /\ next \in [Ops -> 0..Bits]
    /\ todo \in [Ops -> Seq(Nodes)]
    /\ query \in [Ops -> [Nodes ->
          [at : {"unasked", "waiting", "adding", "done"}, tx : TxIds \cup {NoTx},
           channel : SUBSET Answers, token : Tokens, names : Seq(Nodes)]]]
    /\ results \in [Ops -> SUBSET (Nodes \X Tokens)]
    /\ told \in [Ops -> SUBSET (Nodes \X Tokens)]
    /\ pending \in [TxIds -> Queries \cup {NoQuery}]
    /\ tokens \in [Nodes -> Tokens]
    /\ net \subseteq Datagrams
    /\ closed \in BOOLEAN

(* However answers, queries and named nodes are added side by side, a      *)
(* bucket holds a node once, and only nodes that belong in it              *)
(* (dht.go:72-87, 115-118).                                                *)
OneEntryPerNode ==
    \A i \in Buckets : \A j, k \in 1..Len(table[i]) :
        /\ BucketIndex(Self, table[i][j]) = i
        /\ table[i][j] = table[i][k] => j = k

(* No registration outlives its query (dht.go:216-220, 452-456), although  *)
(* queries may share an identifier and delete each other's.                *)
PendingIsOpen ==
    \A tx \in TxIds :
        LET q == pending[tx] IN
        q # NoQuery => /\ query[q.op][q.node].at \in {"waiting", "adding"}
                       /\ query[q.op][q.node].tx = tx

(* Two datagrams were sent under one identifier. *)
Repeated == \E d, e \in net : d # e /\ d.tx = e.tx

(* Unless an identifier was repeated, a node is only ever given the token  *)
(* it issued itself (dht.go:465-468, 302-305), however late, lost or       *)
(* repeated the answers are and whatever runs beside it.                   *)
TokenIsOwn ==
    ~Repeated => /\ \A n \in Nodes : tokens[n] \in {n, NoNode}
                 /\ \A d \in net : d.kind = "announce" => d.token = d.node

(* When Announce returns, every node that gave it a token has been sent    *)
(* announce_peer (dht.go:264-265), unless the node was closed.             *)
EveryResponderTold ==
    \A o \in Announces : stage[o] = "done" =>
        /\ \A n \in Nodes : query[o][n].at \in {"unasked", "done"}
        /\ \A r \in results[o] : r[2] # NoNode =>
              \/ closed
              \/ \E d \in net : d.kind = "announce" /\ d.op = o /\ d.node = r[1] /\ d.token = r[2]

(* An operation asks a node once, although the table it gathers from       *)
(* changes between two buckets, so the map queried of FindPeers and        *)
(* Announce (dht.go:240, 281) never stops a second query: each one goes    *)
(* on from being sent to its answer to its end.                            *)
QueriesGoOn ==
    [][\A o \in Ops, n \in Nodes :
          query'[o][n].at # query[o][n].at =>
             <<query[o][n].at, query'[o][n].at>> \in
                {<<"unasked", "waiting">>, <<"waiting", "adding">>,
                 <<"waiting", "done">>, <<"adding", "done">>}]_vars

(* An operation has one result of a node, so Announce sends nobody two     *)
(* announce_peer (dht.go:302-305), whatever answers arrive repeatedly.     *)
OneResultPerNode ==
    \A o \in Ops :
        /\ told[o] \subseteq results[o]
        /\ \A r, s \in results[o] : r[1] = s[1] => r = s

(* Every operation returns, whatever is lost and even when the node is     *)
(* closed under it.                                                        *)
OperationsReturn ==
    \A o \in Ops : stage[o] # "none" ~> stage[o] \in {"done", "failed"}
============================================================================

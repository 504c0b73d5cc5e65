---------------------------- MODULE DhtProofs ----------------------------
(***************************************************************************)
(* Proofs about Dht, for every length of identifiers, every set of nodes   *)
(* and of transaction identifiers, every number of lookups and whatever    *)
(* the other nodes name or send.                                           *)
(***************************************************************************)
EXTENDS Dht, SequenceTheorems, FiniteSetTheorems, TLAPS

----------------------------------------------------------------------------
\* Types, and what a bucket becomes.

LEMMA Constants ==
    /\ Bits \in Nat /\ Bits > 0
    /\ K \in Nat /\ K > 0
    /\ Self \in Ids /\ Nodes \subseteq Ids
    /\ Routers \in Seq(Nodes)
    /\ \A i, j \in 1..Len(Routers) : Routers[i] = Routers[j] => i = j
    /\ Boot \in Ops /\ Lookups \subseteq Ops /\ Boot \notin Lookups
    /\ Announces \subseteq Lookups
    /\ NoTx \notin TxIds /\ NoNode \notin Nodes /\ NoOp \notin Ops
    /\ Callers \subseteq Nodes /\ Named \subseteq Nodes
    /\ MaxNames \in Nat
BY DhtAssumption DEF Ops, Lookups

(* An identifier falls into one of the buckets. *)
LEMMA IndexType ==
    ASSUME NEW n \in Nodes
    PROVE  BucketIndex(Self, n) \in Buckets
<1> USE Constants
<1>1. CASE Self = n
    BY <1>1 DEF BucketIndex, Buckets
<1>2. CASE Self # n
    <2> DEFINE Common == {i \in 1..Bits : \A j \in 1..i : Self[j] = n[j]}
    <2>1. IsFiniteSet(1..Bits) /\ Cardinality(1..Bits) = Bits
        BY FS_Interval
    <2>2. Common \subseteq 1..Bits
        OBVIOUS
    <2> HIDE DEF Common
    <2>3. /\ Cardinality(Common) \in Nat
          /\ Cardinality(Common) <= Bits
          /\ Cardinality(Common) = Bits => Common = 1..Bits
        <3>1. /\ IsFiniteSet(Common) /\ Cardinality(Common) <= Cardinality(1..Bits)
              /\ Cardinality(Common) = Cardinality(1..Bits) => Common = 1..Bits
            BY <2>1, <2>2, FS_Subset
        <3>2. Cardinality(Common) \in Nat
            BY <3>1, FS_CardinalityType
        <3> QED BY <2>1, <3>1, <3>2
    <2>4. PICK i \in 1..Bits : Self[i] # n[i]
        BY <1>2 DEF Ids
    <2>5. i \notin Common
        BY <2>4 DEF Common
    <2>6. Cardinality(Common) \in 0..(Bits - 1)
        BY <2>3, <2>5
    <2> QED BY <1>2, <2>6 DEF BucketIndex, Buckets, Common
<1> QED BY <1>1, <1>2

(* A bucket with a node added. *)
Distinct(s) == \A j, k \in 1..Len(s) : s[j] = s[k] => j = k

LEMMA BucketAddFacts ==
    ASSUME NEW b \in Seq(Nodes), Len(b) <= K, NEW n \in Nodes
    PROVE  /\ BucketAdd(b, n) \in Seq(Nodes)
           /\ Len(BucketAdd(b, n)) <= K
           /\ Distinct(b) => Distinct(BucketAdd(b, n))
           /\ \A j \in 1..Len(BucketAdd(b, n)) :
                 \/ BucketAdd(b, n)[j] = n
                 \/ \E i \in 1..Len(b) : BucketAdd(b, n)[j] = b[i]
<1> USE Constants
<1>1. CASE Holds(b, n)
    BY <1>1 DEF BucketAdd
<1>2. CASE ~Holds(b, n) /\ Len(b) < K
    BY <1>2 DEF BucketAdd, Holds, Distinct
<1>3. CASE ~Holds(b, n) /\ Len(b) = K
    <2>1. b # <<>>
        BY <1>3
    <2>2. /\ Tail(b) \in Seq(Nodes) /\ Len(Tail(b)) = Len(b) - 1
          /\ \A i \in 1..Len(Tail(b)) : Tail(b)[i] = b[i + 1]
        BY <2>1, HeadTailProperties
    <2> DEFINE c == Append(Tail(b), n)
    <2>3. /\ c \in Seq(Nodes) /\ Len(c) = Len(b) /\ c[Len(b)] = n
          /\ \A i \in 1..(Len(b) - 1) : c[i] = b[i + 1]
        BY <2>2
    <2>4. BucketAdd(b, n) = c
        BY <1>3 DEF BucketAdd
    <2> HIDE DEF c
    <2>5. Distinct(b) => Distinct(c)
        BY <1>3, <2>3 DEF Distinct, Holds
    <2>6. \A j \in 1..Len(c) : c[j] = n \/ \E i \in 1..Len(b) : c[j] = b[i]
        <3> TAKE j \in 1..Len(c)
        <3>1. CASE j = Len(b) BY <2>3, <3>1
        <3>2. CASE j # Len(b)
            <4>1. j + 1 \in 1..Len(b) /\ c[j] = b[j + 1]
                BY <2>3, <3>2
            <4> QED BY <4>1
        <3> QED BY <3>1, <3>2
    <2> QED BY <1>3, <2>3, <2>4, <2>5, <2>6
<1> QED BY <1>1, <1>2, <1>3

TableOK ==
    /\ table \in [Buckets -> Seq(Nodes)]
    /\ \A i \in Buckets : Len(table[i]) <= K

LEMMA AddType ==
    ASSUME TableOK, NEW n \in Nodes, AddToTable(n)
    PROVE  TableOK'
<1> DEFINE i == BucketIndex(Self, n)
<1>1. i \in Buckets
    BY IndexType
<1>2. /\ BucketAdd(table[i], n) \in Seq(Nodes)
      /\ Len(BucketAdd(table[i], n)) <= K
    BY <1>1, BucketAddFacts DEF TableOK
<1>3. table' = [table EXCEPT ![i] = BucketAdd(table[i], n)]
    BY DEF AddToTable
<1> HIDE DEF i
<1> QED BY <1>1, <1>2, <1>3 DEF TableOK

LEMMA AddOneEntry ==
    ASSUME TableOK, OneEntryPerNode, NEW n \in Nodes, AddToTable(n)
    PROVE  OneEntryPerNode'
<1> DEFINE i == BucketIndex(Self, n)
           b == table[i]
           c == BucketAdd(b, n)
<1>1. i \in Buckets
    BY IndexType
<1>2. /\ b \in Seq(Nodes) /\ Distinct(b)
      /\ \A j \in 1..Len(b) : BucketIndex(Self, b[j]) = i
    BY <1>1 DEF TableOK, OneEntryPerNode, Distinct
<1>3. /\ Distinct(c)
      /\ \A j \in 1..Len(c) : c[j] = n \/ \E k \in 1..Len(b) : c[j] = b[k]
    BY <1>1, <1>2, BucketAddFacts DEF TableOK
<1>4. \A j \in 1..Len(c) : BucketIndex(Self, c[j]) = i
    BY <1>2, <1>3
<1>5. table' = [table EXCEPT ![i] = c]
    BY DEF AddToTable
<1>6. table'[i] = c /\ \A m \in Buckets : m # i => table'[m] = table[m]
    BY <1>1, <1>5 DEF TableOK
<1> HIDE DEF c, b, i
<1>7. ASSUME NEW m \in Buckets
      PROVE  /\ Distinct(table'[m])
             /\ \A j \in 1..Len(table'[m]) : BucketIndex(Self, table'[m][j]) = m
    <2>1. CASE m = i
        BY <1>3, <1>4, <1>6, <2>1
    <2>2. CASE m # i
        BY <1>6, <2>2 DEF OneEntryPerNode, Distinct
    <2> QED BY <2>1, <2>2
<1> QED BY <1>7 DEF OneEntryPerNode, Distinct

QueryStates ==
    [at : {"unasked", "waiting", "adding", "done"}, tx : TxIds \cup {NoTx},
     channel : SUBSET Answers, token : Tokens, names : Seq(Nodes)]

LEMMA NamesType == Names \subseteq Seq(Nodes)
<1> SUFFICES ASSUME NEW k \in 0..MaxNames, NEW f \in [1..k -> Named]
             PROVE  f \in Seq(Nodes)
    BY DEF Names
<1>1. k \in Nat /\ f \in [1..k -> Nodes]
    BY Constants
<1> QED BY <1>1

LEMMA UnaskedType == Unasked \in QueryStates
BY EmptySeq DEF Unasked, QueryStates, Tokens

LEMMA TypeInit == Init => TypeOK
<1> SUFFICES ASSUME Init PROVE TypeOK
    OBVIOUS
<1>1. <<>> \in Seq(Nodes) /\ Len(<<>>) = 0
    BY EmptySeq
<1>2. table \in [Buckets -> Seq(Nodes)] /\ \A i \in Buckets : Len(table[i]) <= K
    BY <1>1, Constants DEF Init
<1>3. query \in [Ops -> [Nodes -> QueryStates]]
    BY UnaskedType DEF Init
<1>4. next \in [Ops -> 0..Bits] /\ todo \in [Ops -> Seq(Nodes)]
    BY <1>1, Constants DEF Init
<1>5. /\ results \in [Ops -> SUBSET (Nodes \X Tokens)]
      /\ told \in [Ops -> SUBSET (Nodes \X Tokens)]
      /\ pending \in [TxIds -> Queries \cup {NoQuery}]
      /\ tokens \in [Nodes -> Tokens]
    BY DEF Init, Tokens
<1>6. /\ stage \in [Ops -> {"none", "gathering", "asking", "telling", "done", "failed"}]
      /\ net \subseteq Datagrams /\ closed \in BOOLEAN
    BY DEF Init
<1> QED BY <1>2, <1>3, <1>4, <1>5, <1>6 DEF TypeOK, QueryStates

LEMMA TransmitType ==
    ASSUME TypeOK, NEW d \in Datagrams, Transmit(d)
    PROVE  /\ net' \subseteq Datagrams
           /\ net \subseteq net'
           /\ net' \subseteq net \cup {d}
           /\ ~closed => d \in net'
BY DEF Transmit, TypeOK

(* What becomes of one query. *)
Becomes(o, n, q) == query' = [query EXCEPT ![o][n] = q]

LEMMA QueryType ==
    ASSUME TypeOK, NEW o \in Ops, NEW n \in Nodes, NEW q \in QueryStates,
           Becomes(o, n, q)
    PROVE  /\ query' \in [Ops -> [Nodes -> QueryStates]]
           /\ query'[o][n] = q
           /\ \A p \in Ops, m \in Nodes : <<p, m>> # <<o, n>> => query'[p][m] = query[p][m]
<1>1. query \in [Ops -> [Nodes -> QueryStates]]
    BY DEF TypeOK, QueryStates
<1> QED BY <1>1 DEF Becomes

LEMMA FinishedType ==
    ASSUME TypeOK, NEW o \in Ops, NEW n \in Nodes, Finished(o, n)
    PROVE  /\ query' \in [Ops -> [Nodes -> QueryStates]]
           /\ query'[o][n].at = "done" /\ query'[o][n].channel = {}
           /\ query'[o][n].token = NoNode
           /\ \A p \in Ops, m \in Nodes : <<p, m>> # <<o, n>> => query'[p][m] = query[p][m]
<1> DEFINE q == [Unasked EXCEPT !.at = "done"]
<1>1. q \in QueryStates
    BY UnaskedType DEF QueryStates
<1>2. q.at = "done" /\ q.channel = {} /\ q.token = NoNode
    BY DEF Unasked
<1>3. Becomes(o, n, q)
    BY DEF Finished, Becomes
<1> HIDE DEF q
<1>4. /\ query' \in [Ops -> [Nodes -> QueryStates]]
      /\ query'[o][n] = q
      /\ \A p \in Ops, m \in Nodes : <<p, m>> # <<o, n>> => query'[p][m] = query[p][m]
    BY <1>1, <1>3, QueryType
<1> QED BY <1>2, <1>4

LEMMA UnregisterType ==
    ASSUME TypeOK, NEW o \in Ops, NEW n \in Nodes, Unregister(o, n)
    PROVE  /\ pending' \in [TxIds -> Queries \cup {NoQuery}]
           /\ \A tx \in TxIds : pending'[tx] = IF tx = query[o][n].tx THEN NoQuery ELSE pending[tx]
BY DEF Unregister, TypeOK

(* Handing an answer over only ever fills an empty channel. *)
LEMMA HandOverType ==
    ASSUME TypeOK, NEW tx \in TxIds, NEW a \in Answers, HandOver(tx, a)
    PROVE  /\ query' \in [Ops -> [Nodes -> QueryStates]]
           /\ \A o \in Ops, n \in Nodes :
                 /\ query'[o][n].at = query[o][n].at
                 /\ query'[o][n].tx = query[o][n].tx
                 /\ query'[o][n].token = query[o][n].token
                 /\ query'[o][n].names = query[o][n].names
                 /\ \A b \in query'[o][n].channel :
                       \/ b \in query[o][n].channel
                       \/ b = a /\ pending[tx] = [op |-> o, node |-> n]
<1> DEFINE q == pending[tx]
<1>0. query \in [Ops -> [Nodes -> QueryStates]]
    BY DEF TypeOK, QueryStates
<1>1. CASE q = NoQuery
    BY <1>0, <1>1 DEF HandOver
<1>2. CASE q # NoQuery
    <2>1. q \in Queries
        BY <1>2 DEF TypeOK
    <2>2. q.op \in Ops /\ q.node \in Nodes /\ q = [op |-> q.op, node |-> q.node]
        BY <2>1 DEF Queries
    <2> DEFINE c == query[q.op][q.node].channel
               d == IF c = {} THEN {a} ELSE c
               r == [query[q.op][q.node] EXCEPT !.channel = d]
    <2>3. query' = [query EXCEPT ![q.op][q.node].channel = d]
        BY <1>2 DEF HandOver
    <2>4. query[q.op][q.node] \in QueryStates
        BY <1>0, <2>2
    <2>5. d \subseteq Answers
        BY <2>4 DEF QueryStates
    <2>6. r \in QueryStates
        BY <2>4, <2>5 DEF QueryStates
    <2>7. Becomes(q.op, q.node, r)
        BY <1>0, <2>2, <2>3 DEF Becomes
    <2> HIDE DEF r, d, q
    <2>8. /\ query' \in [Ops -> [Nodes -> QueryStates]]
          /\ query'[q.op][q.node] = r
          /\ \A p \in Ops, m \in Nodes :
                <<p, m>> # <<q.op, q.node>> => query'[p][m] = query[p][m]
        BY <2>2, <2>6, <2>7, QueryType
    <2>9. /\ r.at = query[q.op][q.node].at /\ r.tx = query[q.op][q.node].tx
          /\ r.token = query[q.op][q.node].token /\ r.names = query[q.op][q.node].names
          /\ r.channel = d
        BY <2>4 DEF QueryStates, r
    <2>10. \A b \in d : b \in c \/ b = a
        BY DEF d
    <2>11. ASSUME NEW o \in Ops, NEW n \in Nodes
           PROVE  /\ query'[o][n].at = query[o][n].at
                  /\ query'[o][n].tx = query[o][n].tx
                  /\ query'[o][n].token = query[o][n].token
                  /\ query'[o][n].names = query[o][n].names
                  /\ \A b \in query'[o][n].channel :
                        \/ b \in query[o][n].channel
                        \/ b = a /\ pending[tx] = [op |-> o, node |-> n]
        <3>1. CASE o = q.op /\ n = q.node
            BY <2>2, <2>8, <2>9, <2>10, <3>1 DEF q
        <3>2. CASE ~(o = q.op /\ n = q.node)
            BY <2>8, <3>2
        <3> QED BY <3>1, <3>2
    <2> QED BY <2>8, <2>11
<1> QED BY <1>1, <1>2

(* What a lookup has gathered after one more bucket. *)
LEMMA GatheredFacts ==
    ASSUME NEW out \in Seq(Nodes), NEW b \in Seq(Nodes), Len(out) <= K
    PROVE  /\ Gathered(out, b) \in Seq(Nodes)
           /\ Len(Gathered(out, b)) <= K
           /\ Len(Gathered(out, b)) <= Len(out) + Len(b)
           /\ \A i \in 1..Len(Gathered(out, b)) :
                 Gathered(out, b)[i] = IF i <= Len(out) THEN out[i] ELSE b[i - Len(out)]
<1> DEFINE all == out \o b
           m == IF Len(all) < K THEN Len(all) ELSE K
<1>1. /\ all \in Seq(Nodes) /\ Len(all) = Len(out) + Len(b)
      /\ \A i \in 1..Len(all) : all[i] = IF i <= Len(out) THEN out[i] ELSE b[i - Len(out)]
    BY ConcatProperties
<1>2. Gathered(out, b) = SubSeq(all, 1, m)
    BY DEF Gathered
<1> HIDE DEF all
<1>3. m \in Nat /\ m <= Len(all) /\ m <= K
    BY <1>1, Constants
<1>4. \A i \in 1..m : all[i] \in Nodes
    BY <1>1, <1>3
<1> HIDE DEF m
<1>5. /\ SubSeq(all, 1, m) \in Seq(Nodes)
      /\ Len(SubSeq(all, 1, m)) = m
      /\ \A i \in 1..m : SubSeq(all, 1, m)[i] = all[i]
    <2>1. /\ SubSeq(all, 1, m) \in Seq(Nodes)
          /\ Len(SubSeq(all, 1, m)) = IF 1 <= m THEN m - 1 + 1 ELSE 0
          /\ \A i \in 1..(m - 1 + 1) : SubSeq(all, 1, m)[i] = all[1 + i - 1]
        BY <1>3, <1>4, SubSeqProperties
    <2> QED BY <1>3, <2>1
<1> QED BY <1>1, <1>2, <1>3, <1>5

(* A datagram arrives, and with it an answer for whoever is registered. *)
LEMMA ResponseKinds ==
    ASSUME TypeOK, NEW d \in net, HandleResponse(d)
    PROVE  /\ d \in Datagrams /\ ~closed
           /\ AddToTable(d.node)
           /\ \E a \in Answers : a.token = TokenOf(d) /\ HandOver(d.tx, a)
           /\ UNCHANGED <<opVars, pending, tokens, net, closed>>
BY DEF HandleResponse, TypeOK

LEMMA ResponseKeeps ==
    ASSUME TypeOK, NEW d \in net, HandleResponse(d)
    PROVE  \A o \in Ops, n \in Nodes :
              /\ query'[o][n].at = query[o][n].at
              /\ query'[o][n].tx = query[o][n].tx
              /\ query'[o][n].token = query[o][n].token
              /\ \A b \in query'[o][n].channel :
                    \/ b \in query[o][n].channel
                    \/ b.token = TokenOf(d) /\ pending[d.tx] = [op |-> o, node |-> n]
<1>1. PICK a \in Answers : a.token = TokenOf(d) /\ HandOver(d.tx, a)
    BY ResponseKinds
<1>2. d.tx \in TxIds
    BY ResponseKinds DEF Datagrams
<1>3. \A o \in Ops, n \in Nodes :
         /\ query'[o][n].at = query[o][n].at
         /\ query'[o][n].tx = query[o][n].tx
         /\ query'[o][n].token = query[o][n].token
         /\ query'[o][n].names = query[o][n].names
         /\ \A b \in query'[o][n].channel :
               \/ b \in query[o][n].channel
               \/ b = a /\ pending[d.tx] = [op |-> o, node |-> n]
    BY <1>1, <1>2, HandOverType
<1> QED BY <1>1, <1>3

LEMMA TypeOp ==
    ASSUME TypeOK, NEW o \in Ops, OpStep(o), \A p \in Ops : Len(todo[p]) <= K \/ p = Boot,
           stage[Boot] # "gathering"
    PROVE  TypeOK'
<1> USE Constants
<1>0. todo[o] \in Seq(Nodes) /\ \A i \in Buckets : table[i] \in Seq(Nodes)
    BY DEF TypeOK
<1>1. CASE Gather(o)
    <2>1. next[o] \in Buckets /\ Len(todo[o]) <= K
        BY <1>0, <1>1 DEF Gather, TypeOK, Buckets
    <2>2. Gathered(todo[o], table[next[o]]) \in Seq(Nodes)
        BY <1>0, <2>1, GatheredFacts
    <2>3. next[o] + 1 \in 0..Bits
        BY <2>1 DEF Buckets
    <2> QED BY <1>1, <2>2, <2>3 DEF Gather, TypeOK
<1>2. CASE GatherEnds(o)
    BY <1>2 DEF GatherEnds, TypeOK
<1>3. CASE Ask(o)
    <2> DEFINE n == Head(todo[o])
    <2>1. n \in Nodes /\ Tail(todo[o]) \in Seq(Nodes)
        BY <1>0, <1>3, HeadTailProperties DEF Ask
    <2>2. PICK tx \in TxIds :
              /\ query' = [query EXCEPT ![o][n] = [Unasked EXCEPT !.at = "waiting", !.tx = tx]]
              /\ pending' = [pending EXCEPT ![tx] = [op |-> o, node |-> n]]
              /\ Transmit([kind |-> "query", op |-> o, node |-> n, tx |-> tx, token |-> NoNode])
        BY <1>3 DEF Ask
    <2>3. [Unasked EXCEPT !.at = "waiting", !.tx = tx] \in QueryStates
        BY UnaskedType DEF QueryStates
    <2>4. query' \in [Ops -> [Nodes -> QueryStates]]
        <3>1. Becomes(o, n, [Unasked EXCEPT !.at = "waiting", !.tx = tx])
            BY <2>2 DEF Becomes
        <3> QED BY <2>1, <2>3, <3>1, QueryType
    <2>5. [op |-> o, node |-> n] \in Queries
        BY <2>1 DEF Queries
    <2>6. pending' \in [TxIds -> Queries \cup {NoQuery}]
        BY <2>2, <2>5 DEF TypeOK
    <2>7. [kind |-> "query", op |-> o, node |-> n, tx |-> tx, token |-> NoNode] \in Datagrams
        BY <2>1 DEF Datagrams, Tokens
    <2>8. net' \subseteq Datagrams
        BY <2>2, <2>7, TransmitType
    <2>9. todo' \in [Ops -> Seq(Nodes)]
        BY <1>3, <2>1 DEF Ask, TypeOK
    <2>10. UNCHANGED <<table, stage, next, results, told, tokens, closed>>
        BY <1>3 DEF Ask
    <2> QED BY <2>4, <2>6, <2>8, <2>9, <2>10 DEF TypeOK, QueryStates
<1>4. CASE EndAsking(o)
    BY <1>4 DEF EndAsking, TypeOK
<1>5. CASE Tell(o)
    <2>1. PICK r \in results[o] \ told[o], tx \in TxIds :
              /\ told' = [told EXCEPT ![o] = @ \cup {r}]
              /\ Transmit([kind |-> "announce", op |-> o, node |-> r[1], tx |-> tx, token |-> r[2]])
        BY <1>5 DEF Tell
    <2>2. r \in Nodes \X Tokens /\ r[1] \in Nodes /\ r[2] \in Tokens
        BY DEF TypeOK
    <2>3. [kind |-> "announce", op |-> o, node |-> r[1], tx |-> tx, token |-> r[2]] \in Datagrams
        BY <2>2 DEF Datagrams
    <2>4. net' \subseteq Datagrams
        BY <2>1, <2>3, TransmitType
    <2>5. told' \in [Ops -> SUBSET (Nodes \X Tokens)]
        BY <2>1, <2>2 DEF TypeOK
    <2> QED BY <1>5, <2>4, <2>5 DEF Tell, TypeOK
<1>6. CASE EndTelling(o)
    BY <1>6 DEF EndTelling, TypeOK
<1> QED BY <1>1, <1>2, <1>3, <1>4, <1>5, <1>6 DEF OpStep

LEMMA TypeQuery ==
    ASSUME TypeOK, NEW o \in Ops, NEW n \in Nodes, QueryStep(o, n)
    PROVE  TypeOK'
<1> USE Constants
<1>0. query[o][n] \in QueryStates
    BY DEF TypeOK, QueryStates
<1>1. CASE Timeout(o, n)
    <2>1. /\ query' \in [Ops -> [Nodes -> QueryStates]]
          /\ pending' \in [TxIds -> Queries \cup {NoQuery}]
        BY <1>1, FinishedType, UnregisterType DEF Timeout
    <2> QED BY <1>1, <2>1 DEF Timeout, opVars, TypeOK, QueryStates
<1>2. CASE TakeAnswer(o, n)
    <2>1. PICK a \in query[o][n].channel :
              query' = [query EXCEPT ![o][n].at = "adding", ![o][n].channel = {},
                                     ![o][n].token = a.token, ![o][n].names = a.names]
        BY <1>2 DEF TakeAnswer
    <2>2. a.token \in Tokens /\ a.names \in Seq(Nodes)
        BY <1>0, NamesType DEF QueryStates, Answers
    <2> DEFINE q == [query[o][n] EXCEPT !.at = "adding", !.channel = {},
                                        !.token = a.token, !.names = a.names]
    <2>3. q \in QueryStates
        BY <1>0, <2>2 DEF QueryStates
    <2>4. Becomes(o, n, q)
        <3>1. query \in [Ops -> [Nodes -> QueryStates]]
            BY DEF TypeOK, QueryStates
        <3> QED BY <2>1, <3>1 DEF Becomes
    <2> HIDE DEF q
    <2>5. query' \in [Ops -> [Nodes -> QueryStates]]
        BY <2>3, <2>4, QueryType
    <2> QED BY <1>2, <2>5 DEF TakeAnswer, opVars, TypeOK, QueryStates
<1>3. CASE AddName(o, n)
    <2> DEFINE names == query[o][n].names
               q == [query[o][n] EXCEPT !.names = Tail(names)]
    <2>1. names \in Seq(Nodes) /\ names # <<>>
        BY <1>0, <1>3 DEF AddName, QueryStates
    <2>2. Head(names) \in Nodes /\ Tail(names) \in Seq(Nodes)
        BY <2>1, HeadTailProperties
    <2>3. q \in QueryStates
        BY <1>0, <2>2 DEF QueryStates
    <2>4. Becomes(o, n, q)
        BY <1>3 DEF AddName, TypeOK, Becomes
    <2>5. AddToTable(Head(names)) /\ UNCHANGED <<opVars, pending, tokens, net, closed>>
        BY <1>3 DEF AddName
    <2>6. TableOK'
        BY <2>2, <2>5, AddType DEF TypeOK, TableOK
    <2> HIDE DEF q, names
    <2>7. query' \in [Ops -> [Nodes -> QueryStates]]
        BY <2>3, <2>4, QueryType
    <2> QED BY <2>5, <2>6, <2>7 DEF opVars, TypeOK, TableOK, QueryStates
<1>4. CASE Return(o, n)
    <2>1. /\ query' \in [Ops -> [Nodes -> QueryStates]]
          /\ pending' \in [TxIds -> Queries \cup {NoQuery}]
        BY <1>4, FinishedType, UnregisterType DEF Return
    <2>2. query[o][n].token \in Tokens
        BY <1>0 DEF QueryStates
    <2>3. tokens' \in [Nodes -> Tokens] /\ results' \in [Ops -> SUBSET (Nodes \X Tokens)]
        <3>1. CASE o = Boot
            BY <1>4, <3>1 DEF Return, TypeOK
        <3>2. CASE o # Boot
            <4>1. /\ tokens' = IF query[o][n].token = NoNode THEN tokens
                                  ELSE [tokens EXCEPT ![n] = query[o][n].token]
                  /\ results' = [results EXCEPT ![o] = @ \cup {<<n, query[o][n].token>>}]
                BY <1>4, <3>2 DEF Return
            <4> QED BY <2>2, <4>1 DEF TypeOK
        <3> QED BY <3>1, <3>2
    <2>4. UNCHANGED <<table, stage, next, todo, told, net, closed>>
        BY <1>4 DEF Return
    <2> QED BY <2>1, <2>3, <2>4 DEF TypeOK, QueryStates
<1> QED BY <1>1, <1>2, <1>3, <1>4 DEF QueryStep

LEMMA TypeResponse ==
    ASSUME TypeOK, NEW d \in net, HandleResponse(d)
    PROVE  TypeOK'
<1>1. PICK a \in Answers : HandOver(d.tx, a)
    BY ResponseKinds
<1>2. d.node \in Nodes /\ d.tx \in TxIds
    BY ResponseKinds DEF Datagrams
<1>3. query' \in [Ops -> [Nodes -> QueryStates]]
    BY <1>1, <1>2, HandOverType
<1>4. TableOK'
    BY <1>2, ResponseKinds, AddType DEF TypeOK, TableOK
<1> QED BY <1>3, <1>4, ResponseKinds DEF opVars, TypeOK, TableOK, QueryStates

----------------------------------------------------------------------------
\* Nobody is asked twice.

(* What an operation has still to ask: every node once, none it has asked, *)
(* and while it gathers only nodes of the buckets it has passed.           *)
Lists ==
    /\ stage[Boot] # "gathering"
    /\ \A o \in Lookups : Len(todo[o]) <= K
    /\ \A o \in Ops :
          /\ Distinct(todo[o])
          /\ \A i \in 1..Len(todo[o]) : query[o][todo[o][i]].at = "unasked"
          /\ stage[o] = "none" => next[o] = 0 /\ todo[o] = <<>>
          /\ stage[o] \in {"none", "gathering"} => \A n \in Nodes : query[o][n].at = "unasked"
          /\ stage[o] = "gathering" =>
                \A i \in 1..Len(todo[o]) : BucketIndex(Self, todo[o][i]) < next[o]

TypeInv == TypeOK /\ OneEntryPerNode /\ Lists

LEMMA ListsInit == Init => OneEntryPerNode /\ Lists
BY EmptySeq, Constants DEF Init, OneEntryPerNode, Lists, Distinct, Unasked

(* One step of one query. *)
LEMMA QueryKeeps ==
    ASSUME TypeOK, NEW o \in Ops, NEW n \in Nodes, QueryStep(o, n)
    PROVE  /\ query[o][n].at \in {"waiting", "adding"}
           /\ \A p \in Ops, m \in Nodes : <<p, m>> # <<o, n>> => query'[p][m] = query[p][m]
           /\ \/ /\ query'[o][n].at = "adding" /\ query'[o][n].tx = query[o][n].tx
                 /\ pending' = pending
              \/ query'[o][n].at = "done" /\ Unregister(o, n)
           /\ UNCHANGED <<stage, next, todo, told, net, closed>>
<1>0. query[o][n] \in QueryStates /\ query \in [Ops -> [Nodes -> QueryStates]]
    BY DEF TypeOK, QueryStates
<1>1. CASE Timeout(o, n)
    BY <1>1, FinishedType DEF Timeout, opVars
<1>2. CASE TakeAnswer(o, n)
    BY <1>0, <1>2 DEF TakeAnswer, opVars, QueryStates
<1>3. CASE AddName(o, n)
    BY <1>0, <1>3 DEF AddName, opVars, QueryStates
<1>4. CASE Return(o, n)
    BY <1>4, FinishedType DEF Return
<1> QED BY <1>1, <1>2, <1>3, <1>4 DEF QueryStep

LEMMA ListsGather ==
    ASSUME TypeInv, NEW o \in Ops, Gather(o)
    PROVE  Lists'
<1> USE Constants
<1> DEFINE out == todo[o]
           b == table[next[o]]
           g == Gathered(out, b)
<1>1. /\ out \in Seq(Nodes) /\ o \in Lookups /\ Len(out) <= K
      /\ next[o] \in Buckets /\ b \in Seq(Nodes) /\ next[o] \in Nat
    BY DEF Gather, TypeInv, TypeOK, Lists, Buckets, Ops
<1>2. /\ Distinct(out)
      /\ \A i \in 1..Len(out) : BucketIndex(Self, out[i]) < next[o]
      /\ \A n \in Nodes : query[o][n].at = "unasked"
    BY DEF Gather, TypeInv, Lists
<1>3. /\ Distinct(b)
      /\ \A i \in 1..Len(b) : BucketIndex(Self, b[i]) = next[o]
    BY <1>1 DEF TypeInv, OneEntryPerNode, Distinct
<1>4. /\ g \in Seq(Nodes) /\ Len(g) <= K /\ Len(g) <= Len(out) + Len(b)
      /\ \A i \in 1..Len(g) : g[i] = IF i <= Len(out) THEN out[i] ELSE b[i - Len(out)]
    BY <1>1, GatheredFacts
<1>5. /\ todo' = [todo EXCEPT ![o] = g]
      /\ next' = [next EXCEPT ![o] = next[o] + 1]
      /\ UNCHANGED <<stage, query>>
    BY DEF Gather
<1>6. stage[o] = "gathering"
    BY DEF Gather
<1> HIDE DEF g, b, out
<1>7. \A i \in 1..Len(g) : BucketIndex(Self, g[i]) < next[o] + 1
    <2> TAKE i \in 1..Len(g)
    <2>1. CASE i <= Len(out)
        <3>1. i \in 1..Len(out) /\ g[i] = out[i]
            BY <1>1, <1>4, <2>1
        <3>2. BucketIndex(Self, out[i]) < next[o] /\ BucketIndex(Self, out[i]) \in Nat
            <4>1. out[i] \in Nodes
                BY <1>1, <3>1
            <4> QED BY <1>2, <3>1, <4>1, IndexType DEF Buckets
        <3> QED BY <1>1, <3>1, <3>2
    <2>2. CASE ~(i <= Len(out))
        <3>1. i - Len(out) \in 1..Len(b) /\ g[i] = b[i - Len(out)]
            BY <1>1, <1>4, <2>2
        <3>2. BucketIndex(Self, g[i]) = next[o]
            BY <1>3, <3>1
        <3> QED BY <1>1, <3>2
    <2> QED BY <2>1, <2>2
<1>8. Distinct(g)
    <2> SUFFICES ASSUME NEW i \in 1..Len(g), NEW j \in 1..Len(g), g[i] = g[j]
                 PROVE  i = j
        BY DEF Distinct
    <2>1. ASSUME NEW k \in 1..Len(g), k <= Len(out)
          PROVE  /\ k \in 1..Len(out) /\ g[k] = out[k]
                 /\ BucketIndex(Self, g[k]) < next[o]
        BY <1>1, <1>2, <1>4, <2>1
    <2>2. ASSUME NEW k \in 1..Len(g), ~(k <= Len(out))
          PROVE  /\ k - Len(out) \in 1..Len(b) /\ g[k] = b[k - Len(out)]
                 /\ BucketIndex(Self, g[k]) = next[o]
        BY <1>1, <1>3, <1>4, <2>2
    <2>3. CASE i <= Len(out) /\ j <= Len(out)
        BY <1>2, <2>1, <2>3 DEF Distinct
    <2>4. CASE ~(i <= Len(out)) /\ ~(j <= Len(out))
        <3>1. i - Len(out) = j - Len(out)
            BY <1>3, <2>2, <2>4 DEF Distinct
        <3> QED BY <1>1, <1>4, <3>1
    <2>5. ~(i <= Len(out) /\ ~(j <= Len(out))) /\ ~(~(i <= Len(out)) /\ j <= Len(out))
        BY <1>1, <2>1, <2>2
    <2> QED BY <2>3, <2>4, <2>5
<1>9. \A i \in 1..Len(g) : g[i] \in Nodes
    BY <1>4
<1>10. /\ todo'[o] = g /\ next'[o] = next[o] + 1
       /\ \A p \in Ops : p # o => todo'[p] = todo[p] /\ next'[p] = next[p]
    BY <1>5 DEF TypeInv, TypeOK
<1>11. ASSUME NEW p \in Ops
       PROVE  /\ Distinct(todo'[p])
              /\ \A i \in 1..Len(todo'[p]) : query'[p][todo'[p][i]].at = "unasked"
              /\ stage'[p] = "none" => next'[p] = 0 /\ todo'[p] = <<>>
              /\ stage'[p] \in {"none", "gathering"} =>
                    \A n \in Nodes : query'[p][n].at = "unasked"
              /\ stage'[p] = "gathering" =>
                    \A i \in 1..Len(todo'[p]) : BucketIndex(Self, todo'[p][i]) < next'[p]
    <2>1. CASE p = o
        BY <1>2, <1>5, <1>6, <1>7, <1>8, <1>9, <1>10, <2>1
    <2>2. CASE p # o
        BY <1>5, <1>10, <2>2 DEF TypeInv, Lists
    <2> QED BY <2>1, <2>2
<1>12. \A p \in Lookups : Len(todo'[p]) <= K
    BY <1>4, <1>10 DEF TypeInv, Lists
<1> QED BY <1>5, <1>11, <1>12 DEF TypeInv, Lists

LEMMA ListsAsk ==
    ASSUME TypeInv, NEW o \in Ops, Ask(o)
    PROVE  Lists'
<1> USE Constants
<1> DEFINE s == todo[o]
           n == Head(s)
<1>1. /\ s \in Seq(Nodes) /\ s # <<>> /\ Distinct(s)
      /\ \A i \in 1..Len(s) : query[o][s[i]].at = "unasked"
    BY DEF Ask, TypeInv, TypeOK, Lists
<1>2. /\ n \in Nodes /\ n = s[1] /\ Tail(s) \in Seq(Nodes) /\ Len(Tail(s)) = Len(s) - 1
      /\ \A i \in 1..Len(Tail(s)) : Tail(s)[i] = s[i + 1]
    BY <1>1, HeadTailProperties
<1>3. PICK q \in QueryStates : Becomes(o, n, q)
    <2>1. PICK tx \in TxIds :
              query' = [query EXCEPT ![o][n] = [Unasked EXCEPT !.at = "waiting", !.tx = tx]]
        BY DEF Ask
    <2>2. [Unasked EXCEPT !.at = "waiting", !.tx = tx] \in QueryStates
        BY UnaskedType DEF QueryStates
    <2> QED BY <2>1, <2>2 DEF Becomes
<1>4. \A p \in Ops, m \in Nodes : <<p, m>> # <<o, n>> => query'[p][m] = query[p][m]
    BY <1>2, <1>3, QueryType DEF TypeInv
<1>5. /\ stage[o] = "asking" /\ UNCHANGED <<stage, next>>
      /\ todo'[o] = Tail(s) /\ \A p \in Ops : p # o => todo'[p] = todo[p]
    BY DEF Ask, TypeInv, TypeOK
<1> HIDE DEF n, s
<1>6. \A i \in 1..Len(Tail(s)) : i + 1 \in 1..Len(s) /\ i + 1 # 1
    BY <1>1, <1>2
<1>7. /\ Distinct(Tail(s)) /\ \A i \in 1..Len(Tail(s)) : Tail(s)[i] # n /\ Tail(s)[i] \in Nodes
      /\ \A i \in 1..Len(Tail(s)) : query[o][Tail(s)[i]].at = "unasked"
    <2>1. 1 \in 1..Len(s)
        BY <1>1
    <2>2. \A i \in 1..Len(Tail(s)) : Tail(s)[i] # n
        BY <1>1, <1>2, <1>6, <2>1 DEF Distinct
    <2>3. Distinct(Tail(s))
        BY <1>1, <1>2, <1>6 DEF Distinct
    <2> QED BY <1>1, <1>2, <1>6, <2>2, <2>3
<1>8. \A i \in 1..Len(Tail(s)) : query'[o][Tail(s)[i]].at = "unasked"
    BY <1>4, <1>7
<1>9. ASSUME NEW p \in Ops, p # o
      PROVE  \A m \in Nodes : query'[p][m] = query[p][m]
    BY <1>4, <1>9
<1>10. \A p \in Ops : \A i \in 1..Len(todo[p]) : todo[p][i] \in Nodes
    BY DEF TypeInv, TypeOK
<1>11. ASSUME NEW p \in Ops
       PROVE  /\ Distinct(todo'[p])
              /\ \A i \in 1..Len(todo'[p]) : query'[p][todo'[p][i]].at = "unasked"
              /\ stage'[p] = "none" => next'[p] = 0 /\ todo'[p] = <<>>
              /\ stage'[p] \in {"none", "gathering"} =>
                    \A m \in Nodes : query'[p][m].at = "unasked"
              /\ stage'[p] = "gathering" =>
                    \A i \in 1..Len(todo'[p]) : BucketIndex(Self, todo'[p][i]) < next'[p]
    <2>1. CASE p = o
        BY <1>5, <1>7, <1>8, <2>1
    <2>2. CASE p # o
        BY <1>5, <1>9, <1>10, <2>2 DEF TypeInv, Lists
    <2> QED BY <2>1, <2>2
<1>12. \A p \in Lookups : Len(todo'[p]) <= K
    <2> TAKE p \in Lookups
    <2>1. p \in Ops /\ Len(todo[p]) <= K
        BY DEF TypeInv, Lists
    <2>2. CASE p = o
        <3>1. Len(s) \in Nat /\ Len(s) <= K
            BY <1>1, <2>1, <2>2 DEF s
        <3>2. Len(todo'[p]) = Len(s) - 1
            BY <1>2, <1>5, <2>2
        <3> QED BY <3>1, <3>2
    <2>3. CASE p # o
        BY <1>5, <2>1, <2>3
    <2> QED BY <2>2, <2>3
<1> QED BY <1>5, <1>11, <1>12 DEF Lists, TypeInv

(* Steps that leave the lists alone. *)
LEMMA ListsFrame ==
    ASSUME TypeInv, UNCHANGED <<todo, next>>,
           \A o \in Ops, n \in Nodes :
              query[o][n].at = "unasked" => query'[o][n].at = "unasked",
           \A o \in Ops : stage'[o] = stage[o] \/ stage'[o] \notin {"none", "gathering"}
    PROVE  Lists'
<1>1. \A o \in Ops : \A i \in 1..Len(todo[o]) : todo[o][i] \in Nodes
    BY DEF TypeInv, TypeOK
<1>2. ASSUME NEW o \in Ops
      PROVE  /\ Distinct(todo[o])
             /\ \A i \in 1..Len(todo[o]) : query'[o][todo[o][i]].at = "unasked"
             /\ stage'[o] = "none" => next[o] = 0 /\ todo[o] = <<>>
             /\ stage'[o] \in {"none", "gathering"} =>
                   \A n \in Nodes : query'[o][n].at = "unasked"
             /\ stage'[o] = "gathering" =>
                   \A i \in 1..Len(todo[o]) : BucketIndex(Self, todo[o][i]) < next[o]
    BY <1>1 DEF TypeInv, Lists
<1>3. stage'[Boot] # "gathering" /\ \A o \in Lookups : Len(todo[o]) <= K
    BY Constants DEF TypeInv, Lists
<1> QED BY <1>2, <1>3 DEF Lists

LEMMA ListsStart ==
    ASSUME TypeInv, StartBootstrap \/ \E o \in Lookups : StartLookup(o)
    PROVE  TypeOK' /\ Lists'
<1> USE Constants
<1>1. CASE StartBootstrap
    <2>1. /\ stage' = [stage EXCEPT ![Boot] = "asking"]
          /\ todo' = [todo EXCEPT ![Boot] = Routers]
          /\ UNCHANGED <<table, next, results, told, query, pending, tokens, net, closed>>
          /\ stage[Boot] = "none"
        BY <1>1 DEF StartBootstrap
    <2>2. TypeOK'
        BY <2>1 DEF TypeInv, TypeOK
    <2>3. Distinct(Routers) /\ \A i \in 1..Len(Routers) : Routers[i] \in Nodes
        BY DEF Distinct
    <2>4. \A n \in Nodes : query[Boot][n].at = "unasked"
        BY <2>1 DEF TypeInv, Lists
    <2>5. /\ todo'[Boot] = Routers /\ stage'[Boot] = "asking"
          /\ \A o \in Ops : o # Boot => todo'[o] = todo[o] /\ stage'[o] = stage[o]
        BY <2>1 DEF TypeInv, TypeOK
    <2>6. Lists'
        BY <2>1, <2>3, <2>4, <2>5 DEF TypeInv, Lists
    <2> QED BY <2>2, <2>6
<1>2. ASSUME NEW o \in Lookups, StartLookup(o) PROVE TypeOK' /\ Lists'
    <2>1. /\ stage' = [stage EXCEPT ![o] = "gathering"]
          /\ UNCHANGED <<table, next, todo, results, told, query, pending, tokens, net, closed>>
          /\ stage[o] = "none"
        BY <1>2 DEF StartLookup
    <2>2. TypeOK'
        BY <2>1 DEF TypeInv, TypeOK
    <2>3. /\ todo[o] = <<>> /\ o # Boot
          /\ \A n \in Nodes : query[o][n].at = "unasked"
        BY <2>1 DEF TypeInv, Lists
    <2>4. \A i \in 1..Len(todo[o]) : BucketIndex(Self, todo[o][i]) < next[o]
        BY <2>3
    <2>5. stage'[o] = "gathering" /\ \A p \in Ops : p # o => stage'[p] = stage[p]
        BY <2>1 DEF TypeInv, TypeOK
    <2>6. Lists'
        BY <2>1, <2>3, <2>4, <2>5 DEF TypeInv, Lists
    <2> QED BY <2>2, <2>6
<1> QED BY <1>1, <1>2

LEMMA TypeStep == TypeInv /\ [Next]_vars => TypeInv'
<1> SUFFICES ASSUME TypeInv, [Next]_vars PROVE TypeInv'
    OBVIOUS
<1> USE Constants
<1>1. TypeOK /\ TableOK /\ OneEntryPerNode
    BY DEF TypeInv, TypeOK, TableOK
<1>2. table' = table => OneEntryPerNode'
    BY <1>1 DEF OneEntryPerNode
<1>3. CASE StartBootstrap \/ \E o \in Lookups : StartLookup(o)
    BY <1>2, <1>3, ListsStart DEF StartBootstrap, StartLookup, TypeInv
<1>4. CASE \E o \in Ops : OpStep(o)
    <2>1. PICK o \in Ops : OpStep(o)
        BY <1>4
    <2>2. TypeOK'
        <3>1. \A p \in Ops : Len(todo[p]) <= K \/ p = Boot
            BY DEF TypeInv, Lists, Ops
        <3>2. stage[Boot] # "gathering"
            BY DEF TypeInv, Lists
        <3> QED BY <1>1, <2>1, <3>1, <3>2, TypeOp
    <2>3. table' = table
        BY <2>1 DEF OpStep, Gather, GatherEnds, Ask, EndAsking, Tell, EndTelling
    <2>4. CASE Gather(o) \/ Ask(o)
        BY <1>2, <2>2, <2>3, <2>4, ListsGather, ListsAsk DEF TypeInv
    <2>5. CASE GatherEnds(o) \/ EndAsking(o) \/ Tell(o) \/ EndTelling(o)
        <3>1. \A p \in Ops : stage'[p] = stage[p] \/ stage'[p] \notin {"none", "gathering"}
            BY <2>5 DEF GatherEnds, EndAsking, Tell, EndTelling, TypeInv, TypeOK
        <3>2. UNCHANGED <<todo, next, query>>
            BY <2>5 DEF GatherEnds, EndAsking, Tell, EndTelling
        <3>3. Lists'
            BY <3>1, <3>2, ListsFrame
        <3> QED BY <1>2, <2>2, <2>3, <3>3 DEF TypeInv
    <2> QED BY <2>1, <2>4, <2>5 DEF OpStep
<1>5. CASE \E o \in Ops, n \in Nodes : QueryStep(o, n)
    <2>1. PICK o \in Ops, n \in Nodes : QueryStep(o, n)
        BY <1>5
    <2>2. TypeOK'
        BY <1>1, <2>1, TypeQuery
    <2>3. Lists'
        BY <1>1, <2>1, QueryKeeps, ListsFrame
    <2>4. OneEntryPerNode'
        <3>1. CASE AddName(o, n)
            <4>1. query[o][n].names \in Seq(Nodes) /\ query[o][n].names # <<>>
                BY <1>1, <3>1 DEF AddName, TypeOK
            <4>2. Head(query[o][n].names) \in Nodes
                BY <4>1, HeadTailProperties
            <4> QED BY <1>1, <3>1, <4>2, AddOneEntry DEF AddName
        <3>2. CASE ~AddName(o, n)
            BY <1>2, <2>1, <3>2 DEF QueryStep, Timeout, TakeAnswer, Return
        <3> QED BY <3>1, <3>2
    <2> QED BY <2>2, <2>3, <2>4 DEF TypeInv
<1>6. CASE \E d \in net : HandleResponse(d)
    <2>1. PICK d \in net : HandleResponse(d)
        BY <1>6
    <2>2. d.node \in Nodes /\ d.tx \in TxIds /\ AddToTable(d.node)
          /\ UNCHANGED <<opVars, pending, tokens, net, closed>>
        BY <1>1, <2>1, ResponseKinds DEF Datagrams
    <2>4. \A o \in Ops, n \in Nodes : query'[o][n].at = query[o][n].at
        BY <1>1, <2>1, ResponseKeeps
    <2>5. Lists'
        BY <2>2, <2>4, ListsFrame DEF opVars
    <2> QED BY <1>1, <2>1, <2>2, <2>5, TypeResponse, AddOneEntry DEF TypeInv
<1>7. CASE \E n \in Callers : HandleQuery(n)
    <2>1. PICK n \in Callers : HandleQuery(n)
        BY <1>7
    <2>2. n \in Nodes /\ AddToTable(n) /\ UNCHANGED <<opVars, query, pending, tokens, net, closed>>
        BY <2>1 DEF HandleQuery
    <2>3. TableOK' /\ OneEntryPerNode'
        BY <1>1, <2>2, AddType, AddOneEntry
    <2>4. TypeOK'
        BY <1>1, <2>2, <2>3 DEF TypeOK, TableOK, opVars
    <2> QED BY <2>2, <2>3, <2>4, ListsFrame DEF TypeInv, opVars
<1>8. CASE Close
    <2>1. TypeOK' /\ UNCHANGED <<table, opVars, query>>
        BY <1>8 DEF Close, opVars, TypeInv, TypeOK
    <2> QED BY <1>2, <2>1, ListsFrame DEF TypeInv, opVars
<1>9. CASE UNCHANGED vars
    <2>1. TypeOK' /\ UNCHANGED <<table, opVars, query>>
        BY <1>9 DEF vars, opVars, TypeInv, TypeOK
    <2> QED BY <1>2, <2>1, ListsFrame DEF TypeInv, opVars
<1> QED BY <1>3, <1>4, <1>5, <1>6, <1>7, <1>8, <1>9 DEF Next

LEMMA TypeInvariant == Spec => []TypeInv
<1>1. Init => TypeInv
    BY TypeInit, ListsInit DEF TypeInv
<1> QED BY <1>1, TypeStep, PTL DEF Spec

(* Every state of the table, the queries and the operations has its type,  *)
(* and no bucket outgrows K.                                               *)
THEOREM TypeCorrect == Spec => []TypeOK
BY TypeInvariant, PTL DEF TypeInv

(* A bucket holds a node once, and only nodes that belong in it, for every *)
(* order in which answers, queries and named nodes are added.              *)
THEOREM TableHoldsNodesOnce == Spec => []OneEntryPerNode
BY TypeInvariant, PTL DEF TypeInv

----------------------------------------------------------------------------
\* Registrations.

(* The datagram of the query registered under tx. *)
Asked(tx) == [kind |-> "query", op |-> pending[tx].op, node |-> pending[tx].node,
              tx |-> tx, token |-> NoNode]

(* A registration is of a query that waits for it and that has been sent. *)
PendingInv ==
    /\ PendingIsOpen
    /\ \A tx \in TxIds : pending[tx] # NoQuery => closed \/ Asked(tx) \in net

LEMMA RegisteredType ==
    ASSUME TypeOK, NEW tx \in TxIds, pending[tx] # NoQuery
    PROVE  /\ pending[tx].op \in Ops /\ pending[tx].node \in Nodes
           /\ pending[tx] = [op |-> pending[tx].op, node |-> pending[tx].node]
BY DEF TypeOK, Queries

LEMMA PendingFrame ==
    ASSUME TypeOK, PendingInv, UNCHANGED pending, net \subseteq net', closed => closed',
           \A o \in Ops, n \in Nodes :
              /\ query[o][n].at \in {"waiting", "adding"} =>
                    query'[o][n].at \in {"waiting", "adding"}
              /\ query'[o][n].tx = query[o][n].tx
    PROVE  PendingInv'
<1> SUFFICES ASSUME NEW tx \in TxIds, pending[tx] # NoQuery
             PROVE  /\ query'[pending[tx].op][pending[tx].node].at \in {"waiting", "adding"}
                    /\ query'[pending[tx].op][pending[tx].node].tx = tx
                    /\ closed' \/ Asked(tx) \in net'
    BY DEF PendingInv, PendingIsOpen, Asked
<1> QED BY RegisteredType DEF PendingInv, PendingIsOpen

LEMMA PendingAsk ==
    ASSUME TypeInv, PendingInv, NEW o \in Ops, Ask(o)
    PROVE  PendingInv'
<1> DEFINE s == todo[o]
           n == Head(s)
<1>1. n \in Nodes /\ query[o][n].at = "unasked"
    <2>1. s \in Seq(Nodes) /\ s # <<>>
        BY DEF Ask, TypeInv, TypeOK
    <2>2. n = s[1] /\ 1 \in 1..Len(s) /\ n \in Nodes
        BY <2>1
    <2> HIDE DEF n
    <2> QED BY <2>2 DEF TypeInv, Lists
<1>2. PICK t \in TxIds :
          /\ query' = [query EXCEPT ![o][n] = [Unasked EXCEPT !.at = "waiting", !.tx = t]]
          /\ pending' = [pending EXCEPT ![t] = [op |-> o, node |-> n]]
          /\ Transmit([kind |-> "query", op |-> o, node |-> n, tx |-> t, token |-> NoNode])
    BY DEF Ask
<1> DEFINE q == [Unasked EXCEPT !.at = "waiting", !.tx = t]
<1>3. q \in QueryStates /\ q.at = "waiting" /\ q.tx = t
    BY UnaskedType DEF QueryStates, Unasked
<1>4. Becomes(o, n, q)
    BY <1>2 DEF Becomes
<1> HIDE DEF n, q
<1>5. /\ query' \in [Ops -> [Nodes -> QueryStates]]
      /\ query'[o][n] = q
      /\ \A p \in Ops, m \in Nodes : <<p, m>> # <<o, n>> => query'[p][m] = query[p][m]
    <2>1. TypeOK
        BY DEF TypeInv
    <2>2. n \in Nodes
        BY <1>1
    <2>3. q \in QueryStates
        BY <1>3
    <2> QED BY <1>4, <2>1, <2>2, <2>3, QueryType
<1>6. /\ pending'[t] = [op |-> o, node |-> n]
      /\ \A tx \in TxIds : tx # t => pending'[tx] = pending[tx]
    BY <1>2 DEF TypeInv, TypeOK
<1>7. /\ closed' = closed /\ net \subseteq net'
      /\ ~closed => [kind |-> "query", op |-> o, node |-> n, tx |-> t, token |-> NoNode] \in net'
    BY <1>2 DEF Ask, Transmit
<1>8. ASSUME NEW tx \in TxIds, pending'[tx] # NoQuery
      PROVE  /\ query'[pending'[tx].op][pending'[tx].node].at \in {"waiting", "adding"}
             /\ query'[pending'[tx].op][pending'[tx].node].tx = tx
             /\ closed' \/ Asked(tx)' \in net'
    <2>1. CASE tx = t
        BY <1>3, <1>5, <1>6, <1>7, <2>1 DEF Asked
    <2>2. CASE tx # t
        <3>1. pending'[tx] = pending[tx] /\ pending[tx] # NoQuery
            BY <1>6, <1>8, <2>2
        <3>2. /\ pending[tx].op \in Ops /\ pending[tx].node \in Nodes
              /\ query[pending[tx].op][pending[tx].node].at \in {"waiting", "adding"}
              /\ query[pending[tx].op][pending[tx].node].tx = tx
            BY <3>1, RegisteredType DEF TypeInv, PendingInv, PendingIsOpen
        <3>3. ~(pending[tx].op = o /\ pending[tx].node = n)
            BY <1>1, <3>2
        <3>4. query'[pending[tx].op][pending[tx].node] = query[pending[tx].op][pending[tx].node]
            BY <1>5, <3>2, <3>3
        <3> QED BY <1>7, <3>1, <3>2, <3>4 DEF PendingInv, Asked
    <2> QED BY <2>1, <2>2
<1> QED BY <1>8 DEF PendingInv, PendingIsOpen

LEMMA PendingQuery ==
    ASSUME TypeOK, PendingInv, NEW o \in Ops, NEW n \in Nodes, QueryStep(o, n)
    PROVE  PendingInv'
<1>1. /\ \A p \in Ops, m \in Nodes : <<p, m>> # <<o, n>> => query'[p][m] = query[p][m]
      /\ UNCHANGED <<net, closed>>
    BY QueryKeeps
<1>2. CASE /\ query'[o][n].at = "adding" /\ query'[o][n].tx = query[o][n].tx
           /\ pending' = pending
    <2>1. ASSUME NEW p \in Ops, NEW m \in Nodes
          PROVE  /\ query[p][m].at \in {"waiting", "adding"} =>
                       query'[p][m].at \in {"waiting", "adding"}
                 /\ query'[p][m].tx = query[p][m].tx
        BY <1>1, <1>2
    <2> QED BY <1>1, <1>2, <2>1, PendingFrame
<1>3. CASE Unregister(o, n)
    <2>1. \A tx \in TxIds :
              pending'[tx] = IF tx = query[o][n].tx THEN NoQuery ELSE pending[tx]
        BY <1>3, UnregisterType
    <2>2. ASSUME NEW tx \in TxIds, pending'[tx] # NoQuery
          PROVE  /\ query'[pending'[tx].op][pending'[tx].node].at \in {"waiting", "adding"}
                 /\ query'[pending'[tx].op][pending'[tx].node].tx = tx
                 /\ closed' \/ Asked(tx)' \in net'
        <3>1. pending'[tx] = pending[tx] /\ pending[tx] # NoQuery /\ tx # query[o][n].tx
            BY <2>1, <2>2
        <3>2. /\ pending[tx].op \in Ops /\ pending[tx].node \in Nodes
              /\ query[pending[tx].op][pending[tx].node].at \in {"waiting", "adding"}
              /\ query[pending[tx].op][pending[tx].node].tx = tx
            BY <3>1, RegisteredType DEF PendingInv, PendingIsOpen
        <3>3. ~(pending[tx].op = o /\ pending[tx].node = n)
            BY <3>1, <3>2
        <3>4. query'[pending[tx].op][pending[tx].node] = query[pending[tx].op][pending[tx].node]
            BY <1>1, <3>2, <3>3
        <3> QED BY <1>1, <3>1, <3>2, <3>4 DEF PendingInv, Asked
    <2> QED BY <2>2 DEF PendingInv, PendingIsOpen
<1> QED BY <1>2, <1>3, QueryKeeps

(* Datagrams are never taken back, and a closed node stays so. *)
LEMMA NetGrows ==
    ASSUME TypeInv, [Next]_vars
    PROVE  net \subseteq net' /\ (closed => closed')
<1>1. CASE \E o \in Ops : OpStep(o)
    <2>1. PICK o \in Ops : OpStep(o)
        BY <1>1
    <2>2. CASE Ask(o) \/ Tell(o)
        <3>1. PICK d : Transmit(d)
            BY <2>2 DEF Ask, Tell
        <3>2. closed' = closed
            BY <2>2 DEF Ask, Tell
        <3> QED BY <3>1, <3>2 DEF Transmit
    <2>3. CASE Gather(o) \/ GatherEnds(o) \/ EndAsking(o) \/ EndTelling(o)
        BY <2>3 DEF Gather, GatherEnds, EndAsking, EndTelling
    <2> QED BY <2>1, <2>2, <2>3 DEF OpStep
<1>2. CASE \E o \in Ops, n \in Nodes : QueryStep(o, n)
    BY <1>2, QueryKeeps DEF TypeInv
<1> QED BY <1>1, <1>2 DEF Next, StartBootstrap, StartLookup, HandleResponse, HandleQuery,
        Close, vars

LEMMA PendingStep == TypeInv /\ PendingInv /\ [Next]_vars => PendingInv'
<1> SUFFICES ASSUME TypeInv, PendingInv, [Next]_vars PROVE PendingInv'
    OBVIOUS
<1>0. TypeOK /\ net \subseteq net' /\ (closed => closed')
    BY NetGrows DEF TypeInv
<1>1. CASE UNCHANGED <<query, pending>>
    BY <1>0, <1>1, PendingFrame
<1>2. CASE \E o \in Ops : OpStep(o)
    <2>1. PICK o \in Ops : OpStep(o) BY <1>2
    <2>2. CASE Ask(o) BY <2>2, PendingAsk
    <2>3. CASE ~Ask(o)
        BY <1>1, <2>1, <2>3 DEF OpStep, Gather, GatherEnds, EndAsking, Tell, EndTelling
    <2> QED BY <2>2, <2>3
<1>3. CASE \E o \in Ops, n \in Nodes : QueryStep(o, n)
    BY <1>0, <1>3, PendingQuery
<1>4. CASE \E d \in net : HandleResponse(d)
    <2>1. PICK d \in net : HandleResponse(d) BY <1>4
    <2>2. UNCHANGED pending BY <2>1 DEF HandleResponse
    <2>3. \A o \in Ops, n \in Nodes :
              query'[o][n].at = query[o][n].at /\ query'[o][n].tx = query[o][n].tx
        BY <1>0, <2>1, ResponseKeeps
    <2> QED BY <1>0, <2>2, <2>3, PendingFrame
<1> QED BY <1>1, <1>2, <1>3, <1>4 DEF Next, StartBootstrap, StartLookup, HandleQuery, Close, vars

LEMMA PendingInvariant == Spec => []PendingInv
<1>1. Init => PendingInv
    BY DEF Init, PendingInv, PendingIsOpen
<1> QED BY <1>1, TypeInvariant, PendingStep, PTL DEF Spec

(* Nothing stays registered that no query waits for, although queries that *)
(* share an identifier delete each other's registration: a query deletes   *)
(* whatever stands under its identifier, so also its own.                  *)
THEOREM NoRegistrationOutlives == Spec => []PendingIsOpen
BY PendingInvariant, PTL DEF PendingInv

----------------------------------------------------------------------------
\* Tokens.

(* Wherever a token is on its way from the node that issued it to the      *)
(* announce_peer that takes it back, it is with that node's name.          *)
TokensRight ==
    /\ \A n \in Nodes : tokens[n] \in {n, NoNode}
    /\ \A o \in Ops, n \in Nodes :
          /\ query[o][n].token \in {n, NoNode}
          /\ \A b \in query[o][n].channel : b.token \in {n, NoNode}
    /\ \A o \in Ops : \A r \in results[o] : r[2] \in {r[1], NoNode}
    /\ \A d \in net : d.kind = "announce" => d.token = d.node

TokenInv == ~Repeated => TokensRight

LEMMA TokenOp ==
    ASSUME TypeInv, TokensRight, NEW o \in Ops, OpStep(o)
    PROVE  TokensRight'
<1>1. UNCHANGED <<tokens, results>>
    BY DEF OpStep, Gather, GatherEnds, Ask, EndAsking, Tell, EndTelling
<1>2. CASE UNCHANGED <<query, net>>
    BY <1>1, <1>2 DEF TokensRight
<1>3. CASE Ask(o)
    <2> DEFINE n == Head(todo[o])
    <2>1. PICK tx \in TxIds :
              /\ query' = [query EXCEPT ![o][n] = [Unasked EXCEPT !.at = "waiting", !.tx = tx]]
              /\ Transmit([kind |-> "query", op |-> o, node |-> n, tx |-> tx, token |-> NoNode])
        BY <1>3 DEF Ask
    <2> DEFINE q == [Unasked EXCEPT !.at = "waiting", !.tx = tx]
    <2>2. q \in QueryStates /\ q.token = NoNode /\ q.channel = {}
        BY UnaskedType DEF QueryStates, Unasked
    <2>3. todo[o] \in Seq(Nodes) /\ todo[o] # <<>>
        BY <1>3 DEF Ask, TypeInv, TypeOK
    <2>4. n \in Nodes
        BY <2>3, HeadTailProperties
    <2>5. Becomes(o, n, q)
        BY <2>1 DEF Becomes
    <2> HIDE DEF q
    <2>6. /\ query' \in [Ops -> [Nodes -> QueryStates]]
          /\ query'[o][n] = q
          /\ \A p \in Ops, m \in Nodes : <<p, m>> # <<o, n>> => query'[p][m] = query[p][m]
        <3>1. TypeOK /\ q \in QueryStates
            BY <2>2 DEF TypeInv
        <3> QED BY <2>4, <2>5, <3>1, QueryType
    <2>7. \A d \in net' : d.kind = "announce" => d.token = d.node
        BY <2>1 DEF Transmit, TokensRight
    <2>8. ASSUME NEW p \in Ops, NEW m \in Nodes
          PROVE  /\ query'[p][m].token \in {m, NoNode}
                 /\ \A b \in query'[p][m].channel : b.token \in {m, NoNode}
        BY <2>2, <2>6 DEF TokensRight
    <2> QED BY <1>1, <2>7, <2>8 DEF TokensRight
<1>4. CASE Tell(o)
    <2>1. PICK r \in results[o] \ told[o], tx \in TxIds :
              /\ r[2] # NoNode
              /\ Transmit([kind |-> "announce", op |-> o, node |-> r[1], tx |-> tx, token |-> r[2]])
        BY <1>4 DEF Tell
    <2>2. r[2] = r[1]
        BY <2>1 DEF TokensRight
    <2>3. \A d \in net' : d.kind = "announce" => d.token = d.node
        BY <2>1, <2>2 DEF Transmit, TokensRight
    <2>4. UNCHANGED query
        BY <1>4 DEF Tell
    <2> QED BY <1>1, <2>3, <2>4 DEF TokensRight
<1>5. CASE Gather(o) \/ GatherEnds(o) \/ EndAsking(o) \/ EndTelling(o)
    BY <1>2, <1>5 DEF Gather, GatherEnds, EndAsking, EndTelling
<1> QED BY <1>3, <1>4, <1>5 DEF OpStep

LEMMA TokenQuery ==
    ASSUME TypeOK, TokensRight, NEW o \in Ops, NEW n \in Nodes, QueryStep(o, n)
    PROVE  TokensRight'
<1>0. query[o][n] \in QueryStates /\ query \in [Ops -> [Nodes -> QueryStates]]
    BY DEF TypeOK, QueryStates
<1>1. /\ \A p \in Ops, m \in Nodes : <<p, m>> # <<o, n>> => query'[p][m] = query[p][m]
      /\ UNCHANGED net
    BY QueryKeeps
<1>2. /\ query'[o][n].token \in {n, NoNode}
      /\ \A b \in query'[o][n].channel : b.token \in {n, NoNode}
    <2>1. CASE Timeout(o, n) \/ Return(o, n)
        BY <2>1, FinishedType DEF Timeout, Return
    <2>2. CASE TakeAnswer(o, n)
        <3>1. PICK a \in query[o][n].channel :
                  query' = [query EXCEPT ![o][n].at = "adding", ![o][n].channel = {},
                                         ![o][n].token = a.token, ![o][n].names = a.names]
            BY <2>2 DEF TakeAnswer
        <3>2. query'[o][n].token = a.token /\ query'[o][n].channel = {}
            BY <1>0, <3>1 DEF QueryStates
        <3> QED BY <3>2 DEF TokensRight
    <2>3. CASE AddName(o, n)
        <3>1. /\ query'[o][n].token = query[o][n].token
              /\ query'[o][n].channel = query[o][n].channel
            BY <1>0, <2>3 DEF AddName, QueryStates
        <3> QED BY <3>1 DEF TokensRight
    <2> QED BY <2>1, <2>2, <2>3 DEF QueryStep
<1>3. ASSUME NEW p \in Ops, NEW m \in Nodes
      PROVE  /\ query'[p][m].token \in {m, NoNode}
             /\ \A b \in query'[p][m].channel : b.token \in {m, NoNode}
    BY <1>1, <1>2 DEF TokensRight
<1>4. CASE UNCHANGED <<tokens, results>>
    BY <1>1, <1>3, <1>4 DEF TokensRight
<1>5. CASE Return(o, n) /\ o # Boot
    <2>1. query[o][n].token \in {n, NoNode}
        BY DEF TokensRight
    <2>2. /\ tokens' = IF query[o][n].token = NoNode THEN tokens
                          ELSE [tokens EXCEPT ![n] = query[o][n].token]
          /\ results' = [results EXCEPT ![o] = @ \cup {<<n, query[o][n].token>>}]
        BY <1>5 DEF Return
    <2>3. \A m \in Nodes : tokens'[m] \in {m, NoNode}
        BY <2>1, <2>2 DEF TokensRight, TypeOK
    <2>4. \A p \in Ops : \A r \in results'[p] : r \in results[p] \/ r = <<n, query[o][n].token>>
        BY <2>2 DEF TypeOK
    <2>5. \A p \in Ops : \A r \in results'[p] : r[2] \in {r[1], NoNode}
        BY <2>1, <2>4 DEF TokensRight
    <2> QED BY <1>1, <1>3, <2>3, <2>5 DEF TokensRight
<1> QED BY <1>4, <1>5 DEF QueryStep, Timeout, TakeAnswer, AddName, Return, opVars

(* The query that is handed an answer is the one the answer is to. *)
LEMMA TokenResponse ==
    ASSUME TypeOK, PendingInv, ~Repeated, TokensRight, NEW d \in net, HandleResponse(d)
    PROVE  TokensRight'
<1>1. d \in Datagrams /\ ~closed /\ d.tx \in TxIds /\ UNCHANGED <<results, tokens, net>>
    BY ResponseKinds DEF opVars, Datagrams
<1>2. ASSUME NEW o \in Ops, NEW n \in Nodes
      PROVE  /\ query'[o][n].token \in {n, NoNode}
             /\ \A b \in query'[o][n].channel : b.token \in {n, NoNode}
    <2>1. /\ query'[o][n].token = query[o][n].token
          /\ \A b \in query'[o][n].channel :
                \/ b \in query[o][n].channel
                \/ b.token = TokenOf(d) /\ pending[d.tx] = [op |-> o, node |-> n]
        BY ResponseKeeps
    <2>2. CASE pending[d.tx] = [op |-> o, node |-> n]
        <3>1. pending[d.tx] # NoQuery /\ pending[d.tx].node = n
            BY <2>2, Constants DEF NoQuery
        <3>2. Asked(d.tx) \in net /\ Asked(d.tx).tx = d.tx /\ Asked(d.tx).node = n
            BY <1>1, <3>1 DEF PendingInv, Asked
        <3>3. d = Asked(d.tx)
            BY <3>2 DEF Repeated
        <3>4. TokenOf(d) \in {n, NoNode}
            BY <3>2, <3>3 DEF TokenOf
        <3> QED BY <2>1, <3>4 DEF TokensRight
    <2>3. CASE pending[d.tx] # [op |-> o, node |-> n]
        BY <2>1, <2>3 DEF TokensRight
    <2> QED BY <2>2, <2>3
<1> QED BY <1>1, <1>2 DEF TokensRight

LEMMA TokenStep == TypeInv /\ PendingInv /\ TokenInv /\ [Next]_vars => TokenInv'
<1> SUFFICES ASSUME TypeInv, PendingInv, TokenInv, [Next]_vars, ~Repeated' PROVE TokensRight'
    BY DEF TokenInv
<1>0. TypeOK /\ ~Repeated /\ TokensRight
    BY NetGrows DEF TypeInv, TokenInv, Repeated
<1>1. CASE UNCHANGED <<query, results, tokens, net>>
    BY <1>0, <1>1 DEF TokensRight
<1>2. CASE \E o \in Ops : OpStep(o)
    BY <1>0, <1>2, TokenOp
<1>3. CASE \E o \in Ops, n \in Nodes : QueryStep(o, n)
    BY <1>0, <1>3, TokenQuery
<1>4. CASE \E d \in net : HandleResponse(d)
    BY <1>0, <1>4, TokenResponse
<1> QED BY <1>1, <1>2, <1>3, <1>4
        DEF Next, StartBootstrap, StartLookup, HandleQuery, Close, vars, opVars

LEMMA TokenInvariant == Spec => []TokenInv
<1>1. Init => TokenInv
    BY DEF Init, TokenInv, TokensRight, Unasked
<1> QED BY <1>1, TypeInvariant, PendingInvariant, TokenStep, PTL DEF Spec

(* Unless an identifier was repeated, a node is only ever given the token  *)
(* it issued: what arrives under an identifier is an answer to the query   *)
(* registered under it, at whatever moment and however often it arrives.   *)
THEOREM TokensGoHome == Spec => []TokenIsOwn
<1>1. TokenInv => TokenIsOwn
    BY DEF TokenInv, TokensRight, TokenIsOwn
<1> QED BY <1>1, TokenInvariant, PTL

----------------------------------------------------------------------------
\* Announcing.

(* What an operation has sent, and that nothing of it runs any more once   *)
(* it has begun to send. *)
ToldOf(o) ==
    /\ \A r \in told[o] :
          \/ closed
          \/ \E d \in net : d.kind = "announce" /\ d.op = o /\ d.node = r[1] /\ d.token = r[2]
    /\ stage[o] \in {"telling", "done"} =>
          \A n \in Nodes : query[o][n].at \in {"unasked", "done"}
    /\ stage[o] = "done" /\ o \in Announces =>
          \A r \in results[o] : r[2] # NoNode => r \in told[o]

ToldInv == \A o \in Ops : ToldOf(o)

LEMMA ToldFrame ==
    ASSUME NEW o \in Ops, ToldOf(o), net \subseteq net', closed => closed',
           told'[o] = told[o], results'[o] = results[o],
           stage'[o] = stage[o] \/ stage'[o] \notin {"telling", "done"},
           \A n \in Nodes : query'[o][n].at = query[o][n].at
    PROVE  ToldOf(o)'
BY DEF ToldOf

LEMMA ToldOwnStep ==
    ASSUME TypeInv, NEW o \in Ops, ToldOf(o), OpStep(o), [Next]_vars
    PROVE  ToldOf(o)'
<1>0. net \subseteq net' /\ (closed => closed')
    BY NetGrows
<1>1. CASE Gather(o) \/ GatherEnds(o)
    <2>1. UNCHANGED <<told, results, query>>
        BY <1>1 DEF Gather, GatherEnds
    <2>2. stage'[o] = stage[o] \/ stage'[o] \notin {"telling", "done"}
        BY <1>1 DEF Gather, GatherEnds, TypeInv, TypeOK
    <2> QED BY <1>0, <2>1, <2>2, ToldFrame
<1>2. CASE Ask(o)
    BY <1>0, <1>2 DEF Ask, ToldOf
<1>3. CASE EndAsking(o)
    <2>1. /\ UNCHANGED <<told, results, query>> /\ Running(o) = {}
          /\ o \in Announces => stage'[o] = "telling"
        BY <1>3 DEF EndAsking, AllReturned, TypeInv, TypeOK
    <2>2. \A n \in Nodes : query[o][n].at \in {"unasked", "done"}
        BY <2>1 DEF Running, TypeInv, TypeOK
    <2> QED BY <1>0, <2>1, <2>2 DEF ToldOf
<1>4. CASE Tell(o)
    <2>1. PICK r \in results[o] \ told[o], tx \in TxIds :
              /\ told' = [told EXCEPT ![o] = @ \cup {r}]
              /\ Transmit([kind |-> "announce", op |-> o, node |-> r[1], tx |-> tx, token |-> r[2]])
        BY <1>4 DEF Tell
    <2>2. /\ told'[o] = told[o] \cup {r} /\ UNCHANGED <<stage, results, query>>
          /\ stage[o] = "telling"
        BY <1>4, <2>1 DEF Tell, TypeInv, TypeOK
    <2>3. \/ closed'
          \/ \E d \in net' : d.kind = "announce" /\ d.op = o /\ d.node = r[1] /\ d.token = r[2]
        <3> DEFINE d == [kind |-> "announce", op |-> o, node |-> r[1], tx |-> tx, token |-> r[2]]
        <3>1. closed \/ d \in net'
            BY <2>1 DEF Transmit
        <3>2. d.kind = "announce" /\ d.op = o /\ d.node = r[1] /\ d.token = r[2]
            OBVIOUS
        <3> HIDE DEF d
        <3> QED BY <1>0, <3>1, <3>2
    <2> QED BY <1>0, <2>2, <2>3 DEF ToldOf
<1>5. CASE EndTelling(o)
    <2>1. /\ \A r \in results[o] \ told[o] : r[2] = NoNode
          /\ stage[o] = "telling" /\ UNCHANGED <<told, results, query>>
        BY <1>5 DEF EndTelling
    <2> QED BY <1>0, <2>1 DEF ToldOf
<1> QED BY <1>1, <1>2, <1>3, <1>4, <1>5 DEF OpStep

(* A step of one operation leaves the others alone. *)
LEMMA OthersKept ==
    ASSUME TypeInv, NEW o \in Ops, OpStep(o), NEW p \in Ops, p # o
    PROVE  /\ told'[p] = told[p] /\ results'[p] = results[p] /\ stage'[p] = stage[p]
           /\ \A n \in Nodes : query'[p][n] = query[p][n]
<1>1. CASE Ask(o)
    BY <1>1 DEF Ask, TypeInv, TypeOK
<1>2. CASE ~Ask(o)
    BY <1>2 DEF OpStep, Gather, GatherEnds, EndAsking, Tell, EndTelling, TypeInv, TypeOK
<1> QED BY <1>1, <1>2

LEMMA ToldStep == TypeInv /\ ToldInv /\ [Next]_vars => ToldInv'
<1> SUFFICES ASSUME TypeInv, ToldInv, [Next]_vars, NEW p \in Ops PROVE ToldOf(p)'
    BY DEF ToldInv
<1>0. TypeOK /\ ToldOf(p) /\ net \subseteq net' /\ (closed => closed')
    BY NetGrows DEF TypeInv, ToldInv
<1>1. CASE UNCHANGED <<stage, told, results, query>>
    BY <1>0, <1>1, ToldFrame
<1>2. CASE StartBootstrap \/ \E o \in Lookups : StartLookup(o)
    <2>1. UNCHANGED <<told, results, query>>
        BY <1>2 DEF StartBootstrap, StartLookup
    <2>2. stage'[p] = stage[p] \/ stage'[p] \notin {"telling", "done"}
        BY <1>0, <1>2, Constants DEF StartBootstrap, StartLookup, TypeOK
    <2> QED BY <1>0, <2>1, <2>2, ToldFrame
<1>3. CASE \E o \in Ops : OpStep(o)
    <2>1. PICK o \in Ops : OpStep(o) BY <1>3
    <2>2. CASE p = o
        BY <1>0, <2>1, <2>2, ToldOwnStep
    <2>3. CASE p # o
        BY <1>0, <2>1, <2>3, OthersKept, ToldFrame
    <2> QED BY <2>2, <2>3
<1>4. CASE \E o \in Ops, n \in Nodes : QueryStep(o, n)
    <2>1. PICK o \in Ops, n \in Nodes : QueryStep(o, n) BY <1>4
    <2>2. /\ query[o][n].at \in {"waiting", "adding"}
          /\ \A q \in Ops, m \in Nodes : <<q, m>> # <<o, n>> => query'[q][m] = query[q][m]
          /\ UNCHANGED <<stage, told, net, closed>>
        BY <1>0, <2>1, QueryKeeps
    <2>3. CASE p = o
        <3>1. stage[o] \notin {"telling", "done"}
            BY <1>0, <2>2, <2>3 DEF ToldOf
        <3> QED BY <1>0, <2>2, <2>3, <3>1 DEF ToldOf
    <2>4. CASE p # o
        <3>1. results'[p] = results[p]
            BY <1>0, <2>1, <2>4
               DEF QueryStep, Timeout, TakeAnswer, AddName, Return, opVars, TypeOK
        <3> QED BY <1>0, <2>2, <2>4, <3>1, ToldFrame
    <2> QED BY <2>3, <2>4
<1>5. CASE \E d \in net : HandleResponse(d)
    <2>1. PICK d \in net : HandleResponse(d) BY <1>5
    <2>2. UNCHANGED <<stage, told, results>>
        BY <2>1 DEF HandleResponse, opVars
    <2>3. \A n \in Nodes : query'[p][n].at = query[p][n].at
        BY <1>0, <2>1, ResponseKeeps
    <2> QED BY <1>0, <2>2, <2>3, ToldFrame
<1> QED BY <1>1, <1>2, <1>3, <1>4, <1>5 DEF Next, HandleQuery, Close, vars, opVars

LEMMA ToldInvariant == Spec => []ToldInv
<1>1. Init => ToldInv
    BY DEF Init, ToldInv, ToldOf
<1> QED BY <1>1, TypeInvariant, ToldStep, PTL DEF Spec

(* When Announce returns none of its queries runs any more, and whoever    *)
(* gave it a token has been sent announce_peer, for every order in which   *)
(* answers and timeouts come.                                              *)
THEOREM RespondersAreTold == Spec => []EveryResponderTold
<1>1. ToldInv => EveryResponderTold
    BY Constants DEF ToldInv, ToldOf, EveryResponderTold
<1> QED BY <1>1, ToldInvariant, PTL

----------------------------------------------------------------------------
\* Each node once.

Onwards(o, n) ==
    query'[o][n].at # query[o][n].at =>
       <<query[o][n].at, query'[o][n].at>> \in
          {<<"unasked", "waiting">>, <<"waiting", "adding">>,
           <<"waiting", "done">>, <<"adding", "done">>}

(* The node that is asked next has not been asked: what a lookup gathers   *)
(* holds a node once (Lists), and nobody else asks in its name.            *)
LEMMA AskOnwards ==
    ASSUME TypeInv, NEW o \in Ops, Ask(o)
    PROVE  /\ \A p \in Ops, n \in Nodes : Onwards(p, n)
           /\ \A p \in Ops, n \in Nodes :
                 query[p][n].at = "done" => query'[p][n] = query[p][n]
<1> DEFINE m == Head(todo[o])
<1>1. todo[o] \in Seq(Nodes) /\ todo[o] # <<>>
    BY DEF Ask, TypeInv, TypeOK
<1>2. m \in Nodes /\ m = todo[o][1] /\ 1 \in 1..Len(todo[o])
    BY <1>1, HeadTailProperties
<1>3. query[o][m].at = "unasked"
    BY <1>2 DEF TypeInv, Lists
<1>4. PICK q \in QueryStates : Becomes(o, m, q) /\ q.at = "waiting"
    <2>1. PICK tx \in TxIds :
              query' = [query EXCEPT ![o][m] = [Unasked EXCEPT !.at = "waiting", !.tx = tx]]
        BY DEF Ask
    <2>2. /\ [Unasked EXCEPT !.at = "waiting", !.tx = tx] \in QueryStates
          /\ [Unasked EXCEPT !.at = "waiting", !.tx = tx].at = "waiting"
        BY UnaskedType DEF QueryStates, Unasked
    <2> QED BY <2>1, <2>2 DEF Becomes
<1> HIDE DEF m
<1>6. /\ query'[o][m] = q
      /\ \A p \in Ops, n \in Nodes : <<p, n>> # <<o, m>> => query'[p][n] = query[p][n]
    BY <1>2, <1>4, QueryType DEF TypeInv
<1> QED BY <1>3, <1>4, <1>6 DEF Onwards

LEMMA StepOnwards ==
    ASSUME TypeInv, [Next]_vars, NEW p \in Ops, NEW m \in Nodes
    PROVE  Onwards(p, m)
<1>1. CASE query' = query
    BY <1>1 DEF Onwards
<1>2. CASE \E o \in Ops : OpStep(o)
    <2>1. CASE \E o \in Ops : Ask(o)
        BY <2>1, AskOnwards
    <2>2. CASE ~\E o \in Ops : Ask(o)
        BY <1>1, <1>2, <2>2 DEF OpStep, Gather, GatherEnds, EndAsking, Tell, EndTelling
    <2> QED BY <2>1, <2>2
<1>3. CASE \E o \in Ops, n \in Nodes : QueryStep(o, n)
    <2>1. PICK o \in Ops, n \in Nodes : QueryStep(o, n)
        BY <1>3
    <2>2. /\ query[o][n].at \in {"waiting", "adding"}
          /\ <<p, m>> # <<o, n>> => query'[p][m] = query[p][m]
          /\ query'[o][n].at \in {"adding", "done"}
        BY <2>1, QueryKeeps DEF TypeInv
    <2> QED BY <2>2 DEF Onwards
<1>4. CASE \E d \in net : HandleResponse(d)
    BY <1>4, ResponseKeeps DEF TypeInv, Onwards
<1> QED BY <1>1, <1>2, <1>3, <1>4
        DEF Next, StartBootstrap, StartLookup, HandleQuery, Close, vars

(* A node is asked once by an operation, and the query only goes on, for   *)
(* every order in which the table grows and drops nodes meanwhile.         *)
THEOREM NodesAreAskedOnce == Spec => QueriesGoOn
<1>1. TypeInv /\ [Next]_vars =>
          [\A o \in Ops, n \in Nodes : Onwards(o, n)]_vars
    BY StepOnwards
<1> QED BY <1>1, TypeInvariant, PTL DEF Spec, QueriesGoOn, Onwards

(* A result is of a query that is over, so there is no second one to come. *)
ResultsOf(o) ==
    /\ told[o] \subseteq results[o]
    /\ \A r \in results[o] : r[1] \in Nodes /\ query[o][r[1]].at = "done"
    /\ \A r, s \in results[o] : r[1] = s[1] => r = s

ResultInv == \A o \in Ops : ResultsOf(o)

LEMMA ResultFrame ==
    ASSUME TypeInv, [Next]_vars, NEW o \in Ops, ResultsOf(o), results'[o] = results[o],
           told'[o] \subseteq results[o]
    PROVE  ResultsOf(o)'
<1>1. \A n \in Nodes : Onwards(o, n)
    BY StepOnwards
<1>2. \A n \in Nodes : query[o][n].at = "done" => query'[o][n].at = "done"
    BY <1>1 DEF Onwards
<1> QED BY <1>2 DEF ResultsOf

LEMMA ReturnResults ==
    ASSUME TypeInv, NEW o \in Ops, NEW n \in Nodes, Return(o, n), ResultsOf(o), [Next]_vars
    PROVE  ResultsOf(o)'
<1> DEFINE r == <<n, query[o][n].token>>
<1>1. query[o][n].at = "adding" /\ told' = told
    BY DEF Return
<1>2. CASE results'[o] = results[o]
    BY <1>1, <1>2, ResultFrame DEF ResultsOf
<1>3. CASE results'[o] # results[o]
    <2>1. results'[o] = results[o] \cup {r}
        BY <1>3 DEF Return, TypeInv, TypeOK
    <2>2. query'[o][n].at = "done"
        BY FinishedType DEF Return, TypeInv
    <2>3. \A m \in Nodes : m # n => query'[o][m] = query[o][m]
        <3>1. QueryStep(o, n)
            BY DEF QueryStep
        <3> QED BY <3>1, QueryKeeps DEF TypeInv
    <2>4. \A s \in results[o] : s[1] # n /\ s[1] \in Nodes /\ query[o][s[1]].at = "done"
        BY <1>1 DEF ResultsOf
    <2>5. r[1] = n
        OBVIOUS
    <2> HIDE DEF r
    <2> QED BY <1>1, <2>1, <2>2, <2>3, <2>4, <2>5 DEF ResultsOf
<1> QED BY <1>2, <1>3

LEMMA ResultStep == TypeInv /\ ResultInv /\ [Next]_vars => ResultInv'
<1> SUFFICES ASSUME TypeInv, ResultInv, [Next]_vars, NEW p \in Ops PROVE ResultsOf(p)'
    BY DEF ResultInv
<1>0. TypeOK /\ ResultsOf(p) /\ told[p] \subseteq results[p]
    BY DEF TypeInv, ResultInv, ResultsOf
<1>1. CASE UNCHANGED <<told, results>>
    BY <1>0, <1>1, ResultFrame
<1>2. CASE \E o \in Ops : OpStep(o)
    <2>1. PICK o \in Ops : OpStep(o)
        BY <1>2
    <2>2. CASE Tell(o)
        <3>1. results' = results /\ told'[p] \subseteq results[p]
            BY <1>0, <2>2 DEF Tell, TypeOK
        <3> QED BY <1>0, <3>1, ResultFrame
    <2>3. CASE ~Tell(o)
        BY <1>1, <2>1, <2>3 DEF OpStep, Gather, GatherEnds, Ask, EndAsking, EndTelling
    <2> QED BY <2>2, <2>3
<1>3. CASE \E o \in Ops, n \in Nodes : QueryStep(o, n)
    <2>1. PICK o \in Ops, n \in Nodes : QueryStep(o, n)
        BY <1>3
    <2>2. CASE Return(o, n)
        <3>1. CASE p = o
            BY <1>0, <2>2, <3>1, ReturnResults
        <3>2. CASE p # o
            <4>1. results'[p] = results[p] /\ told' = told
                BY <1>0, <2>2, <3>2 DEF Return, TypeOK
            <4> QED BY <1>0, <4>1, ResultFrame
        <3> QED BY <3>1, <3>2
    <2>3. CASE ~Return(o, n)
        BY <1>1, <2>1, <2>3 DEF QueryStep, Timeout, TakeAnswer, AddName, opVars
    <2> QED BY <2>2, <2>3
<1> QED BY <1>1, <1>2, <1>3
        DEF Next, StartBootstrap, StartLookup, HandleResponse, HandleQuery, Close, vars, opVars

(* Announce sends nobody two announce_peer, for every order and number of  *)
(* answers.                                                                *)
THEOREM NobodyIsToldTwice == Spec => []OneResultPerNode
<1>1. Init => ResultInv
    BY DEF Init, ResultInv, ResultsOf
<1>2. ResultInv => OneResultPerNode
    BY DEF ResultInv, ResultsOf, OneResultPerNode
<1> QED BY <1>1, <1>2, TypeInvariant, ResultStep, PTL DEF Spec
==========================================================================

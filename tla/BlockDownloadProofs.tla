----------------------- MODULE BlockDownloadProofs -----------------------
(***************************************************************************)
(* Theorems about BlockDownload, for any lengths, depth and rounds.        *)
(***************************************************************************)
EXTENDS BlockDownload, TLAPS

----------------------------------------------------------------------------
\* Arithmetic of blocks.

LEMMA TimesMonotonic ==
    ASSUME NEW i \in Int, NEW q \in Int, NEW B \in Nat \ {0}, i <= q
    PROVE  i * B <= q * B
  BY Z3T(30)

LEMMA QuotientBound ==
    ASSUME NEW a \in Nat, NEW B \in Nat \ {0}
    PROVE  (a \div B) \in Nat /\ (a \div B) * B <= a
  BY Z3T(30)

\* Every block the pipeline has room for begins inside the piece.
LEMMA BlocksBeginInside ==
    ASSUME NEW r \in 0 .. PieceLength, NEW i \in Nat \ {0},
           i <= (PieceLength - r + BlockSize - 1) \div BlockSize
    PROVE  r + (i - 1) * BlockSize \in Offsets
<1> DEFINE a == PieceLength - r + BlockSize - 1
           q == a \div BlockSize
<1>0. PieceLength \in Nat /\ BlockSize \in Nat \ {0}
  BY DownloadAssumption
<1>1. a \in Nat
  BY <1>0
<1>2. q \in Nat /\ q * BlockSize <= a
  BY <1>0, <1>1, QuotientBound
<1>3. i <= q
  OBVIOUS
<1> HIDE DEF q
<1>4. (i - 1) * BlockSize <= (q - 1) * BlockSize
  BY <1>0, <1>2, <1>3, TimesMonotonic
<1>5. (q - 1) * BlockSize = q * BlockSize - BlockSize
  BY <1>0, <1>2
<1>6. (i - 1) * BlockSize \in Nat
  <2>1. 0 * BlockSize <= (i - 1) * BlockSize
    BY <1>0, TimesMonotonic
  <2> QED
    BY <1>0, <2>1
<1>7. q * BlockSize \in Int
  BY <1>0, <1>2
<1> QED
  BY <1>0, <1>2, <1>4, <1>5, <1>6, <1>7 DEF Offsets

----------------------------------------------------------------------------
\* The type.

\* the loop goes on only while bytes are missing
Unfinished == pc \in {"await", "loop", "read"} => downloaded < PieceLength

TypeInv == TypeOK /\ Unfinished

LEMMA InitTyped == Init => TypeInv
  BY DownloadAssumption DEF Init, TypeInv, TypeOK, Unfinished, Blank, Offsets

LEMMA RequestsTyped ==
    ASSUME TypeInv, RequestBlocks
    PROVE  TypeInv'
<1> DEFINE n == IF choked \/ Room < 0 THEN 0 ELSE Room
           new == [i \in 1 .. n |-> Request(requested + (i - 1) * BlockSize)]
<1>0. /\ PieceLength \in Nat \ {0} /\ BlockSize \in Nat \ {0}
      /\ MaxPipelineDepth \in Nat \ {0}
      /\ requested \in 0 .. PieceLength /\ piece \in 1 .. Pieces /\ epoch \in Nat
      /\ inFlight \in Int /\ inFlight <= MaxPipelineDepth
  BY DownloadAssumption DEF TypeInv, TypeOK
<1>1. (PieceLength - requested + BlockSize - 1) \div BlockSize \in Nat
  BY <1>0, QuotientBound
<1>2. /\ n \in Nat
      /\ n > 0 => n <= (PieceLength - requested + BlockSize - 1) \div BlockSize
      /\ n <= MaxPipelineDepth - inFlight \/ n = 0
  BY <1>0, <1>1 DEF Room, Smaller
<1> HIDE DEF n
<1>3. ASSUME NEW i \in 1 .. n
      PROVE  Request(requested + (i - 1) * BlockSize) \in BlockRequests
  <2> DEFINE b == requested + (i - 1) * BlockSize
  <2>0. i \in Nat \ {0} /\ i <= (PieceLength - requested + BlockSize - 1) \div BlockSize
    BY <1>0, <1>1, <1>2
  <2>1. b \in Offsets
    BY <1>0, <2>0, BlocksBeginInside
  <2> HIDE DEF b
  <2>2. BlockLength(b) \in 1 .. BlockSize
    BY <1>0, <2>1 DEF BlockLength, Smaller, Offsets
  <2>3. Request(b) \in BlockRequests
    BY <1>0, <2>1, <2>2 DEF Request, BlockRequests
  <2> QED
    BY <2>3 DEF b
<1>4. new \in Seq(BlockRequests)
  BY <1>2, <1>3
<1> HIDE DEF new
<1>5. toRemote' \in Seq(BlockRequests)
  BY <1>4 DEF RequestBlocks, TypeInv, TypeOK, new, n
<1>6. requested' \in 0 .. PieceLength
  <2>1. requested' = Smaller(requested + n * BlockSize, PieceLength)
    BY DEF RequestBlocks, n
  <2>2. n * BlockSize \in Nat
    BY <1>0, <1>2
  <2> QED
    BY <1>0, <2>1, <2>2 DEF Smaller
<1>7. inFlight' \in Int /\ inFlight' <= MaxPipelineDepth
  <2>1. inFlight' = inFlight + n
    BY DEF RequestBlocks, n
  <2> QED
    BY <1>0, <1>2, <2>1
<1> QED
  BY <1>5, <1>6, <1>7 DEF RequestBlocks, TypeInv, TypeOK, Unfinished, remote, drops

LEMMA HeadAndTail ==
    ASSUME NEW S, NEW s \in Seq(S), s # <<>>
    PROVE  Head(s) \in S /\ Tail(s) \in Seq(S)
  OBVIOUS

LEMMA ReadPieceTyped ==
    ASSUME TypeInv, ReadPiece
    PROVE  TypeInv'
<1> DEFINE M == BlockRequests \cup {Choke, Unchoke}
           m == Head(toClient)
<1>0. PieceLength \in Nat \ {0} /\ BlockSize \in Nat \ {0}
  BY DownloadAssumption
<1>1. toClient \in Seq(M) /\ toClient # <<>> /\ m.kind = "piece" /\ toClient' = Tail(toClient)
  BY DEF ReadPiece, Reads, TypeInv, TypeOK
<1>2. m \in M /\ toClient' \in Seq(M)
  BY <1>1, HeadAndTail
<1>3. m \in BlockRequests
  BY <1>1, <1>2 DEF Choke, Unchoke
<1>4. m.of \in 1 .. Pieces /\ m.len \in 1 .. BlockSize
  BY <1>3 DEF BlockRequests
<1> HIDE DEF m, M
<1>5. /\ buf' = [o \in Offsets |-> IF o \in m.begin .. m.begin + m.len - 1 THEN m.of ELSE buf[o]]
      /\ downloaded' = downloaded + m.len /\ inFlight' = inFlight - 1
      /\ pc = "read" /\ pc' = IF downloaded' < PieceLength THEN "loop" ELSE "done"
      /\ late' \in BOOLEAN
  BY DEF ReadPiece, m, TypeInv, TypeOK
<1>6. buf \in [Offsets -> 0 .. Pieces] /\ Pieces \in Nat
  BY DownloadAssumption DEF TypeInv, TypeOK
<1>7. buf' \in [Offsets -> 0 .. Pieces]
  BY <1>4, <1>5, <1>6
<1>8. downloaded' \in 0 .. PieceLength + BlockSize - 1 /\ Unfinished'
  BY SMTT(20), <1>0, <1>4, <1>5 DEF TypeInv, TypeOK, Unfinished
<1>9. inFlight' \in Int /\ inFlight' <= MaxPipelineDepth
  BY <1>5, DownloadAssumption DEF TypeInv, TypeOK
<1> QED
  BY <1>2, <1>5, <1>7, <1>8, <1>9 DEF ReadPiece, TypeInv, TypeOK, M, remote, drops

LEMMA TypeStep == TypeInv /\ [Next]_vars => TypeInv'
<1> SUFFICES ASSUME TypeInv, [Next]_vars
             PROVE  TypeInv'
  OBVIOUS
<1> USE DownloadAssumption
<1> DEFINE M == BlockRequests \cup {Choke, Unchoke}
<1>1. CASE Ready
  BY <1>1 DEF Ready, TypeInv, TypeOK, Unfinished, progress, remote, drops
<1>2. CASE RequestBlocks
  BY <1>2, RequestsTyped
<1>3. CASE ReadChoke
  <2>1. toClient' \in Seq(M)
    BY <1>3, HeadAndTail DEF ReadChoke, Reads, TypeInv, TypeOK
  <2>2. /\ requested' \in 0 .. PieceLength /\ inFlight' \in Int /\ inFlight' <= MaxPipelineDepth
        /\ epoch' \in Nat /\ dropped' \in BOOLEAN /\ pc' \in {"await", "loop"}
    <3>1. CASE pc = "read"
      <4>1. /\ requested' = downloaded /\ inFlight' = 0 /\ epoch' = epoch + 1
            /\ dropped' = FALSE /\ pc' = "loop"
        BY <1>3, <3>1 DEF ReadChoke
      <4>2. downloaded \in 0 .. PieceLength + BlockSize - 1 /\ downloaded < PieceLength
            /\ epoch \in Nat /\ PieceLength \in Nat /\ MaxPipelineDepth \in Nat
        BY <3>1 DEF TypeInv, TypeOK, Unfinished
      <4>3. downloaded \in Nat
        BY <4>2
      <4>4. requested' \in 0 .. PieceLength /\ inFlight' \in Int /\ inFlight' <= MaxPipelineDepth
        BY <4>1, <4>2, <4>3
      <4>5. epoch' \in Nat /\ pc' \in {"await", "loop"}
        BY <4>1, <4>2
      <4>6. dropped' \in BOOLEAN
        BY <4>1
      <4> QED
        BY <4>4, <4>5, <4>6
    <3>2. CASE pc # "read"
      <4>1. UNCHANGED <<pc, requested, inFlight, epoch, dropped>> /\ pc = "await"
        BY <1>3, <3>2 DEF ReadChoke, Reads
      <4> QED
        BY <4>1 DEF TypeInv, TypeOK
    <3> QED
      BY <3>1, <3>2
  <2>3. /\ downloaded' < PieceLength /\ choked' = TRUE
        /\ UNCHANGED <<agrees, crowded, piece, buf, downloaded, late, sawChoked, toRemote,
                       remote, failed>>
    BY <1>3 DEF ReadChoke, Reads, TypeInv, Unfinished
  <2> QED
    BY <2>1, <2>2, <2>3 DEF TypeInv, TypeOK, Unfinished, remote
<1>4. CASE ReadUnchoke
  <2>1. toClient' \in Seq(M)
    BY <1>4, HeadAndTail DEF ReadUnchoke, Reads, TypeInv, TypeOK
  <2>2. /\ choked' = FALSE /\ pc \in {"await", "read"} /\ pc' \in {"await", "loop"}
        /\ UNCHANGED <<agrees, crowded, piece, buf, downloaded, requested, inFlight, epoch, late>>
        /\ UNCHANGED <<sawChoked, toRemote, remoteChoked, told, sending, rounds, dropped, failed>>
    BY <1>4 DEF ReadUnchoke, Reads, progress, remote, drops
  <2>3. TypeOK'
    <3>1. /\ piece' \in 1 .. Pieces /\ buf' \in [Offsets -> 0 .. Pieces]
          /\ downloaded' \in 0 .. PieceLength + BlockSize - 1
          /\ requested' \in 0 .. PieceLength
          /\ inFlight' \in Int /\ inFlight' <= MaxPipelineDepth
          /\ rounds' \in 0 .. MaxRounds /\ epoch' \in Nat
      BY <2>2 DEF TypeInv, TypeOK
    <3>2. /\ pc' \in {"await", "loop", "read", "done", "failed"}
          /\ told' \in {"nothing", "choke", "unchoke"} /\ toRemote' \in Seq(BlockRequests)
      BY <2>2 DEF TypeInv, TypeOK
    <3>3. /\ agrees' \in BOOLEAN /\ crowded' \in BOOLEAN /\ choked' \in BOOLEAN
          /\ sawChoked' \in BOOLEAN /\ remoteChoked' \in BOOLEAN /\ sending' \in BOOLEAN
          /\ late' \in BOOLEAN /\ dropped' \in BOOLEAN /\ failed' \in BOOLEAN
      BY <2>2, Zenon DEF TypeInv, TypeOK
    <3> QED
      BY <2>1, <3>1, <3>2, <3>3, Zenon DEF TypeOK
  <2>4. Unfinished'
    BY <2>2 DEF TypeInv, Unfinished
  <2> QED
    BY <2>3, <2>4 DEF TypeInv
<1>5. CASE ReadPiece
  BY <1>5, ReadPieceTyped
<1>6. CASE NextPiece
  <2>1. buf' \in [Offsets -> 0 .. Pieces]
    BY <1>6 DEF NextPiece, Blank
  <2>2. piece' \in 1 .. Pieces /\ epoch' \in Nat
    BY <1>6 DEF NextPiece, TypeInv, TypeOK
  <2>3. /\ downloaded' \in 0 .. PieceLength + BlockSize - 1 /\ Unfinished'
        /\ requested' \in 0 .. PieceLength
        /\ inFlight' \in Int /\ inFlight' <= MaxPipelineDepth
    BY <1>6 DEF NextPiece, Unfinished
  <2> QED
    BY <1>6, <2>1, <2>2, <2>3 DEF NextPiece, TypeInv, TypeOK, Unfinished, remote, drops
<1>7. CASE ServeFails
  <2>1. toRemote' \in Seq(BlockRequests)
    BY <1>7, HeadAndTail DEF ServeFails, TakesRequest, TypeInv, TypeOK
  <2>2. dropped' \in BOOLEAN /\ failed' \in BOOLEAN
    BY <1>7 DEF ServeFails, Drops, TypeInv, TypeOK
  <2> QED
    BY <1>7, <2>1, <2>2 DEF ServeFails, TakesRequest, TypeInv, TypeOK, Unfinished, progress, remote
<1>8. CASE ReadFails
  BY <1>8 DEF ReadFails, TypeInv, TypeOK, Unfinished, progress, remote, drops
<1>9. CASE OwnRound
  BY <1>9 DEF OwnRound, TypeInv, TypeOK, Unfinished, progress, remote, drops
<1>10. CASE Greet
  <2>1. toClient' \in Seq(M)
    BY <1>10 DEF Greet, TypeInv, TypeOK
  <2> QED
    BY <1>10, <2>1 DEF Greet, TypeInv, TypeOK, Unfinished, progress, drops
<1>11. CASE ServeRequest
  <2>1. Head(toRemote) \in BlockRequests /\ toRemote' \in Seq(BlockRequests)
    BY <1>11, HeadAndTail DEF ServeRequest, TakesRequest, TypeInv, TypeOK
  <2>2. toClient' \in Seq(M)
    BY <1>11, <2>1 DEF ServeRequest, TakesRequest, TypeInv, TypeOK
  <2> QED
    BY <1>11, <2>1, <2>2 DEF ServeRequest, TakesRequest, TypeInv, TypeOK, Unfinished, progress, remote, drops
<1>12. CASE IgnoreRequest
  <2>1. toRemote' \in Seq(BlockRequests)
    BY <1>12, HeadAndTail DEF IgnoreRequest, TakesRequest, Drops, TypeInv, TypeOK
  <2> QED
    BY <1>12, <2>1 DEF IgnoreRequest, TakesRequest, Drops, TypeInv, TypeOK, Unfinished, progress, remote, drops
<1>13. CASE RoundSet
  <2>1. remoteChoked' \in BOOLEAN
    BY <1>13, Zenon DEF RoundSet
  <2>2. /\ sending' = FALSE
        /\ UNCHANGED <<agrees, crowded, pc, piece, buf, downloaded, requested, inFlight, epoch, late>>
        /\ UNCHANGED <<choked, sawChoked, toRemote, toClient, told, rounds, dropped, failed>>
    BY <1>13 DEF RoundSet, progress, drops
  <2>3. TypeOK'
    <3>1. /\ piece' \in 1 .. Pieces /\ buf' \in [Offsets -> 0 .. Pieces]
          /\ downloaded' \in 0 .. PieceLength + BlockSize - 1
          /\ requested' \in 0 .. PieceLength
          /\ inFlight' \in Int /\ inFlight' <= MaxPipelineDepth
          /\ rounds' \in 0 .. MaxRounds /\ epoch' \in Nat
      BY <2>2 DEF TypeInv, TypeOK
    <3>2. /\ pc' \in {"await", "loop", "read", "done", "failed"}
          /\ told' \in {"nothing", "choke", "unchoke"}
          /\ toRemote' \in Seq(BlockRequests)
          /\ toClient' \in Seq(BlockRequests \cup {Choke, Unchoke})
      BY <2>2, Zenon DEF TypeInv, TypeOK
    <3>3. /\ agrees' \in BOOLEAN /\ crowded' \in BOOLEAN
          /\ choked' \in BOOLEAN /\ sawChoked' \in BOOLEAN /\ sending' \in BOOLEAN
          /\ late' \in BOOLEAN /\ dropped' \in BOOLEAN /\ failed' \in BOOLEAN
      BY <2>2, Zenon DEF TypeInv, TypeOK
    <3> QED
      BY <2>1, <3>1, <3>2, <3>3, Zenon DEF TypeOK
  <2>4. Unfinished'
    BY <2>2 DEF TypeInv, Unfinished
  <2> QED
    BY <2>3, <2>4 DEF TypeInv
<1>14. ASSUME NEW m \in {Choke, Unchoke}, RoundSend(m)
       PROVE  TypeInv'
  <2>1. toClient' \in Seq(M)
    BY <1>14 DEF RoundSend, TypeInv, TypeOK
  <2>2. m.kind \in {"choke", "unchoke"}
    BY <1>14 DEF Choke, Unchoke
  <2>3. remoteChoked' \in BOOLEAN /\ sending' \in BOOLEAN
    <3>1. (m = Choke) \in BOOLEAN
      OBVIOUS
    <3> QED
      BY <1>14, <3>1, Zenon DEF RoundSend, TypeInv, TypeOK
  <2>4. rounds' \in 0 .. MaxRounds
    BY <1>14 DEF RoundSend, TypeInv, TypeOK
  <2> QED
    BY <1>14, <2>1, <2>2, <2>3, <2>4 DEF RoundSend, TypeInv, TypeOK, Unfinished, progress, drops
<1>15. CASE UNCHANGED vars
  BY <1>15 DEF vars, TypeInv, TypeOK, Unfinished, progress, remote, drops
<1> QED
  BY <1>1, <1>2, <1>3, <1>4, <1>5, <1>6, <1>7, <1>8, <1>9, <1>10, <1>11, <1>12,
     <1>13, <1>14, <1>15 DEF Next, Client, Remote

\* Every variable keeps its type: no request reaches past the piece and the
\* pipeline never exceeds its depth, whatever the remote does and whoever
\* writes the flags.
THEOREM TypeCorrect == Spec => []TypeOK
<1>1. TypeInv => TypeOK
  BY DEF TypeInv
<1> QED
  BY <1>1, InitTyped, TypeStep, PTL DEF Spec

----------------------------------------------------------------------------
\* The two streams.

Messages == BlockRequests \cup {Choke, Unchoke}

LEMMA Message ==
    ASSUME NEW m \in Messages
    PROVE  /\ m.kind \in {"piece", "choke", "unchoke"}
           /\ m.kind = "piece" => m \in BlockRequests
           /\ m.kind = "choke" <=> m = Choke
BY DEF Messages, BlockRequests, Choke, Unchoke

LEMMA TailFacts ==
    ASSUME NEW S, NEW q \in Seq(S), q # <<>>
    PROVE  /\ Tail(q) \in Seq(S) /\ Len(q) \in Nat \ {0}
           /\ DOMAIN q = 1 .. Len(q) /\ DOMAIN Tail(q) = 1 .. Len(q) - 1
           /\ Head(q) = q[1] /\ q[1] \in S
           /\ \A i \in 1 .. Len(q) - 1 : Tail(q)[i] = q[i + 1]
  OBVIOUS

LEMMA AppendFacts ==
    ASSUME NEW S, NEW q \in Seq(S), NEW m \in S
    PROVE  /\ Append(q, m) \in Seq(S) /\ Len(q) \in Nat
           /\ DOMAIN q = 1 .. Len(q) /\ DOMAIN Append(q, m) = 1 .. Len(q) + 1
           /\ Append(q, m)[Len(q) + 1] = m
           /\ \A i \in 1 .. Len(q) : Append(q, m)[i] = q[i]
  OBVIOUS

\* what is said of a stream holds for what is left of it
LEMMA TailStream ==
    ASSUME NEW S, NEW q \in Seq(S), q # <<>>, NEW s, NEW e, NEW p, NEW r, NEW d
    PROVE  /\ Past(q, e) => Past(Tail(q), e)
           /\ Ascending(q, e) => Ascending(Tail(q), e)
           /\ Before(q, s, e) => Before(Tail(q), s, e)
           /\ Before(s, q, e) => Before(s, Tail(q), e)
           /\ Inside(q, e, p, r) => Inside(Tail(q), e, p, r)
           /\ Above(q, e, d) => Above(Tail(q), e, d)
<1> DEFINE t == Tail(q)
<1>1. /\ Len(q) \in Nat /\ DOMAIN q = 1 .. Len(q) /\ DOMAIN t = 1 .. Len(q) - 1
      /\ \A i \in 1 .. Len(q) - 1 : t[i] = q[i + 1]
  BY TailFacts
<1> HIDE DEF t
<1>2. \A i \in DOMAIN t : i + 1 \in DOMAIN q /\ t[i] = q[i + 1]
  BY <1>1
<1>3. (Past(q, e) => Past(t, e)) /\ (Inside(q, e, p, r) => Inside(t, e, p, r))
  BY <1>2 DEF Past, Inside
<1>4. Ascending(q, e) => Ascending(t, e)
  BY <1>1, <1>2 DEF Ascending
<1>5. (Before(q, s, e) => Before(t, s, e)) /\ (Before(s, q, e) => Before(s, t, e))
  BY <1>2 DEF Before
<1>6. Above(q, e, d) => Above(t, e, d)
  BY <1>2 DEF Above
<1> QED
  BY <1>3, <1>4, <1>5, <1>6 DEF t

\* the first message, if it is no Choke, hides nothing of what follows
LEMMA TailUncut ==
    ASSUME NEW S, NEW q \in Seq(S), q # <<>>, q[1].kind # "choke"
    PROVE  /\ Cut(q) => Cut(Tail(q))
           /\ \A i \in DOMAIN Tail(q) : Uncut(Tail(q), i) => Uncut(q, i + 1)
           /\ \A i \in DOMAIN q : i # 1 /\ Uncut(q, i) => Uncut(Tail(q), i - 1)
           /\ \A e, o : Covers(q, e, o) /\ ~(Of(q[1], e) /\ o \in Block(q[1]))
                            => Covers(Tail(q), e, o)
<1> DEFINE t == Tail(q)
<1>1. /\ Len(q) \in Nat \ {0} /\ DOMAIN q = 1 .. Len(q) /\ DOMAIN t = 1 .. Len(q) - 1
      /\ \A i \in 1 .. Len(q) - 1 : t[i] = q[i + 1]
  BY TailFacts
<1> HIDE DEF t
<1>2. \A i \in DOMAIN q : i # 1 => i - 1 \in DOMAIN t /\ t[i - 1] = q[i]
  BY <1>1
<1>3. Cut(q) => Cut(t)
  BY <1>2 DEF Cut
<1>4. ASSUME NEW i \in DOMAIN t, Uncut(t, i) PROVE Uncut(q, i + 1)
  <2> SUFFICES ASSUME NEW j \in 1 .. i + 1 PROVE q[j].kind # "choke"
    BY DEF Uncut
  <2>1. CASE j = 1
    BY <2>1
  <2>2. CASE j # 1
    BY <1>1, <1>2, <1>4, <2>2 DEF Uncut
  <2> QED
    BY <2>1, <2>2
<1>5. ASSUME NEW i \in DOMAIN q, i # 1, Uncut(q, i) PROVE Uncut(t, i - 1)
  <2> SUFFICES ASSUME NEW j \in 1 .. i - 1 PROVE t[j].kind # "choke"
    BY DEF Uncut
  <2>1. j \in 1 .. Len(q) - 1 /\ j + 1 \in 1 .. i
    BY <1>1, <1>5
  <2> QED
    BY <1>1, <1>5, <2>1 DEF Uncut
<1>6. ASSUME NEW e, NEW o, Covers(q, e, o), ~(Of(q[1], e) /\ o \in Block(q[1]))
      PROVE  Covers(t, e, o)
  <2>1. PICK i \in DOMAIN q : Uncut(q, i) /\ Of(q[i], e) /\ o \in Block(q[i])
    BY <1>6 DEF Covers
  <2>2. i # 1
    BY <1>6, <2>1
  <2>3. i - 1 \in DOMAIN t /\ t[i - 1] = q[i] /\ Uncut(t, i - 1)
    BY <1>2, <1>5, <2>1, <2>2
  <2> QED
    BY <2>1, <2>3 DEF Covers
<1> QED
  BY <1>3, <1>4, <1>5, <1>6 DEF t

LEMMA TailChokes ==
    ASSUME NEW S, NEW q \in Seq(S), q # <<>>, ChokeLast(q)
    PROVE  ChokeLast(Tail(q))
<1> DEFINE t == Tail(q)
<1>1. /\ Len(q) \in Nat /\ DOMAIN q = 1 .. Len(q) /\ DOMAIN t = 1 .. Len(q) - 1
      /\ \A i \in 1 .. Len(q) - 1 : t[i] = q[i + 1]
  BY TailFacts
<1> HIDE DEF t
<1>2. ASSUME NEW i \in DOMAIN t, t[i].kind = "unchoke"
      PROVE  \E j \in DOMAIN t : i < j /\ t[j].kind = "choke"
  <2>1. i + 1 \in DOMAIN q /\ q[i + 1].kind = "unchoke"
    BY <1>1, <1>2
  <2>2. PICK j \in DOMAIN q : i + 1 < j /\ q[j].kind = "choke"
    BY <2>1 DEF ChokeLast
  <2>3. j - 1 \in DOMAIN t /\ i < j - 1 /\ t[j - 1] = q[j]
    BY <1>1, <2>2
  <2> QED
    BY <2>2, <2>3
<1> QED
  BY <1>2 DEF ChokeLast, t

\* a message that follows the others in the order of the epoch
LEMMA AppendStream ==
    ASSUME NEW S, NEW q \in Seq(S), NEW m \in S, NEW s, NEW e, NEW p, NEW r, NEW d
    PROVE  /\ Past(q, e) /\ (m.kind = "piece" => m.epoch <= e) => Past(Append(q, m), e)
           /\ Ascending(q, e) /\ (\A i \in DOMAIN q : Of(q[i], e) /\ Of(m, e)
                                       => q[i].begin + q[i].len <= m.begin)
                => Ascending(Append(q, m), e)
           /\ Before(q, s, e) /\ (\A i \in DOMAIN s : Of(s[i], e) /\ Of(m, e)
                                       => m.begin + m.len <= s[i].begin)
                => Before(Append(q, m), s, e)
           /\ Inside(q, e, p, r) /\ (Of(m, e) => m.of = p /\ m.begin + m.len <= r)
                => Inside(Append(q, m), e, p, r)
           /\ Above(q, e, d) /\ (Of(m, e) => d <= m.begin) => Above(Append(q, m), e, d)
<1> DEFINE t == Append(q, m)
<1>1. /\ Len(q) \in Nat /\ DOMAIN q = 1 .. Len(q) /\ DOMAIN t = 1 .. Len(q) + 1
      /\ t[Len(q) + 1] = m /\ \A i \in 1 .. Len(q) : t[i] = q[i]
  BY AppendFacts
<1> HIDE DEF t
<1>2. \A i \in DOMAIN t : \/ i \in DOMAIN q /\ t[i] = q[i] /\ i < Len(q) + 1
                          \/ i = Len(q) + 1 /\ t[i] = m
  BY <1>1
<1>3. Past(q, e) /\ (m.kind = "piece" => m.epoch <= e) => Past(t, e)
  BY <1>2 DEF Past
<1>4. Ascending(q, e) /\ (\A i \in DOMAIN q : Of(q[i], e) /\ Of(m, e)
                               => q[i].begin + q[i].len <= m.begin) => Ascending(t, e)
  BY <1>1, <1>2 DEF Ascending
<1>5. Before(q, s, e) /\ (\A i \in DOMAIN s : Of(s[i], e) /\ Of(m, e)
                               => m.begin + m.len <= s[i].begin) => Before(t, s, e)
  BY <1>2 DEF Before
<1>6. Inside(q, e, p, r) /\ (Of(m, e) => m.of = p /\ m.begin + m.len <= r) => Inside(t, e, p, r)
  BY <1>2 DEF Inside
<1>7. Above(q, e, d) /\ (Of(m, e) => d <= m.begin) => Above(t, e, d)
  BY <1>2 DEF Above
<1> QED
  BY <1>3, <1>4, <1>5, <1>6, <1>7 DEF t

\* what stands before a message is where it was
LEMMA AppendUncut ==
    ASSUME NEW S, NEW q \in Seq(S), NEW m \in S
    PROVE  /\ Cut(q) => Cut(Append(q, m))
           /\ Cut(Append(q, m)) => Cut(q) \/ m.kind = "choke"
           /\ \A i \in DOMAIN q : Uncut(Append(q, m), i) <=> Uncut(q, i)
           /\ \A e, o : Covers(q, e, o) => Covers(Append(q, m), e, o)
           /\ ~Cut(q) /\ m.kind # "choke" => Uncut(Append(q, m), Len(q) + 1)
           /\ Uncut(Append(q, m), Len(q) + 1) => ~Cut(q)
<1> DEFINE t == Append(q, m)
<1>1. /\ Len(q) \in Nat /\ DOMAIN q = 1 .. Len(q) /\ DOMAIN t = 1 .. Len(q) + 1
      /\ t[Len(q) + 1] = m /\ \A i \in 1 .. Len(q) : t[i] = q[i]
  BY AppendFacts
<1> HIDE DEF t
<1>2. Cut(q) => Cut(t)
  BY <1>1 DEF Cut
<1>3. Cut(t) => Cut(q) \/ m.kind = "choke"
  BY <1>1 DEF Cut
<1>4. \A i \in DOMAIN q : Uncut(t, i) <=> Uncut(q, i)
  BY <1>1 DEF Uncut
<1>5. \A e, o : Covers(q, e, o) => Covers(t, e, o)
  BY <1>1, <1>4 DEF Covers
<1>6. ~Cut(q) /\ m.kind # "choke" => Uncut(t, Len(q) + 1)
  BY <1>1 DEF Cut, Uncut
<1>7. Uncut(t, Len(q) + 1) => ~Cut(q)
  BY <1>1 DEF Cut, Uncut
<1> QED
  BY <1>2, <1>3, <1>4, <1>5, <1>6, <1>7 DEF t

\* nothing to show of an epoch that is not in the stream
LEMMA NothingOf ==
    ASSUME NEW q, NEW s, NEW e, NEW p, NEW r, NEW d, None(q, e)
    PROVE  /\ Ascending(q, e) /\ Inside(q, e, p, r) /\ Above(q, e, d) /\ Gapless(q, e, d)
           /\ Before(q, s, e) /\ Before(s, q, e)
  BY DEF None, Ascending, Inside, Above, Gapless, Before

LEMMA NextEpoch ==
    ASSUME NEW q \in Seq(Messages), NEW e \in Nat, Past(q, e)
    PROVE  Past(q, e + 1) /\ None(q, e + 1)
<1>1. \A i \in DOMAIN q : q[i].kind = "piece" => q[i].epoch \in Nat
  <2> SUFFICES ASSUME NEW i \in DOMAIN q, q[i].kind = "piece" PROVE q[i].epoch \in Nat
    OBVIOUS
  <2>1. q[i] \in Messages
    OBVIOUS
  <2> QED
    BY <2>1, Message DEF BlockRequests
<1> QED
  BY <1>1 DEF Past, None, Of

LEMMA Streams ==
    ASSUME TypeOK
    PROVE  /\ toClient \in Seq(Messages) /\ toRemote \in Seq(Messages)
           /\ toRemote \in Seq(BlockRequests)
           /\ \A i \in DOMAIN toRemote : toRemote[i].kind = "piece"
<1>1. toRemote \in Seq(BlockRequests) /\ toClient \in Seq(Messages)
  BY DEF TypeOK, Messages
<1>2. toRemote \in Seq(Messages)
  BY <1>1 DEF Messages
<1>3. \A i \in DOMAIN toRemote : toRemote[i] \in BlockRequests
  BY <1>1
<1> QED
  BY <1>1, <1>2, <1>3 DEF BlockRequests

----------------------------------------------------------------------------
\* The tiling.

LEMMA TileInit == Init => TileInv
<1> SUFFICES ASSUME Init PROVE TileInv
  OBVIOUS
<1>1. /\ toClient = <<>> /\ toRemote = <<>> /\ requested = 0 /\ downloaded = 0
      /\ sending = FALSE /\ choked /\ inFlight = 0
  BY DEF Init
<1>2. \A e : /\ None(toClient, e) /\ None(toRemote, e)
             /\ Past(toClient, e) /\ Past(toRemote, e) /\ ~Cut(toClient)
  BY <1>1 DEF None, Past, Cut
<1>3. Chokes /\ Quiet
  BY <1>1, <1>2 DEF Chokes, ChokeLast, Quiet
<1>4. Filled(0)
  BY <1>1, DownloadAssumption DEF Filled
<1>5. Tiled(0)
  BY <1>1, <1>2, <1>4, NothingOf DEF Tiled, Offsets
<1>6. 0 \in 0 .. PieceLength
  BY DownloadAssumption
<1> QED
  BY <1>2, <1>3, <1>5, <1>6, NothingOf DEF TileInv

\* the conjuncts of TileInv', for the proof of a step
LEMMA TileNext ==
    ASSUME Past(toClient', epoch'), Past(toRemote', epoch'),
           Ascending(toClient', epoch'), Ascending(toRemote', epoch'),
           Before(toClient', toRemote', epoch'),
           Inside(toClient', epoch', piece', requested'),
           Inside(toRemote', epoch', piece', requested'),
           Quiet', agrees' /\ ~crowded' => Chokes',
           Clean' \/ ~dropped' => \E d \in 0 .. PieceLength : Tiled(d)'
    PROVE  TileInv'
  BY DEF TileInv

\* a step that leaves the streams and the counts alone
LEMMA TileFrame ==
    ASSUME TileInv, pc' = "await" => pc = "await",
           UNCHANGED <<agrees, crowded, progress, choked, toRemote, toClient, remote, drops>>
    PROVE  TileInv'
<1>1. Clean' <=> Clean
  BY DEF Clean, drops
<1>2. ASSUME NEW d \in 0 .. PieceLength, Tiled(d) PROVE Tiled(d)'
  BY <1>1, <1>2 DEF Tiled, Filled, progress
<1>3. Quiet' /\ (agrees' /\ ~crowded' => Chokes')
  BY DEF TileInv, Chokes, Quiet, progress, remote
<1> QED
  BY <1>1, <1>2, <1>3, TileNext DEF TileInv, progress, drops

LEMMA NothingBetween ==
    ASSUME NEW d \in Int, NEW r, r = d
    PROVE  d <= r /\ \A o \in d .. r - 1 : FALSE
  OBVIOUS

\* a step that begins an epoch
LEMMA NewEpoch ==
    ASSUME TypeInv, TileInv, UNCHANGED <<agrees, crowded, toRemote, sending, remoteChoked>>,
           toClient' \in Seq(Messages), Past(toClient', epoch),
           epoch' = epoch + 1, pc' # "await", requested' = downloaded', inFlight' = 0,
           Clean' /\ ~late' => \A o \in Offsets : o < downloaded' => buf'[o] = piece',
           agrees /\ ~crowded /\ remoteChoked =>
               /\ choked' \/ Cut(toClient')
               /\ ChokeLast(toClient'),
           downloaded' \in 0 .. PieceLength
    PROVE  TileInv'
<1>1. toRemote \in Seq(Messages) /\ epoch \in Nat /\ Past(toRemote, epoch)
  BY Streams DEF TypeInv, TypeOK, TileInv
<1>2. /\ Past(toClient', epoch') /\ Past(toRemote', epoch')
      /\ None(toClient', epoch') /\ None(toRemote', epoch')
  BY <1>1, NextEpoch
<1>3. Quiet' /\ (agrees' /\ ~crowded' => Chokes')
  BY <1>1, <1>2 DEF TileInv, Chokes, Quiet
<1>4. /\ Ascending(toClient', epoch') /\ Ascending(toRemote', epoch')
      /\ Before(toClient', toRemote', epoch')
      /\ Inside(toClient', epoch', piece', requested')
      /\ Inside(toRemote', epoch', piece', requested')
      /\ Above(toClient', epoch', downloaded') /\ Above(toRemote', epoch', downloaded')
      /\ Gapless(toClient', epoch', downloaded')
  BY <1>2, NothingOf
<1>5. PICK d : d = downloaded'
  OBVIOUS
<1>6. d \in 0 .. PieceLength /\ d \in Int
  BY <1>5, DownloadAssumption
<1>7. Tiled(d)'
  <2>1. d <= requested' /\ d <= downloaded' /\ \A o \in d .. requested' - 1 : FALSE
    BY <1>5, <1>6, NothingBetween
  <2>2. BlockSize \in Nat \ {0} /\ inFlight' = 0
    BY DownloadAssumption
  <2>3. requested' = d
    BY <1>5
  <2>4. (inFlight' - 1) * BlockSize = 0 - BlockSize /\ inFlight' * BlockSize = 0
    BY <2>2
  <2>5. Filled(d)'
    BY <1>6, <2>2, <2>3, <2>4 DEF Filled
  <2> QED
    BY <1>4, <1>5, <2>1, <2>5 DEF Tiled
<1> QED
  BY <1>2, <1>3, <1>4, <1>6, <1>7, TileNext

LEMMA TileReadChoke == ASSUME TypeInv, TileInv, ReadChoke PROVE TileInv'
<1>1. /\ toClient \in Seq(Messages) /\ toClient # <<>> /\ toClient' = Tail(toClient)
      /\ choked' = TRUE
      /\ UNCHANGED <<agrees, crowded, toRemote, sending, remoteChoked, buf, piece, downloaded,
                     late, failed>>
  BY Streams DEF ReadChoke, Reads, TypeInv, remote
<1>2. /\ toClient' \in Seq(Messages) /\ DOMAIN toClient = 1 .. Len(toClient)
      /\ Len(toClient) \in Nat \ {0} /\ DOMAIN toClient' = 1 .. Len(toClient) - 1
      /\ \A i \in 1 .. Len(toClient) - 1 : toClient'[i] = toClient[i + 1]
  BY <1>1, TailFacts
<1>3. agrees /\ ~crowded /\ remoteChoked => ChokeLast(toClient')
  BY <1>1, TailChokes DEF TileInv, Chokes
<1>0. Clean' <=> Clean
  BY <1>1 DEF Clean
<1>4. CASE pc = "read"
  <2>1. pc' = "loop" /\ requested' = downloaded' /\ inFlight' = 0 /\ epoch' = epoch + 1
    BY <1>1, <1>4 DEF ReadChoke
  <2>2. downloaded' \in 0 .. PieceLength
    BY <1>1, <1>4, DownloadAssumption DEF TypeInv, TypeOK, Unfinished
  <2>3. Past(toClient', epoch)
    BY <1>1, TailStream DEF TileInv
  <2>4. ASSUME Clean', ~late' PROVE \A o \in Offsets : o < downloaded' => buf'[o] = piece'
    <3>1. PICK d \in 0 .. PieceLength : Tiled(d)
      BY <1>0, <2>4 DEF TileInv
    <3> QED
      BY <1>0, <1>1, <2>4, <3>1 DEF Tiled
  <2> QED
    BY <1>1, <1>2, <1>3, <2>1, <2>2, <2>3, <2>4, NewEpoch
<1>5. CASE pc = "await"
  <2>1. UNCHANGED <<pc, requested, inFlight, epoch, dropped>>
    BY <1>5 DEF ReadChoke
  <2>2. /\ None(toClient, epoch) /\ None(toRemote, epoch) /\ requested = 0
        /\ Past(toClient, epoch) /\ Past(toRemote, epoch)
    BY <1>5 DEF TileInv, Quiet
  <2>3. /\ Past(toClient', epoch') /\ Past(toRemote', epoch')
        /\ None(toClient', epoch') /\ None(toRemote', epoch')
    BY <1>1, <1>2, <2>1, <2>2, TailStream DEF None
  <2>4. Quiet' /\ (agrees' /\ ~crowded' => Chokes')
    BY <1>1, <1>3, <2>1, <2>2, <2>3 DEF TileInv, Chokes, Quiet
  <2>5. ASSUME NEW d \in 0 .. PieceLength, Tiled(d) PROVE Tiled(d)'
    <3>1. d = requested' /\ d \in Int
      BY <2>1, <2>2, <2>5, DownloadAssumption DEF Tiled
    <3>2. \A o \in d .. requested' - 1 : FALSE
      BY <3>1, NothingBetween
    <3>3. Filled(d)'
      BY <2>1, <2>5 DEF Tiled, Filled
    <3> QED
      BY <1>0, <1>1, <2>1, <2>3, <2>5, <3>2, <3>3, NothingOf DEF Tiled
  <2>6. Clean' \/ ~dropped' => \E d \in 0 .. PieceLength : Tiled(d)'
    BY <1>0, <2>1, <2>5 DEF TileInv
  <2> QED
    BY <2>3, <2>4, <2>6, NothingOf, TileNext
<1> QED
  BY <1>4, <1>5 DEF ReadChoke, Reads

LEMMA TileReadUnchoke == ASSUME TypeInv, TileInv, ReadUnchoke PROVE TileInv'
<1>1. /\ toClient \in Seq(Messages) /\ toClient # <<>> /\ toClient' = Tail(toClient)
      /\ toClient[1].kind = "unchoke" /\ choked' = FALSE /\ (pc' = "await" => pc = "await")
      /\ UNCHANGED <<agrees, crowded, progress, toRemote, remote, drops>>
  BY Streams, TailFacts DEF ReadUnchoke, Reads, TypeInv
<1>2. /\ DOMAIN toClient = 1 .. Len(toClient)
      /\ Len(toClient) \in Nat \ {0} /\ DOMAIN toClient' = 1 .. Len(toClient) - 1
      /\ \A i \in 1 .. Len(toClient) - 1 : toClient'[i] = toClient[i + 1]
  BY <1>1, TailFacts
<1>0. Clean' <=> Clean
  BY <1>1 DEF Clean, drops
<1>3. /\ Cut(toClient) => Cut(toClient')
      /\ \A i \in DOMAIN toClient' : Uncut(toClient', i) => Uncut(toClient, i + 1)
      /\ \A o : Covers(toClient, epoch, o) => Covers(toClient', epoch, o)
  BY <1>1, TailUncut DEF Of
<1>4. /\ Past(toClient', epoch) /\ Ascending(toClient', epoch)
      /\ Before(toClient', toRemote, epoch) /\ Inside(toClient', epoch, piece, requested)
  BY <1>1, TailStream DEF TileInv
<1>5. ASSUME agrees, ~crowded, remoteChoked PROVE Cut(toClient') /\ ChokeLast(toClient')
  <2>1. ChokeLast(toClient)
    BY <1>5 DEF TileInv, Chokes
  <2>2. Cut(toClient')
    BY <1>1, <1>2, <1>3, <2>1 DEF Cut, ChokeLast
  <2> QED
    BY <1>1, <2>1, <2>2, TailChokes
<1>6. None(toClient, epoch) => None(toClient', epoch)
  BY <1>2 DEF None
<1>7. Quiet' /\ (agrees' /\ ~crowded' => Chokes')
  BY <1>1, <1>5, <1>6 DEF TileInv, Chokes, Quiet, progress, remote
<1>8. ASSUME NEW d \in 0 .. PieceLength, Tiled(d) PROVE Tiled(d)'
  <2>1. Above(toClient', epoch, d)
    BY <1>1, <1>8, TailStream DEF Tiled
  <2>2. Gapless(toClient', epoch, d)
    BY <1>2, <1>3, <1>8 DEF Tiled, Gapless
  <2>3. Filled(d)'
    BY <1>1, <1>8 DEF Tiled, Filled, progress
  <2> QED
    BY <1>0, <1>1, <1>3, <1>8, <2>1, <2>2, <2>3 DEF Tiled, progress
<1> QED
  BY <1>0, <1>1, <1>4, <1>7, <1>8, TileNext DEF TileInv, progress, drops

\* an answer that came late leaves the pipeline emptier than it is
LEMMA FilledLess ==
    ASSUME NEW d \in Int, Filled(d), inFlight \in Int, requested \in Int,
           inFlight' = inFlight - 1, requested' = requested
    PROVE  Filled(d)'
<1> DEFINE a == (inFlight - 2) * BlockSize
           b == (inFlight - 1) * BlockSize
           c == inFlight * BlockSize
<1>1. BlockSize \in Nat \ {0}
  BY DownloadAssumption
<1>2. a \in Int /\ b \in Int /\ c \in Int /\ a <= b /\ b <= c
  BY <1>1, TimesMonotonic
<1>3. b < requested - d /\ (requested < PieceLength => c <= requested - d)
  BY DEF Filled
<1>4. (inFlight' - 1) * BlockSize = a /\ inFlight' * BlockSize = b
  OBVIOUS
<1> HIDE DEF a, b, c
<1> QED
  BY <1>2, <1>3, <1>4 DEF Filled

\* an answer to a block that is under way makes room for one block
LEMMA FilledOne ==
    ASSUME NEW d \in Int, Filled(d), inFlight \in Int, requested \in Int,
           inFlight' = inFlight - 1, requested' = requested,
           NEW len \in 1 .. BlockSize, NEW e, e = d + len
    PROVE  Filled(e)'
<1> DEFINE a == (inFlight - 2) * BlockSize
           b == (inFlight - 1) * BlockSize
           c == inFlight * BlockSize
<1>1. BlockSize \in Nat \ {0}
  BY DownloadAssumption
<1>2. a \in Int /\ b \in Int /\ c \in Int /\ a = b - BlockSize /\ b = c - BlockSize
  BY <1>1
<1>3. b < requested - d /\ (requested < PieceLength => c <= requested - d)
  BY DEF Filled
<1>4. (inFlight' - 1) * BlockSize = a /\ inFlight' * BlockSize = b
  OBVIOUS
<1> HIDE DEF a, b, c
<1>5. len \in Int /\ len <= BlockSize
  BY <1>1
<1> QED
  BY <1>1, <1>2, <1>3, <1>4, <1>5 DEF Filled

LEMMA TileReadPiece == ASSUME TypeInv, TileInv, ReadPiece PROVE TileInv'
<1> DEFINE m == toClient[1]
<1>1. /\ toClient \in Seq(Messages) /\ toClient # <<>> /\ toClient' = Tail(toClient)
      /\ m.kind = "piece" /\ m \in BlockRequests /\ pc' # "await"
      /\ downloaded' = downloaded + m.len /\ inFlight' = inFlight - 1 /\ late' = (late \/ m.epoch # epoch)
      /\ buf' = [o \in Offsets |-> IF o \in m.begin .. m.begin + m.len - 1 THEN m.of ELSE buf[o]]
      /\ UNCHANGED <<agrees, crowded, piece, requested, epoch, choked, toRemote, remote, drops>>
  <2>1. /\ toClient \in Seq(Messages) /\ toClient # <<>> /\ toClient' = Tail(toClient)
        /\ Head(toClient).kind = "piece"
    BY Streams DEF ReadPiece, Reads, TypeInv
  <2>2. Head(toClient) = m /\ m \in Messages
    BY <2>1, TailFacts
  <2>3. m \in BlockRequests
    BY <2>1, <2>2, Message
  <2> QED
    BY <2>1, <2>2, <2>3 DEF ReadPiece
<1>2. /\ DOMAIN toClient = 1 .. Len(toClient) /\ 1 \in DOMAIN toClient
      /\ Len(toClient) \in Nat \ {0} /\ DOMAIN toClient' = 1 .. Len(toClient) - 1
      /\ \A i \in 1 .. Len(toClient) - 1 : toClient'[i] = toClient[i + 1]
  BY <1>1, TailFacts
<1>3. m.begin \in Offsets /\ m.len \in 1 .. BlockSize /\ BlockSize \in Nat \ {0} /\ PieceLength \in Nat
  BY <1>1, DownloadAssumption DEF BlockRequests
<1>4. downloaded \in Int /\ requested \in Int
  BY DownloadAssumption DEF TypeInv, TypeOK
<1> HIDE DEF m
<1>0. Clean' <=> Clean
  BY <1>1 DEF Clean, drops
<1>5. /\ Cut(toClient) => Cut(toClient')
      /\ \A i \in DOMAIN toClient' : Uncut(toClient', i) => Uncut(toClient, i + 1)
      /\ \A o : Covers(toClient, epoch, o) /\ ~(Of(m, epoch) /\ o \in Block(m))
                    => Covers(toClient', epoch, o)
  BY <1>1, TailUncut DEF m
<1>6. /\ Past(toClient', epoch) /\ Ascending(toClient', epoch)
      /\ Before(toClient', toRemote, epoch) /\ Inside(toClient', epoch, piece, requested)
  BY <1>1, TailStream DEF TileInv
<1>7. None(toClient, epoch) => None(toClient', epoch)
  BY <1>2 DEF None
<1>8. agrees /\ ~crowded /\ remoteChoked => (choked \/ Cut(toClient')) /\ ChokeLast(toClient')
  BY <1>1, <1>5, TailChokes DEF TileInv, Chokes
<1>9. Quiet' /\ (agrees' /\ ~crowded' => Chokes')
  BY <1>1, <1>7, <1>8 DEF TileInv, Chokes, Quiet, remote
<1>15. CASE ~(Clean \/ ~dropped)
  BY <1>0, <1>1, <1>6, <1>9, <1>15, TileNext DEF TileInv, drops
<1> SUFFICES ASSUME Clean \/ ~dropped PROVE TileInv'
  BY <1>15
<1>10. PICK d \in 0 .. PieceLength : Tiled(d)
  BY DEF TileInv
<1>11. d \in Int /\ requested - d \in Int
  BY <1>3, <1>4
<1>12. CASE ~Of(m, epoch)
  <2>1. late'
    BY <1>1, <1>12 DEF Of
  <2>2. Above(toClient', epoch, d)
    BY <1>1, <1>10, TailStream DEF Tiled
  <2>3. Gapless(toClient', epoch, d)
    BY <1>2, <1>5, <1>10, <1>12 DEF Tiled, Gapless
  <2>4. d <= downloaded'
    <3>1. d <= downloaded
      BY <1>10 DEF Tiled
    <3> QED
      BY <1>1, <1>3, <1>4, <1>11, <3>1
  <2>5. Filled(d)'
    BY <1>1, <1>3, <1>4, <1>10, <1>11, FilledLess DEF Tiled, TypeInv, TypeOK
  <2>6. Tiled(d)'
    BY <1>0, <1>1, <1>5, <1>10, <1>12, <2>1, <2>2, <2>3, <2>4, <2>5 DEF Tiled
  <2> QED
    BY <1>1, <1>6, <1>9, <2>6, TileNext DEF TileInv
<1>13. CASE Of(m, epoch)
  <2>1. Tiled(d) /\ Of(m, epoch)
    BY <1>10, <1>13
  <2>2. Uncut(toClient, 1)
    BY <1>1 DEF Uncut, m
  <2>3. \A i \in DOMAIN toClient' : Of(toClient'[i], epoch) => m.begin + m.len <= toClient'[i].begin
    <3> SUFFICES ASSUME NEW i \in DOMAIN toClient', Of(toClient'[i], epoch)
                 PROVE  m.begin + m.len <= toClient'[i].begin
      OBVIOUS
    <3>1. i + 1 \in DOMAIN toClient /\ 1 < i + 1 /\ toClient'[i] = toClient[i + 1]
      BY <1>2
    <3> QED
      BY <1>2, <2>1, <3>1 DEF TileInv, Ascending, m
  <2>4. m.begin = d
    <3>1. d <= m.begin
      BY <1>2, <2>1 DEF Tiled, Above, m
    <3>2. ASSUME d < m.begin PROVE FALSE
      <4>1. d \in d .. m.begin - 1
        BY <1>3, <1>4, <3>2 DEF Offsets
      <4>2. Covers(toClient, epoch, d)
        BY <1>2, <2>1, <2>2, <4>1 DEF Tiled, Gapless, m
      <4>3. PICK i \in DOMAIN toClient : Of(toClient[i], epoch) /\ d \in Block(toClient[i])
        BY <4>2 DEF Covers
      <4>4. CASE i = 1
        BY <1>3, <1>4, <3>2, <4>3, <4>4 DEF Block, m, Offsets
      <4>5. CASE i # 1
        <5>1. i - 1 \in DOMAIN toClient' /\ toClient'[i - 1] = toClient[i]
          BY <1>2, <4>5
        <5>2. m.begin + m.len <= toClient[i].begin
          BY <2>3, <4>3, <5>1
        <5>3. toClient[i] \in BlockRequests
          BY <1>1, <4>3, Message DEF Of
        <5>4. toClient[i].begin \in Offsets
          BY <5>3 DEF BlockRequests
        <5> QED
          BY <1>3, <1>4, <3>2, <4>3, <5>2, <5>4 DEF Block, Offsets
      <4> QED
        BY <4>4, <4>5
    <3> QED
      BY <1>3, <1>4, <3>1, <3>2 DEF Offsets
  <2>5. PICK c : c = d + m.len
    OBVIOUS
  <2>6. c = m.begin + m.len /\ d <= c /\ c \in Int /\ c <= downloaded'
    BY <1>1, <1>3, <1>4, <1>11, <2>1, <2>4, <2>5 DEF Tiled, Offsets
  <2>7. m.of = piece /\ c <= requested
    BY <1>2, <2>1, <2>6 DEF TileInv, Inside, m
  <2>8. c \in 0 .. PieceLength
    BY <1>3, <1>4, <2>6, <2>7, DownloadAssumption DEF TypeInv, TypeOK
  <2>9. Clean' /\ ~late' => c = downloaded' /\ \A o \in Offsets : o < c => buf'[o] = piece
    <3> SUFFICES ASSUME Clean', ~late' PROVE c = downloaded' /\ \A o \in Offsets : o < c => buf'[o] = piece
      OBVIOUS
    <3>1. d = downloaded /\ \A o \in Offsets : o < d => buf[o] = piece
      BY <1>0, <1>1, <2>1 DEF Tiled
    <3>2. \A o \in Offsets : o < c => o \in m.begin .. m.begin + m.len - 1 \/ o < d
      BY <1>3, <1>11, <2>4, <2>6 DEF Offsets
    <3> QED
      BY <1>1, <2>5, <2>7, <3>1, <3>2
  <2>10. Above(toClient', epoch, c)
    BY <2>3, <2>6 DEF Above
  <2>11. Above(toRemote, epoch, c)
    BY <1>2, <2>1, <2>6 DEF TileInv, Before, Above, m
  <2>12. \A o \in Int : o >= c => ~(o \in Block(m))
    BY <1>3, <2>6 DEF Block, Offsets
  <2>13. Gapless(toClient', epoch, c)
    <3> SUFFICES ASSUME NEW i \in DOMAIN toClient', Of(toClient'[i], epoch), Uncut(toClient', i),
                        NEW o \in c .. toClient'[i].begin - 1
                 PROVE  Covers(toClient', epoch, o)
      BY DEF Gapless
    <3>1. i + 1 \in DOMAIN toClient /\ toClient'[i] = toClient[i + 1] /\ Uncut(toClient, i + 1)
      BY <1>2, <1>5
    <3>2. o \in d .. toClient[i + 1].begin - 1 /\ o \in Int /\ o >= c
      BY <1>11, <2>6, <3>1
    <3> QED
      BY <1>5, <2>1, <2>12, <3>1, <3>2 DEF Tiled, Gapless
  <2>14. ASSUME ~Cut(toClient'), NEW o \in c .. requested - 1
         PROVE  Covers(toClient', epoch, o) \/ Covers(toRemote, epoch, o)
    <3>1. o \in d .. requested - 1 /\ o \in Int /\ o >= c
      BY <1>4, <1>11, <2>6
    <3> QED
      BY <1>5, <2>1, <2>12, <2>14, <3>1 DEF Tiled
  <2>15. Filled(c)'
    BY <1>1, <1>3, <1>4, <1>11, <2>1, <2>5, FilledOne DEF Tiled, TypeInv, TypeOK
  <2>16. Tiled(c)'
    BY <1>1, <2>6, <2>7, <2>9, <2>10, <2>11, <2>13, <2>14, <2>15 DEF Tiled
  <2> QED
    BY <1>1, <1>6, <1>9, <2>8, <2>16, TileNext DEF TileInv
<1> QED
  BY <1>12, <1>13

LEMMA TileNextPiece == ASSUME TypeInv, TileInv, NextPiece PROVE TileInv'
<1>1. /\ toClient' \in Seq(Messages) /\ downloaded' = 0 /\ requested' = 0 /\ inFlight' = 0
      /\ epoch' = epoch + 1 /\ pc' # "await"
      /\ UNCHANGED <<agrees, crowded, choked, toRemote, toClient, sending, remoteChoked>>
  BY Streams DEF NextPiece, TypeInv, remote
<1>2. \A o \in Offsets : o < downloaded' => buf'[o] = piece'
  BY <1>1, DownloadAssumption DEF Offsets
<1>3. downloaded' \in 0 .. PieceLength
  BY <1>1, DownloadAssumption
<1>4. Past(toClient', epoch)
  BY <1>1 DEF TileInv
<1>5. agrees /\ ~crowded /\ remoteChoked =>
          /\ choked' \/ Cut(toClient')
          /\ ChokeLast(toClient')
  BY <1>1 DEF TileInv, Chokes
<1> QED
  BY <1>1, <1>2, <1>3, <1>4, <1>5, NewEpoch

\* a Choke or an Unchoke is sent
LEMMA Control ==
    ASSUME TypeInv, TileInv, NEW m \in {Choke, Unchoke},
           toClient' = Append(toClient, m),
           agrees /\ ~crowded => remoteChoked' = (m = Choke) /\ sending' = FALSE,
           UNCHANGED <<agrees, crowded, pc, progress, choked, toRemote, drops>>
    PROVE  TileInv'
<1>1. toClient \in Seq(Messages) /\ m \in Messages /\ m.kind \in {"choke", "unchoke"}
  BY Streams DEF TypeInv, Messages, Choke, Unchoke
<1>2. \A e : ~Of(m, e)
  BY <1>1 DEF Of
<1>3. /\ Len(toClient) \in Nat /\ DOMAIN toClient = 1 .. Len(toClient)
      /\ DOMAIN toClient' = 1 .. Len(toClient) + 1 /\ toClient'[Len(toClient) + 1] = m
      /\ \A i \in 1 .. Len(toClient) : toClient'[i] = toClient[i]
  BY <1>1, AppendFacts
<1>4. /\ Cut(toClient) => Cut(toClient')
      /\ \A i \in DOMAIN toClient : Uncut(toClient', i) <=> Uncut(toClient, i)
      /\ \A e, o : Covers(toClient, e, o) => Covers(toClient', e, o)
  BY <1>1, AppendUncut
<1>5. /\ Past(toClient', epoch) /\ Ascending(toClient', epoch)
      /\ Before(toClient', toRemote, epoch) /\ Inside(toClient', epoch, piece, requested)
  BY <1>1, <1>2, AppendStream DEF TileInv
<1>6. None(toClient, epoch) => None(toClient', epoch)
  BY <1>2, <1>3 DEF None
<1>7. m = Choke => Cut(toClient') /\ ChokeLast(toClient')
  <2>1. ASSUME m = Choke PROVE m.kind = "choke"
    BY <2>1 DEF Choke
  <2>2. Len(toClient) + 1 \in DOMAIN toClient'
    BY <1>3
  <2>3. m = Choke => Cut(toClient')
    BY <1>3, <2>1, <2>2 DEF Cut
  <2>4. ASSUME m = Choke, NEW i \in DOMAIN toClient', toClient'[i].kind = "unchoke"
        PROVE  i < Len(toClient) + 1
    BY <1>3, <2>1, <2>4
  <2> QED
    BY <1>3, <2>1, <2>2, <2>3, <2>4 DEF ChokeLast
<1>8. Quiet' /\ (agrees' /\ ~crowded' => Chokes')
  BY <1>6, <1>7 DEF TileInv, Chokes, Quiet, progress
<1>0. Clean' <=> Clean
  BY DEF Clean, drops
<1>9. ASSUME NEW d \in 0 .. PieceLength, Tiled(d) PROVE Tiled(d)'
  <2>1. Above(toClient', epoch, d)
    BY <1>1, <1>2, <1>9, AppendStream DEF Tiled
  <2>2. Gapless(toClient', epoch, d)
    <3> SUFFICES ASSUME NEW i \in DOMAIN toClient', Of(toClient'[i], epoch), Uncut(toClient', i),
                        NEW o \in d .. toClient'[i].begin - 1
                 PROVE  Covers(toClient', epoch, o)
      BY DEF Gapless
    <3>1. i \in DOMAIN toClient /\ toClient'[i] = toClient[i]
      BY <1>2, <1>3
    <3> QED
      BY <1>4, <1>9, <3>1 DEF Tiled, Gapless
  <2>3. Filled(d)'
    BY <1>9 DEF Tiled, Filled, progress
  <2> QED
    BY <1>0, <1>4, <1>9, <2>1, <2>2, <2>3 DEF Tiled, progress
<1> QED
  BY <1>0, <1>5, <1>8, <1>9, TileNext DEF TileInv, progress, drops

LEMMA TileGreet == ASSUME TypeInv, TileInv, Greet PROVE TileInv'
<1>1. agrees /\ ~crowded => sending = FALSE
  BY DEF TileInv, Chokes
<1>2. Unchoke # Choke
  BY DEF Choke, Unchoke
<1>3. agrees /\ ~crowded => remoteChoked' = (Unchoke = Choke) /\ sending' = FALSE
  BY <1>1, <1>2 DEF Greet
<1> QED
  BY <1>3, Control DEF Greet

LEMMA TileRoundSend ==
    ASSUME TypeInv, TileInv, NEW m \in {Choke, Unchoke}, RoundSend(m) PROVE TileInv'
<1>1. agrees /\ ~crowded => remoteChoked' = (m = Choke) /\ sending' = FALSE
  BY DEF RoundSend
<1> QED
  BY <1>1, Control DEF RoundSend

LEMMA TileServe == ASSUME TypeInv, TileInv, ServeRequest PROVE TileInv'
<1> DEFINE h == toRemote[1]
           k == Len(toClient) + 1
<1>1. /\ toClient \in Seq(Messages) /\ toRemote \in Seq(BlockRequests) /\ toRemote # <<>>
      /\ h \in BlockRequests /\ h \in Messages /\ h.kind = "piece"
      /\ toRemote' = Tail(toRemote) /\ toClient' = Append(toClient, h) /\ ~remoteChoked
      /\ UNCHANGED <<agrees, crowded, pc, progress, choked, remote, drops>>
  <2>1. toClient \in Seq(Messages) /\ toRemote \in Seq(BlockRequests) /\ toRemote # <<>>
    BY Streams DEF ServeRequest, TakesRequest, TypeInv
  <2>2. Head(toRemote) = h /\ h \in BlockRequests
    BY <2>1, TailFacts
  <2>3. h \in Messages /\ h.kind = "piece"
    BY <2>2 DEF Messages, BlockRequests
  <2> QED
    BY <2>1, <2>2, <2>3 DEF ServeRequest, TakesRequest
<1>2. /\ DOMAIN toRemote = 1 .. Len(toRemote) /\ 1 \in DOMAIN toRemote
      /\ Len(toRemote) \in Nat \ {0} /\ DOMAIN toRemote' = 1 .. Len(toRemote) - 1
      /\ \A i \in 1 .. Len(toRemote) - 1 : toRemote'[i] = toRemote[i + 1]
  BY <1>1, TailFacts
<1>3. /\ Len(toClient) \in Nat /\ DOMAIN toClient = 1 .. Len(toClient)
      /\ DOMAIN toClient' = 1 .. k /\ toClient'[k] = h
      /\ \A i \in 1 .. Len(toClient) : toClient'[i] = toClient[i]
  BY <1>1, AppendFacts
<1>4. h.begin \in Offsets /\ h.len \in 1 .. BlockSize /\ BlockSize \in Nat \ {0} /\ PieceLength \in Nat
  BY <1>1, DownloadAssumption DEF BlockRequests
<1>5. downloaded \in Int /\ requested \in Int
  BY DownloadAssumption DEF TypeInv, TypeOK
<1> HIDE DEF h
<1>0. Clean' <=> Clean
  BY <1>1 DEF Clean, drops
<1>6. /\ Cut(toClient) => Cut(toClient')
      /\ \A i \in DOMAIN toClient : Uncut(toClient', i) <=> Uncut(toClient, i)
      /\ \A o : Covers(toClient, epoch, o) => Covers(toClient', epoch, o)
      /\ ~Cut(toClient) => Uncut(toClient', k)
      /\ Uncut(toClient', k) => ~Cut(toClient)
  BY <1>1, AppendUncut
<1>7. \A i \in DOMAIN toRemote' :
          Of(h, epoch) /\ Of(toRemote'[i], epoch) => h.begin + h.len <= toRemote'[i].begin
  <2> SUFFICES ASSUME NEW i \in DOMAIN toRemote', Of(h, epoch), Of(toRemote'[i], epoch)
               PROVE  h.begin + h.len <= toRemote'[i].begin
    OBVIOUS
  <2>1. i + 1 \in DOMAIN toRemote /\ 1 < i + 1 /\ toRemote'[i] = toRemote[i + 1]
    BY <1>2
  <2> QED
    BY <1>2, <2>1 DEF TileInv, Ascending, h
<1>8. /\ Past(toRemote', epoch) /\ Ascending(toRemote', epoch)
      /\ Before(toClient, toRemote', epoch) /\ Inside(toRemote', epoch, piece, requested)
  BY <1>1, TailStream DEF TileInv
<1>9. /\ h.kind = "piece" => h.epoch <= epoch
      /\ Of(h, epoch) => h.of = piece /\ h.begin + h.len <= requested
      /\ \A i \in DOMAIN toClient : Of(toClient[i], epoch) /\ Of(h, epoch)
                                        => toClient[i].begin + toClient[i].len <= h.begin
  BY <1>2 DEF TileInv, Past, Inside, Before, h
<1>10. Past(toClient', epoch)
  BY <1>1, <1>9, AppendStream DEF TileInv
<1>11. Ascending(toClient', epoch)
  BY <1>1, <1>9, AppendStream DEF TileInv
<1>12. Inside(toClient', epoch, piece, requested)
  BY <1>1, <1>9, AppendStream DEF TileInv
<1>13. Before(toClient', toRemote', epoch)
  BY <1>1, <1>7, <1>8, AppendStream
<1>14. None(toClient, epoch) /\ None(toRemote, epoch) => None(toClient', epoch) /\ None(toRemote', epoch)
  <2>1. None(toRemote, epoch) => ~Of(h, epoch)
    BY <1>2 DEF None, h
  <2>2. None(toRemote, epoch) => None(toRemote', epoch)
    BY <1>2 DEF None
  <2> QED
    BY <1>3, <2>1, <2>2 DEF None
<1>15. Quiet' /\ (agrees' /\ ~crowded' => Chokes')
  BY <1>1, <1>14 DEF TileInv, Chokes, Quiet, progress, remote
<1>16. ASSUME NEW d \in 0 .. PieceLength, Tiled(d) PROVE Tiled(d)'
  <2>1. Tiled(d) /\ d \in Int
    BY <1>4, <1>16
  <2>2. Above(toRemote', epoch, d)
    BY <1>1, <2>1, TailStream DEF Tiled
  <2>3. Above(toClient', epoch, d)
    <3>1. Of(h, epoch) => d <= h.begin
      BY <1>2, <2>1 DEF Tiled, Above, h
    <3> QED
      BY <1>1, <2>1, <3>1, AppendStream DEF Tiled
  \* what the head of toRemote does not cover, its tail does
  <2>4. \A o : Covers(toRemote, epoch, o) /\ ~(Of(h, epoch) /\ o \in Block(h))
                   => Covers(toRemote', epoch, o)
    BY <1>1, TailUncut DEF h
  <2>5. ASSUME NEW o \in Int, Of(h, epoch), o < h.begin, Covers(toRemote, epoch, o)
        PROVE  FALSE
    <3>1. ~(o \in Block(h))
      BY <1>4, <2>5 DEF Block, Offsets
    <3>2. Covers(toRemote', epoch, o)
      BY <2>4, <2>5, <3>1
    <3>3. PICK i \in DOMAIN toRemote' : Of(toRemote'[i], epoch) /\ o \in Block(toRemote'[i])
      BY <3>2 DEF Covers
    <3>4. h.begin + h.len <= toRemote'[i].begin
      BY <1>7, <2>5, <3>3
    <3>5. toRemote'[i] \in BlockRequests
      <4>1. i + 1 \in DOMAIN toRemote /\ toRemote'[i] = toRemote[i + 1]
        BY <1>2
      <4> QED
        BY <1>1, <4>1
    <3>6. toRemote'[i].begin \in Offsets
      BY <3>5 DEF BlockRequests
    <3> QED
      BY <1>4, <2>5, <3>3, <3>4, <3>6 DEF Block, Offsets
  <2>6. Gapless(toClient', epoch, d)
    <3> SUFFICES ASSUME NEW i \in DOMAIN toClient', Of(toClient'[i], epoch), Uncut(toClient', i),
                        NEW o \in d .. toClient'[i].begin - 1
                 PROVE  Covers(toClient', epoch, o)
      BY DEF Gapless
    <3>1. CASE i \in DOMAIN toClient
      BY <1>3, <1>6, <2>1, <3>1 DEF Tiled, Gapless
    <3>2. CASE i = k
      <4>1. Of(h, epoch) /\ ~Cut(toClient)
        BY <1>3, <1>6, <3>2
      <4>2. o \in d .. requested - 1 /\ o \in Int /\ o < h.begin
        BY <1>3, <1>4, <1>5, <1>9, <3>2, <4>1 DEF Offsets
      <4>3. Covers(toClient, epoch, o) \/ Covers(toRemote, epoch, o)
        BY <2>1, <4>1, <4>2 DEF Tiled
      <4> QED
        BY <1>6, <2>5, <4>1, <4>2, <4>3
    <3> QED
      BY <1>3, <3>1, <3>2
  <2>7. ASSUME ~Cut(toClient'), NEW o \in d .. requested - 1
        PROVE  Covers(toClient', epoch, o) \/ Covers(toRemote', epoch, o)
    <3>1. Covers(toClient, epoch, o) \/ Covers(toRemote, epoch, o)
      BY <1>6, <2>1, <2>7 DEF Tiled
    <3>2. CASE Of(h, epoch) /\ o \in Block(h)
      <4>1. k \in DOMAIN toClient' /\ Uncut(toClient', k)
        BY <1>3, <1>6, <2>7
      <4> QED
        BY <1>3, <3>2, <4>1 DEF Covers
    <3>3. CASE ~(Of(h, epoch) /\ o \in Block(h))
      BY <1>6, <2>4, <3>1, <3>3
    <3> QED
      BY <3>2, <3>3
  <2>8. Filled(d)'
    BY <1>1, <2>1 DEF Tiled, Filled, progress
  <2> QED
    BY <1>0, <1>1, <2>1, <2>2, <2>3, <2>6, <2>7, <2>8 DEF Tiled, progress
<1>17. Clean' \/ ~dropped' => \E d \in 0 .. PieceLength : Tiled(d)'
  BY <1>0, <1>1, <1>16 DEF TileInv, drops
<1> QED
  BY <1>1, <1>8, <1>10, <1>11, <1>12, <1>13, <1>15, <1>17, TileNext DEF progress

\* a request is not answered: it is one of an epoch that is over, it spoils the
\* order (then nothing is said any more), or a Choke is behind all answers
LEMMA TileDrop ==
    ASSUME TypeInv, TileInv, IgnoreRequest \/ ServeFails
    PROVE  TileInv'
<1>1. /\ toRemote \in Seq(Messages) /\ toRemote # <<>> /\ toRemote' = Tail(toRemote)
      /\ dropped' = (dropped \/ Head(toRemote).epoch = epoch)
      /\ remoteChoked \/ failed'
      /\ failed' \/ ~failed
      /\ UNCHANGED <<agrees, crowded, pc, progress, choked, toClient, remote>>
  BY Streams DEF IgnoreRequest, ServeFails, TakesRequest, Drops, TypeInv, TypeOK
<1>2. /\ Past(toRemote', epoch) /\ Ascending(toRemote', epoch)
      /\ Before(toClient, toRemote', epoch) /\ Inside(toRemote', epoch, piece, requested)
  BY <1>1, TailStream DEF TileInv
<1>3. None(toRemote, epoch) => None(toRemote', epoch)
  <2>1. \A i \in DOMAIN toRemote' : i + 1 \in DOMAIN toRemote /\ toRemote'[i] = toRemote[i + 1]
    BY <1>1, TailFacts
  <2> QED
    BY <2>1 DEF None
<1>4. Quiet' /\ (agrees' /\ ~crowded' => Chokes')
  BY <1>1, <1>3 DEF TileInv, Chokes, Quiet, progress, remote
<1>5. Clean' => Clean /\ remoteChoked
  BY <1>1 DEF Clean
<1>6. Clean' \/ ~dropped' => Clean \/ ~dropped
  BY <1>1, <1>5
<1>7. ASSUME NEW d \in 0 .. PieceLength, Tiled(d), Clean' \/ ~dropped'
      PROVE  Tiled(d)'
  <2>1. Above(toRemote', epoch, d)
    BY <1>1, <1>7, TailStream DEF Tiled
  <2>2. ASSUME ~Cut(toClient), NEW o \in d .. requested - 1
        PROVE  Covers(toClient, epoch, o) \/ Covers(toRemote', epoch, o)
    <3>1. CASE Clean'
      <4>1. ~Covers(toClient, epoch, o) /\ ~Covers(toRemote, epoch, o)
        BY <1>1, <1>5, <2>2, <3>1 DEF TileInv, Chokes, None, Covers, Clean
      <4> QED
        BY <1>7, <2>2, <4>1 DEF Tiled
    <3>2. CASE ~dropped'
      <4>1. ~Of(toRemote[1], epoch)
        BY <1>1, <3>2, TailFacts DEF Of
      <4>2. toRemote[1].kind = "piece"
        BY <1>1, Streams, TailFacts DEF TypeInv
      <4>3. Covers(toRemote, epoch, o) => Covers(toRemote', epoch, o)
        BY <1>1, <4>1, <4>2, TailUncut
      <4> QED
        BY <1>7, <2>2, <4>3 DEF Tiled
    <3> QED
      BY <1>7, <3>1, <3>2
  <2>3. Filled(d)'
    BY <1>1, <1>7 DEF Tiled, Filled, progress
  <2> QED
    BY <1>1, <1>5, <1>7, <2>1, <2>2, <2>3 DEF Tiled, progress
<1>8. Clean' \/ ~dropped' => \E d \in 0 .. PieceLength : Tiled(d)'
  BY <1>6, <1>7 DEF TileInv
<1> QED
  BY <1>1, <1>2, <1>4, <1>8, TileNext DEF TileInv, progress

LEMMA ConcatFacts ==
    ASSUME NEW S, NEW q \in Seq(S), NEW s \in Seq(S)
    PROVE  /\ q \o s \in Seq(S) /\ Len(q) \in Nat /\ Len(s) \in Nat
           /\ DOMAIN q = 1 .. Len(q) /\ DOMAIN s = 1 .. Len(s)
           /\ DOMAIN (q \o s) = 1 .. Len(q) + Len(s)
           /\ \A i \in 1 .. Len(q) : (q \o s)[i] = q[i]
           /\ \A i \in 1 .. Len(s) : (q \o s)[Len(q) + i] = s[i]
  OBVIOUS

\* the block of full size that a byte is in
LEMMA Quotient ==
    ASSUME NEW a \in Nat, NEW B \in Nat \ {0}
    PROVE  /\ (a \div B) \in Nat
           /\ (a \div B) * B <= a /\ a < (a \div B) * B + B
  BY Z3T(30)

LEMMA Below ==
    ASSUME NEW x \in Int, NEW r \in Int, NEW y \in Int, NEW z \in Int, x <= r + y, y <= z
    PROVE  x <= r + z
  OBVIOUS

\* where block i, which begins at b, ends
LEMMA BlockEnds ==
    ASSUME NEW r \in Nat, NEW B \in Nat \ {0}, NEW L \in Nat, NEW n \in Nat,
           NEW i \in 1 .. n, NEW b, b = r + (i - 1) * B, b < L,
           NEW len, len = Smaller(B, L - b)
    PROVE  /\ b \in Nat /\ r <= b /\ len \in Nat
           /\ b + len <= r + i * B /\ b + len <= Smaller(r + n * B, L)
<1>1. /\ (i - 1) * B \in Int /\ i * B \in Int /\ n * B \in Int
      /\ i * B = (i - 1) * B + B
  OBVIOUS
<1>2. 0 * B <= (i - 1) * B
  BY TimesMonotonic
<1>3. i * B <= n * B
  BY TimesMonotonic
<1>4. b \in Nat /\ r <= b /\ b + B = r + i * B
  BY <1>1, <1>2
<1>5. len \in Nat /\ len <= B /\ len <= L - b
  BY <1>4 DEF Smaller
<1>6. b + len \in Int /\ b + len <= r + i * B /\ b + len <= L
  BY <1>1, <1>4, <1>5
<1>7. b + len <= r + n * B
  BY <1>1, <1>3, <1>6, Below
<1>8. b + len <= Smaller(r + n * B, L)
  BY <1>6, <1>7 DEF Smaller
<1> QED
  BY <1>4, <1>5, <1>6, <1>8

LEMMA BlockFollows ==
    ASSUME NEW x \in Int, NEW r \in Int, NEW B \in Nat \ {0}, NEW i \in Int, NEW j \in Int,
           i < j, x <= r + i * B
    PROVE  x <= r + (j - 1) * B
<1>1. i * B \in Int /\ (j - 1) * B \in Int /\ j - 1 \in Int /\ i <= j - 1
  OBVIOUS
<1>2. i * B <= (j - 1) * B
  BY <1>1, TimesMonotonic
<1> QED
  BY <1>1, <1>2, Below

LEMMA Rest ==
    ASSUME NEW d \in Int, NEW r \in Int, NEW z \in Int, NEW o \in d .. z - 1, ~(o < r)
    PROVE  o \in r .. z - 1
  OBVIOUS

\* The blocks of one pass over the pipeline, in the order they are asked for.
LEMMA NewRequests ==
    ASSUME TypeInv, NEW n \in Nat,
           n <= (PieceLength - requested + BlockSize - 1) \div BlockSize,
           NEW new, new = [i \in 1 .. n |-> Request(requested + (i - 1) * BlockSize)],
           NEW r, r = Smaller(requested + n * BlockSize, PieceLength)
    PROVE  /\ new \in Seq(BlockRequests) /\ Len(new) = n /\ DOMAIN new = 1 .. n
           /\ r \in Nat /\ requested <= r
           /\ \A i \in 1 .. n :
                /\ new[i].epoch = epoch /\ new[i].of = piece
                /\ requested <= new[i].begin /\ new[i].begin + new[i].len <= r
           /\ \A i, j \in 1 .. n : i < j => new[i].begin + new[i].len <= new[j].begin
           /\ \A o \in requested .. r - 1 : \E i \in 1 .. n : o \in Block(new[i])
<1>0. /\ PieceLength \in Nat \ {0} /\ BlockSize \in Nat \ {0}
      /\ requested \in 0 .. PieceLength /\ requested \in Nat /\ piece \in 1 .. Pieces /\ epoch \in Nat
  BY DownloadAssumption DEF TypeInv, TypeOK
<1> DEFINE b(i) == requested + (i - 1) * BlockSize
<1>1. ASSUME NEW i \in 1 .. n
      PROVE  /\ new[i] = Request(b(i)) /\ new[i] \in BlockRequests
             /\ new[i].begin = b(i) /\ b(i) \in Offsets
             /\ new[i].len = Smaller(BlockSize, PieceLength - b(i))
             /\ new[i].epoch = epoch /\ new[i].of = piece
  <2>1. i \in Nat \ {0} /\ i <= (PieceLength - requested + BlockSize - 1) \div BlockSize
    BY <1>0, QuotientBound
  <2>2. b(i) \in Offsets
    BY <1>0, <2>1, BlocksBeginInside
  <2>3. new[i] = Request(b(i))
    OBVIOUS
  <2> HIDE DEF b
  <2>4. BlockLength(b(i)) \in 1 .. BlockSize
    BY <1>0, <2>2 DEF BlockLength, Smaller, Offsets
  <2> QED
    BY <1>0, <2>2, <2>3, <2>4 DEF Request, BlockRequests, BlockLength
<1>2. new \in Seq(BlockRequests) /\ Len(new) = n /\ DOMAIN new = 1 .. n
  BY <1>1
<1>3. n * BlockSize \in Nat /\ r \in Nat /\ requested <= r
  <2>1. n * BlockSize \in Nat
    BY <1>0
  <2> QED
    BY <1>0, <2>1 DEF Smaller
<1>4. ASSUME NEW i \in 1 .. n
      PROVE  /\ b(i) \in Nat /\ requested <= b(i)
             /\ new[i].len \in Nat /\ b(i) + new[i].len <= requested + i * BlockSize
             /\ b(i) + new[i].len <= r
  <2>1. b(i) \in Offsets /\ new[i].len = Smaller(BlockSize, PieceLength - b(i))
    BY <1>1
  <2>2. b(i) = requested + (i - 1) * BlockSize
    OBVIOUS
  <2> HIDE DEF b
  <2>3. b(i) < PieceLength /\ PieceLength \in Nat
    BY <1>0, <2>1 DEF Offsets
  <2> QED
    BY <1>0, <2>1, <2>2, <2>3, BlockEnds
<1>5. ASSUME NEW i \in 1 .. n, NEW j \in 1 .. n, i < j
      PROVE  new[i].begin + new[i].len <= new[j].begin
  <2>1. /\ b(i) + new[i].len <= requested + i * BlockSize
        /\ b(i) \in Nat /\ new[i].len \in Nat
    BY <1>4
  <2>2. new[i].begin = b(i) /\ new[j].begin = b(j) /\ b(j) = requested + (j - 1) * BlockSize
    BY <1>1
  <2> HIDE DEF b
  <2>3. PICK x : x = b(i) + new[i].len
    OBVIOUS
  <2>4. x \in Int /\ x <= requested + i * BlockSize
    BY <2>1, <2>3
  <2>5. i \in Int /\ j \in Int /\ requested \in Int /\ BlockSize \in Nat \ {0}
    BY <1>0
  <2>6. x <= requested + (j - 1) * BlockSize
    BY <1>5, <2>4, <2>5, BlockFollows, Zenon
  <2> QED
    BY <2>2, <2>3, <2>6
<1>6. ASSUME NEW o \in requested .. r - 1
      PROVE  \E i \in 1 .. n : o \in Block(new[i])
  <2>1. o - requested \in Nat /\ o < PieceLength /\ o - requested < n * BlockSize
    BY <1>0, <1>3 DEF Smaller
  <2>2. PICK q \in Nat : q * BlockSize <= o - requested /\ o - requested < q * BlockSize + BlockSize
    BY <1>0, <2>1, Quotient
  <2>3. q < n
    <3>1. ASSUME n <= q PROVE n * BlockSize <= q * BlockSize
      BY <1>0, <3>1, TimesMonotonic
    <3>2. q * BlockSize \in Int
      BY <1>0
    <3> QED
      BY <1>3, <2>1, <2>2, <3>1, <3>2
  <2>4. q + 1 \in 1 .. n /\ b(q + 1) = requested + q * BlockSize /\ q * BlockSize \in Int
    BY <1>0, <2>3
  <2>5. /\ new[q + 1].begin = b(q + 1)
        /\ new[q + 1].len = Smaller(BlockSize, PieceLength - b(q + 1))
    BY <1>1, <2>4
  <2> HIDE DEF b
  <2>6. o \in Int
    BY <1>0, <1>3
  <2>7. b(q + 1) <= o /\ o < b(q + 1) + BlockSize /\ b(q + 1) \in Int
    BY <1>0, <2>1, <2>2, <2>4, <2>6
  <2>8. new[q + 1].len \in Int /\ o < b(q + 1) + new[q + 1].len
    BY <1>0, <2>1, <2>5, <2>6, <2>7 DEF Smaller
  <2>9. o \in Block(new[q + 1])
    BY <2>5, <2>6, <2>7, <2>8 DEF Block
  <2> QED
    BY <2>4, <2>9
<1>7. \A i \in 1 .. n : /\ new[i].epoch = epoch /\ new[i].of = piece
                        /\ requested <= new[i].begin /\ new[i].begin + new[i].len <= r
  BY <1>1, <1>4
<1> QED
  BY <1>2, <1>3, <1>5, <1>6, <1>7

\* one pass asks for no more blocks than the piece has left
LEMMA FilledUp ==
    ASSUME TypeInv, NEW d \in Int, Filled(d), NEW n \in Nat \ {0},
           n <= (PieceLength - requested + BlockSize - 1) \div BlockSize,
           requested' = Smaller(requested + n * BlockSize, PieceLength),
           inFlight' = inFlight + n
    PROVE  Filled(d)'
<1> DEFINE q == (PieceLength - requested + BlockSize - 1) \div BlockSize
           c == inFlight * BlockSize
           a == n * BlockSize
           z == q * BlockSize
<1>1. /\ BlockSize \in Nat \ {0} /\ PieceLength \in Nat \ {0}
      /\ requested \in 0 .. PieceLength /\ inFlight \in Int /\ n \in Int
  BY DownloadAssumption DEF TypeInv, TypeOK
<1>2. q \in Nat /\ z <= PieceLength - requested + BlockSize - 1
  BY <1>1, QuotientBound
<1>3. n <= q
  OBVIOUS
<1> HIDE DEF q
<1>4. c \in Int /\ a \in Int /\ z \in Int
  BY <1>1, <1>2
<1>5. a <= z
  BY <1>1, <1>2, <1>3, TimesMonotonic
<1>6. BlockSize <= a
  <2>1. 1 * BlockSize <= n * BlockSize
    BY <1>1, TimesMonotonic
  <2> QED
    BY <1>1, <2>1
<1>7. requested' = Smaller(requested + a, PieceLength)
  OBVIOUS
<1>8. (inFlight' - 1) * BlockSize = c + a - BlockSize /\ inFlight' * BlockSize = c + a
  BY <1>1
<1>9. requested < PieceLength => c <= requested - d
  BY DEF Filled
<1> HIDE DEF c, a, z
<1>10. c <= requested - d
  BY <1>1, <1>2, <1>4, <1>5, <1>6, <1>9
<1>11. c + a - BlockSize < requested' - d
  BY <1>1, <1>2, <1>4, <1>5, <1>7, <1>10 DEF Smaller
<1>12. requested' < PieceLength => c + a <= requested' - d
  BY <1>1, <1>4, <1>7, <1>10 DEF Smaller
<1> QED
  BY <1>8, <1>11, <1>12 DEF Filled

LEMMA TileRequests == ASSUME TypeInv, TileInv, RequestBlocks PROVE TileInv'
<1> DEFINE room == (PieceLength - requested + BlockSize - 1) \div BlockSize
<1>0. /\ PieceLength \in Nat \ {0} /\ BlockSize \in Nat \ {0} /\ MaxPipelineDepth \in Nat \ {0}
      /\ requested \in 0 .. PieceLength /\ inFlight \in Int /\ requested \in Int /\ downloaded \in Int
  BY DownloadAssumption DEF TypeInv, TypeOK
<1>1. PICK n : n = IF choked \/ Room < 0 THEN 0 ELSE Room
  OBVIOUS
<1>2. PICK new : new = [i \in 1 .. n |-> Request(requested + (i - 1) * BlockSize)]
  OBVIOUS
<1>3. /\ toRemote' = toRemote \o new /\ pc' = "read"
      /\ requested' = Smaller(requested + n * BlockSize, PieceLength) /\ inFlight' = inFlight + n
      /\ UNCHANGED <<agrees, crowded, piece, buf, downloaded, epoch, late, choked, toClient, remote, drops>>
  BY <1>1, <1>2 DEF RequestBlocks
<1>4. room \in Nat
  BY <1>0, QuotientBound
<1>5. n \in Nat /\ n <= room /\ (choked => n = 0)
  BY <1>0, <1>1, <1>4 DEF Room, Smaller
<1>6. toRemote \in Seq(BlockRequests) /\ toClient \in Seq(Messages)
  BY Streams DEF TypeInv
<1>7. CASE n = 0
  <2>1. new = <<>> /\ n * BlockSize = 0
    BY <1>0, <1>2, <1>7
  <2>2. toRemote' = toRemote
    BY <1>3, <1>6, <2>1
  <2>3. requested' = requested /\ inFlight' = inFlight
    BY <1>0, <1>3, <1>7, <2>1 DEF Smaller
  <2> QED
    BY <1>3, <2>2, <2>3, TileFrame DEF progress
<1>8. CASE n # 0
  <2>0. ~choked
    BY <1>5, <1>8
  <2>1. /\ new \in Seq(BlockRequests) /\ Len(new) = n /\ DOMAIN new = 1 .. n
        /\ requested' \in Nat /\ requested <= requested'
        /\ \A i \in 1 .. n :
             /\ new[i].epoch = epoch /\ new[i].of = piece
             /\ requested <= new[i].begin /\ new[i].begin + new[i].len <= requested'
        /\ \A i, j \in 1 .. n : i < j => new[i].begin + new[i].len <= new[j].begin
        /\ \A o \in requested .. requested' - 1 : \E i \in 1 .. n : o \in Block(new[i])
    BY <1>2, <1>3, <1>5, NewRequests
  <2> DEFINE L == Len(toRemote)
  <2>2. /\ L \in Nat /\ DOMAIN toRemote = 1 .. L /\ DOMAIN toRemote' = 1 .. L + n
        /\ \A i \in 1 .. L : toRemote'[i] = toRemote[i]
        /\ \A i \in 1 .. n : toRemote'[L + i] = new[i]
        /\ toRemote' \in Seq(BlockRequests)
    BY <1>3, <1>6, <2>1, ConcatFacts
  <2> HIDE DEF L
  <2>3. \A i \in DOMAIN toRemote' :
            \/ i \in DOMAIN toRemote /\ toRemote'[i] = toRemote[i]
            \/ i - L \in 1 .. n /\ i > L /\ toRemote'[i] = new[i - L]
    <3> SUFFICES ASSUME NEW i \in DOMAIN toRemote', ~(i \in DOMAIN toRemote)
                 PROVE  i - L \in 1 .. n /\ i > L /\ toRemote'[i] = new[i - L]
      BY <2>2
    <3>1. i - L \in 1 .. n /\ i > L /\ i = L + (i - L)
      BY <1>5, <2>2
    <3> QED
      BY <2>2, <3>1
  <2>4. \A m \in BlockRequests : m.begin \in Int /\ m.len \in Int /\ m.kind = "piece"
    BY <1>0 DEF BlockRequests, Offsets
  <2>5. /\ \A i \in DOMAIN toRemote : toRemote[i] \in BlockRequests
        /\ \A i \in 1 .. n : new[i] \in BlockRequests
    BY <1>6, <2>1
  <2>6. \A i \in DOMAIN toClient : Of(toClient[i], epoch) => toClient[i] \in BlockRequests
    BY <1>6, Message DEF Of
  <2>7. \A i \in DOMAIN toRemote : Of(toRemote[i], epoch) => toRemote[i].begin + toRemote[i].len <= requested
    BY DEF TileInv, Inside
  <2>8. \A i \in DOMAIN toClient : Of(toClient[i], epoch) => toClient[i].begin + toClient[i].len <= requested
    BY DEF TileInv, Inside
  <2>9. Past(toRemote', epoch)
    <3>1. epoch \in Int
      BY DEF TypeInv, TypeOK
    <3> QED
      BY <2>1, <2>3, <3>1 DEF TileInv, Past
  <2>10. Ascending(toRemote', epoch)
    <3> SUFFICES ASSUME NEW i \in DOMAIN toRemote', NEW j \in DOMAIN toRemote', i < j,
                        Of(toRemote'[i], epoch), Of(toRemote'[j], epoch)
                 PROVE  toRemote'[i].begin + toRemote'[i].len <= toRemote'[j].begin
      BY DEF Ascending
    <3>1. CASE i \in DOMAIN toRemote /\ j \in DOMAIN toRemote
      BY <2>2, <3>1 DEF TileInv, Ascending
    <3>2. CASE i \in DOMAIN toRemote /\ ~(j \in DOMAIN toRemote)
      <4>1. j - L \in 1 .. n /\ toRemote'[j] = new[j - L] /\ toRemote'[i] = toRemote[i]
        BY <2>2, <2>3, <3>2
      <4>2. requested <= new[j - L].begin /\ new[j - L].begin \in Int
        BY <2>1, <2>4, <2>5, <4>1
      <4>3. /\ toRemote[i].begin + toRemote[i].len <= requested
            /\ toRemote[i].begin \in Int /\ toRemote[i].len \in Int
        BY <2>4, <2>5, <2>7, <3>2, <4>1
      <4> QED
        BY <1>0, <4>1, <4>2, <4>3
    <3>3. CASE ~(i \in DOMAIN toRemote)
      <4>1. i - L \in 1 .. n /\ toRemote'[i] = new[i - L] /\ i > L
        BY <2>3, <3>3
      <4>2. j - L \in 1 .. n /\ toRemote'[j] = new[j - L] /\ i - L < j - L
        BY <2>2, <2>3, <4>1
      <4> QED
        BY <2>1, <4>1, <4>2
    <3> QED
      BY <3>1, <3>2, <3>3
  <2>11. Before(toClient, toRemote', epoch)
    <3> SUFFICES ASSUME NEW i \in DOMAIN toClient, NEW j \in DOMAIN toRemote',
                        Of(toClient[i], epoch), Of(toRemote'[j], epoch)
                 PROVE  toClient[i].begin + toClient[i].len <= toRemote'[j].begin
      BY DEF Before
    <3>1. CASE j \in DOMAIN toRemote
      BY <2>2, <3>1 DEF TileInv, Before
    <3>2. CASE ~(j \in DOMAIN toRemote)
      <4>1. j - L \in 1 .. n /\ toRemote'[j] = new[j - L]
        BY <2>3, <3>2
      <4>2. requested <= new[j - L].begin /\ new[j - L].begin \in Int
        BY <2>1, <2>4, <2>5, <4>1
      <4>3. /\ toClient[i].begin + toClient[i].len <= requested
            /\ toClient[i].begin \in Int /\ toClient[i].len \in Int
        BY <2>4, <2>6, <2>8
      <4> QED
        BY <1>0, <4>1, <4>2, <4>3
    <3> QED
      BY <3>1, <3>2
  <2>12. Inside(toClient, epoch, piece, requested')
    <3> SUFFICES ASSUME NEW i \in DOMAIN toClient, Of(toClient[i], epoch)
                 PROVE  toClient[i].of = piece /\ toClient[i].begin + toClient[i].len <= requested'
      BY DEF Inside
    <3>1. /\ toClient[i].of = piece /\ toClient[i].begin + toClient[i].len <= requested
          /\ toClient[i].begin \in Int /\ toClient[i].len \in Int
      BY <2>4, <2>6, <2>8 DEF TileInv, Inside
    <3> QED
      BY <1>0, <2>1, <3>1
  <2>13. Inside(toRemote', epoch, piece, requested')
    <3> SUFFICES ASSUME NEW i \in DOMAIN toRemote', Of(toRemote'[i], epoch)
                 PROVE  /\ toRemote'[i].of = piece
                        /\ toRemote'[i].begin + toRemote'[i].len <= requested'
      BY DEF Inside
    <3>1. CASE i \in DOMAIN toRemote
      <4>1. toRemote'[i] = toRemote[i]
        BY <2>2, <3>1
      <4>2. /\ toRemote[i].of = piece /\ toRemote[i].begin + toRemote[i].len <= requested
            /\ toRemote[i].begin \in Int /\ toRemote[i].len \in Int
        BY <2>4, <2>5, <3>1, <4>1 DEF TileInv, Inside
      <4> QED
        BY <1>0, <2>1, <4>1, <4>2
    <3>2. CASE ~(i \in DOMAIN toRemote)
      BY <2>1, <2>3, <3>2
    <3> QED
      BY <3>1, <3>2
  <2>14. Quiet' /\ (agrees' /\ ~crowded' => Chokes')
    BY <1>3, <2>0 DEF TileInv, Chokes, Quiet, remote
  <2>15. requested' \in Int
    BY <2>1
  <2>16. Clean' <=> Clean
    BY <1>3 DEF Clean, drops
  <2>17. ASSUME NEW d \in 0 .. PieceLength, Tiled(d) PROVE Tiled(d)'
    <3>1. Tiled(d) /\ d \in Int
      BY <1>0, <2>17
    <3>2. d <= requested'
      BY <1>0, <2>1, <3>1 DEF Tiled
    <3>3. Above(toRemote', epoch, d)
      <4> SUFFICES ASSUME NEW i \in DOMAIN toRemote', Of(toRemote'[i], epoch)
                   PROVE  d <= toRemote'[i].begin
        BY DEF Above
      <4>1. CASE i \in DOMAIN toRemote
        BY <2>2, <3>1, <4>1 DEF Tiled, Above
      <4>2. CASE ~(i \in DOMAIN toRemote)
        <5>1. i - L \in 1 .. n /\ toRemote'[i] = new[i - L]
          BY <2>3, <4>2
        <5>2. requested <= new[i - L].begin /\ new[i - L].begin \in Int /\ d <= requested
          BY <2>1, <2>4, <2>5, <3>1, <5>1 DEF Tiled
        <5> QED
          BY <1>0, <5>1, <5>2
      <4> QED
        BY <4>1, <4>2
    <3>4. \A i \in DOMAIN toRemote' : Uncut(toRemote', i)
      <4>1. \A i \in DOMAIN toRemote' : toRemote'[i].kind = "piece"
        BY <2>3, <2>4, <2>5
      <4> QED
        <5> SUFFICES ASSUME NEW i \in DOMAIN toRemote', NEW j \in 1 .. i
                     PROVE  j \in DOMAIN toRemote'
          BY <4>1 DEF Uncut
        <5> QED
          BY <1>5, <2>2
    <3>5. ASSUME ~Cut(toClient), NEW o \in d .. requested' - 1
          PROVE  Covers(toClient, epoch, o) \/ Covers(toRemote', epoch, o)
      <4>1. CASE o < requested
        <5>1. o \in d .. requested - 1
          BY <1>0, <2>1, <4>1
        <5>2. Covers(toClient, epoch, o) \/ Covers(toRemote, epoch, o)
          BY <3>1, <3>5, <5>1 DEF Tiled
        <5>3. ASSUME Covers(toRemote, epoch, o) PROVE Covers(toRemote', epoch, o)
          <6>1. PICK i \in DOMAIN toRemote : Of(toRemote[i], epoch) /\ o \in Block(toRemote[i])
            BY <5>3 DEF Covers
          <6>2. i \in DOMAIN toRemote' /\ toRemote'[i] = toRemote[i]
            BY <1>5, <2>2
          <6> QED
            BY <3>4, <6>1, <6>2 DEF Covers
        <5> QED
          BY <5>2, <5>3
      <4>2. CASE ~(o < requested)
        <5>1. o \in requested .. requested' - 1
          BY <1>0, <2>15, <3>1, <4>2, Rest
        <5>2. PICK i \in 1 .. n : o \in Block(new[i])
          BY <2>1, <5>1
        <5>3. L + i \in DOMAIN toRemote' /\ toRemote'[L + i] = new[i]
          BY <1>5, <2>2
        <5>4. Of(new[i], epoch)
          BY <2>1, <2>4, <2>5 DEF Of
        <5> QED
          BY <3>4, <5>2, <5>3, <5>4 DEF Covers
      <4> QED
        BY <4>1, <4>2
    <3>6. Filled(d)'
      BY <1>3, <1>5, <1>8, <3>1, FilledUp DEF Tiled
    <3> QED
      BY <1>3, <2>16, <3>1, <3>2, <3>3, <3>5, <3>6 DEF Tiled
  <2> QED
    BY <1>3, <2>9, <2>10, <2>11, <2>12, <2>13, <2>14, <2>16, <2>17, TileNext DEF TileInv, drops
<1> QED
  BY <1>7, <1>8

LEMMA TileStep == TypeInv /\ TileInv /\ [Next]_vars => TileInv'
<1> SUFFICES ASSUME TypeInv, TileInv, [Next]_vars PROVE TileInv'
  OBVIOUS
<1>1. CASE Ready
  BY <1>1, TileFrame DEF Ready
<1>2. CASE RequestBlocks
  BY <1>2, TileRequests
<1>3. CASE ReadChoke
  BY <1>3, TileReadChoke
<1>4. CASE ReadUnchoke
  BY <1>4, TileReadUnchoke
<1>5. CASE ReadPiece
  BY <1>5, TileReadPiece
<1>6. CASE NextPiece
  BY <1>6, TileNextPiece
<1>8. CASE ReadFails
  BY <1>8, TileFrame DEF ReadFails
<1>9. CASE OwnRound
  <2>1. (Clean' <=> Clean) /\ crowded' /\ Quiet'
    BY <1>9 DEF OwnRound, Clean, drops, TileInv, Quiet, progress
  <2>2. ASSUME NEW d \in 0 .. PieceLength, Tiled(d) PROVE Tiled(d)'
    BY <1>9, <2>1, <2>2 DEF OwnRound, Tiled, Filled, progress
  <2> QED
    BY <1>9, <2>1, <2>2, TileNext DEF OwnRound, TileInv, progress, drops
<1>10. CASE Greet
  BY <1>10, TileGreet
<1>11. CASE ServeRequest
  BY <1>11, TileServe
<1>12. CASE IgnoreRequest \/ ServeFails
  BY <1>12, TileDrop
<1>13. CASE RoundSet
  <2>1. (Clean' <=> Clean) /\ Quiet' /\ ~(agrees /\ ~crowded)
    BY <1>13 DEF RoundSet, Clean, drops, TileInv, Quiet, Chokes, progress
  <2>2. ASSUME NEW d \in 0 .. PieceLength, Tiled(d) PROVE Tiled(d)'
    BY <1>13, <2>1, <2>2 DEF RoundSet, Tiled, Filled, progress
  <2> QED
    BY <1>13, <2>1, <2>2, TileNext DEF RoundSet, TileInv, progress, drops
<1>14. ASSUME NEW m \in {Choke, Unchoke}, RoundSend(m) PROVE TileInv'
  BY <1>14, TileRoundSend
<1>15. CASE UNCHANGED vars
  BY <1>15, TileFrame DEF vars
<1> QED
  BY <1>1, <1>2, <1>3, <1>4, <1>5, <1>6, <1>8, <1>9, <1>10, <1>11, <1>12,
     <1>13, <1>14, <1>15 DEF Next, Client, Remote

----------------------------------------------------------------------------
\* The whole piece.

\* Download returns once it has counted the bytes of the piece
Counted == pc = "done" => downloaded >= PieceLength

LEMMA CountedStep == TypeInv /\ Counted /\ [Next]_vars => Counted'
<1> SUFFICES ASSUME TypeInv, Counted, [Next]_vars PROVE Counted'
  OBVIOUS
<1>1. CASE ReadPiece
  <2>1. TypeInv'
    BY <1>1, ReadPieceTyped
  <2>2. pc' = IF downloaded' < PieceLength THEN "loop" ELSE "done"
    BY <1>1 DEF ReadPiece
  <2>3. downloaded' \in Int /\ PieceLength \in Int
    BY <2>1, DownloadAssumption DEF TypeInv, TypeOK
  <2> QED
    BY <2>2, <2>3 DEF Counted
<1>2. CASE Ready \/ RequestBlocks \/ ReadUnchoke \/ NextPiece \/ ReadFails
  BY <1>2 DEF Ready, RequestBlocks, ReadUnchoke, NextPiece, ReadFails, Counted
<1>3. CASE ReadChoke
  BY <1>3 DEF ReadChoke, Reads, Counted
<1>4. CASE OwnRound
  BY <1>4 DEF OwnRound, progress, Counted
<1>5. CASE Remote
  BY <1>5 DEF Remote, Greet, ServeRequest, IgnoreRequest, ServeFails, RoundSet, RoundSend, progress, Counted
<1>6. CASE UNCHANGED vars
  BY <1>6 DEF vars, progress, Counted
<1> QED
  BY <1>1, <1>2, <1>3, <1>4, <1>5, <1>6 DEF Next, Client

LEMMA CountedIsWhole == TypeInv /\ TileInv /\ Counted => WholePiece
<1> SUFFICES ASSUME TypeInv, TileInv, Counted, pc = "done", agrees, ~crowded, ~late, ~failed,
                    NEW o \in Offsets
             PROVE  buf[o] = piece
  BY DEF WholePiece
<1>1. o \in Int /\ o < PieceLength /\ PieceLength \in Int /\ downloaded \in Int
  BY DownloadAssumption DEF Offsets, TypeInv, TypeOK
<1>2. o < downloaded
  BY <1>1 DEF Counted
<1>3. PICK d \in 0 .. PieceLength : Tiled(d)
  BY DEF TileInv, Clean
<1> QED
  BY <1>2, <1>3 DEF Tiled, Clean

\* What Download returns without an error (conn.go:97) is the whole piece and
\* only that piece, for any lengths and any depth of the pipeline, however the
\* remote chokes in between, as long as the remote's flag agrees with what it
\* sends, no round of this side writes Choked, no answer comes late and the
\* remote fails to serve nothing: the blocks under way always tile what is
\* missing of the piece.
THEOREM WholePieces == Spec => []WholePiece
<1>1. Init => TypeInv /\ TileInv /\ Counted
  BY InitTyped, TileInit DEF Init, Counted
<1>2. TypeInv /\ TileInv /\ Counted /\ [Next]_vars => (TypeInv /\ TileInv /\ Counted)'
  BY TypeStep, TileStep, CountedStep
<1> QED
  BY <1>1, <1>2, CountedIsWhole, PTL DEF Spec

----------------------------------------------------------------------------
\* The stall.

LEMMA AskedStep == TypeInv /\ Asked /\ [Next]_vars => Asked'
<1> SUFFICES ASSUME TypeInv, Asked, [Next]_vars PROVE Asked'
  OBVIOUS
<1>1. CASE RequestBlocks
  <2> SUFFICES ASSUME ~choked PROVE inFlight' = MaxPipelineDepth \/ requested' = PieceLength
    BY <1>1 DEF RequestBlocks, Asked
  <2> DEFINE q == (PieceLength - requested + BlockSize - 1) \div BlockSize
             a == q * BlockSize
  <2>1. /\ BlockSize \in Nat \ {0} /\ PieceLength \in Nat \ {0} /\ MaxPipelineDepth \in Nat
        /\ requested \in 0 .. PieceLength /\ inFlight \in Int /\ inFlight <= MaxPipelineDepth
    BY DownloadAssumption DEF TypeInv, TypeOK
  <2>2. PieceLength - requested + BlockSize - 1 \in Nat
    BY <2>1
  <2>3. /\ q \in Nat /\ a \in Int
        /\ PieceLength - requested + BlockSize - 1 < a + BlockSize
    BY <2>1, <2>2, Quotient
  <2>4. Room = Smaller(MaxPipelineDepth - inFlight, q)
    BY DEF Room
  <2> HIDE DEF q
  <2>5. PICK n : n = Room
    OBVIOUS
  <2>6. n \in Nat /\ (n = MaxPipelineDepth - inFlight \/ n = q)
    BY <2>1, <2>3, <2>4, <2>5 DEF Smaller
  <2>7. ~(Room < 0)
    BY <2>5, <2>6
  <2>8. /\ requested' = Smaller(requested + n * BlockSize, PieceLength)
        /\ inFlight' = inFlight + n
    BY <1>1, <2>5, <2>7 DEF RequestBlocks
  <2>9. CASE n = MaxPipelineDepth - inFlight
    BY <2>1, <2>8, <2>9
  <2>10. CASE n = q
    <3>1. requested' = Smaller(requested + a, PieceLength)
      BY <2>8, <2>10
    <3> HIDE DEF a
    <3> QED
      BY <2>1, <2>3, <3>1 DEF Smaller
  <2> QED
    BY <2>6, <2>9, <2>10
<1>2. CASE Ready \/ NextPiece \/ ReadFails
  BY <1>2 DEF Ready, NextPiece, ReadFails, Asked
<1>3. CASE ReadChoke \/ ReadUnchoke \/ ReadPiece
  BY <1>3 DEF ReadChoke, ReadUnchoke, ReadPiece, Reads, Asked
<1>4. CASE OwnRound
  BY <1>4 DEF OwnRound, Asked, progress
<1>5. CASE Remote
  BY <1>5 DEF Remote, Greet, ServeRequest, IgnoreRequest, ServeFails, RoundSet, RoundSend, progress, Asked
<1>6. CASE UNCHANGED vars
  BY <1>6 DEF vars, progress, Asked
<1> QED
  BY <1>1, <1>2, <1>3, <1>4, <1>5, <1>6 DEF Next, Client

\* who has asked for all there was room for has something under way, unless
\* some of it was dropped
LEMMA NothingUnderWay ==
    ASSUME TypeInv, TileInv, Asked, pc = "read", ~sawChoked,
           toClient = <<>>, toRemote = <<>>
    PROVE  dropped /\ ~Clean
<1> SUFFICES ASSUME Clean \/ ~dropped PROVE FALSE
  BY DEF Clean, TypeInv, TypeOK
<1>1. PICK d \in 0 .. PieceLength : Tiled(d)
  BY DEF TileInv
<1>2. /\ BlockSize \in Nat \ {0} /\ PieceLength \in Nat \ {0} /\ MaxPipelineDepth \in Nat \ {0}
      /\ requested \in Int /\ requested <= PieceLength /\ downloaded \in Int
      /\ downloaded < PieceLength /\ d \in Int
  BY DownloadAssumption DEF TypeInv, TypeOK, Unfinished
<1>3. ~Cut(toClient) /\ \A o : ~Covers(toClient, epoch, o) /\ ~Covers(toRemote, epoch, o)
  BY DEF Cut, Covers
<1>4. \A o \in d .. requested - 1 : FALSE
  BY <1>1, <1>3 DEF Tiled
<1>5. d <= requested /\ d <= downloaded
  BY <1>1 DEF Tiled
<1>6. requested = d
  <2>1. d < requested => d \in d .. requested - 1
    BY <1>2
  <2> QED
    BY <1>2, <1>4, <1>5, <2>1
<1>7. requested < PieceLength
  BY <1>2, <1>5, <1>6
<1>8. inFlight = MaxPipelineDepth
  BY <1>2, <1>7 DEF Asked
<1>9. inFlight * BlockSize <= 0
  BY <1>1, <1>2, <1>6, <1>7 DEF Tiled, Filled
<1>10. 1 * BlockSize <= inFlight * BlockSize
  BY <1>2, <1>8, TimesMonotonic
<1>11. inFlight * BlockSize \in Int
  BY <1>2, <1>8
<1> QED
  BY <1>2, <1>9, <1>10, <1>11

\* A download waits with nothing under way only if it saw itself choked or the
\* remote dropped what it was asked for since the last Choke, and behind a
\* remote whose flag agrees with what it sends (and without rounds of this
\* side) only if a block could not be read: for any lengths and any depth of
\* the pipeline, whoever writes the flags, and whatever answers come late.
\* What a Choke cancels is asked for again (conn.go:131), the blocks not
\* answered yet fill the pipeline, and no room stays unused.
THEOREM StallsAreDrops == Spec => []StallMeansDropped
<1>1. Init => TypeInv /\ TileInv /\ Asked
  BY InitTyped, TileInit DEF Init, Asked
<1>2. TypeInv /\ TileInv /\ Asked /\ [Next]_vars => (TypeInv /\ TileInv /\ Asked)'
  BY TypeStep, TileStep, AskedStep
<1>3. TypeInv /\ TileInv /\ Asked => StallMeansDropped
  BY NothingUnderWay DEF StallMeansDropped, Clean
<1> QED
  BY <1>1, <1>2, <1>3, PTL DEF Spec

============================================================================

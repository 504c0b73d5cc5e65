-------------------------- MODULE BlockDownload --------------------------
(***************************************************************************)
(* The download of pieces, one after the other, over one connection: on    *)
(* this side awaitReady and Conn.Download, on the other serveUpload and    *)
(* the choking rounds, between them two ordered byte streams.  The remote  *)
(* is this program, or one that differs in that its choked flag always     *)
(* agrees with what it last sent (agrees).  A byte is represented by the   *)
(* number of the piece it belongs to.                                      *)
(***************************************************************************)
EXTENDS Integers, Sequences

CONSTANTS
    Pieces,           \* number of pieces downloaded one after the other
    PieceLength,      \* bytes of a piece, the same for all
    BlockSize,        \* bytes of a full block
    MaxPipelineDepth,
    MaxRounds         \* bound: messages the remote's choking rounds send

ASSUME DownloadAssumption ==
    /\ Pieces \in Nat \ {0} /\ PieceLength \in Nat \ {0}
    /\ BlockSize \in Nat \ {0} /\ MaxPipelineDepth \in Nat \ {0}
    /\ MaxRounds \in Nat

VARIABLES
    agrees,      \* the remote's flag changes together with what it sends
    crowded,     \* this side's choking rounds write Conn.Choked too
    pc,          \* "await", "loop", "read", "done" or "failed"
    piece,       \* the piece being downloaded: its number, from 1
    buf,         \* its bytes as received, 0 where nothing was copied
    downloaded, requested, inFlight,
    choked,      \* Conn.Choked of this side
    sawChoked,   \* what the last pass over the pipeline saw of it
    toRemote,    \* the requests on their way
    toClient,    \* the messages on their way back
    remoteChoked,\* Conn.Choked of the remote's side
    told,        \* the last of Choke and Unchoke the remote sent
    sending,     \* a round of the remote has sent and not yet set its flag
    rounds,      \* number of messages rounds sent
    epoch,       \* history: number of resets and of pieces started
    late,        \* history: an answer to a request made before a reset came
    dropped,     \* history: the remote dropped a request of this epoch
    failed       \* history: it failed to serve one while this piece was asked for

progress == <<piece, buf, downloaded, requested, inFlight, epoch, late>>
remote == <<remoteChoked, told, sending, rounds>>
drops == <<dropped, failed>>
vars == <<agrees, crowded, pc, progress, choked, sawChoked, toRemote, toClient, remote, drops>>

Offsets == 0 .. PieceLength - 1
Blank == [o \in Offsets |-> 0]

Choke == [kind |-> "choke"]
Unchoke == [kind |-> "unchoke"]

\* the connection is registered on both sides and serveUpload not started
Init ==
    /\ agrees \in BOOLEAN /\ crowded \in BOOLEAN
    /\ pc = "await" /\ piece = 1 /\ buf = Blank
    /\ downloaded = 0 /\ requested = 0 /\ inFlight = 0
    /\ choked = TRUE /\ sawChoked = TRUE
    /\ toRemote = <<>> /\ toClient = <<>>
    /\ remoteChoked = TRUE /\ told = "nothing" /\ sending = FALSE /\ rounds = 0
    /\ epoch = 0 /\ late = FALSE /\ dropped = FALSE /\ failed = FALSE

----------------------------------------------------------------------------
\* This side.

\* awaitReady returns once Choked is false
Ready ==
    /\ pc = "await" /\ ~choked
    /\ pc' = "loop"
    /\ UNCHANGED <<agrees, crowded, progress, choked, sawChoked, toRemote, toClient, remote, drops>>

Smaller(a, b) == IF a < b THEN a ELSE b

\* the blocks the pipeline has room for
Room ==
    Smaller(MaxPipelineDepth - inFlight,
            (PieceLength - requested + BlockSize - 1) \div BlockSize)

BlockLength(begin) == Smaller(BlockSize, PieceLength - begin)

Request(begin) ==
    [kind |-> "piece", of |-> piece, begin |-> begin, len |-> BlockLength(begin),
     epoch |-> epoch]

\* (mutant) the last block is not shortened
RequestWholeBlocks ==
    /\ pc = "loop"
    /\ pc' = "read"
    /\ LET n == IF choked \/ Room < 0 THEN 0 ELSE Room IN
        /\ toRemote' = toRemote \o
                [i \in 1 .. n |-> Request(requested + (i - 1) * BlockSize)]
        /\ requested' = requested + n * BlockSize
        /\ inFlight' = inFlight + n
    /\ sawChoked' = choked
    /\ UNCHANGED <<agrees, crowded, piece, buf, downloaded, epoch, late, choked,
                   toClient, remote, drops>>

\* the head of Download's loop, down to the Read
RequestBlocks ==
    /\ pc = "loop"
    /\ pc' = "read"
    /\ LET n == IF choked \/ Room < 0 THEN 0 ELSE Room IN
        /\ toRemote' = toRemote \o
                [i \in 1 .. n |-> Request(requested + (i - 1) * BlockSize)]
        /\ requested' = Smaller(requested + n * BlockSize, PieceLength)
        /\ inFlight' = inFlight + n
    /\ sawChoked' = choked
    /\ UNCHANGED <<agrees, crowded, piece, buf, downloaded, epoch, late, choked,
                   toClient, remote, drops>>

Reads(kind) ==
    /\ pc \in {"await", "read"}
    /\ toClient # <<>> /\ Head(toClient).kind = kind
    /\ toClient' = Tail(toClient)

\* (mutant) the requests before the choke still count as under way
ChokeForgotten ==
    /\ Reads("choke")
    /\ choked' = TRUE
    /\ pc' = IF pc = "read" THEN "loop" ELSE "await"
    /\ UNCHANGED <<agrees, crowded, progress, sawChoked, toRemote, remote, drops>>

\* (mutant) the piece is asked for from its beginning, the count is kept
ChokeRestarts ==
    /\ Reads("choke")
    /\ choked' = TRUE
    /\ IF pc = "read"
       THEN /\ pc' = "loop" /\ requested' = 0 /\ inFlight' = 0
            /\ epoch' = epoch + 1 /\ dropped' = FALSE
       ELSE UNCHANGED <<pc, requested, inFlight, epoch, dropped>>
    /\ UNCHANGED <<agrees, crowded, piece, buf, downloaded, late, sawChoked, toRemote,
                   remote, failed>>

ReadChoke ==
    /\ Reads("choke")
    /\ choked' = TRUE
    /\ IF pc = "read"
       THEN /\ pc' = "loop"
            /\ requested' = downloaded /\ inFlight' = 0
            /\ epoch' = epoch + 1 /\ dropped' = FALSE
       ELSE UNCHANGED <<pc, requested, inFlight, epoch, dropped>>
    /\ UNCHANGED <<agrees, crowded, piece, buf, downloaded, late, sawChoked, toRemote,
                   remote, failed>>

ReadUnchoke ==
    /\ Reads("unchoke")
    /\ choked' = FALSE
    /\ pc' = IF pc = "read" THEN "loop" ELSE "await"
    /\ UNCHANGED <<agrees, crowded, progress, sawChoked, toRemote, remote, drops>>

\* whatever piece the answer names, it is copied to its offset and counted
ReadPiece ==
    LET m == Head(toClient) IN
    /\ pc = "read" /\ Reads("piece")
    /\ buf' = [o \in Offsets |-> IF o \in m.begin .. m.begin + m.len - 1 THEN m.of ELSE buf[o]]
    /\ downloaded' = downloaded + m.len
    /\ inFlight' = inFlight - 1
    /\ late' = (late \/ m.epoch # epoch)
    /\ pc' = IF downloaded' < PieceLength THEN "loop" ELSE "done"
    /\ UNCHANGED <<agrees, crowded, piece, requested, epoch, choked, sawChoked, toRemote,
                   remote, drops>>

\* downloadFromPeer delivers the piece and calls Download for the next
NextPiece ==
    /\ pc = "done" /\ piece < Pieces
    /\ pc' = "loop" /\ piece' = piece + 1 /\ buf' = Blank
    /\ downloaded' = 0 /\ requested' = 0 /\ inFlight' = 0
    /\ epoch' = epoch + 1 /\ late' = FALSE /\ dropped' = FALSE /\ failed' = FALSE
    /\ UNCHANGED <<agrees, crowded, choked, sawChoked, toRemote, toClient, remote>>

\* the Read fails: its deadline passes, whatever is under way, or the
\* connection is lost
ReadFails ==
    /\ pc \in {"await", "read"}
    /\ pc' = "failed"
    /\ UNCHANGED <<agrees, crowded, progress, choked, sawChoked, toRemote, toClient, remote, drops>>

\* regularUnchoke and optimisticUnchoke of this side's pool
OwnRound ==
    /\ crowded /\ pc \in {"await", "loop", "read"}
    /\ choked' = ~choked
    /\ UNCHANGED <<agrees, crowded, pc, progress, sawChoked, toRemote, toClient, remote, drops>>

----------------------------------------------------------------------------
\* The remote.

\* serveUpload starts: Unchoke is sent, the flag is not touched
Greet ==
    /\ told = "nothing"
    /\ toClient' = Append(toClient, Unchoke)
    /\ told' = "unchoke"
    /\ remoteChoked' = (remoteChoked /\ ~agrees)
    /\ UNCHANGED <<agrees, crowded, pc, progress, choked, sawChoked, toRemote, sending,
                   rounds, drops>>

\* serveUpload reads the next request
TakesRequest ==
    /\ told # "nothing" /\ toRemote # <<>>
    /\ toRemote' = Tail(toRemote)
Drops == dropped' = (dropped \/ Head(toRemote).epoch = epoch)

\* a request is answered unless Choked
ServeRequest ==
    /\ ~remoteChoked /\ TakesRequest
    /\ toClient' = Append(toClient, Head(toRemote))
    /\ UNCHANGED <<agrees, crowded, pc, progress, choked, sawChoked, remote, drops>>

IgnoreRequest ==
    /\ remoteChoked /\ TakesRequest
    /\ Drops
    /\ UNCHANGED <<agrees, crowded, pc, progress, choked, sawChoked, toClient, remote, failed>>

\* no storage, or its ReadBlock fails: the loop goes on without an answer
ServeFails ==
    /\ ~remoteChoked /\ TakesRequest
    /\ Drops
    /\ failed' = TRUE
    /\ UNCHANGED <<agrees, crowded, pc, progress, choked, sawChoked, toClient, remote>>

\* a choking round sends first and sets the flag afterwards
RoundSend(m) ==
    /\ told # "nothing" /\ ~sending /\ rounds < MaxRounds
    /\ toClient' = Append(toClient, m)
    /\ told' = m.kind
    /\ rounds' = rounds + 1
    /\ IF agrees
       THEN remoteChoked' = (m = Choke) /\ sending' = FALSE
       ELSE sending' = TRUE /\ UNCHANGED remoteChoked
    /\ UNCHANGED <<agrees, crowded, pc, progress, choked, sawChoked, toRemote, drops>>

RoundSet ==
    /\ sending
    /\ sending' = FALSE
    /\ remoteChoked' = (told = "choke")
    /\ UNCHANGED <<agrees, crowded, pc, progress, choked, sawChoked, toRemote, toClient, told,
                   rounds, drops>>

----------------------------------------------------------------------------
Client ==
    \/ Ready \/ RequestBlocks \/ ReadChoke \/ ReadUnchoke \/ ReadPiece
    \/ NextPiece \/ ReadFails \/ OwnRound

Remote ==
    \/ Greet \/ ServeRequest \/ IgnoreRequest \/ ServeFails
    \/ RoundSet \/ \E m \in {Choke, Unchoke} : RoundSend(m)

Next == Client \/ Remote

Spec == Init /\ [][Next]_vars

----------------------------------------------------------------------------
\* Properties.

BlockRequests ==
    [kind : {"piece"}, of : 1 .. Pieces, begin : Offsets, len : 1 .. BlockSize, epoch : Nat]

\* Every variable keeps its type: no request reaches past the piece, the
\* pipeline never exceeds its depth, and a piece is never over-counted by a
\* whole block, whatever the remote does and whoever writes the flags.
TypeOK ==
    /\ agrees \in BOOLEAN /\ crowded \in BOOLEAN
    /\ pc \in {"await", "loop", "read", "done", "failed"}
    /\ piece \in 1 .. Pieces /\ buf \in [Offsets -> 0 .. Pieces]
    /\ downloaded \in 0 .. PieceLength + BlockSize - 1
    /\ requested \in 0 .. PieceLength
    /\ inFlight \in Int /\ inFlight <= MaxPipelineDepth
    /\ choked \in BOOLEAN /\ sawChoked \in BOOLEAN /\ remoteChoked \in BOOLEAN /\ sending \in BOOLEAN
    /\ told \in {"nothing", "choke", "unchoke"}
    /\ toRemote \in Seq(BlockRequests)
    /\ toClient \in Seq(BlockRequests \cup {Choke, Unchoke})
    /\ rounds \in 0 .. MaxRounds /\ epoch \in Nat
    /\ late \in BOOLEAN /\ dropped \in BOOLEAN /\ failed \in BOOLEAN

\* What Download returns without an error is the whole piece and only that
\* piece (conn.go:97, the loop ends by counting bytes), however often the
\* remote choked in between, as long as its flag agrees with its messages, no
\* round of this side wrote Choked, no answer came late and the remote failed
\* to serve none of the requests: a block that was skipped and a Choke after it
\* would make the count restart behind the hole.
WholePiece ==
    pc = "done" /\ agrees /\ ~crowded /\ ~late /\ ~failed =>
        \A o \in Offsets : buf[o] = piece

\* A download waits for a Read (conn.go:117) with nothing under way in either
\* direction only if it saw itself choked, or if the remote dropped a request
\* made since the last Choke: whoever writes the flags and however late
\* answers come, nothing that could be asked for is left unasked, and what a
\* Choke cancelled is asked for again (conn.go:131).  A remote whose flag
\* agrees with what it says, met by a side that runs no rounds of its own,
\* never comes to that by its flag, only by failing to read what it was asked.
StallMeansDropped ==
    pc = "read" /\ toClient = <<>> /\ toRemote = <<>> /\ ~sawChoked =>
        dropped /\ (agrees /\ ~crowded => failed)

----------------------------------------------------------------------------
\* The inductive strengthening of WholePiece and StallMeansDropped, over the
\* requests and answers under way that belong to the current epoch e.

Of(m, e) == m.kind = "piece" /\ m.epoch = e
Block(m) == m.begin .. m.begin + m.len - 1
Cut(q) == \E i \in DOMAIN q : q[i].kind = "choke"
Uncut(q, i) == \A j \in 1 .. i : q[j].kind # "choke"
Covers(q, e, o) == \E i \in DOMAIN q : Uncut(q, i) /\ Of(q[i], e) /\ o \in Block(q[i])

None(q, e) == \A i \in DOMAIN q : ~Of(q[i], e)

\* nothing under way is of an epoch to come
Past(q, e) == \A i \in DOMAIN q : q[i].kind = "piece" => q[i].epoch <= e

\* in the order of the stream the blocks of an epoch go up
Ascending(q, e) ==
    \A i, j \in DOMAIN q :
        i < j /\ Of(q[i], e) /\ Of(q[j], e) => q[i].begin + q[i].len <= q[j].begin
Before(q, s, e) ==
    \A i \in DOMAIN q, j \in DOMAIN s :
        Of(q[i], e) /\ Of(s[j], e) => q[i].begin + q[i].len <= s[j].begin

\* they are blocks of piece p that end where r or less has been asked for
Inside(q, e, p, r) ==
    \A i \in DOMAIN q : Of(q[i], e) => q[i].of = p /\ q[i].begin + q[i].len <= r

\* they begin at byte d or later, and up to the first Choke none is missing
Above(q, e, d) == \A i \in DOMAIN q : Of(q[i], e) => d <= q[i].begin
Gapless(q, e, d) ==
    \A i \in DOMAIN q : Of(q[i], e) /\ Uncut(q, i) =>
        \A o \in d .. q[i].begin - 1 : Covers(q, e, o)

\* no Unchoke without a Choke behind it
ChokeLast(q) ==
    \A i \in DOMAIN q : q[i].kind = "unchoke" =>
        \E j \in DOMAIN q : i < j /\ q[j].kind = "choke"

\* nothing is asked for before the first Unchoke
Quiet == pc = "await" => requested = 0 /\ None(toClient, epoch) /\ None(toRemote, epoch)

\* a remote that agrees ignores a request only behind a Choke, or when none is
\* under way
Chokes ==
    /\ sending = FALSE
    /\ choked => None(toClient, epoch) /\ None(toRemote, epoch)
    /\ remoteChoked => (choked \/ Cut(toClient)) /\ ChokeLast(toClient)

\* the blocks that are not answered yet fill the pipeline: no room is left
\* over but by answers that came late
Filled(d) ==
    /\ (inFlight - 1) * BlockSize < requested - d
    /\ requested < PieceLength => inFlight * BlockSize <= requested - d

\* nothing spoiled the piece or the order in which its blocks are dropped
Clean == agrees /\ ~crowded /\ ~failed

\* What is asked for beyond byte d is what is under way; d is what Download
\* has counted, less what it counted from answers that came late.
Tiled(d) ==
    /\ d <= requested /\ d <= downloaded
    /\ Clean /\ ~late => d = downloaded /\ \A o \in Offsets : o < d => buf[o] = piece
    /\ Above(toClient, epoch, d) /\ Above(toRemote, epoch, d)
    /\ Gapless(toClient, epoch, d)
    /\ ~Cut(toClient) =>
           \A o \in d .. requested - 1 :
               Covers(toClient, epoch, o) \/ Covers(toRemote, epoch, o)
    /\ Filled(d)

TileInv ==
    /\ Past(toClient, epoch) /\ Past(toRemote, epoch)
    /\ Ascending(toClient, epoch) /\ Ascending(toRemote, epoch)
    /\ Before(toClient, toRemote, epoch)
    /\ Inside(toClient, epoch, piece, requested)
    /\ Inside(toRemote, epoch, piece, requested)
    /\ Quiet
    /\ agrees /\ ~crowded => Chokes
    /\ Clean \/ ~dropped => \E d \in 0 .. PieceLength : Tiled(d)

\* The inductive strengthening of StallMeansDropped: who reads without having
\* been choked has asked for all there was room for.
Asked ==
    pc = "read" /\ ~sawChoked =>
        inFlight = MaxPipelineDepth \/ requested = PieceLength

============================================================================

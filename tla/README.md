# qBit-Go in TLA+

A verification project for qBit-Go, a BitTorrent client in Go (engine, peer
manager, scheduler, storage, trackers, DHT, HTTP API) with a web client in React.
The modules translate the code under `src/internal` and `src/web/src`; TLC checks
them on small instances, TLAPS proves the main safety results for every instance.

## 1. The system

| part | code | state | operations | what makes it correct |
|---|---|---|---|---|
| Engine registry | `engine/engine.go`, `persistence.go` | map of sessions under `e.mu`, the database buckets `torrents` and `fastresume` | `Add`, `AddMagnet`/`fetchMetadata`, `Remove`, `Shutdown`, `RestoreFromDB` | map, running sessions and database agree; what was removed does not run |
| Session pipeline | `engine.runSession`, `peer/manager.go` (download goroutines), `scheduler.WorkQueue`, `storage` writer | the channels from the work queue to the collector, the bitfields, the fast-resume record | feed, take, reject, requeue, download, deliver, write, mark, broadcast; `Pause`, `Resume`, `Remove`, `Shutdown`, restart | each piece in one place, none lost, claims only what is on disk, completes |
| Block download | `peer/conn.go` `Download`, `awaitReady`; `serveUpload`, the choking rounds | counts of requested and received bytes, the choked flags of both ends, the byte streams | pipelined requests, choke and unchoke at any time | a piece that is returned is whole, a download that could go on does |
| Peer pool | `peer/manager.go`, `conn.go` | map of connections under `m.mu`, each connection's outbound channel, its write loop | dial, accept, register, remove, choking rounds, `BroadcastHave`, `Stop` | the cap, no stale entry, nobody waits for ever with the lock held |
| Storage layout | `storage/storage.go`, `bitfield`, `torrent.go` | open files | `PieceRegions`, `ReadBlock`, `Verify` | regions tile the piece, reads agree with writes |
| Tracker client | `tracker/*.go` | the loop's event and backoff, one UDP socket per tracker, one transaction per exchange | `AnnounceLoop`, the announce to all trackers at once, connect and announce with their retries, cancellation | "started" is said until somebody has heard it, connection identifiers are used by whom they were given to, the loop ends |
| DHT | `dht/dht.go` | buckets under a lock each, pending transactions, tokens | `Bootstrap`, `FindPeers`, `Announce`, the read loop, `Close` | answers reach their query, tokens their issuer, a bucket holds a node once and at most K, every call returns |
| Scheduler picking | `scheduler.go` | frequencies, in-flight set, priorities | `PickPiece`, `SetMode`, `SetPriority` | called by tests only: the engine uses `WorkQueue` |
| PEX, metadata | `peer/pex.go`, `extension.go` | last known peers, metadata pieces | exchange, fetch | bounded, complete |
| Rate limiter | `ratelimit.go` | token buckets | `WaitDownload`, `WaitUpload` | constructed, never called |
| Web client: the page | `web/src/App.jsx`, `api.js`, `main.jsx`; `handleWebSocket` | torrents, stats, online; the effect's socket, retries, reconnectTimer, unmounted | `refresh`, `connect`, the socket's events, the cleanup and the next run of the effect | one live connection or one timer, Connected only while it lives, pushes in order, the page catches up |
| Web client: the controls | `TorrentList.jsx`, `TorrentRow.jsx`, `Alert.jsx`, `AddModal.jsx`, `App.jsx`; the handlers behind them | a row's busy and askRemove, the dialog's tab and fields, requests under way | pause, resume, remove, add, open, close | an alert names its torrent, nothing stays disabled but what waits for an answer, the page settles |
| HTTP API | `api/server.go` | none of its own | list, stats, add, remove, pause, resume, the WebSocket loop | seen through the page |
| Parsing | `bencode`, `magnet`, `torrent.go`, `message.go`, `handshake.go` | none | pure input and output | not modelled |

The engine owns the sessions.  A session owns a peer manager, a scheduler, a
storage manager and a tracker client, each a set of goroutines that talk over
channels: pieces to download go from the scheduler's channel through a feeder to
`m.work`, which all peers' goroutines read; results go back through `m.results`
to the collector, which writes them (through the storage writer's channel),
marks them and broadcasts them.  The peers reach the pool through the tracker,
the DHT, peer exchange and the listener.  What is hard: every operation spans
several critical sections; peers return what they took to the queue they read;
sends that block are made with the pool's lock held; one flag serves both
directions of choking; the fast-resume record is trusted after a crash without
verification; the metadata of a magnet arrives while clients remove and add the
same torrent; announces of several rounds read one socket; DHT answers are
matched by identifiers that may repeat.  The web client sees the engine through
requests that overlap and a connection that drops: its sockets outlive the run
of the effect that opened them, its requests outlive the row or the dialog that
sent them, and the list changes under an open alert.

PROJECT.json lists these hazards line by line with the properties that cover
them, or the reason none does.

## 2. The modules

| module | models | extends |
|---|---|---|
| `PieceLedger` | what a session promises about its pieces, without the pipeline | |
| `Session` | one torrent's pipeline, stops and restarts; implements `PieceLedger` | |
| `SessionProofs` | seven theorems about it | `Session`, `TLAPS` |
| `PeerPool` | one torrent's pool of connections | |
| `PeerPoolProofs` | five theorems about it | `PeerPool`, `TLAPS` |
| `BlockDownload` | one connection while pieces are downloaded over it | |
| `BlockDownloadProofs` | three theorems about it | `BlockDownload`, `TLAPS` |
| `Registry` | the session map and the database under concurrent requests | |
| `RegistryProofs` | four theorems about it | `Registry`, `TLAPS` |
| `AnnounceRounds` | what an announce loop promises, without goroutines, sockets and delays | |
| `Tracker` | the tracker client of one session, and the UDP trackers; implements `AnnounceRounds` | |
| `TrackerProofs` | seven theorems about it | `Tracker`, `TLAPS` |
| `Dht` | the DHT node and the network it talks to | |
| `DhtProofs` | seven theorems about it | `Dht`, `TLAPS` |
| `LivePage` | how the page of the web client stays current | |
| `LivePageProofs` | six theorems about it | `LivePage`, `TLAPS` |
| `PageControls` | what the user does on the page, and the handlers behind it | |
| `PageControlsProofs` | three theorems about it | `PageControls`, `TLAPS` |
| `MC...` | small instances for TLC | the module named |

Each module has one action per step of a goroutine between two points where
another can observe it: a channel operation, a lock, a database transaction.
Definitions keep the code's names; the `map` of PROJECT.json gives the lines
of each.  The pieces of the system meet at named places: what `Session` takes
for a download that succeeds, fails or delivers wrong data is `BlockDownload`;
what it takes for a dial or a connection that ends is `PeerPool`; what it takes
for a Remove or a restart is `Registry`.  The addresses `Tracker` delivers and
`Dht` finds are the dials of `PeerPool`; `Cancel` in `Tracker` is a session that
`Session` stops, and `Close` in `Dht` is the `Shutdown` of `Registry`.  The
versions `LivePage` carries are what `List` and `Stats` say of all that;
`engine` in `PageControls` is the map of `Registry` as `List` shows it, and `Show`
there is what a push or a refresh of `LivePage` does.

### Session

`feed`, `feeding`, `work`, `hand`, `results`, `cur` and `have` are the places a
piece passes through.  A member of `Peers` is a download goroutine with a fixed
set of pieces it can serve (`Holds`); members of `Flaky` may fail to dial or in
the middle of a piece, members of `Corrupt` may deliver data whose hash is
wrong.  `Requeue` and the counting of misses with its half-second nap are
separate steps because another peer may take the piece in between; the nap
itself is left by `Wake`, at any moment.  `request` is where a Pause or Resume under
way is: each finds the session, then writes the state without a lock (`Pause`,
`Resume`) after a test of its own (`ResumeCheck`) or before stopping the peers
(`PauseStop`), and the collector's steps, its write of seeding among them, fall
between.  `WriteOK` and `WriteFails` are the storage writer's
answer.  `Scheduler.ReturnWork` deletes an entry that is never there, so it is
a stutter in `WriteFails`.  `Restart` is a crash at any step followed by
`RestoreFromDB` with what was durable.

Abstractions: piece data is its being right or wrong; the cap on connections is
`PeerPool`'s; priorities stay at their default (the engine sets none); a select
with several ready cases may take any of them; `WriteOK` may still happen after
`Close` has closed the files, which only over-approximates; two calls of `Stop`
that both close the peer manager's `quit` (section 5) are like one.

### PieceLedger

The abstract specification: sets of pieces that are on disk, recorded, verified
in this run, known to the scheduler, shown in the bitfield and told to the peers.
`Session!Ledger` instantiates it with `onDisk`, `saved`, `stored`, `have`, `tbf`,
`announced` and `state`; queues, peers, results and the collector are hidden.
`Settled` is the promise that pieces are handled one at a time: nothing is
verified before everything verified earlier has been told.  `Records` says that a
record keeps what this run verified and names nothing that is not on disk; what it
keeps of earlier runs is left open, so an engine that kept all of it would be an
implementation as well as this one, which keeps nothing of it (section 5).  `Ask` is a
client that pauses or resumes, also what is seeding.

### PeerPool

A member of `Outs` is one goroutine of `maybeConnect`, a member of `Ins` one
`AcceptInbound`; two members may have one address.  Critical sections that do
not wait are single steps.  The choking rounds and `BroadcastHave` hold the lock
over several steps, one per `Send`, and each waits while the outbound channel is
full.  A write error ends `writeLoop` and nothing else, as in the code.

Abstractions: an outbound channel is the number of its messages; the order of
upload rates is any order; a round visits a set rather than a list; peer
exchange (`tryStartPEX`, `runPEX`) is left out.

### BlockDownload

`RequestBlocks` is one pass through the head of `Download`'s loop, `ReadChoke`,
`ReadUnchoke` and `ReadPiece` its switch, `ReadFails` a Read whose deadline passes,
whatever is under way, or whose connection is lost.  The remote is `serveUpload`: it
sends `Unchoke` first, passes over a request while its own `Choked` is set
(`IgnoreRequest`) and over one it has no storage for or cannot read (`ServeFails`), and
answers the others; a choking round sends and then
sets the flag (`RoundSend`, `RoundSet`).  `agrees` says the remote is another
client whose flag changes with its messages; `crowded` that this side's rounds
write the flag `Download` reads.  Both are chosen in `Init` and never change.
The rest is history: a request carries the `epoch` it was made in, `late` says that
an answer of an earlier epoch was read, `dropped` that a request of this epoch was
passed over and `failed` that one was because it could not be read; `sawChoked` is
what the head of the loop saw of the flag.

Abstractions: a byte is the number of the piece it belongs to; pieces have one
length (the torrent's last piece may be shorter); messages that change neither
count nor flag are left out; `Send` finds room in the outbound channel
(`PeerPool` is about when it does not).

### Registry

A client is one API request; `AddCheck`, `AddStart`, `AddPut` are the three
critical sections of `Add`, `RemoveEntry`, `RemoveStop`, `RemoveRecord` those of
`Remove`, and `Fetch...` the steps of a magnet's `fetchMetadata`.  `Shutdown`
holds `e.mu` throughout and saves one session at a time.  `Restart` is a crash or
an exit at any step and `RestoreFromDB` over what the two buckets hold.

Requests overlap as net/http lets them.  Two races break the agreement of map,
sessions and database: two `Add`s of one torrent that are past the check together,
and a `Remove` that comes to delete the record after a later `Add` has entered the
torrent again.  `doubled` and `undone` are history of exactly those, and the
properties say that nothing else breaks it, for torrents that were never magnets:
`fetchMetadata` checks, deletes and inserts under separate locks.  Panics in handlers
are recovered by the server's middleware and change nothing else.

`Complete`, `SaveResume` and `SessionQuit` are all this module sees of a session.
`SaveResume` may still run after `RemoveRecord`, as in the code: it leaves a
fast-resume entry without a torrent, which `RestoreFromDB` reads only if the same
torrent has been added again in between.

### Tracker

`loop` is where `AnnounceLoop` is, `calls[r][t]` what `Announce` of round `r` is
doing at tracker `t`.  A round fans out to every tracker at once and the loop goes
on with the first answer, so calls of earlier rounds live on beside those of the
round under way; those at one UDP tracker share its client's socket, and
`ReadConnect` and `ReadAnnounce` take whatever datagram is first in it.  `connect`
compares the transaction it gets, `announce` only looks whether the answer has
20 bytes and whole peers after them, and both are translated so.  A tracker answers a
connect with 16 bytes, or with an error, whose text may make it as long as an
announce answer; `misled` is the history of an announce that took such an error for
its own.  `GiveUp` is
the last deadline of `sendWithRetry`, `SendFails` a socket that refuses.

Abstractions: transactions are named by round and kind (random in the code, and
not compared by `announce`); an answer is the connect it belongs to and whether it
could be an announce answer (an error text may have any length); a request that
is lost stays in `net` for ever; delays are counted in units of the shortest.
The reader of peer lists goes away when a session is stopped, before its context
is cancelled, so it is never bound to read.  The one-off announce for a magnet,
which has no loop, and `Close`, which sessions do not call, are left out.

### AnnounceRounds

The abstract specification of `Tracker`: rounds follow one another, each says
started until one was answered and regular from then on, stopped is the last thing
said, and no round is answered before a tracker has answered started or an error has
passed for its answer.  The loop may return between any two rounds, and say stopped
before that or not: the comment of `AnnounceLoop` and docs/tracker.md:30 have it say
stopped whenever it is cancelled, the code does so only after an answered round, and
both are implementations (section 5).  `Tracker!Announced` instantiates it with `said`
up to the round under way, with how each round that is over ended, read off its calls,
with `SeemsHeard` and with the loop being at its end.  Backoffs, deliveries, datagrams
and the calls that outlive their round are hidden.

### Dht

`stage[o]` is where an operation is and `query[o][n]` its query to node `n`, which
waits under a transaction identifier in `pending`, for its channel or for five
seconds.  `Unregister` deletes by identifier, whoever is registered under it, and
identifiers may repeat.  `HandleResponse` is the goroutine of one datagram; a
datagram in `net` may be answered never, late or many times.  `Gather` and
`AddName` take one bucket under its lock at a time, with other steps between.

Abstractions: an address is one with a node's identifier; only `get_peers` is
answered with a token, as `handleQuery` does; peers in answers are left out (they
only become the result); what a query answers is `handleQuery`'s and changes
nothing but the table.  The sender of a datagram goes into the table in the step that
hands the datagram over, since the channel keeps what was handed over earlier until
the query takes it; goroutines of datagrams still under way when the node is closed
end there, since nothing they do leaves the node any more.  `Announce` is called by
nothing in the engine yet, only by tests, and is modelled for the package's sake:
`FindPeers` differs from `Announce` in ending where
`Announce` begins to send, so the run has an `Announce`.

### LivePage

What the server would answer is one number, `version`; `shown` is the version each
half of the page came from.  `call[c]` is one `refresh`, two fetches that are
answered on their own and fail together.  `socket[e]`, `timer[e]`, `backoff[e]`
and `unmounted[e]` are the variables of run `e` of the effect, `ready`, `link` and
`wire` a socket's two ends.  `Remount` is the cleanup followed by the effect,
as StrictMode (`main.jsx`) and a reload of the module do it.  `OnOpen`, `OnClose`,
`OnMessage` and `Reconnect` are the handlers with their tests: the first two
ask whether their socket is the live one (`Live`), the third does not.  `Tick` is one
second of `handleWebSocket`; `Break`, `StopServer` and `StartServer` are the
network and the host.

Abstractions: when a browser reports the end of a connection (`CloseDue`) is
external; what a discarded socket had still to deliver is dropped by the browser
once `close` has been called; a socket's number is used again once it is closed
and no run refers to it; waits are counted in units of the shortest; what the
page sends after an action is a `Refresh`.  `Tick` stops with `link`; in the code
the loop goes on writing to a client that has left (section 5), which no page sees.
The banner of a failed refresh is left out: nothing reads it.

### PageControls

`rows[k]` is the state React keeps for the row with key `k` as long as `k` is
listed, `dialog` that of `AddModal`, `call[c]` a request; `mine` says that who sent
it is still mounted.  Each click, key and callback is an action: `ClickPause`,
`ClickResume`, `ClickRemove`, `ConfirmRemove`, `CancelRemove`, `ClickAddTorrent`,
`ClickCancel`, `PressEscape`, `ClickTab`, `ChooseFile`, `TypeMagnet`, `ClickAdd`,
`PressEnter`, then `RowAnswered`, `AddSucceeded`, `AddFailed`.  `Handle...` are the
API's handlers with what they do in the engine.  An Add of a file answers the check
(`HandleAdd`) and inserts later, whatever is in the map by then (`InsertAdded`); a
Remove or Pause of a torrent with peers changes the list and then waits in `Stop`
(`StopReturns`), for ever if the lock of the pool is never released (`StopHangs`,
the finding of `pool_stuck`); `fetch` has no timeout.  `PressEnter` does not look at
`busy` and `AddSucceeded` closes whatever dialog is open, as in the code.
`HandlePause` sets the state of a placeholder and fails: `Pause` panics there and
`middleware.Recoverer` answers 500.

Abstractions: the list is shown at any moment (`Show`), which covers the pushes
and the refresh after each action; a lost request and a lost answer are both a
failure; a session's state is one of the four that the buttons tell apart, and
its going from downloading to seeding is none of their business; `FetchEnds` is
`fetchMetadata` in one step, because `Registry` has its steps.

## 3. The runs

| run | question | instance | result |
|---|---|---|---|
| `session` | are pieces ever duplicated, lost, or claimed before they are on disk, can the pipeline deadlock, and is this `PieceLedger`? | 2 pieces, a seed and a flaky, corrupt partial peer, disk errors, one restart | holds; a piece is lost only by a refused write |
| `session_live` | does a session complete while one peer has everything, whatever the other takes and drops? | 2 pieces, a seed and a flaky partial peer, pauses and stops | holds |
| `session_lost` | is a refused piece put back, as engine.go:659 says? | as `session` | violated |
| `pool` | does the map ever name a connection that is gone? | two overlapping dials of one address, write errors | holds |
| `pool_live` | cap, progress of broadcasts, removals and Stop | one dialled and one accepted connection for one place, no write errors | holds |
| `pool_stuck` | the same with write errors | as `pool_live` | violated: the lock is held for ever |
| `download` | is a piece that is returned whole, and is nothing forgotten? | two pieces of three blocks, depth 2, four choking messages, requests that are not served | holds |
| `registry` | do map, sessions and database agree, and is a session's `quit` closed once? | two torrents, one also as a magnet, two clients at once, failing starts, one restart | holds |
| `tracker` | are announces right on a shared socket, is this `AnnounceRounds`, and does the loop end? | a UDP tracker that may refuse and an HTTP one, two rounds and the stopped one | holds |
| `dht` | do answers, tokens and nodes end where they belong, and does every call return? | a bootstrap and an announce over three nodes for two places, repeated identifiers, `Close` | holds |
| `page` | does the page keep one connection and end up showing the server's state? | the effect run twice, two refreshes, one change, one outage | holds |
| `controls` | whose answer is it, and does anything stay disabled? | a file's and a magnet's torrent, two requests, five gestures, two actions of other clients | holds |

The runs that are violated check what a comment or document of the repository
says; each quotes it in the `findings` of PROJECT.json.

Bounds.  Two pieces and two peers are the least with which a piece can be rejected,
requeued and taken by another while a second is in each later stage; a work queue of
one place and a result queue of one make both fill.  In the pool two connections are
the least that compete for an address or a place, and a channel of one or two messages
fills.  Three blocks with a short last one and a pipeline of two give a partly
answered pipeline at every choke; four choking messages are two complete choke-unchoke
cycles.  One restart suffices for a state that is rebuilt from a record written by the
run before.  Two clients in `registry` are the least whose requests overlap, and nothing
tells them apart, hence the symmetry; two sessions at a time let one be removed and
added again while the first is still being taken down.  `Tracker` needs
three rounds, so that a call of the first can read in the third (the last is kept for
"stopped"), two attempts, so that a request is answered twice, and a backoff that
reaches its maximum; `NetCap` and `SocketCap` of one drop what exceeds them, as a
network and a socket may.  `Dht` needs three nodes for two places in one bucket, so
that nodes push each other out, and three identifiers: with as many queries as
identifiers some behaviours repeat one and some do not.  One node names others and one
sends queries, which already puts every order of additions to one bucket within reach.
In `LivePage` the effect runs twice, the least with which a discarded socket's events
meet a successor's, and one change and one outage tell old answers from new and a
refused connection from a broken one; `MaxDelay` of three is reached by doubling once
and cut once, `WireCap` of two is one tick.  In `PageControls` five gestures let a
dialog be opened, filled, submitted, cancelled and opened again before the first
answer, and a torrent that was added be paused or removed; two requests are the least of which one belongs to something that went away;
two actions of others remove and add a torrent under an open alert.  Deadlock checking
is off in every run but `page` because the other systems end: a finished or stopped
session, a stopped pool, a last piece, a program that is down, an announce loop that
has ended, operations that returned, a user who has gone.  The page never does.

Fairness.  `Session`: each goroutine that can run does (Go's scheduler is fair to
goroutines), and one that receives from `m.work` is served in the end whoever else
receives from it (strong fairness of `Take`: a channel queues its receivers); the
addresses the trackers keep sending are dialled, and one that answers connects; no
stop, restart or fault is promised, and nothing is said of how long a nap lasts.
`EventuallyComplete` therefore asks for one peer that holds everything and does not
fail.  Two peers of which each holds only what the other lacks may reject each
other's pieces in step, nap together and wake together, all naps being the same 500
ms; whether that ends is left to chance by the code, and no property claims it.  `PeerPool`: strong
fairness where a goroutine waits for `m.mu` or for room in a channel, because
`sync.RWMutex` starves nobody and a channel serves its senders in order; the
remote's messages, the tickers, a broadcast's begin and `Stop` are not promised.
`Tracker`: each goroutine that can run does, deadlines pass and an HTTP request
ends (its client has a timeout); nothing is promised of the network, of trackers
or of whoever reads the peer lists.  `Dht`: as long as a goroutine of an operation
can step, one of them does, the timer of five seconds included; nothing is
promised of other nodes.  `LivePage`: the browser delivers events and fires timers,
and the server's handlers and tickers run while it is up; nothing is asked of
the user, of StrictMode or of who starts and stops the server, so `PageCatchesUp`
assumes that it stays up from some time on.  `PageControls`: requests are handled
or fail and their callbacks run, except that a `Stop` may hang, and the page is shown the list again and again,
which is `PageCatchesUp`; nothing is asked of the user.  `BlockDownload` and
`Registry` have safety properties only.

## 4. What is proved

`SessionProofs`, for any number of pieces and peers, any capacities and faults,
any number of restarts:

- `TypeCorrect`;
- `CustodyIsUnique`: a piece is in one stage of the pipeline, once;
- `PipelineNeverStuck`: a peer that puts a piece back finds room, the claim the
  comment of `workQueueCapacity` makes, and while a session that nobody stopped has a
  piece to get, some goroutine gets past the channel it is at.  The room follows
  from custody by counting: the queue holds distinct pieces, none of them the one
  in hand.  The rest adds `CollectorEnds`, that the collector and the writer only end when
  everything is there or the session is stopped;
- `OnlyRejectedAreLost`, `ClaimsAreOnDisk`, `SeedingIsComplete`;
- `SessionImplementsLedger`: every behaviour of the session is one of
  `PieceLedger`, under the mapping above.

The invariant is `IInv`: the type, when a goroutine holds a piece (`HandBusy`)
and the collector a result (`CurBusy`), unique custody, the order in which the
collector moves a piece from disk to scheduler to bitfield (`ClaimOrder`), and
that only the collector's last step sets seeding.  None of the three claims is
inductive alone: that a delivered piece is not also queued needs `HandBusy`, and
that `tbf` is on disk needs to know which step the collector is at.  The
refinement is a step simulation from `IInv` and `OnePieceAtATime`, which says that
the collector is busy with the only piece that is verified and not told: its
steps `WriteOK`, mark, set and announce are `Verify`, `Learn`, `Show` and `Tell`,
everything a queue, a peer or a check of `Resume` does is a stutter.  `PipelineNeverStuck` is what
`EventuallyComplete` needs besides fairness: its premise is that there is a peer,
not that a peer has the piece, so it says that something moves, not that
everything arrives.

`PeerPoolProofs`, for any finite set of connections and addresses:

- `TypeCorrect`, `EntriesAreLive`, `RoundsAreStable`, `CapRespected`;
- `LockHolderIsServed`: while no write fails, whoever sends with the lock held finds
  room, a closed connection or a write loop that makes room.

Its `IInv` adds who holds the lock: while a round is under way no broadcast is
(`LockHeld`), which is what keeps a removal out while either still sends.
`LockHolderIsServed` is `BroadcastReturns` without its fairness.  It needs
`WriterLives`: a connection has a write loop from its creation until its own `Close`,
and the loop ends before only when `Stop` closed the connection.  The premise is the
one `pool_stuck` shows to be necessary.

`BlockDownloadProofs`, for any lengths, depth and number of rounds: `TypeCorrect`,
which says that no request reaches past the piece and no pipeline exceeds its
depth, whatever the remote does and whoever writes the flags; `WholePieces`,
that a returned piece is whole when no answer came late and none failed to be served,
for a remote whose flag agrees with its messages and a side whose rounds do not write
the flag; and `StallsAreDrops`, that a download which waits unchoked with nothing under
way had a request dropped, for every remote and every side.
Their invariant `TileInv` looks at both streams: the blocks under way that were asked
for since the last choke go up in order, first those in the stream to the client,
then those in the stream to the remote, and tile what is missing without a gap,
up to the first `Choke` behind which the remote drops what it is asked.  `Chokes`
is why that is right: a remote that is choking has a `Choke` under way as its last
word, or the client has read it.  `Counted` closes the argument: a download that
is done has counted every byte.  `TileInv` tiles from what was counted less what
answers of an earlier epoch brought in, which is nothing as long as none was late.
`StallsAreDrops` adds `Filled`, that the blocks asked for and not answered are as many
bytes as the requests count, and `Asked`, that a download that reads without having
seen a choke has asked for all there was room for: with both streams empty and nothing
dropped nothing would be unanswered, so everything would have been requested and
counted.  A remote whose flag agrees only drops behind a `Choke` that is still under
way (`Chokes`), or what it cannot read.

`RegistryProofs`, for any number of clients, torrents and sessions: `TypeCorrect`,
`QuitIsClosedOnce`, `OnlyRegisteredRun`, `RegisteredAreRecorded`.  `IInv` needs that
what is free is fresh, that an entry is under its own hash (`Coherence`) and that what a
Remove took is not back (`TakenIsGone`).  `QuitIsClosedOnce` puts three facts together:
a session in the map is open, what a Remove took is in the map no more, and it is open
and no other Remove's (`TakenIsOpen`).  A placeholder is excluded because
`fetchMetadata` may put one back whose `quit` is closed.  `PlainInv` adds that a torrent
no two Adds of which were past the check together has at most one Add between its check
and its insertion, with nothing in the map yet (`PlainSessions`), and that wherever map
and database differ a request is under way that mends it (`Recorded`): an Add that will
put the record, or a Remove that will delete it, of which the second never comes after
the first unless `undone` says so.

`TrackerProofs`, for any trackers, attempts and bounds: `TypeCorrect`,
`AnnounceOnOwnConnection`, `SaysStartedUntilAnswered`, `SilentOnlyWhenHeard`,
`TrackerImplementsAnnounceRounds`, `AnnouncesRunDown`, `RoundsNeverHang`.
`AnnounceOnOwnConnection` needs that a call announces only with its own round's
identifier (`Own`).  `SaysStartedUntilAnswered` rests on `Lasting`: a round that
succeeded or failed never becomes anything else, although its goroutines run on, so
`SaidInv` can tie the variable `event` to what earlier rounds ended with.
`SilentOnlyWhenHeard` is `HeardInv`: as long as nobody has answered a started
announce and no error has passed for an answer, nothing that is an announce's answer is
in any socket and no call has succeeded (`Unheard`), so no exchange of answers between
readers can end the started rounds early.  The refinement is a step simulation from these and `RoundInv`, which says how
each round that is over ended and that stopped is the last thing said: by `Lasting`
the ends that are read off the calls never change, although the calls of a round go on
after it. `AnnouncesRunDown` and `RoundsNeverHang` are `LoopEnds` without its
fairness: a variant of each call goes down with every step (`CallsInv` keeps the
rounds to come untouched), and a round that has not ended has a call that can step
without an answer.

`DhtProofs`, for any length of identifiers, nodes, capacities, operations and
identifiers: `TypeCorrect`, `TableHoldsNodesOnce`, `NoRegistrationOutlives`,
`TokensGoHome`, `RespondersAreTold`, `NodesAreAskedOnce`, `NobodyIsToldTwice`.  That
no registration outlives its query needs that nobody is asked twice by one operation
(`Lists`), which in turn needs that a node is in one bucket only, since a lookup
gathers bucket by bucket while the table changes.  `NodesAreAskedOnce` is the same
fact as an action property: the code's map `queried` never finds a node twice.  It
makes a result the last word of its query, so that an operation has one of a node
(`NobodyIsToldTwice`).  That tokens go home needs `PendingInv`: the datagram of
whatever is registered under an identifier has been sent under it, so if no identifier
was repeated it is the one that is answered.

`LivePageProofs`, for any number of runs of the effect, refreshes, changes and
outages: `TypeCorrect`, `ConnectionIsOne`, `OnlineIsOfTheLive`, `PushesKeepOrder`,
`PushesGoForward`, `NeverLeftStranded`. `Ownership` says that a run owns the events of
its own socket only, which is what the test at the head of `onopen` and `onclose`
relies on.  `PushesKeepOrder` holds although `onmessage` has no such test: a browser
delivers to an open socket only, there is one (`OneConnection`), and each starts with
nothing on the wire (`WireOrder`).  `PushesGoForward` says the same of steps.
`NeverLeftStranded` is `PageCatchesUp` without its fairness: the mounted run has a
connection or a timer (`OneConnection`), never closes its own socket (`NotClosing`),
and finds a socket that is free when the timer fires, by the pigeonhole principle,
since every other run holds at most one.

`PageControlsProofs`, for any torrents, requests, gestures and clients:
`TypeCorrect`, `AlertsNameTheirTorrent`, `BusyControlsWait`, from `Belongs`: a
request is a row's or a dialog's and never both, and an alert was opened in the
row of its torrent.  They hold whether or not a Stop returns.

The constants' assumptions are the `ASSUME`s of the modules: positive sizes, finite
sets, bootstrap nodes that differ.  Only model-checked are the temporal properties
(`EventuallyComplete`, those of `pool_live`, `LoopEnds`, `OperationsReturn`,
`PageCatchesUp`, `PageSettles`), which need fairness.  What they rest on besides
fairness is proved where it could fail: `PipelineNeverStuck`, `LockHolderIsServed`,
`RoundsNeverHang` with `AnnouncesRunDown`, `NeverLeftStranded`, and for `PageSettles`
that whatever is disabled waits for a request (`BusyControlsWait`).  Every invariant a
passing run checks is the subject of a theorem, and so are both refinements.

## 5. Where the code does not do what is said

The two runs that are violated are findings: a refused piece is not put back
(`session_lost`), nor does the torrent go to `StateError` when the disk was the reason
(ARCHITECTURE.md:217), and a write error leaves the lock of the pool held
(`pool_stuck`).  The modules have the following as well, as the code does it;
properties are stated so that they do not rest on it.

- A peer that rejects a whole cycle of pieces naps for 500 ms, the same for all
  (manager.go:328), so two partial peers may go on rejecting in step.
- A torrent that is restored and then finishes records only the pieces of this
  run, because the bitfield that is saved belongs to the new storage
  (persistence.go:82); docs/engine.md:185, persistence.go:77 and
  ARCHITECTURE.md:244-256 have it record all.
  A torrent that was complete when restored never becomes seeding (engine.go:671).
- `serveUpload` sends `Unchoke` and leaves its own `Choked` set (manager.go:427), so
  the requests it invites are ignored until the next round.  A choking round sends
  before it sets the flag, so answers can follow a `Choke` and are counted twice;
  and the rounds write the flag `Download` reads for the other direction.  A request
  that cannot be read from disk is passed over in silence (manager.go:442-449): the
  download waits for its deadline, and if a later block was answered and a `Choke`
  follows, the count restarts behind the hole.  In all these cases the piece fails its
  SHA-1 check.
- Two concurrent `Add`s of one torrent both pass the check (engine.go:114); the
  session that is overwritten is never stopped.  A `Remove` whose `dbDeleteTorrent`
  (engine.go:408) comes after a new `Add` of the torrent has put its record deletes that
  record: the torrent runs and is gone after a restart.  `Remove` ignores `deleteFiles`
  (engine.go:391), against docs/api.md:147.  `fetchMetadata` starts a torrent
  that is removed between its check and its delete (engine.go:257-281), and puts a
  placeholder back whose `quit` may be closed.
- Two concurrent `Stop`s may both close `quit` (manager.go:179).  `Pause` and
  `Shutdown` panic on a magnet's placeholder, which has no peers and no storage.
  `Resume` only changes the state: the stopped manager downloads no more
  (engine.go:436).  It writes that state long after its check and without a lock, as
  `Pause` does, so either may overwrite the seeding of the collector, and the collector
  a pause (engine.go:674).
- After a write error of a peer `Stop` waits for the lock of the pool, so the Pause or
  Remove that called it never answers (engine.go:402, 421) and, `fetch` having no
  timeout, its row stays disabled.
- The announce loop sends no `stopped` when its context ends in a backoff
  (client.go:127-129), against client.go:119-120 and docs/tracker.md:30.  Nothing ever
  says `completed` (docs/tracker.md:31).  An error
  reply of the right length passes for an announce's answer (docs/tracker.md:135), also
  a late one to a connect, after which nothing says started any more although no
  tracker accepted it.  `closestN` ignores its target (docs/dht.md:77), and a full
  bucket drops its oldest node without a ping (docs/dht.md:56).
- The loop of `handleWebSocket` ignores write errors and waits for a context that
  does not end when a client leaves (server.go:287).
- The success of a cancelled dialog's request closes the dialog opened after it
  (App.jsx:118), Enter submits while a request is under way, the error of a row's
  action is never shown (TorrentRow.jsx:24), and neither a reconnect nor
  a push clears the error of the refresh before it (App.jsx:22, 34-37).

## 6. Not modelled

- Storage layout (`PieceRegions`, `ReadBlock`, `Verify`, the bitfield's bit order):
  functions over file lengths, without interleaving or failure.  A block that
  spans files gets a negative offset (storage.go:171).
- Scheduler picking, modes, priorities and frequencies: only tests call them.
- Peer exchange and the metadata exchange: the first only feeds addresses to the
  dials of `PeerPool`, the second is an event of `Registry`.  Two goroutines of an
  accepted connection read one stream there, so who gets a message is chance.
- The rate limiter: constructed and handed to the peer manager, never called.
- Parsing and wire formats, `getTorrent`, the settings endpoints (stubs), static
  files: pure input and output.
- Display in the web client (`StatsBar`, `SummaryCard`, `lib/format.js`) and its
  build files; the script under `api/ui/assets` is generated from `web/src`.
- Configuration: defaults, which the modules have as CONSTANTS.

# BrowserTorrent: TLA+ models, checks and proofs

TLA+ modules for the concurrent core of BrowserTorrent (a BitTorrent client for
browsers over WebRTC, with its own tracker server), TLC configurations that check
them on small instances, and TLAPS proofs about them. Source paths are relative to
`src/packages/` of the repository; `core/` stands for `core/src/`.

| to do this                      | run this in the directory of this file     |
|---------------------------------|--------------------------------------------|
| check a model                   | `tlc -workers 2 -config MCWire.cfg MCWire` |
| check the proofs of a module    | `tlapm ClientProofs.tla`                   |

`PROJECT.json` lists the components, the runs with their properties, for each
property a mutant of the code that breaks it, the source lines each definition
translates, the findings, the hazards and the theorems.


## 1. Inventory

JavaScript runs each callback to completion and interleaves only at `await` and
between events. A *step* of every module is therefore the code between two awaits of
one activity, or one whole event handler with the synchronous events it emits.

| component | state | operations | talks to | what is hard |
|---|---|---|---|---|
| **Torrent piece accounting** `core/core/torrent.ts`, `core/storage/opfs-chunk-store.ts` | `bitfield`, `_downloaded`, `_ready`, `_destroyed`, chunk files | `_init`, `setMetadata`, `rescanFiles` (all run `_verifyExistingPieces`), `receivePiece`, `destroy` | every wire, the store | scans and receives overlap at each await; writes fail; the store is wiped under them |
| **Download loop** `Torrent._registerWire` | per wire: `remotePieces`, `activePiece`, pending blocks | handlers of `bitfield/have/unchoke/piece/close`, `requestBlocks`, `updateInterest` | Wire, accounting, `Swarm.broadcastHave` | the one await inside the piece handler; progress depends on which handler asks again |
| **Wire protocol** `core/core/wire.ts` (with `message.ts`, `handshake.ts`) | handshake state, choke/interest flags, availability order, pending and peer requests | the `send*` methods, `_processBuffer`, timeout, `destroy` | the other end's Wire over a data channel | crossing messages, order rules of two ends, limits, loss of the channel |
| **Swarm and peer** `core/network/swarm.ts`, `peer.ts` | `peers` by address, `queue`, `pendingOffers`, `paused`, `destroyed`; peer state and timers | `start`, `addPeer`, `removePeer`, `pause`, `resume`, `destroy`, tracker events, peer events | trackers, Peer, Torrent | synchronous `error` then `close` of one peer, late answers, loops that outlive `destroy` |
| **ut_metadata** `core/extensions/ut-metadata.ts` | `_fetching`, `_metadataComplete`, buffer, bitfield, requests with timers, budget of rejects | `onExtendedHandshake`, request / data / reject, timeout | extension host, Swarm | late and repeated answers, mutual refusal, restarts of a complete end |
| **Tracker server** `websocket-tracker/src/server.ts`, `lru.ts` | `peers`, `peersByInfoHash` (LRU), `torrents`, `infoHashes` of each peer | connect, announce (WS, HTTP), scrape, disconnect, `close`, relaying offers and answers | tracker clients | two directions of one relation kept by hand, evictions on two levels, pointers of the list |
| **Tracker clients** `core/network/tracker.ts` | socket, `pendingAnnounces`, reconnect timer, abort controller | `announce`, `_connect`, `_flushAnnounces`, `destroy` | Swarm, tracker server | an announce and a timer that both connect, the close event of a socket already replaced, every flush sending all that is pending, answers addressed by peer id |
| **Client** `core/mod.ts` | `torrents`, `swarms`, `torrentList`, `destroyed`, the registry of streamed files, the directory `browsertorrent-seed` | `add`, `seed`, `remove`, `createServer`, `destroy` | Torrent, Swarm, store, generator | calls overlapping at their awaits for one info hash, seeds that share a directory, a `destroy` whose loop others delete from |
| **Torrent generator** `core/torrent-generator/` | none between calls | walking a directory, `calcPieceSize`, padding, cutting into pieces | `Client.seed`, which cuts the same files again to populate the store | two cuts that must agree |
| **Extension host, ut_pex** `core/core/extension-host.ts`, `core/extensions/ut-pex.ts` | ids both ways, waiters | `register`, `waitForHandshake`, `close` | Wire | waiters when the connection ends |
| **Streaming bridge** `core/service-worker/`, `core/core/file.ts` | in the worker: page port, queue of fetches, per request a body, pending pull, timer; in the page: offset, open reader | `handleFetch`, `setPagePort`, headers, pull, chunk, end, cancel, timeout | media elements, the file's read stream | pull timeout against a slow read, cancel during a read, pages that come and go, a queue that awaits each answer |
| **Stream server** `core/server/` | registry of files | `handleRequest`, `get` | Torrent | an older in-process path, sequential |
| **Encodings, bit fields, hashing, CLI, UI** | none between calls | pure functions, file readers | - | nothing concurrent |

What makes each modelled component correct:

- *accounting*: a marked piece is on disk and sound; a sound piece is found again; what
  `receivePiece` accepted stays accepted; completion is neither missed nor announced early;
- *loop*: blocks asked for are the blocks collected, no wire rests while it could ask,
  and the session finishes;
- *wire*: two ends of the same code never kill each other, see each other alike once
  everything has arrived, and settle every request;
- *swarm*: slots are used, no live peer is lost, `pause` and `destroy` mean what they say;
- *ut_metadata*: complete means one whole dictionary, every missing piece stays asked for,
  who can get the metadata gets it, and the frames end;
- *tracker*: the LRU list is a list, swarms keep to their limits, members leave for a reason;
- *signalling*: announces settle and sockets do not multiply however the sockets of a
  tracker replace each other, an answer finds the swarm that made the offer, two clients do
  not connect twice;
- *client*: between calls the maps, the list and the registry speak of the same live
  sessions, `destroy` leaves nothing alive, a seed is of its input and has every piece;
- *stream*: the reader gets consecutive bytes of its range, one pull at a time; fetches are
  answered, bodies end, a cancelled one is let go.

The hazards behind these, each with its line, are under `hazards` in `PROJECT.json`.


## 2. Modules

| module | models | variables and actions against the code |
|---|---|---|
| `Torrent` | piece accounting over the chunk store | `bitfield` is the bit field as a set; `credited` is `_downloaded` as the multiset of additions made to it; `scan[s]` a run of `_verifyExistingPieces` with its loop index; `call[r]` a `receivePiece` of caller `r`, at its hash, put or commit; `chunk`, `storeState`, `wipeLeft` the OPFS directory. `ScanRead`/`ScanMark` are the code before and after the hash is awaited, `PutLands`/`PutFails` the outcomes of the write, `WipeEntry` one round of the loop in `store.destroy`, `WipeEnds` its end, be it at an entry that cannot be removed |
| `Download` | `_registerWire` on every wire, over an `INSTANCE` of `Torrent` | `active[w]` is `activePiece` with its missing blocks, `asked[w]` the requests not yet answered; one action per handler; `RequestBlocks` is what each handler ends with |
| `Wire` | both ends of a connection | `ep[e]` the Wire object, `inbox[e]` the ordered channel, `link`; `SendMessage` the gates, order check, write and local state of `_sendMessage`, `Deliver` those of `_processBuffer`; `Serve` is the `request` handler of Torrent, answering later |
| `Swarm` | swarm and peers | `swarm` the Swarm object with the peers' states, `start` what `start()` awaits, `destroyedAt` (history) the tracker it was at when the swarm was destroyed; methods are functions on the object because events nest: `FailPeer` runs the error handler, the close handler and the draining they do |
| `Lru` | `LRUCache` | operators on a record of nodes with `prev`/`next`, one per method, pointers included |
| `TrackerServer` | tracker server, over an `INSTANCE` of `Lru` | `peers` the Map in insertion order, `hashes` each peer's `infoHashes`, `swarms` the cache with its sets, `sock` the web sockets; one action per handler |
| `UtMetadata` | both ends of the metadata exchange | `ut[e]` the UtMetadata object, `chan[e]` the frames on their way to it; a handler is an operator from an object to the next one and the frames it sends; a running request timer is a member of `requestedPieces` |
| `Signalling` | the `WsTracker`s of several clients, what their swarms do with offers and answers, the server's relay, over an `INSTANCE` of `TrackerServer` | `client[t]` is a WsTracker (`ws`, `pendingAnnounces`, `destroyed`, timers running), `session[t]` the offers its swarm waits for or answers, `cs`, `toServer`, `toClient` the two directions of each socket. `Start`, `SendAnswer`, `Receive`, `Reconnect`, `Destroy` are the client's entry points, `Open`, `Refused`, `Lose`, `Closed` the events of a socket, `Serve` is `handleAnnounce` with the offers and the answer embedded in it |
| `Generator` | the torrent generator | pure operators: `WalkDir`, `CalcPieceSize`, `Chunks`, `BuildPieceFiles`, `Metainfo` |
| `Client` | `add`, `seed`, `remove`, `createServer`, `destroy`, over `Generator` | a session is a torrent with its swarm and store, named by the call that makes it; `call[c].at` is the await a call is at, `temp` the directory `browsertorrent-seed`, `chunks` the chunk directory of each hash, `listens` the listener of `createServer`, which outlives `destroy`; one action per part between two awaits: `Populate` is one `put` of the loop over the files, `RescanFiles` empties the bit field, `ScanRead` and `ScanMark` are each piece of the scan before and after its digest is awaited |
| `Stream` | service worker, page and consumer of streamed files | `sw[r]` and `page[r]` are what the two `onmessage` closures of request `r` share, `toPage`/`toSw` its chunk channel; `queue`, `pagePort` and `loop` (what each run of `processQueue` awaits) belong to the fetch handler. `PageLeaves` closes a page, which the worker is not told: `pagePort` stays, and what is posted there is lost. One action per message handler, pull, timer and outcome of a read |
| `DownloadProofs`, `WireProofs`, `SwarmProofs`, `ClientProofs`, `TrackerServerProofs` | proofs about the module they are named after | section 5 |
| `TorrentProofs` | proofs about `Torrent` and, in the second half, about `Stream`, which serves its files | section 5 |
| `ExchangeProofs` | proofs about what peers exchange before pieces: `UtMetadata` and, in the second half, `Signalling` | section 5 |
| `RecursionLemmas` | induction over numbers and the folds of the community modules | lemmas the other proofs cite |
| `MC*` | TLC instances | constants and symmetry sets |

`Download` is a refinement: `T!Spec`, the whole specification of `Torrent`, is a checked
property of it (`AccountingRefined`) and a theorem, so the theorems about `Torrent` speak
about the loop too. `Signalling` refines `TrackerServer` (`ServerRefined`, a theorem). Each
module states the shape of its variables as `TypeOK` (in
`Stream` and `Signalling`, which the proofs extend beside another module, `Init`, `Next`,
`Spec` and `TypeOK` bear the module's name); in `Torrent` it is a checked and proved invariant, elsewhere it documents the state for the
reader, and the runs spend their time on what could be wrong.

Abstractions common to all: block contents are *sound or not*, names are model values,
logging and event payloads are left out. A browser's data channel keeps order and loses
messages only by closing. Definitions whose comment begins with `mutant` are deliberate
errors; `PROJECT.json` pairs each with the definition it stands in for and the property
that then fails.


## 3. Runs

| run | instance | what it shows |
|---|---|---|
| `torrent` | 2 pieces (the last one shorter), 2 callers, a rescan besides the initial and the metadata scan; any chunk missing, damaged or sound at the start; destroy at any moment | marked pieces are stored and counted, scans settle, accepted pieces are kept |
| `torrent_done` *(violated)* | same | `DoneMeansComplete`: a piece counted twice makes `done` true early |
| `download_loop` | 1 wire, 2 pieces of 2 blocks, every fault, a rescan | the loop collects what it asks, is never idle without one of the two excuses named in `WireIsBusy`, and refines `Torrent` |
| `download_done` | 2 wires, no faults, fair peers | requests outstanding are exactly the blocks missing; the session reaches `done` although `broadcastHave` throws while a peer shakes hands |
| `wire` | leecher and seeder, with and without Fast, one block, cut off at any moment | no protocol error, views converge, requests are accounted for and settled |
| `swarm` | two trackers, of which the second takes offers, an offer of ours, a remote offer, three `addPeer` calls (two for one address), one slot, every failure, pause, resume, destroy | slots used, live peers tracked, a destroyed swarm keeps only the offers made since, queue moves |
| `tracker` | 2 sockets, 1 HTTP peer, 3 torrents, cache of 2, swarms of 2 | list and sets agree, limits hold, members leave for a cause, closed sockets leave |
| `signalling` | two clients in one torrent, one offer each, two connections refused or lost, either client destroyed | announces settle, an answer arrives unless the server takes another connection for the maker's, offers cross only after a reconnect, sockets do not multiply |
| `client` | a hidden file, an array and a directory with a hidden file to seed; two seeds, two adds, two removes, of which three are made, or four with at most one seed, and two overlap; a server; destroy at any moment | the maps, the list and the registry agree, destroy leaves nothing but what is late, seeds are of their input and complete |
| `ut_metadata` | 2 pieces, the other end may refuse and may hold another dictionary, 2 timer firings | complete is one whole dictionary, missing pieces are requested, metadata arrives, the wire falls silent |
| `stream` | a whole file of 6 bytes in blocks of 2, an empty file, two pages that come and leave, of which one lacks the empty file; reads fail, pulls time out, consumers cancel at any moment | bodies are prefixes of their ranges, one pull outstanding, fetches answered, bodies end, cancels reach the page |
| `stream_range` *(violated)* | same | `BodyIsWholeRange`: the last byte of every range is missing |

**Bounds and why they are enough.** `Torrent`: the hazards need two activities on one
piece and one on another, which two pieces, two callers and three scans give; the proofs
lift the bound altogether. `Download`: `Slots` bounds the `receivePiece` calls one wire
has in flight at a time; a wire whose loop waits for its call has one. `Wire`:
`QueueBound` = 1 message in flight per direction, answers apart: enough for every pair of messages to cross; longer
queues were not explored, their state space takes TLC well over five minutes. `Deliver` takes one message, though
`_processBuffer` loops over its buffer and does not stop when a handler destroys the wire: `_sendMessage` and
`sendHandshake` call `transport.send` for each frame, and `network/peer.ts` makes one message of the data
channel of it, so between two ends of this program the buffer never holds a second frame, and `_onData`
returns at once on a closed wire. `Swarm`:
each offer, remote offer and `addPeer` call happens once, so addresses and peers are used
up; one slot and two waiting addresses suffice for every order of closing and draining.
The tracker that takes offers is the second one, so `destroy` comes before or after its offer;
two such trackers, with two offers, take TLC more than five minutes, and there the theorem speaks.
`TrackerServer`: `MaxListed` bounds the torrents a peer may list at once; a connection
opens once, so reuse of a connection id (random in the code) is not considered.
`Signalling`: with one offer
from each of two clients every crossing of announce, offer and answer occurs; `MaxLosses` = 2
lets a client lose its connection twice or each once, and `MaxSockets` is above what those
losses can open, so it never binds. `Client`: `Mixes` says which
calls may be made together. Three calls of which two overlap give every pair of calls for
one hash, followed by one that sees what they left; a fourth lets two removes of one
session run while another is listed. Two seeds suffice for one to fill and scan the store under
the other; that a third changes nothing is left to the theorem. The calls of one kind are
interchangeable, hence the symmetry. A put cuts the files as they are at that moment; files that
change while a pass reads them are told apart only in so far as the seed counts as disturbed (`mixed`). The piece size is always
chosen by the generator. `UtMetadata`: `Versions` tells the info dictionary from one other;
`MaxTimeouts` bounds how often timers fire, because the code would let them
fire for ever (`#handleTimeout` never reaches its limit of attempts); two pieces tell
first from last. `Stream`: each request is made once and each page connects once, so a page that leaves and
returns is two pages; three blocks, the last one cut short by the end, tell a body
that buffers a second chunk (which the run reaches) from one that holds a third, which
`Backpressure` forbids; an empty file has the range 0 to -1, which the page ends at once.

**Deadlock checking** is off where the system may rest or end: a closed connection, a
destroyed swarm, a tracker that is down, an exchange that is over, a finished download,
streams that have ended.

**Fairness.** Only the event loop and a live peer are trusted, always by weak fairness.
`Download`: promises resolve and queued handlers run; a peer behind an open connection
finishes its handshake, announces what it has, unchokes and answers. Nothing is assumed of
chokes, closes, corrupt pieces or rescans. `Wire`: the channel delivers or its close
event arrives, and the promise of a `request` handler resolves; nothing is assumed of
what applications send. `Swarm`: the connect and handshake timers of peers fire.
`QueueMoves` holds because remote offers are finitely many in the model: an endless
stream of them could occupy every slot that comes free. `UtMetadata`: frames are
delivered; timers need no fairness, since every request is answered or refused.
`Signalling`: sockets
connect or fail, messages and close events arrive, timers fire; nothing of when a client
starts, answers, is destroyed or loses its connection. `Stream`: messages arrive, timers fire, a body with an empty queue is pulled, a read resolves
or rejects, and the consumer goes on reading; nobody need fetch, connect a page or cancel.
`Torrent`, `TrackerServer` and `Client` have safety properties only.


## 4. Findings

Each is a violation run that checks one sentence of the repository.

1. `torrent_done` - `receivePiece` tests the bit field before two awaits and adds the
   length after them without testing again, and each scan adds every sound piece. A piece
   finished twice makes `done` true with pieces missing, and `requestBlocks` stops asking.
   `core/mod.ts:210` promises that all pieces "have been fully downloaded and verified".
2. `stream_range` - `core/service-worker/bridge.ts:45` makes both ends of a range inclusive
   and the response announces a length that counts both; line 241 hands the inclusive end to
   `File.createReadStream`, whose end is exclusive. Every body ends a byte early.

Other behaviours the models contain. Where a property would fail because of one, the
property names it as the exception, so that everything else stays checked.

- *Accounting and loop.* A choke makes the download loop wait for blocks nobody will send
  (excused in `WireIsBusy`); a rescan that finds damage asks for nothing; a chunk written
  behind the loop of a wipe survives it.
- *Wire.* `core/core/wire.ts:163` documents `maxPendingRequests` as the maximum "in either
  direction"; only arriving requests are limited. Without Fast a choke clears the
  requester's side only, and what stays with the other end fills its limit (excused in
  `NoProtocolError`). A local cancel forgets the request of the *peer* for that block.
- *Swarm.* Remote offers and answers take a swarm past `maxConns`, which only `addPeer` and
  the queue look at; a late answer puts a dead peer into the map and keeps its slot. After
  `destroy`, the loop of `start()` goes on over the trackers and makes offers for each websocket
  one; nobody destroys those peers, whose connect timers fire after 25 s. `DestroyIsFinal` says
  that this is all that goes on: at most `OffersPerAnnounce` for each tracker come to since.
- *Signalling.* An answer goes to the first connection that announced the peer id, and
  entries outlive their sockets: a second torrent of a client, or a client that connected
  again, loses answers (excused in `AnswersArrive`; `websocket-tracker/README.md:143` says
  the answer "is forwarded" to it). A client whose announce was settled before the loss
  connects again and announces nothing. The server reports errors as `failure_reason`, the
  client reads `failure reason`. A socket replaced while it was connecting survives
  `destroy`.
- *Tracker.* A member of a full swarm that announces again evicts itself from its own list
  and stays a member after its socket closes (excused in `ClosedLeaves`); an HTTP peer makes
  the server's `close` throw.
- *ut_metadata.* The dictionary is not hashed, although
  `docs/browsertorrent/05-fase-5-swarm-e-ut-metadata.md:90` compares its SHA-1 with the info
  hash (in the code that is the owner's task, who does not do it): `CompleteIsGenuine`
  asks for one dictionary, not for the right one. A size in the extended handshake makes a
  complete end download what it has again.
- *Client.* Two overlapping adds of one hash make two sessions, of which the maps keep the
  later; the second of two overlapping removes takes away a session inserted after the first
  (both excused as `Undisputed`). An add in flight survives `destroy`, with a live swarm even
  when `destroy` is called again, and registers its files, since the listener of `createServer`
  survives too; a wipe of it deletes the chunks of whoever came later. The info hash of an array contains the files that earlier seeds left in
  `browsertorrent-seed`, and byte buffers are all named `file`. `align` and
  `ignoreHiddenFile` are honoured by the generator and not by what populates the store, so
  such a seed lacks pieces; a seed of what was added by magnet link before its metadata
  came fails to populate (both excused in `SeedsAreComplete`, also when the seed that was
  disturbed, padded or left files out is a later one of the same hash, which fills the
  store of the first again). A second seed of the same input rescans the session of the first:
  from then until the scan has passed, that one is a seeder whose bit field is empty or partial,
  which `SeedsAreComplete` states as pieces that lie ahead of a scan. The files of a torrent added
  by magnet link are never registered for streaming, and `destroy` does not clear the
  registry. `calcPieceSize` stops at 512 KB where its comment says 512 MB.
- *Stream.* A request for a file its page does not know is answered on the port where only
  chunks count, so its fetch never settles and, if it was queued, neither do those behind it
  (excused in `FetchIsAnswered`). `pagePort` keeps the port of a page that has been closed or
  reloaded until another one connects, and what is posted there is never answered (excused there
  too, and in `CancelReleasesPage`). A pull that times out ends the body as if it were complete
  and leaves the page waiting.


## 5. Proofs

`TorrentProofs` proves first, for every number and length of pieces, every set of callers and
every set of rescans, from `TorrentAssumption` alone (there is a piece, lengths are
positive and the last one not longer than the others, the names of the first two scanners are not names of
rescans):

| theorem | states |
|---|---|
| `TorrentInvariant` | `Spec => []IInv` |
| `TorrentTypeCorrect` | `Spec => []TypeOK` |
| `VerifiedPiecesAreStored` | `Spec => []VerifiedIsStored` |
| `VerifiedPiecesAreCounted` | `Spec => []EveryVerifiedPieceCounted` |
| `ScansSettle` | `Spec => []ScanSettles` |
| `AcceptedPiecesAreKept` | `Spec => []AcceptedIsKept` |

`VerifiedIsStored`, `ScanSettles` and `AcceptedIsKept` are not inductive: they speak of
the bit field at rest and say nothing about what activities in flight owe to it. `IInv`
adds that, as named conjuncts: a running scan stands at a piece (`ScanInRange`); the
store is open while the session lives, and nothing awaits removal outside a wipe
(`StoreLife`); before the metadata nothing is marked and no call is past its first checks
(`Unknown`); a scan at its hash, a call at its commit and an accepted call each have a
sound chunk (`Sound`); after the first scan began, a sound chunk is marked, or lies ahead
of a running scan, or is about to be committed by a call (`Covered`); and an accepted piece is
marked or lies ahead of a running scan (`Kept`). The proof has one lemma per action, on top of
lemmas about starting a scan (`BeginScanLemma`), moving one (`ScanAtLemma`,
`ScanStepIInv`) and moving a call (`CallMoveIInv`); `NextIInv` puts them together and the
theorems follow by propositional temporal logic.

The second half of `TorrentProofs` is about `Stream`, from `StreamAssumption` (a range may be
empty, the block size is positive), for every set of requests and pages:

| theorem | states |
|---|---|
| `StreamInvariant` | `StreamSpec => []StreamInv` |
| `StreamTypeCorrect` | `StreamSpec => []StreamTypeOK` |
| `BackpressureHolds` | `StreamSpec => []Backpressure` |
| `BodyIsPrefixHolds` | `StreamSpec => []BodyIsPrefix` |

Neither property is inductive. A late read, a pull and a chunk could each be harmless alone and too
many together, so `Flow` says of one request that there is one pull, and that it is in one of three
places: on its way to the page, a read of the page's, or a chunk on its way back; while it is in
any, the worker waits (`pending`), and only an unbuffered body has a pull behind it (`pulling`).
A cancel is the exception, since it does not wait for its turn. `Stage` says what may be where
before the body begins and after it has ended. `Holds` says where the bytes are: those read, those buffered
and those in flight, joined, are `Bytes(First, k)` for some `k` in the range, and while the body
is open `k` is the page's offset, so the block read next follows on it. A body that was closed loses
what was in flight, so `k` may then be less. `Fine` joins the three for one request, with a lemma for
what each message does to it; the steps only add which request they change (`OneRequest`) and what
becomes of the queue.

`DownloadProofs` proves, for every number of wires, blocks, faults and stores:

| theorem | states |
|---|---|
| `AccountingRefinedHolds` | `Spec => T!Spec`: each step of the loop is a step of `Torrent` or leaves it alone |
| `LoopInvariant` | `Spec => []LoopInv` |
| `AnswersAreCollectedHolds` | `Spec => []AnswersAreCollected` |
| `WaitsForWhatItMissesHolds` | `Spec => []WaitsForWhatItMisses` |
| `WireIsBusyHolds` | `Spec => []WireIsBusy` |

`LoopInv` says for each wire at once what the two properties say in part: the requests on
their way are among the blocks the active piece misses, are exactly those on a connected wire
when no peer chokes, and before the handshake there is neither a request nor an active piece. `RequestBlocks`
runs on several wires in one step, so its lemma (`AskIInv`) speaks of a set of wires; the
handlers that end with it first get a lemma for what they do before.

`WireIsBusy` is its own strengthening but for two facts (`BusyInv`): the store is open and
the scans, calls and counts are of their types (`Books`), and there is no wire before the session has
started (`Begins`). A step that runs `RequestBlocks` on a wire leaves it at work
(`AskedWorks`). A step that does not leaves the wire the piece, the call or the scan it had, as
long as it could have been asked before the step too (`KeepsWorking`): its peer, its choking and
the metadata are as they were, no bit was cleared, and the session was not done. The
last is the hard half, for `done` compares `_downloaded`, a sum over the pieces, with the
length: `DoneLemma` says that a sum of more additions is no smaller, so what
was done stays so until the metadata or a rescan resets the count. There is one
lemma per action. The assumption on the constants has what `Torrent` assumes of its own, since
`Download` takes them over.

`WireProofs` proves, for every finite set of blocks, limit, and use of the messages by the
two ends:

| theorem | states |
|---|---|
| `WireInvariant` | `Spec => []IInv` |
| `NoProtocolErrorHolds` | `Spec => []NoProtocolError` |
| `AgreeInvariant` | `Spec => []VInv` |
| `WireTypeCorrect` | `Spec => []TypeOK` |
| `ViewsConvergeHolds` | `Spec => []ViewsConverge` |
| `RequestsAccountedHolds` | `Spec => []RequestsAccounted` |

Neither half of `NoProtocolError` is inductive. That an arriving message passes the gates
depends on everything before it in the queue, so `Replays` says that there is a sequence
of availability orders, from the receiver's to the sender's, each message of the queue
taking one to the next: sending extends it, delivering drops its first element, and
a lost connection only forgets its end. That a request finds room depends on where the other
requests are: `Accounts` says, with Fast, that a pending block is on its way at most once,
not also with the other end, and not also answered; so an arriving request is for a block not yet
among `peerRequests`, and those are then fewer than the blocks. Every step of one end
that sends is an instance of `SendStep`, every one that receives of `ArriveStep`, every end of a
connection of `TerminateStep`.

The second pair needs `AgreeInv`, which `VInv` joins to `IInv` and the types. `ViewsConverge`
compares what an end believes with what the other is once the messages on their way have
arrived, a fold over the queue; folds do not combine with steps that work at both ends of
the queue, so `Sees` says it as `Replays` does: some trace of the flag leads from what the
receiver believes, by the messages of the queue, to what the sender is. `ArrivedLemma` then shows,
by induction over the queue, that the fold ends where such a trace ends. `Somewhere` is
`RequestsAccounted` for one end while the link is up, with the messages that ask or settle
named; it also holds without Fast of the requests that a choke has not cleared.

`ExchangeProofs` proves, for every number of pieces, every set of dictionaries and
whichever ends are other programs, from `UtMetadataAssumption`:

| theorem | states |
|---|---|
| `ExchangeInvariant` | `Spec => []IInv` |
| `CompleteIsGenuineHolds` | `Spec => []CompleteIsGenuine` |
| `MissingIsRequestedHolds` | `Spec => []MissingIsRequested` |

`#checkDone` only tests that the buffer decodes, so that a buffer is one dictionary follows from
where its pieces came from, not from the test. `Learns` says it of an end that is not
complete, its opposite and the frames between them: nothing on its way from it can make the
opposite end fetch again, and if that one is complete, every piece that has arrived or is on
its way is the one it serves; if not, no piece is on its way at all. `Asks`, in `Alone`, is
`MissingIsRequested` of one end. A handler acts on one object and the two queues, so
`Kept` states what it preserves of them, with one lemma per handler; `Deliver` and
`Timeout` only choose the handler.

The second half of `ExchangeProofs` is about `Signalling`, from `SignallingAssumption` (finitely
many trackers and at least one, each may open a socket, none of the names is `None`), for every
number of clients, offers, sockets and losses:

| theorem | states |
|---|---|
| `SocketInvariant` | `SignallingSpec => []SocketInv` |
| `SocketsBoundedHolds` | `SignallingSpec => []SocketsBounded` |
| `ServerRefined` | `SignallingSpec => T!Spec`, the whole specification of `TrackerServer` |
| `OfferInvariant` | `SignallingSpec => []OfferInv` |
| `OffersCrossNotHolds` | `SignallingSpec => []OffersCrossNot` |

How many sockets live says nothing of how many will: an `onclose` sets a timer and leaves room
for an announce to connect at once, and each of the two opens one. `SocketInv` therefore counts
what the sockets of a tracker may still cost: one each for those connecting or open, one more
if the server's end is gone already, two for one that is closing. With the timers that run, and
one where the object has no socket or a dead one (`Idle`), that is at most one and two for each
loss so far. A loss pays for what its two ends cost, `destroy` clears the timers and opens
nothing after, and every other step moves the cost from one place to another (`FitsMoved`, `FitsOpened`).

`ServerRefined` says that the clients of `Signalling` ask nothing of the server that `TrackerServer`
does not allow, with the sockets for connections and no HTTP peers. What `TrackerServerProofs`
proves therefore holds here too; its invariant `P!IInv` is used below (`MembersConnect`,
`AnnounceJoins`, `DisconnectJoins`: who is in a swarm has connected, and only who announces joins).

That offers do not cross holds because the server passes on offers to those in the swarm already:
of two clients only the later one's offers reach the other. The client spoils this when it
announces twice, and `_flushAnnounces` does send what is pending again with every answer. `OfferInv`
says why that needs a second socket. A client's first socket is `Early` until the server has
read its offers, and is in no swarm then; afterwards it is `Late`: as long as the announce is pending,
the response, which settles it, is ahead of every offer in the queue (`Led`), so nothing
is being answered and no answer can send the announce again. `Queues` says what travels on a
socket, `FreshEnds` that a connecting one has no end at the server, `Crossing` is the claim
itself with the offers on their way (`Takes`). Each action has a lemma; that of `Serve` (`ServeQueues`,
`ServeMail`, `ServeOffers`) follows the server's loop over offers by induction, and
`UnsettledLemma` does the same for the fold with which a flush keeps the offers.

`ClientProofs` proves, for every set of calls, inputs and bounds, from `ClientAssumption`
(calls of different kinds differ, inputs have files of bytes, a single one has one):

| theorem | states |
|---|---|
| `ClientInvariant` | `Spec => []IInv` |
| `MapsAgreeHolds` | `Spec => []MapsAgree` |
| `RegistryAgreesHolds` | `Spec => []RegistryAgrees` |
| `DestroyLeavesNothingHolds` | `Spec => []DestroyLeavesNothing` |

The three properties speak of the moments between calls. `IInv` says what holds within them,
of each session whose hash was never disputed: what lives is in the map of torrents and no
remove has begun on it (`LiveInMaps`); before `destroy`, what is in the maps, the list or the
registry lives or is held by a remove under way (`MapsAlive`); and what `destroy` has been at
is gone unless it came late (`Gone`). `Shape` ties the maps to the sessions: a hash leads to a
session of that hash, and the list has each session once. Each action has a lemma; insertion
and removal rest on lemmas about the maps and about taking an element out of the list.

Unless another seed writes a file of its name, a seed is of its input:

| theorem | states |
|---|---|
| `SeedsTheInputHolds` | `Spec => []SeedsTheInput` |

`SeedOf` says of each seed, at the await it is at, which files are still to be written, that
the entry the generator will read holds the file of a single one and no other, and that the
hash made of it is that of the input.

Once a seed has ended, its session has every piece marked, or ahead of the scan of a seed that came
later, though two programs cut the files, the
generator for its digests and `_populateChunkStoreFromOPFSEntry` for the store, and though
another call may close the store, open it again or fill it in between:

| theorem | states |
|---|---|
| `SeedsAreCompleteHolds` | `Spec => []SeedsAreComplete` |

The premise is that of `SeedsAreComplete`: no seed of the session was disturbed by another's
file, padded or leaves files out, and the session lives undisputed. First, for any files and
any piece length, what the populating pass puts, byte by byte into a buffer that it puts when
full, is what the generator takes digests of (`PutsLemma`: `Cuts` says how many pieces and
bytes have been taken, by induction over the bytes), each chunk has the length its index
demands (`SizesLemma`), and `calcPieceSize` gives a size there is (`SizeLemma`). `FillInv`
then joins what is known of the stores:

- `FilesOf`: a seed that nobody disturbed still finds the files its metainfo was made of;
- `OneStore`: of the sessions of a hash, the live one that nobody disputes has the only open
  store, so no other call writes or wipes its chunk directory under it;
- `Resulted`, `Stored`: a seed that is about to fill a store has a session of its hash,
  and that has a chunk directory and a piece length;
- `AllFilled`: in a live session all of whose seeds are plain, each seed that puts has put the
  pieces before the one it is at (`Upto`), all are in the chunk directory once one of its seeds
  has come to the scan (`Full`), a scan finds each piece it reads, and once a scan has begun each
  piece is marked or lies ahead of a scan (`Covered`).

Which seeds have a session as their result matters because each of them fills the same store
again, put by put, and empties the bit field: a plain one puts the same pieces over those that
are there (`FillsLemma`), so a full directory stays full at each of its awaits; the piece a scan passes is
marked in the same step, and a scan that begins has every piece ahead of it.

`SwarmProofs` proves, for every set of peers, addresses and trackers and every limit, from
`SwarmAssumption` (the limits are positive, peers that come by `addPeer` are no offers, there are
offers for every announce):

| theorem | states |
|---|---|
| `SwarmInvariant` | `Spec => []IInv` |
| `SwarmTypeCorrect` | `Spec => []TypeOK` |
| `SlotsAreUsedHolds` | `Spec => []SlotsAreUsed` |
| `LiveIsTrackedHolds` | `Spec => []LiveIsTracked` |
| `DestroyIsFinalHolds` | `Spec => []DestroyIsFinal` |

Events nest in `Swarm`, so its methods are functions on the object and the invariant is a
predicate on objects: `Good` says that each entry of the map is a peer hooked under that address
(`Hooked`), that what waits in the queue has not been connected and waits once (`Waiting`),
and that a destroyed swarm has no address and no queue (`Ended`). `Late` counts the offers made
since `destroy`: each websocket tracker that `start()` comes to adds its own, nothing else does
(`SameEnd` is what a method leaves as it was in a destroyed swarm). `Used` and `Found` are `SlotsAreUsed` and
`LiveIsTracked` of an object. Neither holds inside a handler: between the deletion of an
entry and the draining that follows a slot is free while an address waits, and a peer whose
entry was overwritten is lost to the map. So the lemmas of the primitive steps say for which
peers `Found` holds still, and `DrainToLemma`, by induction over the rounds of the loop, that
draining restores `Used`; `AddAllLemma` is the induction over the peers of an announce response.

`TrackerServerProofs` proves, for every population and limits, from `TrackerAssumption`:

| theorem | states |
|---|---|
| `Invariant` | `Spec => []IInv` |
| `TypeCorrect` | `Spec => []TypeOK` |
| `CacheSoundHolds` | `Spec => []CacheSound` |
| `SwarmsBoundedHolds` | `Spec => []SwarmsBounded` |
| `ClosedLeavesHolds` | `Spec => []ClosedLeaves` |
| `LeavesForCauseHolds` | `Spec => LeavesForCause` |

The cache is a doubly linked list whose pointers are in the model. `Holds(l, q)` says that the
list `l` is the sequence of keys `q`: head and tail are its ends, every pointer leads to the
neighbour in `q`, and keys outside `q` have none. Each method of `Lru` gets a lemma about
sequences (`PutLemma` puts a key in front and drops the last of a full list), and from there on
only `q` is spoken of. `Good` adds what the two directions of membership owe to each other: the keys
of the cache are the torrents with members, each within the limit. `PeersKnown` is needed
because a member is evicted by its place in the Map of peers: a full swarm must have its first
member there. `CacheSound` then follows by walking the list (`KeysInOrderLemma`, an induction).

`RecursionLemmas` holds what the library's induction theorems would give, if a predicate
could be passed to them: a set of numbers has a least element (from the
well-foundedness of the subsets of a finite set), so induction over a set of numbers holds
(`Induction`), and the functions with which the community modules define folds exist and
have their equations (`FoldExists`, `PrefixLemma`). Of the sums over a finite set it
proves that they are numbers and grow with their terms (`SumLemma`, `SumGrows`).

Model-checked only:

- all liveness, since the prover has neither fairness reasoning nor `ENABLED`;
- the `Lru` methods as code: the proofs are about the list within `TrackerServer`.

No module uses `RECURSIVE` operators: loops are folds or recursive functions.


## 6. Plan

Done: `Torrent`, `Download`, `Wire`, `Swarm`, `Lru`, `TrackerServer`, `Signalling`,
`UtMetadata`, `Stream`, `Generator`, `Client`; proofs of `Torrent`, `Download`, `Wire`,
`Swarm`, `TrackerServer`, `UtMetadata`, `Client`, `Stream` and `Signalling`, of every safety
property the runs check. To come:

1. `ExtensionHost`: registration and handshake of extensions under `UtMetadata`, which takes
   the negotiated identifiers as agreed.
2. The reads of a file (`File._readBlock`, `arrayBuffer`) over `Torrent`, under `Stream`.
3. `HttpTracker` beside `WsTracker`: one announce at a time, aborted by `destroy`.
4. Theorems about `Lru` under any calls, not only those that the tracker server makes.


## 7. Not modelled

- *Encodings and parsers* (bencode, magnet, metainfo, messages): pure functions with unit
  tests; the models use decoded messages.
- *Bit fields, pieces, hashing*: sets and a sound/unsound flag stand for them.
- *WebRTC and OPFS*: external. A data channel is an ordered queue that may close, a
  handle an entry that may be missing, short or sound.
- *Extension host*: see the plan. `ut_pex`, `waitForHandshake` and the tracker's exported
  `SwarmManager` and `PeerConnectionManager` are used by nothing in the packages.
- *Stream server* (`core/server/`): an older in-process path that the service worker does
  not use.
- *CLI, router, service worker caching, example application, end-to-end scenarios*:
  sequential I/O without state shared between activities.
- *Throttling*: shapes time only.
- *`docs/`*: besides documents it holds the sources of other programs kept for reference
  (`docs/deno-torrent`, `docs/bittorrent-tracker` and others). Nothing in the packages
  imports them; they are about half of the repository's lines of code.
- Within modelled components, what each leaves out is noted in `PROJECT.json`.

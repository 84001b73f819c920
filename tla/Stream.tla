------------------------------- MODULE Stream -------------------------------
(***************************************************************************)
(* Streaming of files to media elements: the service worker answers a      *)
(* fetch with a body it pulls, chunk by chunk, from the page that owns the *)
(* torrent (service-worker/stream-handler.ts, service-worker/bridge.ts,    *)
(* File.createReadStream).  Each request has a channel for chunks and one  *)
(* for the response's headers; messages of a port keep their order.        *)
(*                                                                         *)
(* A message handler is a step, with the microtasks it releases.  Bytes    *)
(* are named by their position in the file.                                *)
(*                                                                         *)
(* What every module has (Init, Next, Spec, ...) bears this module's name, *)
(* so that the proofs can extend it beside another module.                 *)
(***************************************************************************)
EXTENDS Integers, FiniteSets, Sequences, SequencesExt

CONSTANTS
  Requests,   \* fetches of stream URLs, each made at most once
  Pages,      \* pages that hand their port to the worker, each at most once
  Serves,     \* requests whose file is registered in each page
  FirstByte, LastByte, \* range of each request, both inclusive (parseRange); that
              \* of an empty file is 0 to -1
  BlockSize,  \* bytes File reads at a time
  Null

ASSUME StreamAssumption ==
  /\ Serves \in [Pages -> SUBSET Requests]
  /\ FirstByte \in [Requests -> Nat] /\ LastByte \in [Requests -> Int]
  /\ \A r \in Requests : FirstByte[r] <= LastByte[r] + 1
  /\ BlockSize \in Nat \ {0}
  /\ IsFiniteSet(Requests) /\ Null \notin Requests \cup Pages

VARIABLES
  pagePort, \* the worker's pagePort: the page that connected last
  ports,    \* pages that have connected
  gone,     \* those of them that were closed or reloaded since
  queue,    \* requestQueue: fetches made before a page connected
  loop,     \* the request whose response each run of processQueue awaits
  sw,       \* the worker's side of each request
  page,     \* the page's side of each request
  toPage,   \* on the chunk channel: pulls (true) and the cancel (false)
  toSw,     \* on the chunk channel: chunks, "other" objects, "end" (null)
  received  \* the bytes the consumer of the body has read

streamVars == <<pagePort, ports, gone, queue, loop, sw, page, toPage, toSw, received>>
routing == <<pagePort, ports, gone, queue, loop>>

Bytes(first, next) == [i \in 1..(next - first) |-> first + i - 1]
RequestedBytes(r) == Bytes(FirstByte[r], LastByte[r] + 1)
\* The read stream is made with the last byte of the range as its end, which File
\* takes to be the first byte it leaves out.
FileEnd(r) == LastByte[r]
Chunk(bytes) == [type |-> "chunk", bytes |-> bytes]
End == [type |-> "end", bytes |-> <<>>]
Object == [type |-> "other", bytes |-> <<>>]

\* state "asked": the request is on its way to, or answered by, sw[r].page;
\* pending: pendingPullResolve is set; pulling: pull() awaits pendingPull;
\* body: the chunks in the queue of the body; closed: "no", or what closed it.
NoResponse == [state |-> "idle", page |-> Null, pending |-> FALSE, pulling |-> FALSE,
               body |-> <<>>, closed |-> "no"]

\* mail: the request has arrived or not, and whether headers are on their way.
NoStream == [mail |-> "none", open |-> FALSE, offset |-> 0, reads |-> 0]

StreamTypeOK ==
  /\ pagePort \in Pages \cup {Null} /\ ports \subseteq Pages /\ gone \subseteq ports
  /\ IsInjective(queue) /\ Range(queue) \subseteq Requests
  /\ loop \in [Pages -> Requests \cup {Null}]
  /\ \A r \in Requests :
       /\ sw[r].state \in {"idle", "queued", "asked", "streaming"}
       /\ sw[r].page \in Pages \cup {Null} /\ sw[r].pending \in BOOLEAN /\ sw[r].pulling \in BOOLEAN
       /\ sw[r].closed \in {"no", "end", "timeout", "cancel"}
       /\ page[r].mail \in {"none", "request", "headers", "read"} /\ page[r].open \in BOOLEAN
       /\ page[r].offset \in 0..LastByte[r] + 1 /\ page[r].reads \in Nat
       /\ toPage[r] \in Seq(BOOLEAN)
       /\ \A m \in Range(toSw[r]) : m.type \in {"chunk", "other", "end"}
       /\ \A bytes \in Range(sw[r].body) \cup {received[r]} : Range(bytes) \subseteq Nat

StreamInit ==
  /\ pagePort = Null /\ ports = {} /\ gone = {} /\ queue = <<>> /\ loop = [p \in Pages |-> Null]
  /\ sw = [r \in Requests |-> NoResponse] /\ page = [r \in Requests |-> NoStream]
  /\ toPage = [r \in Requests |-> <<>>] /\ toSw = [r \in Requests |-> <<>>]
  /\ received = [r \in Requests |-> <<>>]
-----------------------------------------------------------------------------
(***************************************************************************)
(* The fetch handler and the queue it keeps until a page connects          *)
(***************************************************************************)

\* handleStream posts the request to a page's port.
Asked(p, S) == [r \in Requests |-> IF r \in S THEN [sw[r] EXCEPT !.state = "asked", !.page = p]
                                    ELSE sw[r]]
Mailed(S) == [r \in Requests |-> IF r \in S THEN [page[r] EXCEPT !.mail = "request"] ELSE page[r]]

\* processQueue, run by page p: the first request of the queue, if any.
NextQueued == IF queue = <<>> THEN {} ELSE {Head(queue)}
NextOf(p) ==
  /\ queue' = IF queue = <<>> THEN queue ELSE Tail(queue)
  /\ loop' = [loop EXCEPT ![p] = IF queue = <<>> THEN Null ELSE Head(queue)]

Fetch(r) ==
  /\ sw[r].state = "idle"
  /\ IF pagePort = Null
     THEN /\ queue' = Append(queue, r)
          /\ sw' = [sw EXCEPT ![r].state = "queued"]
          /\ UNCHANGED page
     ELSE /\ sw' = Asked(pagePort, {r}) /\ page' = Mailed({r})
          /\ UNCHANGED queue
  /\ UNCHANGED <<pagePort, ports, gone, loop, toPage, toSw, received>>

SetPagePortOnly(p) ==             \* mutant: the queue is not processed
  /\ p \notin ports
  /\ ports' = ports \cup {p} /\ pagePort' = p
  /\ UNCHANGED <<gone, sw, page, queue, loop, toPage, toSw, received>>

SetPagePort(p) ==
  /\ p \notin ports
  /\ ports' = ports \cup {p} /\ pagePort' = p
  /\ sw' = Asked(p, NextQueued) /\ page' = Mailed(NextQueued)
  /\ NextOf(p)
  /\ UNCHANGED <<gone, toPage, toSw, received>>
\* A page is closed or reloaded.  The worker is not told: pagePort stays, and what
\* is posted to it is lost.
PageLeaves(p) ==
  /\ p \in ports \ gone
  /\ gone' = gone \cup {p}
  /\ UNCHANGED <<pagePort, ports, queue, loop, sw, page, toPage, toSw, received>>
-----------------------------------------------------------------------------
(***************************************************************************)
(* The page (connectServiceWorkerBridge)                                   *)
(***************************************************************************)
Alive(r) == sw[r].page \notin gone

\* The request arrives.  An unknown file is answered on the chunk port, where
\* the worker only takes chunks and the end.
PageRequest(r) ==
  /\ page[r].mail = "request" /\ Alive(r)
  /\ IF r \in Serves[sw[r].page]
     THEN /\ page' = [page EXCEPT ![r] = [mail |-> "headers", open |-> TRUE,
                                          offset |-> FirstByte[r], reads |-> 0]]
          /\ UNCHANGED toSw
     ELSE /\ page' = [page EXCEPT ![r].mail = "read"]
          /\ toSw' = [toSw EXCEPT ![r] = @ \o <<Object, End>>]
  /\ UNCHANGED <<routing, sw, toPage, received>>

\* What the page posts is lost once the worker closed its ports.
Post(r, m) == toSw' = [toSw EXCEPT ![r] = IF sw[r].closed = "no" THEN Append(@, m) ELSE @]

\* chunkPort.onmessage: a pull reads on unless the range is exhausted.
PageMessage(r) ==
  /\ toPage[r] # <<>> /\ Alive(r)
  /\ toPage' = [toPage EXCEPT ![r] = Tail(@)]
  /\ \/ ~page[r].open /\ UNCHANGED <<page, toSw>>
     \/ page[r].open /\ ~Head(toPage[r])
        /\ page' = [page EXCEPT ![r].open = FALSE] /\ UNCHANGED toSw
     \/ page[r].open /\ Head(toPage[r]) /\ page[r].offset > LastByte[r]
        /\ page' = [page EXCEPT ![r].open = FALSE] /\ Post(r, End)
     \/ page[r].open /\ Head(toPage[r]) /\ page[r].offset <= LastByte[r]
        /\ page' = [page EXCEPT ![r].reads = @ + 1] /\ UNCHANGED toSw
  /\ UNCHANGED <<routing, sw, received>>

\* A block of the file, as createReadStream cuts it.
BlockAgain(r) ==                  \* mutant: the same block at every pull
  Bytes(FirstByte[r], IF FirstByte[r] + BlockSize < FileEnd(r) THEN FirstByte[r] + BlockSize ELSE FileEnd(r))
Block(r) ==
  LET from == page[r].offset
  IN  Bytes(from, IF from + BlockSize < FileEnd(r) THEN from + BlockSize ELSE FileEnd(r))

\* fileIterator.read() resolves, maybe after the port was closed.
ReadResolves(r) ==
  /\ page[r].reads > 0 /\ Alive(r)
  /\ \/ /\ ~page[r].open
        /\ page' = [page EXCEPT ![r].reads = @ - 1]
        /\ UNCHANGED toSw
     \/ /\ page[r].open /\ page[r].offset >= FileEnd(r)
        /\ page' = [page EXCEPT ![r].reads = @ - 1, ![r].open = FALSE]
        /\ Post(r, End)
     \/ /\ page[r].open /\ page[r].offset < FileEnd(r)
        /\ page' = [page EXCEPT ![r].reads = @ - 1, ![r].offset = @ + Len(Block(r))]
        /\ Post(r, Chunk(Block(r)))
  /\ UNCHANGED <<routing, sw, toPage, received>>

\* It rejects (a missing piece, a closed store, a destroyed file): nobody catches.
ReadFails(r) ==
  /\ page[r].reads > 0 /\ Alive(r)
  /\ page' = [page EXCEPT ![r].reads = @ - 1]
  /\ UNCHANGED <<routing, sw, toPage, toSw, received>>
-----------------------------------------------------------------------------
(***************************************************************************)
(* The service worker (handleStream)                                       *)
(***************************************************************************)

\* doPull, when it has nothing to wait for.
DoPull(r, s) ==
  /\ sw' = [sw EXCEPT ![r] = [s EXCEPT !.pending = TRUE]]
  /\ toPage' = [toPage EXCEPT ![r] = Append(@, TRUE)]

\* The headers arrive: the response resolves, with a body that starts to pull,
\* and the run of processQueue that awaited it goes on.
Headers(r) ==
  /\ page[r].mail = "headers" /\ sw[r].closed = "no"
  /\ toPage' = [toPage EXCEPT ![r] = Append(@, TRUE)]
  /\ \/ /\ \A p \in Pages : loop[p] # r
        /\ sw' = [sw EXCEPT ![r].state = "streaming", ![r].pending = TRUE]
        /\ page' = [page EXCEPT ![r].mail = "read"]
        /\ UNCHANGED <<queue, loop>>
     \/ \E p \in Pages :
        /\ loop[p] = r
        /\ sw' = [Asked(pagePort, NextQueued) EXCEPT ![r].state = "streaming", ![r].pending = TRUE]
        /\ page' = [Mailed(NextQueued) EXCEPT ![r].mail = "read"]
        /\ NextOf(p)
  /\ UNCHANGED <<pagePort, ports, gone, toSw, received>>

\* Mutant: the pull that waits for the chunk is not woken.
OnChunkSleeps(r, bytes) ==
  sw' = [sw EXCEPT ![r].body = Append(@, bytes), ![r].pending = FALSE] /\ UNCHANGED toPage

\* A chunk: into the body; a pull() that waits for it asks for the next one.
OnChunk(r, bytes) ==
  LET s == [sw[r] EXCEPT !.body = Append(@, bytes), !.pending = FALSE] IN
  IF s.pulling THEN DoPull(r, [s EXCEPT !.pulling = FALSE])
  ELSE sw' = [sw EXCEPT ![r] = s] /\ UNCHANGED toPage

\* The end, of a body or of a request that never got headers.
OnEnd(r) ==
  /\ sw' = [sw EXCEPT ![r].closed = "end", ![r].pending = FALSE, ![r].pulling = FALSE]
  /\ UNCHANGED toPage

SwMessage(r) ==
  /\ toSw[r] # <<>> /\ sw[r].closed = "no"
  /\ LET m == Head(toSw[r]) IN
       \/ m.type = "chunk" /\ OnChunk(r, m.bytes)
       \/ m.type = "end" /\ OnEnd(r)
       \/ m.type = "other" /\ UNCHANGED <<sw, toPage>>
  /\ toSw' = [toSw EXCEPT ![r] = IF Head(@).type = "end" THEN <<>> ELSE Tail(@)]
  /\ UNCHANGED <<routing, page, received>>

PullAlways(r) ==                  \* mutant: pull() does not wait for the chunk
  /\ sw[r].state = "streaming" /\ sw[r].closed = "no"
  /\ ~sw[r].pulling /\ sw[r].body = <<>>
  /\ DoPull(r, sw[r])
  /\ UNCHANGED <<routing, page, toSw, received>>

\* The stream calls pull() when its queue has run empty.
Pull(r) ==
  /\ sw[r].state = "streaming" /\ sw[r].closed = "no"
  /\ ~sw[r].pulling /\ sw[r].body = <<>>
  /\ IF sw[r].pending
     THEN sw' = [sw EXCEPT ![r].pulling = TRUE] /\ UNCHANGED toPage
     ELSE DoPull(r, sw[r])
  /\ UNCHANGED <<routing, page, toSw, received>>

\* The timer of a pull fires: the body ends as if it were complete, and the page
\* is not told.
PullTimeout(r) ==
  /\ sw[r].pending
  /\ sw' = [sw EXCEPT ![r].pending = FALSE, ![r].closed = IF @ = "no" THEN "timeout" ELSE @]
  /\ toSw' = [toSw EXCEPT ![r] = <<>>]
  /\ UNCHANGED <<routing, page, toPage, received>>
-----------------------------------------------------------------------------
(***************************************************************************)
(* The consumer of the body: a media element reads, seeks away or leaves   *)
(***************************************************************************)
Read(r) ==
  /\ sw[r].body # <<>>
  /\ received' = [received EXCEPT ![r] = @ \o Head(sw[r].body)]
  /\ sw' = [sw EXCEPT ![r].body = Tail(@)]
  /\ UNCHANGED <<routing, page, toPage, toSw>>

CancelQuietly(r) ==               \* mutant: only the ports are closed
  /\ sw[r].state = "streaming" /\ sw[r].closed = "no"
  /\ sw' = [sw EXCEPT ![r].closed = "cancel", ![r].body = <<>>]
  /\ toSw' = [toSw EXCEPT ![r] = <<>>]
  /\ UNCHANGED <<routing, page, toPage, received>>

Cancel(r) ==
  /\ sw[r].state = "streaming" /\ sw[r].closed = "no"
  /\ sw' = [sw EXCEPT ![r].closed = "cancel", ![r].body = <<>>]
  /\ toPage' = [toPage EXCEPT ![r] = Append(@, FALSE)]
  /\ toSw' = [toSw EXCEPT ![r] = <<>>]
  /\ UNCHANGED <<routing, page, received>>

StreamNext ==
  \/ \E p \in Pages : SetPagePort(p) \/ PageLeaves(p)
  \/ \E r \in Requests :
       \/ Fetch(r) \/ Read(r) \/ Cancel(r)
       \/ PageRequest(r) \/ PageMessage(r) \/ ReadResolves(r) \/ ReadFails(r)
       \/ Headers(r) \/ SwMessage(r) \/ Pull(r) \/ PullTimeout(r)

StreamSpec == StreamInit /\ [][StreamNext]_streamVars

\* Messages and timers are served, streams pull, reads settle, and who consumes
\* a body goes on reading it.  Nobody need fetch, connect or cancel.
FairStreamSpec ==
  StreamSpec /\ \A r \in Requests :
    /\ WF_streamVars(PageRequest(r)) /\ WF_streamVars(PageMessage(r))
    /\ WF_streamVars(ReadResolves(r) \/ ReadFails(r))
    /\ WF_streamVars(Headers(r)) /\ WF_streamVars(SwMessage(r)) /\ WF_streamVars(Pull(r))
    /\ WF_streamVars(PullTimeout(r)) /\ WF_streamVars(Read(r))
-----------------------------------------------------------------------------
(***************************************************************************)
(* Properties                                                              *)
(***************************************************************************)

\* What the consumer has read, what waits in the body and what is on its way are
\* consecutive bytes from the first one asked for: no block is repeated, skipped or
\* overtaken by late reads, pulls and timeouts (bridge.ts, stream-handler.ts).
InFlight(r) == FlattenSeq([i \in 1..Len(toSw[r]) |-> toSw[r][i].bytes])
BodyIsPrefix ==
  \A r \in Requests :
    IsPrefix(received[r] \o FlattenSeq(sw[r].body) \o InFlight(r), RequestedBytes(r))

\* Back pressure (docs/browsertorrent/08-comparison-table.md:117): one pull is
\* outstanding at a time and the body holds no more than two chunks, however slowly
\* it is consumed.
Pulls(r) == {i \in 1..Len(toPage[r]) : toPage[r][i]}
Chunks(r) == {i \in 1..Len(toSw[r]) : toSw[r][i].type = "chunk"}
Backpressure ==
  \A r \in Requests :
    /\ Len(sw[r].body) <= 2
    /\ Cardinality(Pulls(r)) + page[r].reads + Cardinality(Chunks(r)) <= 1

\* A fetch for a file that every page has registered is answered once a page is
\* there.  Excused: it was posted to a page that left, as pagePort may stand for such a
\* page (stream-handler.ts); or the queue waits behind one that was, or behind a file
\* its page does not know, since those requests are never answered.
Lost(r) == sw[r].page \in gone
Stuck == \E p \in Pages : loop[p] # Null /\ (Lost(loop[p]) \/ loop[p] \notin Serves[sw[loop[p]].page])
FetchIsAnswered ==
  \A r \in Requests :
    (sw[r].state # "idle" /\ pagePort # Null /\ \A p \in Pages : r \in Serves[p])
      ~> (sw[r].state = "streaming" \/ Lost(r) \/ Stuck)

\* A body that is read ends: by the end of the range, a cancel, or the timer when
\* the page fails to read or has left.
BodyEnds ==
  \A r \in Requests :
    sw[r].state = "streaming" ~> (sw[r].closed # "no" /\ sw[r].body = <<>>)

\* The page lets go of a stream whose consumer cancelled, unless it has left.
CancelReleasesPage ==
  \A r \in Requests : sw[r].closed = "cancel" ~> (~page[r].open \/ Lost(r))

\* service-worker/bridge.ts:45 makes both ends of a range inclusive, and the
\* Content-Length announced counts both: a body that ends with the end has all.
BodyIsWholeRange ==
  \A r \in Requests :
    sw[r].state = "streaming" /\ sw[r].closed = "end"
      => received[r] \o FlattenSeq(sw[r].body) = RequestedBytes(r)
=============================================================================

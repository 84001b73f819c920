------------------------------- MODULE Client -------------------------------
(***************************************************************************)
(* The client (core/mod.ts): calls of add, seed, remove and destroy that   *)
(* overlap at their awaits, over the maps of torrents and swarms, the list *)
(* of torrents, the registry of streamed files, the directory in which     *)
(* seeds are prepared and the chunk directory of each info hash.           *)
(*                                                                         *)
(* A call makes at most one torrent with its swarm and store: a session,   *)
(* named by the call.  What a session does by itself is in Torrent,        *)
(* Download and Swarm; here it lives or is destroyed.                      *)
(***************************************************************************)
EXTENDS Generator, Functions

CONSTANTS
  Adds, Seeds, Removes, \* calls, each made at most once
  Inputs,      \* what may be seeded: kind "single", "array" or "directory", its files and options
  Known,       \* the inputs whose metainfo or magnet link add may be given
  Mixes,       \* bounds the calls made: those that may be made in one behaviour
  MaxOverlap,  \* bounds the calls in progress at a time
  DefaultPiece, \* the chunk length before the metadata is known, 16384 in the code
  NoSession

Calls == Adds \cup Seeds \cup Removes
Sessions == Adds \cup Seeds

ASSUME ClientAssumption ==
  /\ Adds \cap Seeds = {} /\ Sessions \cap Removes = {} /\ NoSession \notin Sessions
  /\ IsFiniteSet(Calls) /\ DefaultPiece \in Nat \ {0}
  /\ Known \subseteq Inputs /\ Mixes \subseteq SUBSET Calls /\ MaxOverlap \in Nat
  /\ \A i \in Inputs :
       /\ i.kind \in {"single", "array", "directory"}
       /\ i.files \in Seq(Range(i.files)) /\ i.files # <<>>
       /\ \A f \in Range(i.files) : f.bytes \in Seq(Nat)
       /\ i.kind = "single" => Len(i.files) = 1

VARIABLES
  torrents, swarms, \* maps from info hashes to sessions
  torrentList,
  destroyed,
  destroying, \* destroy(): "no", "loop" with the hashes it has been at, "done"
  server,     \* createServer has run
  listens,    \* its listener of "torrent" events is there, which destroy leaves
  registry,   \* streamManager: from info hashes to sessions
  session,    \* the sessions made
  call,       \* where each call of add, seed or remove is
  temp,       \* the files of the directory browsertorrent-seed
  chunks      \* the directory webtorrent-<infoHash> of each hash that has one

vars == <<torrents, swarms, torrentList, destroyed, destroying, server, listens, registry, session,
          call, temp, chunks>>
maps == <<torrents, swarms, torrentList, server, listens, registry>>

Lookup(f, h) == IF h \in DOMAIN f THEN f[h] ELSE NoSession
Set(f, h, v) == [k \in DOMAIN f \cup {h} |-> IF k = h THEN v ELSE f[k]]
Delete(f, h) == Restrict(f, DOMAIN f \ {h})

\* known: its metadata was when it was added; verified: the bit field, as the seeds'
\* scans mark it (what the torrent receives is in Torrent).  beside and late are history:
\* it was inserted while its hash was in the map or being removed, or after destroy was
\* called.
NewSession(h, known, beside, late) ==
  [hash |-> h, known |-> known, torrent |-> TRUE, swarm |-> TRUE, closed |-> FALSE, verified |-> {},
   beside |-> beside, late |-> late]
Made == DOMAIN session

\* next: the piece that its loop over the store is at; found: the chunk its scan has
\* read is the piece.  mixed is history: another seed wrote among the files of this one.
NewCall == [at |-> "idle", input |-> <<>>, hash |-> <<>>, known |-> TRUE, written |-> 0,
            result |-> NoSession, wipe |-> FALSE, next |-> 1, found |-> FALSE, mixed |-> FALSE]
Settled == {"idle", "done", "failed"}
MayCall(c) ==
  /\ call[c].at = "idle"
  /\ {d \in Calls : call[d].at # "idle"} \cup {c} \in Mixes
  /\ Cardinality({d \in Calls : call[d].at \notin Settled}) < MaxOverlap

Init ==
  /\ torrents = <<>> /\ swarms = <<>> /\ registry = <<>> /\ session = <<>> /\ chunks = <<>>
  /\ torrentList = <<>> /\ destroyed = FALSE /\ server = FALSE /\ listens = FALSE
  /\ destroying = [at |-> "no", seen |-> {}]
  /\ call = [c \in Calls |-> NewCall]
  /\ temp = {}
-----------------------------------------------------------------------------
(***************************************************************************)
(* seed: the input is written, the metainfo generated                      *)
(***************************************************************************)
RootName(input) == IF input.kind = "array" THEN "browsertorrent-seed" ELSE input.name

\* _prepareSeedInput's entry: its one file, the whole shared directory, or the
\* directory given.
EntryAll(input, dir) == IF input.kind = "directory" THEN Range(input.files) ELSE dir  \* mutant
Entry(input, dir) ==
  IF input.kind = "directory" THEN Range(input.files)
  ELSE IF input.kind = "array" THEN dir
  ELSE {f \in dir : f.name = input.files[1].name}

\* The entry of a single file is a list, which is not walked.
Hides(input) == input.ignoreHidden /\ input.kind # "single"
Walked(input, dir) == WalkDir(Entry(input, dir), Hides(input))
Metainfo(input, dir) == Generate(RootName(input), Walked(input, dir), input.align)

SeedCalled(s) ==
  /\ MayCall(s) /\ ~destroyed
  /\ \E input \in Inputs :
       call' = [call EXCEPT ![s].at = IF input.kind = "directory" THEN "generate" ELSE "write",
                            ![s].input = input]
  /\ UNCHANGED <<maps, destroyed, destroying, session, temp, chunks>>

\* A file of _prepareSeedInput; the seeds it may disturb.
Reads(s, f) ==
  /\ call[s].at \notin Settled /\ call[s].input.kind # "directory"
  /\ call[s].input.kind = "single" => call[s].input.files[1].name = f.name
WriteTemp(s) ==
  LET n == call[s].written + 1
      f == call[s].input.files[n]
  IN
  /\ call[s].at = "write"
  /\ temp' = {g \in temp : g.name # f.name} \cup {f}
  /\ call' = [c \in Calls |->
       IF c = s THEN [call[c] EXCEPT !.written = n,
                        !.at = IF n = Len(call[c].input.files) THEN "generate" ELSE @]
       ELSE IF c \in Seeds /\ Reads(c, f) THEN [call[c] EXCEPT !.mixed = TRUE] ELSE call[c]]
  /\ UNCHANGED <<maps, destroyed, destroying, session, chunks>>

\* generateTorrent, and add() is called with the result.
GenerateTorrent(s) ==
  LET input == call[s].input IN
  /\ call[s].at = "generate"
  /\ call' = [call EXCEPT
       ![s].at = IF destroyed \/ Walked(input, temp) = <<>> THEN "failed" ELSE "parse",
       ![s].hash = Metainfo(input, temp)]
  /\ UNCHANGED <<maps, destroyed, destroying, session, temp, chunks>>
-----------------------------------------------------------------------------
(***************************************************************************)
(* add                                                                     *)
(***************************************************************************)

\* add of the metainfo, or of a magnet link, that somebody else made of an input.
AddCalled(c) ==
  /\ MayCall(c) /\ ~destroyed
  /\ \E input \in Known, known \in BOOLEAN :
       call' = [call EXCEPT ![c].at = "parse", ![c].known = known,
                            ![c].hash = Metainfo(input, Range(input.files))]
  /\ UNCHANGED <<maps, destroyed, destroying, session, temp, chunks>>

\* parseTorrent has resolved: a torrent there is returned, else a store is made.
AddCheck(c) ==
  LET found == Lookup(torrents, call[c].hash) IN
  /\ call[c].at = "parse"
  /\ call' = [call EXCEPT ![c].result = found,
                          ![c].at = IF found = NoSession THEN "store"
                                    ELSE IF c \in Seeds THEN "populate" ELSE "done"]
  /\ chunks' = IF found = NoSession /\ call[c].hash \notin DOMAIN chunks
               THEN Set(chunks, call[c].hash, <<>>) ELSE chunks
  /\ UNCHANGED <<maps, destroyed, destroying, session, temp>>

\* The files of a torrent go into the registry; before the metadata there are none.
RegisterNot(r, c, h, known) == r \* mutant: left to createServer
Register(r, c, h, known) == IF known THEN Set(r, h, c) ELSE r

\* _createChunkStore has resolved: neither the map nor destroyed is looked at again.
AddInsert(c) ==
  LET h == call[c].hash
      beside == h \in DOMAIN torrents \/ \E r \in Removes : call[r].at = "closing" /\ call[r].hash = h
  IN
  /\ call[c].at = "store"
  /\ session' = Set(session, c, NewSession(h, call[c].known, beside, destroyed))
  /\ torrents' = Set(torrents, h, c)
  /\ swarms' = Set(swarms, h, c)
  /\ torrentList' = Append(torrentList, c)
  /\ registry' = IF listens THEN Register(registry, c, h, call[c].known) ELSE registry
  /\ call' = [call EXCEPT ![c].result = c, ![c].at = IF c \in Seeds THEN "populate" ELSE "done"]
  /\ UNCHANGED <<destroyed, destroying, server, listens, temp, chunks>>

-----------------------------------------------------------------------------
(***************************************************************************)
(* seed: the store is filled and scanned                                   *)
(***************************************************************************)

\* _populateChunkStoreFromOPFSEntry: the chunks it puts.
Pour(state, byte, size) ==
  LET full == Append(state.buffer, byte)
  IN  IF Len(full) = size THEN [buffer |-> <<>>, puts |-> Append(state.puts, full)]
      ELSE [state EXCEPT !.buffer = full]
Poured(files, size) ==
  FoldLeft(LAMBDA st, b : Pour(st, b, size), [buffer |-> <<>>, puts |-> <<>>], Bytes(files))
PutsFull(files, size) == Poured(files, size).puts     \* mutant: the partial piece is forgotten
Puts(files, size) ==
  LET end == Poured(files, size)
  IN  IF end.buffer = <<>> THEN end.puts ELSE Append(end.puts, end.buffer)

PieceLength(s) == IF session[s].known THEN session[s].hash.pieceLength ELSE DefaultPiece

\* OPFSChunkStore.put takes a chunk only of the length its index has.
ChunkLength(s, i) ==
  LET info == session[s].hash
      last == (Length(info) + info.pieceLength - 1) \div info.pieceLength
  IN  IF session[s].known /\ i = last /\ Length(info) % info.pieceLength # 0
      THEN Length(info) % info.pieceLength ELSE PieceLength(s)

\* A put of its loop, of the files as they are now, or the end of it.  The hidden files are read again whatever
\* ignoreHiddenFile said, and nothing is padded.  A chunk the store refuses ends the call.
Populate(s) ==
  LET c == call[s].result
      h == session[c].hash
      i == call[s].next
      puts == Puts(WalkDir(Entry(call[s].input, temp), FALSE), PieceLength(c))
      ended == i > Len(puts)
      refused == ~ended /\ (session[c].closed \/ Len(puts[i]) # ChunkLength(c, i))
  IN
  /\ call[s].at = "populate"
  /\ chunks' = IF ended \/ refused THEN chunks ELSE [chunks EXCEPT ![h] = Set(@, i, puts[i])]
  /\ call' = [call EXCEPT ![s].at = IF ended THEN "rescan" ELSE IF refused THEN "failed" ELSE @,
                          ![s].next = i + 1]
  /\ UNCHANGED <<maps, destroyed, destroying, session, temp>>

\* rescanFiles up to its first read: the bit field is emptied.
LastPiece(c) == IF session[c].known THEN Len(session[c].hash.pieces) ELSE 0
RescanFiles(s) ==
  LET c == call[s].result IN
  /\ call[s].at = "rescan"
  /\ session' = [session EXCEPT ![c].verified = {}]
  /\ call' = [call EXCEPT ![s].at = IF LastPiece(c) = 0 THEN "done" ELSE "scan", ![s].next = 1]
  /\ UNCHANGED <<maps, destroyed, destroying, temp, chunks>>

\* store.get has resolved, or rejected; the digest is awaited next.
Sound(c, i) ==
  LET h == session[c].hash
  IN  ~session[c].closed /\ i \in DOMAIN chunks[h] /\ chunks[h][i] = h.pieces[i]
ScanRead(s) ==
  /\ call[s].at = "scan"
  /\ call' = [call EXCEPT ![s].at = "mark", ![s].found = Sound(call[s].result, call[s].next)]
  /\ UNCHANGED <<maps, destroyed, destroying, session, temp, chunks>>

\* The piece is marked, or passed over, and the loop goes on.
ScanMark(s) ==
  LET c == call[s].result
      i == call[s].next
  IN
  /\ call[s].at = "mark"
  /\ session' = IF call[s].found THEN [session EXCEPT ![c].verified = @ \cup {i}] ELSE session
  /\ call' = [call EXCEPT ![s].at = IF i < LastPiece(c) THEN "scan" ELSE "done", ![s].next = i + 1]
  /\ UNCHANGED <<maps, destroyed, destroying, temp, chunks>>
-----------------------------------------------------------------------------
(***************************************************************************)
(* remove, createServer, destroy                                           *)
(***************************************************************************)

\* Torrent.destroy up to its await: the store of a wipe closes at its end.
DestroyTorrent(ss, c, wipe) ==
  IF ss[c].torrent THEN [ss EXCEPT ![c].torrent = FALSE, ![c].closed = ~wipe] ELSE ss

\* remove up to the await of torrent.destroy.
RemoveCalled(c) ==
  /\ MayCall(c)
  /\ \E h \in DOMAIN torrents, wipe \in BOOLEAN :
       LET t == torrents[h]
           u == Lookup(swarms, h)
           stopped == IF u = NoSession THEN session ELSE [session EXCEPT ![u].swarm = FALSE]
       IN  /\ call' = [call EXCEPT ![c].at = "closing", ![c].hash = h, ![c].result = t,
                                   ![c].wipe = wipe /\ session[t].torrent]
           /\ swarms' = Delete(swarms, h)
           /\ session' = DestroyTorrent(stopped, t, wipe)
  /\ UNCHANGED <<torrents, torrentList, destroyed, destroying, server, listens, registry, temp, chunks>>

SpliceAny(s, x) ==                \* mutant: indexOf is not compared with -1
  IF x \in Range(s) THEN RemoveFirst(s, x) ELSE IF s = <<>> THEN s ELSE Front(s)
Splice(s, x) == RemoveFirst(s, x)

\* The rest of remove: whatever session the hash has now leaves the map.
RemoveEnds(c) ==
  LET h == call[c].hash
      t == call[c].result
  IN
  /\ call[c].at = "closing"
  /\ torrents' = Delete(torrents, h)
  /\ torrentList' = Splice(torrentList, t)
  /\ registry' = IF server THEN Delete(registry, h) ELSE registry
  /\ destroying' = [destroying EXCEPT !.seen = @ \ {h}]
  /\ chunks' = IF call[c].wipe THEN [chunks EXCEPT ![h] = <<>>] ELSE chunks
  /\ session' = [session EXCEPT ![t].closed = TRUE]
  /\ call' = [call EXCEPT ![c].at = "done"]
  /\ UNCHANGED <<swarms, destroyed, server, listens, temp>>

\* createServer registers what is there; add does so from then on.
CreateServer ==
  /\ ~server
  /\ server' = TRUE /\ listens' = TRUE
  /\ registry' = [h \in DOMAIN registry \cup {k \in DOMAIN torrents : session[torrents[k]].known} |->
                    IF h \in DOMAIN torrents /\ session[torrents[h]].known THEN torrents[h] ELSE registry[h]]
  /\ UNCHANGED <<torrents, swarms, torrentList, destroyed, destroying, session, call, temp, chunks>>

\* A round of destroy's loop over the Map of torrents: some entry it has not been at,
\* or the end.  An entry that is added meanwhile is come to, one deleted is not.
DestroyRound(ss, seen) ==
  IF DOMAIN torrents \subseteq seen
  THEN /\ torrents' = <<>> /\ torrentList' = <<>> /\ server' = FALSE
       /\ destroying' = [at |-> "done", seen |-> seen]
       /\ session' = ss
  ELSE /\ \E h \in DOMAIN torrents \ seen :
            /\ session' = DestroyTorrent(ss, torrents[h], FALSE)
            /\ destroying' = [at |-> "loop", seen |-> seen \cup {h}]
       /\ UNCHANGED <<torrents, torrentList, server>>

DestroyCalled ==
  /\ ~destroyed
  /\ destroyed' = TRUE
  /\ swarms' = <<>>
  /\ DestroyRound([c \in Made |-> [session[c] EXCEPT !.swarm = @ /\ c \notin Range(swarms)]], {})
  /\ UNCHANGED <<listens, registry, call, temp, chunks>>

DestroyLoopOnce ==                \* mutant: destroys one torrent
  /\ destroying.at = "loop"
  /\ DestroyRound(session, DOMAIN torrents)
  /\ UNCHANGED <<swarms, destroyed, listens, registry, call, temp, chunks>>
DestroyLoop ==
  /\ destroying.at = "loop"
  /\ DestroyRound(session, destroying.seen)
  /\ UNCHANGED <<swarms, destroyed, listens, registry, call, temp, chunks>>

Next ==
  \/ \E s \in Seeds :
       \/ SeedCalled(s) \/ WriteTemp(s) \/ GenerateTorrent(s)
       \/ Populate(s) \/ RescanFiles(s) \/ ScanRead(s) \/ ScanMark(s)
  \/ \E c \in Adds : AddCalled(c)
  \/ \E c \in Sessions : AddCheck(c) \/ AddInsert(c)
  \/ \E c \in Removes : RemoveCalled(c) \/ RemoveEnds(c)
  \/ CreateServer \/ DestroyCalled \/ DestroyLoop

Spec == Init /\ [][Next]_vars
-----------------------------------------------------------------------------
(***************************************************************************)
(* Properties                                                              *)
(***************************************************************************)

\* Every session of the hash was inserted alone: an add that began before another
\* insertion replaces the session in the map, and the second of two removes takes
\* away a session inserted after the first.
Undisputed(c) == \A d \in Made : session[d].hash = session[c].hash => ~session[d].beside
Quiet == (\A c \in Calls : call[c].at \notin {"store", "closing"}) /\ destroying.at # "loop"

\* Between the calls the two maps and the list speak of the same sessions, the live
\* ones, each once: add writes and remove deletes them in different steps, and only
\* calls that overlap for one hash leave a session behind (add, remove in mod.ts).
MapsAgree ==
  Quiet /\ ~destroyed => \A c \in Made : Undisputed(c) =>
    LET alive == session[c].torrent IN
    /\ alive <=> Lookup(torrents, session[c].hash) = c
    /\ alive <=> Lookup(swarms, session[c].hash) = c
    /\ alive <=> session[c].swarm
    /\ Cardinality({i \in 1..Len(torrentList) : torrentList[i] = c}) = (IF alive THEN 1 ELSE 0)

\* With a server, the files that can be streamed are those of the live torrents that
\* had their metadata when they were added or the server made (registerTorrentFiles).
RegistryAgrees ==
  Quiet /\ ~destroyed /\ server =>
    /\ \A h \in DOMAIN registry : Undisputed(registry[h]) => session[registry[h]].torrent
    /\ \A c \in Made : session[c].torrent /\ Undisputed(c) /\ call[c].known =>
         Lookup(registry, session[c].hash) = c

\* Once destroy has ended no torrent and no swarm lives that was made before it was
\* called, whatever removes were going on; an add it overtakes still inserts one.
DestroyLeavesNothing ==
  destroying.at = "done" => \A c \in Made :
    session[c].late \/ ~Undisputed(c) \/ (~session[c].torrent /\ ~session[c].swarm)

\* A seed of one file or of a directory makes the torrent of that and of nothing else,
\* though the files of earlier seeds stay in the directory they are written to.
SeedsTheInput ==
  \A s \in Seeds : call[s].at = "done" /\ call[s].input.kind # "array" /\ ~call[s].mixed =>
    call[s].hash = Metainfo(call[s].input, Range(call[s].input.files))

\* A seed that has ended has every piece: what populates the store cuts the files as
\* the generator did, unless that padded or left out files, or did not know the piece
\* length of a torrent added by magnet link before.  A later seed of the same hash fills
\* the store and empties the bit field again: it spoils neither, unless it was disturbed,
\* padded or left out files, and each piece not marked lies ahead of such a seed's scan.
Plain(s) == ~call[s].mixed /\ ~call[s].input.align /\ ~Hides(call[s].input)
Ahead(c, i) ==
  \E t \in Seeds : call[t].at \in {"scan", "mark"} /\ call[t].result = c /\ call[t].next <= i
SeedsAreComplete ==
  \A s \in Seeds :
    LET c == call[s].result
        pieces == 1..Len(call[s].hash.pieces)
    IN
    /\ call[s].at = "done" /\ \A t \in Seeds : call[t].result = c => Plain(t)
    /\ session[c].torrent /\ Undisputed(c) /\ call[c].known
    => session[c].verified \subseteq pieces /\ \A i \in pieces : i \in session[c].verified \/ Ahead(c, i)
=============================================================================

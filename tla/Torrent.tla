------------------------------ MODULE Torrent ------------------------------
(***************************************************************************)
(* The piece accounting of one torrent session (core/torrent.ts) over its  *)
(* chunk store (storage/opfs-chunk-store.ts).                              *)
(*                                                                         *)
(* Three kinds of asynchronous activity share `bitfield`, `_downloaded`    *)
(* and the store, and interleave at every `await`:                         *)
(*   - receivePiece(index, buf), one call at a time per caller (a wire);   *)
(*   - _verifyExistingPieces(), run by _init, by setMetadata and by every  *)
(*     rescanFiles; each run is a scanner with its own loop index;         *)
(*   - destroy(destroyStore), which closes or empties the store.           *)
(* A step of the model is the code between two awaits.                     *)
(***************************************************************************)
EXTENDS Integers, FiniteSets, Functions

CONSTANTS
  NumPieces,    \* pieces named by the metadata
  PieceLength,  \* bytes of every piece but the last
  LastLength,   \* bytes of the last piece (lastPieceLength)
  Receivers,    \* concurrent callers of receivePiece: the registered wires
  Rescans       \* concurrent runs of rescanFiles

ASSUME TorrentAssumption ==
  /\ NumPieces \in Nat \ {0}
  /\ PieceLength \in Nat \ {0}
  /\ LastLength \in 1..PieceLength
  /\ "init" \notin Rescans
  /\ "metadata" \notin Rescans

VARIABLES
  known,            \* the piece list is known (numPieces > 0)
  metadataReceived, \* _metadataReceived
  ready,            \* _ready
  destroyed,        \* _destroyed
  storeState,       \* closed / rootDir of the store, and how it got there
  wipeLeft,         \* entries the running store.destroy() has still to remove
  chunk,            \* content of each chunk file
  bitfield,         \* pieces marked as verified
  credited,         \* how often each piece's length was added to _downloaded
  scan,             \* the runs of _verifyExistingPieces
  call              \* the calls of receivePiece

torrentVars == <<known, metadataReceived, ready, destroyed, storeState,
                 wipeLeft, chunk, bitfield, credited, scan, call>>
session == <<known, metadataReceived, ready, destroyed>>
disk    == <<storeState, wipeLeft>>

Pieces   == 0..NumPieces - 1
Scanners == {"init", "metadata"} \cup Rescans

PieceLen(i) == IF i = NumPieces - 1 THEN LastLength ELSE PieceLength
Length == (NumPieces - 1) * PieceLength + LastLength

\* _downloaded, kept as the multiset of the additions made to it.
Downloaded == FoldFunction(+, 0, [i \in Pieces |-> credited[i] * PieceLen(i)])

\* The getter `done`: progress >= 1, with progress 0 while length is 0.
Done == known /\ Downloaded >= Length

NoCredit == [i \in Pieces |-> 0]
Credit(c, i) == [c EXCEPT ![i] = @ + 1]

Calls == [phase : {"idle", "hash", "put", "commit", "returned"},
          piece : Pieces, good : BOOLEAN]
NoCall == [phase |-> "idle", piece |-> 0, good |-> FALSE]
Active(s) == scan[s].phase \in {"get", "hash"}

\* The constructor's microtask has run _init.  It was queued before any other
\* promise of the session, so no await resumes earlier.
Started == ready \/ scan["init"].phase # "idle"
-----------------------------------------------------------------------------
TypeOK ==
  /\ known \in BOOLEAN
  /\ metadataReceived \in BOOLEAN
  /\ ready \in BOOLEAN
  /\ destroyed \in BOOLEAN
  /\ storeState \in {"open", "wiping", "closed", "wiped"}
  /\ wipeLeft \in SUBSET Pieces
  /\ chunk \in [Pieces -> {"none", "bad", "good"}]
  /\ bitfield \in SUBSET Pieces
  /\ credited \in [Pieces -> Nat]
  /\ scan \in [Scanners -> [phase : {"idle", "get", "hash", "done"},
                            at : 0..NumPieces]]
  /\ call \in [Receivers -> Calls]

(***************************************************************************)
(* The constructor: a .torrent file names the pieces, a magnet does not.   *)
(* The store may hold chunks of an earlier session, sound or damaged.      *)
(***************************************************************************)
Init ==
  /\ known \in BOOLEAN
  /\ metadataReceived = FALSE
  /\ ready = FALSE
  /\ destroyed = FALSE
  /\ storeState = "open"
  /\ wipeLeft = {}
  /\ chunk \in [Pieces -> {"none", "bad", "good"}]
  /\ bitfield = {}
  /\ credited = NoCredit
  /\ scan = [s \in Scanners |-> [phase |-> "idle", at |-> 0]]
  /\ call = [r \in Receivers |-> NoCall]
-----------------------------------------------------------------------------
(***************************************************************************)
(* _verifyExistingPieces.  Begin runs up to the first store.get; the loop  *)
(* index stands at the piece being read.  A store that is closed when get  *)
(* is called makes it throw, for this piece and for all that follow.       *)
(***************************************************************************)
ScanEnds(i) == i = NumPieces \/ storeState \in {"closed", "wiped"}

ScanAt(s, i) ==
  scan' = [scan EXCEPT ![s] = IF ScanEnds(i) THEN [phase |-> "done", at |-> NumPieces]
                                             ELSE [phase |-> "get", at |-> i]]

\* What runs when the promise of the scan resolves: _init and setMetadata set
\* _ready, rescanFiles only tells its caller.
AfterScan(s, i) ==
  ready' = (ready \/ (s \notin Rescans /\ ScanEnds(i)))

\* Mutant: the scan forgets to clear the old bitfield.
BeginScanKeepsBits(s) ==
  /\ UNCHANGED bitfield
  /\ credited' = NoCredit
  /\ ScanAt(s, 0)
  /\ AfterScan(s, 0)

BeginScan(s) ==
  /\ bitfield' = {}
  /\ credited' = NoCredit
  /\ ScanAt(s, 0)
  /\ AfterScan(s, 0)

\* Mutant: any chunk that can be read passes for verified.
ScanReadUnverified(s) ==
  /\ Started
  /\ scan[s].phase = "get"
  /\ IF chunk[scan[s].at] # "none"
     THEN scan' = [scan EXCEPT ![s].phase = "hash"] /\ UNCHANGED ready
     ELSE ScanAt(s, scan[s].at + 1) /\ AfterScan(s, scan[s].at + 1)
  /\ UNCHANGED <<known, metadataReceived, destroyed, disk, chunk, bitfield, credited, call>>

\* Mutant: the first unreadable chunk ends the loop.
ScanReadBreaks(s) ==
  /\ Started
  /\ scan[s].phase = "get"
  /\ IF chunk[scan[s].at] = "good"
     THEN scan' = [scan EXCEPT ![s].phase = "hash"] /\ UNCHANGED ready
     ELSE ScanAt(s, NumPieces) /\ AfterScan(s, NumPieces)
  /\ UNCHANGED <<known, metadataReceived, destroyed, disk, chunk, bitfield, credited, call>>

\* store.get and the hash check: a missing, truncated or damaged chunk throws,
\* the catch swallows it and the loop goes on.
ScanRead(s) ==
  /\ Started
  /\ scan[s].phase = "get"
  /\ \/ /\ chunk[scan[s].at] = "good"
        /\ scan' = [scan EXCEPT ![s].phase = "hash"]
        /\ UNCHANGED ready
     \/ /\ chunk[scan[s].at] # "good"
        /\ ScanAt(s, scan[s].at + 1)
        /\ AfterScan(s, scan[s].at + 1)
  /\ UNCHANGED <<known, metadataReceived, destroyed, disk, chunk, bitfield, credited, call>>

\* Mutant: the mark lands one piece too far.
ScanMarkNext(s) ==
  /\ scan[s].phase = "hash"
  /\ bitfield' = bitfield \cup {scan[s].at + 1}
  /\ credited' = Credit(credited, scan[s].at)
  /\ ScanAt(s, scan[s].at + 1)
  /\ AfterScan(s, scan[s].at + 1)
  /\ UNCHANGED <<known, metadataReceived, destroyed, disk, chunk, call>>

ScanMark(s) ==
  /\ scan[s].phase = "hash"
  /\ bitfield' = bitfield \cup {scan[s].at}
  /\ credited' = Credit(credited, scan[s].at)
  /\ ScanAt(s, scan[s].at + 1)
  /\ AfterScan(s, scan[s].at + 1)
  /\ UNCHANGED <<known, metadataReceived, destroyed, disk, chunk, call>>

\* The microtask of the constructor: verify unless skipVerify or no pieces.
InitSession(skipVerify) ==
  /\ ~Started
  /\ \/ /\ ~skipVerify /\ known
        /\ BeginScan("init")
     \/ /\ skipVerify \/ ~known
        /\ ready' = TRUE
        /\ UNCHANGED <<bitfield, credited, scan>>
  /\ UNCHANGED <<known, metadataReceived, destroyed, disk, chunk, call>>

\* setMetadata: the first info dictionary accepted replaces the piece list.
SetMetadata ==
  /\ ~metadataReceived
  /\ Started
  /\ known' = TRUE
  /\ metadataReceived' = TRUE
  /\ BeginScan("metadata")
  /\ UNCHANGED <<destroyed, disk, chunk, call>>

\* rescanFiles; before the metadata the loop has no piece to visit.
Rescan(s) ==
  /\ ~Active(s)
  /\ \/ /\ known
        /\ BeginScan(s)
     \/ /\ ~known
        /\ bitfield' = {}
        /\ credited' = NoCredit
        /\ scan' = [scan EXCEPT ![s] = [phase |-> "done", at |-> NumPieces]]
        /\ UNCHANGED ready
  /\ UNCHANGED <<known, metadataReceived, destroyed, disk, chunk, call>>
-----------------------------------------------------------------------------
(***************************************************************************)
(* receivePiece(index, buf).  "good" says whether buf has the piece's hash *)
(* and, once the call has returned, what it returned.                      *)
(***************************************************************************)
Return(r, i, result) ==
  call' = [call EXCEPT ![r] = [phase |-> "returned", piece |-> i, good |-> result]]

ReceiveStart(r, i, good) ==
  /\ call[r].phase = "idle"
  /\ \/ /\ destroyed
        /\ Return(r, i, FALSE)
     \/ /\ ~destroyed
        /\ i \in bitfield
        /\ Return(r, i, TRUE)
     \/ /\ ~destroyed
        /\ i \notin bitfield
        /\ known
        /\ call' = [call EXCEPT ![r] = [phase |-> "hash", piece |-> i, good |-> good]]
     \/ /\ ~destroyed
        /\ ~known
        /\ Return(r, i, FALSE)
  /\ UNCHANGED <<session, disk, chunk, bitfield, credited, scan>>

\* The hash is known; a good piece goes on to store.put, which refuses at once
\* when the store is closed.
ReceiveHashed(r) ==
  /\ Started
  /\ call[r].phase = "hash"
  /\ \/ /\ call[r].good /\ storeState \in {"open", "wiping"}
        /\ call' = [call EXCEPT ![r].phase = "put"]
     \/ /\ ~(call[r].good /\ storeState \in {"open", "wiping"})
        /\ Return(r, call[r].piece, FALSE)
  /\ UNCHANGED <<session, disk, chunk, bitfield, credited, scan>>

\* writable.close() makes the bytes visible in one step.
PutLands(r) ==
  /\ call[r].phase = "put"
  /\ chunk' = [chunk EXCEPT ![call[r].piece] = "good"]
  /\ call' = [call EXCEPT ![r].phase = "commit"]
  /\ UNCHANGED <<session, disk, bitfield, credited, scan>>

\* Mutant: the error of a failed write is swallowed.
PutFailsSilently(r) ==
  /\ call[r].phase = "put"
  /\ UNCHANGED chunk
  /\ Return(r, call[r].piece, TRUE)
  /\ UNCHANGED <<session, disk, bitfield, credited, scan>>

\* The write fails (quota, entry removed); getFileHandle may have left an
\* empty file behind.
PutFails(r) ==
  /\ call[r].phase = "put"
  /\ \/ chunk' = [chunk EXCEPT ![call[r].piece] = IF @ = "none" THEN "bad" ELSE @]
     \/ UNCHANGED chunk
  /\ Return(r, call[r].piece, FALSE)
  /\ UNCHANGED <<session, disk, bitfield, credited, scan>>

ReceiveCommit(r) ==
  /\ call[r].phase = "commit"
  /\ bitfield' = bitfield \cup {call[r].piece}
  /\ credited' = Credit(credited, call[r].piece)
  /\ Return(r, call[r].piece, TRUE)
  /\ UNCHANGED <<session, disk, chunk, scan>>

\* The caller takes the result and is free to deliver the next piece.
ReceiveResume(r) ==
  /\ Started
  /\ call[r].phase = "returned"
  /\ call' = [call EXCEPT ![r] = NoCall]
  /\ UNCHANGED <<session, disk, chunk, bitfield, credited, scan>>
-----------------------------------------------------------------------------
(***************************************************************************)
(* destroy(destroyStore): close() shuts the store at once, destroy()       *)
(* removes the entries one by one and shuts it only at the end.            *)
(***************************************************************************)
Destroy(destroyStore) ==
  /\ ~destroyed
  /\ destroyed' = TRUE
  /\ \/ /\ destroyStore
        /\ storeState' = "wiping"
        /\ wipeLeft' = {i \in Pieces : chunk[i] # "none"}
     \/ /\ ~destroyStore
        /\ storeState' = "closed"
        /\ UNCHANGED wipeLeft
  /\ UNCHANGED <<known, metadataReceived, ready, chunk, bitfield, credited, scan, call>>

WipeEntry(i) ==
  /\ Started
  /\ i \in wipeLeft
  /\ chunk' = [chunk EXCEPT ![i] = "none"]
  /\ wipeLeft' = wipeLeft \ {i}
  /\ UNCHANGED <<session, storeState, bitfield, credited, scan, call>>

\* After the last entry, or at one that could not be removed: the rest stays then.
WipeEnds ==
  /\ Started
  /\ storeState = "wiping"
  /\ storeState' = "wiped"
  /\ wipeLeft' = {}
  /\ UNCHANGED <<session, chunk, bitfield, credited, scan, call>>
-----------------------------------------------------------------------------
ScanStep(s) == ScanRead(s) \/ ScanMark(s)

ReceiveStep(r) ==
  ReceiveHashed(r) \/ PutLands(r) \/ PutFails(r) \/ ReceiveCommit(r)

Next ==
  \/ \E skip \in BOOLEAN : InitSession(skip)
  \/ SetMetadata
  \/ \E s \in Rescans : Rescan(s)
  \/ \E s \in Scanners : ScanStep(s)
  \/ \E r \in Receivers, i \in Pieces, good \in BOOLEAN : ReceiveStart(r, i, good)
  \/ \E r \in Receivers : ReceiveStep(r) \/ ReceiveResume(r)
  \/ \E destroyStore \in BOOLEAN : Destroy(destroyStore)
  \/ \E i \in Pieces : WipeEntry(i)
  \/ WipeEnds

Spec == Init /\ [][Next]_torrentVars
-----------------------------------------------------------------------------
(***************************************************************************)
(* Properties                                                              *)
(***************************************************************************)

\* A piece marked as verified can be served: its chunk is in the store, and
\* sound, whatever scans and downloads ran in between.  getPiece serves from
\* the bitfield alone (torrent.ts, getPiece).
VerifiedIsStored ==
  storeState \in {"open", "closed"} => \A i \in bitfield : chunk[i] = "good"

\* Every marked piece has been added to _downloaded since the last reset, so a
\* torrent whose last piece is marked reports `done`: completion is never missed.
EveryVerifiedPieceCounted == \A i \in bitfield : credited[i] >= 1

\* Once a scan has run and nothing is in flight, the bitfield is exactly the
\* set of sound chunks: overlapping scans, resets and downloads lose nothing.
Quiet ==
  /\ known /\ storeState = "open"
  /\ \E s \in Scanners : scan[s].phase = "done"
  /\ \A s \in Scanners : ~Active(s)
  /\ \A r \in Receivers : call[r].phase # "commit"
ScanSettles == Quiet => bitfield = {i \in Pieces : chunk[i] = "good"}

\* What receivePiece promised by returning true still holds when no scan is
\* re-reading the store: the piece is marked.
AcceptedIsKept ==
  \A r \in Receivers :
    (/\ call[r].phase = "returned" /\ call[r].good
     /\ storeState = "open" /\ \A s \in Scanners : ~Active(s))
      => call[r].piece \in bitfield

\* mod.ts, AddTorrentOptions.onDone: the `done` event means that all pieces
\* were downloaded and verified.  The code adds a piece twice when two callers,
\* or a caller and a scan, both finish it.
DoneMeansComplete == Done => bitfield = Pieces
=============================================================================

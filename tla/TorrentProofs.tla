--------------------------- MODULE TorrentProofs ---------------------------
(***************************************************************************)
(* Proofs about Torrent, for any number of pieces, callers and rescans,    *)
(* and about Stream, which serves a torrent's files to a page, for any     *)
(* requests, pages, ranges and block size. What TLC checks on small        *)
(* instances follows from the inductive invariants IInv of Torrent and     *)
(* StreamInv of Stream, whose parts are named below.                       *)
(***************************************************************************)
EXTENDS Torrent, Stream, FiniteSetTheorems, SequenceTheorems, TLAPS

\* A running scan stands at a piece and knows the piece list.
ScanInRange ==
  \A s \in Scanners : Active(s) => scan[s].at \in Pieces /\ known

\* While the session lives its store is open; entries are removed only by wiping.
StoreLife ==
  /\ ~destroyed => storeState = "open"
  /\ storeState # "wiping" => wipeLeft = {}

\* Before the metadata nothing is marked and no call is past its first checks.
Unknown ==
  ~known => /\ bitfield = {}
            /\ \A r \in Receivers : /\ call[r].phase \in {"idle", "returned"}
                                    /\ ~call[r].good

\* Everything that claims a piece to be sound has it sound in the store.
Sound ==
  storeState \in {"open", "closed"} =>
    /\ \A i \in bitfield : chunk[i] = "good"
    /\ \A s \in Scanners : scan[s].phase = "hash" => chunk[scan[s].at] = "good"
    /\ \A r \in Receivers : call[r].phase = "commit" => chunk[call[r].piece] = "good"
    /\ \A r \in Receivers : call[r].phase = "returned" /\ call[r].good
                              => chunk[call[r].piece] = "good"

WillVisit(s, i) == Active(s) /\ scan[s].at <= i
Committing(r, i) == call[r].phase = "commit" /\ call[r].piece = i

\* After the first scan began, a sound chunk is marked, or someone will mark it.
Covered ==
  (known /\ storeState = "open" /\ \E s \in Scanners : scan[s].phase # "idle") =>
    \A i \in Pieces : chunk[i] = "good" =>
      \/ i \in bitfield
      \/ \E s \in Scanners : WillVisit(s, i)
      \/ \E r \in Receivers : Committing(r, i)

\* An accepted piece is marked, or a running scan has still to reach it.
Kept ==
  storeState = "open" =>
    \A r \in Receivers : call[r].phase = "returned" /\ call[r].good =>
      \/ call[r].piece \in bitfield
      \/ \E s \in Scanners : WillVisit(s, call[r].piece)

TypeInv == TypeOK /\ ScanInRange /\ StoreLife /\ Unknown
IInv == TypeInv /\ Sound /\ EveryVerifiedPieceCounted /\ Covered /\ Kept
-----------------------------------------------------------------------------
LEMMA PiecesFacts ==
  /\ 0 \in Pieces
  /\ Pieces \subseteq 0..NumPieces
  /\ \A i \in Pieces : i + 1 \in 0..NumPieces
  /\ \A i \in 0..NumPieces : i # NumPieces => i \in Pieces
BY TorrentAssumption, SMT DEF Pieces

LEMMA InitIsScanner == "init" \in Scanners /\ "metadata" \in Scanners /\ Rescans \subseteq Scanners
BY DEF Scanners

\* What moving a scan to index i does to the scans.
LEMMA ScanAtLemma ==
  ASSUME TypeOK, NEW s \in Scanners, NEW i \in 0..NumPieces, ScanAt(s, i)
  PROVE  /\ scan' \in [Scanners -> [phase : {"idle", "get", "hash", "done"}, at : 0..NumPieces]]
         /\ \A t \in Scanners : t # s => scan'[t] = scan[t]
         /\ scan'[s].phase \in {"get", "done"}
         /\ scan'[s].phase = "get" => i \in Pieces /\ scan'[s].at = i
         /\ scan'[s].phase = "done" => ScanEnds(i)
<1>1. NumPieces \in 0..NumPieces
  BY TorrentAssumption, SMT
<1>2. CASE ScanEnds(i)
  BY <1>1, <1>2 DEF TypeOK, ScanAt
<1>3. CASE ~ScanEnds(i)
  <2>1. i \in Pieces
    BY <1>3, PiecesFacts DEF ScanEnds
  <2> QED BY <1>3, <2>1 DEF TypeOK, ScanAt
<1> QED BY <1>2, <1>3
-----------------------------------------------------------------------------
\* Resetting the bitfield and starting scan s at the first piece.
LEMMA BeginScanLemma ==
  ASSUME IInv, NEW s \in Scanners, BeginScan(s), known',
         UNCHANGED <<destroyed, disk, chunk, call>>, metadataReceived' \in BOOLEAN
  PROVE  IInv'
<1> USE DEF IInv, TypeInv
<1> DEFINE ph == {"idle", "get", "hash", "done"}
<1>1. /\ scan' \in [Scanners -> [phase : ph, at : 0..NumPieces]]
      /\ \A t \in Scanners : t # s => scan'[t] = scan[t]
      /\ scan'[s].phase \in {"get", "done"}
      /\ scan'[s].phase = "get" => 0 \in Pieces /\ scan'[s].at = 0
      /\ scan'[s].phase = "done" => ScanEnds(0)
  <2>1. 0 \in 0..NumPieces
    BY PiecesFacts
  <2> QED BY ONLY <2>1, IInv, BeginScan(s), ScanAtLemma DEF BeginScan, IInv, TypeInv
<1>2. TypeOK'
  BY <1>1, TorrentAssumption DEF TypeOK, BeginScan, AfterScan, NoCredit, disk
<1>3. ScanInRange'
  BY <1>1 DEF ScanInRange, Active
<1>4. StoreLife' /\ Unknown'
  BY DEF StoreLife, Unknown, disk
<1>5. Sound'
  BY <1>1 DEF Sound, BeginScan, disk
<1>6. EveryVerifiedPieceCounted'
  BY DEF EveryVerifiedPieceCounted, BeginScan
<1>7. storeState = "open" => \A i \in Pieces : WillVisit(s, i)'
  <2> SUFFICES ASSUME storeState = "open", NEW i \in Pieces PROVE WillVisit(s, i)'
    OBVIOUS
  <2>1. scan'[s].phase = "get" /\ scan'[s].at = 0
    BY <1>1, TorrentAssumption DEF ScanEnds
  <2> QED BY <2>1, TorrentAssumption DEF WillVisit, Active, Pieces
<1>8. Covered'
  BY <1>7 DEF Covered, disk
<1>9. Kept'
  BY <1>7 DEF Kept, disk, TypeOK, Calls
<1> QED BY <1>2, <1>3, <1>4, <1>5, <1>6, <1>8, <1>9
-----------------------------------------------------------------------------
LEMMA InitIInv == Init => IInv
<1> SUFFICES ASSUME Init PROVE IInv
  OBVIOUS
<1>1. TypeOK
  BY TorrentAssumption, PiecesFacts DEF Init, TypeOK, NoCredit, NoCall, Calls
<1>2. ScanInRange /\ StoreLife /\ Unknown
  BY DEF Init, ScanInRange, Active, StoreLife, Unknown, NoCall
<1>3. Sound /\ EveryVerifiedPieceCounted /\ Covered /\ Kept
  BY DEF Init, Sound, EveryVerifiedPieceCounted, Covered, Kept, NoCall
<1> QED BY <1>1, <1>2, <1>3 DEF IInv, TypeInv

LEMMA InitSessionIInv ==
  ASSUME IInv, NEW skip \in BOOLEAN, InitSession(skip) PROVE IInv'
<1>1. CASE ~skip /\ known /\ BeginScan("init")
  BY <1>1, BeginScanLemma, InitIsScanner DEF InitSession, IInv, TypeInv, TypeOK
<1>2. CASE ready' = TRUE /\ UNCHANGED <<bitfield, credited, scan>>
  BY <1>2 DEF InitSession, disk, IInv, TypeInv, TypeOK, ScanInRange, Active, StoreLife,
              Unknown, Sound, EveryVerifiedPieceCounted, Covered, Kept, WillVisit, Committing
<1> QED BY <1>1, <1>2 DEF InitSession

LEMMA SetMetadataIInv == ASSUME IInv, SetMetadata PROVE IInv'
BY BeginScanLemma, InitIsScanner DEF SetMetadata

LEMMA RescanIInv == ASSUME IInv, NEW s \in Rescans, Rescan(s) PROVE IInv'
<1>0. s \in Scanners
  BY InitIsScanner
<1>1. CASE known /\ BeginScan(s)
  BY <1>0, <1>1, BeginScanLemma DEF Rescan, IInv, TypeInv, TypeOK
<1>2. CASE ~known
  <2> USE DEF IInv, TypeInv
  <2>1. /\ bitfield' = {} /\ credited' = NoCredit
        /\ scan' = [scan EXCEPT ![s] = [phase |-> "done", at |-> NumPieces]]
        /\ UNCHANGED <<known, metadataReceived, ready, destroyed, disk, chunk, call>>
    BY <1>2 DEF Rescan
  <2>2. TypeOK'
    BY <1>0, <2>1, TorrentAssumption DEF TypeOK, NoCredit, disk
  <2>3. scan'[s].phase = "done" /\ \A t \in Scanners : t # s => scan'[t] = scan[t]
    BY <1>0, <2>1 DEF TypeOK
  <2>4. ScanInRange' /\ StoreLife' /\ Unknown' /\ Sound'
    BY <2>1, <2>3 DEF ScanInRange, Active, StoreLife, Unknown, Sound, disk
  <2>5. EveryVerifiedPieceCounted' /\ Covered' /\ Kept'
    BY <1>2, <2>1 DEF EveryVerifiedPieceCounted, Covered, Kept, Unknown, disk
  <2> QED BY <2>2, <2>4, <2>5
<1> QED BY <1>1, <1>2 DEF Rescan
-----------------------------------------------------------------------------
\* Moving scan s from the piece it stands at to the next one, when that piece
\* is unsound or has just been marked, keeps every sound piece covered.
LEMMA ScanStepIInv ==
  ASSUME IInv, NEW s \in Scanners, Active(s),
         ScanAt(s, scan[s].at + 1), AfterScan(s, scan[s].at + 1),
         UNCHANGED <<known, metadataReceived, destroyed, disk, chunk, call>>,
         \/ chunk[scan[s].at] # "good" /\ UNCHANGED <<bitfield, credited>>
         \/ /\ scan[s].phase = "hash"
            /\ bitfield' = bitfield \cup {scan[s].at}
            /\ credited' = Credit(credited, scan[s].at)
  PROVE  IInv'
<1> USE DEF IInv, TypeInv
<1> DEFINE at == scan[s].at
<1> HIDE DEF at
<1>0. at \in Pieces /\ at \in Nat /\ at + 1 \in 0..NumPieces /\ known
  BY PiecesFacts, TorrentAssumption DEF ScanInRange, Pieces, at
<1>1. /\ scan' \in [Scanners -> [phase : {"idle", "get", "hash", "done"}, at : 0..NumPieces]]
      /\ \A t \in Scanners : t # s => scan'[t] = scan[t]
      /\ scan'[s].phase \in {"get", "done"}
      /\ scan'[s].phase = "get" => at + 1 \in Pieces /\ scan'[s].at = at + 1
      /\ scan'[s].phase = "done" => ScanEnds(at + 1)
  <2>1. ScanAt(s, at + 1)
    BY DEF at
  <2> QED BY ONLY <1>0, <2>1, IInv, ScanAtLemma DEF IInv, TypeInv
<1> USE DEF at
<1>2. TypeOK'
  BY <1>0, <1>1 DEF TypeOK, AfterScan, Credit, disk
<1>3. ScanInRange'
  BY <1>0, <1>1 DEF ScanInRange, Active
<1>4. StoreLife' /\ Unknown'
  BY <1>0 DEF StoreLife, Unknown, disk
<1>5. Sound'
  BY <1>1 DEF Sound, disk
<1>6. EveryVerifiedPieceCounted'
  BY <1>0 DEF EveryVerifiedPieceCounted, TypeOK, Credit
<1>7. ASSUME storeState = "open", NEW i \in Pieces, chunk[i] = "good", NEW t \in Scanners,
             WillVisit(t, i)
      PROVE  i \in bitfield' \/ WillVisit(t, i)'
  <2>1. CASE t # s
    BY <1>1, <1>7, <2>1 DEF WillVisit, Active
  <2>2. CASE t = s /\ at = i
    BY <1>7, <2>2
  <2>3. CASE t = s /\ at # i
    <3>1. at + 1 <= i /\ i # NumPieces /\ i \in 0..NumPieces
      BY <1>0, <1>7, <2>3, TorrentAssumption DEF WillVisit, Pieces
    <3>2. at + 1 # NumPieces
      BY <1>0, <3>1, TorrentAssumption
    <3>3. scan'[s].phase = "get"
      BY <1>1, <1>7, <3>2 DEF ScanEnds
    <3> QED BY <1>1, <2>3, <3>1, <3>3 DEF WillVisit, Active
  <2> QED BY <2>1, <2>2, <2>3
<1>8. bitfield \subseteq bitfield' /\ storeState' = storeState /\ chunk' = chunk /\ call' = call
  BY DEF disk
<1>9. Covered'
  <2> SUFFICES ASSUME storeState = "open", NEW i \in Pieces, chunk[i] = "good"
               PROVE  \/ i \in bitfield'
                      \/ \E t \in Scanners : WillVisit(t, i)'
                      \/ \E r \in Receivers : Committing(r, i)'
    BY <1>8 DEF Covered
  <2>1. \/ i \in bitfield
        \/ \E t \in Scanners : WillVisit(t, i)
        \/ \E r \in Receivers : Committing(r, i)
    BY <1>0 DEF Covered, Active
  <2> QED BY <1>7, <1>8, <2>1 DEF Committing
<1>10. Kept'
  <2> SUFFICES ASSUME storeState = "open", NEW r \in Receivers,
                      call[r].phase = "returned", call[r].good
               PROVE  \/ call[r].piece \in bitfield'
                      \/ \E t \in Scanners : WillVisit(t, call[r].piece)'
    BY <1>8 DEF Kept, WillVisit, Active
  <2>1. call[r].piece \in Pieces /\ chunk[call[r].piece] = "good"
    BY DEF TypeOK, Calls, Sound
  <2>2. \/ call[r].piece \in bitfield
        \/ \E t \in Scanners : WillVisit(t, call[r].piece)
    BY DEF Kept
  <2> QED BY <1>7, <1>8, <2>1, <2>2
<1> QED BY <1>2, <1>3, <1>4, <1>5, <1>6, <1>9, <1>10

LEMMA ScanReadIInv == ASSUME IInv, NEW s \in Scanners, ScanRead(s) PROVE IInv'
<1>1. CASE chunk[scan[s].at] # "good"
  BY <1>1, ScanStepIInv DEF ScanRead, Active
<1>2. CASE chunk[scan[s].at] = "good"
  <2> USE DEF IInv, TypeInv
  <2>1. /\ scan[s].phase = "get"
        /\ scan' = [scan EXCEPT ![s].phase = "hash"]
        /\ UNCHANGED <<known, metadataReceived, ready, destroyed, storeState, wipeLeft,
                       chunk, bitfield, credited, call>>
    BY <1>2 DEF ScanRead, disk
  <2>2. /\ scan'[s].phase = "hash" /\ scan'[s].at = scan[s].at
        /\ \A t \in Scanners : t # s => scan'[t] = scan[t]
    BY <2>1 DEF TypeOK
  <2>3. TypeOK'
    BY <2>1 DEF TypeOK
  <2>4. ScanInRange' /\ StoreLife' /\ Unknown'
    BY <2>1, <2>2 DEF ScanInRange, Active, StoreLife, Unknown
  <2>5. Sound' /\ EveryVerifiedPieceCounted'
    BY <1>2, <2>1, <2>2 DEF Sound, EveryVerifiedPieceCounted
  <2>6. \A t \in Scanners, i \in Pieces : WillVisit(t, i) => WillVisit(t, i)'
    BY <2>1, <2>2 DEF WillVisit, Active
  <2>7. Covered'
    BY <2>1, <2>2, <2>6 DEF Covered, Committing
  <2>8. Kept'
    BY <2>1, <2>6 DEF Kept, TypeOK, Calls
  <2> QED BY <2>3, <2>4, <2>5, <2>7, <2>8
<1> QED BY <1>1, <1>2

LEMMA ScanMarkIInv == ASSUME IInv, NEW s \in Scanners, ScanMark(s) PROVE IInv'
BY ScanStepIInv DEF ScanMark, Active
-----------------------------------------------------------------------------
\* The steps of one receivePiece change only that call: nothing else can be
\* disturbed as long as a new claim is backed by a sound chunk.
CallMove(r, c) ==
  /\ c \in Calls
  /\ call' = [call EXCEPT ![r] = c]
  /\ call[r].phase # "commit" /\ c.phase # "commit"
  /\ c.phase = "returned" /\ c.good => c.piece \in bitfield
  /\ ~known => c.phase \in {"idle", "returned"} /\ ~c.good
  /\ UNCHANGED <<session, disk, chunk, bitfield, credited, scan>>

LEMMA CallMoveIInv ==
  ASSUME IInv, NEW r \in Receivers, NEW c, CallMove(r, c) PROVE IInv'
<1> USE DEF IInv, TypeInv, CallMove
<1>1. call'[r] = c /\ \A q \in Receivers : q # r => call'[q] = call[q]
  BY DEF TypeOK
<1>2. TypeOK'
  BY DEF TypeOK, session, disk
<1>3. ScanInRange' /\ StoreLife' /\ EveryVerifiedPieceCounted'
  BY DEF ScanInRange, Active, StoreLife, EveryVerifiedPieceCounted, session, disk
<1>4. Unknown' /\ Sound'
  BY <1>1 DEF Unknown, Sound, session, disk
<1>5. Covered'
  BY <1>1 DEF Covered, WillVisit, Active, Committing, session, disk
<1>6. Kept'
  BY <1>1 DEF Kept, WillVisit, Active, session, disk
<1> QED BY <1>2, <1>3, <1>4, <1>5, <1>6

LEMMA ReceiveStartIInv ==
  ASSUME IInv, NEW r \in Receivers, NEW i \in Pieces, NEW good \in BOOLEAN,
         ReceiveStart(r, i, good)
  PROVE  IInv'
<1> DEFINE Ret(b) == [phase |-> "returned", piece |-> i, good |-> b]
           started == [phase |-> "hash", piece |-> i, good |-> good]
<1>1. CASE call' = [call EXCEPT ![r] = Ret(FALSE)]
  <2>1. CallMove(r, Ret(FALSE))
    BY <1>1 DEF CallMove, Calls, ReceiveStart
  <2> QED BY <2>1, CallMoveIInv
<1>2. CASE i \in bitfield /\ call' = [call EXCEPT ![r] = Ret(TRUE)]
  <2>1. CallMove(r, Ret(TRUE))
    BY <1>2 DEF CallMove, Calls, ReceiveStart, IInv, TypeInv, Unknown
  <2> QED BY <2>1, CallMoveIInv
<1>3. CASE known /\ call' = [call EXCEPT ![r] = started]
  <2>1. CallMove(r, started)
    BY <1>3 DEF CallMove, Calls, ReceiveStart
  <2> QED BY <2>1, CallMoveIInv
<1> QED BY <1>1, <1>2, <1>3 DEF ReceiveStart, Return

LEMMA ReceiveHashedIInv == ASSUME IInv, NEW r \in Receivers, ReceiveHashed(r) PROVE IInv'
<1> DEFINE refused == [phase |-> "returned", piece |-> call[r].piece, good |-> FALSE]
           putting == [call[r] EXCEPT !.phase = "put"]
<1>1. call[r].phase = "hash" /\ known /\ call[r] \in Calls
  BY DEF ReceiveHashed, IInv, TypeInv, TypeOK, Unknown
<1>2. CASE call' = [call EXCEPT ![r] = refused]
  <2>1. CallMove(r, refused)
    BY <1>1, <1>2 DEF CallMove, Calls, ReceiveHashed
  <2> QED BY <2>1, CallMoveIInv
<1>3. CASE call' = [call EXCEPT ![r] = putting]
  <2>1. putting \in Calls /\ putting.phase = "put"
    BY <1>1 DEF Calls
  <2>2. CallMove(r, putting)
    BY <1>1, <1>3, <2>1 DEF CallMove, ReceiveHashed
  <2> QED BY <2>2, CallMoveIInv
<1> QED BY <1>2, <1>3 DEF ReceiveHashed, Return

LEMMA ReceiveResumeIInv == ASSUME IInv, NEW r \in Receivers, ReceiveResume(r) PROVE IInv'
<1>1. NoCall \in Calls /\ NoCall.phase = "idle" /\ ~NoCall.good
  BY PiecesFacts DEF NoCall, Calls
<1>2. CallMove(r, NoCall)
  BY <1>1 DEF CallMove, ReceiveResume
<1> QED BY <1>2, CallMoveIInv
-----------------------------------------------------------------------------
LEMMA PutLandsIInv == ASSUME IInv, NEW r \in Receivers, PutLands(r) PROVE IInv'
<1> USE DEF IInv, TypeInv
<1> DEFINE p == call[r].piece
           c == [call[r] EXCEPT !.phase = "commit"]
<1>1. /\ call[r].phase = "put" /\ known /\ p \in Pieces
      /\ chunk' = [chunk EXCEPT ![p] = "good"]
      /\ call' = [call EXCEPT ![r] = c]
      /\ UNCHANGED <<known, metadataReceived, ready, destroyed, storeState, wipeLeft,
                     bitfield, credited, scan>>
  BY DEF PutLands, session, disk, Unknown, TypeOK, Calls
<1>2. c \in Calls /\ c.phase = "commit" /\ c.piece = p
  BY DEF TypeOK, Calls
<1> HIDE DEF c
<1>3. call'[r] = c /\ \A q \in Receivers : q # r => call'[q] = call[q]
  BY <1>1 DEF TypeOK
<1>4. chunk'[p] = "good" /\ \A i \in Pieces : i # p => chunk'[i] = chunk[i]
  BY <1>1 DEF TypeOK
<1> HIDE DEF p
<1>5. TypeOK'
  BY <1>1, <1>2 DEF TypeOK
<1>6. ScanInRange' /\ StoreLife' /\ Unknown' /\ EveryVerifiedPieceCounted'
  BY <1>1 DEF ScanInRange, Active, StoreLife, Unknown, EveryVerifiedPieceCounted
<1>7. \A i \in Pieces : chunk[i] = "good" => chunk'[i] = "good"
  BY <1>4
<1>8. Sound'
  <2> SUFFICES ASSUME storeState \in {"open", "closed"} PROVE Sound'
    BY <1>1 DEF Sound
  <2>1. \A i \in bitfield : chunk'[i] = "good"
    BY <1>7 DEF Sound, TypeOK
  <2>2. \A s \in Scanners : scan[s].phase = "hash" => chunk'[scan[s].at] = "good"
    BY <1>7 DEF Sound, ScanInRange, Active
  <2>3. \A q \in Receivers :
          (call'[q].phase = "commit" \/ (call'[q].phase = "returned" /\ call'[q].good))
            => chunk'[call'[q].piece] = "good"
    <3> SUFFICES ASSUME NEW q \in Receivers,
                        \/ call'[q].phase = "commit"
                        \/ call'[q].phase = "returned" /\ call'[q].good
                 PROVE  chunk'[call'[q].piece] = "good"
      OBVIOUS
    <3>1. CASE q = r
      BY <1>2, <1>3, <1>4, <3>1
    <3>2. CASE q # r
      BY <1>3, <1>7, <3>2 DEF Sound, TypeOK, Calls
    <3> QED BY <3>1, <3>2
  <2> QED BY <1>1, <2>1, <2>2, <2>3 DEF Sound
<1>9. Covered'
  BY <1>1, <1>2, <1>3, <1>4 DEF Covered, WillVisit, Active, Committing
<1>10. Kept'
  BY <1>1, <1>2, <1>3 DEF Kept, WillVisit, Active
<1> QED BY <1>5, <1>6, <1>8, <1>9, <1>10

LEMMA PutFailsIInv == ASSUME IInv, NEW r \in Receivers, PutFails(r) PROVE IInv'
<1> USE DEF IInv, TypeInv
<1> DEFINE p == call[r].piece
           c == [phase |-> "returned", piece |-> p, good |-> FALSE]
<1>1. /\ p \in Pieces
      /\ call' = [call EXCEPT ![r] = c]
      /\ call[r].phase = "put"
      /\ UNCHANGED <<known, metadataReceived, ready, destroyed, storeState, wipeLeft,
                     bitfield, credited, scan>>
  BY DEF PutFails, Return, session, disk, TypeOK, Calls
<1>2. /\ chunk' \in [Pieces -> {"none", "bad", "good"}]
      /\ \A i \in Pieces : chunk'[i] = "good" <=> chunk[i] = "good"
  BY <1>1 DEF PutFails, TypeOK
<1>3. c \in Calls /\ c.phase = "returned" /\ ~c.good
  BY <1>1 DEF Calls
<1> HIDE DEF c, p
<1>4. call'[r] = c /\ \A q \in Receivers : q # r => call'[q] = call[q]
  BY <1>1 DEF TypeOK
<1>5. TypeOK'
  BY <1>1, <1>2, <1>3 DEF TypeOK
<1>6. ScanInRange' /\ StoreLife' /\ Unknown' /\ EveryVerifiedPieceCounted'
  BY <1>1, <1>3, <1>4 DEF ScanInRange, Active, StoreLife, Unknown, EveryVerifiedPieceCounted
<1>7. Sound'
  <2> SUFFICES ASSUME storeState \in {"open", "closed"} PROVE Sound'
    BY <1>1 DEF Sound
  <2>1. \A i \in bitfield : chunk'[i] = "good"
    BY <1>2 DEF Sound, TypeOK
  <2>2. \A s \in Scanners : scan[s].phase = "hash" => chunk'[scan[s].at] = "good"
    BY <1>2 DEF Sound, ScanInRange, Active
  <2>3. \A q \in Receivers :
          (call'[q].phase = "commit" \/ (call'[q].phase = "returned" /\ call'[q].good))
            => chunk'[call'[q].piece] = "good"
    BY <1>2, <1>3, <1>4 DEF Sound, TypeOK, Calls
  <2> QED BY <1>1, <2>1, <2>2, <2>3 DEF Sound
<1>8. Covered'
  BY <1>1, <1>2, <1>3, <1>4 DEF Covered, WillVisit, Active, Committing
<1>9. Kept'
  BY <1>1, <1>3, <1>4 DEF Kept, WillVisit, Active
<1> QED BY <1>5, <1>6, <1>7, <1>8, <1>9

LEMMA ReceiveCommitIInv == ASSUME IInv, NEW r \in Receivers, ReceiveCommit(r) PROVE IInv'
<1> USE DEF IInv, TypeInv
<1> DEFINE p == call[r].piece
           c == [phase |-> "returned", piece |-> p, good |-> TRUE]
<1>1. /\ p \in Pieces /\ known /\ call[r].phase = "commit"
      /\ call' = [call EXCEPT ![r] = c]
      /\ bitfield' = bitfield \cup {p}
      /\ credited' = [credited EXCEPT ![p] = @ + 1]
      /\ UNCHANGED <<known, metadataReceived, ready, destroyed, storeState, wipeLeft,
                     chunk, scan>>
  BY DEF ReceiveCommit, Return, Credit, session, disk, Unknown, TypeOK, Calls
<1>2. c \in Calls /\ c.phase = "returned" /\ c.piece = p
  BY <1>1 DEF Calls
<1>3. storeState \in {"open", "closed"} => chunk[p] = "good"
  BY <1>1 DEF Sound
<1>4. \A i : Committing(r, i) => i = p
  BY DEF Committing
<1> HIDE DEF c, p
<1>5. call'[r] = c /\ \A q \in Receivers : q # r => call'[q] = call[q]
  BY <1>1 DEF TypeOK
<1>6. TypeOK'
  BY <1>1, <1>2 DEF TypeOK
<1>7. ScanInRange' /\ StoreLife' /\ Unknown'
  BY <1>1 DEF ScanInRange, Active, StoreLife, Unknown
<1>8. EveryVerifiedPieceCounted'
  BY <1>1 DEF EveryVerifiedPieceCounted, TypeOK
<1>9. Sound'
  BY <1>1, <1>2, <1>3, <1>5 DEF Sound
<1>10. Covered'
  BY <1>1, <1>4, <1>5 DEF Covered, WillVisit, Active, Committing
<1>11. Kept'
  BY <1>1, <1>2, <1>5 DEF Kept, WillVisit, Active
<1> QED BY <1>6, <1>7, <1>8, <1>9, <1>10, <1>11
-----------------------------------------------------------------------------
LEMMA DestroyIInv ==
  ASSUME IInv, NEW destroyStore \in BOOLEAN, Destroy(destroyStore) PROVE IInv'
<1> USE DEF IInv, TypeInv
<1>1. /\ storeState = "open" /\ storeState' \in {"wiping", "closed"} /\ destroyed'
      /\ storeState' # "wiping" => wipeLeft' = {}
      /\ wipeLeft' \in SUBSET Pieces
      /\ UNCHANGED <<known, metadataReceived, ready, chunk, bitfield, credited, scan, call>>
  BY DEF Destroy, StoreLife, TypeOK
<1>2. TypeOK'
  BY <1>1 DEF TypeOK, Destroy
<1>3. ScanInRange' /\ StoreLife' /\ Unknown' /\ EveryVerifiedPieceCounted'
  BY <1>1 DEF ScanInRange, Active, StoreLife, Unknown, EveryVerifiedPieceCounted
<1>4. Sound' /\ Covered' /\ Kept'
  BY <1>1 DEF Sound, Covered, Kept
<1> QED BY <1>2, <1>3, <1>4

LEMMA WipeEntryIInv == ASSUME IInv, NEW i \in Pieces, WipeEntry(i) PROVE IInv'
<1> USE DEF IInv, TypeInv
<1>1. /\ storeState = "wiping" /\ storeState' = storeState
      /\ UNCHANGED <<known, metadataReceived, ready, destroyed, bitfield, credited, scan, call>>
  BY DEF WipeEntry, StoreLife, session, TypeOK
<1>2. TypeOK'
  BY <1>1 DEF TypeOK, WipeEntry
<1>3. ScanInRange' /\ StoreLife' /\ Unknown' /\ EveryVerifiedPieceCounted'
  BY <1>1 DEF ScanInRange, Active, StoreLife, Unknown, EveryVerifiedPieceCounted
<1>4. Sound' /\ Covered' /\ Kept'
  BY <1>1 DEF Sound, Covered, Kept
<1> QED BY <1>2, <1>3, <1>4

LEMMA WipeEndsIInv == ASSUME IInv, WipeEnds PROVE IInv'
<1> USE DEF IInv, TypeInv
<1>1. /\ storeState = "wiping" /\ storeState' = "wiped" /\ wipeLeft' = {}
      /\ UNCHANGED <<known, metadataReceived, ready, destroyed, chunk, bitfield,
                     credited, scan, call>>
  BY DEF WipeEnds, session
<1>2. TypeOK' /\ ScanInRange' /\ StoreLife' /\ Unknown' /\ EveryVerifiedPieceCounted'
  BY <1>1 DEF TypeOK, ScanInRange, Active, StoreLife, Unknown, EveryVerifiedPieceCounted
<1>3. Sound' /\ Covered' /\ Kept'
  BY <1>1 DEF Sound, Covered, Kept
<1> QED BY <1>2, <1>3
-----------------------------------------------------------------------------
LEMMA NextIInv == IInv /\ [Next]_torrentVars => IInv'
<1> SUFFICES ASSUME IInv, [Next]_torrentVars PROVE IInv'
  OBVIOUS
<1>1. ASSUME NEW skip \in BOOLEAN, InitSession(skip) PROVE IInv'
  BY <1>1, InitSessionIInv
<1>2. CASE SetMetadata
  BY <1>2, SetMetadataIInv
<1>3. ASSUME NEW s \in Rescans, Rescan(s) PROVE IInv'
  BY <1>3, RescanIInv
<1>4. ASSUME NEW s \in Scanners, ScanStep(s) PROVE IInv'
  BY <1>4, ScanReadIInv, ScanMarkIInv DEF ScanStep
<1>5. ASSUME NEW r \in Receivers, NEW i \in Pieces, NEW good \in BOOLEAN,
             ReceiveStart(r, i, good)
      PROVE  IInv'
  BY <1>5, ReceiveStartIInv
<1>6. ASSUME NEW r \in Receivers, ReceiveStep(r) \/ ReceiveResume(r) PROVE IInv'
  BY <1>6, ReceiveHashedIInv, PutLandsIInv, PutFailsIInv, ReceiveCommitIInv,
     ReceiveResumeIInv DEF ReceiveStep
<1>7. ASSUME NEW destroyStore \in BOOLEAN, Destroy(destroyStore) PROVE IInv'
  BY <1>7, DestroyIInv
<1>8. ASSUME NEW i \in Pieces, WipeEntry(i) PROVE IInv'
  BY <1>8, WipeEntryIInv
<1>9. CASE WipeEnds
  BY <1>9, WipeEndsIInv
<1>10. CASE UNCHANGED torrentVars
  BY <1>10 DEF torrentVars, session, disk, IInv, TypeInv, TypeOK, ScanInRange, Active, StoreLife,
     Unknown, Sound, EveryVerifiedPieceCounted, Covered, Kept, WillVisit, Committing
<1> QED BY <1>1, <1>2, <1>3, <1>4, <1>5, <1>6, <1>7, <1>8, <1>9, <1>10 DEF Next

\* The inductive invariant holds in every reachable state.
THEOREM TorrentInvariant == Spec => []IInv
BY InitIInv, NextIInv, PTL DEF Spec

\* Every variable keeps its type.
THEOREM TorrentTypeCorrect == Spec => []TypeOK
<1>1. IInv => TypeOK
  BY DEF IInv, TypeInv
<1> QED BY <1>1, TorrentInvariant, PTL

\* A piece marked as verified is in the store and sound, whatever scans,
\* receptions and closings interleaved.
THEOREM VerifiedPiecesAreStored == Spec => []VerifiedIsStored
<1>1. IInv => VerifiedIsStored
  BY DEF IInv, Sound, VerifiedIsStored
<1> QED BY <1>1, TorrentInvariant, PTL

\* No marked piece is missing from _downloaded: completion is never missed.
THEOREM VerifiedPiecesAreCounted == Spec => []EveryVerifiedPieceCounted
<1>1. IInv => EveryVerifiedPieceCounted
  BY DEF IInv
<1> QED BY <1>1, TorrentInvariant, PTL

\* When all scans are over the bitfield and the store agree.
THEOREM ScansSettle == Spec => []ScanSettles
<1>1. IInv => ScanSettles
  <2> SUFFICES ASSUME IInv, Quiet PROVE bitfield = {i \in Pieces : chunk[i] = "good"}
    BY DEF ScanSettles
  <2>1. bitfield \subseteq {i \in Pieces : chunk[i] = "good"}
    BY DEF IInv, TypeInv, TypeOK, Sound, Quiet
  <2>2. \A i \in Pieces : chunk[i] = "good" => i \in bitfield
    BY DEF IInv, Covered, Quiet, WillVisit, Committing
  <2> QED BY <2>1, <2>2
<1> QED BY <1>1, TorrentInvariant, PTL

\* What receivePiece accepted stays marked once no scan is under way.
THEOREM AcceptedPiecesAreKept == Spec => []AcceptedIsKept
<1>1. IInv => AcceptedIsKept
  BY DEF IInv, Kept, AcceptedIsKept, WillVisit
<1> QED BY <1>1, TorrentInvariant, PTL
-----------------------------------------------------------------------------
\* The records of Stream.
Responses ==
  [state : {"idle", "queued", "asked", "streaming"}, page : Pages \cup {Null},
   pending : BOOLEAN, pulling : BOOLEAN, body : Seq(Seq(Nat)),
   closed : {"no", "end", "timeout", "cancel"}]
Streams ==
  [mail : {"none", "request", "headers", "read"}, open : BOOLEAN, offset : Nat, reads : Nat]

\* A request by itself: w is the worker's side of it, p the page's, tp and ts what is on
\* the chunk channel, rec what the consumer has read.
Carries(ts) == \E bytes \in Seq(Nat) : ts = <<Chunk(bytes)>>
Notices == {<<>>, <<End>>, <<Object, End>>}

\* How far the request has come.
Stage(w, p, tp, ts, rec) ==
  /\ w.state \in {"idle", "queued"} =>
       w = [NoResponse EXCEPT !.state = w.state] /\ p = NoStream /\ tp = <<>> /\ rec = <<>>
  /\ w.state = "asked" =>
       /\ ~w.pending /\ ~w.pulling /\ w.body = <<>> /\ rec = <<>> /\ tp = <<>> /\ p.reads = 0
       /\ ~Carries(ts) /\ p.mail # "none"
  /\ w.state = "streaming" => p.mail = "read"
  /\ p.mail # "read" => w.closed = "no" /\ ts = <<>>
  /\ p.mail \in {"none", "request"} => ~p.open

\* The one pull there is, or what became of it: it is on its way to the page, a read of
\* the page's, or a chunk on its way back; until the body is closed the worker waits.
Flow(w, p, tp, ts) ==
  /\ tp \in {<<>>, <<TRUE>>} \/ (w.closed = "cancel" /\ tp \in {<<FALSE>>, <<TRUE, FALSE>>})
  /\ p.reads \in {0, 1} /\ (ts \in Notices \/ Carries(ts))
  /\ p.open => ts = <<>> \/ Carries(ts)
  /\ w.closed # "no" => ts = <<>>
  /\ p.reads = 1 => tp \in {<<>>, <<FALSE>>}
  /\ Carries(ts) => tp = <<>> /\ p.reads = 0
  /\ w.closed = "no" =>
       /\ tp = <<TRUE>> \/ p.reads = 1 \/ Carries(ts) => w.pending
       /\ w.pending => Len(w.body) <= 1
       /\ w.pulling => w.pending /\ w.body = <<>>
  /\ Len(w.body) <= 2

\* The bytes: those of the body, those on their way, and up to which they go.
Joined(body) == IF body = <<>> THEN <<>>
                ELSE IF Len(body) = 1 THEN body[1] ELSE body[1] \o body[2]
Flying(ts) == IF Carries(ts) THEN ts[1].bytes ELSE <<>>
Top(r) == IF FirstByte[r] <= LastByte[r] THEN LastByte[r] ELSE FirstByte[r]
Holds(w, p, ts, rec, r) ==
  /\ p.offset <= Top(r)
  /\ p.open => FirstByte[r] <= p.offset
  /\ \E k \in FirstByte[r]..Top(r) :
       /\ rec \o Joined(w.body) \o Flying(ts) = Bytes(FirstByte[r], k)
       /\ p.open /\ w.closed = "no" => k = p.offset

Fine(w, p, tp, ts, rec, r) ==
  /\ w \in Responses /\ p \in Streams /\ rec \in Seq(Nat)
  /\ Stage(w, p, tp, ts, rec) /\ Flow(w, p, tp, ts) /\ Holds(w, p, ts, rec, r)

StreamInv ==
  /\ pagePort \in Pages \cup {Null} /\ ports \subseteq Pages /\ gone \subseteq ports
  /\ loop \in [Pages -> Requests \cup {Null}]
  /\ DOMAIN sw = Requests /\ DOMAIN page = Requests /\ DOMAIN toPage = Requests
  /\ DOMAIN toSw = Requests /\ DOMAIN received = Requests
  /\ queue \in Seq(Requests) /\ IsInjective(queue)
  /\ \A i \in 1..Len(queue) : sw[queue[i]].state = "queued"
  /\ \A r \in Requests : Fine(sw[r], page[r], toPage[r], toSw[r], received[r], r)
-----------------------------------------------------------------------------
\* How far the offset goes: to the last byte, or nowhere if there is no byte to send.
LEMMA TopFacts ==
  ASSUME NEW r \in Requests
  PROVE  /\ FirstByte[r] \in Nat /\ Top(r) \in Nat /\ FileEnd(r) \in Int /\ LastByte[r] + 1 \in Nat
         /\ FirstByte[r] <= Top(r) /\ FileEnd(r) <= Top(r) /\ Top(r) <= LastByte[r] + 1
  BY StreamAssumption DEF Top, FileEnd

\* Consecutive bytes.
LEMMA BytesLemma ==
  ASSUME NEW a \in Nat, NEW b \in Nat, a <= b
  PROVE  /\ Bytes(a, b) \in Seq(Nat) /\ Len(Bytes(a, b)) = b - a
         /\ \A i \in 1..(b - a) : Bytes(a, b)[i] = a + i - 1
<1>1. b - a \in Nat
  OBVIOUS
<1>2. Bytes(a, b) \in [1..(b - a) -> Nat]
  <2>1. \A i \in 1..(b - a) : a + i - 1 \in Nat
    OBVIOUS
  <2> QED BY <2>1 DEF Bytes
<1>3. Bytes(a, b) \in Seq(Nat) /\ Len(Bytes(a, b)) = b - a
  BY <1>1, <1>2
<1> QED BY <1>3 DEF Bytes

\* No bytes.
LEMMA BytesEmpty ==
  ASSUME NEW a \in Nat
  PROVE  Bytes(a, a) = <<>>
<1>1. a <= a /\ a - a = 0
  OBVIOUS
<1>2. Bytes(a, a) \in Seq(Nat) /\ Len(Bytes(a, a)) = 0
  BY <1>1, BytesLemma
<1> QED BY <1>2, EmptySeq

\* Bytes that follow each other.
LEMMA BytesJoin ==
  ASSUME NEW a \in Nat, NEW b \in Nat, NEW c \in Nat, a <= b, b <= c
  PROVE  Bytes(a, b) \o Bytes(b, c) = Bytes(a, c)
<1>1. PICK s \in Seq(Nat) : s = Bytes(a, b) /\ Len(s) = b - a
                           /\ \A i \in 1..(b - a) : s[i] = a + i - 1
  BY BytesLemma
<1>2. PICK t \in Seq(Nat) : t = Bytes(b, c) /\ Len(t) = c - b
                           /\ \A i \in 1..(c - b) : t[i] = b + i - 1
  BY BytesLemma
<1>3. PICK u \in Seq(Nat) : u = Bytes(a, c) /\ Len(u) = c - a
                           /\ \A i \in 1..(c - a) : u[i] = a + i - 1
  <2>1. a <= c
    OBVIOUS
  <2> QED BY <2>1, BytesLemma
<1>4. /\ s \o t \in Seq(Nat) /\ Len(s \o t) = Len(s) + Len(t)
      /\ \A i \in 1..(Len(s) + Len(t)) : (s \o t)[i] = IF i <= Len(s) THEN s[i] ELSE t[i - Len(s)]
  BY ConcatProperties
<1>5. Len(s \o t) = Len(u)
  BY <1>1, <1>2, <1>3, <1>4
<1>6. ASSUME NEW i \in 1..Len(s \o t) PROVE (s \o t)[i] = u[i]
  <2>1. CASE i <= b - a
    BY <1>1, <1>2, <1>3, <1>4, <2>1
  <2>2. CASE ~(i <= b - a)
    <3>1. i - (b - a) \in 1..(c - b) /\ i \in 1..(c - a)
      BY <1>1, <1>2, <1>4, <2>2
    <3>2. t[i - (b - a)] = b + (i - (b - a)) - 1
      BY <1>2, <3>1
    <3>3. b + (i - (b - a)) - 1 = a + i - 1
      BY <3>1
    <3>4. u[i] = a + i - 1
      BY <1>3, <3>1
    <3>5. i \in 1..(Len(s) + Len(t)) /\ ~(i <= Len(s)) /\ Len(s) = b - a
      BY <1>1, <1>4, <2>2
    <3>6. (s \o t)[i] = t[i - (b - a)]
      BY <1>4, <3>5
    <3> QED BY <3>2, <3>3, <3>4, <3>6
  <2> QED BY <2>1, <2>2
<1>7. s \o t = u
  BY <1>4, <1>5, <1>6, SeqEqual
<1> QED BY <1>1, <1>2, <1>3, <1>7

\* What begins consecutive bytes is consecutive bytes.
LEMMA BytesPrefix ==
  ASSUME NEW s \in Seq(Nat), NEW t \in Seq(Nat), NEW a \in Nat, NEW c \in Nat, a <= c,
         s \o t = Bytes(a, c)
  PROVE  a + Len(s) <= c /\ s = Bytes(a, a + Len(s))
<1>1. /\ Len(s \o t) = Len(s) + Len(t)
      /\ \A i \in 1..(Len(s) + Len(t)) : (s \o t)[i] = IF i <= Len(s) THEN s[i] ELSE t[i - Len(s)]
  BY ConcatProperties
<1>2. Len(Bytes(a, c)) = c - a /\ \A i \in 1..(c - a) : Bytes(a, c)[i] = a + i - 1
  BY BytesLemma
<1>3. PICK n \in Nat, m \in Nat : n = Len(s) /\ m = Len(t)
  OBVIOUS
<1>4. PICK b \in a..c : b = a + n
  <2>1. n + m = c - a
    BY <1>1, <1>2, <1>3
  <2> QED BY <2>1
<1>5. ASSUME NEW i \in 1..n PROVE s[i] = a + i - 1
  <2>1. i \in 1..(n + m) /\ i \in 1..(c - a)
    BY <1>1, <1>2, <1>3
  <2> QED BY <1>1, <1>2, <1>3, <2>1
<1>6. b \in Nat /\ a <= b /\ b - a = n
  BY <1>4
<1>7. /\ Bytes(a, b) \in Seq(Nat) /\ Len(Bytes(a, b)) = n
      /\ \A i \in 1..n : Bytes(a, b)[i] = a + i - 1
  BY <1>6, BytesLemma
<1>8. s = Bytes(a, b)
  BY <1>3, <1>5, <1>7, SeqEqual
<1> QED BY <1>3, <1>4, <1>8
-----------------------------------------------------------------------------
\* Sequences of one or two elements.
LEMMA Short ==
  ASSUME NEW x, NEW y
  PROVE  /\ Head(<<x>>) = x /\ Tail(<<x>>) = <<>> /\ Head(<<x, y>>) = x /\ Tail(<<x, y>>) = <<y>>
         /\ Append(<<>>, x) = <<x>> /\ Append(<<x>>, y) = <<x, y>>
<1> DEFINE Two == {x, y}
<1>1. /\ <<x>> \in Seq(Two) /\ <<y>> \in Seq(Two) /\ <<x, y>> \in Seq(Two) /\ <<>> \in Seq(Two)
      /\ Len(<<x>>) = 1 /\ Len(<<y>>) = 1 /\ Len(<<x, y>>) = 2 /\ Len(<<>>) = 0
      /\ <<x>>[1] = x /\ <<y>>[1] = y /\ <<x, y>>[1] = x /\ <<x, y>>[2] = y
      /\ x \in Two /\ y \in Two
  OBVIOUS
<1> HIDE DEF Two
<1>2. <<x>> # <<>> /\ <<x, y>> # <<>>
  BY <1>1
<1>3. Head(<<x>>) = x /\ Head(<<x, y>>) = x
  BY <1>1, <1>2
<1>4. Tail(<<x>>) = <<>>
  <2>1. Tail(<<x>>) \in Seq(Two) /\ Len(Tail(<<x>>)) = 0
    BY <1>1, <1>2, HeadTailProperties
  <2> QED BY <2>1, EmptySeq
<1>5. Tail(<<x, y>>) = <<y>>
  <2>1. /\ Tail(<<x, y>>) \in Seq(Two) /\ Len(Tail(<<x, y>>)) = 1
        /\ \A i \in 1..1 : Tail(<<x, y>>)[i] = <<x, y>>[i + 1]
    BY <1>1, <1>2, HeadTailProperties
  <2>2. \A i \in 1..1 : Tail(<<x, y>>)[i] = <<y>>[i]
    BY <1>1, <2>1
  <2> QED BY <1>1, <2>1, <2>2, SeqEqual
<1>6. Append(<<>>, x) = <<x>>
  <2>1. /\ Append(<<>>, x) \in Seq(Two) /\ Len(Append(<<>>, x)) = 1 /\ Append(<<>>, x)[1] = x
    BY <1>1, AppendProperties
  <2>2. \A i \in 1..1 : Append(<<>>, x)[i] = <<x>>[i]
    BY <1>1, <2>1
  <2> QED BY <1>1, <2>1, <2>2, SeqEqual
<1>7. Append(<<x>>, y) = <<x, y>>
  <2>1. /\ Append(<<x>>, y) \in Seq(Two) /\ Len(Append(<<x>>, y)) = 2
        /\ Append(<<x>>, y)[1] = x /\ Append(<<x>>, y)[2] = y
    BY <1>1, AppendProperties
  <2>2. \A i \in 1..2 : Append(<<x>>, y)[i] = <<x, y>>[i]
    BY <1>1, <2>1
  <2> QED BY <1>1, <2>1, <2>2, SeqEqual
<1> QED BY <1>3, <1>4, <1>5, <1>6, <1>7

\* What is on the channel to the worker besides a chunk carries no bytes.
LEMMA CarriesFacts ==
  /\ ~Carries(<<>>) /\ ~Carries(<<End>>) /\ ~Carries(<<Object, End>>)
  /\ \A bytes \in Seq(Nat) : Carries(<<Chunk(bytes)>>) /\ Flying(<<Chunk(bytes)>>) = bytes
  /\ Flying(<<>>) = <<>> /\ Flying(<<End>>) = <<>> /\ Flying(<<Object, End>>) = <<>>
<1>1. ~Carries(<<>>) /\ ~Carries(<<Object, End>>)
  BY DEF Carries
<1>2. ~Carries(<<End>>)
  <2> SUFFICES ASSUME NEW bytes \in Seq(Nat), <<End>> = <<Chunk(bytes)>> PROVE FALSE
    BY DEF Carries
  <2>1. End = Chunk(bytes)
    OBVIOUS
  <2>2. End.type = "end" /\ Chunk(bytes).type = "chunk"
    BY DEF End, Chunk
  <2> QED BY <2>1, <2>2
<1>3. ASSUME NEW bytes \in Seq(Nat)
      PROVE  Carries(<<Chunk(bytes)>>) /\ Flying(<<Chunk(bytes)>>) = bytes
  <2>1. Carries(<<Chunk(bytes)>>)
    BY DEF Carries
  <2>2. <<Chunk(bytes)>>[1].bytes = bytes
    BY DEF Chunk
  <2> QED BY <2>1, <2>2 DEF Flying
<1> QED BY <1>1, <1>2, <1>3 DEF Flying

\* The bytes of a body of at most two chunks.
LEMMA JoinedFacts ==
  /\ Joined(<<>>) = <<>>
  /\ \A x \in Seq(Nat) : Joined(<<x>>) = x
  /\ \A x, y \in Seq(Nat) : Joined(<<x, y>>) = x \o y
BY DEF Joined

\* Bodies of at most two chunks.
LEMMA BodyShapes ==
  ASSUME NEW body \in Seq(Seq(Nat)), Len(body) <= 2
  PROVE  /\ \/ body = <<>>
            \/ \E x \in Seq(Nat) : body = <<x>>
            \/ \E x, y \in Seq(Nat) : body = <<x, y>>
         /\ Joined(body) \in Seq(Nat)
<1>1. PICK n \in Nat : n = Len(body)
  OBVIOUS
<1>2. \A i \in 1..n : body[i] \in Seq(Nat)
  BY <1>1
<1>3. CASE n = 0
  <2>1. <<>> \in Seq(Seq(Nat)) /\ Len(<<>>) = 0
    OBVIOUS
  <2>2. \A i \in 1..Len(body) : body[i] = <<>>[i]
    BY <1>1, <1>3
  <2>3. body = <<>>
    BY <1>1, <1>3, <2>1, <2>2, SeqEqual
  <2>4. <<>> \in Seq(Nat)
    OBVIOUS
  <2> QED BY <2>3, <2>4, JoinedFacts
<1>4. CASE n = 1
  <2>1. PICK x \in Seq(Nat) : x = body[1]
    BY <1>2, <1>4
  <2>2. <<x>> \in Seq(Seq(Nat)) /\ Len(<<x>>) = 1
    OBVIOUS
  <2>3. \A i \in 1..Len(body) : body[i] = <<x>>[i]
    BY <1>1, <1>4, <2>1
  <2>4. body = <<x>>
    BY <1>1, <1>4, <2>2, <2>3, SeqEqual
  <2> QED BY <2>4, JoinedFacts
<1>5. CASE n = 2
  <2>1. PICK x \in Seq(Nat), y \in Seq(Nat) : x = body[1] /\ y = body[2]
    BY <1>2, <1>5
  <2>2. <<x, y>> \in Seq(Seq(Nat)) /\ Len(<<x, y>>) = 2
    OBVIOUS
  <2>3. \A i \in 1..Len(body) : body[i] = <<x, y>>[i]
    BY <1>1, <1>5, <2>1
  <2>4. body = <<x, y>>
    <3>1. PICK both \in Seq(Seq(Nat)) : both = <<x, y>>
      BY <2>2
    <3>2. Len(both) = Len(body) /\ \A i \in 1..Len(body) : body[i] = both[i]
      BY ONLY <1>1, <1>5, <2>2, <2>3, <3>1
    <3> QED BY <3>1, <3>2, SeqEqual
  <2>5. x \o y \in Seq(Nat)
    BY ConcatProperties
  <2> QED BY <2>4, <2>5, JoinedFacts
<1>6. n \in {0, 1, 2}
  BY <1>1
<1> QED BY <1>3, <1>4, <1>5, <1>6

\* The fields of a request that is Fine.
LEMMA FineParts ==
  ASSUME NEW w, NEW p, NEW tp, NEW ts, NEW rec, NEW r, Fine(w, p, tp, ts, rec, r)
  PROVE  /\ w.state \in {"idle", "queued", "asked", "streaming"} /\ w.page \in Pages \cup {Null}
         /\ w.pending \in BOOLEAN /\ w.pulling \in BOOLEAN /\ w.body \in Seq(Seq(Nat))
         /\ w.closed \in {"no", "end", "timeout", "cancel"}
         /\ p.mail \in {"none", "request", "headers", "read"} /\ p.open \in BOOLEAN
         /\ p.offset \in Nat /\ p.reads \in Nat
         /\ Joined(w.body) \in Seq(Nat) /\ Flying(ts) \in Seq(Nat)
<1>1. w \in Responses /\ p \in Streams
  BY DEF Fine
<1>2. Len(w.body) <= 2
  BY DEF Fine, Flow
<1>3. w.body \in Seq(Seq(Nat))
  BY <1>1 DEF Responses
<1>4. Joined(w.body) \in Seq(Nat)
  BY <1>2, <1>3, BodyShapes
<1>5. Flying(ts) \in Seq(Nat)
  <2>1. CASE Carries(ts)
    <3>1. PICK bytes \in Seq(Nat) : ts = <<Chunk(bytes)>>
      BY <2>1 DEF Carries
    <3> QED BY <3>1, CarriesFacts
  <2> QED BY <2>1 DEF Flying
<1> QED BY <1>1, <1>4, <1>5 DEF Responses, Streams
-----------------------------------------------------------------------------
\* The page answers a request: with headers and a stream, or that it has no such file.
LEMMA FineOpens ==
  ASSUME NEW w, NEW p, NEW tp, NEW ts, NEW rec, NEW r \in Requests,
         Fine(w, p, tp, ts, rec, r), p.mail = "request"
  PROVE  /\ Fine(w, [mail |-> "headers", open |-> TRUE, offset |-> FirstByte[r], reads |-> 0],
                  tp, ts, rec, r)
         /\ Fine(w, [p EXCEPT !.mail = "read"], tp, ts \o <<Object, End>>, rec, r)
         /\ w.state = "asked"
<1>1. /\ w.state \in {"idle", "queued", "asked", "streaming"} /\ p \in Streams /\ w \in Responses
      /\ rec \in Seq(Nat)
  BY FineParts DEF Fine
<1>2. w.state = "asked"
  <2>1. NoStream.mail = "none"
    BY DEF NoStream
  <2> QED BY <1>1, <2>1 DEF Fine, Stage
<1>3. /\ ~w.pending /\ ~w.pulling /\ w.body = <<>> /\ rec = <<>> /\ tp = <<>> /\ p.reads = 0
      /\ w.closed = "no" /\ ts = <<>> /\ ~p.open
  BY <1>2 DEF Fine, Stage
<1>4. FirstByte[r] \in Nat /\ Top(r) \in Nat /\ FirstByte[r] <= Top(r)
  BY TopFacts
<1>5. ~Carries(<<>>) /\ ~Carries(<<Object, End>>) /\ Joined(w.body) = <<>> /\ Flying(<<>>) = <<>>
      /\ Flying(<<Object, End>>) = <<>>
  BY <1>3, CarriesFacts, JoinedFacts
<1>6. rec \o Joined(w.body) \o <<>> = Bytes(FirstByte[r], FirstByte[r])
  <2>1. Bytes(FirstByte[r], FirstByte[r]) = <<>>
    BY <1>4, BytesEmpty
  <2> QED BY <1>3, <1>5, <2>1
<1>7. Len(w.body) = 0
  BY <1>3
<1>8. Fine(w, [mail |-> "headers", open |-> TRUE, offset |-> FirstByte[r], reads |-> 0],
           tp, ts, rec, r)
  <2> DEFINE q == [mail |-> "headers", open |-> TRUE, offset |-> FirstByte[r], reads |-> 0]
  <2>1. q \in Streams
    BY <1>4 DEF Streams
  <2>2. Stage(w, q, tp, ts, rec)
    BY <1>2, <1>3, <1>5 DEF Stage
  <2>3. Flow(w, q, tp, ts)
    BY <1>3, <1>5, <1>7 DEF Flow, Notices
  <2>4. Holds(w, q, ts, rec, r)
    <3>1. FirstByte[r] \in FirstByte[r]..Top(r)
      BY <1>4
    <3>2. rec \o Joined(w.body) \o Flying(ts) = Bytes(FirstByte[r], FirstByte[r])
      BY <1>3, <1>5, <1>6
    <3>3. q.offset = FirstByte[r]
      OBVIOUS
    <3>4. q.offset <= Top(r) /\ FirstByte[r] <= q.offset
      BY <1>4, <3>3
    <3> HIDE DEF q
    <3> QED BY <3>1, <3>2, <3>3, <3>4 DEF Holds
  <2> QED BY <1>1, <2>1, <2>2, <2>3, <2>4 DEF Fine
<1>9. Fine(w, [p EXCEPT !.mail = "read"], tp, ts \o <<Object, End>>, rec, r)
  <2> DEFINE q == [p EXCEPT !.mail = "read"]
  <2>1. q \in Streams /\ q.mail = "read" /\ q.open = p.open /\ q.offset = p.offset /\ q.reads = p.reads
    BY <1>1 DEF Streams
  <2>2. ts \o <<Object, End>> = <<Object, End>>
    BY <1>3
  <2>3. Stage(w, q, tp, <<Object, End>>, rec)
    BY <1>2, <1>3, <1>5, <2>1 DEF Stage
  <2>4. Flow(w, q, tp, <<Object, End>>)
    BY <1>3, <1>5, <1>7, <2>1 DEF Flow, Notices
  <2>5. Holds(w, q, <<Object, End>>, rec, r)
    <3>1. FirstByte[r] \in FirstByte[r]..Top(r)
      BY <1>4
    <3>2. p.offset <= Top(r)
      BY DEF Fine, Holds
    <3> QED BY <1>3, <1>5, <1>6, <2>1, <3>1, <3>2 DEF Holds
  <2> QED BY <1>1, <2>1, <2>2, <2>3, <2>4, <2>5 DEF Fine
<1> QED BY <1>2, <1>8, <1>9

\* What the page can find on its port, and when.
LEMMA PullShapes ==
  ASSUME NEW w, NEW p, NEW tp, NEW ts, NEW rec, NEW r, Fine(w, p, tp, ts, rec, r), tp # <<>>
  PROVE  /\ \/ tp = <<TRUE>> /\ Head(tp) = TRUE /\ Tail(tp) = <<>>
            \/ tp = <<FALSE>> /\ Head(tp) = FALSE /\ Tail(tp) = <<>> /\ w.closed = "cancel"
            \/ tp = <<TRUE, FALSE>> /\ Head(tp) = TRUE /\ Tail(tp) = <<FALSE>> /\ w.closed = "cancel"
         /\ w.state = "streaming" /\ p.mail = "read"
<1>1. tp \in {<<>>, <<TRUE>>} \/ (w.closed = "cancel" /\ tp \in {<<FALSE>>, <<TRUE, FALSE>>})
  BY DEF Fine, Flow
<1>2. /\ Head(<<TRUE>>) = TRUE /\ Tail(<<TRUE>>) = <<>> /\ Head(<<FALSE>>) = FALSE /\ Tail(<<FALSE>>) = <<>>
      /\ Head(<<TRUE, FALSE>>) = TRUE /\ Tail(<<TRUE, FALSE>>) = <<FALSE>>
  BY Short
<1>3. w.state \in {"idle", "queued", "asked", "streaming"}
  BY FineParts
<1>4. w.state = "streaming" /\ p.mail = "read"
  BY <1>3 DEF Fine, Stage
<1>5. tp = <<TRUE>> \/ (w.closed = "cancel" /\ (tp = <<FALSE>> \/ tp = <<TRUE, FALSE>>))
  BY <1>1
<1> QED BY <1>2, <1>4, <1>5

Posted(w, ts, m) == IF w.closed = "no" THEN Append(ts, m) ELSE ts

\* The page takes a message off its port: after the end, a cancel, a pull it answers with
\* the end, and one it reads for.
LEMMA FinePulled ==
  ASSUME NEW w, NEW p, NEW tp, NEW ts, NEW rec, NEW r \in Requests,
         Fine(w, p, tp, ts, rec, r), tp # <<>>
  PROVE  /\ ~p.open => Fine(w, p, Tail(tp), ts, rec, r)
         /\ p.open /\ ~Head(tp) => Fine(w, [p EXCEPT !.open = FALSE], Tail(tp), ts, rec, r)
         /\ p.open /\ Head(tp) =>
              Fine(w, [p EXCEPT !.open = FALSE], Tail(tp), Posted(w, ts, End), rec, r)
         /\ p.open /\ Head(tp) => Fine(w, [p EXCEPT !.reads = @ + 1], Tail(tp), ts, rec, r)
<1>1. /\ p \in Streams /\ w \in Responses /\ rec \in Seq(Nat)
  BY DEF Fine
<1>2. /\ \/ tp = <<TRUE>> /\ Head(tp) = TRUE /\ Tail(tp) = <<>>
         \/ tp = <<FALSE>> /\ Head(tp) = FALSE /\ Tail(tp) = <<>> /\ w.closed = "cancel"
         \/ tp = <<TRUE, FALSE>> /\ Head(tp) = TRUE /\ Tail(tp) = <<FALSE>> /\ w.closed = "cancel"
      /\ w.state = "streaming" /\ p.mail = "read"
  BY PullShapes
<1>3. <<>> # <<TRUE>> /\ <<>> # <<FALSE>> /\ <<FALSE>> # <<TRUE>> /\ <<TRUE, FALSE>> # <<FALSE>>
      /\ <<TRUE, FALSE>> # <<TRUE>> /\ <<TRUE, FALSE>> # <<>>
  <2>1. FALSE # TRUE
    OBVIOUS
  <2>2. <<TRUE>>[1] = TRUE /\ <<FALSE>>[1] = FALSE /\ Len(<<TRUE>>) = 1 /\ Len(<<FALSE>>) = 1
        /\ Len(<<TRUE, FALSE>>) = 2 /\ Len(<<>>) = 0
    OBVIOUS
  <2> QED BY <2>1, <2>2
<1>4. ASSUME NEW q, q = p \/ q = [p EXCEPT !.open = FALSE],
             q.open => ~p.open \/ tp = <<TRUE>> \/ tp = <<TRUE, FALSE>>, ~q.open
      PROVE  Fine(w, q, Tail(tp), ts, rec, r)
  <2>1. /\ q \in Streams /\ q.mail = p.mail /\ q.offset = p.offset /\ q.reads = p.reads
        /\ p.reads \in Nat /\ q.open = FALSE
    BY <1>1, <1>4 DEF Streams
  <2>2. Stage(w, q, Tail(tp), ts, rec)
    BY <1>2, <2>1 DEF Fine, Stage
  <2>3. Flow(w, q, Tail(tp), ts)
    <3>1. /\ Tail(tp) \in {<<>>, <<TRUE>>} \/ (w.closed = "cancel" /\ Tail(tp) \in {<<FALSE>>, <<TRUE, FALSE>>})
          /\ Tail(tp) \in {<<>>, <<FALSE>>} /\ Tail(tp) # <<TRUE>>
      BY <1>2, <1>3
    <3>2. ~Carries(ts)
      BY <1>2, <1>3 DEF Fine, Flow
    <3> QED BY <2>1, <3>1, <3>2 DEF Fine, Flow
  <2>4. Holds(w, q, ts, rec, r)
    BY <2>1 DEF Fine, Holds
  <2> QED BY <1>1, <2>1, <2>2, <2>3, <2>4 DEF Fine
<1>5. ASSUME ~p.open PROVE Fine(w, p, Tail(tp), ts, rec, r)
  BY <1>4, <1>5
<1>6. ASSUME p.open, ~Head(tp) PROVE Fine(w, [p EXCEPT !.open = FALSE], Tail(tp), ts, rec, r)
  <2>1. ~([p EXCEPT !.open = FALSE]).open
    BY <1>1 DEF Streams
  <2> QED BY <1>4, <2>1
<1>7. ASSUME p.open, Head(tp)
      PROVE  Fine(w, [p EXCEPT !.open = FALSE], Tail(tp), Posted(w, ts, End), rec, r)
  <2> DEFINE q == [p EXCEPT !.open = FALSE]
             us == Posted(w, ts, End)
  <2>1. /\ q \in Streams /\ q.mail = p.mail /\ q.offset = p.offset /\ q.reads = p.reads
        /\ p.reads \in Nat /\ q.open = FALSE
    BY <1>1 DEF Streams
  <2>2. tp = <<TRUE>> \/ tp = <<TRUE, FALSE>>
    BY <1>2, <1>7
  <2>3. ~Carries(ts) /\ ts = <<>> /\ p.reads # 1
    BY <1>3, <1>7, <2>2 DEF Fine, Flow
  <2>4. /\ us \in Notices /\ ~Carries(us) /\ Flying(us) = <<>> /\ Flying(ts) = <<>>
        /\ w.closed # "no" => us = <<>>
    <3>1. us = <<>> \/ (us = <<End>> /\ w.closed = "no")
      BY <2>3, Short DEF Posted
    <3> HIDE DEF us
    <3>2. ~Carries(us) /\ Flying(us) = <<>> /\ Flying(ts) = <<>>
      BY <2>3, <3>1, CarriesFacts
    <3> QED BY <3>1, <3>2 DEF Notices
  <2> HIDE DEF q, us
  <2>5. Stage(w, q, Tail(tp), us, rec)
    BY <1>2, <2>1 DEF Fine, Stage
  <2>6. Flow(w, q, Tail(tp), us)
    <3>1. /\ Tail(tp) \in {<<>>, <<TRUE>>} \/ (w.closed = "cancel" /\ Tail(tp) \in {<<FALSE>>, <<TRUE, FALSE>>})
          /\ Tail(tp) \in {<<>>, <<FALSE>>} /\ Tail(tp) # <<TRUE>>
      BY <1>2, <1>3
    <3> QED BY <2>1, <2>3, <2>4, <3>1 DEF Fine, Flow
  <2>7. Holds(w, q, us, rec, r)
    BY <2>1, <2>4 DEF Fine, Holds
  <2> QED BY <1>1, <2>1, <2>5, <2>6, <2>7 DEF Fine, q, us
<1>8. ASSUME p.open, Head(tp) PROVE Fine(w, [p EXCEPT !.reads = @ + 1], Tail(tp), ts, rec, r)
  <2> DEFINE q == [p EXCEPT !.reads = @ + 1]
  <2>1. /\ q \in Streams /\ q.mail = p.mail /\ q.offset = p.offset /\ q.reads = p.reads + 1
        /\ p.reads \in Nat /\ q.open = p.open
    <3>1. p.reads \in Nat /\ p.reads + 1 \in Nat
      BY <1>1 DEF Streams
    <3> QED BY <1>1, <3>1 DEF Streams
  <2> HIDE DEF q
  <2>2. Stage(w, q, Tail(tp), ts, rec)
    BY <1>2, <2>1 DEF Fine, Stage
  <2>3. tp = <<TRUE>> \/ tp = <<TRUE, FALSE>>
    BY <1>2, <1>8
  <2>4. Flow(w, q, Tail(tp), ts)
    <3>1. /\ Tail(tp) \in {<<>>, <<TRUE>>} \/ (w.closed = "cancel" /\ Tail(tp) \in {<<FALSE>>, <<TRUE, FALSE>>})
          /\ Tail(tp) \in {<<>>, <<FALSE>>} /\ Tail(tp) # <<TRUE>>
      BY <1>2, <1>3
    <3>2. ~Carries(ts)
      BY <1>2, <1>3 DEF Fine, Flow
    <3>3. p.reads = 0 /\ q.reads = 1
      <4>1. p.reads \in {0, 1} /\ p.reads # 1
        BY <1>3, <2>3 DEF Fine, Flow
      <4> QED BY <2>1, <4>1
    <3>4. w.closed = "no" => w.pending
      BY <1>2, <2>3 DEF Fine, Flow
    <3> QED BY <2>1, <3>1, <3>2, <3>3, <3>4 DEF Fine, Flow
  <2>5. Holds(w, q, ts, rec, r)
    BY <2>1 DEF Fine, Holds
  <2> QED BY <1>1, <2>1, <2>2, <2>4, <2>5 DEF Fine, q
<1> QED BY <1>5, <1>6, <1>7, <1>8

\* While the page reads a block nothing else is on its way.
LEMMA ReadShapes ==
  ASSUME NEW w, NEW p, NEW tp, NEW ts, NEW rec, NEW r, Fine(w, p, tp, ts, rec, r), p.reads > 0
  PROVE  /\ p.reads = 1 /\ tp # <<TRUE>> /\ ~Carries(ts) /\ w.state = "streaming" /\ p.mail = "read"
         /\ w.closed = "no" => w.pending
         /\ p.open => ts = <<>>
<1>1. /\ p \in Streams /\ p.reads \in Nat /\ p.reads \in {0, 1}
      /\ w.state \in {"idle", "queued", "asked", "streaming"}
  BY FineParts DEF Fine, Flow
<1>2. p.reads = 1
  BY <1>1
<1>3. <<>> # <<TRUE>> /\ <<FALSE>> # <<TRUE>>
  <2>1. FALSE # TRUE
    OBVIOUS
  <2>2. <<TRUE>>[1] = TRUE /\ <<FALSE>>[1] = FALSE /\ Len(<<TRUE>>) = 1 /\ Len(<<>>) = 0
    OBVIOUS
  <2> QED BY <2>1, <2>2
<1>4. tp # <<TRUE>>
  BY <1>2, <1>3 DEF Fine, Flow
<1>5. ~Carries(ts)
  BY <1>2 DEF Fine, Flow
<1>6. w.state = "streaming" /\ p.mail = "read"
  <2>1. NoStream.reads = 0
    BY DEF NoStream
  <2> QED BY <1>1, <1>2, <2>1 DEF Fine, Stage
<1>7. w.closed = "no" => w.pending
  BY <1>2 DEF Fine, Flow
<1>8. p.open => ts = <<>>
  BY <1>5 DEF Fine, Flow
<1> QED BY <1>2, <1>4, <1>5, <1>6, <1>7, <1>8

\* A read that has resolved is over.
LEMMA FineRead ==
  ASSUME NEW w, NEW p, NEW tp, NEW ts, NEW rec, NEW r \in Requests,
         Fine(w, p, tp, ts, rec, r), p.reads > 0
  PROVE  Fine(w, [p EXCEPT !.reads = @ - 1], tp, ts, rec, r)
<1> DEFINE q == [p EXCEPT !.reads = @ - 1]
<1>1. /\ p \in Streams /\ w \in Responses /\ rec \in Seq(Nat)
  BY DEF Fine
<1>2. /\ p.reads = 1 /\ tp # <<TRUE>> /\ ~Carries(ts) /\ w.state = "streaming" /\ p.mail = "read"
      /\ w.closed = "no" => w.pending
  BY ReadShapes
<1>3. /\ q \in Streams /\ q.mail = p.mail /\ q.offset = p.offset /\ q.reads = 0 /\ q.open = p.open
  <2>1. p.reads - 1 = 0 /\ 0 \in Nat
    BY <1>2
  <2> QED BY <1>1, <2>1 DEF Streams
<1> HIDE DEF q
<1>4. Stage(w, q, tp, ts, rec)
  BY <1>2, <1>3 DEF Fine, Stage
<1>5. Flow(w, q, tp, ts)
  BY <1>2, <1>3 DEF Fine, Flow
<1>6. Holds(w, q, ts, rec, r)
  BY <1>3 DEF Fine, Holds
<1> QED BY <1>1, <1>3, <1>4, <1>5, <1>6 DEF Fine, q

\* The read that finds the end of the range, or fails, ends the body.
LEMMA FineReadEnds ==
  ASSUME NEW w, NEW p, NEW tp, NEW ts, NEW rec, NEW r \in Requests,
         Fine(w, p, tp, ts, rec, r), p.reads > 0, p.open
  PROVE  Fine(w, [p EXCEPT !.reads = @ - 1, !.open = FALSE], tp, Posted(w, ts, End), rec, r)
<1> DEFINE q == [p EXCEPT !.reads = @ - 1, !.open = FALSE]
           us == Posted(w, ts, End)
<1>1. /\ p \in Streams /\ w \in Responses /\ rec \in Seq(Nat)
  BY DEF Fine
<1>2. /\ p.reads = 1 /\ tp # <<TRUE>> /\ ~Carries(ts) /\ w.state = "streaming" /\ p.mail = "read"
      /\ w.closed = "no" => w.pending
      /\ ts = <<>>
  BY ReadShapes
<1>3. /\ q \in Streams /\ q.mail = p.mail /\ q.offset = p.offset /\ q.reads = 0 /\ q.open = FALSE
  <2>1. p.reads - 1 = 0 /\ 0 \in Nat
    BY <1>2
  <2> QED BY <1>1, <2>1 DEF Streams
<1>4. /\ us \in Notices /\ ~Carries(us) /\ Flying(us) = <<>> /\ Flying(ts) = <<>>
      /\ w.closed # "no" => us = <<>>
  <2>1. us = <<>> \/ (us = <<End>> /\ w.closed = "no")
    BY <1>2, Short DEF Posted
  <2> HIDE DEF us
  <2>2. ~Carries(us) /\ Flying(us) = <<>> /\ Flying(ts) = <<>>
    BY <1>2, <2>1, CarriesFacts
  <2> QED BY <2>1, <2>2 DEF Notices
<1> HIDE DEF q, us
<1>5. Stage(w, q, tp, us, rec)
  BY <1>2, <1>3 DEF Fine, Stage
<1>6. Flow(w, q, tp, us)
  BY <1>2, <1>3, <1>4 DEF Fine, Flow
<1>7. Holds(w, q, us, rec, r)
  BY <1>3, <1>4 DEF Fine, Holds
<1> QED BY <1>1, <1>3, <1>5, <1>6, <1>7 DEF Fine, q, us

\* A read that gets bytes posts them as one chunk, from where the last one ended.
LEMMA FineReadMore ==
  ASSUME NEW w, NEW p, NEW tp, NEW ts, NEW rec, NEW r \in Requests,
         Fine(w, p, tp, ts, rec, r), p.reads > 0, p.open, p.offset < FileEnd(r), NEW bytes,
         bytes = Bytes(p.offset, IF p.offset + BlockSize < FileEnd(r)
                                     THEN p.offset + BlockSize ELSE FileEnd(r))
  PROVE  Fine(w, [p EXCEPT !.reads = @ - 1, !.offset = @ + Len(bytes)], tp,
              Posted(w, ts, Chunk(bytes)), rec, r)
<1> DEFINE q == [p EXCEPT !.reads = @ - 1, !.offset = @ + Len(bytes)]
           us == Posted(w, ts, Chunk(bytes))
<1>1. /\ p \in Streams /\ w \in Responses /\ rec \in Seq(Nat) /\ p.offset \in Nat
      /\ Joined(w.body) \in Seq(Nat)
  BY FineParts DEF Fine
<1>2. /\ p.reads = 1 /\ tp # <<TRUE>> /\ ~Carries(ts) /\ w.state = "streaming" /\ p.mail = "read"
      /\ w.closed = "no" => w.pending
      /\ ts = <<>>
  BY ReadShapes
<1>3. PICK next \in Nat : /\ bytes = Bytes(p.offset, next) /\ p.offset <= next
                          /\ next <= FileEnd(r)
  <2>1. FileEnd(r) \in Int /\ BlockSize \in Nat /\ BlockSize > 0
    BY StreamAssumption, TopFacts
  <2> DEFINE n == IF p.offset + BlockSize < FileEnd(r) THEN p.offset + BlockSize ELSE FileEnd(r)
  <2>2. n \in Nat /\ p.offset <= n /\ n <= FileEnd(r)
    BY <1>1, <2>1
  <2> QED BY <2>2
<1>4. bytes \in Seq(Nat) /\ Len(bytes) = next - p.offset
  <2>1. PICK o \in Nat : o = p.offset
    BY <1>1
  <2>2. Bytes(o, next) \in Seq(Nat) /\ Len(Bytes(o, next)) = next - o
    BY <1>3, <2>1, BytesLemma
  <2> QED BY <1>3, <2>1, <2>2
<1>5. /\ q \in Streams /\ q.mail = p.mail /\ q.offset = next /\ q.reads = 0 /\ q.open = TRUE
  <2>1. p.reads - 1 = 0 /\ 0 \in Nat /\ p.offset + Len(bytes) = next
    BY <1>1, <1>2, <1>3, <1>4
  <2> HIDE DEF FileEnd
  <2> QED BY <1>1, <2>1 DEF Streams
<1>6. us = <<Chunk(bytes)>> \/ us = <<>>
  BY <1>2, Short DEF Posted
<1>7. w.closed = "no" => us = <<Chunk(bytes)>>
  BY <1>2, Short DEF Posted
<1>8. w.closed # "no" => us = <<>>
  BY <1>2 DEF Posted
<1> HIDE DEF q, us
<1>9. us = <<>> \/ Carries(us)
  BY <1>4, <1>6, CarriesFacts
<1>10. Stage(w, q, tp, us, rec)
  BY <1>2, <1>5 DEF Fine, Stage
<1>11. Flow(w, q, tp, us)
  <2>1. tp \in {<<>>, <<TRUE>>} \/ (w.closed = "cancel" /\ tp \in {<<FALSE>>, <<TRUE, FALSE>>})
    BY DEF Fine, Flow
  <2>2. Carries(us) => tp = <<>>
    BY <1>2, <1>8, <2>1, CarriesFacts
  <2>3. us \in Notices \/ Carries(us)
    BY <1>9 DEF Notices
  <2> QED BY <1>2, <1>5, <1>8, <1>9, <2>1, <2>2, <2>3 DEF Fine, Flow
<1>12. Holds(w, q, us, rec, r)
  <2>1. PICK k \in FirstByte[r]..Top(r) :
          /\ rec \o Joined(w.body) \o Flying(ts) = Bytes(FirstByte[r], k)
          /\ w.closed = "no" => k = p.offset
    BY DEF Fine, Holds
  <2>2. /\ FirstByte[r] \in Nat /\ Top(r) \in Nat /\ FirstByte[r] <= p.offset
        /\ next \in FirstByte[r]..Top(r) /\ FirstByte[r] <= next
    <3>1. FirstByte[r] \in Nat /\ Top(r) \in Nat /\ FileEnd(r) \in Int /\ FileEnd(r) <= Top(r)
      BY TopFacts
    <3>2. FirstByte[r] <= p.offset
      BY DEF Fine, Holds
    <3> QED BY <1>1, <1>3, <3>1, <3>2
  <2>3. rec \o Joined(w.body) \in Seq(Nat)
    BY <1>1
  <2>4. Flying(ts) = <<>> /\ (rec \o Joined(w.body)) \o <<>> = rec \o Joined(w.body)
    BY <1>2, <2>3, CarriesFacts, ConcatEmptySeq
  <2>5. CASE w.closed = "no"
    <3>1. rec \o Joined(w.body) = Bytes(FirstByte[r], p.offset)
      BY <2>1, <2>4, <2>5
    <3>2. Bytes(FirstByte[r], p.offset) \o Bytes(p.offset, next) = Bytes(FirstByte[r], next)
      BY <1>1, <1>3, <2>2, BytesJoin
    <3>3. Flying(us) = bytes
      BY <1>4, <1>7, <2>5, CarriesFacts
    <3>4. rec \o Joined(w.body) \o Flying(us) = Bytes(FirstByte[r], next)
      BY <1>3, <3>1, <3>2, <3>3
    <3> QED BY <1>3, <1>5, <2>2, <3>4 DEF Holds
  <2>6. CASE w.closed # "no"
    <3>1. Flying(us) = Flying(ts)
      BY <1>2, <1>8, <2>6
    <3> QED BY <1>3, <1>5, <2>1, <2>2, <2>6, <3>1 DEF Holds
  <2> QED BY <2>5, <2>6
<1> QED BY <1>1, <1>5, <1>10, <1>11, <1>12 DEF Fine, q, us

\* A request made before a page connected waits in the queue.
LEMMA FineQueued ==
  ASSUME NEW w, NEW p, NEW tp, NEW ts, NEW rec, NEW r, Fine(w, p, tp, ts, rec, r),
         w.state = "idle"
  PROVE  Fine([w EXCEPT !.state = "queued"], p, tp, ts, rec, r)
<1> DEFINE v == [w EXCEPT !.state = "queued"]
<1>1. p \in Streams /\ w \in Responses /\ rec \in Seq(Nat)
  BY DEF Fine
<1>2. /\ v \in Responses /\ v.state = "queued" /\ v.page = w.page /\ v.pending = w.pending
      /\ v.pulling = w.pulling /\ v.body = w.body /\ v.closed = w.closed
  BY <1>1 DEF Responses
<1>3. w = [NoResponse EXCEPT !.state = w.state] /\ p = NoStream /\ tp = <<>> /\ rec = <<>>
  BY DEF Fine, Stage
<1>4. v = [NoResponse EXCEPT !.state = v.state]
  BY <1>3 DEF NoResponse
<1> HIDE DEF v
<1>5. p.mail # "read"
  BY <1>3 DEF NoStream
<1>6. Stage(v, p, tp, ts, rec)
  BY <1>2, <1>3, <1>4, <1>5 DEF Fine, Stage
<1>7. Flow(v, p, tp, ts)
  BY <1>2 DEF Fine, Flow
<1>8. Holds(v, p, ts, rec, r)
  BY <1>2 DEF Fine, Holds
<1> QED BY <1>1, <1>2, <1>6, <1>7, <1>8 DEF Fine, v

\* A request, new or out of the queue, is mailed to a page.
LEMMA FineAsked ==
  ASSUME NEW w, NEW p, NEW tp, NEW ts, NEW rec, NEW r, Fine(w, p, tp, ts, rec, r),
         w.state \in {"idle", "queued"}, NEW owner \in Pages \cup {Null}
  PROVE  Fine([w EXCEPT !.state = "asked", !.page = owner], [p EXCEPT !.mail = "request"],
              tp, ts, rec, r)
<1> DEFINE v == [w EXCEPT !.state = "asked", !.page = owner]
           q == [p EXCEPT !.mail = "request"]
<1>1. p \in Streams /\ w \in Responses /\ rec \in Seq(Nat)
  BY DEF Fine
<1>2. /\ v \in Responses /\ v.state = "asked" /\ v.pending = w.pending
      /\ v.pulling = w.pulling /\ v.body = w.body /\ v.closed = w.closed
  BY <1>1 DEF Responses
<1>3. /\ q \in Streams /\ q.mail = "request" /\ q.open = p.open /\ q.offset = p.offset
      /\ q.reads = p.reads
  BY <1>1 DEF Streams
<1>4. w = [NoResponse EXCEPT !.state = w.state] /\ p = NoStream /\ tp = <<>> /\ rec = <<>>
  BY DEF Fine, Stage
<1>5. ~w.pending /\ ~w.pulling /\ w.body = <<>> /\ w.closed = "no"
  BY <1>4 DEF NoResponse
<1>6. p.mail # "read" /\ p.reads = 0 /\ ~p.open
  BY <1>4 DEF NoStream
<1>7. ts = <<>> /\ ~Carries(ts)
  BY <1>6, CarriesFacts DEF Fine, Stage
<1> HIDE DEF v, q
<1>8. Stage(v, q, tp, ts, rec)
  BY <1>2, <1>3, <1>4, <1>5, <1>6, <1>7 DEF Stage
<1>9. Flow(v, q, tp, ts)
  BY <1>2, <1>3 DEF Fine, Flow
<1>10. Holds(v, q, ts, rec, r)
  BY <1>2, <1>3 DEF Fine, Holds
<1> QED BY <1>1, <1>2, <1>3, <1>8, <1>9, <1>10 DEF Fine, v, q

\* The headers make a ReadableStream, which pulls at once.
LEMMA FineHeaders ==
  ASSUME NEW w, NEW p, NEW tp, NEW ts, NEW rec, NEW r, Fine(w, p, tp, ts, rec, r),
         p.mail = "headers", w.closed = "no"
  PROVE  /\ Fine([w EXCEPT !.state = "streaming", !.pending = TRUE], [p EXCEPT !.mail = "read"],
                  Append(tp, TRUE), ts, rec, r)
         /\ w.state = "asked"
<1> DEFINE v == [w EXCEPT !.state = "streaming", !.pending = TRUE]
           q == [p EXCEPT !.mail = "read"]
<1>1. /\ p \in Streams /\ w \in Responses /\ rec \in Seq(Nat)
      /\ w.state \in {"idle", "queued", "asked", "streaming"}
  BY FineParts DEF Fine
<1>2. w.state = "asked"
  <2>1. NoStream.mail = "none"
    BY DEF NoStream
  <2> QED BY <1>1, <2>1 DEF Fine, Stage
<1>3. /\ v \in Responses /\ v.state = "streaming" /\ v.pending = TRUE
      /\ v.pulling = w.pulling /\ v.body = w.body /\ v.closed = w.closed
  BY <1>1 DEF Responses
<1>4. /\ q \in Streams /\ q.mail = "read" /\ q.open = p.open /\ q.offset = p.offset
      /\ q.reads = p.reads
  BY <1>1 DEF Streams
<1>5. ~w.pulling /\ w.body = <<>> /\ rec = <<>> /\ tp = <<>> /\ p.reads = 0 /\ ts = <<>>
  BY <1>2 DEF Fine, Stage
<1>6. Append(tp, TRUE) = <<TRUE>> /\ ~Carries(ts) /\ Len(w.body) = 0
  BY <1>5, Short, CarriesFacts
<1> HIDE DEF v, q
<1>7. Stage(v, q, Append(tp, TRUE), ts, rec)
  BY <1>3, <1>4, <1>5 DEF Stage
<1>8. Flow(v, q, Append(tp, TRUE), ts)
  BY <1>3, <1>4, <1>5, <1>6 DEF Flow, Notices
<1>9. Holds(v, q, ts, rec, r)
  BY <1>3, <1>4 DEF Fine, Holds
<1> QED BY <1>1, <1>2, <1>3, <1>4, <1>7, <1>8, <1>9 DEF Fine, v, q

\* Only a request that was asked has its headers read.
LEMMA StatesAsked ==
  ASSUME NEW w, NEW p, NEW tp, NEW ts, NEW rec, NEW r, Fine(w, p, tp, ts, rec, r),
         p.mail = "read"
  PROVE  w.state \in {"asked", "streaming"}
<1>1. w.state \in {"idle", "queued", "asked", "streaming"}
  BY FineParts
<1>2. NoStream.mail = "none"
  BY DEF NoStream
<1> QED BY <1>1, <1>2 DEF Fine, Stage

\* What comes to the worker.
LEMMA MailShapes ==
  ASSUME NEW w, NEW p, NEW tp, NEW ts, NEW rec, NEW r, Fine(w, p, tp, ts, rec, r), ts # <<>>
  PROVE  /\ w.closed = "no" /\ p.mail = "read"
         /\ \/ /\ ts = <<End>> /\ Head(ts) = End
            \/ /\ ts = <<Object, End>> /\ Head(ts) = Object /\ Tail(ts) = <<End>>
            \/ \E bytes \in Seq(Nat) : /\ ts = <<Chunk(bytes)>> /\ Head(ts) = Chunk(bytes)
                                      /\ Tail(ts) = <<>> /\ Flying(ts) = bytes
         /\ w.state \in {"asked", "streaming"}
<1>1. w.closed = "no" /\ p.mail = "read"
  BY FineParts DEF Fine, Flow, Stage
<1>2. ts = <<End>> \/ ts = <<Object, End>> \/ Carries(ts)
  BY DEF Fine, Flow, Notices
<1>3. CASE ts = <<End>>
  BY <1>1, <1>3, Short, StatesAsked
<1>4. CASE ts = <<Object, End>>
  BY <1>1, <1>4, Short, StatesAsked
<1>5. CASE Carries(ts)
  <2>1. PICK bytes \in Seq(Nat) : ts = <<Chunk(bytes)>>
    BY <1>5 DEF Carries
  <2>2. Head(ts) = Chunk(bytes) /\ Tail(ts) = <<>> /\ Flying(ts) = bytes
    BY <2>1, Short, CarriesFacts
  <2> QED BY <1>1, <2>1, <2>2, StatesAsked
<1> QED BY <1>2, <1>3, <1>4, <1>5

\* A chunk arrives: it answers the pull, and one that waited is sent at once.
LEMMA FineChunk ==
  ASSUME NEW w, NEW p, NEW tp, NEW ts, NEW rec, NEW r, Fine(w, p, tp, ts, rec, r),
         NEW bytes \in Seq(Nat), ts = <<Chunk(bytes)>>, r \in Requests
  PROVE  /\ w.pulling => Fine([w EXCEPT !.body = Append(@, bytes), !.pending = TRUE, !.pulling = FALSE],
                              p, Append(tp, TRUE), <<>>, rec, r)
         /\ ~w.pulling => Fine([w EXCEPT !.body = Append(@, bytes), !.pending = FALSE],
                               p, tp, <<>>, rec, r)
<1>1. /\ p \in Streams /\ w \in Responses /\ rec \in Seq(Nat) /\ w.body \in Seq(Seq(Nat))
      /\ w.state \in {"idle", "queued", "asked", "streaming"} /\ Joined(w.body) \in Seq(Nat)
      /\ w.pulling \in BOOLEAN
  BY FineParts DEF Fine
<1>2. ts # <<>> /\ Carries(ts) /\ Flying(ts) = bytes /\ ~Carries(<<>>) /\ Flying(<<>>) = <<>>
  BY CarriesFacts
<1>3. w.closed = "no" /\ p.mail = "read" /\ w.state = "streaming"
  <2>1. w.closed = "no" /\ p.mail = "read" /\ w.state \in {"asked", "streaming"}
    BY <1>2, MailShapes
  <2> QED BY <1>2, <2>1 DEF Fine, Stage
<1>4. tp = <<>> /\ p.reads = 0 /\ w.pending /\ Len(w.body) <= 1 /\ (w.pulling => w.body = <<>>)
  BY <1>2, <1>3 DEF Fine, Flow
<1>5. Append(w.body, bytes) \in Seq(Seq(Nat)) /\ Len(Append(w.body, bytes)) = Len(w.body) + 1
  BY <1>1, AppendProperties
<1>6. Joined(Append(w.body, bytes)) = Joined(w.body) \o bytes
  <2>1. w.body = <<>> \/ \E x \in Seq(Nat) : w.body = <<x>>
    <3>1. Len(w.body) <= 2
      BY <1>1, <1>4
    <3>2. \A x, y \in Seq(Nat) : Len(<<x, y>>) = 2
      OBVIOUS
    <3> QED BY <1>1, <1>4, <3>1, <3>2, BodyShapes
  <2>2. CASE w.body = <<>>
    <3>1. Append(w.body, bytes) = <<bytes>>
      BY <2>2, Short
    <3>2. Joined(w.body) = <<>> /\ <<>> \o bytes = bytes
      BY <2>2, JoinedFacts, ConcatEmptySeq
    <3> QED BY <3>1, <3>2, JoinedFacts
  <2>3. ASSUME NEW x \in Seq(Nat), w.body = <<x>>
        PROVE  Joined(Append(w.body, bytes)) = Joined(w.body) \o bytes
    <3>1. Append(w.body, bytes) = <<x, bytes>>
      BY <2>3, Short
    <3>2. Joined(<<x>>) = x /\ Joined(<<x, bytes>>) = x \o bytes
      BY JoinedFacts
    <3> QED BY <2>3, <3>1, <3>2
  <2> QED BY <2>1, <2>2, <2>3
<1>7. \A v : v.body = Append(w.body, bytes) /\ v.closed = "no" => Holds(v, p, <<>>, rec, r)
  <2>1. PICK k \in FirstByte[r]..Top(r) :
          /\ rec \o Joined(w.body) \o Flying(ts) = Bytes(FirstByte[r], k)
          /\ p.open => k = p.offset
    BY <1>3 DEF Fine, Holds
  <2>2. (rec \o Joined(w.body)) \o bytes = rec \o (Joined(w.body) \o bytes)
    BY <1>1, ConcatAssociative, SMTT(30)
  <2>3. rec \o (Joined(w.body) \o bytes) \in Seq(Nat)
    BY <1>1
  <2>4. (rec \o (Joined(w.body) \o bytes)) \o <<>> = Bytes(FirstByte[r], k)
    BY <1>2, <2>1, <2>2, <2>3, ConcatEmptySeq
  <2>5. p.offset <= Top(r) /\ (p.open => FirstByte[r] <= p.offset)
    BY DEF Fine, Holds
  <2> QED BY <1>2, <1>6, <2>1, <2>4, <2>5 DEF Holds
<1>8. ASSUME w.pulling
      PROVE  Fine([w EXCEPT !.body = Append(@, bytes), !.pending = TRUE, !.pulling = FALSE],
                  p, Append(tp, TRUE), <<>>, rec, r)
  <2> DEFINE v == [w EXCEPT !.body = Append(@, bytes), !.pending = TRUE, !.pulling = FALSE]
  <2>1. /\ v \in Responses /\ v.state = w.state /\ v.page = w.page /\ v.pending = TRUE
        /\ v.pulling = FALSE /\ v.body = Append(w.body, bytes) /\ v.closed = w.closed
    BY <1>1, <1>5 DEF Responses
  <2> HIDE DEF v
  <2>2. Append(tp, TRUE) = <<TRUE>>
    BY <1>4, Short
  <2>3. Len(v.body) = 1
    BY <1>4, <1>5, <1>8, <2>1
  <2>4. Stage(v, p, <<TRUE>>, <<>>, rec)
    BY <1>3, <2>1 DEF Stage
  <2>5. Flow(v, p, <<TRUE>>, <<>>)
    BY <1>2, <1>3, <1>4, <2>1, <2>3 DEF Flow, Notices
  <2>6. Holds(v, p, <<>>, rec, r)
    BY <1>3, <1>7, <2>1
  <2> QED BY <1>1, <2>1, <2>2, <2>4, <2>5, <2>6 DEF Fine, v
<1>9. ASSUME ~w.pulling
      PROVE  Fine([w EXCEPT !.body = Append(@, bytes), !.pending = FALSE], p, tp, <<>>, rec, r)
  <2> DEFINE v == [w EXCEPT !.body = Append(@, bytes), !.pending = FALSE]
  <2>1. /\ v \in Responses /\ v.state = w.state /\ v.page = w.page /\ v.pending = FALSE
        /\ v.pulling = w.pulling /\ v.body = Append(w.body, bytes) /\ v.closed = w.closed
    BY <1>1, <1>5 DEF Responses
  <2> HIDE DEF v
  <2>2. Len(v.body) <= 2
    BY <1>1, <1>4, <1>5, <2>1
  <2>3. Stage(v, p, tp, <<>>, rec)
    BY <1>3, <2>1 DEF Stage
  <2>4. Flow(v, p, tp, <<>>)
    <3>1. <<>> # <<TRUE>>
      <4>1. Len(<<TRUE>>) = 1 /\ Len(<<>>) = 0
        OBVIOUS
      <4> QED BY <4>1
    <3> QED BY <1>2, <1>3, <1>4, <1>9, <2>1, <2>2, <3>1 DEF Flow, Notices
  <2>5. Holds(v, p, <<>>, rec, r)
    BY <1>3, <1>7, <2>1
  <2> QED BY <1>1, <2>1, <2>3, <2>4, <2>5 DEF Fine, v
<1> QED BY <1>8, <1>9

\* The worker passes over an object that is neither a chunk nor the end.
LEMMA FineOther ==
  ASSUME NEW w, NEW p, NEW tp, NEW ts, NEW rec, NEW r, Fine(w, p, tp, ts, rec, r),
         ts = <<Object, End>>
  PROVE  Fine(w, p, tp, <<End>>, rec, r)
<1>1. /\ p \in Streams /\ w \in Responses /\ rec \in Seq(Nat)
  BY DEF Fine
<1>2. /\ ~Carries(<<End>>) /\ ~Carries(ts) /\ Flying(<<End>>) = Flying(ts)
      /\ ts # <<>> /\ <<End>> # <<>>
  BY CarriesFacts
<1>3. w.closed = "no" /\ p.mail = "read" /\ w.state \in {"asked", "streaming"}
  BY <1>2, MailShapes
<1>4. Stage(w, p, tp, <<End>>, rec)
  BY <1>2, <1>3 DEF Fine, Stage
<1>5. Flow(w, p, tp, <<End>>)
  BY <1>2, <1>3 DEF Fine, Flow, Notices
<1>6. Holds(w, p, <<End>>, rec, r)
  BY <1>2 DEF Fine, Holds
<1> QED BY <1>1, <1>4, <1>5, <1>6 DEF Fine

\* Concatenation is associative.
LEMMA ConcatFacts ==
  ASSUME NEW x \in Seq(Nat), NEW y \in Seq(Nat), NEW z \in Seq(Nat)
  PROVE  /\ x \o y \in Seq(Nat) /\ y \o z \in Seq(Nat)
         /\ (x \o y) \o z = x \o (y \o z)
<1>1. x \o y \in Seq(Nat) /\ y \o z \in Seq(Nat)
  OBVIOUS
<1>2. (x \o y) \o z = x \o (y \o z)
  BY ConcatAssociative, SMTT(30)
<1> QED BY <1>1, <1>2, Zenon

\* Concatenation, for the provers to leave alone.
Join(s, t) == s \o t

\* The parts that consecutive bytes are joined of.
LEMMA BytesSplit ==
  ASSUME NEW x \in Seq(Nat), NEW y \in Seq(Nat), NEW z \in Seq(Nat), NEW f \in Nat, NEW k \in Nat,
         f <= k, Join(Join(x, y), z) = Bytes(f, k)
  PROVE  /\ f + Len(Join(x, y)) <= k /\ Join(x, y) = Bytes(f, f + Len(Join(x, y)))
         /\ f + Len(x) <= k /\ x = Bytes(f, f + Len(x))
         /\ Join(x, y) \in Seq(Nat)
<1>1. /\ x \o y \in Seq(Nat) /\ y \o z \in Seq(Nat)
      /\ (x \o y) \o z = x \o (y \o z)
  BY ConcatFacts, Zenon
<1>2. (x \o y) \o z = Bytes(f, k)
  BY Zenon DEF Join
<1>3. f + Len(x \o y) <= k /\ x \o y = Bytes(f, f + Len(x \o y))
  BY <1>1, <1>2, BytesPrefix, Zenon
<1>4. x \o (y \o z) = Bytes(f, k)
  BY <1>1, <1>2, Zenon
<1>5. f + Len(x) <= k /\ x = Bytes(f, f + Len(x))
  BY <1>1, <1>4, BytesPrefix, Zenon
<1> QED BY <1>1, <1>3, <1>5, Zenon DEF Join

\* What is dropped leaves bytes that begin as they should.
LEMMA HoldsLess ==
  ASSUME NEW w, NEW p, NEW tp, NEW ts, NEW rec, NEW r \in Requests,
         Fine(w, p, tp, ts, rec, r), NEW v, v.closed # "no", v.body \in {w.body, <<>>}
  PROVE  Holds(v, p, <<>>, rec, r)
<1>1. /\ rec \in Seq(Nat) /\ Joined(w.body) \in Seq(Nat) /\ Flying(ts) \in Seq(Nat)
      /\ p.offset <= Top(r) /\ (p.open => FirstByte[r] <= p.offset)
  BY FineParts DEF Fine, Holds
<1>2. PICK k \in FirstByte[r]..Top(r) :
        rec \o Joined(w.body) \o Flying(ts) = Bytes(FirstByte[r], k)
  BY DEF Fine, Holds
<1>3. FirstByte[r] \in Nat /\ Top(r) \in Nat /\ k \in Nat /\ FirstByte[r] <= k
  BY TopFacts, <1>2
<1>4. rec \o Joined(w.body) \in Seq(Nat)
  BY <1>1
<1>5. /\ \E b \in Nat : /\ FirstByte[r] <= b /\ b <= k
                        /\ rec \o Joined(w.body) = Bytes(FirstByte[r], b)
      /\ \E a \in Nat : FirstByte[r] <= a /\ a <= k /\ rec = Bytes(FirstByte[r], a)
  <2> DEFINE x == rec  y == Joined(w.body)  z == Flying(ts)  f == FirstByte[r]
  <2>1. x \in Seq(Nat) /\ y \in Seq(Nat) /\ z \in Seq(Nat) /\ f \in Nat /\ k \in Nat
    BY <1>1, <1>3
  <2>2. f <= k /\ Join(Join(x, y), z) = Bytes(f, k)
    BY <1>2, <1>3 DEF Join
  <2> HIDE DEF x, y, z, f
  <2>3. /\ f + Len(Join(x, y)) <= k /\ Join(x, y) = Bytes(f, f + Len(Join(x, y)))
        /\ f + Len(x) <= k /\ x = Bytes(f, f + Len(x))
        /\ Join(x, y) \in Seq(Nat)
    BY <2>1, <2>2, BytesSplit
  <2>4. /\ f + Len(x) \in Nat /\ f <= f + Len(x)
        /\ f + Len(Join(x, y)) \in Nat /\ f <= f + Len(Join(x, y))
    BY <2>1, <2>3
  <2> QED BY <2>3, <2>4, Zenon DEF x, y, f, Join
<1>6. /\ \E b \in FirstByte[r]..k : rec \o Joined(w.body) = Bytes(FirstByte[r], b)
      /\ \E a \in FirstByte[r]..k : rec = Bytes(FirstByte[r], a)
  <2>1. \A a \in Nat : FirstByte[r] <= a /\ a <= k => a \in FirstByte[r]..k
    BY <1>3
  <2> QED BY <1>5, <2>1, Zenon
<1>7. Flying(<<>>) = <<>> /\ Joined(<<>>) = <<>>
  BY CarriesFacts, JoinedFacts
<1>8. CASE v.body = w.body
  <2> PICK b \in FirstByte[r]..k : rec \o Joined(w.body) = Bytes(FirstByte[r], b)
    BY <1>6
  <2>1. rec \o Joined(v.body) \o Flying(<<>>) = Bytes(FirstByte[r], b)
    BY <1>4, <1>7, <1>8, ConcatEmptySeq
  <2>2. b \in FirstByte[r]..Top(r)
    BY <1>2, <1>3
  <2> QED BY <1>1, <2>1, <2>2 DEF Holds
<1>9. CASE v.body = <<>>
  <2> PICK a \in FirstByte[r]..k : rec = Bytes(FirstByte[r], a)
    BY <1>6
  <2>1. (rec \o <<>>) \o <<>> = rec
    BY <1>1, ConcatEmptySeq
  <2>2. rec \o Joined(v.body) \o Flying(<<>>) = Bytes(FirstByte[r], a)
    BY <1>7, <1>9, <2>1
  <2>3. a \in FirstByte[r]..Top(r)
    BY <1>2, <1>3
  <2> QED BY <1>1, <2>2, <2>3 DEF Holds
<1> QED BY <1>8, <1>9

\* The end arrives: the body is closed.
LEMMA FineEnd ==
  ASSUME NEW w, NEW p, NEW tp, NEW ts, NEW rec, NEW r \in Requests,
         Fine(w, p, tp, ts, rec, r), ts # <<>>
  PROVE  Fine([w EXCEPT !.closed = "end", !.pending = FALSE, !.pulling = FALSE], p, tp, <<>>, rec, r)
<1> DEFINE v == [w EXCEPT !.closed = "end", !.pending = FALSE, !.pulling = FALSE]
<1>1. /\ p \in Streams /\ w \in Responses /\ rec \in Seq(Nat)
  BY DEF Fine
<1>2. /\ v \in Responses /\ v.state = w.state /\ v.page = w.page /\ v.pending = FALSE
      /\ v.pulling = FALSE /\ v.body = w.body /\ v.closed = "end"
  BY <1>1 DEF Responses
<1> HIDE DEF v
<1>3. w.closed = "no" /\ p.mail = "read" /\ w.state \in {"asked", "streaming"}
  BY MailShapes
<1>4. ~Carries(<<>>)
  BY CarriesFacts
<1>5. Stage(v, p, tp, <<>>, rec)
  BY <1>2, <1>3, <1>4 DEF Fine, Stage
<1>6. Flow(v, p, tp, <<>>)
  BY <1>2, <1>3, <1>4 DEF Fine, Flow, Notices
<1>7. Holds(v, p, <<>>, rec, r)
  BY <1>2, HoldsLess
<1> QED BY <1>1, <1>2, <1>5, <1>6, <1>7 DEF Fine, v

\* The pull timer closes the body, whether or not the worker still waits.
LEMMA FineTimeout ==
  ASSUME NEW w, NEW p, NEW tp, NEW ts, NEW rec, NEW r \in Requests,
         Fine(w, p, tp, ts, rec, r), w.pending
  PROVE  Fine([w EXCEPT !.pending = FALSE, !.closed = IF @ = "no" THEN "timeout" ELSE @],
              p, tp, <<>>, rec, r)
<1> DEFINE v == [w EXCEPT !.pending = FALSE, !.closed = IF @ = "no" THEN "timeout" ELSE @]
<1>1. /\ p \in Streams /\ w \in Responses /\ rec \in Seq(Nat)
      /\ w.state \in {"idle", "queued", "asked", "streaming"}
      /\ w.closed \in {"no", "end", "timeout", "cancel"}
  BY FineParts DEF Fine
<1>2. /\ v \in Responses /\ v.state = w.state /\ v.page = w.page /\ v.pending = FALSE
      /\ v.pulling = w.pulling /\ v.body = w.body
      /\ v.closed = IF w.closed = "no" THEN "timeout" ELSE w.closed
  BY <1>1 DEF Responses
<1> HIDE DEF v
<1>3. w.state = "streaming" /\ p.mail = "read"
  <2>1. ~NoResponse.pending
    BY DEF NoResponse
  <2>2. w.state \in {"idle", "queued"} => w.pending = NoResponse.pending
    BY DEF Fine, Stage, NoResponse
  <2>3. w.state = "streaming"
    BY <1>1, <2>1, <2>2 DEF Fine, Stage
  <2> QED BY <2>3 DEF Fine, Stage
<1>4. ~Carries(<<>>)
  BY CarriesFacts
<1>5. Stage(v, p, tp, <<>>, rec)
  BY <1>2, <1>3, <1>4 DEF Fine, Stage
<1>6. v.closed # "no" /\ (w.closed = "cancel" => v.closed = "cancel")
  BY <1>2
<1>7. Flow(v, p, tp, <<>>)
  BY <1>2, <1>4, <1>6 DEF Fine, Flow, Notices
<1>8. Holds(v, p, <<>>, rec, r)
  BY <1>2, <1>6, HoldsLess
<1> QED BY <1>1, <1>2, <1>5, <1>7, <1>8 DEF Fine, v

\* The consumer cancels: what was buffered is gone, and the page is told.
LEMMA FineCancel ==
  ASSUME NEW w, NEW p, NEW tp, NEW ts, NEW rec, NEW r \in Requests,
         Fine(w, p, tp, ts, rec, r), w.state = "streaming", w.closed = "no"
  PROVE  Fine([w EXCEPT !.closed = "cancel", !.body = <<>>], p, Append(tp, FALSE), <<>>, rec, r)
<1> DEFINE v == [w EXCEPT !.closed = "cancel", !.body = <<>>]
           tq == Append(tp, FALSE)
<1>1. /\ p \in Streams /\ w \in Responses /\ rec \in Seq(Nat) /\ p.mail = "read"
  BY DEF Fine, Stage
<1>2. /\ v \in Responses /\ v.state = w.state /\ v.page = w.page /\ v.pending = w.pending
      /\ v.pulling = w.pulling /\ v.body = <<>> /\ v.closed = "cancel"
  <2>1. <<>> \in Seq(Seq(Nat))
    OBVIOUS
  <2> QED BY <1>1, <2>1 DEF Responses
<1>3. ~Carries(<<>>) /\ Len(<<>>) = 0
  BY CarriesFacts
<1>4. tp = <<>> \/ tp = <<TRUE>>
  BY DEF Fine, Flow
<1>5. tp = <<>> => tq = <<FALSE>>
  BY Short
<1>6. tp = <<TRUE>> => tq = <<TRUE, FALSE>>
  BY Short
<1> HIDE DEF v, tq
<1>7. p.reads = 1 => tp = <<>>
  <2>1. <<TRUE>> # <<FALSE>> /\ <<TRUE>> # <<>>
    <3>1. FALSE # TRUE
      OBVIOUS
    <3>2. <<TRUE>>[1] = TRUE /\ <<FALSE>>[1] = FALSE /\ Len(<<TRUE>>) = 1 /\ Len(<<>>) = 0
      OBVIOUS
    <3> QED BY <3>1, <3>2
  <2> QED BY <1>4, <2>1 DEF Fine, Flow
<1>8. Stage(v, p, tq, <<>>, rec)
  BY <1>1, <1>2 DEF Stage
<1>9. Flow(v, p, tq, <<>>)
  <2>1. p.reads \in {0, 1}
    BY DEF Fine, Flow
  <2>2. tq = <<FALSE>> \/ tq = <<TRUE, FALSE>>
    BY <1>4, <1>5, <1>6
  <2>3. p.reads = 1 => tq = <<FALSE>>
    BY <1>5, <1>7
  <2>4. Len(v.body) = 0
    BY <1>2, <1>3
  <2>5. Flow(v, p, <<FALSE>>, <<>>) /\ (p.reads = 0 => Flow(v, p, <<TRUE, FALSE>>, <<>>))
    BY <1>2, <1>3, <2>1, <2>4 DEF Flow, Notices
  <2> QED BY <2>1, <2>2, <2>3, <2>5
<1>10. Holds(v, p, <<>>, rec, r)
  BY <1>2, HoldsLess
<1> QED BY <1>1, <1>2, <1>8, <1>9, <1>10 DEF Fine, v, tq

\* The consumer's pull is sent, or waits behind the one that is out.
LEMMA FinePull ==
  ASSUME NEW w, NEW p, NEW tp, NEW ts, NEW rec, NEW r,
         Fine(w, p, tp, ts, rec, r), w.state = "streaming", w.closed = "no", w.body = <<>>
  PROVE  /\ w.pending => Fine([w EXCEPT !.pulling = TRUE], p, tp, ts, rec, r)
         /\ ~w.pending => Fine([w EXCEPT !.pending = TRUE], p, Append(tp, TRUE), ts, rec, r)
<1>1. /\ p \in Streams /\ w \in Responses /\ rec \in Seq(Nat) /\ p.mail = "read"
      /\ w.pending \in BOOLEAN
  BY FineParts DEF Fine, Stage
<1>2. ASSUME w.pending PROVE Fine([w EXCEPT !.pulling = TRUE], p, tp, ts, rec, r)
  <2> DEFINE v == [w EXCEPT !.pulling = TRUE]
  <2>1. /\ v \in Responses /\ v.state = w.state /\ v.page = w.page /\ v.pending = w.pending
        /\ v.pulling = TRUE /\ v.body = w.body /\ v.closed = w.closed
    BY <1>1 DEF Responses
  <2> HIDE DEF v
  <2>2. Stage(v, p, tp, ts, rec)
    BY <1>1, <2>1 DEF Stage
  <2>3. Flow(v, p, tp, ts)
    BY <1>2, <2>1 DEF Fine, Flow
  <2>4. Holds(v, p, ts, rec, r)
    BY <2>1 DEF Fine, Holds
  <2> QED BY <1>1, <2>1, <2>2, <2>3, <2>4 DEF Fine, v
<1>3. ASSUME ~w.pending PROVE Fine([w EXCEPT !.pending = TRUE], p, Append(tp, TRUE), ts, rec, r)
  <2> DEFINE v == [w EXCEPT !.pending = TRUE]
  <2>1. /\ v \in Responses /\ v.state = w.state /\ v.page = w.page /\ v.pending = TRUE
        /\ v.pulling = w.pulling /\ v.body = w.body /\ v.closed = w.closed
    BY <1>1 DEF Responses
  <2> HIDE DEF v
  <2>2. tp # <<TRUE>> /\ p.reads # 1 /\ ~Carries(ts) /\ tp \in {<<>>, <<TRUE>>} /\ p.reads \in {0, 1}
        /\ ~w.pulling
    BY <1>3 DEF Fine, Flow
  <2>3. Append(tp, TRUE) = <<TRUE>> /\ p.reads = 0
    BY <2>2, Short
  <2>4. Len(v.body) = 0
    BY <2>1
  <2>5. Stage(v, p, <<TRUE>>, ts, rec)
    BY <1>1, <2>1 DEF Stage
  <2>6. Flow(v, p, <<TRUE>>, ts)
    BY <2>1, <2>2, <2>3, <2>4 DEF Fine, Flow
  <2>7. Holds(v, p, ts, rec, r)
    BY <2>1 DEF Fine, Holds
  <2> QED BY <1>1, <2>1, <2>3, <2>5, <2>6, <2>7 DEF Fine, v
<1> QED BY <1>2, <1>3

\* The consumer takes the first chunk of the body.
LEMMA FineConsumed ==
  ASSUME NEW w, NEW p, NEW tp, NEW ts, NEW rec, NEW r,
         Fine(w, p, tp, ts, rec, r), w.body # <<>>
  PROVE  Fine([w EXCEPT !.body = Tail(@)], p, tp, ts, rec \o Head(w.body), r)
<1> DEFINE v == [w EXCEPT !.body = Tail(@)]
           new == rec \o Head(w.body)
<1>1. /\ p \in Streams /\ w \in Responses /\ rec \in Seq(Nat) /\ w.body \in Seq(Seq(Nat))
      /\ w.state \in {"idle", "queued", "asked", "streaming"} /\ Len(w.body) <= 2
  BY FineParts DEF Fine, Flow
<1>2. w.state = "streaming" /\ p.mail = "read"
  <2>1. w.state \in {"idle", "queued"} => w.body = <<>>
    BY DEF Fine, Stage, NoResponse
  <2>2. w.state = "streaming"
    BY <1>1, <2>1 DEF Fine, Stage
  <2> QED BY <2>2 DEF Fine, Stage
<1>3. /\ Head(w.body) \in Seq(Nat) /\ Tail(w.body) \in Seq(Seq(Nat))
      /\ Len(Tail(w.body)) = Len(w.body) - 1
  BY <1>1, HeadTailProperties
<1>4. Joined(w.body) = Head(w.body) \o Joined(Tail(w.body)) /\ Joined(Tail(w.body)) \in Seq(Nat)
  <2>1. CASE \E x \in Seq(Nat) : w.body = <<x>>
    <3>1. PICK x \in Seq(Nat) : w.body = <<x>>
      BY <2>1
    <3>2. Head(w.body) = x /\ Tail(w.body) = <<>>
      BY <3>1, Short
    <3>3. Joined(<<x>>) = x /\ Joined(<<>>) = <<>> /\ x \o <<>> = x /\ <<>> \in Seq(Nat)
      BY JoinedFacts, ConcatEmptySeq
    <3> QED BY <3>1, <3>2, <3>3
  <2>2. CASE \E x, y \in Seq(Nat) : w.body = <<x, y>>
    <3>1. PICK x \in Seq(Nat), y \in Seq(Nat) : w.body = <<x, y>>
      BY <2>2
    <3>2. Head(w.body) = x /\ Tail(w.body) = <<y>>
      BY <3>1, Short
    <3>3. Joined(<<x, y>>) = x \o y /\ Joined(<<y>>) = y
      BY JoinedFacts
    <3> QED BY <3>1, <3>2, <3>3
  <2> QED BY <1>1, <2>1, <2>2, BodyShapes
<1>5. /\ v \in Responses /\ v.state = w.state /\ v.page = w.page /\ v.pending = w.pending
      /\ v.pulling = w.pulling /\ v.body = Tail(w.body) /\ v.closed = w.closed
  BY <1>1, <1>3 DEF Responses
<1>6. new \in Seq(Nat) /\ new \o Joined(Tail(w.body)) = rec \o Joined(w.body)
  <2>1. rec \o Head(w.body) \in Seq(Nat)
    BY <1>1, <1>3
  <2>2. (rec \o Head(w.body)) \o Joined(Tail(w.body)) = rec \o (Head(w.body) \o Joined(Tail(w.body)))
    <3>1. PICK x \in Seq(Nat), y \in Seq(Nat), z \in Seq(Nat) :
            x = rec /\ y = Head(w.body) /\ z = Joined(Tail(w.body))
      BY <1>1, <1>3, <1>4
    <3>2. (x \o y) \o z = x \o (y \o z)
      BY ConcatAssociative
    <3> QED BY <3>1, <3>2
  <2> QED BY <1>4, <2>1, <2>2
<1> HIDE DEF v, new
<1>7. Stage(v, p, tp, ts, new)
  BY <1>2, <1>5 DEF Fine, Stage
<1>8. Flow(v, p, tp, ts)
  <2>1. Len(v.body) <= 2 /\ (Len(w.body) <= 1 => Len(v.body) <= 1)
    BY <1>1, <1>3, <1>5
  <2>2. w.closed = "no" => ~w.pulling
    BY DEF Fine, Flow
  <2> QED BY <1>5, <2>1, <2>2 DEF Fine, Flow
<1>9. Holds(v, p, ts, new, r)
  BY <1>5, <1>6 DEF Fine, Holds
<1> QED BY <1>1, <1>5, <1>6, <1>7, <1>8, <1>9 DEF Fine, v, new
-----------------------------------------------------------------------------
\* Initially no request has been made.
LEMMA InitStreamInv ==
  ASSUME StreamInit
  PROVE  StreamInv
<1>1. ASSUME NEW r \in Requests PROVE Fine(NoResponse, NoStream, <<>>, <<>>, <<>>, r)
  <2>1. /\ NoResponse \in Responses /\ NoResponse.state = "idle" /\ NoResponse.body = <<>>
        /\ NoResponse.closed = "no" /\ ~NoResponse.pending /\ ~NoResponse.pulling
    <3>1. <<>> \in Seq(Seq(Nat))
      OBVIOUS
    <3> QED BY <3>1 DEF NoResponse, Responses
  <2>2. /\ NoStream \in Streams /\ NoStream.mail = "none" /\ ~NoStream.open
        /\ NoStream.offset = 0 /\ NoStream.reads = 0
    BY DEF NoStream, Streams
  <2>3. NoResponse = [NoResponse EXCEPT !.state = NoResponse.state]
    BY DEF NoResponse
  <2>4. Stage(NoResponse, NoStream, <<>>, <<>>, <<>>)
    BY <2>1, <2>2, <2>3 DEF Stage
  <2>5. ~Carries(<<>>) /\ Len(<<>>) = 0 /\ Flying(<<>>) = <<>> /\ Joined(<<>>) = <<>>
    BY CarriesFacts, JoinedFacts
  <2>6. Flow(NoResponse, NoStream, <<>>, <<>>)
    <3>1. <<>> # <<TRUE>>
      <4>1. Len(<<TRUE>>) = 1
        OBVIOUS
      <4> QED BY <2>5, <4>1
    <3> QED BY <2>1, <2>2, <2>5, <3>1 DEF Flow, Notices
  <2>7. Holds(NoResponse, NoStream, <<>>, <<>>, r)
    <3>1. /\ FirstByte[r] \in FirstByte[r]..Top(r) /\ FirstByte[r] \in Nat
          /\ 0 <= Top(r)
      BY TopFacts
    <3>2. Bytes(FirstByte[r], FirstByte[r]) = <<>>
      BY <3>1, BytesEmpty
    <3>3. <<>> \o <<>> \o <<>> = <<>>
      OBVIOUS
    <3>4. <<>> \o Joined(NoResponse.body) \o Flying(<<>>) = Bytes(FirstByte[r], FirstByte[r])
      BY <2>1, <2>5, <3>2, <3>3
    <3> QED BY <2>2, <3>1, <3>4 DEF Holds
  <2>8. <<>> \in Seq(Nat)
    OBVIOUS
  <2> QED BY <2>1, <2>2, <2>4, <2>6, <2>7, <2>8 DEF Fine
<1>2. queue \in Seq(Requests) /\ Len(queue) = 0
  BY DEF StreamInit
<1>3. IsInjective(queue)
  BY <1>2 DEF IsInjective
<1>4. \A i \in 1..Len(queue) : sw[queue[i]].state = "queued"
  BY <1>2
<1>5. \A r \in Requests : Fine(sw[r], page[r], toPage[r], toSw[r], received[r], r)
  BY <1>1 DEF StreamInit
<1> QED BY <1>2, <1>3, <1>4, <1>5 DEF StreamInit, StreamInv

\* A step of one request.
LEMMA OneRequest ==
  ASSUME StreamInv, NEW r \in Requests, UNCHANGED routing,
         DOMAIN sw' = Requests, DOMAIN page' = Requests, DOMAIN toPage' = Requests,
         DOMAIN toSw' = Requests, DOMAIN received' = Requests,
         \A s \in Requests \ {r} :
           /\ sw'[s] = sw[s] /\ page'[s] = page[s] /\ toPage'[s] = toPage[s]
           /\ toSw'[s] = toSw[s] /\ received'[s] = received[s],
         Fine(sw'[r], page'[r], toPage'[r], toSw'[r], received'[r], r),
         sw'[r].state = sw[r].state
  PROVE  StreamInv'
<1>1. pagePort' = pagePort /\ ports' = ports /\ gone' = gone /\ queue' = queue /\ loop' = loop
  BY DEF routing
<1>2. \A s \in Requests : Fine(sw'[s], page'[s], toPage'[s], toSw'[s], received'[s], s)
  BY DEF StreamInv
<1>3. \A s \in Requests : sw'[s].state = sw[s].state
  OBVIOUS
<1>4. \A i \in 1..Len(queue) : sw'[queue[i]].state = "queued"
  BY <1>3 DEF StreamInv
<1> QED BY <1>1, <1>2, <1>4 DEF StreamInv

\* The queue without its first request.
LEMMA QueueTail ==
  ASSUME NEW q \in Seq(Requests), IsInjective(q), q # <<>>
  PROVE  /\ Head(q) \in Requests /\ Head(q) = q[1] /\ 1 \in 1..Len(q)
         /\ Tail(q) \in Seq(Requests) /\ IsInjective(Tail(q))
         /\ \A i \in 1..Len(Tail(q)) : Tail(q)[i] # Head(q) /\ i + 1 \in 1..Len(q)
                                     /\ Tail(q)[i] = q[i + 1]
<1>1. PICK n \in Nat : n = Len(q)
  OBVIOUS
<1>2. /\ Head(q) \in Requests /\ Head(q) = q[1] /\ n # 0
      /\ Tail(q) \in Seq(Requests) /\ Len(Tail(q)) = n - 1
      /\ \A i \in 1..Len(Tail(q)) : Tail(q)[i] = q[i + 1]
  BY <1>1, HeadTailProperties, EmptySeq
<1>3. \A i, j \in 1..n : q[i] = q[j] => i = j
  BY <1>1 DEF IsInjective
<1>4. \A i \in 1..(n - 1) : i + 1 \in 1..n /\ 1 \in 1..n /\ i + 1 # 1
  OBVIOUS
<1>5. \A i \in 1..(n - 1) : Tail(q)[i] # Head(q)
  BY <1>2, <1>3, <1>4
<1>6. IsInjective(Tail(q))
  <2>1. DOMAIN Tail(q) = 1..(n - 1)
    BY <1>2
  <2>2. ASSUME NEW i \in 1..(n - 1), NEW j \in 1..(n - 1), Tail(q)[i] = Tail(q)[j] PROVE i = j
    <3>1. q[i + 1] = q[j + 1]
      BY <1>2, <2>2
    <3>2. i + 1 = j + 1
      BY <1>3, <1>4, <3>1
    <3> QED BY <3>2
  <2> QED BY <2>1, <2>2 DEF IsInjective
<1>7. 1 \in 1..n
  BY <1>2
<1> QED BY <1>1, <1>2, <1>4, <1>5, <1>6, <1>7

AskedBy(owner) == Asked(owner, NextQueued)
MailedNext == Mailed(NextQueued)

\* processQueue goes on.
LEMMA NextAsked ==
  ASSUME StreamInv, NEW owner \in Pages \cup {Null}, NEW p \in Pages, NextOf(p)
  PROVE  /\ queue' \in Seq(Requests) /\ IsInjective(queue') /\ loop' \in [Pages -> Requests \cup {Null}]
         /\ DOMAIN AskedBy(owner) = Requests /\ DOMAIN MailedNext = Requests
         /\ \A s \in Requests : Fine(AskedBy(owner)[s], MailedNext[s], toPage[s], toSw[s], received[s], s)
         /\ \A s \in Requests : sw[s].state # "queued" => AskedBy(owner)[s] = sw[s] /\ MailedNext[s] = page[s]
         /\ \A i \in 1..Len(queue') : AskedBy(owner)[queue'[i]].state = "queued" /\ sw[queue'[i]].state = "queued"
<1>1. /\ queue \in Seq(Requests) /\ IsInjective(queue) /\ loop \in [Pages -> Requests \cup {Null}]
      /\ \A i \in 1..Len(queue) : sw[queue[i]].state = "queued"
      /\ \A s \in Requests : Fine(sw[s], page[s], toPage[s], toSw[s], received[s], s)
  BY DEF StreamInv
<1>2. /\ DOMAIN AskedBy(owner) = Requests /\ DOMAIN MailedNext = Requests
      /\ \A s \in Requests : AskedBy(owner)[s] = IF s \in NextQueued
                                      THEN [sw[s] EXCEPT !.state = "asked", !.page = owner] ELSE sw[s]
      /\ \A s \in Requests : MailedNext[s] = IF s \in NextQueued
                                      THEN [page[s] EXCEPT !.mail = "request"] ELSE page[s]
  BY DEF Asked, Mailed, AskedBy, MailedNext
<1>3. CASE queue = <<>>
  <2>1. NextQueued = {} /\ queue' = queue /\ loop' = [loop EXCEPT ![p] = Null]
    BY <1>3 DEF NextQueued, NextOf
  <2>2. loop' \in [Pages -> Requests \cup {Null}]
    BY <1>1, <2>1
  <2>3. \A s \in Requests : AskedBy(owner)[s] = sw[s] /\ MailedNext[s] = page[s]
    BY <1>2, <2>1
  <2>4. \A i \in 1..Len(queue) : queue[i] \in Requests
    BY <1>1
  <2> QED BY <1>1, <1>2, <2>1, <2>2, <2>3, <2>4
<1>4. CASE queue # <<>>
  <2> DEFINE h == Head(queue)
  <2>1. NextQueued = {h} /\ queue' = Tail(queue) /\ loop' = [loop EXCEPT ![p] = h]
    BY <1>4 DEF NextQueued, NextOf
  <2>2. /\ h \in Requests /\ h = queue[1] /\ 1 \in 1..Len(queue)
        /\ Tail(queue) \in Seq(Requests) /\ IsInjective(Tail(queue))
        /\ \A i \in 1..Len(Tail(queue)) : Tail(queue)[i] # h /\ i + 1 \in 1..Len(queue)
                                     /\ Tail(queue)[i] = queue[i + 1]
    BY <1>1, <1>4, QueueTail
  <2> HIDE DEF h
  <2>3. sw[h].state = "queued"
    BY <1>1, <2>2
  <2>4. loop' \in [Pages -> Requests \cup {Null}]
    BY <1>1, <2>1, <2>2
  <2>5. /\ AskedBy(owner)[h] = [sw[h] EXCEPT !.state = "asked", !.page = owner]
        /\ MailedNext[h] = [page[h] EXCEPT !.mail = "request"]
        /\ \A s \in Requests \ {h} : AskedBy(owner)[s] = sw[s] /\ MailedNext[s] = page[s]
    BY <1>2, <2>1, <2>2
  <2>6. Fine(AskedBy(owner)[h], MailedNext[h], toPage[h], toSw[h], received[h], h)
    <3>1. Fine(sw[h], page[h], toPage[h], toSw[h], received[h], h)
      BY <1>1, <2>2
    <3>2. Fine([sw[h] EXCEPT !.state = "asked", !.page = owner], [page[h] EXCEPT !.mail = "request"],
               toPage[h], toSw[h], received[h], h)
      BY <2>3, <3>1, FineAsked
    <3> QED BY <2>5, <3>2
  <2>7. \A s \in Requests : Fine(AskedBy(owner)[s], MailedNext[s], toPage[s], toSw[s], received[s], s)
    BY <1>1, <2>5, <2>6
  <2>8. \A s \in Requests : sw[s].state # "queued" => AskedBy(owner)[s] = sw[s] /\ MailedNext[s] = page[s]
    BY <2>3, <2>5
  <2>9. ASSUME NEW i \in 1..Len(Tail(queue))
        PROVE  AskedBy(owner)[Tail(queue)[i]].state = "queued" /\ sw[Tail(queue)[i]].state = "queued"
    <3>1. Tail(queue)[i] \in Requests \ {h}
      BY <2>2
    <3>2. sw[Tail(queue)[i]].state = "queued"
      BY <1>1, <2>2
    <3> QED BY <2>5, <3>1, <3>2
  <2> QED BY <1>2, <2>1, <2>2, <2>4, <2>7, <2>8, <2>9
<1> QED BY <1>3, <1>4
-----------------------------------------------------------------------------
\* The browser fetches a stream URL: asked of the page, or queued.
LEMMA FetchStep ==
  ASSUME StreamInv, NEW r \in Requests, Fetch(r)
  PROVE  StreamInv'
<1>1. \A s \in Requests : Fine(sw[s], page[s], toPage[s], toSw[s], received[s], s)
  BY DEF StreamInv
<1>2. /\ DOMAIN sw = Requests /\ DOMAIN page = Requests /\ sw[r].state = "idle"
      /\ pagePort \in Pages \cup {Null}
      /\ UNCHANGED <<pagePort, ports, gone, loop, toPage, toSw, received>>
  BY DEF StreamInv, Fetch
<1>3. /\ queue \in Seq(Requests) /\ IsInjective(queue)
      /\ \A i \in 1..Len(queue) : sw[queue[i]].state = "queued"
  BY DEF StreamInv
<1>4. PICK n \in Nat : n = Len(queue)
  BY <1>3
<1>5. \A i \in 1..n : queue[i] \in Requests /\ queue[i] # r
  BY <1>2, <1>3, <1>4
<1>6. CASE pagePort = Null
  <2>1. queue' = Append(queue, r) /\ sw' = [sw EXCEPT ![r].state = "queued"] /\ page' = page
    BY <1>6 DEF Fetch
  <2>2. /\ DOMAIN sw' = Requests /\ sw'[r] = [sw[r] EXCEPT !.state = "queued"]
        /\ \A s \in Requests \ {r} : sw'[s] = sw[s]
    BY <1>2, <2>1
  <2>3. Fine(sw'[r], page[r], toPage[r], toSw[r], received[r], r)
    BY <1>1, <1>2, <2>2, FineQueued
  <2>4. \A s \in Requests : Fine(sw'[s], page'[s], toPage'[s], toSw'[s], received'[s], s)
    BY <1>1, <1>2, <2>1, <2>2, <2>3
  <2>5. /\ queue' \in Seq(Requests) /\ Len(queue') = n + 1
        /\ \A i \in 1..n : queue'[i] = queue[i]
        /\ queue'[n + 1] = r
    BY <1>3, <1>4, <2>1, AppendProperties
  <2>6. IsInjective(queue')
    <3>1. DOMAIN queue' = 1..(n + 1)
      BY <2>5
    <3>2. \A i, j \in 1..n : queue[i] = queue[j] => i = j
      <4>1. DOMAIN queue = 1..n
        BY <1>3, <1>4
      <4> QED BY <1>3, <4>1 DEF IsInjective
    <3>3. \A i \in 1..(n + 1) : i \in 1..n \/ i = n + 1
      OBVIOUS
    <3>4. ASSUME NEW i \in 1..(n + 1), NEW j \in 1..(n + 1), queue'[i] = queue'[j] PROVE i = j
      BY <1>5, <2>5, <3>2, <3>3, <3>4
    <3> QED BY <3>1, <3>4 DEF IsInjective
  <2>7. ASSUME NEW i \in 1..Len(queue') PROVE sw'[queue'[i]].state = "queued"
    <3>1. sw'[r].state = "queued"
      <4>1. sw[r] \in Responses
        BY <1>1 DEF Fine
      <4> QED BY <2>2, <4>1 DEF Responses
    <3>2. i \in 1..n \/ i = n + 1
      BY <2>5
    <3>3. ASSUME i \in 1..n PROVE sw'[queue'[i]].state = "queued"
      <4>1. queue'[i] = queue[i] /\ queue[i] \in Requests \ {r} /\ sw[queue[i]].state = "queued"
        BY <1>3, <1>4, <1>5, <2>5, <3>3
      <4> QED BY <2>2, <4>1
    <3> QED BY <2>5, <3>1, <3>2, <3>3
  <2> QED BY <1>2, <2>1, <2>2, <2>4, <2>5, <2>6, <2>7 DEF StreamInv
<1>7. CASE pagePort # Null
  <2>1. queue' = queue /\ sw' = Asked(pagePort, {r}) /\ page' = Mailed({r})
    BY <1>7 DEF Fetch
  <2>2. /\ DOMAIN sw' = Requests /\ sw'[r] = [sw[r] EXCEPT !.state = "asked", !.page = pagePort]
        /\ DOMAIN page' = Requests /\ page'[r] = [page[r] EXCEPT !.mail = "request"]
        /\ \A s \in Requests \ {r} : sw'[s] = sw[s] /\ page'[s] = page[s]
    BY <2>1 DEF Asked, Mailed
  <2>3. Fine(sw'[r], page'[r], toPage[r], toSw[r], received[r], r)
    <3>1. Fine([sw[r] EXCEPT !.state = "asked", !.page = pagePort], [page[r] EXCEPT !.mail = "request"],
               toPage[r], toSw[r], received[r], r)
      BY <1>1, <1>2, FineAsked
    <3> QED BY <2>2, <3>1
  <2>4. \A s \in Requests : Fine(sw'[s], page'[s], toPage'[s], toSw'[s], received'[s], s)
    BY <1>1, <1>2, <2>2, <2>3
  <2>5. \A i \in 1..Len(queue) : sw'[queue[i]].state = "queued"
    BY <1>3, <1>4, <1>5, <2>2
  <2> QED BY <1>2, <1>3, <2>1, <2>2, <2>4, <2>5 DEF StreamInv
<1> QED BY <1>6, <1>7

\* A page hands its port over, and takes the first request of the queue.
LEMMA SetPagePortStep ==
  ASSUME StreamInv, NEW p \in Pages, SetPagePort(p)
  PROVE  StreamInv'
<1>1. /\ NextOf(p) /\ sw' = AskedBy(p) /\ page' = MailedNext
      /\ ports' = ports \cup {p} /\ pagePort' = p /\ UNCHANGED <<gone, toPage, toSw, received>>
  BY DEF SetPagePort, AskedBy, MailedNext
<1>2. /\ queue' \in Seq(Requests) /\ IsInjective(queue') /\ loop' \in [Pages -> Requests \cup {Null}]
      /\ DOMAIN AskedBy(p) = Requests /\ DOMAIN MailedNext = Requests
      /\ \A s \in Requests : Fine(AskedBy(p)[s], MailedNext[s], toPage[s], toSw[s], received[s], s)
      /\ \A i \in 1..Len(queue') : AskedBy(p)[queue'[i]].state = "queued"
  BY <1>1, NextAsked
<1> QED BY <1>1, <1>2 DEF StreamInv

\* The headers of a response arrive; a queued one makes room for the next.
LEMMA HeadersStep ==
  ASSUME StreamInv, NEW r \in Requests, Headers(r)
  PROVE  StreamInv'
<1>1. Fine(sw[r], page[r], toPage[r], toSw[r], received[r], r)
  BY DEF StreamInv
<1>2. /\ DOMAIN sw = Requests /\ DOMAIN page = Requests /\ DOMAIN toPage = Requests
      /\ DOMAIN toSw = Requests /\ DOMAIN received = Requests
  BY DEF StreamInv
<1>3. /\ page[r].mail = "headers" /\ sw[r].closed = "no"
      /\ toPage' = [toPage EXCEPT ![r] = Append(@, TRUE)]
      /\ UNCHANGED <<pagePort, ports, gone, toSw, received>>
  BY DEF Headers
<1>4. /\ Fine([sw[r] EXCEPT !.state = "streaming", !.pending = TRUE], [page[r] EXCEPT !.mail = "read"],
              Append(toPage[r], TRUE), toSw[r], received[r], r)
      /\ sw[r].state = "asked"
  BY <1>1, <1>3, FineHeaders
<1>5. /\ DOMAIN toPage' = Requests /\ toPage'[r] = Append(toPage[r], TRUE)
      /\ \A s \in Requests \ {r} : toPage'[s] = toPage[s]
  BY <1>2, <1>3
<1>6. CASE /\ sw' = [sw EXCEPT ![r].state = "streaming", ![r].pending = TRUE]
           /\ page' = [page EXCEPT ![r].mail = "read"]
           /\ UNCHANGED <<queue, loop>>
  <2>1. /\ sw'[r] = [sw[r] EXCEPT !.state = "streaming", !.pending = TRUE] /\ DOMAIN sw' = Requests
        /\ page'[r] = [page[r] EXCEPT !.mail = "read"] /\ DOMAIN page' = Requests
        /\ \A s \in Requests \ {r} : sw'[s] = sw[s] /\ page'[s] = page[s]
    BY <1>2, <1>6
  <2>2. Fine(sw'[r], page'[r], toPage'[r], toSw[r], received[r], r)
    BY <1>4, <1>5, <2>1
  <2>3. \A s \in Requests : Fine(sw'[s], page'[s], toPage'[s], toSw'[s], received'[s], s)
    BY <1>3, <1>5, <2>1, <2>2 DEF StreamInv
  <2>4. \A i \in 1..Len(queue) : queue[i] \in Requests \ {r}
    BY <1>4 DEF StreamInv
  <2>5. \A i \in 1..Len(queue) : sw'[queue[i]].state = "queued"
    BY <2>1, <2>4 DEF StreamInv
  <2> QED BY <1>2, <1>3, <1>5, <1>6, <2>1, <2>3, <2>5 DEF StreamInv
<1>7. CASE \E p \in Pages :
             /\ sw' = [AskedBy(pagePort) EXCEPT ![r].state = "streaming", ![r].pending = TRUE]
             /\ page' = [MailedNext EXCEPT ![r].mail = "read"]
             /\ NextOf(p)
  <2>1. PICK p \in Pages :
             /\ sw' = [AskedBy(pagePort) EXCEPT ![r].state = "streaming", ![r].pending = TRUE]
             /\ page' = [MailedNext EXCEPT ![r].mail = "read"]
             /\ NextOf(p)
    BY <1>7
  <2>2. pagePort \in Pages \cup {Null}
    BY DEF StreamInv
  <2>3. /\ queue' \in Seq(Requests) /\ IsInjective(queue') /\ loop' \in [Pages -> Requests \cup {Null}]
        /\ DOMAIN AskedBy(pagePort) = Requests /\ DOMAIN MailedNext = Requests
        /\ \A s \in Requests : Fine(AskedBy(pagePort)[s], MailedNext[s], toPage[s], toSw[s], received[s], s)
        /\ \A s \in Requests : sw[s].state # "queued" => AskedBy(pagePort)[s] = sw[s] /\ MailedNext[s] = page[s]
        /\ \A i \in 1..Len(queue') : AskedBy(pagePort)[queue'[i]].state = "queued" /\ sw[queue'[i]].state = "queued"
    BY <2>1, <2>2, NextAsked
  <2>4. AskedBy(pagePort)[r] = sw[r] /\ MailedNext[r] = page[r]
    BY <1>4, <2>3
  <2>5. /\ sw'[r] = [sw[r] EXCEPT !.state = "streaming", !.pending = TRUE] /\ DOMAIN sw' = Requests
        /\ page'[r] = [page[r] EXCEPT !.mail = "read"] /\ DOMAIN page' = Requests
        /\ \A s \in Requests \ {r} : sw'[s] = AskedBy(pagePort)[s] /\ page'[s] = MailedNext[s]
    BY <2>1, <2>3, <2>4
  <2>6. Fine(sw'[r], page'[r], toPage'[r], toSw[r], received[r], r)
    BY <1>4, <1>5, <2>5
  <2>7. \A s \in Requests : Fine(sw'[s], page'[s], toPage'[s], toSw'[s], received'[s], s)
    BY <1>3, <1>5, <2>3, <2>5, <2>6
  <2>8. \A i \in 1..Len(queue') : queue'[i] \in Requests \ {r}
    BY <1>4, <2>3
  <2>9. \A i \in 1..Len(queue') : sw'[queue'[i]].state = "queued"
    BY <2>3, <2>5, <2>8
  <2>10. ports \subseteq Pages /\ gone \subseteq ports
    BY DEF StreamInv
  <2> QED BY <1>2, <1>3, <1>5, <2>2, <2>3, <2>5, <2>7, <2>9, <2>10 DEF StreamInv
<1> QED BY <1>6, <1>7 DEF Headers, AskedBy, MailedNext

\* The page answers the request it was mailed.
LEMMA PageRequestStep ==
  ASSUME StreamInv, NEW r \in Requests, PageRequest(r)
  PROVE  StreamInv'
<1>1. Fine(sw[r], page[r], toPage[r], toSw[r], received[r], r)
  BY DEF StreamInv
<1>2. /\ DOMAIN sw = Requests /\ DOMAIN page = Requests /\ DOMAIN toPage = Requests
      /\ DOMAIN toSw = Requests /\ DOMAIN received = Requests
  BY DEF StreamInv
<1>3. page[r].mail = "request" /\ UNCHANGED <<routing, sw, toPage, received>>
  BY DEF PageRequest
<1>4. /\ Fine(sw[r], [mail |-> "headers", open |-> TRUE, offset |-> FirstByte[r], reads |-> 0],
              toPage[r], toSw[r], received[r], r)
      /\ Fine(sw[r], [page[r] EXCEPT !.mail = "read"], toPage[r], toSw[r] \o <<Object, End>>,
              received[r], r)
  BY <1>1, <1>3, FineOpens
<1>5. CASE /\ page' = [page EXCEPT ![r] = [mail |-> "headers", open |-> TRUE,
                                           offset |-> FirstByte[r], reads |-> 0]]
           /\ UNCHANGED toSw
  <2>1. Fine(sw'[r], page'[r], toPage'[r], toSw'[r], received'[r], r)
    BY <1>2, <1>3, <1>4, <1>5
  <2> QED BY <1>2, <1>3, <1>5, <2>1, OneRequest
<1>6. CASE /\ page' = [page EXCEPT ![r].mail = "read"]
           /\ toSw' = [toSw EXCEPT ![r] = @ \o <<Object, End>>]
  <2>1. Fine(sw'[r], page'[r], toPage'[r], toSw'[r], received'[r], r)
    BY <1>2, <1>3, <1>4, <1>6
  <2> QED BY <1>2, <1>3, <1>6, <2>1, OneRequest
<1> QED BY <1>5, <1>6 DEF PageRequest

\* The page handles a pull or a cancel.
LEMMA PageMessageStep ==
  ASSUME StreamInv, NEW r \in Requests, PageMessage(r)
  PROVE  StreamInv'
<1>1. Fine(sw[r], page[r], toPage[r], toSw[r], received[r], r)
  BY DEF StreamInv
<1>2. /\ DOMAIN sw = Requests /\ DOMAIN page = Requests /\ DOMAIN toPage = Requests
      /\ DOMAIN toSw = Requests /\ DOMAIN received = Requests
  BY DEF StreamInv
<1>3. /\ toPage[r] # <<>> /\ UNCHANGED <<routing, sw, received>>
      /\ toPage' = [toPage EXCEPT ![r] = Tail(@)]
  BY DEF PageMessage
<1>4. /\ ~page[r].open => Fine(sw[r], page[r], Tail(toPage[r]), toSw[r], received[r], r)
      /\ page[r].open /\ ~Head(toPage[r]) =>
           Fine(sw[r], [page[r] EXCEPT !.open = FALSE], Tail(toPage[r]), toSw[r], received[r], r)
      /\ page[r].open /\ Head(toPage[r]) =>
           Fine(sw[r], [page[r] EXCEPT !.open = FALSE], Tail(toPage[r]),
                Posted(sw[r], toSw[r], End), received[r], r)
      /\ page[r].open /\ Head(toPage[r]) =>
           Fine(sw[r], [page[r] EXCEPT !.reads = @ + 1], Tail(toPage[r]), toSw[r], received[r], r)
  BY <1>1, <1>3, FinePulled
<1>5. CASE ~page[r].open /\ UNCHANGED <<page, toSw>>
  <2>1. Fine(sw'[r], page'[r], toPage'[r], toSw'[r], received'[r], r)
    BY <1>2, <1>3, <1>4, <1>5
  <2> QED BY <1>2, <1>3, <1>5, <2>1, OneRequest
<1>6. CASE /\ page[r].open /\ ~Head(toPage[r])
           /\ page' = [page EXCEPT ![r].open = FALSE] /\ UNCHANGED toSw
  <2>1. Fine(sw'[r], page'[r], toPage'[r], toSw'[r], received'[r], r)
    BY <1>2, <1>3, <1>4, <1>6
  <2> QED BY <1>2, <1>3, <1>6, <2>1, OneRequest
<1>7. CASE /\ page[r].open /\ Head(toPage[r])
           /\ page' = [page EXCEPT ![r].reads = @ + 1] /\ UNCHANGED toSw
  <2>1. Fine(sw'[r], page'[r], toPage'[r], toSw'[r], received'[r], r)
    BY <1>2, <1>3, <1>4, <1>7
  <2> QED BY <1>2, <1>3, <1>7, <2>1, OneRequest
<1>8. CASE /\ page[r].open /\ Head(toPage[r])
           /\ page' = [page EXCEPT ![r].open = FALSE] /\ Post(r, End)
  <2>1. toSw' = [toSw EXCEPT ![r] = Posted(sw[r], toSw[r], End)]
    BY <1>8 DEF Post, Posted
  <2>2. Fine(sw'[r], page'[r], toPage'[r], toSw'[r], received'[r], r)
    BY <1>2, <1>3, <1>4, <1>8, <2>1
  <2> QED BY <1>2, <1>3, <1>8, <2>1, <2>2, OneRequest
<1> QED BY <1>5, <1>6, <1>7, <1>8 DEF PageMessage

\* The page's read of a block resolves.
LEMMA ReadResolvesStep ==
  ASSUME StreamInv, NEW r \in Requests, ReadResolves(r)
  PROVE  StreamInv'
<1>1. Fine(sw[r], page[r], toPage[r], toSw[r], received[r], r)
  BY DEF StreamInv
<1>2. /\ DOMAIN sw = Requests /\ DOMAIN page = Requests /\ DOMAIN toPage = Requests
      /\ DOMAIN toSw = Requests /\ DOMAIN received = Requests
  BY DEF StreamInv
<1>3. page[r].reads > 0 /\ UNCHANGED <<routing, sw, toPage, received>>
  BY DEF ReadResolves
<1>4. CASE /\ ~page[r].open
           /\ page' = [page EXCEPT ![r].reads = @ - 1]
           /\ UNCHANGED toSw
  <2>1. Fine(sw[r], [page[r] EXCEPT !.reads = @ - 1], toPage[r], toSw[r], received[r], r)
    BY <1>1, <1>3, FineRead
  <2>2. Fine(sw'[r], page'[r], toPage'[r], toSw'[r], received'[r], r)
    BY <1>2, <1>3, <1>4, <2>1
  <2> QED BY <1>2, <1>3, <1>4, <2>2, OneRequest
<1>5. CASE /\ page[r].open /\ page[r].offset >= FileEnd(r)
           /\ page' = [page EXCEPT ![r].reads = @ - 1, ![r].open = FALSE]
           /\ Post(r, End)
  <2>1. Fine(sw[r], [page[r] EXCEPT !.reads = @ - 1, !.open = FALSE], toPage[r],
             Posted(sw[r], toSw[r], End), received[r], r)
    BY <1>1, <1>3, <1>5, FineReadEnds
  <2>2. toSw' = [toSw EXCEPT ![r] = Posted(sw[r], toSw[r], End)]
    BY <1>5 DEF Post, Posted
  <2>3. Fine(sw'[r], page'[r], toPage'[r], toSw'[r], received'[r], r)
    BY <1>2, <1>3, <1>5, <2>1, <2>2
  <2> QED BY <1>2, <1>3, <1>5, <2>2, <2>3, OneRequest
<1>6. CASE /\ page[r].open /\ page[r].offset < FileEnd(r)
           /\ page' = [page EXCEPT ![r].reads = @ - 1, ![r].offset = @ + Len(Block(r))]
           /\ Post(r, Chunk(Block(r)))
  <2> DEFINE new == [page[r] EXCEPT !.reads = @ - 1, !.offset = @ + Len(Block(r))]
  <2>1. Block(r) = Bytes(page[r].offset, IF page[r].offset + BlockSize < FileEnd(r)
                               THEN page[r].offset + BlockSize ELSE FileEnd(r))
    BY DEF Block
  <2>2. Fine(sw[r], new, toPage[r], Posted(sw[r], toSw[r], Chunk(Block(r))), received[r], r)
    BY <1>1, <1>3, <1>6, <2>1, FineReadMore
  <2>3. toSw' = [toSw EXCEPT ![r] = Posted(sw[r], toSw[r], Chunk(Block(r)))]
    BY <1>6 DEF Post, Posted
  <2>4. page' = [page EXCEPT ![r] = new]
    BY <1>6
  <2> HIDE DEF new
  <2>5. Fine(sw'[r], page'[r], toPage'[r], toSw'[r], received'[r], r)
    BY <1>2, <1>3, <2>2, <2>3, <2>4
  <2> QED BY <1>2, <1>3, <2>3, <2>4, <2>5, OneRequest
<1> QED BY <1>4, <1>5, <1>6 DEF ReadResolves

\* The page's read of a block fails.
LEMMA ReadFailsStep ==
  ASSUME StreamInv, NEW r \in Requests, ReadFails(r)
  PROVE  StreamInv'
<1>1. Fine(sw[r], page[r], toPage[r], toSw[r], received[r], r)
  BY DEF StreamInv
<1>2. /\ DOMAIN sw = Requests /\ DOMAIN page = Requests /\ DOMAIN toPage = Requests
      /\ DOMAIN toSw = Requests /\ DOMAIN received = Requests
  BY DEF StreamInv
<1>3. /\ page[r].reads > 0 /\ page' = [page EXCEPT ![r].reads = @ - 1]
      /\ UNCHANGED <<routing, sw, toPage, toSw, received>>
  BY DEF ReadFails
<1>4. Fine(sw[r], [page[r] EXCEPT !.reads = @ - 1], toPage[r], toSw[r], received[r], r)
  BY <1>1, <1>3, FineRead
<1>5. Fine(sw'[r], page'[r], toPage'[r], toSw'[r], received'[r], r)
  BY <1>2, <1>3, <1>4
<1> QED BY <1>2, <1>3, <1>5, OneRequest

\* The worker handles what the page posted.
LEMMA SwMessageStep ==
  ASSUME StreamInv, NEW r \in Requests, SwMessage(r)
  PROVE  StreamInv'
<1>1. Fine(sw[r], page[r], toPage[r], toSw[r], received[r], r)
  BY DEF StreamInv
<1>2. /\ DOMAIN sw = Requests /\ DOMAIN page = Requests /\ DOMAIN toPage = Requests
      /\ DOMAIN toSw = Requests /\ DOMAIN received = Requests
  BY DEF StreamInv
<1>3. /\ toSw[r] # <<>> /\ UNCHANGED <<routing, page, received>>
      /\ toSw' = [toSw EXCEPT ![r] = IF Head(@).type = "end" THEN <<>> ELSE Tail(@)]
  BY DEF SwMessage
<1>4. /\ \/ /\ toSw[r] = <<End>> /\ Head(toSw[r]) = End
         \/ /\ toSw[r] = <<Object, End>> /\ Head(toSw[r]) = Object /\ Tail(toSw[r]) = <<End>>
         \/ \E bytes \in Seq(Nat) :
               /\ toSw[r] = <<Chunk(bytes)>> /\ Head(toSw[r]) = Chunk(bytes)
               /\ Tail(toSw[r]) = <<>> /\ Flying(toSw[r]) = bytes
  BY <1>1, <1>3, MailShapes, SMTT(30)
<1>5. DOMAIN toSw' = Requests /\ \A s \in Requests \ {r} : toSw'[s] = toSw[s]
  BY <1>2, <1>3
<1>6. \/ Head(toSw[r]).type = "chunk" /\ OnChunk(r, Head(toSw[r]).bytes)
      \/ Head(toSw[r]).type = "end" /\ OnEnd(r)
      \/ Head(toSw[r]).type = "other" /\ UNCHANGED <<sw, toPage>>
  BY DEF SwMessage
<1>7. ASSUME Head(toSw[r]) = End PROVE StreamInv'
  <2>1. Head(toSw[r]).type = "end"
    BY <1>7 DEF End
  <2>2. OnEnd(r) /\ toSw' = [toSw EXCEPT ![r] = <<>>]
    BY <1>3, <1>6, <2>1
  <2>3. /\ sw' = [sw EXCEPT ![r].closed = "end", ![r].pending = FALSE, ![r].pulling = FALSE]
        /\ UNCHANGED toPage
    BY <2>2 DEF OnEnd
  <2>4. Fine([sw[r] EXCEPT !.closed = "end", !.pending = FALSE, !.pulling = FALSE], page[r], toPage[r],
             <<>>, received[r], r)
    BY <1>1, <1>3, FineEnd
  <2>5. Fine(sw'[r], page'[r], toPage'[r], toSw'[r], received'[r], r)
    BY <1>2, <1>3, <2>2, <2>3, <2>4
  <2>6. sw'[r].state = sw[r].state
    BY <1>1, <1>2, <2>3 DEF Fine, Responses
  <2> QED BY <1>2, <1>3, <1>5, <2>3, <2>5, <2>6, OneRequest
<1>8. ASSUME toSw[r] = <<Object, End>>, Head(toSw[r]) = Object, Tail(toSw[r]) = <<End>>
      PROVE  StreamInv'
  <2>1. Head(toSw[r]).type = "other"
    BY <1>8 DEF Object
  <2>2. toSw'[r] = <<End>> /\ UNCHANGED <<sw, toPage>>
    BY <1>2, <1>3, <1>6, <1>8, <2>1
  <2>3. Fine(sw[r], page[r], toPage[r], <<End>>, received[r], r)
    BY <1>1, <1>8, FineOther
  <2>4. Fine(sw'[r], page'[r], toPage'[r], toSw'[r], received'[r], r)
    BY <1>3, <2>2, <2>3
  <2> QED BY <1>2, <1>3, <1>5, <2>2, <2>4, OneRequest
<1>9. ASSUME NEW bytes \in Seq(Nat), toSw[r] = <<Chunk(bytes)>>, Head(toSw[r]) = Chunk(bytes),
             Tail(toSw[r]) = <<>>
      PROVE  StreamInv'
  <2>1. Head(toSw[r]).type = "chunk" /\ Head(toSw[r]).bytes = bytes
    BY <1>9 DEF Chunk
  <2>2. toSw'[r] = <<>> /\ OnChunk(r, bytes)
    BY <1>2, <1>3, <1>6, <1>9, <2>1
  <2>3. /\ sw[r].pulling =>
             Fine([sw[r] EXCEPT !.body = Append(@, bytes), !.pending = TRUE, !.pulling = FALSE],
                  page[r], Append(toPage[r], TRUE), <<>>, received[r], r)
        /\ ~sw[r].pulling => Fine([sw[r] EXCEPT !.body = Append(@, bytes), !.pending = FALSE],
                                   page[r], toPage[r], <<>>, received[r], r)
    BY <1>1, <1>9, FineChunk
  <2> DEFINE s == [sw[r] EXCEPT !.body = Append(@, bytes), !.pending = FALSE]
  <2>4. sw[r] \in Responses /\ sw[r].body \in Seq(Seq(Nat))
    BY <1>1, FineParts DEF Fine
  <2>5. Append(sw[r].body, bytes) \in Seq(Seq(Nat))
    BY <2>4, AppendProperties
  <2>6. /\ s \in Responses /\ s.pulling = sw[r].pulling /\ s.state = sw[r].state
    BY <2>4, <2>5 DEF Responses
  <2>7. CASE sw[r].pulling
    <3> DEFINE v == [sw[r] EXCEPT !.body = Append(@, bytes), !.pending = TRUE, !.pulling = FALSE]
    <3>1. DoPull(r, [s EXCEPT !.pulling = FALSE])
      BY <2>2, <2>6, <2>7 DEF OnChunk
    <3>2. [[s EXCEPT !.pulling = FALSE] EXCEPT !.pending = TRUE] = v
      BY <2>4, <2>5 DEF Responses
    <3>3. /\ sw' = [sw EXCEPT ![r] = v]
          /\ toPage' = [toPage EXCEPT ![r] = Append(@, TRUE)]
      BY <3>1, <3>2 DEF DoPull
    <3>4. Fine(v, page[r], Append(toPage[r], TRUE), <<>>, received[r], r) /\ v.state = sw[r].state
      BY <2>3, <2>4, <2>7 DEF Responses
    <3> HIDE DEF v
    <3>5. Fine(sw'[r], page'[r], toPage'[r], toSw'[r], received'[r], r)
      BY <1>2, <1>3, <2>2, <3>3, <3>4
    <3> QED BY <1>2, <1>3, <1>5, <3>3, <3>4, <3>5, OneRequest
  <2>8. CASE ~sw[r].pulling
    <3>1. sw' = [sw EXCEPT ![r] = s] /\ UNCHANGED toPage
      BY <2>2, <2>6, <2>8 DEF OnChunk
    <3>2. Fine(s, page[r], toPage[r], <<>>, received[r], r)
      BY <2>3, <2>8
    <3> HIDE DEF s
    <3>3. Fine(sw'[r], page'[r], toPage'[r], toSw'[r], received'[r], r)
      BY <1>2, <1>3, <2>2, <3>1, <3>2
    <3> QED BY <1>2, <1>3, <1>5, <2>6, <3>1, <3>3, OneRequest
  <2> QED BY <2>7, <2>8
<1> QED BY <1>4, <1>7, <1>8, <1>9

\* The consumer wants more.
LEMMA PullStep ==
  ASSUME StreamInv, NEW r \in Requests, Pull(r)
  PROVE  StreamInv'
<1>1. Fine(sw[r], page[r], toPage[r], toSw[r], received[r], r)
  BY DEF StreamInv
<1>2. /\ DOMAIN sw = Requests /\ DOMAIN page = Requests /\ DOMAIN toPage = Requests
      /\ DOMAIN toSw = Requests /\ DOMAIN received = Requests
  BY DEF StreamInv
<1>3. /\ sw[r].state = "streaming" /\ sw[r].closed = "no" /\ sw[r].body = <<>>
      /\ UNCHANGED <<routing, page, toSw, received>>
  BY DEF Pull
<1>4. /\ sw[r].pending => Fine([sw[r] EXCEPT !.pulling = TRUE], page[r], toPage[r], toSw[r], received[r], r)
      /\ ~sw[r].pending => Fine([sw[r] EXCEPT !.pending = TRUE], page[r], Append(toPage[r], TRUE), toSw[r],
                                received[r], r)
  BY <1>1, <1>3, FinePull
<1>5. CASE sw[r].pending
  <2>1. sw' = [sw EXCEPT ![r].pulling = TRUE] /\ UNCHANGED toPage
    BY <1>5 DEF Pull
  <2>2. Fine(sw'[r], page'[r], toPage'[r], toSw'[r], received'[r], r)
    BY <1>2, <1>3, <1>4, <1>5, <2>1
  <2>3. sw'[r].state = sw[r].state
    BY <1>1, <1>2, <2>1 DEF Fine, Responses
  <2> QED BY <1>2, <1>3, <2>1, <2>2, <2>3, OneRequest
<1>6. CASE ~sw[r].pending
  <2>1. /\ sw' = [sw EXCEPT ![r] = [sw[r] EXCEPT !.pending = TRUE]]
        /\ toPage' = [toPage EXCEPT ![r] = Append(@, TRUE)]
    BY <1>6 DEF Pull, DoPull
  <2>2. Fine(sw'[r], page'[r], toPage'[r], toSw'[r], received'[r], r)
    BY <1>2, <1>3, <1>4, <1>6, <2>1
  <2>3. sw'[r].state = sw[r].state
    BY <1>1, <1>2, <2>1 DEF Fine, Responses
  <2> QED BY <1>2, <1>3, <2>1, <2>2, <2>3, OneRequest
<1> QED BY <1>5, <1>6

\* The pull timer fires.
LEMMA PullTimeoutStep ==
  ASSUME StreamInv, NEW r \in Requests, PullTimeout(r)
  PROVE  StreamInv'
<1>1. Fine(sw[r], page[r], toPage[r], toSw[r], received[r], r)
  BY DEF StreamInv
<1>2. /\ DOMAIN sw = Requests /\ DOMAIN page = Requests /\ DOMAIN toPage = Requests
      /\ DOMAIN toSw = Requests /\ DOMAIN received = Requests
  BY DEF StreamInv
<1>3. /\ sw[r].pending /\ UNCHANGED <<routing, page, toPage, received>>
      /\ sw' = [sw EXCEPT ![r].pending = FALSE, ![r].closed = IF @ = "no" THEN "timeout" ELSE @]
      /\ toSw' = [toSw EXCEPT ![r] = <<>>]
  BY DEF PullTimeout
<1>4. Fine([sw[r] EXCEPT !.pending = FALSE, !.closed = IF @ = "no" THEN "timeout" ELSE @],
           page[r], toPage[r], <<>>, received[r], r)
  BY <1>1, <1>3, FineTimeout
<1>5. Fine(sw'[r], page'[r], toPage'[r], toSw'[r], received'[r], r)
  BY <1>2, <1>3, <1>4
<1>6. sw'[r].state = sw[r].state
  BY <1>1, <1>2, <1>3 DEF Fine, Responses
<1> QED BY <1>2, <1>3, <1>5, <1>6, OneRequest

\* The consumer cancels the body.
LEMMA CancelStep ==
  ASSUME StreamInv, NEW r \in Requests, Cancel(r)
  PROVE  StreamInv'
<1>1. Fine(sw[r], page[r], toPage[r], toSw[r], received[r], r)
  BY DEF StreamInv
<1>2. /\ DOMAIN sw = Requests /\ DOMAIN page = Requests /\ DOMAIN toPage = Requests
      /\ DOMAIN toSw = Requests /\ DOMAIN received = Requests
  BY DEF StreamInv
<1>3. /\ sw[r].state = "streaming" /\ sw[r].closed = "no" /\ UNCHANGED <<routing, page, received>>
      /\ sw' = [sw EXCEPT ![r].closed = "cancel", ![r].body = <<>>]
      /\ toPage' = [toPage EXCEPT ![r] = Append(@, FALSE)]
      /\ toSw' = [toSw EXCEPT ![r] = <<>>]
  BY DEF Cancel
<1>4. Fine([sw[r] EXCEPT !.closed = "cancel", !.body = <<>>], page[r], Append(toPage[r], FALSE), <<>>,
           received[r], r)
  BY <1>1, <1>3, FineCancel
<1>5. Fine(sw'[r], page'[r], toPage'[r], toSw'[r], received'[r], r)
  BY <1>2, <1>3, <1>4
<1>6. sw'[r].state = sw[r].state
  BY <1>1, <1>2, <1>3 DEF Fine, Responses
<1> QED BY <1>2, <1>3, <1>5, <1>6, OneRequest

\* The consumer reads a chunk.
LEMMA ReadStep ==
  ASSUME StreamInv, NEW r \in Requests, Read(r)
  PROVE  StreamInv'
<1>1. Fine(sw[r], page[r], toPage[r], toSw[r], received[r], r)
  BY DEF StreamInv
<1>2. /\ DOMAIN sw = Requests /\ DOMAIN page = Requests /\ DOMAIN toPage = Requests
      /\ DOMAIN toSw = Requests /\ DOMAIN received = Requests
  BY DEF StreamInv
<1>3. /\ sw[r].body # <<>> /\ UNCHANGED <<routing, page, toPage, toSw>>
      /\ sw' = [sw EXCEPT ![r].body = Tail(@)]
      /\ received' = [received EXCEPT ![r] = @ \o Head(sw[r].body)]
  BY DEF Read
<1>4. Fine([sw[r] EXCEPT !.body = Tail(@)], page[r], toPage[r], toSw[r],
           received[r] \o Head(sw[r].body), r)
  BY <1>1, <1>3, FineConsumed
<1>5. Fine(sw'[r], page'[r], toPage'[r], toSw'[r], received'[r], r)
  BY <1>2, <1>3, <1>4
<1>6. sw'[r].state = sw[r].state
  BY <1>1, <1>2, <1>3 DEF Fine, Responses
<1> QED BY <1>2, <1>3, <1>5, <1>6, OneRequest

\* Every step of the bridge keeps the invariant.
LEMMA NextStreamInv ==
  ASSUME StreamInv, [StreamNext]_streamVars
  PROVE  StreamInv'
<1>1. CASE UNCHANGED streamVars
  BY <1>1 DEF streamVars, StreamInv
<1>2. ASSUME NEW p \in Pages, SetPagePort(p) PROVE StreamInv'
  BY <1>2, SetPagePortStep
<1>3. ASSUME NEW p \in Pages, PageLeaves(p) PROVE StreamInv'
  BY <1>3 DEF PageLeaves, StreamInv
<1>4. ASSUME NEW r \in Requests,
             \/ Fetch(r) \/ Read(r) \/ Cancel(r)
             \/ PageRequest(r) \/ PageMessage(r) \/ ReadResolves(r) \/ ReadFails(r)
             \/ Headers(r) \/ SwMessage(r) \/ Pull(r) \/ PullTimeout(r)
      PROVE  StreamInv'
  BY <1>4, FetchStep, ReadStep, CancelStep, PageRequestStep, PageMessageStep, ReadResolvesStep,
     ReadFailsStep, HeadersStep, SwMessageStep, PullStep, PullTimeoutStep
<1> QED BY <1>1, <1>2, <1>3, <1>4 DEF StreamNext

\* In every state each request is Fine: there is one pull, and the bytes follow each other.
THEOREM StreamInvariant == StreamSpec => []StreamInv
<1>1. StreamInit => StreamInv
  BY InitStreamInv
<1>2. StreamInv /\ [StreamNext]_streamVars => StreamInv'
  BY NextStreamInv
<1> QED BY <1>1, <1>2, PTL DEF StreamSpec
-----------------------------------------------------------------------------
\* FlattenSeq joins a body of at most two chunks.
LEMMA FlattenShort ==
  ASSUME NEW x, NEW y
  PROVE  /\ FlattenSeq(<<>>) = <<>> /\ FlattenSeq(<<x>>) = x
         /\ FlattenSeq(<<x, y>>) = x \o y
<1>1. FlattenSeq(<<>>) = <<>>
  BY DEF FlattenSeq
<1>2. ASSUME NEW q, NEW n \in {1, 2}, Len(q) = n
      PROVE  FlattenSeq(q) = IF n = 1 THEN q[1] ELSE q[1] \o q[2]
  <2> DEFINE F(f) == f = [i \in 1..n |-> IF i = 1 THEN q[i] ELSE f[i - 1] \o q[i]]
             g == [i \in 1..n |-> IF i = 1 THEN q[1] ELSE q[1] \o q[2]]
  <2>1. F(g)
    <3>1. 1 \in 1..n /\ g[1] = q[1]
      BY <1>2
    <3>2. ASSUME NEW i \in 1..n
          PROVE  (IF i = 1 THEN q[1] ELSE q[1] \o q[2]) = (IF i = 1 THEN q[i] ELSE g[i - 1] \o q[i])
      <4>1. CASE i = 1
        BY <4>1
      <4>2. CASE i # 1
        <5>1. i = 2 /\ i - 1 = 1
          BY <4>2
        <5> HIDE DEF g
        <5> QED BY <3>1, <5>1
      <4> QED BY <4>1, <4>2
    <3> QED BY <3>2
  <2>2. PICK c : c = CHOOSE f : F(f)
    OBVIOUS
  <2> HIDE DEF F
  <2>3. F(c)
    BY <2>1, <2>2
  <2>4. c = [i \in 1..n |-> IF i = 1 THEN q[i] ELSE c[i - 1] \o q[i]]
    BY <2>3 DEF F
  <2>5. 1 \in 1..n /\ c[1] = q[1]
    BY <2>4
  <2>6. c[n] = IF n = 1 THEN q[1] ELSE q[1] \o q[2]
    <3>1. CASE n = 1
      BY <2>5, <3>1
    <3>2. CASE n = 2
      <4>1. 2 \in 1..n /\ 2 # 1 /\ 2 - 1 = 1
        BY <3>2
      <4>2. c[2] = c[2 - 1] \o q[2]
        BY <2>4, <4>1
      <4> QED BY <2>5, <3>2, <4>1, <4>2
    <3> QED BY <3>1, <3>2
  <2>7. FlattenSeq(q) = c[n]
    <3>1. Len(q) = n /\ n # 0
      BY <1>2
    <3> QED BY <2>2, <3>1, Zenon DEF FlattenSeq, F
  <2> QED BY <2>6, <2>7
<1>3. Len(<<x>>) = 1 /\ Len(<<x, y>>) = 2 /\ <<x>>[1] = x /\ <<x, y>>[1] = x /\ <<x, y>>[2] = y
  OBVIOUS
<1>4. FlattenSeq(<<x>>) = x
  BY <1>2, <1>3
<1>5. FlattenSeq(<<x, y>>) = x \o y
  <2>1. 2 \in {1, 2} /\ 2 # 1
    OBVIOUS
  <2>2. FlattenSeq(<<x, y>>) = <<x, y>>[1] \o <<x, y>>[2]
    BY <1>2, <1>3, <2>1, Zenon
  <2> QED BY <1>3, <2>2, Zenon
<1> QED BY <1>1, <1>4, <1>5

\* So the bytes of the body are the ones the invariant speaks of.
LEMMA FlattenBody ==
  ASSUME NEW body \in Seq(Seq(Nat)), Len(body) <= 2
  PROVE  FlattenSeq(body) = Joined(body)
<1>1. CASE body = <<>>
  BY <1>1, FlattenShort, JoinedFacts
<1>2. ASSUME NEW x \in Seq(Nat), body = <<x>> PROVE FlattenSeq(body) = Joined(body)
  BY <1>2, FlattenShort, JoinedFacts
<1>3. ASSUME NEW x \in Seq(Nat), NEW y \in Seq(Nat), body = <<x, y>>
      PROVE  FlattenSeq(body) = Joined(body)
  <2>1. FlattenSeq(<<x, y>>) = x \o y
    BY FlattenShort
  <2>2. Joined(<<x, y>>) = x \o y
    BY JoinedFacts
  <2> QED BY <1>3, <2>1, <2>2
<1> QED BY <1>1, <1>2, <1>3, BodyShapes

\* The bytes in flight are the ones the invariant speaks of.
LEMMA InFlightLemma ==
  ASSUME NEW r \in Requests, toSw[r] \in Notices \/ Carries(toSw[r])
  PROVE  InFlight(r) = Flying(toSw[r])
<1> DEFINE bs == [i \in 1..Len(toSw[r]) |-> toSw[r][i].bytes]
<1>1. InFlight(r) = FlattenSeq(bs)
  BY DEF InFlight
<1>2. CASE toSw[r] = <<>>
  <2>1. bs = <<>>
    BY <1>2
  <2> HIDE DEF bs
  <2> QED BY <1>1, <1>2, <2>1, FlattenShort, CarriesFacts
<1>3. CASE toSw[r] = <<End>>
  <2>1. bs = << <<>> >>
    BY <1>3 DEF End
  <2> HIDE DEF bs
  <2>2. FlattenSeq(bs) = <<>>
    BY <2>1, FlattenShort
  <2>3. Flying(toSw[r]) = <<>>
    BY <1>3, CarriesFacts
  <2> QED BY <1>1, <2>2, <2>3
<1>4. CASE toSw[r] = <<Object, End>>
  <2>1. bs = << <<>>, <<>> >>
    BY <1>4 DEF End, Object
  <2> HIDE DEF bs
  <2>2. FlattenSeq(bs) = <<>> \o <<>>
    BY <2>1, FlattenShort
  <2>3. Flying(toSw[r]) = <<>> /\ <<>> \o <<>> = <<>>
    BY <1>4, CarriesFacts
  <2> QED BY <1>1, <2>2, <2>3
<1>5. CASE Carries(toSw[r])
  <2>1. PICK bytes \in Seq(Nat) : toSw[r] = <<Chunk(bytes)>>
    BY <1>5 DEF Carries
  <2>2. bs = <<bytes>>
    BY <2>1 DEF Chunk
  <2> HIDE DEF bs
  <2>3. FlattenSeq(bs) = bytes
    BY <2>2, FlattenShort
  <2>4. Flying(toSw[r]) = bytes
    BY <2>1, CarriesFacts
  <2> QED BY <1>1, <2>3, <2>4
<1> QED BY <1>2, <1>3, <1>4, <1>5 DEF Notices

\* Bytes up to some place begin the bytes up to a later one.
LEMMA BytesArePrefix ==
  ASSUME NEW f \in Nat, NEW k \in Nat, NEW m \in Nat, f <= k, k <= m
  PROVE  IsPrefix(Bytes(f, k), Bytes(f, m))
<1>1. f <= m
  OBVIOUS
<1>2. PICK s \in Seq(Nat), t \in Seq(Nat) : s = Bytes(f, k) /\ t = Bytes(f, m)
  BY <1>1, BytesLemma
<1>3. /\ Len(s) = k - f /\ \A i \in 1..(k - f) : s[i] = f + i - 1
  BY <1>2, BytesLemma
<1>4. /\ Len(t) = m - f /\ \A i \in 1..(m - f) : t[i] = f + i - 1
  BY <1>1, <1>2, BytesLemma
<1>5. PICK n \in Nat, o \in Nat : n = k - f /\ o = m - f /\ n <= o
  OBVIOUS
<1>6. /\ SubSeq(s, 1, n) \in Seq(Nat) /\ Len(SubSeq(s, 1, n)) = n
      /\ \A i \in 1..n : SubSeq(s, 1, n)[i] = s[i]
  BY <1>3, <1>5
<1>7. /\ SubSeq(t, 1, n) \in Seq(Nat) /\ Len(SubSeq(t, 1, n)) = n
      /\ \A i \in 1..n : SubSeq(t, 1, n)[i] = t[i]
  BY <1>4, <1>5
<1>8. \A i \in 1..n : s[i] = t[i]
  BY <1>3, <1>4, <1>5
<1>9. SubSeq(s, 1, n) = SubSeq(t, 1, n)
  BY <1>6, <1>7, <1>8, SeqEqual
<1> QED BY <1>2, <1>3, <1>4, <1>5, <1>9 DEF IsPrefix

\* One pull, read or chunk at a time: the invariant's Flow, counted.
LEMMA FlowBounded ==
  ASSUME NEW r \in Requests, Fine(sw[r], page[r], toPage[r], toSw[r], received[r], r)
  PROVE  Cardinality(Pulls(r)) + page[r].reads + Cardinality(Chunks(r)) <= 1
<1> DEFINE tp == toPage[r]  ts == toSw[r]
<1>1. /\ page[r].reads \in Nat /\ page[r].reads \in {0, 1}
      /\ page[r].reads = 1 => tp \in {<<>>, <<FALSE>>}
      /\ Carries(ts) => tp = <<>> /\ page[r].reads = 0
      /\ tp \in {<<>>, <<TRUE>>, <<FALSE>>, <<TRUE, FALSE>>}
      /\ ts \in Notices \/ Carries(ts)
  BY FineParts DEF Fine, Flow
<1>2. Cardinality({}) = 0 /\ Cardinality({1}) = 1
  BY FS_EmptySet, FS_Singleton
<1>3. Pulls(r) = {} \/ (Pulls(r) = {1} /\ (tp = <<TRUE>> \/ tp = <<TRUE, FALSE>>))
  <2>1. CASE tp = <<>>
    BY <2>1 DEF Pulls
  <2>2. CASE tp = <<FALSE>>
    <3>1. Len(tp) = 1 /\ ~tp[1]
      BY <2>2
    <3>2. \A i \in 1..Len(tp) : ~tp[i]
      BY <3>1
    <3>3. Pulls(r) = {}
      BY <3>2 DEF Pulls
    <3> QED BY <3>3
  <2>3. CASE tp = <<TRUE>>
    <3>1. Len(tp) = 1 /\ tp[1]
      BY <2>3
    <3>2. Pulls(r) = {1}
      BY <3>1 DEF Pulls
    <3> QED BY <2>3, <3>2
  <2>4. CASE tp = <<TRUE, FALSE>>
    <3>1. Len(tp) = 2 /\ tp[1] /\ ~tp[2]
      BY <2>4
    <3>2. Pulls(r) = {1}
      BY <3>1 DEF Pulls
    <3> QED BY <2>4, <3>2
  <2> QED BY <1>1, <2>1, <2>2, <2>3, <2>4
<1>4. Chunks(r) = {} \/ (Chunks(r) = {1} /\ Carries(ts))
  <2>1. CASE ts = <<>>
    BY <2>1 DEF Chunks
  <2>2. CASE ts = <<End>>
    <3>1. Len(ts) = 1 /\ ts[1].type = "end"
      BY <2>2 DEF End
    <3> QED BY <3>1 DEF Chunks
  <2>3. CASE ts = <<Object, End>>
    <3>1. Len(ts) = 2 /\ ts[1].type = "other" /\ ts[2].type = "end"
      BY <2>3 DEF End, Object
    <3> QED BY <3>1 DEF Chunks
  <2>4. CASE Carries(ts)
    <3>1. PICK bytes \in Seq(Nat) : ts = <<Chunk(bytes)>>
      BY <2>4 DEF Carries
    <3>2. Len(ts) = 1 /\ ts[1].type = "chunk"
      BY <3>1 DEF Chunk
    <3>3. Chunks(r) = {1}
      BY <3>2 DEF Chunks
    <3> QED BY <2>4, <3>3
  <2> QED BY <1>1, <2>1, <2>2, <2>3, <2>4 DEF Notices
<1>5. <<TRUE>> # <<>> /\ <<TRUE>> # <<FALSE>> /\ <<TRUE, FALSE>> # <<>> /\ <<TRUE, FALSE>> # <<FALSE>>
  <2>1. FALSE # TRUE
    OBVIOUS
  <2>2. <<TRUE>>[1] = TRUE /\ <<FALSE>>[1] = FALSE /\ Len(<<TRUE>>) = 1 /\ Len(<<FALSE>>) = 1
        /\ Len(<<TRUE, FALSE>>) = 2 /\ Len(<<>>) = 0
    OBVIOUS
  <2> QED BY <2>1, <2>2
<1>6. Pulls(r) = {1} => page[r].reads = 0 /\ ~Carries(ts)
  BY <1>1, <1>2, <1>3, <1>5
<1>7. Carries(ts) => page[r].reads = 0
  BY <1>1
<1> HIDE DEF tp, ts
<1>8. CASE Pulls(r) = {}
  <2>1. CASE Chunks(r) = {}
    BY <1>1, <1>2, <1>8, <2>1
  <2>2. CASE Chunks(r) = {1} /\ Carries(ts)
    BY <1>2, <1>7, <1>8, <2>2
  <2> QED BY <1>4, <2>1, <2>2
<1>9. CASE Pulls(r) = {1}
  <2>1. Chunks(r) = {} /\ page[r].reads = 0
    BY <1>4, <1>6, <1>9
  <2> QED BY <1>2, <1>9, <2>1
<1> QED BY <1>3, <1>8, <1>9

\* What the consumer has and will get begins the range: the invariant's Holds.
LEMMA PrefixHeld ==
  ASSUME NEW r \in Requests,
         Fine(sw[r], page[r], toPage[r], toSw[r], received[r], r)
  PROVE  IsPrefix(received[r] \o FlattenSeq(sw[r].body) \o InFlight(r), RequestedBytes(r))
<1>1. /\ sw[r].body \in Seq(Seq(Nat)) /\ Len(sw[r].body) <= 2
      /\ toSw[r] \in Notices \/ Carries(toSw[r])
  BY FineParts DEF Fine, Flow
<1>2. FlattenSeq(sw[r].body) = Joined(sw[r].body) /\ InFlight(r) = Flying(toSw[r])
  BY <1>1, FlattenBody, InFlightLemma
<1>3. PICK k \in FirstByte[r]..Top(r) :
        received[r] \o Joined(sw[r].body) \o Flying(toSw[r]) = Bytes(FirstByte[r], k)
  BY DEF Fine, Holds
<1>4. /\ FirstByte[r] \in Nat /\ LastByte[r] + 1 \in Nat /\ k \in Nat /\ FirstByte[r] <= k
      /\ k <= LastByte[r] + 1
  BY TopFacts, StreamAssumption, <1>3
<1>5. IsPrefix(Bytes(FirstByte[r], k), Bytes(FirstByte[r], LastByte[r] + 1))
  BY <1>4, BytesArePrefix
<1> QED BY <1>2, <1>3, <1>5 DEF RequestedBytes

\* The invariant gives every variable its type.
LEMMA StreamTyped ==
  ASSUME StreamInv
  PROVE  StreamTypeOK
<1>1. /\ pagePort \in Pages \cup {Null} /\ ports \subseteq Pages /\ gone \subseteq ports
      /\ IsInjective(queue) /\ Range(queue) \subseteq Requests
      /\ loop \in [Pages -> Requests \cup {Null}]
  <2>1. queue \in Seq(Requests)
    BY DEF StreamInv
  <2> QED BY <2>1 DEF StreamInv, Range
<1>2. ASSUME NEW r \in Requests
      PROVE  /\ sw[r].state \in {"idle", "queued", "asked", "streaming"}
             /\ sw[r].page \in Pages \cup {Null} /\ sw[r].pending \in BOOLEAN /\ sw[r].pulling \in BOOLEAN
             /\ sw[r].closed \in {"no", "end", "timeout", "cancel"}
             /\ page[r].mail \in {"none", "request", "headers", "read"} /\ page[r].open \in BOOLEAN
             /\ page[r].offset \in 0..LastByte[r] + 1 /\ page[r].reads \in Nat
             /\ toPage[r] \in Seq(BOOLEAN)
             /\ \A m \in Range(toSw[r]) : m.type \in {"chunk", "other", "end"}
             /\ \A bytes \in Range(sw[r].body) \cup {received[r]} : Range(bytes) \subseteq Nat
  <2>1. Fine(sw[r], page[r], toPage[r], toSw[r], received[r], r)
    BY DEF StreamInv
  <2>2. /\ sw[r].state \in {"idle", "queued", "asked", "streaming"} /\ sw[r].page \in Pages \cup {Null}
        /\ sw[r].pending \in BOOLEAN /\ sw[r].pulling \in BOOLEAN /\ sw[r].body \in Seq(Seq(Nat))
        /\ sw[r].closed \in {"no", "end", "timeout", "cancel"}
        /\ page[r].mail \in {"none", "request", "headers", "read"} /\ page[r].open \in BOOLEAN
        /\ page[r].offset \in Nat /\ page[r].reads \in Nat
    BY <2>1, FineParts
  <2>3. page[r].offset \in 0..LastByte[r] + 1
    <3>1. page[r].offset <= Top(r)
      BY <2>1 DEF Fine, Holds
    <3> QED BY <2>2, <3>1, TopFacts
  <2>4. toPage[r] \in Seq(BOOLEAN)
    <3>1. /\ <<>> \in Seq(BOOLEAN) /\ <<TRUE>> \in Seq(BOOLEAN) /\ <<FALSE>> \in Seq(BOOLEAN)
          /\ <<TRUE, FALSE>> \in Seq(BOOLEAN)
      OBVIOUS
    <3>2. toPage[r] \in {<<>>, <<TRUE>>, <<FALSE>>, <<TRUE, FALSE>>}
      BY <2>1 DEF Fine, Flow
    <3> QED BY <3>1, <3>2
  <2>5. \A m \in Range(toSw[r]) : m.type \in {"chunk", "other", "end"}
    <3>1. toSw[r] \in Notices \/ Carries(toSw[r])
      BY <2>1 DEF Fine, Flow
    <3>2. End.type = "end" /\ Object.type = "other" /\ \A bytes : Chunk(bytes).type = "chunk"
      BY DEF End, Object, Chunk
    <3>3. CASE toSw[r] = <<>>
      BY <3>3 DEF Range
    <3>4. CASE toSw[r] = <<End>>
      BY <3>2, <3>4 DEF Range
    <3>5. CASE toSw[r] = <<Object, End>>
      BY <3>2, <3>5 DEF Range
    <3>6. CASE Carries(toSw[r])
      <4>1. PICK bytes \in Seq(Nat) : toSw[r] = <<Chunk(bytes)>>
        BY <3>6 DEF Carries
      <4> QED BY <3>2, <4>1 DEF Range
    <3> QED BY <3>1, <3>3, <3>4, <3>5, <3>6 DEF Notices
  <2>6. \A bytes \in Seq(Nat) : Range(bytes) \subseteq Nat
    BY DEF Range
  <2>7. Range(sw[r].body) \subseteq Seq(Nat) /\ received[r] \in Seq(Nat)
    BY <2>1, <2>2 DEF Range, Fine
  <2> QED BY <2>2, <2>3, <2>4, <2>5, <2>6, <2>7
<1> QED BY <1>1, <1>2 DEF StreamTypeOK

\* The variables of the bridge keep their types, for every set of requests and pages, all
\* ranges and every block size.
THEOREM StreamTypeCorrect == StreamSpec => []StreamTypeOK
<1>1. StreamSpec => []StreamInv
  BY StreamInvariant
<1>2. StreamInv => StreamTypeOK
  BY StreamTyped
<1> QED BY <1>1, <1>2, PTL

\* The worker never has more than one block of a body on its way: one pull, read or chunk
\* for each request, and at most two chunks unread (doPull in stream-handler.ts,
\* chunkPort.onmessage in bridge.ts).
THEOREM BackpressureHolds == StreamSpec => []Backpressure
<1>1. StreamSpec => []StreamInv
  BY StreamInvariant
<1>2. ASSUME StreamInv PROVE Backpressure
  <2>1. ASSUME NEW r \in Requests
        PROVE  /\ Len(sw[r].body) <= 2
               /\ Cardinality(Pulls(r)) + page[r].reads + Cardinality(Chunks(r)) <= 1
    <3>1. Fine(sw[r], page[r], toPage[r], toSw[r], received[r], r)
      BY <1>2 DEF StreamInv
    <3> QED BY <3>1, FlowBounded DEF Fine, Flow
  <2> QED BY <2>1 DEF Backpressure
<1> QED BY <1>1, <1>2, PTL

\* What the consumer has read, what is buffered and what is in flight are the bytes of the
\* range from its first on: none skipped, repeated or out of order.
THEOREM BodyIsPrefixHolds == StreamSpec => []BodyIsPrefix
<1>1. StreamSpec => []StreamInv
  BY StreamInvariant
<1>2. ASSUME StreamInv PROVE BodyIsPrefix
  <2>1. ASSUME NEW r \in Requests
        PROVE  IsPrefix(received[r] \o FlattenSeq(sw[r].body) \o InFlight(r), RequestedBytes(r))
    <3>1. Fine(sw[r], page[r], toPage[r], toSw[r], received[r], r)
      BY <1>2 DEF StreamInv
    <3> QED BY <3>1, PrefixHeld
  <2> QED BY <2>1 DEF BodyIsPrefix
<1> QED BY <1>1, <1>2, PTL
=============================================================================

------------------------------ MODULE Download ------------------------------
(***************************************************************************)
(* The download loop that Torrent._registerWire runs on every peer wire,   *)
(* composed with the piece accounting of module Torrent.                   *)
(*                                                                         *)
(* Each wire works on one active piece: requestBlocks asks for all blocks  *)
(* of the first missing piece the remote has, the "piece" handler collects *)
(* them, awaits receivePiece, announces the piece and asks for the next.   *)
(* The handlers run to completion; receivePiece is the only await, so the  *)
(* "have", "unchoke", "metadata" and "ready" handlers may run inside it.   *)
(* The remote peers are external: they own pieces, serve what they were    *)
(* asked, and may do what Faults allows.                                   *)
(***************************************************************************)
EXTENDS Integers, FiniteSets

CONSTANTS
  NumPieces, PieceLength, LastLength, Rescans,  \* see Torrent
  Wires,         \* peer connections
  BlocksPerPiece,\* requests a piece takes (pieceLength / 16384)
  Slots,         \* bound: receivePiece calls one wire may have in flight
  Faults,        \* what may go wrong: "choke" "close" "corrupt" "write"
  Storage        \* the chunk contents a session may start from

ASSUME DownloadAssumption ==
  /\ NumPieces \in Nat \ {0} /\ PieceLength \in Nat \ {0} /\ LastLength \in 1..PieceLength
  /\ "init" \notin Rescans /\ "metadata" \notin Rescans
  /\ BlocksPerPiece \in Nat \ {0}
  /\ Slots \in Nat \ {0}
  /\ Faults \subseteq {"choke", "close", "corrupt", "write"}

Calls == Wires \X (1..Slots)

VARIABLES
  known, metadataReceived, ready, destroyed, storeState, wipeLeft,
  chunk, bitfield, credited, scan, call,
  wire,          \* state of each connection and of the peer behind it
  remotePieces,  \* pieces the peer announced, per wire
  peerChoking,   \* wire.peerChoking
  amInterested,  \* wire.amInterested
  active,        \* activePiece of each wire, with the blocks still pending
  asked          \* blocks requested and not yet answered, per wire

T == INSTANCE Torrent WITH Receivers <- Calls

torrentVars == <<known, metadataReceived, ready, destroyed, storeState, wipeLeft,
                 chunk, bitfield, credited, scan, call>>
loopVars == <<wire, remotePieces, peerChoking, amInterested, active, asked>>
vars == <<torrentVars, loopVars>>

Pieces == T!Pieces
Blocks == 1..BlocksPerPiece
NoPiece == [index |-> -1, left |-> {}]

TypeOK ==
  /\ T!TypeOK
  /\ wire \in [Wires -> {"absent", "handshaking", "connected", "closed"}]
  /\ remotePieces \in [Wires -> SUBSET Pieces]
  /\ peerChoking \in [Wires -> BOOLEAN]
  /\ amInterested \in [Wires -> BOOLEAN]
  /\ active \in [Wires -> [index : Pieces, left : SUBSET Blocks] \cup {NoPiece}]
  /\ asked \in [Wires -> SUBSET (Pieces \X Blocks)]

Init ==
  /\ T!Init
  /\ chunk \in [Pieces -> Storage]
  /\ wire = [w \in Wires |-> "absent"]
  /\ remotePieces = [w \in Wires |-> {}]
  /\ peerChoking = [w \in Wires |-> TRUE]
  /\ amInterested = [w \in Wires |-> FALSE]
  /\ active = [w \in Wires |-> NoPiece]
  /\ asked = [w \in Wires |-> {}]
-----------------------------------------------------------------------------
(***************************************************************************)
(* requestBlocks, run by the wires of W after the rest of the step: it     *)
(* reads the state the step leaves behind, and sends nothing once the      *)
(* download is done.  updateInterest runs it too, after telling the peer.  *)
(***************************************************************************)
Wanted(w) == IF known' THEN remotePieces'[w] \ bitfield' ELSE {}

First(S) == CHOOSE i \in S : \A j \in S : i <= j

\* Mutant: a piece in progress does not stop the next request.
MayRequestAgain(w) ==
  /\ ~T!Done' /\ Wanted(w) # {}
  /\ wire'[w] = "connected" /\ ~peerChoking'[w]

MayRequest(w) ==
  /\ ~T!Done' /\ Wanted(w) # {}
  /\ wire'[w] = "connected" /\ ~peerChoking'[w]
  /\ active[w] = NoPiece

\* Mutant: the loop over the offsets stops one block early.
RequestsShort(i) == {i} \X (1..BlocksPerPiece - 1)

Requests(i) == {i} \X Blocks

RequestBlocks(W) ==
  LET asking == {w \in W : MayRequest(w)} IN
  /\ active' = [w \in Wires |-> IF w \in asking
                                THEN [index |-> First(Wanted(w)), left |-> Blocks]
                                ELSE active[w]]
  /\ asked' = [w \in Wires |-> IF w \in asking
                               THEN asked[w] \cup Requests(First(Wanted(w)))
                               ELSE asked[w]]

UpdateInterest(W) ==
  /\ amInterested' = [w \in Wires |-> amInterested[w] \/ (w \in W /\ ~T!Done' /\ Wanted(w) # {})]
  /\ RequestBlocks(W)

Registered == {w \in Wires : wire[w] \in {"connected", "closed"}}

\* The "ready" event runs syncRemotePieces on every registered wire.
OnReady(event) == UpdateInterest(IF event THEN Registered ELSE {})
-----------------------------------------------------------------------------
(***************************************************************************)
(* Session steps                                                           *)
(***************************************************************************)
loopRest == <<wire, remotePieces, peerChoking>>

InitSession(skip) ==
  /\ T!InitSession(skip)
  /\ UNCHANGED loopRest
  /\ OnReady(ready')

\* The "metadata" event comes before _downloaded is reset: syncRemotePieces still
\* sees the old count.
SetMetadata ==
  /\ T!SetMetadata
  /\ UNCHANGED loopRest
  /\ UpdateInterest(IF T!Done THEN {} ELSE Registered)

Rescan(s) == T!Rescan(s) /\ UNCHANGED loopVars

\* Finishing the scan of _init or setMetadata emits "ready".
ScanStep(s) ==
  /\ T!ScanStep(s)
  /\ UNCHANGED loopRest
  /\ OnReady(s \notin Rescans /\ scan'[s].phase = "done")
-----------------------------------------------------------------------------
(***************************************************************************)
(* The wires                                                               *)
(***************************************************************************)

\* The channel opens: the swarm holds a peer whose wire is still handshaking.
Open(w) ==
  /\ wire[w] = "absent"
  /\ T!Started
  /\ wire' = [wire EXCEPT ![w] = "handshaking"]
  /\ UNCHANGED <<torrentVars, remotePieces, peerChoking, amInterested, active, asked>>

\* The handshake completes; _registerWire attaches the handlers.
Register(w) ==
  /\ wire[w] = "handshaking"
  /\ wire' = [wire EXCEPT ![w] = "connected"]
  /\ UNCHANGED <<torrentVars, remotePieces, peerChoking>>
  /\ UpdateInterest({w})

\* "bitfield", "haveAll" and "have": the peer announces pieces.
OnHave(w, S) ==
  /\ wire[w] = "connected"
  /\ S # {} /\ S \cap remotePieces[w] = {}
  /\ remotePieces' = [remotePieces EXCEPT ![w] = @ \cup S]
  /\ UNCHANGED <<torrentVars, wire, peerChoking>>
  /\ UpdateInterest({w})

OnUnchoke(w) ==
  /\ wire[w] = "connected"
  /\ peerChoking[w]
  /\ peerChoking' = [peerChoking EXCEPT ![w] = FALSE]
  /\ UNCHANGED <<torrentVars, wire, remotePieces>>
  /\ UpdateInterest({w})

\* "choke": the peer forgets what it was asked (or rejects it, which no handler
\* of the torrent hears), and there is no handler for the event either.
OnChoke(w) ==
  /\ "choke" \in Faults
  /\ wire[w] = "connected"
  /\ ~peerChoking[w]
  /\ peerChoking' = [peerChoking EXCEPT ![w] = TRUE]
  /\ asked' = [asked EXCEPT ![w] = {}]
  /\ UNCHANGED <<torrentVars, wire, remotePieces, amInterested, active>>

OnClose(w) ==
  /\ "close" \in Faults
  /\ wire[w] \in {"handshaking", "connected"}
  /\ wire' = [wire EXCEPT ![w] = "closed"]
  /\ asked' = [asked EXCEPT ![w] = {}]
  /\ UNCHANGED <<torrentVars, remotePieces, peerChoking, amInterested, active>>

\* Mutant: the piece is marked by its first block, unverified and not stored.
OnBlockMarksEarly(w, i, b) ==
  /\ wire[w] = "connected"
  /\ <<i, b>> \in asked[w]
  /\ asked' = [asked EXCEPT ![w] = @ \ {<<i, b>>}]
  /\ active[w].index = i
  /\ active' = [active EXCEPT ![w] = NoPiece]
  /\ bitfield' = bitfield \cup {i}
  /\ UNCHANGED <<known, metadataReceived, ready, destroyed, storeState, wipeLeft, chunk,
                 credited, scan, call, wire, remotePieces, peerChoking, amInterested>>

\* "piece": a block of the active piece is collected, any other is dropped.
OnBlock(w, i, b) ==
  /\ wire[w] = "connected"
  /\ <<i, b>> \in asked[w]
  /\ asked' = [asked EXCEPT ![w] = @ \ {<<i, b>>}]
  /\ \/ /\ active[w].index = i /\ active[w].left \ {b} = {}
        /\ active' = [active EXCEPT ![w] = NoPiece]
        /\ \E slot \in 1..Slots, good \in BOOLEAN :
             /\ good \/ "corrupt" \in Faults
             /\ \A s \in 1..(slot - 1) : call[<<w, s>>].phase # "idle"
             /\ T!ReceiveStart(<<w, slot>>, i, good)
     \/ /\ active[w].index = i /\ active[w].left \ {b} # {}
        /\ active' = [active EXCEPT ![w].left = @ \ {b}]
        /\ UNCHANGED torrentVars
     \/ /\ active[w].index # i
        /\ UNCHANGED <<torrentVars, active>>
  /\ UNCHANGED <<wire, remotePieces, peerChoking, amInterested>>

ReceiveStep(r) ==
  /\ \/ T!ReceiveHashed(r) \/ T!PutLands(r) \/ T!ReceiveCommit(r)
     \/ "write" \in Faults /\ T!PutFails(r)
  /\ UNCHANGED loopVars

\* The rest of the "piece" handler.  sendHave throws on a closed wire, and
\* broadcastHave on the first peer whose wire is still handshaking: then
\* requestBlocks is not reached.
HaveThrows(w) == wire[w] = "closed" \/ \E v \in Wires : wire[v] = "handshaking"

\* Mutant: the handler ends without asking for the next piece.
AfterReceiveEnds(r) ==
  /\ T!ReceiveResume(r)
  /\ UNCHANGED loopVars

AfterReceive(r) ==
  /\ T!ReceiveResume(r)
  /\ UNCHANGED <<loopRest, amInterested>>
  /\ RequestBlocks(IF call[r].good /\ HaveThrows(r[1]) THEN {} ELSE {r[1]})
-----------------------------------------------------------------------------
Next ==
  \/ \E skip \in BOOLEAN : InitSession(skip)
  \/ SetMetadata
  \/ \E s \in Rescans : Rescan(s)
  \/ \E s \in T!Scanners : ScanStep(s)
  \/ \E w \in Wires : Open(w) \/ Register(w) \/ OnUnchoke(w) \/ OnChoke(w) \/ OnClose(w)
  \/ \E w \in Wires, S \in SUBSET Pieces : OnHave(w, S)
  \/ \E w \in Wires, i \in Pieces, b \in Blocks : OnBlock(w, i, b)
  \/ \E r \in Calls : ReceiveStep(r) \/ AfterReceive(r)

Spec == Init /\ [][Next]_vars

(***************************************************************************)
(* Fairness.  Timers and promises of the event loop are served, so every   *)
(* await resolves and every handler runs; a peer behind an open connection *)
(* completes the handshake, announces what it owns, unchokes and answers   *)
(* what it is asked.  Nothing fair is assumed of Faults, of rescans.        *)
(***************************************************************************)
AnnounceRest(w) == OnHave(w, Pieces \ remotePieces[w])
Answer(w) == \E i \in Pieces, b \in Blocks : OnBlock(w, i, b)

Fairness ==
  /\ WF_vars(\E skip \in BOOLEAN : InitSession(skip))
  /\ WF_vars(SetMetadata)
  /\ \A s \in T!Scanners : WF_vars(ScanStep(s))
  /\ \A w \in Wires : /\ WF_vars(Open(w)) /\ WF_vars(Register(w)) /\ WF_vars(OnUnchoke(w))
                     /\ WF_vars(AnnounceRest(w)) /\ WF_vars(Answer(w))
  /\ \A r \in Calls : WF_vars(ReceiveStep(r)) /\ WF_vars(AfterReceive(r))

FairSpec == Spec /\ Fairness
-----------------------------------------------------------------------------
(***************************************************************************)
(* Properties                                                              *)
(***************************************************************************)

\* The loops of all wires together drive the accounting only through the calls
\* of Torrent: what is proved of it holds under every interleaving of wires.
AccountingRefined == T!Spec

\* While no peer chokes, a connected wire waits for exactly the blocks that its
\* active piece misses: none is lost (the piece would never finish), none is
\* asked without being collected (torrent.ts, requestBlocks and "piece").  A
\* choke breaks it for good: no handler asks again for the blocks it took.
WaitsForWhatItMisses ==
  "choke" \notin Faults =>
    \A w \in Wires :
      wire[w] = "connected" => asked[w] = {active[w].index} \X active[w].left

\* Whatever the peer chokes, forgets or answers, a block that may still arrive is
\* one the active piece waits for: the "piece" handler drops nothing it asked.
AnswersAreCollected ==
  \A w \in Wires : asked[w] \subseteq {active[w].index} \X active[w].left

\* A connected wire that may ask for a missing piece its peer has is working on
\* one, or the call or the metadata scan that will make it ask again is in flight:
\* no sequence of have, choke, unchoke, metadata, ready and failed pieces leaves
\* it idle.
\* Excused are the two ways the code has of leaving it so: a rescan clears bits
\* and asks for nothing, and broadcastHave throws while a peer shakes hands: since
\* every other wire was shaking hands once, one that was ever opened is an excuse.
WireIsBusy ==
  \A w \in Wires :
    (/\ \A s \in Rescans : scan[s].phase = "idle"
     /\ \A v \in Wires \ {w} : wire[v] = "absent"
     /\ wire[w] = "connected" /\ ~peerChoking[w] /\ ~T!Done
     /\ known /\ remotePieces[w] \ bitfield # {})
      => \/ active[w] # NoPiece
         \/ \E slot \in 1..Slots : call[<<w, slot>>].phase # "idle"
         \/ T!Active("metadata")

\* With peers that own every piece, the session reports `done`: even when a
\* peer still in its handshake makes broadcastHave throw and the wire that
\* finished a piece falls idle, the wire that registers last carries on.
EventuallyDone == <>T!Done
=============================================================================

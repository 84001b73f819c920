----------------------------- MODULE UtMetadata -----------------------------
(***************************************************************************)
(* The exchange of a torrent's info dictionary over one connection         *)
(* (extensions/ut-metadata.ts, BEP 9), from the extended handshake on: the *)
(* UtMetadata objects at both ends of the wire and the frames between      *)
(* them.  The data channel keeps order and loses nothing until it closes;  *)
(* a handler runs to completion.                                           *)
(***************************************************************************)
EXTENDS Integers, FiniteSets, Sequences

CONSTANTS
  Ends,        \* the two ends of the wire
  Other,       \* the end opposite to one
  NumPieces,   \* _numPieces
  Versions,    \* info dictionaries, all of one size
  Info,        \* the one the info hash is the SHA-1 of
  Foreign,     \* ends that are other programs: they may refuse any request and
               \* start with any dictionary
  MaxTimeouts, \* bounds how often request timers fire
  Null

Pieces == 1..NumPieces
Zero == 0      \* a piece of a fresh Uint8Array

ASSUME UtMetadataAssumption ==
  /\ Other \in [Ends -> Ends] /\ \A e \in Ends : Other[e] # e /\ Other[Other[e]] = e
  /\ NumPieces \in Nat \ {0} /\ MaxTimeouts \in Nat
  /\ Foreign \subseteq Ends /\ Versions \subseteq Nat \ {Zero} /\ Info \in Versions
  /\ Null \notin Nat

VARIABLES
  ut,       \* the UtMetadata object of each end
  chan,     \* the frames on their way to each end
  up,       \* the data channel is open
  timeouts  \* how many request timers have fired

vars == <<ut, chan, up, timeouts>>

Buffer == [Pieces -> Versions \cup {Zero}]
Objects ==
  [fetching : BOOLEAN, metadataComplete : BOOLEAN,
   sized : BOOLEAN,                       \* _metadataSize is known
   bitfield : SUBSET Pieces, remainingRejects : Int,
   metadata : Buffer \cup {Null},
   requestedPieces : SUBSET Pieces]       \* each with a running timer
Frame(type, piece, content) == [type |-> type, piece |-> piece, content |-> content]
Frames == [type : {"handshake", "bareHandshake", "request", "data", "reject"},
           piece : Pieces \cup {0}, content : Versions \cup {Zero}]

TypeOK ==
  /\ ut \in [Ends -> Objects]
  /\ \A e \in Ends : ut[e].remainingRejects <= 2 * NumPieces
  /\ \A e \in Ends : \A i \in 1..Len(chan[e]) : chan[e][i] \in Frames
  /\ up \in BOOLEAN /\ timeouts \in 0..MaxTimeouts

Whole(v) == [p \in Pieces |-> v]
Genuine(data) == \E v \in Versions : data = Whole(v)

\* An end that knows the metadata when the wire is made is complete from the
\* start; the other one fetches.
NewObject(v) ==
  [fetching |-> v = Null, metadataComplete |-> v # Null, sized |-> v # Null,
   bitfield |-> {}, remainingRejects |-> 0,
   metadata |-> IF v = Null THEN Null ELSE Whole(v), requestedPieces |-> {}]

\* The extended handshake of each end is on its way, with or without the size.
Init ==
  \E known \in [Ends -> Versions \cup {Null}] :
    /\ \A e \in Ends \ Foreign : known[e] \in {Info, Null}
    /\ ut = [e \in Ends |-> NewObject(known[e])]
    /\ chan = [e \in Ends |-> <<Frame(IF known[Other[e]] = Null THEN "bareHandshake"
                                    ELSE "handshake", 0, Zero)>>]
    /\ up = TRUE /\ timeouts = 0
-----------------------------------------------------------------------------
(***************************************************************************)
(* Methods: from an object to the next one and the frames it sends         *)
(***************************************************************************)
Result(u, frames) == [ut |-> u, sends |-> frames]
RequestFrames(P) == [i \in 1..Cardinality(P) |->
                      Frame("request", CHOOSE p \in P : Cardinality({q \in P : q < p}) = i - 1, Zero)]

\* #requestPieces: a fresh buffer, and a request for every piece.
RequestPieces(u) ==
  Result([u EXCEPT !.metadata = Whole(Zero), !.requestedPieces = Pieces], RequestFrames(Pieces))

\* #verifyMetadataIntegrity only decodes.  A buffer of one version decodes, one
\* that starts with zeros does not; zeros or another version further on may
\* fall into a string.
Decodes(data) ==
  IF Genuine(data) THEN {TRUE} ELSE IF data[1] = Zero THEN {FALSE} ELSE BOOLEAN

FailedForFree(u) ==               \* mutant: a failed attempt costs nothing
  RequestPieces([u EXCEPT !.bitfield = {}])
\* #failedMetadata.
Failed(u) ==
  LET v == [u EXCEPT !.bitfield = {}, !.remainingRejects = @ - NumPieces]
  IN  IF v.remainingRejects > 0 THEN RequestPieces(v) ELSE Result(v, <<>>)

CheckDoneEarly(u, decodes) ==     \* mutant: the last piece is not waited for
  IF u.bitfield \cup {NumPieces} # Pieces THEN Result(u, <<>>)
  ELSE IF ~decodes THEN Failed(u)
  ELSE Result([u EXCEPT !.metadataComplete = TRUE, !.fetching = FALSE], <<>>)
\* #checkDone and setMetadata, which leaves a complete object as it is.
CheckDone(u, decodes) ==
  IF u.bitfield # Pieces THEN Result(u, <<>>)
  ELSE IF ~decodes THEN Failed(u)
  ELSE IF u.metadataComplete THEN Result(u, <<>>)
  ELSE Result([u EXCEPT !.metadataComplete = TRUE, !.fetching = FALSE], <<>>)

\* #request of one piece again, and what a reject and a timeout do.
Again(u, p) ==
  Result([u EXCEPT !.requestedPieces = @ \cup {p}], <<Frame("request", p, Zero)>>)
-----------------------------------------------------------------------------
(***************************************************************************)
(* Frames that arrive                                                      *)
(***************************************************************************)
HandshakeWaits(u) ==              \* mutant: nothing asks for the pieces
  Result([u EXCEPT !.sized = TRUE, !.remainingRejects = 2 * NumPieces,
                   !.bitfield = {}, !.fetching = TRUE], <<>>)
\* onExtendedHandshake: a size starts a download, even of what is complete.
OnHandshake(u) ==
  RequestPieces([u EXCEPT !.sized = TRUE, !.remainingRejects = 2 * NumPieces,
                          !.bitfield = {}, !.fetching = TRUE])

\* #onRequest; serving a piece also drops our own request for it.
OnRequest(u, p, refuse) ==
  IF refuse \/ ~u.metadataComplete \/ ~u.sized THEN Result(u, <<Frame("reject", p, Zero)>>)
  ELSE Result([u EXCEPT !.requestedPieces = @ \ {p}], <<Frame("data", p, u.metadata[p])>>)

OnData(u, p, content, decodes) ==
  IF ~u.fetching \/ ~u.sized \/ p \in u.bitfield THEN Result(u, <<>>)
  ELSE CheckDone([u EXCEPT !.metadata[p] = content, !.bitfield = @ \cup {p},
                           !.requestedPieces = @ \ {p}], decodes)

OnRejectDrops(u, p) ==            \* mutant: a refused piece is forgotten
  Result([u EXCEPT !.requestedPieces = @ \ {p}, !.remainingRejects = @ - 1], <<>>)
OnReject(u, p) ==
  IF u.remainingRejects > 0 /\ u.fetching
  THEN Again([u EXCEPT !.remainingRejects = @ - 1], p)
  ELSE Result([u EXCEPT !.requestedPieces = @ \ {p}], <<>>)

\* An end handles a frame and sends what it answers.
Becomes(e, r, rest) ==
  /\ ut' = [ut EXCEPT ![e] = r.ut]
  /\ chan' = [chan EXCEPT ![e] = rest, ![Other[e]] = @ \o r.sends]

Deliver(e) ==
  /\ up /\ chan[e] # <<>>
  /\ LET f == Head(chan[e]) u == ut[e] rest == Tail(chan[e]) IN
       \/ f.type = "handshake" /\ Becomes(e, OnHandshake(u), rest)
       \/ f.type = "bareHandshake" /\ Becomes(e, Result(u, <<>>), rest)
       \/ f.type = "request"
          /\ \E refuse \in IF e \in Foreign THEN BOOLEAN ELSE {FALSE} :
               Becomes(e, OnRequest(u, f.piece, refuse), rest)
       \/ f.type = "data"
          /\ \E decodes \in IF u.metadata = Null THEN {FALSE}
                            ELSE Decodes([u.metadata EXCEPT ![f.piece] = f.content]) :
               Becomes(e, OnData(u, f.piece, f.content, decodes), rest)
       \/ f.type = "reject" /\ Becomes(e, OnReject(u, f.piece), rest)
  /\ UNCHANGED <<up, timeouts>>

\* #handleTimeout deletes the request before it reads the attempts made, so it
\* always asks again; on a closed wire that throws.
Timeout(e, p) ==
  /\ p \in ut[e].requestedPieces /\ timeouts < MaxTimeouts
  /\ timeouts' = timeouts + 1
  /\ IF up /\ ut[e].fetching THEN Becomes(e, Again(ut[e], p), chan[e])
     ELSE Becomes(e, Result([ut[e] EXCEPT !.requestedPieces = @ \ {p}], <<>>), chan[e])
  /\ UNCHANGED up

\* The data channel closes with what is in it; the timers go on.
LinkDown ==
  /\ up
  /\ up' = FALSE /\ chan' = [e \in Ends |-> <<>>]
  /\ UNCHANGED <<ut, timeouts>>

Next == LinkDown \/ \E e \in Ends : Deliver(e) \/ \E p \in Pieces : Timeout(e, p)

Spec == Init /\ [][Next]_vars
FairSpec == Spec /\ \A e \in Ends : WF_vars(Deliver(e))
-----------------------------------------------------------------------------
(***************************************************************************)
(* Properties                                                              *)
(***************************************************************************)

\* An end that is complete and not fetching again holds one whole dictionary,
\* whatever was asked twice, refused, late or dropped (#onData, #checkDone).
CompleteIsGenuine ==
  \A e \in Ends : ut[e].metadataComplete /\ ~ut[e].fetching => Genuine(ut[e].metadata)

\* While an end fetches what it never had, each piece it lacks has a running
\* timer, which will ask again, until the rejects are used up.
MissingIsRequested ==
  \A e \in Ends :
    LET u == ut[e] IN
    up /\ u.fetching /\ u.sized /\ ~u.metadataComplete /\ u.remainingRejects > 0
      => Pieces \ u.bitfield \subseteq u.requestedPieces

\* An end told of a size by a peer that has the metadata gets it, unless the
\* wire closes or the peer refuses too often.
GetsMetadata ==
  \A e \in Ends :
    (up /\ chan[e] # <<>> /\ Head(chan[e]) = Frame("handshake", 0, Zero) /\ ~ut[e].metadataComplete)
      ~> (ut[e].metadataComplete \/ ~up \/ (ut[e].sized /\ ut[e].remainingRejects <= 0))

\* Refused and failed attempts end: docs/browsertorrent/05-fase-5-swarm-e-ut-metadata.md:92
\* limits them by remainingRejects, so the wire falls silent.
WireFallsSilent == <>[](\A e \in Ends : chan[e] = <<>>)
=============================================================================

--------------------------- MODULE ExchangeProofs ---------------------------
(***************************************************************************)
(* Proofs about what two peers exchange before they share pieces: the      *)
(* metadata, with UtMetadata, for every number of pieces and versions, and *)
(* offers and answers through a tracker, with Signalling, for any clients, *)
(* sockets and losses. The inductive invariants are IInv, SocketInv and    *)
(* OfferInv, the last with that of TrackerServer, which Signalling refines.*)
(***************************************************************************)
EXTENDS UtMetadata, Signalling, FiniteSetTheorems, SequenceTheorems, RecursionLemmas, TLAPS

Fields == {"fetching", "metadataComplete", "sized", "bitfield", "remainingRejects", "metadata",
           "requestedPieces"}
Sound == {f \in Frames : f.type \in {"request", "data", "reject"} => f.piece \in Pieces}

\* One end by itself: what it lacks it asks for, and complete it has one version.
Shape(u) ==
  /\ DOMAIN u = Fields
  /\ u.fetching \in BOOLEAN /\ u.metadataComplete \in BOOLEAN /\ u.sized \in BOOLEAN
  /\ u.bitfield \subseteq Pieces /\ u.remainingRejects \in Int
  /\ u.metadata \in Buffer \cup {Null}
  /\ u.fetching /\ u.sized => u.metadata \in Buffer
  /\ u.metadataComplete => u.metadata \in Buffer
Asks(u, open) ==
  open /\ u.fetching /\ u.sized /\ ~u.metadataComplete /\ u.remainingRejects > 0
    => Pieces \ u.bitfield \subseteq u.requestedPieces
HoldsOne(u) == u.metadataComplete /\ ~u.fetching => Genuine(u.metadata)
Alone(u, open) == Shape(u) /\ Asks(u, open) /\ HoldsOne(u)

NoHandshake == {f \in Sound : f.type # "handshake"}
NoData == {f \in Sound : f.type # "data"}
DataOf(data) == {f \in Sound : f.type = "data" => f.content = data[f.piece]}

\* An end u that is not complete, the other one o, and what is on its way to them:
\* u never makes o fetch again, and what u has got or will get is what o has.
Learns(u, o, toU, toO) ==
  ~u.metadataComplete =>
    /\ toO \in Seq(NoHandshake)
    /\ o.metadataComplete =>
         /\ ~o.fetching
         /\ toU \in Seq(DataOf(o.metadata))
         /\ \A p \in u.bitfield : u.metadata[p] = o.metadata[p]
    /\ ~o.metadataComplete => toU \in Seq(NoData) /\ u.bitfield = {}

\* The inductive invariant.
IInv ==
  /\ DOMAIN ut = Ends /\ DOMAIN chan = Ends /\ up \in BOOLEAN
  /\ \A e \in Ends :
       /\ Alone(ut[e], up) /\ chan[e] \in Seq(Sound)
       /\ Learns(ut[e], ut[Other[e]], chan[e], chan[Other[e]])
-----------------------------------------------------------------------------
(***************************************************************************)
(* Frames and queues                                                       *)
(***************************************************************************)

\* Frames that ask or refuse: they tell nothing of what an end has.
Mild == {f \in Sound : f.type \in {"request", "reject"}}

\* Sets of frames that contain them.
LEMMA MildLemma ==
  /\ Mild \subseteq Sound /\ Mild \subseteq NoHandshake /\ Mild \subseteq NoData
  /\ \A data : Mild \subseteq DataOf(data)
  /\ NoHandshake \subseteq Sound /\ NoData \subseteq Sound /\ \A data : DataOf(data) \subseteq Sound
BY DEF Mild, NoHandshake, NoData, DataOf

\* What is sent after what is on its way.
LEMMA SendLemma ==
  ASSUME NEW S, NEW V, V \subseteq S, NEW r \in Seq(S), NEW s \in Seq(V)
  PROVE  r \o s \in Seq(S)
<1>1. s \in Seq(S)
  OBVIOUS
<1> QED BY <1>1

\* What is left when the first frame has arrived.
LEMMA TailLemma ==
  ASSUME NEW S, NEW q \in Seq(S), q # <<>>
  PROVE  Tail(q) \in Seq(S) /\ Head(q) \in S
OBVIOUS

\* There is a frame for each piece.
LEMMA FrameLemma ==
  /\ \A p \in Pieces : Frame("request", p, Zero) \in Mild /\ Frame("reject", p, Zero) \in Mild
  /\ \A p \in Pieces, data \in Buffer : Frame("data", p, data[p]) \in DataOf(data)
BY DEF Mild, Sound, Frames, Frame, Pieces, DataOf, Buffer

\* #requestPieces asks for pieces only.
LEMMA RequestsLemma == RequestFrames(Pieces) \in Seq(Mild)
<1>1. NumPieces \in Nat
  BY UtMetadataAssumption
<1>2. IsFiniteSet(Pieces) /\ Cardinality(Pieces) = NumPieces
  BY <1>1, FS_Interval DEF Pieces
<1>3. ASSUME NEW i \in 1..NumPieces
      PROVE  \E p \in Pieces : Cardinality({q \in Pieces : q < p}) = i - 1
  <2>1. {q \in Pieces : q < i} = 1..(i - 1)
    BY <1>1 DEF Pieces
  <2>2. Cardinality(1..(i - 1)) = i - 1
    BY <1>1, FS_Interval
  <2> QED BY <2>1, <2>2 DEF Pieces
<1>4. PICK a : a = [i \in 1..NumPieces |->
                      CHOOSE p \in Pieces : Cardinality({q \in Pieces : q < p}) = i - 1]
  OBVIOUS
<1>5. \A i \in 1..NumPieces : a[i] \in Pieces
  BY <1>3, <1>4
<1>6. RequestFrames(Pieces) = [i \in 1..NumPieces |-> Frame("request", a[i], Zero)]
  BY <1>2, <1>4 DEF RequestFrames
<1>7. \A i \in 1..NumPieces : Frame("request", a[i], Zero) \in Mild
  BY <1>5, FrameLemma
<1> QED BY <1>1, <1>6, <1>7
-----------------------------------------------------------------------------
(***************************************************************************)
(* What a handler does to the two ends                                     *)
(***************************************************************************)
Kept(result, o, toU, toO, open) ==
  /\ Alone(result.ut, open) /\ result.sends \in Seq(Sound)
  /\ Learns(result.ut, o, toU, toO \o result.sends)
  /\ Learns(o, result.ut, toO \o result.sends, toU)

\* An end that neither starts, gets nor serves a piece, and asks or refuses at most.
LEMMA MildStep ==
  ASSUME NEW u, NEW o, NEW q, NEW r \in Seq(Sound), Learns(u, o, q, r), Learns(o, u, r, q),
         NEW open, NEW u2, Alone(u2, open),
         u2.metadataComplete = u.metadataComplete, u2.fetching = u.fetching,
         u2.bitfield = u.bitfield, u2.metadata = u.metadata,
         NEW s \in Seq(Mild), NEW q2, \A S : q \in Seq(S) => q2 \in Seq(S)
  PROVE  Kept(Result(u2, s), o, q2, r, open)
<1>1. Result(u2, s).ut = u2 /\ Result(u2, s).sends = s
  BY DEF Result
<1>2. s \in Seq(Sound)
  BY MildLemma
<1>3. Learns(u2, o, q2, r \o s)
  <2>1. r \in Seq(NoHandshake) => r \o s \in Seq(NoHandshake)
    BY MildLemma, SendLemma
  <2> QED BY <2>1 DEF Learns
<1>4. Learns(o, u2, r \o s, q2)
  <2>1. r \in Seq(DataOf(u.metadata)) => r \o s \in Seq(DataOf(u.metadata))
    BY MildLemma, SendLemma
  <2>2. r \in Seq(NoData) => r \o s \in Seq(NoData)
    BY MildLemma, SendLemma
  <2> QED BY <2>1, <2>2 DEF Learns
<1> QED BY <1>1, <1>2, <1>3, <1>4 DEF Kept

\* #requestPieces, on an object that has lost its bit field, fetches and knows the size.
LEMMA RequestPiecesStep ==
  ASSUME NEW u, DOMAIN u = Fields, u.fetching = TRUE, u.sized = TRUE, u.bitfield = {},
         u.metadataComplete \in BOOLEAN, u.remainingRejects \in Int,
         NEW o, o.metadataComplete, NEW q, NEW r \in Seq(Sound), Learns(u, o, q, r), NEW open
  PROVE  Kept(RequestPieces(u), o, q, r, open)
<1>1. PICK u2 : u2 = [u EXCEPT !.metadata = Whole(Zero), !.requestedPieces = Pieces]
  OBVIOUS
<1>2. PICK s : s = RequestFrames(Pieces)
  OBVIOUS
<1>3. RequestPieces(u).ut = u2 /\ RequestPieces(u).sends = s
  BY <1>1, <1>2 DEF RequestPieces, Result
<1>4. s \in Seq(Mild) /\ s \in Seq(Sound)
  BY <1>2, RequestsLemma, MildLemma
<1>5. /\ DOMAIN u2 = Fields /\ u2.metadata = Whole(Zero) /\ u2.requestedPieces = Pieces
      /\ u2.fetching = u.fetching /\ u2.sized = u.sized /\ u2.bitfield = {}
      /\ u2.metadataComplete = u.metadataComplete /\ u2.remainingRejects = u.remainingRejects
  BY <1>1 DEF Fields
<1>6. Whole(Zero) \in Buffer
  BY DEF Whole, Buffer
<1>7. Alone(u2, open)
  BY <1>5, <1>6 DEF Alone, Shape, Asks, HoldsOne
<1>8. Learns(u2, o, q, r \o s)
  <2>1. r \in Seq(NoHandshake) => r \o s \in Seq(NoHandshake)
    BY <1>4, MildLemma, SendLemma
  <2> QED BY <1>5, <2>1 DEF Learns
<1>9. Learns(o, u2, r \o s, q)
  BY DEF Learns
<1> QED BY <1>3, <1>4, <1>7, <1>8, <1>9 DEF Kept
-----------------------------------------------------------------------------
(***************************************************************************)
(* Handlers                                                                *)
(***************************************************************************)

\* onExtendedHandshake with a size: the other end has the metadata.
LEMMA OnHandshakeStep ==
  ASSUME NEW u, NEW o, NEW q \in Seq(Sound), NEW r \in Seq(Sound), NEW open, q # <<>>,
         Alone(u, open), Learns(u, o, q, r), Learns(o, u, r, q), Head(q).type = "handshake",
         o.metadataComplete \in BOOLEAN
  PROVE  Kept(OnHandshake(u), o, Tail(q), r, open)
<1>1. PICK v : v = [u EXCEPT !.sized = TRUE, !.remainingRejects = 2 * NumPieces,
                             !.bitfield = {}, !.fetching = TRUE]
  OBVIOUS
<1>2. /\ DOMAIN v = Fields /\ v.sized = TRUE /\ v.fetching = TRUE /\ v.bitfield = {}
      /\ v.remainingRejects = 2 * NumPieces /\ v.metadata = u.metadata
      /\ v.metadataComplete = u.metadataComplete
  BY <1>1 DEF Alone, Shape, Fields
<1>3. o.metadataComplete
  <2>1. q \notin Seq(NoHandshake)
    BY TailLemma DEF NoHandshake
  <2> QED BY <2>1 DEF Learns
<1>4. Tail(q) \in Seq(Sound) /\ \A S : q \in Seq(S) => Tail(q) \in Seq(S)
  BY TailLemma
<1>5. Learns(v, o, Tail(q), r)
  BY <1>2, <1>3, <1>4 DEF Learns
<1>6. 2 * NumPieces \in Int /\ v.metadataComplete \in BOOLEAN
  BY <1>2, UtMetadataAssumption DEF Alone, Shape
<1>7. Kept(RequestPieces(v), o, Tail(q), r, open)
  BY <1>2, <1>3, <1>5, <1>6, RequestPiecesStep
<1> QED BY <1>1, <1>7 DEF OnHandshake

\* A handshake without a size.
LEMMA OnBareHandshakeStep ==
  ASSUME NEW u, NEW o, NEW q \in Seq(Sound), NEW r \in Seq(Sound), NEW open, q # <<>>,
         Alone(u, open), Learns(u, o, q, r), Learns(o, u, r, q)
  PROVE  Kept(Result(u, <<>>), o, Tail(q), r, open)
<1>1. \A S : q \in Seq(S) => Tail(q) \in Seq(S)
  BY TailLemma
<1>2. <<>> \in Seq(Mild)
  OBVIOUS
<1> QED BY <1>1, <1>2, MildStep

\* #onRequest.
LEMMA OnRequestStep ==
  ASSUME NEW u, NEW o, NEW q \in Seq(Sound), NEW r \in Seq(Sound), NEW open, q # <<>>,
         Alone(u, open), Learns(u, o, q, r), Learns(o, u, r, q),
         NEW p \in Pieces, NEW refuse
  PROVE  Kept(OnRequest(u, p, refuse), o, Tail(q), r, open)
<1>1. \A S : q \in Seq(S) => Tail(q) \in Seq(S)
  BY TailLemma
<1>2. CASE refuse \/ ~u.metadataComplete \/ ~u.sized
  <2>1. PICK s : s = <<Frame("reject", p, Zero)>>
    OBVIOUS
  <2>2. s \in Seq(Mild)
    BY <2>1, FrameLemma
  <2>3. Kept(Result(u, s), o, Tail(q), r, open)
    BY <1>1, <2>2, MildStep
  <2> QED BY <1>2, <2>1, <2>3 DEF OnRequest
<1>3. CASE ~(refuse \/ ~u.metadataComplete \/ ~u.sized)
  <2>1. PICK u2 : u2 = [u EXCEPT !.requestedPieces = @ \ {p}]
    OBVIOUS
  <2>2. PICK s : s = <<Frame("data", p, u.metadata[p])>>
    OBVIOUS
  <2>3. OnRequest(u, p, refuse).ut = u2 /\ OnRequest(u, p, refuse).sends = s
    BY <1>3, <2>1, <2>2 DEF OnRequest, Result
  <2>4. s \in Seq(DataOf(u.metadata)) /\ s \in Seq(Sound)
    BY <1>3, <2>2, FrameLemma, MildLemma DEF Alone, Shape
  <2>5. /\ DOMAIN u2 = Fields /\ u2.metadata = u.metadata
        /\ u2.fetching = u.fetching /\ u2.sized = u.sized /\ u2.bitfield = u.bitfield
        /\ u2.metadataComplete = u.metadataComplete /\ u2.remainingRejects = u.remainingRejects
    BY <2>1 DEF Alone, Shape, Fields
  <2>6. Alone(u2, open)
    BY <1>3, <2>5 DEF Alone, Shape, Asks, HoldsOne
  <2>7. Learns(u2, o, Tail(q), r \o s)
    BY <1>3, <2>5 DEF Learns
  <2>8. r \in Seq(DataOf(u.metadata)) => r \o s \in Seq(DataOf(u.metadata))
    BY <2>4, SendLemma
  <2>9. Learns(o, u2, r \o s, Tail(q))
    BY <1>1, <1>3, <2>5, <2>8 DEF Learns
  <2> QED BY <2>3, <2>4, <2>6, <2>7, <2>9 DEF Kept
<1> QED BY <1>2, <1>3

\* #request again, when the end fetches.
LEMMA AgainStep ==
  ASSUME NEW u, NEW o, NEW q, NEW r \in Seq(Sound), NEW open,
         DOMAIN u = Fields, Alone(u, open), Learns(u, o, q, r), Learns(o, u, r, q),
         NEW p \in Pieces, NEW q2, \A S : q \in Seq(S) => q2 \in Seq(S)
  PROVE  Kept(Again(u, p), o, q2, r, open)
<1>1. PICK u2 : u2 = [u EXCEPT !.requestedPieces = @ \cup {p}]
  OBVIOUS
<1>2. PICK s : s = <<Frame("request", p, Zero)>>
  OBVIOUS
<1>3. s \in Seq(Mild)
  BY <1>2, FrameLemma
<1>4. /\ DOMAIN u2 = Fields /\ u2.metadata = u.metadata
      /\ u2.fetching = u.fetching /\ u2.sized = u.sized /\ u2.bitfield = u.bitfield
      /\ u2.metadataComplete = u.metadataComplete /\ u2.remainingRejects = u.remainingRejects
      /\ u2.requestedPieces = u.requestedPieces \cup {p}
  BY <1>1 DEF Fields
<1>5. Alone(u2, open)
  BY <1>4 DEF Alone, Shape, Asks, HoldsOne
<1>6. Kept(Result(u2, s), o, q2, r, open)
  BY <1>3, <1>4, <1>5, MildStep
<1> QED BY <1>1, <1>2, <1>6 DEF Again

\* An end that stops waiting for p, when it does not fetch or has no rejects left.
LEMMA ForgetStep ==
  ASSUME NEW u, NEW o, NEW q, NEW r \in Seq(Sound), NEW open, NEW was,
         Alone(u, was), Learns(u, o, q, r), Learns(o, u, r, q),
         ~open \/ ~u.fetching \/ ~(u.remainingRejects > 0),
         NEW p, NEW q2, \A S : q \in Seq(S) => q2 \in Seq(S)
  PROVE  Kept(Result([u EXCEPT !.requestedPieces = @ \ {p}], <<>>), o, q2, r, open)
<1>1. PICK u2 : u2 = [u EXCEPT !.requestedPieces = @ \ {p}]
  OBVIOUS
<1>2. <<>> \in Seq(Mild)
  OBVIOUS
<1>3. /\ DOMAIN u2 = Fields /\ u2.metadata = u.metadata
      /\ u2.fetching = u.fetching /\ u2.sized = u.sized /\ u2.bitfield = u.bitfield
      /\ u2.metadataComplete = u.metadataComplete /\ u2.remainingRejects = u.remainingRejects
  BY <1>1 DEF Alone, Shape, Fields
<1>4. Alone(u2, open)
  BY <1>3 DEF Alone, Shape, Asks, HoldsOne
<1>5. Kept(Result(u2, <<>>), o, q2, r, open)
  BY <1>2, <1>3, <1>4, MildStep
<1> QED BY <1>1, <1>5

\* A reject.
LEMMA OnRejectStep ==
  ASSUME NEW u, NEW o, NEW q \in Seq(Sound), NEW r \in Seq(Sound), NEW open, q # <<>>,
         Alone(u, open), Learns(u, o, q, r), Learns(o, u, r, q), NEW p \in Pieces
  PROVE  Kept(OnReject(u, p), o, Tail(q), r, open)
<1>1. \A S : q \in Seq(S) => Tail(q) \in Seq(S)
  BY TailLemma
<1>2. CASE u.remainingRejects > 0 /\ u.fetching
  <2>1. PICK v : v = [u EXCEPT !.remainingRejects = @ - 1]
    OBVIOUS
  <2>2. /\ DOMAIN v = Fields /\ v.metadata = u.metadata
        /\ v.fetching = u.fetching /\ v.sized = u.sized /\ v.bitfield = u.bitfield
        /\ v.metadataComplete = u.metadataComplete /\ v.requestedPieces = u.requestedPieces
        /\ v.remainingRejects = u.remainingRejects - 1
    BY <2>1 DEF Alone, Shape, Fields
  <2>3. Alone(v, open)
    BY <1>2, <2>2 DEF Alone, Shape, Asks, HoldsOne
  <2>4. Learns(v, o, q, r) /\ Learns(o, v, r, q)
    BY <2>2 DEF Learns
  <2>5. Kept(Again(v, p), o, Tail(q), r, open)
    BY <1>1, <2>2, <2>3, <2>4, AgainStep
  <2> QED BY <1>2, <2>1, <2>5 DEF OnReject
<1>3. CASE ~(u.remainingRejects > 0 /\ u.fetching)
  <2>1. Kept(Result([u EXCEPT !.requestedPieces = @ \ {p}], <<>>), o, Tail(q), r, open)
    BY <1>1, <1>3, ForgetStep
  <2> QED BY <1>3, <2>1 DEF OnReject
<1> QED BY <1>2, <1>3

\* A piece arrives: the last one makes the end complete with what the other end has.
LEMMA OnDataStep ==
  ASSUME NEW u, NEW o, NEW q \in Seq(Sound), NEW r \in Seq(Sound), NEW open, q # <<>>,
         Alone(u, open), NEW was, Alone(o, was), Learns(u, o, q, r), Learns(o, u, r, q),
         NEW f, f = Head(q), f.type = "data", NEW decodes
  PROVE  Kept(OnData(u, f.piece, f.content, decodes), o, Tail(q), r, open)
<1>1. \A S : q \in Seq(S) => Tail(q) \in Seq(S) /\ f \in S
  BY TailLemma
<1>2. PICK p : p = f.piece
  OBVIOUS
<1>3. f \in Frames /\ p \in Pieces /\ f.content \in Versions \cup {Zero}
  BY <1>1, <1>2 DEF Sound, Frames
<1>4. CASE ~u.fetching \/ ~u.sized \/ p \in u.bitfield
  <2>1. <<>> \in Seq(Mild)
    OBVIOUS
  <2>2. Kept(Result(u, <<>>), o, Tail(q), r, open)
    BY <1>1, <2>1, MildStep
  <2> QED BY <1>2, <1>4, <2>2 DEF OnData
<1>5. CASE ~(~u.fetching \/ ~u.sized \/ p \in u.bitfield)
  <2>1. PICK v : v = [u EXCEPT !.metadata[p] = f.content, !.bitfield = @ \cup {p},
                               !.requestedPieces = @ \ {p}]
    OBVIOUS
  <2>2. OnData(u, f.piece, f.content, decodes) = CheckDone(v, decodes)
    BY <1>2, <1>5, <2>1 DEF OnData
  <2>3. /\ DOMAIN v = Fields /\ v.metadata = [u.metadata EXCEPT ![p] = f.content]
        /\ v.fetching = TRUE /\ v.sized = TRUE /\ v.bitfield = u.bitfield \cup {p}
        /\ v.metadataComplete = u.metadataComplete /\ v.requestedPieces = u.requestedPieces \ {p}
        /\ v.remainingRejects = u.remainingRejects
    BY <1>5, <2>1 DEF Alone, Shape, Fields
  <2>4. u.metadata \in Buffer /\ v.metadata \in Buffer
    BY <1>3, <1>5, <2>3 DEF Alone, Shape, Buffer
  <2>5. Alone(v, open)
    <3>1. /\ u.bitfield \subseteq Pieces /\ u.remainingRejects \in Int
          /\ u.metadataComplete \in BOOLEAN /\ Asks(u, open)
      BY DEF Alone, Shape
    <3>2. u.fetching = TRUE /\ u.sized = TRUE
      BY <1>5 DEF Alone, Shape
    <3>3. v.bitfield \subseteq Pieces
      BY <1>3, <2>3, <3>1
    <3>4. Shape(v)
      BY <2>3, <2>4, <3>1, <3>3 DEF Shape
    <3>5. Asks(v, open)
      BY <2>3, <3>1, <3>2 DEF Asks
    <3>6. HoldsOne(v)
      BY <2>3 DEF HoldsOne
    <3> QED BY <3>4, <3>5, <3>6 DEF Alone
  <2>6. o.metadataComplete
    <3>1. q \notin Seq(NoData)
      BY <1>1 DEF NoData
    <3> QED BY <1>5, <3>1 DEF Learns
  <2>7. Learns(v, o, Tail(q), r)
    <3>1. q \in Seq(DataOf(o.metadata)) => f.content = o.metadata[p]
      BY <1>1, <1>2 DEF DataOf
    <3>2. v.metadata[p] = f.content /\ \A x \in u.bitfield \ {p} : v.metadata[x] = u.metadata[x]
      BY <1>3, <2>3, <2>4 DEF Buffer, Alone, Shape
    <3> QED BY <1>1, <2>3, <2>6, <3>1, <3>2 DEF Learns
  <2>8. r \o <<>> = r /\ <<>> \in Seq(Sound)
    OBVIOUS
  <2>9. \A w : Learns(o, w, r, Tail(q))
    BY <2>6 DEF Learns
  <2>10. Kept(Result(v, <<>>), o, Tail(q), r, open)
    BY <2>5, <2>7, <2>8, <2>9 DEF Kept, Result
  <2>11. Kept(Failed(v), o, Tail(q), r, open)
    <3>1. PICK w : w = [v EXCEPT !.bitfield = {}, !.remainingRejects = @ - NumPieces]
      OBVIOUS
    <3>2. /\ DOMAIN w = Fields /\ w.metadata = v.metadata /\ w.bitfield = {}
          /\ w.fetching = TRUE /\ w.sized = TRUE /\ w.metadataComplete = v.metadataComplete
          /\ w.remainingRejects = v.remainingRejects - NumPieces
      BY <2>3, <3>1 DEF Fields
    <3>3. w.remainingRejects \in Int /\ w.metadataComplete \in BOOLEAN
      BY <2>5, <3>2, UtMetadataAssumption DEF Alone, Shape
    <3>4. Learns(w, o, Tail(q), r)
      BY <2>6, <2>7, <3>2 DEF Learns
    <3>5. CASE w.remainingRejects > 0
      <4>1. Kept(RequestPieces(w), o, Tail(q), r, open)
        BY <2>6, <3>2, <3>3, <3>4, RequestPiecesStep
      <4> QED BY <3>1, <3>5, <4>1 DEF Failed
    <3>6. CASE ~(w.remainingRejects > 0)
      <4>1. Alone(w, open)
        BY <2>4, <3>2, <3>3, <3>6 DEF Alone, Shape, Asks, HoldsOne
      <4>2. Kept(Result(w, <<>>), o, Tail(q), r, open)
        BY <2>8, <2>9, <3>4, <4>1 DEF Kept, Result
      <4> QED BY <3>1, <3>6, <4>2 DEF Failed
    <3> QED BY <3>5, <3>6
  <2>12. ASSUME v.bitfield = Pieces, ~v.metadataComplete
         PROVE  Kept(Result([v EXCEPT !.metadataComplete = TRUE, !.fetching = FALSE], <<>>),
                     o, Tail(q), r, open)
    <3>1. PICK w : w = [v EXCEPT !.metadataComplete = TRUE, !.fetching = FALSE]
      OBVIOUS
    <3>2. /\ DOMAIN w = Fields /\ w.metadata = v.metadata /\ w.bitfield = v.bitfield
          /\ w.fetching = FALSE /\ w.sized = TRUE /\ w.metadataComplete = TRUE
          /\ w.remainingRejects = v.remainingRejects
      BY <2>3, <3>1 DEF Fields
    <3>3. ~o.fetching /\ \A x \in Pieces : v.metadata[x] = o.metadata[x]
      BY <2>6, <2>7, <2>12 DEF Learns
    <3>4. Genuine(o.metadata) /\ o.metadata \in Buffer
      BY <2>6, <3>3 DEF Alone, HoldsOne, Shape
    <3>5. v.metadata = o.metadata
      BY <2>4, <3>3, <3>4 DEF Buffer
    <3>6. Alone(w, open)
      BY <2>4, <2>5, <3>2, <3>4, <3>5 DEF Alone, Shape, Asks, HoldsOne
    <3>7. Learns(w, o, Tail(q), r)
      BY <3>2 DEF Learns
    <3>8. Kept(Result(w, <<>>), o, Tail(q), r, open)
      BY <2>8, <2>9, <3>6, <3>7 DEF Kept, Result
    <3> QED BY <3>1, <3>8
  <2> QED BY <2>2, <2>10, <2>11, <2>12 DEF CheckDone
<1> QED BY <1>4, <1>5
-----------------------------------------------------------------------------
(***************************************************************************)
(* Steps                                                                   *)
(***************************************************************************)

\* What one end does reaches that end, the other one and the frames between them.
LEMMA BecomesStep ==
  ASSUME IInv, NEW e \in Ends, NEW result, NEW rest \in Seq(Sound), Becomes(e, result, rest),
         Kept(result, ut[Other[e]], rest, chan[Other[e]], up), UNCHANGED up
  PROVE  IInv'
<1>1. PICK d : d = Other[e]
  OBVIOUS
<1>2. d \in Ends /\ d # e /\ Other[d] = e
  BY <1>1, UtMetadataAssumption
<1>3. \A x \in Ends \ {e, d} : Other[x] \in Ends \ {e, d}
  BY <1>1, <1>2, UtMetadataAssumption
<1>4. PICK u2 : u2 = result.ut
  OBVIOUS
<1>5. PICK q2 : q2 = chan[d] \o result.sends
  OBVIOUS
<1>6. /\ DOMAIN ut' = Ends /\ DOMAIN chan' = Ends
      /\ ut'[e] = u2 /\ chan'[e] = rest /\ ut'[d] = ut[d] /\ chan'[d] = q2
      /\ \A x \in Ends \ {e, d} : ut'[x] = ut[x] /\ chan'[x] = chan[x]
  BY <1>1, <1>2, <1>4, <1>5 DEF IInv, Becomes
<1>7. /\ Alone(u2, up) /\ q2 \in Seq(Sound)
      /\ Learns(u2, ut[d], rest, q2) /\ Learns(ut[d], u2, q2, rest)
  BY <1>1, <1>2, <1>4, <1>5 DEF Kept, IInv
<1>8. up' = up /\ up \in BOOLEAN
  BY DEF IInv
<1>9. ASSUME NEW x \in Ends
      PROVE  /\ Alone(ut'[x], up') /\ chan'[x] \in Seq(Sound)
             /\ Learns(ut'[x], ut'[Other[x]], chan'[x], chan'[Other[x]])
  <2>1. CASE x = e
    BY <1>1, <1>6, <1>7, <1>8, <2>1
  <2>2. CASE x = d
    <3>1. Alone(ut[d], up)
      BY <1>2 DEF IInv
    <3> QED BY <1>2, <1>6, <1>7, <1>8, <2>2, <3>1
  <2>3. CASE x \notin {e, d}
    <3>1. /\ Alone(ut[x], up) /\ chan[x] \in Seq(Sound)
          /\ Learns(ut[x], ut[Other[x]], chan[x], chan[Other[x]])
      BY DEF IInv
    <3>2. ut'[Other[x]] = ut[Other[x]] /\ chan'[Other[x]] = chan[Other[x]]
      BY <1>3, <1>6, <2>3
    <3> QED BY <1>6, <1>8, <2>3, <3>1, <3>2
  <2> QED BY <2>1, <2>2, <2>3
<1> QED BY <1>6, <1>8, <1>9 DEF IInv

\* A frame arrives.
LEMMA DeliverStep == ASSUME IInv, NEW e \in Ends, Deliver(e) PROVE IInv'
<1>1. PICK u : u = ut[e]
  OBVIOUS
<1>2. PICK o : o = ut[Other[e]]
  OBVIOUS
<1>3. PICK q : q = chan[e]
  OBVIOUS
<1>4. PICK r : r = chan[Other[e]]
  OBVIOUS
<1>5. PICK f : f = Head(q)
  OBVIOUS
<1>6. /\ Other[e] \in Ends /\ Other[Other[e]] = e
  BY UtMetadataAssumption
<1>7. /\ q \in Seq(Sound) /\ r \in Seq(Sound) /\ q # <<>>
      /\ Alone(u, up) /\ Alone(o, up) /\ Learns(u, o, q, r) /\ Learns(o, u, r, q)
      /\ o.metadataComplete \in BOOLEAN
  BY <1>1, <1>2, <1>3, <1>4, <1>6 DEF IInv, Deliver, Alone, Shape
<1>8. Tail(q) \in Seq(Sound) /\ f \in Sound
  BY <1>5, <1>7, TailLemma
<1>9. UNCHANGED up
  BY DEF Deliver
<1>10. ASSUME NEW result, Becomes(e, result, Tail(q)), Kept(result, o, Tail(q), r, up)
       PROVE  IInv'
  BY <1>2, <1>4, <1>8, <1>9, <1>10, BecomesStep
<1>11. CASE f.type = "handshake" /\ Becomes(e, OnHandshake(u), Tail(q))
  BY <1>5, <1>7, <1>10, <1>11, OnHandshakeStep
<1>12. CASE f.type = "bareHandshake" /\ Becomes(e, Result(u, <<>>), Tail(q))
  BY <1>7, <1>10, <1>12, OnBareHandshakeStep
<1>13. ASSUME NEW refuse, f.type = "request", Becomes(e, OnRequest(u, f.piece, refuse), Tail(q))
       PROVE  IInv'
  <2>1. f.piece \in Pieces
    BY <1>8, <1>13 DEF Sound
  <2> QED BY <1>7, <1>10, <1>13, <2>1, OnRequestStep
<1>14. ASSUME NEW decodes, f.type = "data",
              Becomes(e, OnData(u, f.piece, f.content, decodes), Tail(q))
       PROVE  IInv'
  BY <1>5, <1>7, <1>10, <1>14, OnDataStep
<1>15. CASE f.type = "reject" /\ Becomes(e, OnReject(u, f.piece), Tail(q))
  <2>1. f.piece \in Pieces
    BY <1>8, <1>15 DEF Sound
  <2> QED BY <1>7, <1>10, <1>15, <2>1, OnRejectStep
<1> QED BY <1>1, <1>3, <1>5, <1>11, <1>12, <1>13, <1>14, <1>15 DEF Deliver

\* A request timer fires.
LEMMA TimeoutStep ==
  ASSUME IInv, NEW e \in Ends, NEW p \in Pieces, Timeout(e, p)
  PROVE  IInv'
<1>1. PICK u : u = ut[e]
  OBVIOUS
<1>2. PICK o : o = ut[Other[e]]
  OBVIOUS
<1>3. PICK q : q = chan[e]
  OBVIOUS
<1>4. PICK r : r = chan[Other[e]]
  OBVIOUS
<1>5. /\ Other[e] \in Ends /\ Other[Other[e]] = e
  BY UtMetadataAssumption
<1>6. /\ q \in Seq(Sound) /\ r \in Seq(Sound)
      /\ Alone(u, up) /\ Learns(u, o, q, r) /\ Learns(o, u, r, q) /\ UNCHANGED up
      /\ DOMAIN u = Fields
  BY <1>1, <1>2, <1>3, <1>4, <1>5 DEF IInv, Timeout, Alone, Shape
<1>7. CASE up /\ u.fetching
  <2>1. Kept(Again(u, p), o, q, r, up)
    BY <1>6, AgainStep
  <2> QED BY <1>1, <1>2, <1>3, <1>4, <1>6, <1>7, <2>1, BecomesStep DEF Timeout
<1>8. CASE ~(up /\ u.fetching)
  <2>1. PICK result : result = Result([u EXCEPT !.requestedPieces = @ \ {p}], <<>>)
    OBVIOUS
  <2>2. Kept(result, o, q, r, up)
    BY <1>6, <1>8, <2>1, ForgetStep
  <2>3. Becomes(e, result, q)
    BY <1>1, <1>3, <1>8, <2>1 DEF Timeout
  <2> QED BY <1>2, <1>4, <1>6, <2>2, <2>3, BecomesStep
<1> QED BY <1>7, <1>8

\* The channel closes.
LEMMA LinkDownStep == ASSUME IInv, LinkDown PROVE IInv'
<1>1. /\ UNCHANGED ut /\ DOMAIN chan' = Ends /\ up' = FALSE
      /\ \A e \in Ends : chan'[e] = <<>>
  BY DEF LinkDown
<1>2. ASSUME NEW e \in Ends
      PROVE  /\ Alone(ut'[e], up') /\ chan'[e] \in Seq(Sound)
             /\ Learns(ut'[e], ut'[Other[e]], chan'[e], chan'[Other[e]])
  <2>1. /\ Alone(ut[e], up)
        /\ Learns(ut[e], ut[Other[e]], chan[e], chan[Other[e]])
    BY DEF IInv
  <2>2. Alone(ut'[e], up')
    BY <1>1, <2>1 DEF Alone, Asks
  <2>3. chan'[e] = <<>> /\ chan'[Other[e]] = <<>>
    BY <1>1, UtMetadataAssumption
  <2>4. \A S : <<>> \in Seq(S)
    OBVIOUS
  <2>5. Learns(ut'[e], ut'[Other[e]], <<>>, <<>>)
    BY <1>1, <2>1, <2>4 DEF Learns
  <2> QED BY <2>2, <2>3, <2>4, <2>5
<1> QED BY <1>1, <1>2 DEF IInv

\* An end that has the metadata says so and does not fetch; the other one fetches.
LEMMA InitIInv == Init => IInv
<1> SUFFICES ASSUME Init PROVE IInv
  OBVIOUS
<1>1. PICK known \in [Ends -> Versions \cup {Null}] :
        /\ ut = [e \in Ends |-> NewObject(known[e])]
        /\ chan = [e \in Ends |-> <<Frame(IF known[Other[e]] = Null THEN "bareHandshake"
                                        ELSE "handshake", 0, Zero)>>]
        /\ up = TRUE
  BY DEF Init
<1>2. ASSUME NEW e \in Ends
      PROVE  /\ Alone(ut[e], up) /\ chan[e] \in Seq(NoData) /\ chan[e] \in Seq(Sound)
             /\ known[Other[e]] = Null => chan[e] \in Seq(NoHandshake)
             /\ \A data : chan[e] \in Seq(DataOf(data))
             /\ ut[e].metadataComplete <=> known[e] # Null
             /\ ut[e].metadataComplete => ~ut[e].fetching
             /\ ut[e].bitfield = {}
  <2>1. PICK v : v = known[e]
    OBVIOUS
  <2>2. PICK u : u = NewObject(v)
    OBVIOUS
  <2>3. v \in Versions \cup {Null} /\ ut[e] = u
    BY <1>1, <2>1, <2>2
  <2>4. /\ DOMAIN u = Fields /\ (u.fetching <=> v = Null) /\ (u.metadataComplete <=> v # Null)
        /\ (u.sized <=> v # Null) /\ u.bitfield = {} /\ u.remainingRejects = 0
        /\ u.fetching \in BOOLEAN /\ u.metadataComplete \in BOOLEAN /\ u.sized \in BOOLEAN
        /\ u.metadata = IF v = Null THEN Null ELSE Whole(v)
    BY <2>2 DEF NewObject, Fields
  <2>5. v # Null => Whole(v) \in Buffer /\ Genuine(Whole(v))
    BY <2>3 DEF Whole, Buffer, Genuine
  <2>6. Alone(u, up)
    BY <2>4, <2>5 DEF Alone, Shape, Asks, HoldsOne
  <2>7. PICK type : type = IF known[Other[e]] = Null THEN "bareHandshake" ELSE "handshake"
    OBVIOUS
  <2>8. PICK f : f = Frame(type, 0, Zero)
    OBVIOUS
  <2>9. chan[e] = <<f>>
    BY <1>1, <2>7, <2>8
  <2>10. f \in Sound /\ f.type = type /\ type # "data"
    BY <2>7, <2>8 DEF Frame, Sound, Frames
  <2>11. f \in NoData /\ \A data : f \in DataOf(data)
    BY <2>10 DEF NoData, DataOf
  <2>12. known[Other[e]] = Null => f \in NoHandshake
    BY <2>7, <2>10 DEF NoHandshake
  <2> QED BY <2>1, <2>3, <2>4, <2>6, <2>9, <2>10, <2>11, <2>12
<1>3. ASSUME NEW e \in Ends
      PROVE  Learns(ut[e], ut[Other[e]], chan[e], chan[Other[e]])
  <2>1. Other[e] \in Ends /\ Other[Other[e]] = e
    BY UtMetadataAssumption
  <2> QED BY <1>2, <2>1 DEF Learns
<1> QED BY <1>1, <1>2, <1>3 DEF IInv

\* Every frame, timer and the closing of the channel keep the invariant.
LEMMA NextIInv == IInv /\ [Next]_vars => IInv'
<1> SUFFICES ASSUME IInv, [Next]_vars PROVE IInv'
  OBVIOUS
<1>1. CASE LinkDown
  BY <1>1, LinkDownStep
<1>2. ASSUME NEW e \in Ends, Deliver(e) PROVE IInv'
  BY <1>2, DeliverStep
<1>3. ASSUME NEW e \in Ends, NEW p \in Pieces, Timeout(e, p) PROVE IInv'
  BY <1>3, TimeoutStep
<1>4. CASE UNCHANGED vars
  BY <1>4 DEF vars, IInv
<1> QED BY <1>1, <1>2, <1>3, <1>4 DEF Next
-----------------------------------------------------------------------------
(***************************************************************************)
(* The theorems                                                            *)
(***************************************************************************)

\* What holds of both ends and of the frames between them in every behaviour.
THEOREM ExchangeInvariant == Spec => []IInv
BY InitIInv, NextIInv, PTL DEF Spec

\* CompleteIsGenuine: a complete end that does not fetch again holds one whole dictionary,
\* though the check that #checkDone makes of it would let a mixture through.
THEOREM CompleteIsGenuineHolds == Spec => []CompleteIsGenuine
<1>1. IInv => CompleteIsGenuine
  BY DEF IInv, CompleteIsGenuine, Alone, HoldsOne
<1> QED BY <1>1, ExchangeInvariant, PTL

\* MissingIsRequested: until its rejects are used up, an end that fetches has a running
\* timer for each piece it lacks (#onReject, #handleTimeout and #failedMetadata ask again).
THEOREM MissingIsRequestedHolds == Spec => []MissingIsRequested
<1>1. IInv => MissingIsRequested
  BY DEF IInv, MissingIsRequested, Alone, Asks
<1> QED BY <1>1, ExchangeInvariant, PTL
-----------------------------------------------------------------------------
TrackerFields == {"ws", "pending", "hasConnected", "destroyed", "timers", "opened"}
ReadyStates == {"none", "connecting", "open", "closing", "closed"}
ServerEnds == {"none", "open", "closing", "closed"}
SocketsOf(t) == {c \in Sockets : Owner(c) = t}

\* The sockets of t that are alive, that were cut but look open, and that see a close frame.
AliveOf(t, st) == {c \in SocketsOf(t) : st[c] \in {"connecting", "open"}}
CutOf(t, st, sk) == {c \in SocketsOf(t) : st[c] = "open" /\ sk[c] = "closed"}
ClosingOf(t, st) == {c \in SocketsOf(t) : st[c] = "closing"}

\* What the sockets of t may still cost: the close event of one that is cut or closing
\* sets a timer and makes room for an announce to connect.
Count(t, st, sk) ==
  Cardinality(AliveOf(t, st)) + Cardinality(CutOf(t, st, sk)) + 2 * Cardinality(ClosingOf(t, st))
Idle(o, st) == o.ws = None \/ st[o.ws] \in {"closing", "closed"}

\* The object o of tracker t, its sockets st and the server's ends sk, after n losses.
Fits(t, o, st, sk, n) ==
  /\ DOMAIN o = TrackerFields /\ o.timers \in Nat /\ o.opened \in 0..MaxSockets
  /\ o.destroyed \in BOOLEAN /\ o.hasConnected \in BOOLEAN
  /\ o.ws # None => o.ws \in SocketsOf(t) /\ st[o.ws] # "none"
  /\ \A k \in o.opened + 1..MaxSockets : st[<<t, k>>] = "none"
  /\ Cardinality(AliveOf(t, st)) <= 1 + 2 * n
  /\ o.destroyed => o.timers = 0
  /\ ~o.destroyed =>
       Count(t, st, sk) + o.timers + (IF Idle(o, st) THEN 1 ELSE 0) <= 1 + 2 * n

SocketInv ==
  /\ losses \in Nat /\ client = [t \in Trackers |-> client[t]]
  /\ cs \in [Sockets -> ReadyStates] /\ sock \in [Sockets -> ServerEnds]
  /\ \A t \in Trackers : Fits(t, client[t], cs, sock, losses)

\* There are finitely many sockets.
LEMMA SocketsFinite ==
  IsFiniteSet(Sockets)
<1>1. IsFiniteSet(Trackers)
  BY SignallingAssumption
<1>2. IsFiniteSet(1..MaxSockets)
  BY SignallingAssumption, FS_Interval
<1>3. IsFiniteSet(Trackers \X (1..MaxSockets))
  BY <1>1, <1>2, FS_Product
<1> QED BY <1>3 DEF Sockets

\* A set that changes at one element.
LEMMA OneElement ==
  ASSUME NEW X, NEW Y, IsFiniteSet(X), NEW c, X \ {c} = Y \ {c}
  PROVE  Cardinality(X) \in Nat /\ Cardinality(Y) \in Nat
         /\ Cardinality(Y) = Cardinality(X) + (IF c \in Y THEN 1 ELSE 0) - (IF c \in X THEN 1 ELSE 0)
<1>1. /\ IsFiniteSet(X \ {c})
      /\ Cardinality(X \ {c}) = IF c \in X THEN Cardinality(X) - 1 ELSE Cardinality(X)
  BY FS_RemoveElement
<1>2. /\ IsFiniteSet((Y \ {c}) \cup {c})
      /\ Cardinality((Y \ {c}) \cup {c}) = Cardinality(Y \ {c}) + 1
  BY <1>1, FS_AddElement
<1>3. Cardinality(X) \in Nat /\ Cardinality(X \ {c}) \in Nat
  BY <1>1, FS_CardinalityType
<1>4. CASE c \in Y
  <2>1. Y = (Y \ {c}) \cup {c}
    BY <1>4
  <2> QED BY <1>1, <1>2, <1>3, <1>4, <2>1
<1>5. CASE c \notin Y
  <2>1. Y = Y \ {c}
    BY <1>5
  <2> QED BY <1>1, <1>3, <1>5, <2>1
<1> QED BY <1>4, <1>5

\* What a socket costs.
Cost(s, k) == IF s = "connecting" THEN 1
              ELSE IF s = "open" THEN IF k = "closed" THEN 2 ELSE 1
              ELSE IF s = "closing" THEN 2 ELSE 0
Lives(s) == IF s \in {"connecting", "open"} THEN 1 ELSE 0

\* Only c differs of the sockets of t.
OnlyOne(t, c, st, sk, st2, sk2) ==
  c \in SocketsOf(t) /\ \A d \in SocketsOf(t) : d # c => st2[d] = st[d] /\ sk2[d] = sk[d]

\* What the sockets of a tracker cost when one of them changes.
LEMMA CostLemma ==
  ASSUME NEW t, NEW st, NEW sk, NEW st2, NEW sk2, NEW c,
         OnlyOne(t, c, st, sk, st2, sk2)
  PROVE  /\ Count(t, st, sk) \in Nat /\ Count(t, st2, sk2) \in Nat
         /\ Cost(st[c], sk[c]) \in Nat /\ Cost(st2[c], sk2[c]) \in Nat
         /\ Count(t, st2, sk2) + Cost(st[c], sk[c]) = Count(t, st, sk) + Cost(st2[c], sk2[c])
         /\ Cardinality(AliveOf(t, st)) \in Nat /\ Cardinality(AliveOf(t, st2)) \in Nat
         /\ Cardinality(AliveOf(t, st2)) = Cardinality(AliveOf(t, st)) + Lives(st2[c]) - Lives(st[c])
         /\ Cardinality(AliveOf(t, st2)) <= Count(t, st2, sk2)
<1> DEFINE A == AliveOf(t, st)  A2 == AliveOf(t, st2)
           B == CutOf(t, st, sk)  B2 == CutOf(t, st2, sk2)
           D == ClosingOf(t, st)  D2 == ClosingOf(t, st2)
<1>1. IsFiniteSet(A) /\ IsFiniteSet(B) /\ IsFiniteSet(D)
  <2>1. A \in SUBSET Sockets /\ B \in SUBSET Sockets /\ D \in SUBSET Sockets
    BY DEF AliveOf, CutOf, ClosingOf, SocketsOf
  <2> QED BY <2>1, SocketsFinite, FS_Subset
<1>2. A \ {c} = A2 \ {c} /\ B \ {c} = B2 \ {c} /\ D \ {c} = D2 \ {c}
  BY DEF AliveOf, CutOf, ClosingOf, OnlyOne
<1>3. /\ c \in A <=> st[c] \in {"connecting", "open"}
      /\ c \in A2 <=> st2[c] \in {"connecting", "open"}
      /\ c \in B <=> st[c] = "open" /\ sk[c] = "closed"
      /\ c \in B2 <=> st2[c] = "open" /\ sk2[c] = "closed"
      /\ c \in D <=> st[c] = "closing"
      /\ c \in D2 <=> st2[c] = "closing"
  BY DEF AliveOf, CutOf, ClosingOf, OnlyOne
<1> HIDE DEF A, B, D, A2, B2, D2
<1>4. /\ Cardinality(A) \in Nat /\ Cardinality(A2) \in Nat
      /\ Cardinality(A2) = Cardinality(A) + (IF c \in A2 THEN 1 ELSE 0) - (IF c \in A THEN 1 ELSE 0)
  BY <1>1, <1>2, OneElement
<1>5. /\ Cardinality(B) \in Nat /\ Cardinality(B2) \in Nat
      /\ Cardinality(B2) = Cardinality(B) + (IF c \in B2 THEN 1 ELSE 0) - (IF c \in B THEN 1 ELSE 0)
  BY <1>1, <1>2, OneElement
<1>6. /\ Cardinality(D) \in Nat /\ Cardinality(D2) \in Nat
      /\ Cardinality(D2) = Cardinality(D) + (IF c \in D2 THEN 1 ELSE 0) - (IF c \in D THEN 1 ELSE 0)
  BY <1>1, <1>2, OneElement
<1>7. /\ Count(t, st, sk) = Cardinality(A) + Cardinality(B) + 2 * Cardinality(D)
      /\ Count(t, st2, sk2) = Cardinality(A2) + Cardinality(B2) + 2 * Cardinality(D2)
  BY DEF Count, A, B, D, A2, B2, D2
<1>8. /\ Cost(st[c], sk[c]) \in Nat /\ Cost(st2[c], sk2[c]) \in Nat
      /\ Count(t, st2, sk2) + Cost(st[c], sk[c]) = Count(t, st, sk) + Cost(st2[c], sk2[c])
      /\ Cardinality(A2) = Cardinality(A) + Lives(st2[c]) - Lives(st[c])
  BY <1>3, <1>4, <1>5, <1>6, <1>7 DEF Cost, Lives
<1>9. Cardinality(A2) <= Count(t, st2, sk2) /\ Count(t, st, sk) \in Nat /\ Count(t, st2, sk2) \in Nat
  BY <1>4, <1>5, <1>6, <1>7
<1> QED BY <1>4, <1>8, <1>9 DEF A, A2

\* A tracker that a step does not touch.
LEMMA FitsKept ==
  ASSUME NEW t \in Trackers, NEW o, NEW st, NEW sk, NEW n \in Nat, NEW st2, NEW sk2, NEW n2 \in Nat,
         Fits(t, o, st, sk, n), n <= n2,
         \A d \in SocketsOf(t) : st2[d] = st[d] /\ sk2[d] = sk[d]
  PROVE  Fits(t, o, st2, sk2, n2)
<1>1. AliveOf(t, st2) = AliveOf(t, st) /\ CutOf(t, st2, sk2) = CutOf(t, st, sk)
      /\ ClosingOf(t, st2) = ClosingOf(t, st)
  BY DEF AliveOf, CutOf, ClosingOf
<1>2. Count(t, st2, sk2) = Count(t, st, sk)
  BY <1>1 DEF Count
<1>3. Idle(o, st2) <=> Idle(o, st)
  BY DEF Fits, Idle
<1>4. \A k \in o.opened + 1..MaxSockets : <<t, k>> \in SocketsOf(t)
  BY SignallingAssumption DEF SocketsOf, Sockets, Owner, Fits
<1>5. Count(t, st, sk) \in Nat /\ Cardinality(AliveOf(t, st)) \in Nat
  <2>1. /\ AliveOf(t, st) \in SUBSET Sockets /\ CutOf(t, st, sk) \in SUBSET Sockets
        /\ ClosingOf(t, st) \in SUBSET Sockets
    BY DEF AliveOf, CutOf, ClosingOf, SocketsOf
  <2>2. /\ Cardinality(AliveOf(t, st)) \in Nat /\ Cardinality(CutOf(t, st, sk)) \in Nat
        /\ Cardinality(ClosingOf(t, st)) \in Nat
    BY <2>1, SocketsFinite, FS_Subset, FS_CardinalityType
  <2> QED BY <2>2 DEF Count
<1>6. \A k \in o.opened + 1..MaxSockets : st2[<<t, k>>] = "none"
  BY <1>4 DEF Fits
<1>7. o.ws # None => o.ws \in SocketsOf(t) /\ st2[o.ws] # "none"
  BY DEF Fits
<1>8. Cardinality(AliveOf(t, st2)) <= 1 + 2 * n2
  BY <1>1, <1>5 DEF Fits
<1>9. ~o.destroyed => Count(t, st2, sk2) + o.timers + (IF Idle(o, st2) THEN 1 ELSE 0) <= 1 + 2 * n2
  BY <1>2, <1>3, <1>5 DEF Fits
<1> QED BY <1>6, <1>7, <1>8, <1>9 DEF Fits

\* A step that changes the object of t to o and its sockets.
LEMMA OneTracker ==
  ASSUME SocketInv, NEW t \in Trackers, NEW o, NEW n \in Nat, losses <= n,
         client' = [client EXCEPT ![t] = o], losses' = n,
         cs' \in [Sockets -> ReadyStates], sock' \in [Sockets -> ServerEnds],
         \A d \in Sockets : Owner(d) # t => cs'[d] = cs[d] /\ sock'[d] = sock[d],
         Fits(t, o, cs', sock', n)
  PROVE  SocketInv'
<1>1. client' = [u \in Trackers |-> client'[u]] /\ client'[t] = o
  BY DEF SocketInv
<1>2. ASSUME NEW u \in Trackers PROVE Fits(u, client'[u], cs', sock', n)
  <2>1. CASE u = t
    BY <1>1, <2>1
  <2>2. CASE u # t
    <3>1. client'[u] = client[u] /\ Fits(u, client[u], cs, sock, losses) /\ losses \in Nat
      BY <2>2 DEF SocketInv
    <3>2. \A d \in SocketsOf(u) : cs'[d] = cs[d] /\ sock'[d] = sock[d]
      BY <2>2 DEF SocketsOf
    <3>3. Fits(u, client[u], cs', sock', n)
      BY <3>1, <3>2, FitsKept
    <3> QED BY <3>1, <3>3
  <2> QED BY <2>1, <2>2
<1> QED BY <1>1, <1>2 DEF SocketInv

\* The object o became o2, but its sockets and timers are as they were.
SameSockets(o, o2) ==
  /\ DOMAIN o2 = TrackerFields /\ o2.hasConnected \in BOOLEAN
  /\ o2.ws = o.ws /\ o2.timers = o.timers /\ o2.opened = o.opened /\ o2.destroyed = o.destroyed

\* It opened a socket.
Opens(t, o, o2) ==
  /\ DOMAIN o2 = TrackerFields /\ o2.hasConnected = o.hasConnected
  /\ o2.ws = <<t, o.opened + 1>> /\ o2.opened = o.opened + 1 /\ o2.destroyed = o.destroyed

\* An object that differs in neither socket nor timers.
LEMMA FitsSame ==
  ASSUME NEW t, NEW o, NEW o2, NEW st, NEW sk, NEW n, Fits(t, o, st, sk, n), SameSockets(o, o2)
  PROVE  Fits(t, o2, st, sk, n)
<1>1. Idle(o2, st) <=> Idle(o, st)
  BY DEF SameSockets, Idle
<1> QED BY <1>1 DEF Fits, SameSockets

\* The object opens its next socket, for a timer or because it had none.
LEMMA FitsOpened ==
  ASSUME NEW t \in Trackers, NEW o, NEW o2, NEW st, NEW sk, NEW n \in Nat,
         Fits(t, o, st, sk, n), ~o.destroyed, o.opened < MaxSockets, Opens(t, o, o2),
         o2.timers \in Nat,
         (o2.timers = o.timers /\ Idle(o, st)) \/ o2.timers + 1 = o.timers,
         NEW st2, st2[<<t, o.opened + 1>>] = "connecting",
         \A d \in Sockets : d # <<t, o.opened + 1>> => st2[d] = st[d]
  PROVE  Fits(t, o2, st2, sk, n)
<1>1. PICK c : c = <<t, o.opened + 1>>
  OBVIOUS
<1>2. /\ o.opened \in Nat /\ MaxSockets \in Nat /\ o.opened + 1 \in 1..MaxSockets
      /\ o.opened + 1 \in o.opened + 1..MaxSockets
  BY SignallingAssumption DEF Fits
<1>3. c \in SocketsOf(t) /\ c \in Sockets /\ st[c] = "none" /\ o2.ws = c
  BY <1>1, <1>2 DEF SocketsOf, Sockets, Owner, Fits, Opens
<1>4. st2[c] = "connecting" /\ \A d \in Sockets : d # c => st2[d] = st[d]
  BY <1>1, <1>3
<1>5. /\ Count(t, st, sk) \in Nat /\ Count(t, st2, sk) \in Nat
      /\ Count(t, st2, sk) + Cost(st[c], sk[c]) = Count(t, st, sk) + Cost(st2[c], sk[c])
      /\ Cardinality(AliveOf(t, st2)) \in Nat /\ Cardinality(AliveOf(t, st2)) <= Count(t, st2, sk)
  <2>1. OnlyOne(t, c, st, sk, st2, sk)
    BY <1>3, <1>4 DEF SocketsOf, OnlyOne
  <2> QED BY <2>1, CostLemma
<1>6. Count(t, st2, sk) = Count(t, st, sk) + 1
  BY <1>3, <1>4, <1>5 DEF Cost
<1>7. ~Idle(o2, st2)
  BY SignallingAssumption, <1>3, <1>4 DEF Idle
<1>8. Count(t, st2, sk) + o2.timers <= 1 + 2 * n
  BY <1>5, <1>6 DEF Fits
<1>9. \A k \in o2.opened + 1..MaxSockets : st2[<<t, k>>] = "none"
  <2> TAKE k \in o2.opened + 1..MaxSockets
  <2>1. k \in o.opened + 1..MaxSockets /\ k # o.opened + 1 /\ k \in 1..MaxSockets
    BY <1>2 DEF Opens
  <2>2. <<t, k>> \in Sockets /\ <<t, k>> # c
    BY <1>1, <2>1 DEF Sockets
  <2> QED BY <1>4, <2>1, <2>2 DEF Fits
<1>10. /\ DOMAIN o2 = TrackerFields /\ o2.opened \in 0..MaxSockets
       /\ o2.destroyed \in BOOLEAN /\ o2.hasConnected \in BOOLEAN /\ ~o2.destroyed
  BY <1>2 DEF Opens, Fits
<1>11. Cardinality(AliveOf(t, st2)) <= 1 + 2 * n
  BY <1>5, <1>8
<1>12. o2.ws # None => o2.ws \in SocketsOf(t) /\ st2[o2.ws] # "none"
  BY <1>3, <1>4
<1>13. Count(t, st2, sk) + o2.timers + (IF Idle(o2, st2) THEN 1 ELSE 0) <= 1 + 2 * n
  BY <1>5, <1>7, <1>8
<1> QED BY <1>9, <1>10, <1>11, <1>12, <1>13 DEF Fits

\* A world w: the object o, the sockets st.
Shaped(w, o, st) ==
  /\ DOMAIN w = {"obj", "cs", "sent"} /\ w.obj = o /\ w.cs = st /\ DOMAIN o = TrackerFields
  /\ o.hasConnected \in BOOLEAN

\* _openSocket opens the next socket, unless the tracker is destroyed.
LEMMA ConnectShape ==
  ASSUME NEW t, NEW w, NEW o, NEW st, Shaped(w, o, st)
  PROVE  \/ o.destroyed /\ ConnectWs(w, t) = w
         \/ /\ ~o.destroyed /\ Opens(t, o, ConnectWs(w, t).obj)
            /\ ConnectWs(w, t).obj.timers = o.timers
            /\ ConnectWs(w, t).cs = [st EXCEPT ![<<t, o.opened + 1>>] = "connecting"]
<1>1. PICK v : v = ConnectWs(w, t)
  OBVIOUS
<1>2. CASE o.destroyed
  BY <1>2 DEF Shaped, ConnectWs
<1>3. CASE ~o.destroyed
  <2>1. v = [w EXCEPT !.obj.ws = <<t, o.opened + 1>>, !.obj.opened = o.opened + 1,
                      !.cs[<<t, o.opened + 1>>] = "connecting"]
    BY <1>1, <1>3 DEF Shaped, ConnectWs
  <2>2. /\ v.obj = [o EXCEPT !.ws = <<t, o.opened + 1>>, !.opened = o.opened + 1]
        /\ v.cs = [st EXCEPT ![<<t, o.opened + 1>>] = "connecting"]
    BY <2>1 DEF Shaped, TrackerFields
  <2>3. Opens(t, o, v.obj) /\ v.obj.timers = o.timers
    BY <2>2 DEF Opens, Shaped, TrackerFields
  <2> QED BY <1>1, <1>3, <2>2, <2>3
<1> QED BY <1>2, <1>3

\* _flushAnnounces sends or keeps, and touches no socket.
LEMMA FlushShape ==
  ASSUME NEW w, NEW o, NEW st, Shaped(w, o, st)
  PROVE  FlushAll(w).cs = st /\ SameSockets(o, FlushAll(w).obj)
<1>1. CASE o.ws = None \/ st[o.ws] # "open"
  BY <1>1 DEF Shaped, SameSockets, TrackerFields, FlushAll
<1>2. CASE ~(o.ws = None \/ st[o.ws] # "open")
  <2>1. PICK p : p = Unsettled(o.pending)
    OBVIOUS
  <2>2. PICK v : v = FlushAll(w)
    OBVIOUS
  <2>3. v = [w EXCEPT !.sent[o.ws] = @ \o o.pending, !.obj.pending = p]
    BY <1>2, <2>1, <2>2 DEF Shaped, FlushAll
  <2>4. v.cs = st /\ v.obj = [o EXCEPT !.pending = p]
    BY <2>3 DEF Shaped, TrackerFields
  <2>5. SameSockets(o, v.obj)
    BY <2>4 DEF Shaped, SameSockets, TrackerFields
  <2> QED BY <2>2, <2>4, <2>5
<1> QED BY <1>1, <1>2

\* An announce opens a socket only where there is none that is connecting or open.
LEMMA AnnounceShape ==
  ASSUME NEW t, NEW w, NEW o, NEW st, NEW m, Shaped(w, o, st)
  PROVE  LET v == AnnounceWs(w, t, m) IN
         \/ v.cs = st /\ SameSockets(o, v.obj)
         \/ /\ ~o.destroyed /\ Idle(o, st) /\ Opens(t, o, v.obj) /\ v.obj.timers = o.timers
            /\ v.cs = [st EXCEPT ![<<t, o.opened + 1>>] = "connecting"]
<1>1. CASE o.destroyed
  <2>1. AnnounceWs(w, t, m) = w
    BY <1>1 DEF AnnounceWs, Shaped
  <2> QED BY <2>1 DEF Shaped, SameSockets
<1>2. CASE ~o.destroyed
  <2>1. PICK v : v = [w EXCEPT !.obj.pending = Append(@, m)]
    OBVIOUS
  <2>2. PICK p : p = [o EXCEPT !.pending = Append(@, m)]
    OBVIOUS
  <2>3. /\ v.obj = p /\ v.cs = st /\ DOMAIN v = {"obj", "cs", "sent"}
        /\ DOMAIN p = TrackerFields /\ p.hasConnected = o.hasConnected
        /\ p.ws = o.ws /\ p.timers = o.timers /\ p.opened = o.opened /\ p.destroyed = o.destroyed
    BY <2>1, <2>2 DEF Shaped, TrackerFields
  <2>4. Shaped(v, p, st)
    BY <2>3 DEF Shaped
  <2>5. CASE Idle(o, st)
    <3>1. AnnounceWs(w, t, m) = ConnectWs(v, t)
      BY <1>2, <2>1, <2>3, <2>5 DEF AnnounceWs, Idle, Shaped
    <3> QED BY <1>2, <2>3, <2>4, <2>5, <3>1, ConnectShape DEF Opens
  <2>6. CASE ~Idle(o, st)
    <3>1. AnnounceWs(w, t, m) = FlushAll(v)
      BY <1>2, <2>1, <2>3, <2>6 DEF AnnounceWs, Idle, Shaped
    <3> QED BY <2>3, <2>4, <3>1, FlushShape DEF SameSockets
  <2> QED BY <2>5, <2>6
<1> QED BY <1>1, <1>2

\* What o still holds: timers, and the room for an announce to connect.
Owes(o, st) == o.timers + (IF Idle(o, st) THEN 1 ELSE 0)

\* One socket changes state and the object its timers, for no more than it had.
LEMMA FitsMoved ==
  ASSUME NEW t \in Trackers, NEW o, NEW o2, NEW st, NEW sk, NEW st2, NEW sk2,
         NEW n \in Nat, NEW n2 \in Nat, Fits(t, o, st, sk, n), n <= n2,
         NEW c, OnlyOne(t, c, st, sk, st2, sk2), st[c] # "none", st2[c] # "none",
         DOMAIN o2 = TrackerFields, o2.hasConnected \in BOOLEAN, o2.opened = o.opened,
         o2.destroyed = o.destroyed, o2.timers \in Nat, o.destroyed => o2.timers = 0,
         o2.ws \in {None, o.ws}, Lives(st2[c]) <= Lives(st[c]),
         ~o.destroyed =>
           Cost(st2[c], sk2[c]) + Owes(o2, st2) <= Cost(st[c], sk[c]) + Owes(o, st) + 2 * (n2 - n)
  PROVE  Fits(t, o2, st2, sk2, n2)
<1>1. /\ Count(t, st, sk) \in Nat /\ Count(t, st2, sk2) \in Nat
      /\ Cost(st[c], sk[c]) \in Nat /\ Cost(st2[c], sk2[c]) \in Nat
      /\ Count(t, st2, sk2) + Cost(st[c], sk[c]) = Count(t, st, sk) + Cost(st2[c], sk2[c])
      /\ Cardinality(AliveOf(t, st)) \in Nat /\ Cardinality(AliveOf(t, st2)) \in Nat
      /\ Cardinality(AliveOf(t, st2)) = Cardinality(AliveOf(t, st)) + Lives(st2[c]) - Lives(st[c])
  BY CostLemma
<1>2. Lives(st[c]) \in Nat /\ Lives(st2[c]) \in Nat
  BY DEF Lives
<1>3. Cardinality(AliveOf(t, st2)) <= 1 + 2 * n2
  BY <1>1, <1>2 DEF Fits
<1>4. o.timers \in Nat /\ Owes(o, st) \in Nat /\ Owes(o2, st2) \in Nat
  BY DEF Fits, Owes
<1>5. \A k \in o2.opened + 1..MaxSockets : st2[<<t, k>>] = "none"
  <2> TAKE k \in o2.opened + 1..MaxSockets
  <2>1. k \in 1..MaxSockets /\ st[<<t, k>>] = "none"
    BY SignallingAssumption DEF Fits
  <2>2. <<t, k>> \in SocketsOf(t)
    BY <2>1 DEF SocketsOf, Sockets, Owner
  <2> QED BY <2>1, <2>2 DEF OnlyOne
<1>6. o2.ws # None => o2.ws \in SocketsOf(t) /\ st2[o2.ws] # "none"
  BY DEF Fits, OnlyOne
<1>7. CASE o.destroyed
  <2>1. o2.destroyed => o2.timers = 0
    BY <1>7
  <2> QED BY <1>3, <1>7, <1>5, <1>6, <2>1 DEF Fits
<1>8. CASE ~o.destroyed
  <2>1. Count(t, st, sk) + Owes(o, st) <= 1 + 2 * n
    BY <1>1, <1>8 DEF Fits, Owes
  <2>2. Count(t, st2, sk2) + Owes(o2, st2) <= 1 + 2 * n2
    BY <1>1, <1>4, <1>8, <2>1
  <2>3. Count(t, st2, sk2) + o2.timers + (IF Idle(o2, st2) THEN 1 ELSE 0) <= 1 + 2 * n2
    BY <1>1, <2>2 DEF Owes
  <2> QED BY <1>3, <1>8, <1>5, <1>6, <2>3 DEF Fits
<1> QED BY <1>8, <1>7

\* The invariant at the owner of a socket.
LEMMA InvAt ==
  ASSUME SocketInv, NEW c \in Sockets
  PROVE  /\ Owner(c) \in Trackers /\ c \in SocketsOf(Owner(c))
         /\ Fits(Owner(c), client[Owner(c)], cs, sock, losses)
         /\ losses \in Nat /\ losses + 1 \in Nat
BY DEF SocketInv, SocketsOf, Sockets, Owner

\* The server's end of one socket changes.
LEMMA ServerEndLemma ==
  ASSUME SocketInv, NEW c \in Sockets, NEW s \in ServerEnds, sock' = [sock EXCEPT ![c] = s]
  PROVE  /\ sock' \in [Sockets -> ServerEnds]
         /\ sock'[c] = s /\ \A d \in Sockets : d # c => sock'[d] = sock[d]
BY DEF SocketInv

\* The client's end of one socket changes.
LEMMA ClientEndLemma ==
  ASSUME SocketInv, NEW c \in Sockets, NEW s \in ReadyStates, cs' = [cs EXCEPT ![c] = s]
  PROVE  /\ cs' \in [Sockets -> ReadyStates]
         /\ cs'[c] = s /\ \A d \in Sockets : d # c => cs'[d] = cs[d]
BY DEF SocketInv

\* The object of a tracker as its handlers find it.
LEMMA WorldShaped ==
  ASSUME SocketInv, NEW t \in Trackers
  PROVE  Shaped(World(t), client[t], cs)
BY DEF SocketInv, Fits, Shaped, World, TrackerFields

\* An announce may open a socket.
LEMMA AnnounceKeeps ==
  ASSUME SocketInv, NEW t \in Trackers, NEW m, MayConnect(World(t)),
         TrackerBecomes(t, AnnounceWs(World(t), t, m)), UNCHANGED <<losses, sock>>
  PROVE  SocketInv'
<1>1. PICK o : o = client[t]
  OBVIOUS
<1>2. PICK v : v = AnnounceWs(World(t), t, m)
  OBVIOUS
<1>3. PICK c : c = <<t, o.opened + 1>>
  OBVIOUS
<1>4. \/ v.cs = cs /\ SameSockets(o, v.obj)
      \/ /\ ~o.destroyed /\ Idle(o, cs) /\ Opens(t, o, v.obj) /\ v.obj.timers = o.timers
         /\ v.cs = [cs EXCEPT ![c] = "connecting"]
  BY <1>1, <1>2, <1>3, WorldShaped, AnnounceShape
<1>5. client' = [client EXCEPT ![t] = v.obj] /\ cs' = v.cs
  BY <1>2 DEF TrackerBecomes
<1>6. Fits(t, o, cs, sock, losses) /\ losses \in Nat
  BY <1>1 DEF SocketInv
<1>7. sock' \in [Sockets -> ServerEnds] /\ \A d \in Sockets : sock'[d] = sock[d]
  BY DEF SocketInv
<1>8. /\ losses <= losses /\ losses \in Nat /\ losses' = losses
       /\ client' = [client EXCEPT ![t] = v.obj]
  BY <1>5, <1>6
<1>9. CASE v.cs = cs /\ SameSockets(o, v.obj)
  <2>1. Fits(t, v.obj, cs', sock', losses)
    BY <1>5, <1>6, <1>9, FitsSame
  <2>2. cs' \in [Sockets -> ReadyStates] /\ \A d \in Sockets : cs'[d] = cs[d]
    BY <1>5, <1>9 DEF SocketInv
  <2> QED BY <1>7, <1>8, <2>1, <2>2, OneTracker
<1>10. CASE /\ ~o.destroyed /\ Idle(o, cs) /\ Opens(t, o, v.obj) /\ v.obj.timers = o.timers
           /\ v.cs = [cs EXCEPT ![c] = "connecting"]
  <2>1. o.opened < MaxSockets /\ o.timers \in Nat /\ o.opened \in Nat /\ MaxSockets \in Nat
    BY SignallingAssumption, <1>1, <1>6, <1>10 DEF MayConnect, World, Fits
  <2>2. c \in Sockets /\ Owner(c) = t
    BY <1>3, <2>1 DEF Sockets, Owner
  <2>3. /\ cs' \in [Sockets -> ReadyStates] /\ cs'[c] = "connecting"
        /\ \A d \in Sockets : d # c => cs'[d] = cs[d]
    BY <1>5, <1>10, <2>2, ClientEndLemma DEF ReadyStates
  <2>4. Fits(t, v.obj, cs', sock, losses)
    BY <1>3, <1>6, <1>10, <2>1, <2>3, FitsOpened
  <2>5. Fits(t, v.obj, cs', sock', losses)
    BY <2>4
  <2>6. \A d \in Sockets : Owner(d) # t => cs'[d] = cs[d] /\ sock'[d] = sock[d]
    BY <1>7, <2>2, <2>3
  <2> QED BY <1>7, <1>8, <2>3, <2>5, <2>6, OneTracker
<1> QED BY <1>4, <1>9, <1>10

\* The reconnect timer opens one, and is used up.
LEMMA ReconnectKeeps ==
  ASSUME SocketInv, NEW t \in Trackers, Reconnect(t)
  PROVE  SocketInv'
<1>1. PICK o : o = client[t]
  OBVIOUS
<1>2. PICK w : w = [World(t) EXCEPT !.obj.timers = @ - 1]
  OBVIOUS
<1>3. PICK p : p = [o EXCEPT !.timers = @ - 1]
  OBVIOUS
<1>4. PICK c : c = <<t, o.opened + 1>>
  OBVIOUS
<1>5. PICK v : v = ConnectWs(w, t)
  OBVIOUS
<1>6. /\ o.timers > 0 /\ MayConnect(w) /\ UNCHANGED <<losses, sock>>
      /\ client' = [client EXCEPT ![t] = v.obj] /\ cs' = v.cs
  BY <1>1, <1>2, <1>5 DEF Reconnect, TrackerBecomes, server
<1>7. Fits(t, o, cs, sock, losses) /\ losses \in Nat
  BY <1>1 DEF SocketInv
<1>8. /\ DOMAIN p = TrackerFields /\ p.timers = o.timers - 1 /\ p.ws = o.ws /\ p.opened = o.opened
      /\ p.destroyed = o.destroyed /\ p.hasConnected = o.hasConnected
  BY <1>3, <1>7 DEF Fits, TrackerFields
<1>9. Shaped(w, p, cs)
  BY <1>1, <1>2, <1>3, <1>7, <1>8 DEF Fits, Shaped, World, TrackerFields
<1>10. ~o.destroyed /\ o.timers \in Nat /\ o.opened \in Nat
  BY <1>6, <1>7 DEF Fits
<1>11. /\ Opens(t, p, v.obj) /\ v.obj.timers = p.timers
       /\ v.cs = [cs EXCEPT ![c] = "connecting"]
  BY <1>4, <1>5, <1>8, <1>9, <1>10, ConnectShape
<1>12. o.opened < MaxSockets /\ MaxSockets \in Nat
  BY SignallingAssumption, <1>6, <1>8, <1>9, <1>10 DEF MayConnect, Shaped
<1>13. c \in Sockets /\ Owner(c) = t
  BY <1>4, <1>10, <1>12 DEF Sockets, Owner
<1>14. /\ cs' \in [Sockets -> ReadyStates] /\ cs'[c] = "connecting"
       /\ \A d \in Sockets : d # c => cs'[d] = cs[d]
  BY <1>6, <1>11, <1>13, ClientEndLemma DEF ReadyStates
<1>15. Opens(t, o, v.obj) /\ v.obj.timers \in Nat /\ v.obj.timers + 1 = o.timers
  BY <1>6, <1>8, <1>10, <1>11 DEF Opens
<1>16. Fits(t, v.obj, cs', sock, losses)
  BY <1>4, <1>7, <1>10, <1>12, <1>14, <1>15, FitsOpened
<1>17. Fits(t, v.obj, cs', sock', losses)
  BY <1>6, <1>16
<1>18. /\ sock' \in [Sockets -> ServerEnds]
       /\ \A d \in Sockets : Owner(d) # t => cs'[d] = cs[d] /\ sock'[d] = sock[d]
  BY <1>6, <1>13, <1>14 DEF SocketInv
<1>19. /\ losses <= losses /\ losses \in Nat /\ losses' = losses
       /\ client' = [client EXCEPT ![t] = v.obj]
  BY <1>6, <1>7
<1> QED BY <1>14, <1>17, <1>18, <1>19, OneTracker

\* A connection is accepted.
LEMMA OpenKeeps ==
  ASSUME SocketInv, NEW c \in Sockets, Open(c)
  PROVE  SocketInv'
<1>1. PICK t : t = Owner(c)
  OBVIOUS
<1>2. PICK o : o = client[t]
  OBVIOUS
<1>3. PICK w : w = [World(t) EXCEPT !.obj.hasConnected = TRUE, !.cs[c] = "open"]
  OBVIOUS
<1>4. PICK p : p = [o EXCEPT !.hasConnected = TRUE]
  OBVIOUS
<1>5. PICK st : st = [cs EXCEPT ![c] = "open"]
  OBVIOUS
<1>6. PICK v : v = FlushAll(w)
  OBVIOUS
<1>7. /\ cs[c] = "connecting" /\ T!Connect(c) /\ UNCHANGED losses
      /\ client' = [client EXCEPT ![t] = v.obj] /\ cs' = v.cs
  BY <1>1, <1>3, <1>6 DEF Open, TrackerBecomes
<1>8. /\ t \in Trackers /\ c \in SocketsOf(t) /\ Fits(t, o, cs, sock, losses) /\ losses \in Nat
  BY <1>1, <1>2, InvAt
<1>9. SameSockets(o, p)
  BY <1>4, <1>8 DEF Fits, SameSockets, TrackerFields
<1>10. Shaped(w, p, st)
  BY <1>2, <1>3, <1>4, <1>5, <1>8 DEF Fits, Shaped, World, TrackerFields
<1>11. v.cs = st /\ SameSockets(p, v.obj)
  BY <1>6, <1>10, FlushShape
<1>12. PICK q : q = v.obj
  OBVIOUS
<1>13. SameSockets(o, q)
  BY <1>9, <1>11, <1>12 DEF SameSockets
<1>14. cs' = [cs EXCEPT ![c] = "open"] /\ sock' = [sock EXCEPT ![c] = "open"] /\ sock[c] = "none"
  BY <1>5, <1>7, <1>11 DEF T!Connect
<1>15. /\ cs' \in [Sockets -> ReadyStates] /\ sock' \in [Sockets -> ServerEnds]
       /\ cs'[c] = "open" /\ \A d \in Sockets : d # c => cs'[d] = cs[d]
       /\ sock'[c] = "open" /\ \A d \in Sockets : d # c => sock'[d] = sock[d]
  BY <1>14, ClientEndLemma, ServerEndLemma DEF ReadyStates, ServerEnds
<1>16. OnlyOne(t, c, cs, sock, cs', sock')
  BY <1>8, <1>15 DEF OnlyOne, SocketsOf
<1>17. /\ Cost(cs[c], sock[c]) = 1 /\ Cost(cs'[c], sock'[c]) = 1
       /\ Lives(cs[c]) = 1 /\ Lives(cs'[c]) = 1
  BY <1>7, <1>15 DEF Cost, Lives
<1>18. Idle(q, cs') <=> Idle(o, cs)
  BY <1>7, <1>8, <1>13, <1>15 DEF Idle, SameSockets, Fits, SocketsOf
<1>19. Owes(q, cs') = Owes(o, cs) /\ Owes(o, cs) \in Nat
  BY <1>8, <1>13, <1>18 DEF Owes, SameSockets, Fits
<1>20. Fits(t, q, cs', sock', losses)
  <2>1. /\ DOMAIN q = TrackerFields /\ q.hasConnected \in BOOLEAN /\ q.opened = o.opened
        /\ q.destroyed = o.destroyed /\ q.timers \in Nat /\ (o.destroyed => q.timers = 0)
        /\ q.ws \in {None, o.ws}
    BY <1>8, <1>13 DEF Fits, SameSockets
  <2>2. Cost(cs'[c], sock'[c]) + Owes(q, cs') <= Cost(cs[c], sock[c]) + Owes(o, cs) + 2 * (losses - losses)
    BY <1>8, <1>17, <1>19
  <2>3. cs[c] # "none" /\ cs'[c] # "none" /\ Lives(cs'[c]) <= Lives(cs[c]) /\ losses <= losses
    BY <1>7, <1>8, <1>15, <1>17
  <2> QED BY <1>8, <1>16, <2>1, <2>2, <2>3, FitsMoved
<1>21. \A d \in Sockets : Owner(d) # t => cs'[d] = cs[d] /\ sock'[d] = sock[d]
  BY <1>1, <1>15
<1>22. /\ losses <= losses /\ losses' = losses /\ client' = [client EXCEPT ![t] = q]
  BY <1>7, <1>8, <1>12
<1> QED BY <1>8, <1>15, <1>20, <1>21, <1>22, OneTracker

\* A close event, whatever socket it is for.
LEMMA OnCloseKeeps ==
  ASSUME SocketInv, NEW c \in Sockets, OnClose(Owner(c)),
         cs' = [cs EXCEPT ![c] = "closed"], UNCHANGED sock, NEW n \in Nat, losses <= n, losses' = n,
         cs[c] # "none", 2 <= Cost(cs[c], sock[c]) + 2 * (n - losses)
  PROVE  SocketInv'
<1>1. PICK t : t = Owner(c)
  OBVIOUS
<1>2. PICK o : o = client[t]
  OBVIOUS
<1>3. PICK q : q = [o EXCEPT !.ws = None,
        !.timers = IF o.destroyed \/ ~o.hasConnected THEN @ ELSE @ + 1,
        !.pending = IF o.destroyed \/ ~o.hasConnected THEN <<>> ELSE @]
  OBVIOUS
<1>4. /\ t \in Trackers /\ c \in SocketsOf(t) /\ Fits(t, o, cs, sock, losses) /\ losses \in Nat
  BY <1>1, <1>2, InvAt
<1>5. client' = [client EXCEPT ![t] = q]
  BY <1>1, <1>2, <1>3, <1>4 DEF OnClose, SocketInv
<1>6. /\ DOMAIN q = TrackerFields /\ q.hasConnected = o.hasConnected /\ q.opened = o.opened
      /\ q.destroyed = o.destroyed /\ q.ws = None
      /\ q.timers = IF o.destroyed \/ ~o.hasConnected THEN o.timers ELSE o.timers + 1
  BY <1>3, <1>4 DEF Fits, TrackerFields
<1>7. /\ cs' \in [Sockets -> ReadyStates] /\ cs'[c] = "closed"
      /\ \A d \in Sockets : d # c => cs'[d] = cs[d]
  BY ClientEndLemma DEF ReadyStates
<1>8. sock' \in [Sockets -> ServerEnds] /\ \A d \in Sockets : sock'[d] = sock[d]
  BY DEF SocketInv
<1>9. OnlyOne(t, c, cs, sock, cs', sock')
  BY <1>4, <1>7, <1>8 DEF OnlyOne, SocketsOf
<1>10. /\ Cost(cs'[c], sock'[c]) = 0 /\ Cost(cs[c], sock[c]) \in Nat
       /\ Lives(cs'[c]) <= Lives(cs[c])
  BY <1>7 DEF Cost, Lives
<1>11. /\ Owes(o, cs) \in Nat /\ Owes(q, cs') \in Nat /\ Owes(q, cs') <= Owes(o, cs) + 2
  <2>1. o.timers \in Nat /\ q.timers \in Nat /\ q.timers <= o.timers + 1
    BY <1>4, <1>6 DEF Fits
  <2> QED BY <2>1 DEF Owes
<1>12. Cost(cs'[c], sock'[c]) + Owes(q, cs') <= Cost(cs[c], sock[c]) + Owes(o, cs) + 2 * (n - losses)
  BY <1>4, <1>10, <1>11
<1>13. /\ DOMAIN q = TrackerFields /\ q.hasConnected \in BOOLEAN /\ q.opened = o.opened
       /\ q.destroyed = o.destroyed /\ q.timers \in Nat /\ (o.destroyed => q.timers = 0)
       /\ q.ws \in {None, o.ws} /\ cs'[c] # "none"
  BY <1>4, <1>6, <1>7 DEF Fits
<1>14. Fits(t, q, cs', sock', n)
  <2>1. Fits(t, o, cs, sock, losses) /\ t \in Trackers /\ losses \in Nat /\ n \in Nat /\ losses <= n
    BY <1>4
  <2>2. cs[c] # "none" /\ cs'[c] # "none" /\ Lives(cs'[c]) <= Lives(cs[c])
    BY <1>10, <1>13
  <2>3. /\ DOMAIN q = TrackerFields /\ q.hasConnected \in BOOLEAN /\ q.opened = o.opened
        /\ q.destroyed = o.destroyed /\ q.timers \in Nat /\ q.ws \in {None, o.ws}
        /\ (o.destroyed => q.timers = 0)
    BY <1>13
  <2>4. ~o.destroyed =>
          Cost(cs'[c], sock'[c]) + Owes(q, cs') <= Cost(cs[c], sock[c]) + Owes(o, cs) + 2 * (n - losses)
    BY <1>12
  <2> QED BY ONLY <2>1, <2>2, <2>3, <2>4, <1>9, FitsMoved
<1>15. \A d \in Sockets : Owner(d) # t => cs'[d] = cs[d] /\ sock'[d] = sock[d]
  BY <1>1, <1>7, <1>8
<1> QED BY <1>4, <1>5, <1>7, <1>8, <1>14, <1>15, OneTracker

\* A socket fails to open or closes: maybe a timer takes its place.
LEMMA ClosesKeep ==
  ASSUME SocketInv, NEW c \in Sockets, Refused(c) \/ Closed(c)
  PROVE  SocketInv'
<1>1. losses \in Nat /\ losses + 1 \in Nat
  BY InvAt
<1>2. CASE Refused(c)
  <2>1. PICK n : n = losses + 1
    OBVIOUS
  <2>2. /\ cs[c] = "connecting" /\ losses' = n /\ cs' = [cs EXCEPT ![c] = "closed"]
        /\ OnClose(Owner(c)) /\ UNCHANGED sock
    BY <1>2, <2>1 DEF Refused, server
  <2>3. Cost(cs[c], sock[c]) = 1
    BY <2>2 DEF Cost
  <2>4. n \in Nat /\ losses <= n /\ 2 <= Cost(cs[c], sock[c]) + 2 * (n - losses) /\ cs[c] # "none"
    BY <1>1, <2>1, <2>2, <2>3
  <2> QED BY <2>2, <2>4, OnCloseKeeps
<1>3. CASE Closed(c)
  <2>1. /\ cs[c] = "closing" \/ (cs[c] = "open" /\ sock[c] = "closed")
        /\ losses' = losses /\ cs' = [cs EXCEPT ![c] = "closed"]
        /\ OnClose(Owner(c)) /\ UNCHANGED sock
    BY <1>3 DEF Closed, server
  <2>2. Cost(cs[c], sock[c]) = 2
    BY <2>1 DEF Cost
  <2>3. losses <= losses /\ 2 <= Cost(cs[c], sock[c]) + 2 * (losses - losses) /\ cs[c] # "none"
    BY <1>1, <2>1, <2>2
  <2> QED BY <1>1, <2>1, <2>3, OnCloseKeeps
<1> QED BY <1>2, <1>3

\* A step that leaves the objects alone, but moves one socket.
LEMMA SocketKeeps ==
  ASSUME SocketInv, NEW c \in Sockets, UNCHANGED client,
         NEW n \in Nat, losses <= n, losses' = n,
         cs' \in [Sockets -> ReadyStates], sock' \in [Sockets -> ServerEnds],
         \A d \in Sockets : d # c => cs'[d] = cs[d] /\ sock'[d] = sock[d],
         cs[c] # "none", cs'[c] # "none", Lives(cs'[c]) <= Lives(cs[c]),
         Cost(cs'[c], sock'[c]) + (IF cs'[c] \in {"closing", "closed"} THEN 1 ELSE 0)
           <= Cost(cs[c], sock[c]) + (IF cs[c] \in {"closing", "closed"} THEN 1 ELSE 0) + 2 * (n - losses),
         Cost(cs'[c], sock'[c]) <= Cost(cs[c], sock[c]) + 2 * (n - losses)
  PROVE  SocketInv'
<1>1. PICK t : t = Owner(c)
  OBVIOUS
<1>2. PICK o : o = client[t]
  OBVIOUS
<1>3. /\ t \in Trackers /\ c \in SocketsOf(t) /\ Fits(t, o, cs, sock, losses) /\ losses \in Nat
  BY <1>1, <1>2, InvAt
<1>4. OnlyOne(t, c, cs, sock, cs', sock')
  BY <1>3 DEF OnlyOne, SocketsOf
<1>5. /\ Cost(cs[c], sock[c]) \in Nat /\ Cost(cs'[c], sock'[c]) \in Nat
  BY DEF Cost
<1>6. o.timers \in Nat /\ Owes(o, cs) \in Nat /\ Owes(o, cs') \in Nat
  BY <1>3 DEF Fits, Owes
<1>7. Cost(cs'[c], sock'[c]) + Owes(o, cs') <= Cost(cs[c], sock[c]) + Owes(o, cs) + 2 * (n - losses)
  <2>1. CASE o.ws = c /\ o.ws # None
    <3>1. /\ Owes(o, cs') = o.timers + (IF cs'[c] \in {"closing", "closed"} THEN 1 ELSE 0)
          /\ Owes(o, cs) = o.timers + (IF cs[c] \in {"closing", "closed"} THEN 1 ELSE 0)
      BY <2>1 DEF Owes, Idle
    <3> QED BY <1>3, <1>5, <1>6, <3>1
  <2>2. CASE ~(o.ws = c /\ o.ws # None)
    <3>1. Idle(o, cs') <=> Idle(o, cs)
      BY <1>3, <2>2 DEF Idle, Fits, SocketsOf
    <3>2. Owes(o, cs') = Owes(o, cs)
      BY <3>1 DEF Owes
    <3> QED BY <1>3, <1>5, <1>6, <3>2
  <2> QED BY <2>1, <2>2
<1>8. /\ DOMAIN o = TrackerFields /\ o.hasConnected \in BOOLEAN
      /\ o.timers \in Nat /\ (o.destroyed => o.timers = 0)
      /\ o.ws \in {None, o.ws}
  BY <1>3 DEF Fits
<1>9. Fits(t, o, cs', sock', n)
  BY <1>3, <1>4, <1>7, <1>8, FitsMoved
<1>10. \A d \in Sockets : Owner(d) # t => cs'[d] = cs[d] /\ sock'[d] = sock[d]
  BY <1>1
<1>11. client' = [client EXCEPT ![t] = o]
  BY <1>2, <1>3 DEF SocketInv
<1> QED BY <1>3, <1>9, <1>10, <1>11, OneTracker

\* A connection is lost: the allowance grows with it.
LEMMA LoseKeeps ==
  ASSUME SocketInv, NEW c \in Sockets, Lose(c)
  PROVE  SocketInv'
<1>1. losses \in Nat /\ losses + 1 \in Nat
  BY InvAt
<1>2. PICK n : n = losses + 1
  OBVIOUS
<1>3. /\ cs[c] = "open" /\ sock[c] = "open" /\ losses' = n /\ UNCHANGED client
      /\ T!Disconnect(c)
  BY <1>2 DEF Lose
<1>4. PICK s \in {"open", "closing"} : cs' = [cs EXCEPT ![c] = s]
  BY DEF Lose
<1>5. sock' = [sock EXCEPT ![c] = "closed"]
  BY <1>3 DEF T!Disconnect
<1>6. /\ cs' \in [Sockets -> ReadyStates] /\ cs'[c] = s
      /\ \A d \in Sockets : d # c => cs'[d] = cs[d]
  BY <1>4, ClientEndLemma DEF ReadyStates
<1>7. /\ sock' \in [Sockets -> ServerEnds] /\ sock'[c] = "closed"
      /\ \A d \in Sockets : d # c => sock'[d] = sock[d]
  BY <1>5, ServerEndLemma DEF ServerEnds
<1>8. /\ Cost(cs[c], sock[c]) = 1 /\ Cost(cs'[c], sock'[c]) = 2
      /\ Lives(cs'[c]) <= Lives(cs[c])
  BY <1>3, <1>6, <1>7 DEF Cost, Lives
<1>9. /\ n \in Nat /\ losses <= n /\ n - losses = 1
  BY <1>1, <1>2
<1>10. /\ cs[c] # "none" /\ cs'[c] # "none" /\ cs[c] \notin {"closing", "closed"}
  BY <1>3, <1>6
<1> QED BY <1>3, <1>6, <1>7, <1>8, <1>9, <1>10, SocketKeeps

\* The close event of the server's end.
LEMMA ServerClosedKeeps ==
  ASSUME SocketInv, NEW c \in Sockets, ServerClosed(c)
  PROVE  SocketInv'
<1>1. losses \in Nat
  BY InvAt
<1>2. /\ cs[c] \in {"closing", "closed"} /\ losses' = losses /\ UNCHANGED <<client, cs>>
      /\ T!Disconnect(c)
  BY DEF ServerClosed
<1>3. sock' = [sock EXCEPT ![c] = "closed"]
  BY <1>2 DEF T!Disconnect
<1>4. /\ sock' \in [Sockets -> ServerEnds]
      /\ \A d \in Sockets : d # c => sock'[d] = sock[d]
  BY <1>3, ServerEndLemma DEF ServerEnds
<1>5. /\ cs' \in [Sockets -> ReadyStates] /\ \A d \in Sockets : cs'[d] = cs[d]
  BY <1>2 DEF SocketInv
<1>6. /\ Cost(cs'[c], sock'[c]) = Cost(cs[c], sock[c]) /\ Cost(cs[c], sock[c]) \in Nat
      /\ Lives(cs'[c]) <= Lives(cs[c]) /\ cs[c] # "none" /\ cs'[c] # "none"
  BY <1>2 DEF Cost, Lives
<1>7. losses <= losses /\ 2 * (losses - losses) = 0
  BY <1>1
<1> QED BY <1>1, <1>2, <1>4, <1>5, <1>6, <1>7, SocketKeeps

\* A message changes no socket.
LEMMA MessageKeeps ==
  ASSUME SocketInv, NEW c \in Sockets, Receive(c) \/ Serve(c)
  PROVE  SocketInv'
<1>1. CASE Receive(c)
  <2>1. PICK t : t = Owner(c)
    OBVIOUS
  <2>2. PICK o : o = client[t]
    OBVIOUS
  <2>3. PICK m : m = Head(toClient[c])
    OBVIOUS
  <2>4. PICK q : q = [o EXCEPT !.pending = IF m.type = "response" THEN <<>> ELSE @]
    OBVIOUS
  <2>5. t \in Trackers /\ Fits(t, o, cs, sock, losses) /\ losses \in Nat
    BY <2>1, <2>2, InvAt
  <2>6. client' = [client EXCEPT ![t] = q] /\ UNCHANGED <<cs, losses, sock>>
    BY <1>1, <2>1, <2>2, <2>3, <2>4 DEF Receive, server
  <2>7. SameSockets(o, q)
    BY <2>4, <2>5 DEF Fits, SameSockets, TrackerFields
  <2>8. Fits(t, q, cs', sock', losses)
    BY <2>5, <2>6, <2>7, FitsSame
  <2>9. /\ cs' \in [Sockets -> ReadyStates] /\ sock' \in [Sockets -> ServerEnds]
        /\ \A d \in Sockets : cs'[d] = cs[d] /\ sock'[d] = sock[d] /\ losses <= losses
        /\ losses' = losses /\ client' = [client EXCEPT ![t] = q]
    BY <2>5, <2>6 DEF SocketInv
  <2>10. losses <= losses
    BY <2>5
  <2> QED BY <2>5, <2>8, <2>9, <2>10, OneTracker
<1>2. CASE Serve(c)
  <2>1. UNCHANGED <<client, cs, losses>> /\ T!Announce(c, InfoHash[Owner(c)], "started")
    BY <1>2 DEF Serve
  <2>2. UNCHANGED sock
    BY <2>1 DEF T!Announce
  <2> QED BY <2>1, <2>2 DEF SocketInv
<1> QED BY <1>1, <1>2

\* destroy() drops the object's timers and its socket.
LEMMA DestroyKeeps ==
  ASSUME SocketInv, NEW t \in Trackers, Destroy(t)
  PROVE  SocketInv'
<1>1. PICK o : o = client[t]
  OBVIOUS
<1>2. PICK q : q = [o EXCEPT !.destroyed = TRUE, !.ws = None, !.pending = <<>>, !.timers = 0]
  OBVIOUS
<1>3. Fits(t, o, cs, sock, losses) /\ losses \in Nat
  BY <1>1 DEF SocketInv
<1>4. /\ client' = [client EXCEPT ![t] = q] /\ UNCHANGED <<losses, sock>>
      /\ cs' = [c \in Sockets |-> IF c = o.ws /\ cs[c] \in {"connecting", "open"} THEN "closing"
                                    ELSE cs[c]]
  BY <1>1, <1>2 DEF Destroy, server, SocketInv
<1>5. /\ DOMAIN q = TrackerFields /\ q.hasConnected = o.hasConnected /\ q.opened = o.opened
      /\ q.destroyed = TRUE /\ q.ws = None /\ q.timers = 0
  BY <1>2, <1>3 DEF Fits, TrackerFields
<1>6. /\ cs' \in [Sockets -> ReadyStates] /\ sock' \in [Sockets -> ServerEnds]
      /\ \A d \in Sockets : d # o.ws => cs'[d] = cs[d]
      /\ \A d \in Sockets : cs[d] = "none" <=> cs'[d] = "none"
      /\ \A d \in Sockets : cs'[d] \in {"connecting", "open"} => cs[d] \in {"connecting", "open"}
      /\ \A d \in Sockets : sock'[d] = sock[d]
  BY <1>4 DEF SocketInv, ReadyStates
<1>7. Cardinality(AliveOf(t, cs')) <= 1 + 2 * losses
  <2>1. AliveOf(t, cs') \in SUBSET AliveOf(t, cs) /\ AliveOf(t, cs) \in SUBSET Sockets
    BY <1>6 DEF AliveOf, SocketsOf
  <2>2. IsFiniteSet(AliveOf(t, cs)) /\ IsFiniteSet(AliveOf(t, cs'))
    BY <2>1, SocketsFinite, FS_Subset
  <2>3. Cardinality(AliveOf(t, cs')) <= Cardinality(AliveOf(t, cs))
    BY <2>1, <2>2, FS_Subset
  <2>4. Cardinality(AliveOf(t, cs')) \in Nat /\ Cardinality(AliveOf(t, cs)) \in Nat
    BY <2>2, FS_CardinalityType
  <2> QED BY <1>3, <2>3, <2>4 DEF Fits
<1>8. \A k \in q.opened + 1..MaxSockets : cs'[<<t, k>>] = "none"
  <2> TAKE k \in q.opened + 1..MaxSockets
  <2>1. k \in 1..MaxSockets /\ cs[<<t, k>>] = "none"
    BY SignallingAssumption, <1>3, <1>5 DEF Fits
  <2> QED BY <1>6, <2>1 DEF Sockets
<1>9. Fits(t, q, cs', sock', losses)
  <2>1. q.opened \in 0..MaxSockets /\ q.hasConnected \in BOOLEAN /\ q.timers \in Nat
    BY <1>3, <1>5 DEF Fits
  <2> QED BY <1>5, <1>7, <1>8, <2>1 DEF Fits
<1>10. \A d \in Sockets : Owner(d) # t => cs'[d] = cs[d] /\ sock'[d] = sock[d]
  BY SignallingAssumption, <1>3, <1>6 DEF Fits, SocketsOf
<1>11. losses <= losses /\ losses' = losses
  BY <1>3, <1>4
<1> QED BY <1>3, <1>4, <1>6, <1>9, <1>10, <1>11, OneTracker

\* Initially there are no sockets.
LEMMA InitSocketInv ==
  ASSUME SignallingInit
  PROVE  SocketInv
<1>1. /\ losses = 0 /\ client = [t \in Trackers |-> NewTracker]
      /\ cs = [c \in Sockets |-> "none"] /\ sock = [c \in Sockets |-> "none"]
  BY DEF SignallingInit, T!Init
<1>2. ASSUME NEW t \in Trackers PROVE Fits(t, client[t], cs, sock, losses)
  <2>1. PICK o : o = client[t]
    OBVIOUS
  <2>2. /\ DOMAIN o = TrackerFields /\ o.timers = 0 /\ o.opened = 0 /\ o.ws = None
        /\ o.destroyed = FALSE /\ o.hasConnected = FALSE
    BY <1>1, <2>1 DEF NewTracker, TrackerFields
  <2>3. /\ AliveOf(t, cs) = {} /\ CutOf(t, cs, sock) = {} /\ ClosingOf(t, cs) = {}
    BY <1>1 DEF AliveOf, CutOf, ClosingOf, SocketsOf
  <2>4. Cardinality({}) = 0
    BY FS_EmptySet
  <2>5. Cardinality(AliveOf(t, cs)) = 0 /\ Count(t, cs, sock) = 0
    BY <2>3, <2>4 DEF Count
  <2>6. \A k \in o.opened + 1..MaxSockets : cs[<<t, k>>] = "none"
    <3> TAKE k \in o.opened + 1..MaxSockets
    <3>1. <<t, k>> \in Sockets
      BY SignallingAssumption, <2>2 DEF Sockets
    <3> QED BY <1>1, <3>1
  <2>7. Count(t, cs, sock) + o.timers + (IF Idle(o, cs) THEN 1 ELSE 0) <= 1 + 2 * losses
    BY <1>1, <2>2, <2>5
  <2>8. o.opened \in 0..MaxSockets
    BY SignallingAssumption, <2>2
  <2>9. Cardinality(AliveOf(t, cs)) <= 1 + 2 * losses /\ o.timers \in Nat
    BY <1>1, <2>2, <2>5
  <2>10. Fits(t, o, cs, sock, losses)
    BY <2>2, <2>6, <2>7, <2>8, <2>9 DEF Fits
  <2> QED BY <2>1, <2>10
<1> QED BY <1>1, <1>2 DEF SocketInv, ReadyStates, ServerEnds

\* Every step of the clients, the network and the server keeps the invariant.
LEMMA NextSocketInv ==
  ASSUME SocketInv, [SignallingNext]_signallingVars
  PROVE  SocketInv'
<1>1. ASSUME NEW t \in Trackers, Start(t) PROVE SocketInv'
  <2>1. PICK m : TrackerBecomes(t, AnnounceWs(World(t), t, m))
    BY <1>1 DEF Start
  <2>2. MayConnect(World(t)) /\ UNCHANGED <<losses, sock>>
    BY <1>1 DEF Start, server
  <2> QED BY <2>1, <2>2, AnnounceKeeps
<1>2. ASSUME NEW t \in Trackers, NEW offer, SendAnswer(t, offer) PROVE SocketInv'
  <2>1. PICK m : TrackerBecomes(t, AnnounceWs(World(t), t, m))
    BY <1>2 DEF SendAnswer
  <2>2. MayConnect(World(t)) /\ UNCHANGED <<losses, sock>>
    BY <1>2 DEF SendAnswer, server
  <2> QED BY <2>1, <2>2, AnnounceKeeps
<1>3. ASSUME UNCHANGED signallingVars PROVE SocketInv'
  BY <1>3 DEF signallingVars, server, SocketInv
<1> QED
  BY <1>1, <1>2, <1>3, DestroyKeeps, ReconnectKeeps, OpenKeeps, ClosesKeep, LoseKeeps, MessageKeeps,
     ServerClosedKeeps DEF SignallingNext

\* The sockets of an object and what its losses pay for.
THEOREM SocketInvariant == SignallingSpec => []SocketInv
<1>1. SignallingInit => SocketInv
  BY InitSocketInv
<1>2. SocketInv /\ [SignallingNext]_signallingVars => SocketInv'
  BY NextSocketInv
<1> QED BY <1>1, <1>2, PTL DEF SignallingSpec

\* However messages, losses, timers and destruction interleave, a tracker client never has
\* more than one socket alive beside two for every loss: openSocket is guarded, and a timer
\* that fires late finds the socket that an announce has opened (tracker.ts).
THEOREM SocketsBoundedHolds == SignallingSpec => []SocketsBounded
<1>1. SocketInv => SocketsBounded
  <2> SUFFICES ASSUME SocketInv, NEW t \in Trackers PROVE Cardinality(Alive(t)) <= 1 + 2 * losses
    BY DEF SocketsBounded
  <2>1. Alive(t) = AliveOf(t, cs)
    BY DEF Alive, AliveOf, SocketsOf
  <2>2. Cardinality(AliveOf(t, cs)) <= 1 + 2 * losses
    BY DEF SocketInv, Fits
  <2> QED BY <2>1, <2>2
<1>2. SignallingSpec => []SocketInv
  BY SocketInvariant
<1> QED BY <1>1, <1>2, PTL
-----------------------------------------------------------------------------
(***************************************************************************)
(* The tracker server in Signalling                                        *)
(***************************************************************************)
\* The server's own theorems, with the sockets for its connections and no HTTP peers.
P == INSTANCE TrackerServerProofs WITH
  Conns <- Sockets, HttpIds <- {}, InfoHashes <- Torrents,
  MaxTorrents <- Cardinality(Torrents), MaxPeersPerTorrent <- Cardinality(Sockets),
  MaxListed <- Cardinality(Torrents),
  Null <- None, up <- listening

\* The assumptions of the tracker hold of the server in Signalling.
LEMMA ServerAssumption == P!TrackerAssumption
<1>1. IsFiniteSet(Sockets) /\ IsFiniteSet(Trackers) /\ IsFiniteSet(Torrents)
  <2>1. IsFiniteSet(Trackers)
    BY SignallingAssumption
  <2>2. IsFiniteSet({InfoHash[t] : t \in Trackers})
    <3>1. PICK f : f = [t \in Trackers |-> InfoHash[t]]
      OBVIOUS
    <3>2. f \in Surjection(Trackers, {InfoHash[t] : t \in Trackers})
      BY <3>1 DEF Surjection
    <3> QED BY <2>1, <3>2, FS_Surjection
  <2> QED BY <2>1, <2>2, SocketsFinite DEF Torrents
<1>2. PICK t \in Trackers : TRUE
  BY SignallingAssumption
<1>3. <<t, 1>> \in Sockets /\ InfoHash[t] \in Torrents
  BY SignallingAssumption DEF Sockets, Torrents
<1>4. Cardinality(Sockets) \in Nat \ {0} /\ Cardinality(Torrents) \in Nat \ {0}
  BY <1>1, <1>3, FS_CardinalityType, FS_EmptySet
<1>5. \A S : IsFiniteSet(S) => P!IsFiniteSet(S)
  BY DEF IsFiniteSet, P!IsFiniteSet
<1>6. P!Entries = Sockets
  BY DEF P!Entries
<1>7. Sockets \cap {} = {} /\ None \notin P!Entries \cup Torrents
  BY <1>6, SignallingAssumption
<1>8. P!IsFiniteSet(P!Entries) /\ P!IsFiniteSet(Torrents)
  BY <1>1, <1>5, <1>6
<1> QED BY <1>4, <1>7, <1>8 DEF P!TrackerAssumption

-----------------------------------------------------------------------------
\* The proofs of TrackerServer speak of their own instance of it and of the cache; each
\* operator is the same as that of Signalling's.
LEMMA NodesSame ==
  ASSUME NEW l, NEW k
  PROVE  P!L!AddToFront(l, k) = T!L!AddToFront(l, k) /\ P!L!RemoveNode(l, k) = T!L!RemoveNode(l, k)
<1>1. P!L!AddToFront(l, k) = T!L!AddToFront(l, k)
  BY DEF P!L!AddToFront, T!L!AddToFront
<1>2. P!L!RemoveNode(l, k) = T!L!RemoveNode(l, k)
  BY DEF P!L!RemoveNode, T!L!RemoveNode
<1> QED BY <1>1, <1>2

\* Looking a key up.
LEMMA GetSame ==
  ASSUME NEW l, NEW k
  PROVE  P!L!MoveToFront(l, k) = T!L!MoveToFront(l, k) /\ P!L!Get(l, k) = T!L!Get(l, k)
BY NodesSame DEF P!L!MoveToFront, T!L!MoveToFront, P!L!Get, T!L!Get

\* Removing a key.
LEMMA RemoveKeySame ==
  ASSUME NEW l, NEW k
  PROVE  P!L!RemoveKey(l, k) = T!L!RemoveKey(l, k)
<1>1. PICK m : m = P!L!RemoveNode(l, k) /\ m = T!L!RemoveNode(l, k)
  BY NodesSame
<1> QED BY <1>1 DEF P!L!RemoveKey, T!L!RemoveKey

\* Putting a key.
LEMMA PutSame ==
  ASSUME NEW l, NEW k
  PROVE  P!L!Put(l, k) = T!L!Put(l, k)
<1>1. PICK r : r = IF l.size >= Cardinality(Torrents) THEN P!L!Evict(l) ELSE l
  OBVIOUS
<1>2. r = IF l.size >= Cardinality(Torrents) THEN T!L!Evict(l) ELSE l
  BY <1>1, RemoveKeySame DEF P!L!Evict, T!L!Evict
<1>3. PICK m : m = P!L!AddToFront(r, k) /\ m = T!L!AddToFront(r, k)
  BY NodesSame
<1>4. P!L!Put(l, k) = IF k \in l.map THEN P!L!MoveToFront(l, k)
                      ELSE [m EXCEPT !.map = @ \cup {k}, !.size = @ + 1]
  BY <1>1, <1>3 DEF P!L!Put
<1>5. T!L!Put(l, k) = IF k \in l.map THEN T!L!MoveToFront(l, k)
                      ELSE [m EXCEPT !.map = @ \cup {k}, !.size = @ + 1]
  BY <1>2, <1>3 DEF T!L!Put
<1> QED BY <1>4, <1>5, GetSame

\* Looking a swarm up.
LEMMA TouchSame ==
  ASSUME NEW s, NEW h
  PROVE  P!Touch(s, h) = T!Touch(s, h)
<1>1. PICK l : l = P!L!Get(s.swarms.cache, h) /\ l = T!L!Get(s.swarms.cache, h)
  BY GetSame
<1> QED BY <1>1 DEF P!Touch, T!Touch

\* Making one.
LEMMA GetOrCreateSame ==
  ASSUME NEW s, NEW h
  PROVE  P!GetOrCreate(s, h) = T!GetOrCreate(s, h)
<1>1. PICK l : l = P!L!Put(s.swarms.cache, h) /\ l = T!L!Put(s.swarms.cache, h)
  BY PutSame
<1> QED BY <1>1, TouchSame DEF P!GetOrCreate, T!GetOrCreate

\* Making room in one.
LEMMA EvictOldestSame ==
  ASSUME NEW s, NEW h
  PROVE  P!EvictOldest(s, h) = T!EvictOldest(s, h)
<1>1. PICK e : e = P!OldestMember(s.swarms.members[h]) /\ e = T!OldestMember(s.swarms.members[h])
  BY DEF P!OldestMember, T!OldestMember, P!Position, T!Position
<1>2. P!RemoveFirst(s.hashes[e], h) = T!RemoveFirst(s.hashes[e], h)
  BY DEF P!RemoveFirst, T!RemoveFirst, P!RemoveAt, T!RemoveAt, P!SelectInSeq, T!SelectInSeq, P!Min, T!Min
<1>3. PICK q : q = P!RemoveFirst(s.hashes[e], h) /\ q = T!RemoveFirst(s.hashes[e], h)
  BY <1>2
<1>4. PICK m : m = s.swarms.members[h] \ {e}
  OBVIOUS
<1>5. P!EvictOldest(s, h) = [s EXCEPT !.swarms.members[h] = m, !.hashes[e] = q]
  BY <1>1, <1>3, <1>4 DEF P!EvictOldest
<1>6. T!EvictOldest(s, h) = [s EXCEPT !.swarms.members[h] = m, !.hashes[e] = q]
  BY <1>1, <1>3, <1>4 DEF T!EvictOldest
<1> QED BY <1>5, <1>6

\* Joining one.
LEMMA AddSame ==
  ASSUME NEW s, NEW h, NEW e
  PROVE  P!AddToTorrent(s, h, e) = T!AddToTorrent(s, h, e)
<1>1. PICK t : t = P!GetOrCreate(s, h) /\ t = T!GetOrCreate(s, h)
  BY GetOrCreateSame
<1>2. P!Cardinality(t.swarms.members[h]) = T!Cardinality(t.swarms.members[h])
  BY DEF P!Cardinality, T!Cardinality, P!IsFiniteSet, T!IsFiniteSet
<1>3. PICK r : r = IF P!Cardinality(t.swarms.members[h]) >= Cardinality(Sockets)
                   THEN P!EvictOldest(t, h) ELSE t
  OBVIOUS
<1>4. r = IF T!Cardinality(t.swarms.members[h]) >= Cardinality(Sockets)
          THEN T!EvictOldest(t, h) ELSE t
  BY <1>2, <1>3, EvictOldestSame
<1>5. P!AddToTorrent(s, h, e) = [r EXCEPT !.swarms.members[h] = @ \cup {e}]
  BY <1>1, <1>3 DEF P!AddToTorrent
<1>6. T!AddToTorrent(s, h, e) = [r EXCEPT !.swarms.members[h] = @ \cup {e}]
  BY <1>1, <1>4 DEF T!AddToTorrent
<1> QED BY <1>5, <1>6

\* Leaving one.
LEMMA RemoveSame ==
  ASSUME NEW s, NEW h, NEW e
  PROVE  P!RemoveFromTorrent(s, h, e) = T!RemoveFromTorrent(s, h, e)
<1>1. PICK g : g = P!Touch(s, h) /\ g = T!Touch(s, h)
  BY TouchSame
<1>2. PICK t : t = [g EXCEPT !.swarms.members[h] = s.swarms.members[h] \ {e}]
  OBVIOUS
<1>3. PICK l : l = P!L!RemoveKey(t.swarms.cache, h) /\ l = T!L!RemoveKey(t.swarms.cache, h)
  BY RemoveKeySame
<1>4. PICK u : u = [t EXCEPT !.swarms.cache = l, !.torrents = @ \ {h}]
  OBVIOUS
<1>5. P!RemoveFromTorrent(s, h, e)
        = IF h \notin s.swarms.cache.map THEN s ELSE IF s.swarms.members[h] \ {e} # {} THEN t ELSE u
  BY <1>1, <1>2, <1>3, <1>4 DEF P!RemoveFromTorrent
<1>6. T!RemoveFromTorrent(s, h, e)
        = IF h \notin s.swarms.cache.map THEN s ELSE IF s.swarms.members[h] \ {e} # {} THEN t ELSE u
  BY <1>1, <1>2, <1>3, <1>4 DEF T!RemoveFromTorrent
<1> QED BY <1>5, <1>6

\* An announce.
LEMMA AnnounceSame ==
  ASSUME NEW c, NEW h, T!Announce(c, h, "started")
  PROVE  P!Announce(c, h, "started")
<1>1. PICK s : s = P!Listed(P!State, h, c) /\ s = T!Listed(T!State, h, c)
  BY DEF P!Listed, T!Listed, P!State, T!State, P!Range, T!Range
<1>2. PICK t : t = P!AddToTorrent(s, h, c) /\ t = T!AddToTorrent(s, h, c)
  BY AddSame
<1>3. PICK u : u = P!Touch(t, h) /\ u = T!Touch(t, h)
  BY TouchSame
<1>4. P!Announced(h, c, "started") = u /\ T!Announced(h, c, "started") = u
  BY <1>1, <1>2, <1>3 DEF P!Announced, T!Announced
<1>5. T!MayList(c, h) => P!MayList(c, h)
  BY DEF T!MayList, P!MayList, T!Range, P!Range
<1>6. T!Update(u) => P!Update(u)
  BY DEF T!Update, P!Update
<1>7. T!IsOpen(c) => P!IsOpen(c)
  BY DEF T!IsOpen, P!IsOpen
<1>8. T!IsOpen(c) /\ T!MayList(c, h) /\ T!Update(u) /\ UNCHANGED <<peers, sock, listening>>
  BY <1>4 DEF T!Announce
<1> QED BY <1>4, <1>5, <1>6, <1>7, <1>8 DEF P!Announce

\* A disconnect.
LEMMA DisconnectSame ==
  ASSUME NEW c, T!Disconnect(c)
  PROVE  P!Disconnect(c)
<1>1. T!Left(T!State, c) = P!Left(P!State, c)
  <2>1. PICK s : s = P!State /\ s = T!State
    BY DEF P!State, T!State
  <2>2. P!Left(s, c) = T!Left(s, c)
    BY RemoveSame DEF P!Left, T!Left, P!FoldLeft, T!FoldLeft, P!MapThenFoldSet, T!MapThenFoldSet,
       P!Max, T!Max
  <2> QED BY <2>1, <2>2
<1>2. PICK u : u = T!Left(T!State, c) /\ u = P!Left(P!State, c)
  BY <1>1
<1>3. T!Update(u) => P!Update(u)
  BY DEF T!Update, P!Update
<1>4. /\ sock[c] \in {"open", "closing"} /\ sock' = [sock EXCEPT ![c] = "closed"]
      /\ T!Update(u) /\ UNCHANGED <<peers, listening>>
  BY <1>2 DEF T!Disconnect
<1> QED BY <1>2, <1>3, <1>4 DEF P!Disconnect

\* What a step does to the server: a connection, an announce, a socket that closes, or nothing.
LEMMA ServerStep ==
  ASSUME [SignallingNext]_signallingVars
  PROVE  \/ UNCHANGED server
         \/ \E c \in Sockets : T!Connect(c) \/ T!Disconnect(c)
         \/ \E c \in Sockets : T!Announce(c, InfoHash[Owner(c)], "started")
<1>1. CASE UNCHANGED signallingVars
  BY <1>1 DEF signallingVars, server
<1>2. ASSUME NEW t \in Trackers, Start(t) \/ Destroy(t) \/ Reconnect(t) PROVE UNCHANGED server
  BY <1>2 DEF Start, Destroy, Reconnect, server
<1>3. ASSUME NEW t \in Trackers, NEW offer, SendAnswer(t, offer) PROVE UNCHANGED server
  BY <1>3 DEF SendAnswer, server
<1>4. ASSUME NEW c \in Sockets, Refused(c) \/ Closed(c) \/ Receive(c) PROVE UNCHANGED server
  BY <1>4 DEF Refused, Closed, Receive, server
<1>5. ASSUME NEW c \in Sockets, Open(c) PROVE T!Connect(c)
  BY <1>5 DEF Open
<1>6. ASSUME NEW c \in Sockets, Lose(c) \/ ServerClosed(c) PROVE T!Disconnect(c)
  BY <1>6 DEF Lose, ServerClosed
<1>7. ASSUME NEW c \in Sockets, Serve(c) PROVE T!Announce(c, InfoHash[Owner(c)], "started")
  BY <1>7 DEF Serve
<1> QED BY <1>1, <1>2, <1>3, <1>4, <1>5, <1>6, <1>7 DEF SignallingNext

\* The server within Signalling behaves as TrackerServer allows: what is proved of it, that
\* the cache is sound and swarms are bounded, holds with these clients too.
THEOREM ServerRefined == SignallingSpec => T!Spec
<1>1. SignallingInit => T!Init
  BY DEF SignallingInit
<1>2. [SignallingNext]_signallingVars => [T!Next]_(T!vars)
  <2> SUFFICES ASSUME [SignallingNext]_signallingVars, ~UNCHANGED server PROVE T!Next
    BY DEF server, T!vars
  <2>1. CASE \E c \in Sockets : T!Connect(c) \/ T!Disconnect(c)
    BY <2>1 DEF T!Next
  <2>2. CASE \E c \in Sockets : T!Announce(c, InfoHash[Owner(c)], "started")
    <3>1. PICK c \in Sockets : T!Announce(c, InfoHash[Owner(c)], "started")
      BY <2>2
    <3>2. InfoHash[Owner(c)] \in Torrents /\ "started" \in T!Events
      BY DEF Sockets, Owner, Torrents, T!Events
    <3> QED BY <3>1, <3>2 DEF T!Next
  <2> QED BY <2>1, <2>2, ServerStep
<1> QED BY <1>1, <1>2, PTL DEF SignallingSpec, T!Spec

\* The server starts as in TrackerServer.
LEMMA InitServer == SignallingInit => P!IInv
<1> SUFFICES ASSUME SignallingInit PROVE P!IInv
  OBVIOUS
<1>1. T!Init
  BY DEF SignallingInit
<1>2. P!Init
  BY <1>1 DEF T!Init, P!Init, T!Entries, P!Entries, T!L!NewCache, P!L!NewCache
<1> QED BY <1>2, ServerAssumption, P!InitHolds

\* The invariant of the server is kept by every step.
LEMMA NextServer ==
  ASSUME P!IInv, [SignallingNext]_signallingVars
  PROVE  P!IInv'
<1>1. CASE UNCHANGED server
  <2>1. UNCHANGED P!vars
    BY <1>1 DEF server, P!vars
  <2> QED BY <2>1, ServerAssumption, P!NextHolds
<1>2. CASE \E c \in Sockets : T!Connect(c) \/ T!Disconnect(c)
  <2>1. PICK c \in Sockets : T!Connect(c) \/ T!Disconnect(c)
    BY <1>2
  <2>2. P!Connect(c) \/ P!Disconnect(c)
    <3>1. T!Connect(c) => P!Connect(c)
      BY DEF T!Connect, P!Connect
    <3> QED BY <2>1, <3>1, DisconnectSame
  <2>3. P!Next
    BY <2>2 DEF P!Next
  <2> QED BY <2>3, ServerAssumption, P!NextHolds
<1>3. CASE \E c \in Sockets : T!Announce(c, InfoHash[Owner(c)], "started")
  <2>1. PICK c \in Sockets : T!Announce(c, InfoHash[Owner(c)], "started")
    BY <1>3
  <2>2. InfoHash[Owner(c)] \in Torrents /\ "started" \in P!Events
    BY DEF Sockets, Owner, Torrents, P!Events
  <2>3. P!Announce(c, InfoHash[Owner(c)], "started")
    BY <2>1, AnnounceSame
  <2>4. P!Next
    BY <2>2, <2>3 DEF P!Next
  <2> QED BY <2>4, ServerAssumption, P!NextHolds
<1> QED BY <1>1, <1>2, <1>3, ServerStep
-----------------------------------------------------------------------------
(***************************************************************************)
(* Offers                                                                  *)
(***************************************************************************)

Joined(c) == {h \in Torrents : c \in swarms.members[h]}

\* A member of a swarm has been connected.
LEMMA MembersConnect ==
  ASSUME P!IInv, NEW c \in Sockets, Joined(c) # {}
  PROVE  sock[c] # "none"
<1>1. PICK h \in Torrents : c \in swarms.members[h]
  BY DEF Joined
<1> QED BY <1>1 DEF P!IInv, P!PeersKnown

\* When a socket closes nobody joins a swarm.
LEMMA DisconnectJoins ==
  ASSUME P!IInv, NEW c \in Sockets, T!Disconnect(c)
  PROVE  \A d \in Sockets : Joined(d)' \subseteq Joined(d)
<1>1. P!Disconnect(c)
  BY DisconnectSame
<1>2. \A i \in Torrents : swarms'.members[i] \subseteq swarms.members[i]
  BY <1>1, ServerAssumption, P!NobodyJoinsByClosing
<1> QED BY <1>2 DEF Joined

\* Nobody but the socket that announces joins one, and members are sockets.
LEMMA AnnounceJoins ==
  ASSUME P!IInv, NEW c \in Sockets, T!Announce(c, InfoHash[Owner(c)], "started")
  PROVE  \A i \in Torrents : /\ swarms'.members[i] \subseteq swarms.members[i] \cup {c}
                             /\ swarms.members[i] \subseteq Sockets
<1>1. InfoHash[Owner(c)] \in Torrents /\ "started" \in P!Events
  BY DEF Sockets, Owner, Torrents, P!Events
<1>2. P!Announce(c, InfoHash[Owner(c)], "started")
  BY AnnounceSame
<1>3. \A i \in Torrents : swarms'.members[i] \subseteq swarms.members[i] \cup {c}
  BY <1>1, <1>2, ServerAssumption, P!OnlyWhoAnnouncesJoins
<1>4. swarms.members \in [Torrents -> SUBSET P!Entries] /\ P!Entries = Sockets \cup {}
  BY ServerAssumption, P!InvFacts
<1> QED BY <1>3, <1>4

First(t) == <<t, 1>>
AllOffers == Trackers \X (1..Offers)

\* What a tracker announces, and what it is sent.
Offered(t) == Started([k \in 1..Offers |-> <<t, k>>])
Announces(t) == {Offered(t)} \cup {Answer(x) : x \in AllOffers}
Mail == {Response} \cup
        [type : {"offer", "answer"}, offer : AllOffers, from : {PeerId[u] : u \in Trackers}]

Has(q, m) == \E i \in 1..Len(q) : q[i] = m
NoOffer(q) == \A i \in 1..Len(q) : q[i].type # "offer"
Answered(q) == \E i \in 1..Len(q) : q[i].type = "response"
Led(q) == \A i \in 1..Len(q) : q[i].type = "offer" => \E j \in 1..i : q[j].type = "response"
OfferOf(q, u) == \E i \in 1..Len(q) : q[i].type = "offer" /\ Maker(q[i].offer) = u

\* A message at the end of a queue.
LEMMA AppendMail ==
  ASSUME NEW q \in Seq(Mail), NEW m \in Mail
  PROVE  /\ Append(q, m) \in Seq(Mail)
         /\ NoOffer(q) /\ m.type # "offer" => NoOffer(Append(q, m))
         /\ Answered(q) \/ m.type = "response" => Answered(Append(q, m))
         /\ Led(q) /\ (m.type = "offer" => Answered(q)) => Led(Append(q, m))
         /\ \A u : OfferOf(Append(q, m), u) => OfferOf(q, u) \/ (m.type = "offer" /\ Maker(m.offer) = u)
<1> DEFINE r == Append(q, m)
<1>1. /\ r \in Seq(Mail) /\ Len(r) = Len(q) + 1 /\ Len(q) \in Nat
      /\ \A i \in 1..Len(q) : r[i] = q[i]
      /\ r[Len(q) + 1] = m /\ \A i \in 1..Len(r) : i \in 1..Len(q) \/ i = Len(q) + 1
  OBVIOUS
<1> HIDE DEF r
<1>2. NoOffer(q) /\ m.type # "offer" => NoOffer(r)
  BY <1>1 DEF NoOffer
<1>3. Answered(q) \/ m.type = "response" => Answered(r)
  <2>1. Len(q) + 1 \in 1..Len(r) /\ \A i \in 1..Len(q) : i \in 1..Len(r)
    BY <1>1
  <2> QED BY <1>1, <2>1 DEF Answered
<1>4. Led(q) /\ (m.type = "offer" => Answered(q)) => Led(r)
  <2> SUFFICES ASSUME Led(q), m.type = "offer" => Answered(q), NEW i \in 1..Len(r), r[i].type = "offer"
               PROVE  \E j \in 1..i : r[j].type = "response"
    BY DEF Led
  <2>1. CASE i \in 1..Len(q)
    <3>1. PICK j \in 1..i : q[j].type = "response"
      BY <1>1, <2>1 DEF Led
    <3>2. j \in 1..Len(q)
      BY <1>1, <2>1
    <3> QED BY <1>1, <3>1, <3>2
  <2>2. CASE i = Len(q) + 1
    <3>1. PICK j \in 1..Len(q) : q[j].type = "response"
      BY <1>1, <2>2 DEF Answered
    <3>2. j \in 1..i
      BY <1>1, <2>2
    <3> QED BY <1>1, <3>1, <3>2
  <2> QED BY <1>1, <2>1, <2>2
<1>5. \A u : OfferOf(r, u) => OfferOf(q, u) \/ (m.type = "offer" /\ Maker(m.offer) = u)
  BY <1>1 DEF OfferOf
<1> QED BY <1>1, <1>2, <1>3, <1>4, <1>5 DEF r

\* A message taken from a queue.
LEMMA TailMail ==
  ASSUME NEW q \in Seq(Mail), q # <<>>
  PROVE  /\ Tail(q) \in Seq(Mail) /\ Head(q) \in Mail
         /\ NoOffer(q) => NoOffer(Tail(q)) /\ Head(q).type # "offer"
         /\ Led(q) => Head(q).type # "offer"
         /\ Led(q) /\ Head(q).type # "response" => Led(Tail(q))
         /\ Answered(q) /\ Head(q).type # "response" => Answered(Tail(q))
         /\ \A u : OfferOf(Tail(q), u) => OfferOf(q, u)
         /\ Head(q).type = "offer" => OfferOf(q, Maker(Head(q).offer))
<1> DEFINE r == Tail(q)
<1>1. /\ r \in Seq(Mail) /\ Len(r) = Len(q) - 1 /\ Len(q) \in Nat \ {0} /\ Head(q) = q[1] /\ q[1] \in Mail
      /\ \A i \in 1..Len(r) : r[i] = q[i + 1] /\ i + 1 \in 1..Len(q)
      /\ 1 \in 1..Len(q)
  OBVIOUS
<1>2. \A i \in 1..Len(q) : i # 1 => i - 1 \in 1..Len(r) /\ r[i - 1] = q[i]
  OBVIOUS
<1> HIDE DEF r
<1>3. NoOffer(q) => NoOffer(r) /\ q[1].type # "offer"
  BY <1>1 DEF NoOffer
<1>4. Led(q) => q[1].type # "offer"
  <2> SUFFICES ASSUME Led(q), q[1].type = "offer" PROVE FALSE
    OBVIOUS
  <2>1. PICK j \in 1..1 : q[j].type = "response"
    BY <1>1 DEF Led
  <2>2. j = 1
    OBVIOUS
  <2> QED BY <2>1, <2>2
<1>5. Led(q) /\ q[1].type # "response" => Led(r)
  <2> SUFFICES ASSUME Led(q), q[1].type # "response", NEW i \in 1..Len(r), r[i].type = "offer"
               PROVE  \E j \in 1..i : r[j].type = "response"
    BY DEF Led
  <2>1. PICK j \in 1..i + 1 : q[j].type = "response"
    BY <1>1 DEF Led
  <2>2. j # 1 /\ j \in 1..Len(q) /\ j - 1 \in 1..i
    BY <1>1, <2>1
  <2> QED BY <1>2, <2>1, <2>2
<1>6. Answered(q) /\ q[1].type # "response" => Answered(r)
  BY <1>2 DEF Answered
<1>7. \A u : OfferOf(r, u) => OfferOf(q, u)
  BY <1>1 DEF OfferOf
<1>8. q[1].type = "offer" => OfferOf(q, Maker(q[1].offer))
  BY <1>1 DEF OfferOf
<1> QED BY <1>1, <1>3, <1>4, <1>5, <1>6, <1>7, <1>8 DEF r

\* Where a message can be in a queue that grew or shrank.
LEMMA HasLemma ==
  ASSUME NEW S, NEW q \in Seq(S), NEW r \in Seq(S), NEW m
  PROVE  /\ Has(q \o r, m) => Has(q, m) \/ Has(r, m)
         /\ q # <<>> /\ Has(Tail(q), m) => Has(q, m)
         /\ \A x \in S : Has(Append(q, x), m) => Has(q, m) \/ x = m
         /\ ~Has(<<>>, m)
<1>1. Has(q \o r, m) => Has(q, m) \/ Has(r, m)
  <2>1. /\ Len(q) \in Nat /\ Len(r) \in Nat /\ Len(q \o r) = Len(q) + Len(r)
        /\ \A i \in 1..Len(q) : (q \o r)[i] = q[i]
        /\ \A i \in 1..Len(q \o r) : i \in 1..Len(q)
             \/ (i - Len(q) \in 1..Len(r) /\ (q \o r)[i] = r[i - Len(q)])
    OBVIOUS
  <2> QED BY <2>1 DEF Has
<1>2. q # <<>> /\ Has(Tail(q), m) => Has(q, m)
  <2> SUFFICES ASSUME q # <<>>, NEW i \in 1..Len(Tail(q)), Tail(q)[i] = m PROVE Has(q, m)
    BY DEF Has
  <2>1. q[i + 1] = m /\ i + 1 \in 1..Len(q)
    OBVIOUS
  <2> QED BY <2>1 DEF Has
<1>3. ASSUME NEW x \in S, Has(Append(q, x), m) PROVE Has(q, m) \/ x = m
  <2>1. PICK i \in 1..Len(Append(q, x)) : Append(q, x)[i] = m
    BY <1>3 DEF Has
  <2>2. (i \in 1..Len(q) /\ Append(q, x)[i] = q[i]) \/ Append(q, x)[i] = x
    OBVIOUS
  <2> QED BY <2>1, <2>2 DEF Has
<1>4. ~Has(<<>>, m)
  BY DEF Has
<1> QED BY <1>1, <1>2, <1>3, <1>4

\* What is left pending was pending.
LEMMA UnsettledLemma ==
  ASSUME NEW S, NEW q \in Seq(S)
  PROVE  Unsettled(q) \in Seq(S)
<1>1. PICK n \in Nat : n = Len(q) /\ DOMAIN q = 1..n /\ \A i \in 1..n : q[i] \in S
  OBVIOUS
<1>2. PICK V : V = Seq(S)
  OBVIOUS
<1>3. PICK F : F = [p \in V \X S |-> IF p[2].event = "answer" THEN p[1] ELSE Append(p[1], p[2])]
  OBVIOUS
<1>4. ASSUME NEW v \in V, NEW m \in S
      PROVE  /\ F[<<v, m>>] = IF m.event = "answer" THEN v ELSE Append(v, m)
             /\ F[<<v, m>>] \in V
  BY <1>2, <1>3
<1>5. PICK g \in [SUBSET (1..n) -> V] : Folds(g, F, <<>>, q, n)
  <2>1. F \in [V \X S -> V]
    BY <1>3, <1>4
  <2>2. <<>> \in V
    BY <1>2
  <2> QED BY <1>1, <2>1, <2>2, FoldExists
<1> DEFINE Walks(w) == w = [X \in SUBSET (1..n) |->
                              IF X = {} THEN <<>>
                              ELSE IF q[Max(X)].event = "answer" THEN w[X \ {Max(X)}]
                              ELSE Append(w[X \ {Max(X)}], q[Max(X)])]
<1>6. Unsettled(q) = (CHOOSE w : Walks(w))[1..n]
  BY <1>1 DEF Unsettled, FoldLeft, MapThenFoldSet
<1>7. Walks(g)
  <2>1. ASSUME NEW X \in SUBSET (1..n)
        PROVE  g[X] = IF X = {} THEN <<>>
                      ELSE IF q[Max(X)].event = "answer" THEN g[X \ {Max(X)}]
                      ELSE Append(g[X \ {Max(X)}], q[Max(X)])
    <3>1. CASE X = {}
      BY <1>5, <3>1 DEF Folds
    <3>2. CASE X # {}
      <4>1. Max(X) \in X
        BY <3>2, MaxLemma
      <4>2. g[X \ {Max(X)}] \in V /\ q[Max(X)] \in S
        BY <1>1, <4>1
      <4>3. g[X] = F[<<g[X \ {Max(X)}], q[Max(X)]>>]
        BY <1>5, <3>2 DEF Folds
      <4> QED BY <1>4, <3>2, <4>2, <4>3
    <3> QED BY <3>1, <3>2
  <2>2. g = [X \in SUBSET (1..n) |-> g[X]]
    OBVIOUS
  <2> QED BY <2>1, <2>2
<1>8. PICK w : w = CHOOSE v : Walks(v)
  OBVIOUS
<1>9. Walks(w)
  <2> HIDE DEF Walks
  <2> QED BY <1>7, <1>8
<1>10. w[{}] = <<>> /\ \A k \in 1..n : w[1..k] = IF q[k].event = "answer" THEN w[1..(k - 1)]
                                                 ELSE Append(w[1..(k - 1)], q[k])
  <2>1. ASSUME NEW k \in 1..n
        PROVE  w[1..k] = IF q[k].event = "answer" THEN w[1..(k - 1)] ELSE Append(w[1..(k - 1)], q[k])
    <3>1. 1..k \in SUBSET (1..n) /\ 1..k # {} /\ Max(1..k) = k /\ (1..k) \ {k} = 1..(k - 1)
      BY PrefixLemma
    <3> QED BY <1>9, <3>1
  <2> QED BY <1>9, <2>1
<1> HIDE DEF Walks
<1>11. PICK N : N = {k \in Nat : k <= n => w[1..k] \in Seq(S)}
  OBVIOUS
<1>12. 0 \in N
  <2>1. 1..0 = {}
    OBVIOUS
  <2>2. w[1..0] = <<>>
    BY <1>10, <2>1
  <2>3. w[1..0] \in Seq(S)
    BY <2>2
  <2> QED BY <1>11, <2>3
<1>13. ASSUME NEW k \in Nat, k \in N PROVE k + 1 \in N
  <2>1. CASE k + 1 <= n
    <3>1. k + 1 \in 1..n /\ (k + 1) - 1 = k /\ k <= n
      BY <2>1
    <3>2. w[1..k] \in Seq(S) /\ q[k + 1] \in S
      BY <1>1, <1>11, <1>13, <3>1
    <3>3. w[1..k + 1] = IF q[k + 1].event = "answer" THEN w[1..k] ELSE Append(w[1..k], q[k + 1])
      BY <1>10, <3>1
    <3>4. w[1..k + 1] \in Seq(S)
      BY <3>2, <3>3
    <3> QED BY <1>11, <3>4
  <2>2. CASE ~(k + 1 <= n)
    BY <1>11, <2>2
  <2> QED BY <2>1, <2>2
<1>14. Nat \subseteq N
  BY <1>12, <1>13, Induction
<1> QED BY <1>6, <1>8, <1>11, <1>14
-----------------------------------------------------------------------------
Fresh(st) == st \in {"none", "connecting"}

\* t's first socket, before the server has read the offers made on it: it is in no swarm.
Early(t, o, s, st, out, in, joined) ==
  /\ s.taken = {} /\ s.answering = {} /\ NoOffer(in) /\ joined = {}
  /\ \/ ~Fresh(st) /\ out = <<Offered(t)>>
     \/ Fresh(st) /\ out = <<>> /\ o.pending \in {<<>>, <<Offered(t)>>}

\* Afterwards, or when they are lost: while they are pending on an open socket, a response
\* is ahead of every offer, and nothing is being answered.
Late(t, o, s, st, sk, out, in, joined) ==
  /\ ~Fresh(st) /\ ~Has(out, Offered(t))
  /\ st = "open" /\ Has(o.pending, Offered(t)) =>
       s.answering = {} /\ Led(in) /\ (sk = "open" /\ joined # {} => Answered(in))

SessionFields == {"started", "pendingOffers", "peers", "answering", "taken"}

\* The object o of tracker t, what its swarm knows of offers, and its first socket: the
\* state of both ends, the messages in both directions, the swarms it is in.
Side(t, o, s, st, sk, out, in, joined) ==
  /\ o.pending \in Seq(Announces(t)) /\ DOMAIN s = SessionFields
  /\ s.taken \subseteq AllOffers /\ s.answering \subseteq AllOffers
  /\ s.started <=> o.opened # 0
  /\ o.opened = 0 => o.timers = 0 /\ o.pending = <<>>
  /\ o.opened <= 1 => Early(t, o, s, st, out, in, joined) \/ Late(t, o, s, st, sk, out, in, joined)
SideOf(t) == Side(t, client[t], session[t], cs[First(t)], sock[First(t)],
                  toServer[First(t)], toClient[First(t)], Joined(First(t)))

\* t has taken an offer of u, or one is on its way.
Takes(t, u) ==
  (\E x \in session[t].taken : Maker(x) = u) \/ OfferOf(toClient[First(t)], u)

\* A client sends announces of its own; the server sends responses and what it relays.
Queues ==
  /\ toServer = [c \in Sockets |-> toServer[c]]
  /\ \A c \in Sockets : toServer[c] \in Seq(Announces(Owner(c)))
  /\ toClient \in [Sockets -> Seq(Mail)]
\* The server has no end of a socket that is connecting.
FreshEnds == \A c \in Sockets : Fresh(cs[c]) => sock[c] = "none"
\* On first sockets two clients do not take offers of each other: the server passes offers on
\* to those in the swarm before, so only the later one's can be on their way.
Crossing == \A t, u \in Trackers :
  client[t].opened <= 1 /\ client[u].opened <= 1 => ~(Takes(t, u) /\ Takes(u, t))

\* The inductive invariant of offers, beside SocketInv and the server's own.
OfferInv ==
  /\ Queues /\ FreshEnds /\ session = [t \in Trackers |-> session[t]]
  /\ \A t \in Trackers : SideOf(t)
  /\ Crossing

\* The first socket of a tracker is the only one until it opens another.
LEMMA FirstLemma ==
  ASSUME SocketInv, NEW t \in Trackers
  PROVE  /\ First(t) \in Sockets /\ Owner(First(t)) = t
         /\ client[t].opened \in Nat
         /\ \A c \in Sockets : Owner(c) = t /\ cs[c] # "none" /\ client[t].opened <= 1 => c = First(t)
         /\ client[t].opened = 0 => cs[First(t)] = "none"
<1>1. Fits(t, client[t], cs, sock, losses)
  BY DEF SocketInv
<1>2. 1 \in 1..MaxSockets /\ MaxSockets \in Nat
  BY SignallingAssumption
<1>3. First(t) \in Sockets /\ Owner(First(t)) = t
  BY <1>2 DEF First, Sockets, Owner
<1>4. client[t].opened \in Nat /\ \A k \in client[t].opened + 1..MaxSockets : cs[<<t, k>>] = "none"
  BY <1>1, <1>2 DEF Fits
<1>5. ASSUME NEW c \in Sockets, Owner(c) = t, cs[c] # "none", client[t].opened <= 1
      PROVE  c = First(t)
  <2>1. PICK k \in 1..MaxSockets : c = <<t, k>>
    BY <1>5 DEF Sockets, Owner
  <2>2. ~(k \in client[t].opened + 1..MaxSockets)
    BY <1>4, <1>5, <2>1
  <2>3. k = 1
    BY <1>2, <1>4, <1>5, <2>2
  <2> QED BY <2>1, <2>3 DEF First
<1>6. client[t].opened = 0 => cs[First(t)] = "none"
  BY <1>2, <1>4 DEF First
<1> QED BY <1>3, <1>4, <1>5, <1>6

\* Leaving a swarm does no harm.
LEMMA SideLeft ==
  ASSUME NEW t, NEW o, NEW s, NEW st, NEW sk, NEW out, NEW in, NEW joined,
         Side(t, o, s, st, sk, out, in, joined), NEW fewer, fewer \subseteq joined
  PROVE  Side(t, o, s, st, sk, out, in, fewer)
<1>1. Early(t, o, s, st, out, in, joined) => Early(t, o, s, st, out, in, fewer)
  BY DEF Early
<1>2. Late(t, o, s, st, sk, out, in, joined) => Late(t, o, s, st, sk, out, in, fewer)
  BY DEF Late
<1> QED BY <1>1, <1>2 DEF Side

\* What a step of tracker t leaves alone.
OnlyOf(t) ==
  /\ session' = [u \in Trackers |-> session'[u]]
  /\ \A u \in Trackers : u # t => client'[u] = client[u] /\ session'[u] = session[u]
  /\ \A d \in Sockets : Owner(d) # t => /\ cs'[d] = cs[d] /\ sock'[d] = sock[d]
                                        /\ toServer'[d] = toServer[d] /\ toClient'[d] = toClient[d]
  /\ \A d \in Sockets : Joined(d)' \subseteq Joined(d)

\* A step of tracker t that brings it no offers.
LEMMA StepOf ==
  ASSUME OfferInv, SocketInv, NEW t \in Trackers, OnlyOf(t), Queues', SideOf(t)',
         \A d \in Sockets : Owner(d) = t /\ Fresh(cs'[d]) => sock'[d] = "none",
         client'[t].opened <= 1 =>
           client[t].opened <= 1 /\ \A u \in Trackers : Takes(t, u)' => Takes(t, u)
  PROVE  OfferInv'
<1>1. FreshEnds'
  BY DEF OfferInv, FreshEnds, OnlyOf
<1>2. ASSUME NEW u \in Trackers, u # t
      PROVE  SideOf(u)' /\ client'[u] = client[u] /\ \A v : Takes(u, v)' => Takes(u, v)
  <2>1. First(u) \in Sockets /\ Owner(First(u)) = u
    BY FirstLemma
  <2>2. /\ client'[u] = client[u] /\ session'[u] = session[u]
        /\ cs'[First(u)] = cs[First(u)] /\ sock'[First(u)] = sock[First(u)]
        /\ toServer'[First(u)] = toServer[First(u)] /\ toClient'[First(u)] = toClient[First(u)]
        /\ Joined(First(u))' \subseteq Joined(First(u))
    BY <1>2, <2>1 DEF OnlyOf
  <2>3. SideOf(u)
    BY DEF OfferInv
  <2>4. SideOf(u)'
    <3>1. Side(u, client[u], session[u], cs[First(u)], sock[First(u)],
               toServer[First(u)], toClient[First(u)], Joined(First(u))')
      BY <2>2, <2>3, SideLeft DEF SideOf
    <3> QED BY <2>2, <3>1 DEF SideOf, First
  <2> QED BY <2>2, <2>4 DEF Takes, First
<1>3. Crossing'
  <2> SUFFICES ASSUME NEW u \in Trackers, NEW v \in Trackers,
                      client'[u].opened <= 1, client'[v].opened <= 1, Takes(u, v)', Takes(v, u)'
               PROVE  FALSE
    BY DEF Crossing
  <2>1. client[u].opened <= 1 /\ Takes(u, v)
    BY <1>2
  <2>2. client[v].opened <= 1 /\ Takes(v, u)
    BY <1>2
  <2> QED BY <2>1, <2>2 DEF OfferInv, Crossing
<1> QED BY <1>1, <1>2, <1>3 DEF OfferInv, OnlyOf
-----------------------------------------------------------------------------
\* Everything else of the object is as it was.
Pends(o, o2, pending) == SameSockets(o, o2) /\ o2.pending = pending

\* What _flushAnnounces sends, and what stays pending.
LEMMA FlushSends ==
  ASSUME NEW w, NEW o, NEW st, Shaped(w, o, st)
  PROVE  LET v == FlushAll(w) IN
         \/ (o.ws = None \/ st[o.ws] # "open") /\ v = w
         \/ /\ o.ws # None /\ st[o.ws] = "open"
            /\ v.cs = st /\ Pends(o, v.obj, Unsettled(o.pending))
            /\ v.sent = [w.sent EXCEPT ![o.ws] = @ \o o.pending]
<1>1. CASE o.ws = None \/ st[o.ws] # "open"
  BY <1>1 DEF Shaped, FlushAll
<1>2. CASE ~(o.ws = None \/ st[o.ws] # "open")
  <2>1. PICK p : p = Unsettled(o.pending)
    OBVIOUS
  <2>2. PICK v : v = FlushAll(w)
    OBVIOUS
  <2>3. v = [w EXCEPT !.sent[o.ws] = @ \o o.pending, !.obj.pending = p]
    BY <1>2, <2>1, <2>2 DEF Shaped, FlushAll
  <2>4. PICK b : b = [w.sent EXCEPT ![o.ws] = @ \o o.pending]
    OBVIOUS
  <2>5. v.cs = st /\ v.obj = [o EXCEPT !.pending = p] /\ v.sent = b
    BY <2>3, <2>4 DEF Shaped, TrackerFields
  <2>6. Pends(o, v.obj, p)
    BY <2>5 DEF Shaped, SameSockets, TrackerFields, Pends
  <2> QED BY <1>2, <2>1, <2>2, <2>4, <2>5, <2>6
<1> QED BY <1>1, <1>2

\* _openSocket sends nothing.
LEMMA ConnectSends ==
  ASSUME NEW t, NEW w, NEW o, NEW st, Shaped(w, o, st), ~o.destroyed
  PROVE  LET v == ConnectWs(w, t) IN
         /\ Opens(t, o, v.obj) /\ v.obj.pending = o.pending /\ v.obj.timers = o.timers
         /\ v.cs = [st EXCEPT ![<<t, o.opened + 1>>] = "connecting"] /\ v.sent = w.sent
<1>1. PICK v : v = ConnectWs(w, t)
  OBVIOUS
<1>2. v = [w EXCEPT !.obj.ws = <<t, o.opened + 1>>, !.obj.opened = o.opened + 1,
                    !.cs[<<t, o.opened + 1>>] = "connecting"]
  BY <1>1 DEF Shaped, ConnectWs
<1>3. v.obj = [o EXCEPT !.ws = <<t, o.opened + 1>>, !.opened = o.opened + 1] /\ v.sent = w.sent
  BY <1>2 DEF Shaped, TrackerFields
<1>4. v.obj.pending = o.pending
  BY <1>3 DEF Shaped, TrackerFields
<1> QED BY <1>1, <1>3, <1>4, ConnectShape

\* What becomes of o, its sockets and what was sent when announce puts p to be sent.
Sends(t, o, st, sent, p, v) ==
  \/ o.destroyed /\ v.obj = o /\ v.cs = st /\ v.sent = sent
  \/ /\ ~o.destroyed /\ Idle(o, st) /\ Opens(t, o, v.obj) /\ v.obj.timers = o.timers
     /\ v.obj.pending = p /\ v.sent = sent
     /\ v.cs = [st EXCEPT ![<<t, o.opened + 1>>] = "connecting"]
  \/ /\ ~o.destroyed /\ ~Idle(o, st) /\ st[o.ws] # "open"
     /\ Pends(o, v.obj, p) /\ v.cs = st /\ v.sent = sent
  \/ /\ ~o.destroyed /\ ~Idle(o, st) /\ st[o.ws] = "open"
     /\ Pends(o, v.obj, Unsettled(p)) /\ v.cs = st
     /\ v.sent = [sent EXCEPT ![o.ws] = @ \o p]

\* What announce sends, keeps and opens.
LEMMA AnnounceSends ==
  ASSUME NEW t, NEW w, NEW o, NEW st, NEW m, Shaped(w, o, st)
  PROVE  Sends(t, o, st, w.sent, Append(o.pending, m), AnnounceWs(w, t, m))
<1>1. CASE o.destroyed
  <2>1. AnnounceWs(w, t, m) = w
    BY <1>1 DEF AnnounceWs, Shaped
  <2> QED BY <1>1, <2>1 DEF Shaped, Sends
<1>2. CASE ~o.destroyed
  <2>1. PICK v : v = [w EXCEPT !.obj.pending = Append(@, m)]
    OBVIOUS
  <2>2. PICK q : q = Append(o.pending, m)
    OBVIOUS
  <2>3. PICK p : p = [o EXCEPT !.pending = q]
    OBVIOUS
  <2>4. /\ v.obj = p /\ v.cs = st /\ v.sent = w.sent /\ DOMAIN v = {"obj", "cs", "sent"}
        /\ DOMAIN p = TrackerFields /\ p.hasConnected = o.hasConnected /\ p.pending = q
        /\ p.ws = o.ws /\ p.timers = o.timers /\ p.opened = o.opened /\ p.destroyed = o.destroyed
    BY <2>1, <2>2, <2>3 DEF Shaped, TrackerFields
  <2>5. Shaped(v, p, st) /\ Pends(o, p, q)
    BY <2>4 DEF Shaped, Pends, SameSockets
  <2>6. CASE Idle(o, st)
    <3>1. AnnounceWs(w, t, m) = ConnectWs(v, t)
      BY <1>2, <2>1, <2>4, <2>6 DEF AnnounceWs, Idle, Shaped
    <3>2. PICK x : x = ConnectWs(v, t)
      OBVIOUS
    <3>3. /\ Opens(t, p, x.obj) /\ x.obj.pending = p.pending /\ x.obj.timers = p.timers
          /\ x.cs = [st EXCEPT ![<<t, p.opened + 1>>] = "connecting"] /\ x.sent = v.sent
      BY <1>2, <2>4, <2>5, <3>2, ConnectSends
    <3>4. Opens(t, o, x.obj)
      BY <2>4, <3>3 DEF Opens
    <3>5. Sends(t, o, st, w.sent, q, x)
      BY <1>2, <2>4, <2>6, <3>3, <3>4 DEF Sends
    <3> QED BY <2>2, <3>1, <3>2, <3>5
  <2>7. CASE ~Idle(o, st)
    <3>1. AnnounceWs(w, t, m) = FlushAll(v)
      BY <1>2, <2>1, <2>4, <2>7 DEF AnnounceWs, Idle, Shaped
    <3>2. PICK x : x = FlushAll(v)
      OBVIOUS
    <3>3. o.ws # None
      BY <2>7 DEF Idle
    <3>4. \/ st[o.ws] # "open" /\ x = v
          \/ /\ st[o.ws] = "open" /\ x.cs = st /\ Pends(p, x.obj, Unsettled(q))
             /\ x.sent = [w.sent EXCEPT ![o.ws] = @ \o q]
      <4>1. \/ (p.ws = None \/ st[p.ws] # "open") /\ x = v
            \/ /\ p.ws # None /\ st[p.ws] = "open"
               /\ x.cs = st /\ Pends(p, x.obj, Unsettled(p.pending))
               /\ x.sent = [v.sent EXCEPT ![p.ws] = @ \o p.pending]
        <5>1. Shaped(v, p, st)
          BY <2>5
        <5> QED BY <3>2, <5>1, FlushSends
      <4> QED BY <2>4, <3>3, <4>1
    <3>5. CASE st[o.ws] # "open" /\ x = v
      <4>1. Sends(t, o, st, w.sent, q, x)
        BY <1>2, <2>4, <2>5, <2>7, <3>5 DEF Sends
      <4> QED BY <2>2, <3>1, <3>2, <4>1
    <3>6. CASE /\ st[o.ws] = "open" /\ x.cs = st /\ Pends(p, x.obj, Unsettled(q))
               /\ x.sent = [w.sent EXCEPT ![o.ws] = @ \o q]
      <4>1. Pends(o, x.obj, Unsettled(q))
        BY <2>4, <3>6 DEF Pends, SameSockets
      <4>2. Sends(t, o, st, w.sent, q, x)
        BY <1>2, <2>7, <3>6, <4>1 DEF Sends
      <4> QED BY <2>2, <3>1, <3>2, <4>2
    <3> QED BY <3>4, <3>5, <3>6
  <2> QED BY <2>6, <2>7
<1> QED BY <1>1, <1>2
-----------------------------------------------------------------------------
\* A handler of a tracker changes its object, the sockets and what they carry.
LEMMA BecomesLemma ==
  ASSUME SocketInv, NEW t \in Trackers, NEW w, TrackerBecomes(t, w)
  PROVE  /\ client'[t] = w.obj /\ cs' = w.cs /\ toServer' = w.sent
         /\ \A u \in Trackers : u # t => client'[u] = client[u]
BY DEF SocketInv, TrackerBecomes

\* More messages of t in its queues.
LEMMA QueuesGrow ==
  ASSUME Queues, NEW t \in Trackers, NEW c \in Sockets, Owner(c) = t, NEW q \in Seq(Announces(t)),
         toServer' = [toServer EXCEPT ![c] = @ \o q], UNCHANGED toClient
  PROVE  Queues' /\ toServer'[c] = toServer[c] \o q /\ \A d \in Sockets : d # c => toServer'[d] = toServer[d]
<1>1. toServer[c] \in Seq(Announces(t))
  BY DEF Queues
<1>2. PICK r : r = toServer[c] \o q
  OBVIOUS
<1>3. r \in Seq(Announces(t))
  BY <1>1, <1>2
<1>4. toServer' = [toServer EXCEPT ![c] = r]
  BY <1>2
<1>5. /\ toServer' = [d \in Sockets |-> toServer'[d]]
      /\ toServer'[c] = r /\ \A d \in Sockets : d # c => toServer'[d] = toServer[d]
  BY <1>4 DEF Queues
<1>6. \A d \in Sockets : toServer'[d] \in Seq(Announces(Owner(d)))
  BY <1>3, <1>5 DEF Queues
<1> QED BY <1>2, <1>5, <1>6 DEF Queues

\* What an announce does to the socket it may open, and to the one that may carry it.
Announcing(t, p) ==
  \/ /\ client[t].destroyed /\ client'[t] = client[t]
     /\ cs' = cs /\ toServer' = toServer
  \/ /\ ~client[t].destroyed /\ client'[t].opened = client[t].opened + 1
     /\ client'[t].timers = client[t].timers /\ client'[t].pending = p
     /\ <<t, client[t].opened + 1>> \in Sockets
     /\ cs' = [cs EXCEPT ![<<t, client[t].opened + 1>>] = "connecting"] /\ toServer' = toServer
  \/ /\ ~client[t].destroyed /\ ~Idle(client[t], cs) /\ cs[client[t].ws] # "open"
     /\ client'[t].opened = client[t].opened /\ client'[t].timers = client[t].timers
     /\ client'[t].pending = p
     /\ cs' = cs /\ toServer' = toServer
  \/ /\ ~client[t].destroyed /\ ~Idle(client[t], cs) /\ cs[client[t].ws] = "open"
     /\ client'[t].opened = client[t].opened /\ client'[t].timers = client[t].timers
     /\ client'[t].pending = Unsettled(p)
     /\ cs' = cs /\ toServer' = [toServer EXCEPT ![client[t].ws] = @ \o p]

\* An announce of t, as the first thing its client does or after others, keeps OfferInv.
LEMMA AnnouncingLemma ==
  ASSUME SocketInv, NEW t \in Trackers, NEW m, MayConnect(World(t)),
         TrackerBecomes(t, AnnounceWs(World(t), t, m))
  PROVE  Announcing(t, Append(client[t].pending, m))
<1>1. PICK o : o = client[t]
  OBVIOUS
<1>2. PICK v : v = AnnounceWs(World(t), t, m)
  OBVIOUS
<1>3. Shaped(World(t), o, cs) /\ World(t).sent = toServer /\ World(t).obj = o /\ World(t).cs = cs
  <2>1. Shaped(World(t), client[t], cs)
    BY WorldShaped
  <2> QED BY <1>1, <2>1 DEF World
<1>4. PICK p : p = Append(o.pending, m)
  OBVIOUS
<1>5. client'[t] = v.obj /\ cs' = v.cs /\ toServer' = v.sent
  BY <1>2, BecomesLemma
<1>6. Sends(t, o, cs, toServer, p, v)
  BY <1>2, <1>3, <1>4, AnnounceSends
<1>7. ASSUME ~o.destroyed PROVE <<t, o.opened + 1>> \in Sockets
  <2>1. o.opened \in Nat /\ o.opened < MaxSockets
    <3>1. o.opened \in Nat
      BY <1>1, FirstLemma
    <3> QED BY <1>3, <1>7, <3>1 DEF MayConnect
  <2> QED BY <2>1, SignallingAssumption DEF Sockets
<1>8. Announcing(t, p)
  BY <1>1, <1>5, <1>6, <1>7 DEF Sends, Announcing, Opens, Pends, SameSockets
<1> QED BY <1>1, <1>4, <1>8

\* A swarm starts, and its offers wait for the first socket.
LEMMA StartOffers ==
  ASSUME SocketInv, OfferInv, NEW t \in Trackers, Start(t)
  PROVE  OfferInv'
<1>1. /\ ~session[t].started /\ ~client[t].destroyed
      /\ Announcing(t, Append(client[t].pending, Offered(t)))
      /\ UNCHANGED <<toClient, server>>
  BY AnnouncingLemma DEF Start, Offered
<1>2. SideOf(t) /\ First(t) \in Sockets /\ Owner(First(t)) = t /\ client[t].opened \in Nat
  BY FirstLemma DEF OfferInv
<1>3. client[t].opened = 0 /\ client[t].timers = 0 /\ client[t].pending = <<>>
  BY <1>1, <1>2 DEF SideOf, Side
<1>4. cs[First(t)] = "none" /\ sock[First(t)] = "none"
  BY <1>2, <1>3, FirstLemma DEF OfferInv, FreshEnds, Fresh
<1>5. Idle(client[t], cs)
  <2>1. client[t].ws # None => client[t].ws \in Sockets /\ Owner(client[t].ws) = t /\ cs[client[t].ws] # "none"
    BY DEF SocketInv, Fits, SocketsOf
  <2> QED BY <1>3, <1>4, <2>1, FirstLemma DEF Idle
<1>6. PICK q : q = <<Offered(t)>>
  OBVIOUS
<1>7. Append(client[t].pending, Offered(t)) = q
  BY <1>3, <1>6
<1>8. /\ client'[t].opened = 1 /\ client'[t].timers = 0 /\ client'[t].pending = q
      /\ cs' = [cs EXCEPT ![First(t)] = "connecting"] /\ toServer' = toServer
  BY <1>1, <1>3, <1>5, <1>7 DEF Announcing, First
<1>9. /\ session' = [u \in Trackers |-> session'[u]]
      /\ \A u \in Trackers : u # t => session'[u] = session[u]
      /\ DOMAIN session[t] = SessionFields
      /\ session'[t].started /\ DOMAIN session'[t] = SessionFields
      /\ session'[t].taken = session[t].taken /\ session'[t].answering = session[t].answering
  <2>1. DOMAIN session[t] = SessionFields
    BY <1>2 DEF SideOf, Side
  <2>2. PICK R : session' = [session EXCEPT ![t].started = TRUE, ![t].pendingOffers = R]
    BY DEF Start
  <2> QED BY <2>1, <2>2 DEF OfferInv, SessionFields
<1>10. /\ cs'[First(t)] = "connecting" /\ \A d \in Sockets : d # First(t) => cs'[d] = cs[d]
  BY <1>2, <1>8 DEF SocketInv
<1>11. /\ \A u \in Trackers : u # t => client'[u] = client[u]
       /\ \A d \in Sockets : Joined(d)' = Joined(d) /\ sock'[d] = sock[d]
  BY <1>1, BecomesLemma DEF Start, server, Joined
<1>12. OnlyOf(t)
  BY <1>1, <1>2, <1>8, <1>9, <1>10, <1>11 DEF OnlyOf
<1>13. Queues'
  BY <1>1, <1>8 DEF OfferInv, Queues
<1>14. Early(t, client[t], session[t], "none", toServer[First(t)], toClient[First(t)], Joined(First(t)))
  BY <1>2, <1>3, <1>4 DEF SideOf, Side, Late, Fresh
<1>15. Early(t, client'[t], session'[t], "connecting", toServer[First(t)], toClient[First(t)], Joined(First(t)))
  BY <1>6, <1>8, <1>9, <1>14 DEF Early, Fresh
<1>16. q \in Seq(Announces(t))
  BY <1>6 DEF Announces
<1>17. Side(t, client'[t], session'[t], "connecting", sock[First(t)], toServer[First(t)], toClient[First(t)],
            Joined(First(t)))
  BY <1>2, <1>8, <1>9, <1>15, <1>16 DEF SideOf, Side
<1>18. SideOf(t)'
  BY <1>1, <1>2, <1>8, <1>10, <1>11, <1>17 DEF SideOf, First
<1>19. \A d \in Sockets : Owner(d) = t /\ Fresh(cs'[d]) => sock'[d] = "none"
  BY <1>4, <1>10, <1>11 DEF OfferInv, FreshEnds
<1>20. client[t].opened <= 1 /\ \A u \in Trackers : Takes(t, u)' => Takes(t, u)
  BY <1>1, <1>3, <1>9 DEF Takes, First
<1> QED BY <1>12, <1>13, <1>18, <1>19, <1>20, StepOf

\* A message that is not pending does not stay so.
LEMMA UnsettledHas ==
  ASSUME NEW S, NEW q \in Seq(S), NEW m, Has(Unsettled(q), m)
  PROVE  Has(q, m)
<1> SUFFICES ASSUME ~Has(q, m) PROVE FALSE
  OBVIOUS
<1>1. q \in Seq(S \ {m})
  <2>1. \A i \in 1..Len(q) : q[i] \in S \ {m}
    BY DEF Has
  <2> QED BY <2>1
<1>2. PICK r : r = Unsettled(q)
  OBVIOUS
<1>3. r \in Seq(S \ {m})
  BY <1>1, <1>2, UnsettledLemma
<1>4. \A i \in 1..Len(r) : r[i] # m
  BY <1>3
<1> QED BY <1>2, <1>4 DEF Has

\* Nobody has connected to the server from a socket about to be opened.
LEMMA OpensFresh ==
  ASSUME SocketInv, FreshEnds, NEW t \in Trackers, <<t, client[t].opened + 1>> \in Sockets,
         cs' = [cs EXCEPT ![<<t, client[t].opened + 1>>] = "connecting"], UNCHANGED sock
  PROVE  \A d \in Sockets : /\ Fresh(cs'[d]) => sock'[d] = "none"
                            /\ Owner(d) # t => cs'[d] = cs[d]
<1>1. PICK n \in Nat : n = client[t].opened + 1
  BY FirstLemma
<1>2. PICK c \in Sockets : c = <<t, n>>
  BY <1>1
<1>3. n \in client[t].opened + 1..MaxSockets /\ Owner(c) = t
  BY <1>1, <1>2, SignallingAssumption DEF Sockets, Owner
<1>4. cs[c] = "none"
  BY <1>2, <1>3 DEF SocketInv, Fits
<1>5. cs'[c] = "connecting" /\ \A d \in Sockets : d # c => cs'[d] = cs[d]
  BY <1>1, <1>2 DEF SocketInv
<1> QED BY <1>3, <1>4, <1>5 DEF FreshEnds, Fresh

\* Fewer answers to give, and no offer of t's that was not pending.
LEMMA LateKept ==
  ASSUME NEW t, NEW o, NEW s, NEW st, NEW sk, NEW out, NEW in, NEW joined, NEW o2, NEW s2,
         Late(t, o, s, st, sk, out, in, joined), s2.answering \subseteq s.answering,
         Has(o2.pending, Offered(t)) => Has(o.pending, Offered(t))
  PROVE  Late(t, o2, s2, st, sk, out, in, joined)
BY DEF Late

\* Who answers an offer has announced before.
LEMMA AnswersLate ==
  ASSUME SocketInv, NEW t \in Trackers, SideOf(t), session[t].answering # {}
  PROVE  /\ client[t].opened # 0
         /\ client[t].opened <= 1 =>
              Late(t, client[t], session[t], cs[First(t)], sock[First(t)], toServer[First(t)],
                   toClient[First(t)], Joined(First(t)))
<1>1. client[t].opened <= 1 =>
        Late(t, client[t], session[t], cs[First(t)], sock[First(t)], toServer[First(t)],
             toClient[First(t)], Joined(First(t)))
  BY DEF SideOf, Side, Early
<1>2. client[t].opened = 0 => cs[First(t)] = "none" /\ client[t].opened <= 1
  BY FirstLemma
<1> QED BY <1>1, <1>2 DEF Late, Fresh

\* Side of t after a step that leaves the server, its messages and what the swarm took alone.
LEMMA SideAfter ==
  ASSUME SocketInv, NEW t \in Trackers, SideOf(t), UNCHANGED <<toClient, server>>,
         client'[t].pending \in Seq(Announces(t)), DOMAIN session'[t] = SessionFields,
         session'[t].taken = session[t].taken, session'[t].answering \subseteq session[t].answering,
         session'[t].started <=> client'[t].opened # 0,
         client'[t].opened = 0 => client'[t].timers = 0 /\ client'[t].pending = <<>>,
         client'[t].opened <= 1 =>
           \/ Early(t, client'[t], session'[t], cs'[First(t)], toServer'[First(t)],
                    toClient[First(t)], Joined(First(t)))
           \/ Late(t, client'[t], session'[t], cs'[First(t)], sock[First(t)], toServer'[First(t)],
                   toClient[First(t)], Joined(First(t)))
  PROVE  SideOf(t)'
<1>1. session'[t].taken \subseteq AllOffers /\ session'[t].answering \subseteq AllOffers
  BY DEF SideOf, Side
<1>2. Side(t, client'[t], session'[t], cs'[First(t)], sock[First(t)], toServer'[First(t)],
           toClient[First(t)], Joined(First(t)))
  BY <1>1 DEF Side
<1>3. Joined(First(t))' = Joined(First(t)) /\ sock' = sock /\ toClient' = toClient
  BY DEF server, Joined, First
<1> QED BY <1>2, <1>3 DEF SideOf, First

\* An answer is announced: nothing is pending of the offers that were sent before.
LEMMA SendAnswerOffers ==
  ASSUME SocketInv, OfferInv, NEW t \in Trackers, NEW offer, SendAnswer(t, offer)
  PROVE  OfferInv'
<1> DEFINE c == First(t)
<1>1. PICK p : p = Append(client[t].pending, Answer(offer))
  OBVIOUS
<1>2. /\ offer \in session[t].answering /\ UNCHANGED <<toClient, server>>
      /\ session' = [session EXCEPT ![t].answering = @ \ {offer}]
  BY DEF SendAnswer
<1>3. Announcing(t, p)
  BY <1>1, AnnouncingLemma DEF SendAnswer
<1>4. SideOf(t) /\ c \in Sockets /\ Owner(c) = t /\ client[t].opened \in Nat
  BY FirstLemma DEF OfferInv
<1>5. /\ client[t].pending \in Seq(Announces(t)) /\ DOMAIN session[t] = SessionFields
      /\ offer \in AllOffers /\ client[t].opened # 0
      /\ session[t].started
  BY <1>2, <1>4, AnswersLate DEF SideOf, Side
<1>6. /\ session' = [u \in Trackers |-> session'[u]]
      /\ \A u \in Trackers : u # t => session'[u] = session[u]
      /\ session'[t].started = session[t].started /\ DOMAIN session'[t] = SessionFields
      /\ session'[t].taken = session[t].taken /\ session'[t].answering = session[t].answering \ {offer}
  BY <1>2, <1>5 DEF OfferInv, SessionFields
<1>7. Answer(offer) \in Announces(t) /\ Answer(offer) # Offered(t)
  BY <1>5 DEF Announces, Answer, Offered, Started
<1>8. p \in Seq(Announces(t)) /\ (Has(p, Offered(t)) => Has(client[t].pending, Offered(t)))
  BY <1>1, <1>5, <1>7, HasLemma
<1>9. Unsettled(p) \in Seq(Announces(t)) /\ (Has(Unsettled(p), Offered(t)) => Has(p, Offered(t)))
  BY <1>8, UnsettledLemma, UnsettledHas
<1>10. ~client[t].destroyed /\ ~Idle(client[t], cs) =>
         client[t].ws \in Sockets /\ Owner(client[t].ws) = t /\ cs[client[t].ws] # "none"
  BY DEF SocketInv, Fits, SocketsOf, Idle
<1>11. /\ \A u \in Trackers : u # t => client'[u] = client[u]
       /\ \A d \in Sockets : Joined(d)' = Joined(d) /\ sock'[d] = sock[d]
  BY <1>2, BecomesLemma DEF SendAnswer, server, Joined
<1>12. FreshEnds /\ Queues
  BY DEF OfferInv
<1>13. \A d \in Sockets : /\ Fresh(cs'[d]) => sock'[d] = "none"
                          /\ Owner(d) # t => cs'[d] = cs[d]
  BY <1>3, <1>2, <1>12, OpensFresh DEF Announcing, FreshEnds, server
<1>14. Queues' /\ \A d \in Sockets : Owner(d) # t => toServer'[d] = toServer[d]
  <2>1. CASE toServer' = toServer
    BY <1>2, <1>12, <2>1 DEF Queues
  <2>2. CASE /\ ~client[t].destroyed /\ ~Idle(client[t], cs)
             /\ toServer' = [toServer EXCEPT ![client[t].ws] = @ \o p]
    BY <1>2, <1>8, <1>10, <1>12, <2>2, QueuesGrow
  <2> QED BY <1>3, <2>1, <2>2 DEF Announcing
<1>15. OnlyOf(t)
  BY <1>2, <1>6, <1>11, <1>13, <1>14 DEF OnlyOf
<1>16. /\ client'[t].opened \in Nat \ {0} /\ client'[t].pending \in Seq(Announces(t))
       /\ client'[t].opened <= 1 => client[t].opened <= 1
  BY <1>3, <1>4, <1>5, <1>8, <1>9 DEF Announcing
<1>17. ASSUME client'[t].opened <= 1
       PROVE  Late(t, client'[t], session'[t], cs'[c], sock[c], toServer'[c], toClient[c], Joined(c))
  <2>1. Late(t, client[t], session[t], cs[c], sock[c], toServer[c], toClient[c], Joined(c))
    BY <1>2, <1>4, <1>16, <1>17, AnswersLate
  <2>2. Has(client'[t].pending, Offered(t)) => Has(client[t].pending, Offered(t))
    BY <1>3, <1>4, <1>5, <1>8, <1>9, <1>17 DEF Announcing
  <2>3. Late(t, client'[t], session'[t], cs[c], sock[c], toServer[c], toClient[c], Joined(c))
    BY <1>6, <2>1, <2>2, LateKept
  <2>4. CASE cs' = cs /\ toServer' = toServer
    BY <2>3, <2>4
  <2>5. CASE /\ ~client[t].destroyed /\ ~Idle(client[t], cs) /\ cs[client[t].ws] = "open"
             /\ client'[t].pending = Unsettled(p)
             /\ cs' = cs /\ toServer' = [toServer EXCEPT ![client[t].ws] = @ \o p]
    <3>1. client[t].ws = c /\ cs[c] = "open"
      BY <1>10, <1>16, <1>17, <2>5, FirstLemma
    <3>2. ~Has(client[t].pending, Offered(t))
      BY <1>2, <2>1, <3>1 DEF Late
    <3>3. ~Has(p, Offered(t)) /\ ~Has(Unsettled(p), Offered(t)) /\ ~Has(toServer[c], Offered(t))
      BY <1>8, <1>9, <2>1, <3>2 DEF Late
    <3>4. toServer[c] \in Seq(Announces(t)) /\ toServer'[c] = toServer[c] \o p
      BY <1>2, <1>4, <1>8, <1>12, <2>5, <3>1, QueuesGrow DEF Queues
    <3>5. ~Has(toServer'[c], Offered(t))
      BY <1>8, <3>3, <3>4, HasLemma
    <3> QED BY <2>1, <2>5, <3>3, <3>5 DEF Late
  <2>6. ~(client'[t].opened = client[t].opened + 1)
    BY <1>4, <1>5, <1>17
  <2> QED BY <1>3, <2>4, <2>5, <2>6 DEF Announcing
<1>18. SideOf(t)'
  BY <1>2, <1>4, <1>5, <1>6, <1>16, <1>17, SideAfter
<1>19. client'[t].opened <= 1 => \A u \in Trackers : Takes(t, u)' => Takes(t, u)
  BY <1>2, <1>6 DEF Takes, First
<1> QED BY <1>13, <1>14, <1>15, <1>16, <1>18, <1>19, StepOf

\* The reconnect timer opens another socket.
LEMMA ReconnectOffers ==
  ASSUME SocketInv, OfferInv, NEW t \in Trackers, Reconnect(t)
  PROVE  OfferInv'
<1>1. PICK w : w = [World(t) EXCEPT !.obj.timers = @ - 1]
  OBVIOUS
<1>2. PICK p : p = [client[t] EXCEPT !.timers = @ - 1]
  OBVIOUS
<1>3. PICK v : v = ConnectWs(w, t)
  OBVIOUS
<1>4. /\ client[t].timers > 0 /\ MayConnect(w) /\ UNCHANGED <<session, toClient, losses, server>>
      /\ TrackerBecomes(t, v)
  BY <1>1, <1>3 DEF Reconnect
<1>5. Fits(t, client[t], cs, sock, losses) /\ client[t].opened \in Nat
  BY FirstLemma DEF SocketInv
<1>6. /\ DOMAIN p = TrackerFields /\ p.opened = client[t].opened /\ p.pending = client[t].pending
      /\ p.destroyed = client[t].destroyed /\ p.hasConnected = client[t].hasConnected
  BY <1>2, <1>5 DEF Fits, TrackerFields
<1>7. Shaped(w, p, cs) /\ w.sent = toServer
  BY <1>1, <1>2, <1>5, <1>6 DEF Fits, Shaped, World, TrackerFields
<1>8. ~client[t].destroyed
  BY <1>4, <1>5 DEF Fits
<1>9. /\ Opens(t, p, v.obj) /\ v.obj.pending = p.pending
      /\ v.cs = [cs EXCEPT ![<<t, p.opened + 1>>] = "connecting"] /\ v.sent = toServer
  BY <1>3, <1>6, <1>7, <1>8, ConnectSends
<1>10. /\ client'[t].opened = client[t].opened + 1 /\ client'[t].pending = client[t].pending
       /\ cs' = [cs EXCEPT ![<<t, client[t].opened + 1>>] = "connecting"] /\ toServer' = toServer
       /\ \A u \in Trackers : u # t => client'[u] = client[u]
  BY <1>4, <1>6, <1>9, BecomesLemma DEF Opens
<1>11. <<t, client[t].opened + 1>> \in Sockets
  <2>1. client[t].opened < MaxSockets
    BY <1>4, <1>6, <1>7, <1>8 DEF MayConnect, Shaped
  <2> QED BY <1>5, <2>1, SignallingAssumption DEF Sockets
<1>12. SideOf(t) /\ FreshEnds /\ Queues /\ session = [u \in Trackers |-> session[u]]
  BY DEF OfferInv
<1>13. client[t].opened # 0
  BY <1>4, <1>12 DEF SideOf, Side
<1>14. \A d \in Sockets : /\ Fresh(cs'[d]) => sock'[d] = "none"
                          /\ Owner(d) # t => cs'[d] = cs[d]
  BY <1>4, <1>10, <1>11, <1>12, OpensFresh DEF server
<1>15. \A d \in Sockets : Joined(d)' = Joined(d) /\ sock'[d] = sock[d]
  BY <1>4 DEF server, Joined
<1>16. OnlyOf(t)
  BY <1>4, <1>10, <1>12, <1>14, <1>15 DEF OnlyOf
<1>17. Queues'
  BY <1>4, <1>10, <1>12 DEF Queues
<1>18. ~(client'[t].opened <= 1) /\ client'[t].opened # 0
  BY <1>5, <1>10, <1>13
<1>19. SideOf(t)'
  <2>1. /\ client'[t].pending \in Seq(Announces(t)) /\ DOMAIN session'[t] = SessionFields
        /\ session'[t].taken = session[t].taken /\ session'[t].answering \subseteq session[t].answering
        /\ session'[t].started <=> client'[t].opened # 0
    BY <1>4, <1>10, <1>12, <1>13, <1>18 DEF SideOf, Side
  <2> QED BY <1>4, <1>12, <1>18, <2>1, SideAfter
<1> QED BY <1>14, <1>16, <1>17, <1>18, <1>19, StepOf

\* A tracker is destroyed, and nothing stays pending.
LEMMA DestroyOffers ==
  ASSUME SocketInv, OfferInv, NEW t \in Trackers, Destroy(t)
  PROVE  OfferInv'
<1> DEFINE c == First(t)
<1>1. /\ session[t].started /\ UNCHANGED <<session, toServer, toClient, losses, server>>
      /\ client' = [client EXCEPT ![t].destroyed = TRUE, ![t].ws = None, ![t].pending = <<>>,
                                  ![t].timers = 0]
      /\ cs' = [d \in Sockets |-> IF d = client[t].ws /\ cs[d] \in {"connecting", "open"}
                                  THEN "closing" ELSE cs[d]]
  BY DEF Destroy
<1>2. /\ SideOf(t) /\ c \in Sockets /\ Owner(c) = t /\ client[t].opened \in Nat
      /\ FreshEnds /\ Queues /\ session = [u \in Trackers |-> session[u]]
  BY FirstLemma DEF OfferInv
<1>3. Fits(t, client[t], cs, sock, losses)
  BY DEF SocketInv
<1>4. /\ client'[t].opened = client[t].opened /\ client'[t].timers = 0 /\ client'[t].pending = <<>>
      /\ \A u \in Trackers : u # t => client'[u] = client[u]
  <2>1. PICK q : q = [client[t] EXCEPT !.destroyed = TRUE, !.ws = None, !.pending = <<>>, !.timers = 0]
    OBVIOUS
  <2>2. q.opened = client[t].opened /\ q.timers = 0 /\ q.pending = <<>>
    BY <1>3, <2>1 DEF Fits, TrackerFields
  <2>3. client' = [client EXCEPT ![t] = q]
    BY <1>1, <2>1 DEF SocketInv
  <2> QED BY <2>2, <2>3 DEF SocketInv
<1>5. \A d \in Sockets : \/ cs'[d] = cs[d]
                         \/ cs'[d] = "closing" /\ cs[d] \in {"connecting", "open"} /\ Owner(d) = t
  <2>1. \A d \in Sockets : d = client[t].ws => Owner(d) = t
    BY <1>3, SignallingAssumption DEF Fits, SocketsOf
  <2> QED BY <1>1, <2>1
<1>6. \A d \in Sockets : Joined(d)' = Joined(d) /\ sock'[d] = sock[d]
  BY <1>1 DEF server, Joined
<1>7. \A d \in Sockets : /\ Fresh(cs'[d]) => sock'[d] = "none"
                         /\ Owner(d) # t => cs'[d] = cs[d]
  BY <1>2, <1>5, <1>6 DEF FreshEnds, Fresh
<1>8. OnlyOf(t)
  BY <1>1, <1>2, <1>4, <1>6, <1>7 DEF OnlyOf
<1>9. Queues'
  BY <1>1, <1>2 DEF Queues
<1>10. ~Has(client'[t].pending, Offered(t)) /\ client'[t].pending \in Seq(Announces(t))
  <2>1. PICK q : q = <<>>
    OBVIOUS
  <2>2. q \in Seq(Announces(t)) /\ ~Has(q, Offered(t))
    BY <2>1 DEF Has
  <2> QED BY <1>4, <2>1, <2>2
<1>11. client[t].opened # 0 /\ DOMAIN session[t] = SessionFields
  BY <1>1, <1>2 DEF SideOf, Side
<1>12. ASSUME client[t].opened <= 1
       PROVE  \/ Early(t, client'[t], session[t], cs'[c], toServer[c], toClient[c], Joined(c))
              \/ Late(t, client'[t], session[t], cs'[c], sock[c], toServer[c], toClient[c], Joined(c))
  <2>1. CASE Early(t, client[t], session[t], cs[c], toServer[c], toClient[c], Joined(c))
    <3>1. CASE cs'[c] = cs[c]
      BY <1>4, <2>1, <3>1 DEF Early
    <3>2. CASE cs'[c] = "closing" /\ cs[c] = "open"
      BY <2>1, <3>2 DEF Early, Fresh
    <3>3. CASE cs'[c] = "closing" /\ cs[c] = "connecting"
      <4>1. toServer[c] = <<>>
        BY <2>1, <3>3 DEF Early, Fresh
      <4>2. ~Has(toServer[c], Offered(t))
        BY <4>1 DEF Has
      <4> QED BY <1>10, <3>3, <4>2 DEF Late, Fresh
    <3> QED BY <1>2, <1>5, <3>1, <3>2, <3>3
  <2>2. CASE Late(t, client[t], session[t], cs[c], sock[c], toServer[c], toClient[c], Joined(c))
    BY <1>2, <1>5, <1>10, <2>2 DEF Late, Fresh
  <2> QED BY <1>2, <1>12, <2>1, <2>2 DEF SideOf, Side
<1>13. SideOf(t)'
  BY <1>1, <1>2, <1>4, <1>10, <1>11, <1>12, SideAfter
<1>14. client'[t].opened <= 1 => client[t].opened <= 1 /\ \A u \in Trackers : Takes(t, u)' => Takes(t, u)
  BY <1>1, <1>4 DEF Takes, First
<1> QED BY <1>7, <1>8, <1>9, <1>13, <1>14, StepOf
-----------------------------------------------------------------------------
EarlyAt(t) == Early(t, client[t], session[t], cs[First(t)], toServer[First(t)], toClient[First(t)],
                    Joined(First(t)))
LateAt(t) == Late(t, client[t], session[t], cs[First(t)], sock[First(t)], toServer[First(t)],
                  toClient[First(t)], Joined(First(t)))

\* Only socket c of t differs, and it is not about to connect any more.
OnlySocket(c, t) ==
  /\ c \in Sockets /\ t = Owner(c) /\ cs[c] # "none" /\ ~Fresh(cs'[c])
  /\ client'[t].opened = client[t].opened /\ \A u \in Trackers : u # t => client'[u] = client[u]
  /\ \A d \in Sockets : d # c => /\ cs'[d] = cs[d] /\ sock'[d] = sock[d]
                                 /\ toServer'[d] = toServer[d] /\ toClient'[d] = toClient[d]
  /\ \A d \in Sockets : Joined(d)' \subseteq Joined(d)

\* A step of a socket.
LEMMA SocketMoves ==
  ASSUME SocketInv, OfferInv, NEW c, NEW t \in Trackers, OnlySocket(c, t), UNCHANGED session,
         client'[t].pending \in Seq(Announces(t)), Queues', toClient'[c] \in {toClient[c], <<>>},
         c = First(t) /\ client[t].opened <= 1 /\ (EarlyAt(t) \/ LateAt(t)) => EarlyAt(t)' \/ LateAt(t)'
  PROVE  OfferInv'
<1>1. /\ SideOf(t) /\ First(t) \in Sockets /\ Owner(First(t)) = t /\ client[t].opened \in Nat
      /\ FreshEnds /\ session = [u \in Trackers |-> session[u]]
  BY FirstLemma DEF OfferInv
<1>2. OnlyOf(t)
  BY <1>1 DEF OnlyOf, OnlySocket
<1>3. \A d \in Sockets : Owner(d) = t /\ Fresh(cs'[d]) => sock'[d] = "none"
  BY <1>1 DEF OnlySocket, FreshEnds
<1>4. client[t].opened # 0 /\ (client[t].opened <= 1 => c = First(t))
  BY <1>1, FirstLemma DEF OnlySocket
<1>5. client'[t].opened <= 1 => EarlyAt(t)' \/ LateAt(t)'
  BY <1>1, <1>4 DEF OnlySocket, SideOf, Side, EarlyAt, LateAt
<1>6. SideOf(t)'
  <2>1. /\ DOMAIN session'[t] = SessionFields
        /\ session'[t].taken \subseteq AllOffers /\ session'[t].answering \subseteq AllOffers
        /\ session'[t].started <=> client'[t].opened # 0
        /\ client'[t].opened # 0
    BY <1>1, <1>4 DEF OnlySocket, SideOf, Side
  <2> QED BY <1>5, <2>1 DEF SideOf, Side, EarlyAt, LateAt
<1>7. \A u \in Trackers : Takes(t, u)' => Takes(t, u)
  <2>1. toClient'[First(t)] = toClient[First(t)] \/ toClient'[First(t)] = <<>>
    BY <1>1 DEF OnlySocket
  <2>2. First(t)' = First(t)
    BY DEF First
  <2>3. \A u : ~OfferOf(<<>>, u)
    BY DEF OfferOf
  <2>4. \A u : OfferOf(toClient'[First(t)], u) => OfferOf(toClient[First(t)], u)
    BY <2>1, <2>3
  <2> QED BY <2>2, <2>4 DEF Takes
<1> QED BY <1>2, <1>3, <1>6, <1>7, StepOf DEF OnlySocket

\* The close event forgets what is pending, or nothing.
LEMMA OnCloseOffers ==
  ASSUME SocketInv, OfferInv, NEW t \in Trackers, OnClose(t)
  PROVE  /\ client'[t].opened = client[t].opened /\ \A u \in Trackers : u # t => client'[u] = client[u]
         /\ client'[t].pending \in {client[t].pending, <<>>}
         /\ client'[t].pending \in Seq(Announces(t))
         /\ client[t].pending \in {<<>>, <<Offered(t)>>} => client'[t].pending \in {<<>>, <<Offered(t)>>}
<1>1. PICK q : q = IF client[t].destroyed \/ ~client[t].hasConnected THEN <<>> ELSE client[t].pending
  OBVIOUS
<1>2. PICK n : n = IF client[t].destroyed \/ ~client[t].hasConnected THEN client[t].timers
                   ELSE client[t].timers + 1
  OBVIOUS
<1>3. PICK p : p = [client[t] EXCEPT !.ws = None, !.timers = n, !.pending = q]
  OBVIOUS
<1>4. DOMAIN client[t] = TrackerFields /\ client = [u \in Trackers |-> client[u]]
  BY DEF SocketInv, Fits
<1>5. client' = [client EXCEPT ![t] = p]
  BY <1>1, <1>2, <1>3, <1>4 DEF OnClose, TrackerFields
<1>6. p.opened = client[t].opened /\ p.pending = q
  BY <1>3, <1>4 DEF TrackerFields
<1>7. client[t].pending \in Seq(Announces(t))
  BY DEF OfferInv, SideOf, Side
<1>8. client'[t] = p /\ \A u \in Trackers : u # t => client'[u] = client[u]
  BY <1>4, <1>5
<1>9. q \in {client[t].pending, <<>>} /\ q \in Seq(Announces(t))
  <2>1. <<>> \in Seq(Announces(t))
    OBVIOUS
  <2> QED BY <1>1, <1>7, <2>1
<1> QED BY <1>6, <1>8, <1>9

\* An attempt to connect fails.
LEMMA RefusedOffers ==
  ASSUME SocketInv, OfferInv, NEW c \in Sockets, Refused(c)
  PROVE  OfferInv'
<1>1. PICK t \in Trackers : t = Owner(c)
  BY InvAt
<1>2. /\ cs[c] = "connecting" /\ cs' = [cs EXCEPT ![c] = "closed"] /\ OnClose(t)
      /\ UNCHANGED <<session, toServer, toClient, server>>
  BY <1>1 DEF Refused
<1>3. /\ client'[t].opened = client[t].opened /\ \A u \in Trackers : u # t => client'[u] = client[u]
      /\ client'[t].pending \in Seq(Announces(t))
  BY <1>2, OnCloseOffers
<1>4. cs'[c] = "closed" /\ \A d \in Sockets : d # c => cs'[d] = cs[d]
  BY <1>2 DEF SocketInv
<1>5. \A d \in Sockets : Joined(d)' = Joined(d) /\ sock'[d] = sock[d]
  BY <1>2 DEF server, Joined
<1>6. OnlySocket(c, t) /\ UNCHANGED session
  BY <1>1, <1>2, <1>3, <1>4, <1>5 DEF OnlySocket, Fresh
<1>7. Queues' /\ toClient'[c] \in {toClient[c], <<>>}
  BY <1>2 DEF OfferInv, Queues
<1>8. ASSUME c = First(t), EarlyAt(t) \/ LateAt(t)
      PROVE  LateAt(t)'
  <2>1. toServer[c] = <<>>
    BY <1>2, <1>8 DEF EarlyAt, LateAt, Early, Late, Fresh
  <2>2. ~Has(toServer[c], Offered(t))
    BY <2>1 DEF Has
  <2>3. cs'[First(t)] = "closed" /\ toServer'[First(t)] = toServer[c] /\ First(t)' = First(t)
    BY <1>2, <1>4, <1>8 DEF First
  <2>4. Late(t, client'[t], session'[t], cs'[First(t)], sock'[First(t)], toServer'[First(t)],
             toClient'[First(t)], Joined(First(t))')
    BY <2>2, <2>3 DEF Late, Fresh
  <2> QED BY <2>4, <2>3 DEF LateAt, First
<1> QED BY <1>3, <1>6, <1>7, <1>8, SocketMoves

\* Nothing in an empty queue.
LEMMA NothingIn ==
  /\ \A m : ~Has(<<>>, m)
  /\ NoOffer(<<>>) /\ Led(<<>>) /\ <<>> \in Seq(Mail)
BY DEF Has, NoOffer, Led

\* The messages to a client end with its socket.
LEMMA QueuesEnd ==
  ASSUME Queues, NEW c \in Sockets, toClient' = [toClient EXCEPT ![c] = <<>>],
         toServer' \in {toServer, [toServer EXCEPT ![c] = <<>>]}
  PROVE  Queues' /\ toClient'[c] = <<>> /\ \A d \in Sockets : d # c =>
           toClient'[d] = toClient[d] /\ toServer'[d] = toServer[d]
<1>1. PICK r : r = <<>>
  OBVIOUS
<1>2. r \in Seq(Mail) /\ r \in Seq(Announces(Owner(c)))
  BY <1>1
<1>3. /\ toClient' = [toClient EXCEPT ![c] = r]
      /\ toServer' = toServer \/ toServer' = [toServer EXCEPT ![c] = r]
  BY <1>1
<1>4. /\ toClient' \in [Sockets -> Seq(Mail)] /\ toClient'[c] = r
      /\ \A d \in Sockets : d # c => toClient'[d] = toClient[d]
  BY <1>2, <1>3 DEF Queues
<1>5. /\ toServer' = [d \in Sockets |-> toServer'[d]]
      /\ \A d \in Sockets : d # c => toServer'[d] = toServer[d]
      /\ \A d \in Sockets : toServer'[d] \in Seq(Announces(Owner(d)))
  BY <1>2, <1>3 DEF Queues
<1> QED BY <1>1, <1>4, <1>5 DEF Queues

\* The close event of the client's end.
LEMMA ClosedOffers ==
  ASSUME SocketInv, OfferInv, NEW c \in Sockets, Closed(c)
  PROVE  OfferInv'
<1>1. PICK t \in Trackers : t = Owner(c)
  BY InvAt
<1>2. /\ cs[c] \in {"open", "closing"} /\ cs' = [cs EXCEPT ![c] = "closed"] /\ OnClose(t)
      /\ UNCHANGED <<session, toServer, server>> /\ toClient' = [toClient EXCEPT ![c] = <<>>]
  BY <1>1 DEF Closed
<1>3. /\ client'[t].opened = client[t].opened /\ \A u \in Trackers : u # t => client'[u] = client[u]
      /\ client'[t].pending \in Seq(Announces(t))
  BY <1>2, OnCloseOffers
<1>4. cs'[c] = "closed" /\ \A d \in Sockets : d # c => cs'[d] = cs[d]
  BY <1>2 DEF SocketInv
<1>5. \A d \in Sockets : Joined(d)' = Joined(d) /\ sock'[d] = sock[d]
  BY <1>2 DEF server, Joined
<1>6. /\ Queues' /\ toClient'[c] = <<>> /\ toServer' = toServer
      /\ \A d \in Sockets : d # c => toClient'[d] = toClient[d] /\ toServer'[d] = toServer[d]
  BY <1>2, QueuesEnd DEF OfferInv
<1>7. OnlySocket(c, t) /\ UNCHANGED session
  BY <1>1, <1>2, <1>3, <1>4, <1>5, <1>6 DEF OnlySocket, Fresh
<1>8. ASSUME c = First(t), EarlyAt(t) \/ LateAt(t)
      PROVE  EarlyAt(t)' \/ LateAt(t)'
  <2>1. /\ cs'[First(t)] = "closed" /\ toServer'[First(t)] = toServer[First(t)] /\ First(t)' = First(t)
        /\ toClient'[First(t)] = <<>> /\ Joined(First(t))' = Joined(First(t)) /\ session' = session
    BY <1>2, <1>4, <1>5, <1>6, <1>8 DEF First
  <2>2. CASE EarlyAt(t)
    <3>1. Early(t, client'[t], session'[t], cs'[First(t)], toServer'[First(t)],
                toClient'[First(t)], Joined(First(t))')
      BY <1>2, <1>8, <2>1, <2>2, NothingIn DEF EarlyAt, Early, Fresh
    <3> QED BY <2>1, <3>1 DEF EarlyAt, First
  <2>3. CASE LateAt(t)
    <3>1. Late(t, client'[t], session'[t], cs'[First(t)], sock'[First(t)], toServer'[First(t)],
               toClient'[First(t)], Joined(First(t))')
      BY <2>1, <2>3 DEF LateAt, Late, Fresh
    <3> QED BY <2>1, <3>1 DEF LateAt, First
  <2> QED BY <1>8, <2>2, <2>3
<1> QED BY <1>3, <1>6, <1>7, <1>8, SocketMoves

\* A connection is lost with what it carried, and with its swarms.
LEMMA LoseOffers ==
  ASSUME SocketInv, P!IInv, OfferInv, NEW c \in Sockets, Lose(c)
  PROVE  OfferInv'
<1>1. PICK t \in Trackers : t = Owner(c)
  BY InvAt
<1>2. PICK state \in {"open", "closing"} : cs' = [cs EXCEPT ![c] = state]
  BY DEF Lose
<1>3. /\ cs[c] = "open" /\ T!Disconnect(c) /\ UNCHANGED <<client, session>>
      /\ toServer' = [toServer EXCEPT ![c] = <<>>] /\ toClient' = [toClient EXCEPT ![c] = <<>>]
  BY DEF Lose
<1>4. cs'[c] = state /\ \A d \in Sockets : d # c => cs'[d] = cs[d]
  BY <1>2 DEF SocketInv
<1>5. sock'[c] = "closed" /\ \A d \in Sockets : d # c => sock'[d] = sock[d]
  BY <1>3 DEF T!Disconnect, SocketInv
<1>6. \A d \in Sockets : Joined(d)' \subseteq Joined(d)
  BY <1>3, DisconnectJoins
<1>7. /\ Queues' /\ toClient'[c] = <<>> /\ toServer'[c] = <<>>
      /\ \A d \in Sockets : d # c => toClient'[d] = toClient[d] /\ toServer'[d] = toServer[d]
  BY <1>3, QueuesEnd DEF OfferInv, Queues
<1>8. OnlySocket(c, t) /\ UNCHANGED session
  BY <1>1, <1>3, <1>4, <1>5, <1>6, <1>7 DEF OnlySocket, Fresh
<1>9. client'[t].pending \in Seq(Announces(t))
  BY <1>3 DEF OfferInv, SideOf, Side
<1>10. ASSUME c = First(t), EarlyAt(t) \/ LateAt(t)
       PROVE  LateAt(t)'
  <2>1. Has(client[t].pending, Offered(t)) => session[t].answering = {}
    BY <1>3, <1>10 DEF EarlyAt, LateAt, Early, Late
  <2>2. /\ cs'[First(t)] = state /\ toServer'[First(t)] = <<>> /\ First(t)' = First(t)
        /\ toClient'[First(t)] = <<>> /\ sock'[First(t)] = "closed"
    BY <1>4, <1>5, <1>7, <1>10 DEF First
  <2>3. Late(t, client'[t], session'[t], cs'[First(t)], sock'[First(t)], toServer'[First(t)],
             toClient'[First(t)], Joined(First(t))')
    BY <1>2, <1>3, <2>1, <2>2, NothingIn DEF Late, Fresh
  <2> QED BY <2>2, <2>3 DEF LateAt, First
<1> QED BY <1>7, <1>8, <1>9, <1>10, SocketMoves

\* The server's end closes.
LEMMA ServerClosedOffers ==
  ASSUME SocketInv, P!IInv, OfferInv, NEW c \in Sockets, ServerClosed(c)
  PROVE  OfferInv'
<1>1. PICK t \in Trackers : t = Owner(c)
  BY InvAt
<1>2. /\ cs[c] \in {"closing", "closed"} /\ T!Disconnect(c)
      /\ UNCHANGED <<client, session, cs, toServer, toClient>>
  BY DEF ServerClosed
<1>3. sock'[c] = "closed" /\ \A d \in Sockets : d # c => sock'[d] = sock[d]
  BY <1>2 DEF T!Disconnect, SocketInv
<1>4. \A d \in Sockets : Joined(d)' \subseteq Joined(d)
  BY <1>2, DisconnectJoins
<1>5. Queues' /\ client'[t].pending \in Seq(Announces(t))
  BY <1>2 DEF OfferInv, Queues, SideOf, Side
<1>6. OnlySocket(c, t) /\ UNCHANGED session
  BY <1>1, <1>2, <1>3, <1>4 DEF OnlySocket, Fresh
<1>7. ASSUME c = First(t), EarlyAt(t) \/ LateAt(t)
      PROVE  EarlyAt(t)' \/ LateAt(t)'
  <2>1. First(t)' = First(t) /\ Joined(First(t))' \subseteq Joined(First(t))
    BY <1>4, <1>7 DEF First
  <2>2. CASE EarlyAt(t)
    <3>1. Early(t, client'[t], session'[t], cs'[First(t)], toServer'[First(t)],
                toClient'[First(t)], Joined(First(t))')
      BY <1>2, <2>1, <2>2 DEF EarlyAt, Early
    <3> QED BY <2>1, <3>1 DEF EarlyAt, First
  <2>3. CASE LateAt(t)
    <3>1. Late(t, client'[t], session'[t], cs'[First(t)], sock'[First(t)], toServer'[First(t)],
               toClient'[First(t)], Joined(First(t))')
      BY <1>2, <1>7, <2>1, <2>3 DEF LateAt, Late, Fresh
    <3> QED BY <2>1, <3>1 DEF LateAt, First
  <2> QED BY <1>7, <2>2, <2>3
<1> QED BY <1>2, <1>5, <1>6, <1>7, SocketMoves

\* A socket connects, and what is pending is sent on the one the object refers to.
LEMMA OpenOffers ==
  ASSUME SocketInv, OfferInv, NEW c \in Sockets, Open(c)
  PROVE  OfferInv'
<1>1. PICK t \in Trackers : t = Owner(c)
  BY InvAt
<1>2. PICK w : w = [World(t) EXCEPT !.obj.hasConnected = TRUE, !.cs[c] = "open"]
  OBVIOUS
<1>3. PICK p : p = [client[t] EXCEPT !.hasConnected = TRUE]
  OBVIOUS
<1>4. PICK st : st = [cs EXCEPT ![c] = "open"]
  OBVIOUS
<1>5. PICK v : v = FlushAll(w)
  OBVIOUS
<1>6. /\ cs[c] = "connecting" /\ T!Connect(c) /\ UNCHANGED <<session, toClient>>
      /\ TrackerBecomes(t, v)
  BY <1>1, <1>2, <1>5 DEF Open
<1>7. /\ SideOf(t) /\ First(t) \in Sockets /\ Owner(First(t)) = t /\ client[t].opened \in Nat
      /\ FreshEnds /\ Queues /\ session = [u \in Trackers |-> session[u]]
  BY FirstLemma DEF OfferInv
<1>8. Fits(t, client[t], cs, sock, losses)
  BY DEF SocketInv
<1>9. /\ DOMAIN p = TrackerFields /\ p.opened = client[t].opened /\ p.pending = client[t].pending
      /\ p.ws = client[t].ws
  BY <1>3, <1>8 DEF Fits, TrackerFields
<1>10. Shaped(w, p, st) /\ w.sent = toServer /\ w.obj = p /\ w.cs = st
  BY <1>2, <1>3, <1>4, <1>8, <1>9 DEF Fits, Shaped, World, TrackerFields
<1>11. \/ (p.ws = None \/ st[p.ws] # "open") /\ v = w
       \/ /\ p.ws # None /\ st[p.ws] = "open"
          /\ v.cs = st /\ Pends(p, v.obj, Unsettled(p.pending))
          /\ v.sent = [w.sent EXCEPT ![p.ws] = @ \o p.pending]
  <2>1. Shaped(w, p, st)
    BY <1>10
  <2> QED BY <1>5, <2>1, FlushSends
<1>12. /\ client'[t] = v.obj /\ cs' = v.cs /\ toServer' = v.sent
       /\ \A u \in Trackers : u # t => client'[u] = client[u]
  <2>1. TrackerBecomes(t, v)
    BY <1>6
  <2> QED BY <2>1, BecomesLemma
<1>13. /\ cs' = st /\ client'[t].opened = client[t].opened
       /\ \/ client'[t].pending = client[t].pending /\ toServer' = toServer
          \/ /\ client[t].ws # None /\ client'[t].pending = Unsettled(client[t].pending)
             /\ toServer' = [toServer EXCEPT ![client[t].ws] = @ \o client[t].pending]
  BY <1>9, <1>10, <1>11, <1>12 DEF Pends, SameSockets
<1>14. cs'[c] = "open" /\ \A d \in Sockets : d # c => cs'[d] = cs[d]
  BY <1>4, <1>13 DEF SocketInv
<1>15. /\ sock'[c] = "open" /\ \A d \in Sockets : d # c => sock'[d] = sock[d]
       /\ \A d \in Sockets : Joined(d)' = Joined(d)
  BY <1>6 DEF T!Connect, SocketInv, Joined
<1>16. client[t].ws # None => client[t].ws \in Sockets /\ Owner(client[t].ws) = t /\ cs[client[t].ws] # "none"
  BY <1>8 DEF Fits, SocketsOf
<1>17. client[t].pending \in Seq(Announces(t)) /\ DOMAIN session[t] = SessionFields
  BY <1>7 DEF SideOf, Side
<1>18. Queues' /\ \A d \in Sockets : Owner(d) # t => toServer'[d] = toServer[d]
  <2>1. CASE toServer' = toServer
    BY <1>6, <1>7, <2>1 DEF Queues
  <2>2. CASE client[t].ws # None /\ toServer' = [toServer EXCEPT ![client[t].ws] = @ \o client[t].pending]
    BY <1>6, <1>7, <1>16, <1>17, <2>2, QueuesGrow
  <2> QED BY <1>13, <2>1, <2>2
<1>19. OnlyOf(t)
  BY <1>1, <1>6, <1>7, <1>12, <1>14, <1>15, <1>18 DEF OnlyOf
<1>20. client'[t].pending \in Seq(Announces(t))
  BY <1>13, <1>17, UnsettledLemma
<1>21. ASSUME client[t].opened <= 1 PROVE EarlyAt(t)' \/ LateAt(t)'
  <2>1. c = First(t)
    BY <1>1, <1>6, <1>21, FirstLemma
  <2>2. EarlyAt(t)
    BY <1>6, <1>7, <1>21, <2>1 DEF SideOf, Side, EarlyAt, Late, Fresh
  <2>3. /\ session[t].taken = {} /\ session[t].answering = {} /\ NoOffer(toClient[c]) /\ Joined(c) = {}
        /\ toServer[c] = <<>> /\ client[t].pending \in {<<>>, <<Offered(t)>>}
    BY <1>6, <2>1, <2>2 DEF EarlyAt, Early, Fresh
  <2>4. Led(toClient[c])
    BY <2>3 DEF NoOffer, Led
  <2>5. /\ First(t)' = First(t) /\ cs'[First(t)] = "open" /\ session' = session
        /\ toClient'[First(t)] = toClient[c] /\ Joined(First(t))' = {}
    BY <1>6, <1>7, <1>14, <1>15, <2>1, <2>3 DEF First
  <2>6. CASE toServer'[c] = <<>>
    <3>1. Late(t, client'[t], session'[t], cs'[First(t)], sock'[First(t)], toServer'[First(t)],
               toClient'[First(t)], Joined(First(t))')
      BY <2>1, <2>3, <2>4, <2>5, <2>6, NothingIn DEF Late, Fresh
    <3> QED BY <2>5, <3>1 DEF LateAt, First
  <2>7. CASE toServer'[c] = <<Offered(t)>>
    <3>1. Early(t, client'[t], session'[t], cs'[First(t)], toServer'[First(t)],
                toClient'[First(t)], Joined(First(t))')
      BY <2>1, <2>3, <2>5, <2>7 DEF Early, Fresh
    <3> QED BY <2>5, <3>1 DEF EarlyAt, First
  <2>8. toServer'[c] \in {<<>>, client[t].pending}
    <3>1. CASE toServer' = toServer
      BY <2>3, <3>1
    <3>2. CASE client[t].ws # None /\ toServer' = [toServer EXCEPT ![client[t].ws] = @ \o client[t].pending]
      <4>1. client[t].ws = c
        BY <1>16, <1>21, <2>1, <3>2, FirstLemma
      <4>2. toServer'[c] = toServer[c] \o client[t].pending
        BY <1>6, <1>7, <1>16, <1>17, <3>2, <4>1, QueuesGrow
      <4>3. <<>> \o client[t].pending = client[t].pending
        BY <1>17
      <4> QED BY <2>3, <4>2, <4>3
    <3> QED BY <1>13, <3>1, <3>2
  <2> QED BY <2>3, <2>6, <2>7, <2>8
<1>22. client[t].opened # 0
  BY <1>1, <1>6, <1>7, FirstLemma
<1>23. SideOf(t)'
  <2>1. /\ DOMAIN session'[t] = SessionFields
        /\ session'[t].taken \subseteq AllOffers /\ session'[t].answering \subseteq AllOffers
        /\ session'[t].started <=> client'[t].opened # 0
        /\ client'[t].opened # 0
    BY <1>6, <1>7, <1>13, <1>22 DEF SideOf, Side
  <2> QED BY <1>13, <1>20, <1>21, <2>1 DEF SideOf, Side, EarlyAt, LateAt
<1>24. \A d \in Sockets : Owner(d) = t /\ Fresh(cs'[d]) => sock'[d] = "none"
  BY <1>7, <1>14, <1>15 DEF FreshEnds, Fresh
<1>25. client'[t].opened <= 1 => client[t].opened <= 1 /\ \A u \in Trackers : Takes(t, u)' => Takes(t, u)
  BY <1>6, <1>13 DEF Takes, First
<1> QED BY <1>18, <1>19, <1>23, <1>24, <1>25, StepOf

\* A client reads a message: while its offers are pending it is the response, or no offer.
LEMMA ReceiveOffers ==
  ASSUME SocketInv, OfferInv, NEW c \in Sockets, Receive(c)
  PROVE  OfferInv'
<1>1. PICK t \in Trackers : t = Owner(c)
  BY InvAt
<1>2. PICK m : m = Head(toClient[c])
  OBVIOUS
<1>3. /\ toClient[c] # <<>> /\ cs[c] = "open" /\ toClient' = [toClient EXCEPT ![c] = Tail(@)]
      /\ client' = [client EXCEPT ![t].pending = IF m.type = "response" THEN <<>> ELSE @]
      /\ UNCHANGED <<cs, toServer, server>>
  BY <1>1, <1>2 DEF Receive
<1>4. PICK s : /\ session' = [session EXCEPT ![t] = s]
               /\ \/ s = session[t]
                  \/ /\ m.type = "offer"
                     /\ s = [session[t] EXCEPT !.peers = @ \cup {m.from},
                               !.answering = @ \cup {m.offer}, !.taken = @ \cup {m.offer}]
                  \/ s = [session[t] EXCEPT !.peers = @ \cup {m.from}, !.pendingOffers = @ \ {m.offer}]
  <2>1. CASE ~client[t].destroyed /\ m.type = "offer" /\ m.from \notin session[t].peers
    <3>1. session' = [session EXCEPT ![t] = [session[t] EXCEPT !.peers = @ \cup {m.from},
                        !.answering = @ \cup {m.offer}, !.taken = @ \cup {m.offer}]]
      BY <1>1, <1>2, <2>1 DEF Receive
    <3> QED BY <2>1, <3>1
  <2>2. CASE ~client[t].destroyed /\ m.type = "answer" /\ m.offer \in session[t].pendingOffers
    <3>1. session' = [session EXCEPT ![t] = [session[t] EXCEPT !.peers = @ \cup {m.from},
                        !.pendingOffers = @ \ {m.offer}]]
      BY <1>1, <1>2, <2>2 DEF Receive
    <3> QED BY <3>1
  <2>3. CASE /\ ~(~client[t].destroyed /\ m.type = "offer" /\ m.from \notin session[t].peers)
             /\ ~(~client[t].destroyed /\ m.type = "answer" /\ m.offer \in session[t].pendingOffers)
    <3>1. session' = [session EXCEPT ![t] = @]
      BY <1>1, <1>2, <2>3 DEF Receive
    <3> QED BY <3>1
  <2> QED BY <2>1, <2>2, <2>3
<1>5. /\ SideOf(t) /\ First(t) \in Sockets /\ Owner(First(t)) = t /\ client[t].opened \in Nat
      /\ FreshEnds /\ Queues /\ session = [u \in Trackers |-> session[u]]
  BY FirstLemma DEF OfferInv
<1>6. /\ client[t].pending \in Seq(Announces(t)) /\ DOMAIN session[t] = SessionFields
      /\ session[t].taken \subseteq AllOffers /\ session[t].answering \subseteq AllOffers
      /\ session[t].started <=> client[t].opened # 0
  BY <1>5 DEF SideOf, Side
<1>7. /\ session' = [u \in Trackers |-> session'[u]] /\ session'[t] = s
      /\ \A u \in Trackers : u # t => session'[u] = session[u]
  BY <1>4, <1>5
<1>8. /\ DOMAIN s = SessionFields /\ s.started = session[t].started
      /\ \/ s.taken = session[t].taken /\ s.answering = session[t].answering
         \/ /\ m.type = "offer" /\ s.taken = session[t].taken \cup {m.offer}
            /\ s.answering = session[t].answering \cup {m.offer}
  <2>1. CASE s = session[t]
    BY <1>6, <2>1
  <2>2. CASE /\ m.type = "offer"
             /\ s = [session[t] EXCEPT !.peers = @ \cup {m.from},
                       !.answering = @ \cup {m.offer}, !.taken = @ \cup {m.offer}]
    BY <1>6, <2>2 DEF SessionFields
  <2>3. CASE s = [session[t] EXCEPT !.peers = @ \cup {m.from}, !.pendingOffers = @ \ {m.offer}]
    BY <1>6, <2>3 DEF SessionFields
  <2> QED BY <1>4, <2>1, <2>2, <2>3
<1>9. /\ toClient[c] \in Seq(Mail) /\ m \in Mail
      /\ toClient'[c] = Tail(toClient[c]) /\ \A d \in Sockets : d # c => toClient'[d] = toClient[d]
      /\ Queues'
  <2>1. PICK r : r = Tail(toClient[c])
    OBVIOUS
  <2>2. toClient[c] \in Seq(Mail) /\ r \in Seq(Mail) /\ m \in Mail
    BY <1>2, <1>3, <1>5, <2>1, TailMail DEF Queues
  <2>3. toClient' = [toClient EXCEPT ![c] = r]
    BY <1>3, <2>1
  <2> QED BY <1>3, <1>5, <2>1, <2>2, <2>3 DEF Queues
<1>10. m.type = "offer" => m.offer \in AllOffers
  BY <1>9 DEF Mail, Response
<1>11. /\ client'[t].opened = client[t].opened /\ client'[t].timers = client[t].timers
       /\ client'[t].pending = IF m.type = "response" THEN <<>> ELSE client[t].pending
       /\ \A u \in Trackers : u # t => client'[u] = client[u]
  <2>1. PICK q : q = IF m.type = "response" THEN <<>> ELSE client[t].pending
    OBVIOUS
  <2>2. PICK p : p = [client[t] EXCEPT !.pending = q]
    OBVIOUS
  <2>3. client' = [client EXCEPT ![t] = p]
    BY <1>3, <2>1, <2>2
  <2>4. p.opened = client[t].opened /\ p.timers = client[t].timers /\ p.pending = q
    BY <2>2 DEF SocketInv, Fits, TrackerFields
  <2> QED BY <2>1, <2>3, <2>4 DEF SocketInv
<1>12. client[t].opened # 0 /\ (client[t].opened <= 1 => c = First(t))
  BY <1>1, <1>3, <1>5, FirstLemma
<1>13. \A d \in Sockets : Joined(d)' = Joined(d) /\ sock'[d] = sock[d] /\ cs'[d] = cs[d] /\ toServer'[d] = toServer[d]
  BY <1>3 DEF server, Joined
<1>14. OnlyOf(t)
  BY <1>1, <1>7, <1>9, <1>11, <1>13 DEF OnlyOf
<1>15. client'[t].pending \in Seq(Announces(t))
  BY <1>6, <1>11
<1>16. ASSUME client[t].opened <= 1 PROVE EarlyAt(t)' \/ LateAt(t)'
  <2>1. c = First(t) /\ (EarlyAt(t) \/ LateAt(t))
    BY <1>5, <1>12, <1>16 DEF SideOf, Side, EarlyAt, LateAt
  <2>2. /\ First(t)' = First(t) /\ cs'[First(t)] = "open" /\ session'[t] = s
        /\ toClient'[First(t)] = Tail(toClient[c]) /\ Joined(First(t))' = Joined(c)
        /\ sock'[First(t)] = sock[c] /\ toServer'[First(t)] = toServer[c]
    BY <1>3, <1>5, <1>7, <1>9, <1>13, <2>1 DEF First
  <2>3. CASE EarlyAt(t)
    <3>1. NoOffer(toClient[c]) /\ session[t].taken = {} /\ session[t].answering = {} /\ Joined(c) = {}
          /\ toServer[c] = <<Offered(t)>>
      BY <1>3, <2>1, <2>3 DEF EarlyAt, Early, Fresh
    <3>2. NoOffer(Tail(toClient[c])) /\ m.type # "offer"
      BY <1>2, <1>3, <1>9, <3>1, TailMail
    <3>3. Early(t, client'[t], session'[t], cs'[First(t)], toServer'[First(t)],
                toClient'[First(t)], Joined(First(t))')
      BY <1>8, <2>2, <3>1, <3>2 DEF Early, Fresh
    <3> QED BY <2>2, <3>3 DEF EarlyAt, First
  <2>4. CASE LateAt(t)
    <3>1. ~Has(toServer[c], Offered(t))
      BY <2>1, <2>4 DEF LateAt, Late
    <3>2. ASSUME Has(client'[t].pending, Offered(t))
          PROVE  s.answering = {} /\ Led(Tail(toClient[c]))
                 /\ (sock[c] = "open" /\ Joined(c) # {} => Answered(Tail(toClient[c])))
      <4>1. m.type # "response" /\ Has(client[t].pending, Offered(t))
        BY <1>11, <3>2, NothingIn
      <4>2. session[t].answering = {} /\ Led(toClient[c])
            /\ (sock[c] = "open" /\ Joined(c) # {} => Answered(toClient[c]))
        BY <1>3, <2>1, <2>4, <4>1 DEF LateAt, Late
      <4>3. /\ m.type # "offer" /\ Led(Tail(toClient[c]))
            /\ Answered(toClient[c]) => Answered(Tail(toClient[c]))
        BY <1>2, <1>3, <1>9, <4>1, <4>2, TailMail
      <4> QED BY <1>8, <4>2, <4>3
    <3>3. Late(t, client'[t], session'[t], cs'[First(t)], sock'[First(t)], toServer'[First(t)],
               toClient'[First(t)], Joined(First(t))')
      BY <2>2, <3>1, <3>2 DEF Late, Fresh
    <3> QED BY <2>2, <3>3 DEF LateAt, First
  <2> QED BY <2>1, <2>3, <2>4
<1>17. SideOf(t)'
  <2>1. /\ DOMAIN session'[t] = SessionFields
        /\ session'[t].taken \subseteq AllOffers /\ session'[t].answering \subseteq AllOffers
        /\ session'[t].started <=> client'[t].opened # 0
        /\ client'[t].opened # 0
    BY <1>6, <1>7, <1>8, <1>10, <1>11, <1>12
  <2> QED BY <1>11, <1>15, <1>16, <2>1 DEF SideOf, Side, EarlyAt, LateAt
<1>18. \A d \in Sockets : Owner(d) = t /\ Fresh(cs'[d]) => sock'[d] = "none"
  BY <1>5, <1>13 DEF FreshEnds
<1>19. ASSUME client[t].opened <= 1, NEW u \in Trackers, Takes(t, u)'
       PROVE  Takes(t, u)
  <2>1. c = First(t) /\ First(t)' = First(t)
    BY <1>12, <1>19 DEF First
  <2>2. CASE OfferOf(toClient'[First(t)], u)
    <3>1. OfferOf(toClient[c], u)
      BY <1>3, <1>9, <2>1, <2>2, TailMail
    <3> QED BY <2>1, <3>1 DEF Takes
  <2>3. CASE \E x \in session'[t].taken : Maker(x) = u
    <3>1. PICK x \in session'[t].taken : Maker(x) = u
      BY <2>3
    <3>2. CASE x \in session[t].taken
      BY <3>1, <3>2 DEF Takes
    <3>3. CASE m.type = "offer" /\ x = m.offer
      <4>1. OfferOf(toClient[c], Maker(x))
        BY <1>2, <1>3, <1>9, <3>3, TailMail
      <4> QED BY <2>1, <3>1, <4>1 DEF Takes
    <3> QED BY <1>7, <1>8, <3>1, <3>2, <3>3
  <2> QED BY <1>19, <2>1, <2>2, <2>3 DEF Takes
<1>20. client'[t].opened <= 1 => client[t].opened <= 1 /\ \A u \in Trackers : Takes(t, u)' => Takes(t, u)
  BY <1>11, <1>19
<1> QED BY <1>9, <1>14, <1>17, <1>18, <1>20, StepOf
-----------------------------------------------------------------------------
\* What the server sends to d in answer to c before it relays anything.
Answering(c, d) == IF d = c THEN Append(toClient[d], Response) ELSE toClient[d]

Outbox(c, offers, targets, n, d) ==
  toClient[d] \o (IF d = c THEN <<Response>> ELSE <<>>) \o
    (IF d \in Range(SubSeq(targets, 1, n))
     THEN <<Relayed("offer", offers[CHOOSE i \in 1..n : targets[i] = d], c)>> ELSE <<>>)
Outgoing(c, offers, targets, n) == [d \in Sockets |-> Outbox(c, offers, targets, n, d)]

\* The response comes first.
LEMMA AnsweringLemma ==
  ASSUME Queues, NEW c \in Sockets, NEW d \in Sockets
  PROVE  /\ Answering(c, d) \in Seq(Mail)
         /\ toClient[d] \o (IF d = c THEN <<Response>> ELSE <<>>) = Answering(c, d)
<1>1. PICK q \in Seq(Mail) : q = toClient[d]
  BY DEF Queues
<1>2. Response \in Mail
  BY DEF Mail
<1>3. CASE d = c
  <2>1. q \o <<Response>> = Append(q, Response) /\ Append(q, Response) \in Seq(Mail)
    BY <1>2
  <2> QED BY <1>1, <1>3, <2>1 DEF Answering
<1>4. CASE d # c
  <2>1. q \o <<>> = q
    OBVIOUS
  <2> QED BY <1>1, <1>4, <2>1 DEF Answering
<1> QED BY <1>3, <1>4

\* Who is sent an offer.
LEMMA OffersSent ==
  ASSUME Queues, NEW c \in Sockets, NEW S, NEW offers \in Seq(S), Available(c) \in SUBSET Sockets,
         Send(c, offers)
  PROVE  /\ toClient' = [d \in Sockets |-> toClient'[d]]
         /\ \A d \in Sockets :
              \/ toClient'[d] = Answering(c, d)
              \/ d \in Available(c) /\ \E i \in 1..Len(offers) :
                   toClient'[d] = Append(Answering(c, d), Relayed("offer", offers[i], c))
<1>1. PICK open : open = Available(c)
  OBVIOUS
<1>2. Cardinality(open) \in Nat /\ Len(offers) \in Nat
  BY <1>1, SocketsFinite, FS_Subset, FS_CardinalityType
<1>3. PICK n \in Nat : n = IF Len(offers) < Cardinality(open) THEN Len(offers) ELSE Cardinality(open)
  BY <1>2
<1>4. PICK targets \in SetToSeqs(open) : toClient' = Outgoing(c, offers, targets, n)
  <2>1. \E targets \in SetToSeqs(Available(c)) :
          toClient' = Outgoing(c, offers, targets,
                        IF Len(offers) < Cardinality(Available(c)) THEN Len(offers)
                        ELSE Cardinality(Available(c)))
    BY DEF Send, Outgoing, Outbox
  <2> QED BY <1>1, <1>3, <2>1
<1>5. targets \in [1..Cardinality(open) -> open] /\ n <= Cardinality(open) /\ n <= Len(offers)
  <2>1. targets \in [1..Cardinality(open) -> open]
    BY DEF SetToSeqs
  <2> QED BY <1>2, <1>3, <2>1
<1>6. ASSUME NEW d \in Range(SubSeq(targets, 1, n))
      PROVE  d \in open /\ \E i \in 1..n : targets[i] = d
  <2>1. targets \in Seq(open) /\ Len(targets) = Cardinality(open)
    BY <1>2, <1>5
  <2>2. PICK q : q = SubSeq(targets, 1, n)
    OBVIOUS
  <2>3. Len(q) = n /\ \A i \in 1..n : q[i] = targets[i]
    BY <1>2, <1>5, <2>1, <2>2
  <2>4. DOMAIN q = 1..n
    BY <1>2, <1>5, <2>1, <2>2
  <2>5. PICK i \in 1..n : q[i] = d
    BY <1>6, <2>2, <2>4 DEF Range
  <2> QED BY <1>2, <1>5, <2>3, <2>5
<1>7. ASSUME NEW d \in Sockets
      PROVE  \/ toClient'[d] = Answering(c, d)
             \/ d \in open /\ \E i \in 1..Len(offers) :
                  toClient'[d] = Append(Answering(c, d), Relayed("offer", offers[i], c))
  <2>1. PICK q \in Seq(Mail) : q = Answering(c, d)
    BY AnsweringLemma
  <2>2. q = toClient[d] \o (IF d = c THEN <<Response>> ELSE <<>>)
    BY <2>1, AnsweringLemma
  <2>3. CASE d \in Range(SubSeq(targets, 1, n))
    <3>1. PICK i \in 1..n : i = CHOOSE k \in 1..n : targets[k] = d
      BY <1>6, <2>3
    <3>2. toClient'[d] = q \o <<Relayed("offer", offers[i], c)>>
      BY <1>4, <2>2, <2>3, <3>1 DEF Outgoing, Outbox
    <3>3. toClient'[d] = Append(q, Relayed("offer", offers[i], c))
      BY <3>2
    <3>4. i \in 1..Len(offers)
      BY <1>2, <1>5, <3>1
    <3> QED BY <1>6, <2>1, <2>3, <3>3, <3>4
  <2>4. CASE d \notin Range(SubSeq(targets, 1, n))
    <3>1. toClient'[d] = q \o <<>>
      BY <1>4, <2>2, <2>4 DEF Outgoing, Outbox
    <3> QED BY <2>1, <3>1
  <2> QED BY <2>3, <2>4
<1>8. toClient' = [d \in Sockets |-> toClient'[d]]
  BY <1>4 DEF Outgoing
<1> QED BY <1>1, <1>7, <1>8

\* Who is sent an answer.
LEMMA AnswersSent ==
  ASSUME Queues, NEW c \in Sockets, NEW offer, NEW targets, SendAnswerTo(c, offer, targets)
  PROVE  /\ toClient' = [d \in Sockets |-> toClient'[d]]
         /\ \A d \in Sockets :
              \/ toClient'[d] = Answering(c, d)
              \/ toClient'[d] = Append(Answering(c, d), Relayed("answer", offer, c))
<1>1. ASSUME NEW d \in Sockets
      PROVE  \/ toClient'[d] = Answering(c, d)
             \/ toClient'[d] = Append(Answering(c, d), Relayed("answer", offer, c))
  <2>1. PICK q \in Seq(Mail) : q = Answering(c, d)
    BY AnsweringLemma
  <2>2. q = toClient[d] \o (IF d = c THEN <<Response>> ELSE <<>>)
    BY <2>1, AnsweringLemma
  <2>3. toClient'[d] = q \o <<Relayed("answer", offer, c)>> \/ toClient'[d] = q \o <<>>
    BY <2>2 DEF SendAnswerTo
  <2> QED BY <2>1, <2>3
<1>2. toClient' = [d \in Sockets |-> toClient'[d]]
  BY DEF SendAnswerTo
<1> QED BY <1>1, <1>2

\* A queue q to which the server added: answered says that a response is among it, offered
\* that an offer of t may be.
Grown(q, q2, answered, offered, t) ==
  /\ q2 \in Seq(Mail)
  /\ Answered(q) \/ answered => Answered(q2)
  /\ NoOffer(q) /\ ~offered => NoOffer(q2)
  /\ Led(q) /\ (offered => Answered(q)) => Led(q2)
  /\ \A u : OfferOf(q2, u) => OfferOf(q, u) \/ (offered /\ u = t)

\* One more message in it.
LEMMA GrownMore ==
  ASSUME NEW q \in Seq(Mail), NEW a, NEW answered \in BOOLEAN, NEW t, Grown(q, a, answered, FALSE, t),
         NEW m \in Mail, NEW offered \in BOOLEAN,
         m.type = "offer" => a = q /\ offered /\ Maker(m.offer) = t
  PROVE  /\ Grown(q, a, answered, offered, t)
         /\ Grown(q, Append(a, m), answered, offered, t)
         /\ m.type = "response" => Grown(q, Append(a, m), TRUE, offered, t)
<1>1. /\ a \in Seq(Mail) /\ (Answered(q) \/ answered => Answered(a)) /\ (NoOffer(q) => NoOffer(a))
      /\ (Led(q) => Led(a)) /\ \A u : OfferOf(a, u) => OfferOf(q, u)
  BY DEF Grown
<1>2. PICK r : r = Append(a, m)
  OBVIOUS
<1>3. /\ r \in Seq(Mail)
      /\ NoOffer(a) /\ m.type # "offer" => NoOffer(r)
      /\ Answered(a) \/ m.type = "response" => Answered(r)
      /\ Led(a) /\ (m.type = "offer" => Answered(a)) => Led(r)
      /\ \A u : OfferOf(r, u) => OfferOf(a, u) \/ (m.type = "offer" /\ Maker(m.offer) = u)
  BY <1>1, <1>2, AppendMail
<1>4. Grown(q, a, answered, offered, t)
  BY <1>1 DEF Grown
<1>5. Grown(q, r, answered, offered, t) /\ (m.type = "response" => Grown(q, r, TRUE, offered, t))
  BY <1>1, <1>3 DEF Grown
<1> QED BY <1>2, <1>4, <1>5

\* The response, if any.
LEMMA AnsweringGrown ==
  ASSUME Queues, NEW c \in Sockets, NEW d \in Sockets, NEW t
  PROVE  Grown(toClient[d], Answering(c, d), d = c, FALSE, t)
<1>1. PICK q \in Seq(Mail) : q = toClient[d]
  BY DEF Queues
<1>2. Grown(q, q, FALSE, FALSE, t)
  BY DEF Grown
<1>3. Response \in Mail /\ Response.type = "response"
  BY DEF Mail, Response
<1>4. Grown(q, Append(q, Response), TRUE, FALSE, t)
  <2>1. PICK m \in Mail : m = Response /\ m.type = "response"
    BY <1>3
  <2> QED BY <1>2, <2>1, GrownMore
<1>5. CASE d = c
  BY <1>1, <1>4, <1>5 DEF Answering
<1>6. CASE d # c
  BY <1>1, <1>2, <1>6 DEF Answering
<1> QED BY <1>5, <1>6

\* The server has read the offers of c, and one goes to d.
Reached(c, d) == Head(toServer[c]) = Offered(Owner(c)) /\ d \in Available(c)

\* What comes to a socket while the server answers c.
LEMMA ServeMail ==
  ASSUME P!IInv, Queues, NEW c \in Sockets, NEW t \in Trackers, t = Owner(c), Serve(c)
  PROVE  /\ toClient' = [d \in Sockets |-> toClient'[d]]
         /\ \A d \in Sockets : Grown(toClient[d], toClient'[d], d = c, Reached(c, d), t)
         /\ Available(c) \in SUBSET Sockets
<1>1. PICK m : m = Head(toServer[c])
  OBVIOUS
<1>2. /\ toServer[c] # <<>> /\ toServer[c] \in Seq(Announces(t))
      /\ T!Announce(c, InfoHash[Owner(c)], "started")
      /\ IF m.event = "started" THEN Send(c, m.offers)
         ELSE SendAnswerTo(c, m.offer, FirstWith(PeerId[Maker(m.offer)], hashes'))
  BY <1>1 DEF Serve, Queues
<1>3. m \in Announces(t)
  BY <1>1, <1>2
<1>4. \/ m = Offered(t) /\ m.event = "started" /\ m.offers = [k \in 1..Offers |-> <<t, k>>]
      \/ m.event # "started" /\ m.offer \in AllOffers
  <2>1. PICK f : f = [k \in 1..Offers |-> <<t, k>>]
    OBVIOUS
  <2>2. CASE m = Offered(t)
    <3>1. m = Started(f)
      BY <2>1, <2>2 DEF Offered
    <3>2. m.event = "started" /\ m.offers = f
      BY <3>1 DEF Started
    <3> QED BY <2>1, <2>2, <3>2
  <2>3. CASE m # Offered(t)
    <3>1. PICK x \in AllOffers : m = Answer(x)
      BY <1>3, <2>3 DEF Announces
    <3> QED BY <3>1 DEF Answer
  <2> QED BY <2>2, <2>3
<1>5. Available(c) \in SUBSET Sockets
  <2>1. InfoHash[Owner(c)] \in Torrents
    BY DEF Torrents, Sockets, Owner
  <2>2. swarms'.members[InfoHash[Owner(c)]] \subseteq Sockets
    BY <1>2, <2>1, AnnounceJoins
  <2> QED BY <2>2 DEF Available
<1>6. \A x \in AllOffers, k \in {"offer", "answer"} :
        Relayed(k, x, c) \in Mail /\ Relayed(k, x, c).type = k /\ Relayed(k, x, c).offer = x
  BY DEF Relayed, Mail
<1>7. CASE m = Offered(t) /\ m.event = "started" /\ m.offers = [k \in 1..Offers |-> <<t, k>>]
  <2>1. PICK offers \in Seq(AllOffers) : offers = m.offers
    BY <1>7, SignallingAssumption DEF AllOffers
  <2>2. \A i \in 1..Len(offers) : offers[i] \in AllOffers /\ Maker(offers[i]) = t
    BY <1>7, <2>1, SignallingAssumption DEF AllOffers, Maker
  <2>3. /\ toClient' = [d \in Sockets |-> toClient'[d]]
        /\ \A d \in Sockets :
             \/ toClient'[d] = Answering(c, d)
             \/ d \in Available(c) /\ \E i \in 1..Len(offers) :
                  toClient'[d] = Append(Answering(c, d), Relayed("offer", offers[i], c))
    <3>1. Send(c, offers)
      BY <1>2, <1>7, <2>1
    <3> QED BY <1>5, <3>1, OffersSent
  <2>4. ASSUME NEW d \in Sockets
        PROVE  Grown(toClient[d], toClient'[d], d = c, Reached(c, d), t)
    <3>1. PICK q \in Seq(Mail) : q = toClient[d]
      BY DEF Queues
    <3>2. PICK a : a = Answering(c, d) /\ Grown(q, a, d = c, FALSE, t)
      BY <3>1, AnsweringGrown
    <3>3. PICK offered \in BOOLEAN : offered = Reached(c, d)
      BY DEF Reached
    <3>4. CASE toClient'[d] = a
      <4>1. Grown(q, a, d = c, offered, t)
        BY <3>2 DEF Grown
      <4> QED BY <3>1, <3>3, <3>4, <4>1
    <3>5. CASE d \in Available(c) /\ \E i \in 1..Len(offers) :
                 toClient'[d] = Append(a, Relayed("offer", offers[i], c))
      <4>1. PICK i \in 1..Len(offers) : toClient'[d] = Append(a, Relayed("offer", offers[i], c))
        BY <3>5
      <4>2. PICK x : x = Relayed("offer", offers[i], c)
        OBVIOUS
      <4>3. x \in Mail /\ x.type = "offer" /\ Maker(x.offer) = t
        BY <1>6, <2>2, <4>2
      <4>4. d # c /\ a = q /\ offered
        BY <1>1, <1>7, <3>1, <3>2, <3>3, <3>5 DEF Available, Reached, Answering
      <4>5. Grown(q, a, FALSE, FALSE, t)
        BY <3>2, <4>4
      <4>6. Grown(q, Append(a, x), FALSE, offered, t)
        BY <4>3, <4>4, <4>5, GrownMore
      <4>7. Grown(q, Append(a, x), d = c, offered, t)
        BY <4>4, <4>6
      <4> QED BY <3>1, <3>3, <4>1, <4>2, <4>7
    <3> QED BY <2>3, <3>2, <3>4, <3>5
  <2> QED BY <1>5, <2>3, <2>4
<1>8. CASE m.event # "started" /\ m.offer \in AllOffers
  <2>1. PICK x : x = Relayed("answer", m.offer, c) /\ x \in Mail /\ x.type = "answer"
    BY <1>6, <1>8
  <2>2. /\ toClient' = [d \in Sockets |-> toClient'[d]]
        /\ \A d \in Sockets : toClient'[d] \in {Answering(c, d), Append(Answering(c, d), x)}
    BY <1>2, <1>8, <2>1, AnswersSent
  <2>3. ASSUME NEW d \in Sockets
        PROVE  Grown(toClient[d], toClient'[d], d = c, Reached(c, d), t)
    <3>1. PICK q \in Seq(Mail) : q = toClient[d]
      BY DEF Queues
    <3>2. PICK a : a = Answering(c, d) /\ Grown(q, a, d = c, FALSE, t)
      BY <3>1, AnsweringGrown
    <3>3. PICK offered \in BOOLEAN : offered = Reached(c, d)
      BY DEF Reached
    <3>4. PICK answered \in BOOLEAN : answered = (d = c)
      OBVIOUS
    <3>5. Grown(q, a, answered, offered, t) /\ Grown(q, Append(a, x), answered, offered, t)
      <4>1. Grown(q, a, answered, FALSE, t)
        BY <3>2, <3>4
      <4>2. x.type # "offer"
        BY <2>1
      <4> QED BY <2>1, <4>1, <4>2, GrownMore
    <3> QED BY <2>2, <3>1, <3>2, <3>3, <3>4, <3>5
  <2> QED BY <1>5, <2>2, <2>3
<1> QED BY <1>4, <1>7, <1>8

\* What is left of a sequence of S without its head is a sequence of S.
LEMMA TailSeq == ASSUME NEW S, NEW q \in Seq(S), q # <<>> PROVE Tail(q) \in Seq(S)
  OBVIOUS

\* The server reads a message of c.
LEMMA ServeQueues ==
  ASSUME Queues, P!IInv, NEW c \in Sockets, NEW t \in Trackers, t = Owner(c), Serve(c)
  PROVE  /\ toServer[c] # <<>> /\ toServer[c] \in Seq(Announces(t))
         /\ toServer'[c] = Tail(toServer[c]) /\ \A d \in Sockets : d # c => toServer'[d] = toServer[d]
         /\ Queues'
<1>1. /\ toServer[c] # <<>> /\ toServer' = [toServer EXCEPT ![c] = Tail(@)]
      /\ toServer[c] \in Seq(Announces(t))
  BY DEF Serve, Queues
<1>2. PICK r \in Seq(Announces(t)) : r = Tail(toServer[c])
  <2>1. Tail(toServer[c]) \in Seq(Announces(t))
    BY <1>1, TailSeq
  <2> QED BY <2>1
<1>3. toServer' = [toServer EXCEPT ![c] = r]
  BY <1>1, <1>2
<1>4. /\ toServer' = [d \in Sockets |-> toServer'[d]]
      /\ toServer'[c] = r /\ \A d \in Sockets : d # c => toServer'[d] = toServer[d]
  BY <1>3 DEF Queues
<1>5. \A d \in Sockets : toServer'[d] \in Seq(Announces(Owner(d)))
  BY <1>4 DEF Queues
<1>6. toClient' \in [Sockets -> Seq(Mail)]
  <2>1. toClient' = [d \in Sockets |-> toClient'[d]]
    BY ServeMail
  <2>2. \A d \in Sockets : toClient'[d] \in Seq(Mail)
    BY ServeMail DEF Grown
  <2> QED BY <2>1, <2>2
<1> QED BY <1>1, <1>2, <1>4, <1>5, <1>6 DEF Queues

\* An offer goes to another tracker's open socket that has been in a swarm already.
LEMMA ReachedLemma ==
  ASSUME P!IInv, NEW c \in Sockets, NEW t \in Trackers, t = Owner(c), Serve(c)
  PROVE  /\ \A d \in Sockets : Reached(c, d) =>
              d # c /\ Owner(d) # t /\ sock[d] = "open" /\ Joined(d) # {} /\ Head(toServer[c]) = Offered(t)
         /\ \A d \in Sockets : d # c => Joined(d)' \subseteq Joined(d)
<1>1. T!Announce(c, InfoHash[Owner(c)], "started") /\ InfoHash[t] \in Torrents
  BY DEF Serve, Torrents
<1>2. \A i \in Torrents : swarms'.members[i] \subseteq swarms.members[i] \cup {c}
  BY <1>1, AnnounceJoins
<1>3. sock' = sock
  BY <1>1 DEF T!Announce
<1>4. ASSUME NEW d \in Sockets, Reached(c, d)
      PROVE  d # c /\ Owner(d) # t /\ sock[d] = "open" /\ Joined(d) # {} /\ Head(toServer[c]) = Offered(t)
  <2>1. d \in Available(c) /\ Head(toServer[c]) = Offered(t)
    BY <1>4 DEF Reached
  <2>2. d # c /\ d \in swarms'.members[InfoHash[t]] /\ sock[d] = "open" /\ PeerId[Owner(d)] # PeerId[t]
    BY <2>1, <1>3 DEF Available
  <2>3. InfoHash[t] \in Joined(d)
    BY <1>1, <1>2, <2>2 DEF Joined
  <2> QED BY <2>1, <2>2, <2>3
<1>5. \A d \in Sockets : d # c => Joined(d)' \subseteq Joined(d)
  BY <1>2 DEF Joined
<1> QED BY <1>4, <1>5

\* The server reads an announce: who gets offers of c has had the response before, and c has
\* taken none.
LEMMA ServeOffers ==
  ASSUME SocketInv, P!IInv, OfferInv, NEW c \in Sockets, Serve(c)
  PROVE  OfferInv'
<1>1. PICK t \in Trackers : t = Owner(c)
  BY InvAt
<1>2. /\ UNCHANGED <<client, session, cs>> /\ sock[c] = "open" /\ sock' = sock
      /\ T!Announce(c, InfoHash[Owner(c)], "started")
  BY DEF Serve, T!Announce
<1>3. Queues /\ FreshEnds /\ session = [u \in Trackers |-> session[u]] /\ Crossing
      /\ \A u \in Trackers : SideOf(u)
  BY DEF OfferInv
<1>4. /\ toServer[c] # <<>> /\ toServer[c] \in Seq(Announces(t))
      /\ toServer'[c] = Tail(toServer[c]) /\ \A d \in Sockets : d # c => toServer'[d] = toServer[d]
      /\ Queues'
  BY <1>1, <1>3, ServeQueues
<1>5. \A d \in Sockets : Grown(toClient[d], toClient'[d], d = c, Reached(c, d), t)
  BY <1>1, <1>3, ServeMail
<1>6. /\ \A d \in Sockets : Reached(c, d) =>
           d # c /\ Owner(d) # t /\ sock[d] = "open" /\ Joined(d) # {} /\ Head(toServer[c]) = Offered(t)
      /\ \A d \in Sockets : d # c => Joined(d)' \subseteq Joined(d)
  BY <1>1, ReachedLemma
<1>7. ~Fresh(cs[c]) /\ cs[c] # "none"
  BY <1>2, <1>3 DEF FreshEnds, Fresh
<1>8. \A u \in Trackers : /\ First(u) \in Sockets /\ Owner(First(u)) = u /\ First(u)' = First(u)
                          /\ u # t => First(u) # c
  BY <1>1, FirstLemma DEF First
<1>9. client[t].opened <= 1 => c = First(t)
  BY <1>1, <1>7, FirstLemma
<1>10. ASSUME NEW u \in Trackers, client[u].opened <= 1 PROVE EarlyAt(u) \/ LateAt(u)
  BY <1>3, <1>10 DEF SideOf, Side, EarlyAt, LateAt
<1>11. ASSUME client[t].opened <= 1 PROVE LateAt(t)'
  <2>1. /\ NoOffer(toClient[c]) => NoOffer(toClient'[c])
        /\ Led(toClient[c]) => Led(toClient'[c])
        /\ Answered(toClient'[c])
    BY <1>5, <1>6 DEF Grown
  <2>2. /\ ~Has(Tail(toServer[c]), Offered(t))
        /\ cs[c] = "open" /\ Has(client[t].pending, Offered(t)) =>
             session[t].answering = {} /\ Led(toClient'[c])
    <3>1. CASE EarlyAt(t)
      <4>1. toServer[c] = <<Offered(t)>> /\ session[t].answering = {} /\ NoOffer(toClient[c])
        BY <1>7, <1>9, <1>11, <3>1 DEF EarlyAt, Early
      <4>2. Tail(toServer[c]) = <<>>
        BY <4>1
      <4>3. Led(toClient'[c])
        BY <2>1, <4>1 DEF NoOffer, Led
      <4> QED BY <4>1, <4>2, <4>3, NothingIn
    <3>2. CASE LateAt(t)
      <4>1. ~Has(toServer[c], Offered(t))
        BY <1>9, <1>11, <3>2 DEF LateAt, Late
      <4>2. ~Has(Tail(toServer[c]), Offered(t))
        BY <1>4, <4>1, HasLemma
      <4> QED BY <1>9, <1>11, <2>1, <3>2, <4>2 DEF LateAt, Late
    <3> QED BY <1>10, <1>11, <3>1, <3>2
  <2>3. Late(t, client'[t], session'[t], cs'[First(t)], sock'[First(t)], toServer'[First(t)],
             toClient'[First(t)], Joined(First(t))')
    BY <1>2, <1>4, <1>7, <1>9, <1>11, <2>1, <2>2 DEF Late
  <2> QED BY <1>8, <2>3 DEF LateAt, First
<1>12. ASSUME NEW u \in Trackers, u # t, client[u].opened <= 1 PROVE EarlyAt(u)' \/ LateAt(u)'
  <2>1. PICK d \in Sockets : d = First(u) /\ d # c
    BY <1>8, <1>12
  <2>2. /\ toServer'[d] = toServer[d] /\ Joined(d)' \subseteq Joined(d)
        /\ NoOffer(toClient[d]) /\ ~Reached(c, d) => NoOffer(toClient'[d])
        /\ Answered(toClient[d]) => Answered(toClient'[d])
        /\ Led(toClient[d]) /\ (Reached(c, d) => Answered(toClient[d])) => Led(toClient'[d])
        /\ Reached(c, d) => sock[d] = "open" /\ Joined(d) # {}
    BY <1>4, <1>5, <1>6, <2>1 DEF Grown
  <2>3. CASE EarlyAt(u)
    <3>1. Early(u, client'[u], session'[u], cs'[d], toServer'[d], toClient'[d], Joined(d)')
      BY <1>2, <2>1, <2>2, <2>3 DEF EarlyAt, Early
    <3> QED BY <2>1, <3>1 DEF EarlyAt, First
  <2>4. CASE LateAt(u)
    <3>1. Late(u, client'[u], session'[u], cs'[d], sock'[d], toServer'[d], toClient'[d], Joined(d)')
      BY <1>2, <2>1, <2>2, <2>4 DEF LateAt, Late
    <3> QED BY <2>1, <3>1 DEF LateAt, First
  <2> QED BY <1>10, <1>12, <2>3, <2>4
<1>13. ASSUME NEW u \in Trackers PROVE SideOf(u)'
  <2>1. client'[u].opened <= 1 => EarlyAt(u)' \/ LateAt(u)'
    BY <1>2, <1>11, <1>12
  <2>2. /\ client'[u].pending \in Seq(Announces(u)) /\ DOMAIN session'[u] = SessionFields
        /\ session'[u].taken \subseteq AllOffers /\ session'[u].answering \subseteq AllOffers
        /\ session'[u].started <=> client'[u].opened # 0
        /\ client'[u].opened = 0 => client'[u].timers = 0 /\ client'[u].pending = <<>>
    BY <1>2, <1>3 DEF SideOf, Side
  <2> QED BY <2>1, <2>2 DEF SideOf, Side, EarlyAt, LateAt
<1>14. ASSUME NEW u \in Trackers, NEW v \in Trackers, Takes(u, v)'
       PROVE  Takes(u, v) \/ (Reached(c, First(u)) /\ v = t)
  <2>1. OfferOf(toClient'[First(u)], v) => OfferOf(toClient[First(u)], v) \/ (Reached(c, First(u)) /\ v = t)
    BY <1>5, <1>8 DEF Grown
  <2> QED BY <1>2, <1>8, <1>14, <2>1 DEF Takes
<1>15. ASSUME NEW u \in Trackers, Reached(c, First(u)), client[t].opened <= 1
       PROVE  ~Takes(t, u)'
  <2>1. EarlyAt(t)
    <3>1. Head(toServer[c]) = Offered(t)
      BY <1>6, <1>8, <1>15
    <3>2. Has(toServer[c], Offered(t))
      <4>1. 1 \in 1..Len(toServer[c]) /\ Head(toServer[c]) = toServer[c][1]
        BY <1>4
      <4> QED BY <3>1, <4>1 DEF Has
    <3> QED BY <1>9, <1>10, <1>15, <3>2 DEF LateAt, Late
  <2>2. session[t].taken = {} /\ NoOffer(toClient[First(t)])
    BY <2>1 DEF EarlyAt, Early
  <2>3. ~Takes(t, u)
    BY <2>2 DEF Takes, NoOffer, OfferOf
  <2>4. ~Reached(c, First(t))
    BY <1>6, <1>8, <1>9, <1>15
  <2> QED BY <1>14, <2>3, <2>4
<1>16. Crossing'
  <2> SUFFICES ASSUME NEW u \in Trackers, NEW v \in Trackers,
                      client'[u].opened <= 1, client'[v].opened <= 1, Takes(u, v)', Takes(v, u)'
               PROVE  FALSE
    BY DEF Crossing
  <2>1. client[u].opened <= 1 /\ client[v].opened <= 1
    BY <1>2
  <2>2. CASE Takes(u, v) /\ Takes(v, u)
    BY <1>3, <2>1, <2>2 DEF Crossing
  <2>3. CASE Reached(c, First(u)) /\ v = t
    BY <1>15, <2>1, <2>3
  <2>4. CASE Reached(c, First(v)) /\ u = t
    BY <1>15, <2>1, <2>4
  <2> QED BY <1>14, <2>2, <2>3, <2>4
<1>17. FreshEnds' /\ session' = [u \in Trackers |-> session'[u]]
  BY <1>2, <1>3 DEF FreshEnds
<1> QED BY <1>4, <1>13, <1>16, <1>17 DEF OfferInv
-----------------------------------------------------------------------------
\* Initially nobody is in a swarm.
LEMMA InitMembers ==
  ASSUME SignallingInit, NEW c
  PROVE  Joined(c) = {}
<1>1. swarms.members = [h \in Torrents |-> {}]
  BY DEF SignallingInit, T!Init
<1> QED BY <1>1 DEF Joined

\* Nothing is offered initially.
LEMMA InitOffers ==
  ASSUME SignallingInit
  PROVE  OfferInv
<1>1. /\ client = [t \in Trackers |-> NewTracker] /\ session = [t \in Trackers |-> NewSession]
      /\ cs = [c \in Sockets |-> "none"] /\ sock = [c \in Sockets |-> "none"]
      /\ toServer = [c \in Sockets |-> <<>>] /\ toClient = [c \in Sockets |-> <<>>]
  BY DEF SignallingInit, T!Init
<1>2. Queues
  <2>1. \A S : <<>> \in Seq(S)
    OBVIOUS
  <2> QED BY <1>1, <2>1 DEF Queues
<1>3. FreshEnds /\ session = [t \in Trackers |-> session[t]]
  BY <1>1 DEF FreshEnds
<1>4. ASSUME NEW t \in Trackers PROVE SideOf(t) /\ session[t].taken = {} /\ toClient[First(t)] = <<>>
  <2>1. First(t) \in Sockets
    BY SignallingAssumption DEF First, Sockets
  <2>2. Joined(First(t)) = {}
    BY InitMembers
  <2>3. /\ client[t].pending = <<>> /\ client[t].opened = 0 /\ client[t].timers = 0
        /\ DOMAIN session[t] = SessionFields /\ session[t].taken = {} /\ session[t].answering = {}
        /\ session[t].started = FALSE
    BY <1>1 DEF NewTracker, NewSession, SessionFields
  <2>4. cs[First(t)] = "none" /\ toServer[First(t)] = <<>> /\ toClient[First(t)] = <<>>
    BY <1>1, <2>1
  <2>5. Early(t, client[t], session[t], cs[First(t)], toServer[First(t)], toClient[First(t)], Joined(First(t)))
    BY <2>2, <2>3, <2>4, NothingIn DEF Early, Fresh
  <2>6. <<>> \in Seq(Announces(t))
    OBVIOUS
  <2> QED BY <2>3, <2>4, <2>5, <2>6 DEF SideOf, Side
<1>5. Crossing
  BY <1>4 DEF Crossing, Takes, OfferOf
<1> QED BY <1>2, <1>3, <1>4, <1>5 DEF OfferInv

\* Every step keeps what holds of offers, of the sockets and of the server.
LEMMA NextOffers ==
  ASSUME SocketInv, P!IInv, OfferInv, [SignallingNext]_signallingVars
  PROVE  OfferInv'
<1>1. ASSUME NEW t \in Trackers, Start(t) \/ Destroy(t) \/ Reconnect(t) PROVE OfferInv'
  BY <1>1, StartOffers, DestroyOffers, ReconnectOffers
<1>2. ASSUME NEW t \in Trackers, NEW offer, SendAnswer(t, offer) PROVE OfferInv'
  BY <1>2, SendAnswerOffers
<1>3. ASSUME NEW c \in Sockets, Open(c) \/ Refused(c) \/ Closed(c) \/ Receive(c) PROVE OfferInv'
  BY <1>3, OpenOffers, RefusedOffers, ClosedOffers, ReceiveOffers
<1>4. ASSUME NEW c \in Sockets, Lose(c) \/ Serve(c) \/ ServerClosed(c) PROVE OfferInv'
  BY <1>4, LoseOffers, ServeOffers, ServerClosedOffers
<1>5. CASE UNCHANGED signallingVars
  BY <1>5 DEF signallingVars, server, OfferInv, Queues, FreshEnds, SideOf, Crossing, Takes, Joined, First
<1> QED BY <1>1, <1>2, <1>3, <1>4, <1>5 DEF SignallingNext

\* What holds of offers in every behaviour, beside the sockets and the server.
THEOREM OfferInvariant == SignallingSpec => []OfferInv
<1>1. SignallingInit => SocketInv /\ P!IInv /\ OfferInv
  BY InitSocketInv, InitServer, InitOffers
<1>2. SocketInv /\ P!IInv /\ OfferInv /\ [SignallingNext]_signallingVars
        => SocketInv' /\ P!IInv' /\ OfferInv'
  BY NextSocketInv, NextServer, NextOffers
<1> QED BY <1>1, <1>2, PTL DEF SignallingSpec

\* OffersCrossNot: two clients take offers of each other only if one of them connected again
\* (handleWebSocketSignaling, and _flushAnnounces that sends what is pending once more).
THEOREM OffersCrossNotHolds == SignallingSpec => []OffersCrossNot
<1>1. SocketInv /\ OfferInv => OffersCrossNot
  <2> SUFFICES ASSUME SocketInv, OfferInv, NEW t \in Trackers, NEW u \in Trackers,
                      \E offer \in session[t].taken : Maker(offer) = u,
                      \E offer \in session[u].taken : Maker(offer) = t
               PROVE  client[t].opened > 1 \/ client[u].opened > 1
    BY DEF OffersCrossNot
  <2>1. Takes(t, u) /\ Takes(u, t)
    BY DEF Takes
  <2>2. client[t].opened \in Nat /\ client[u].opened \in Nat
    BY FirstLemma
  <2>3. ~(client[t].opened <= 1 /\ client[u].opened <= 1)
    BY <2>1 DEF OfferInv, Crossing
  <2> QED BY <2>2, <2>3
<1> QED BY <1>1, OfferInvariant, SocketInvariant, PTL
=============================================================================

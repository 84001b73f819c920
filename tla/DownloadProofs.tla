--------------------------- MODULE DownloadProofs ---------------------------
(***************************************************************************)
(* Proofs about Download, for every number of wires, pieces and blocks:    *)
(* the loop refines the accounting of Torrent, asks for just the blocks it *)
(* collects, and does not rest while there is something to ask for.        *)
(***************************************************************************)
EXTENDS Download, RecursionLemmas, TLAPS
-----------------------------------------------------------------------------
(***************************************************************************)
(* Refinement                                                              *)
(***************************************************************************)

\* A step of a wire or of the session is a step of the accounting, or leaves it alone.
LEMMA StepRefines == [Next]_vars => [T!Next]_(T!torrentVars)
<1> SUFFICES ASSUME [Next]_vars PROVE [T!Next]_torrentVars
  BY DEF torrentVars, T!torrentVars
<1>1. CASE UNCHANGED vars
  BY <1>1 DEF vars
<1>2. CASE \E skip \in BOOLEAN : InitSession(skip)
  BY <1>2 DEF InitSession, T!Next
<1>3. CASE SetMetadata
  BY <1>3 DEF SetMetadata, T!Next
<1>4. CASE \E s \in Rescans : Rescan(s)
  BY <1>4 DEF Rescan, T!Next
<1>5. CASE \E s \in T!Scanners : ScanStep(s)
  BY <1>5 DEF ScanStep, T!Next
<1>6. CASE \E w \in Wires : Open(w) \/ Register(w) \/ OnUnchoke(w) \/ OnChoke(w) \/ OnClose(w)
  BY <1>6 DEF Open, Register, OnUnchoke, OnChoke, OnClose, torrentVars
<1>7. CASE \E w \in Wires, S \in SUBSET Pieces : OnHave(w, S)
  BY <1>7 DEF OnHave, torrentVars
<1>8. CASE \E w \in Wires, i \in Pieces, b \in Blocks : OnBlock(w, i, b)
  <2>1. PICK w \in Wires, i \in Pieces, b \in Blocks : OnBlock(w, i, b)
    BY <1>8
  <2>2. CASE UNCHANGED torrentVars
    BY <2>2
  <2>3. CASE \E slot \in 1..Slots, good \in BOOLEAN : T!ReceiveStart(<<w, slot>>, i, good)
    BY <2>3 DEF T!Next, Calls, Pieces
  <2> QED BY <2>1, <2>2, <2>3 DEF OnBlock
<1>9. CASE \E r \in Calls : ReceiveStep(r) \/ AfterReceive(r)
  BY <1>9 DEF ReceiveStep, AfterReceive, T!ReceiveStep, T!Next
<1> QED BY <1>1, <1>2, <1>3, <1>4, <1>5, <1>6, <1>7, <1>8, <1>9 DEF Next

\* The loops of all wires drive the accounting only through the calls of Torrent, so
\* that what is proved of it holds of a session under any number of wires.
THEOREM AccountingRefinedHolds == Spec => AccountingRefined
<1>1. Init => T!Init
  BY DEF Init
<1>2. [Next]_vars => [T!Next]_(T!torrentVars)
  BY StepRefines
<1> QED BY <1>1, <1>2, PTL DEF Spec, AccountingRefined, T!Spec
-----------------------------------------------------------------------------
(***************************************************************************)
(* The blocks asked for                                                    *)
(***************************************************************************)

\* Nothing else is on its way on a wire than what its active piece misses; before the
\* handshake is over it has neither.  Without chokes a connected wire waits for all of it.
Shape ==
  /\ DOMAIN wire = Wires /\ DOMAIN active = Wires /\ DOMAIN asked = Wires
  /\ \A w \in Wires : DOMAIN active[w] = {"index", "left"}
Missing(w) == {active[w].index} \X active[w].left
Waits(w) ==
  /\ asked[w] \subseteq Missing(w)
  /\ wire[w] \in {"absent", "handshaking"} => asked[w] = {} /\ active[w] = NoPiece
  /\ "choke" \notin Faults /\ wire[w] = "connected" => asked[w] = Missing(w)
LoopInv == Shape /\ \A w \in Wires : Waits(w)

\* What requestBlocks does on one wire: nothing, or a whole piece is asked for.
AsksOnePiece(w) ==
  /\ active[w] = NoPiece /\ wire'[w] = "connected"
  /\ \E i : /\ active'[w] = [index |-> i, left |-> Blocks]
           /\ asked'[w] = asked[w] \cup Requests(i)
LEMMA RequestBlocksLemma ==
  ASSUME Shape, NEW W, RequestBlocks(W)
  PROVE  /\ DOMAIN active' = Wires /\ DOMAIN asked' = Wires
         /\ \A w \in Wires : \/ active'[w] = active[w] /\ asked'[w] = asked[w]
                            \/ AsksOnePiece(w)
<1>1. ASSUME NEW w \in Wires
      PROVE  \/ active'[w] = active[w] /\ asked'[w] = asked[w]
             \/ AsksOnePiece(w)
  <2>1. CASE w \in W /\ MayRequest(w)
    <3>1. PICK i : i = First(Wanted(w))
      OBVIOUS
    <3> QED BY <2>1, <3>1 DEF RequestBlocks, AsksOnePiece, MayRequest
  <2>2. CASE ~(w \in W /\ MayRequest(w))
    BY <2>2 DEF RequestBlocks
  <2> QED BY <2>1, <2>2
<1> QED BY <1>1 DEF RequestBlocks

\* A step that ends in requestBlocks, and else only lets wires register.
LEMMA AskIInv ==
  ASSUME LoopInv, NEW W, RequestBlocks(W), DOMAIN wire' = Wires,
         \A w \in Wires : wire'[w] = wire[w] \/ (wire[w] = "handshaking" /\ wire'[w] = "connected")
  PROVE  LoopInv'
<1>1. /\ DOMAIN active' = Wires /\ DOMAIN asked' = Wires
      /\ \A w \in Wires : \/ active'[w] = active[w] /\ asked'[w] = asked[w]
                         \/ AsksOnePiece(w)
  BY RequestBlocksLemma DEF LoopInv
<1>2. ASSUME NEW w \in Wires PROVE Waits(w)' /\ DOMAIN active'[w] = {"index", "left"}
  <2>1. Waits(w) /\ DOMAIN active[w] = {"index", "left"}
    BY DEF LoopInv, Shape
  <2>2. wire'[w] = wire[w] \/ (wire[w] = "handshaking" /\ wire'[w] = "connected")
    OBVIOUS
  <2>3. CASE active'[w] = active[w] /\ asked'[w] = asked[w]
    <3>1. active[w] = NoPiece => Missing(w) = {}
      BY DEF Missing, NoPiece
    <3> QED BY <2>1, <2>2, <2>3, <3>1 DEF Waits, Missing
  <2>4. CASE AsksOnePiece(w)
    <3>1. asked[w] = {}
      BY <2>1, <2>4 DEF Waits, Missing, NoPiece, AsksOnePiece
    <3>2. PICK i : active'[w] = [index |-> i, left |-> Blocks] /\ asked'[w] = {i} \X Blocks
      BY <2>4, <3>1 DEF AsksOnePiece, Requests
    <3>3. wire'[w] = "connected"
      BY <2>4 DEF AsksOnePiece
    <3> QED BY <3>2, <3>3 DEF Waits, Missing
  <2> QED BY <1>1, <2>3, <2>4
<1> QED BY <1>1, <1>2 DEF LoopInv, Shape

\* A step that ends in requestBlocks on the wires there are.
LEMMA AskOnlyIInv ==
  ASSUME LoopInv, UNCHANGED wire, \E W : RequestBlocks(W)
  PROVE  LoopInv'
<1>1. PICK W : RequestBlocks(W)
  OBVIOUS
<1>2. /\ DOMAIN wire' = Wires
      /\ \A w \in Wires : wire'[w] = wire[w] \/ (wire[w] = "handshaking" /\ wire'[w] = "connected")
  BY DEF LoopInv, Shape
<1> QED BY <1>1, <1>2, AskIInv

\* A step that leaves the loops as they are.
LEMMA RestIInv == ASSUME LoopInv, UNCHANGED <<wire, active, asked>> PROVE LoopInv'
BY DEF LoopInv, Shape, Waits, Missing

\* A wire that chokes or closes has nothing on its way any more.
LEMMA DropIInv ==
  ASSUME LoopInv, NEW v \in Wires, UNCHANGED active, asked' = [asked EXCEPT ![v] = {}],
         \/ wire' = wire /\ "choke" \in Faults
         \/ wire' = [wire EXCEPT ![v] = "closed"]
  PROVE  LoopInv'
<1>1. ASSUME NEW w \in Wires PROVE Waits(w)'
  <2>1. Waits(w)
    BY DEF LoopInv
  <2>2. CASE w = v
    <3>1. asked'[w] = {} /\ active'[w] = active[w]
      BY <2>2 DEF LoopInv, Shape
    <3>2. \/ wire'[w] = wire[w] /\ "choke" \in Faults
          \/ wire'[w] = "closed"
      BY <2>2 DEF LoopInv, Shape
    <3> QED BY <2>1, <3>1, <3>2 DEF Waits, Missing
  <2>3. CASE w # v
    BY <2>1, <2>3 DEF LoopInv, Shape, Waits, Missing
  <2> QED BY <2>2, <2>3
<1> QED BY <1>1 DEF LoopInv, Shape

\* The channel of a wire opens.
LEMMA OpenIInv == ASSUME LoopInv, NEW v \in Wires, Open(v) PROVE LoopInv'
<1>1. ASSUME NEW w \in Wires PROVE Waits(w)'
  <2>1. Waits(w) /\ wire'[w] = IF w = v THEN "handshaking" ELSE wire[w]
    BY DEF Open, LoopInv, Shape
  <2>2. w = v => wire[w] = "absent"
    BY DEF Open
  <2> QED BY <2>1, <2>2 DEF Open, Waits, Missing
<1> QED BY <1>1 DEF Open, LoopInv, Shape

\* The "piece" handler collects what it asked for, and the last block of a piece
\* leaves nothing on its way.
LEMMA OnBlockIInv ==
  ASSUME LoopInv, NEW v \in Wires, NEW i \in Pieces, NEW b \in Blocks, OnBlock(v, i, b)
  PROVE  LoopInv'
<1>1. /\ wire[v] = "connected" /\ <<i, b>> \in asked[v] /\ UNCHANGED wire
      /\ asked' = [asked EXCEPT ![v] = @ \ {<<i, b>>}]
  BY DEF OnBlock
<1>2. /\ \A w \in Wires : Waits(w) /\ DOMAIN active[w] = {"index", "left"}
      /\ DOMAIN active = Wires /\ DOMAIN asked = Wires
  BY DEF LoopInv, Shape
<1>3. active[v].index = i /\ b \in active[v].left
  BY <1>1, <1>2 DEF Waits, Missing
<1>4. \/ active[v].left = {b} /\ active' = [active EXCEPT ![v] = NoPiece]
      \/ active' = [active EXCEPT ![v].left = @ \ {b}]
  BY <1>3 DEF OnBlock
<1>5. ASSUME NEW w \in Wires PROVE Waits(w)' /\ DOMAIN active'[w] = {"index", "left"}
  <2>1. CASE w # v
    <3>1. active'[w] = active[w] /\ asked'[w] = asked[w] /\ wire'[w] = wire[w]
      BY <1>1, <1>2, <1>4, <2>1
    <3> QED BY <1>2, <3>1 DEF Waits, Missing
  <2>2. CASE w = v
    <3>1. asked'[w] = asked[w] \ {<<i, b>>} /\ wire'[w] = "connected"
      BY <1>1, <1>2, <2>2
    <3>2. CASE active[v].left = {b} /\ active' = [active EXCEPT ![v] = NoPiece]
      <4>1. active'[w] = NoPiece
        BY <1>2, <2>2, <3>2
      <4>2. Missing(w) = {<<i, b>>}
        BY <1>3, <2>2, <3>2 DEF Missing
      <4>3. asked'[w] = {}
        BY <1>2, <3>1, <4>2 DEF Waits
      <4>4. Missing(w)' = {}
        BY <4>1 DEF Missing, NoPiece
      <4> QED BY <3>1, <4>1, <4>3, <4>4 DEF Waits, NoPiece
    <3>3. CASE active' = [active EXCEPT ![v].left = @ \ {b}]
      <4>1. /\ active'[w].index = i /\ active'[w].left = active[w].left \ {b}
            /\ DOMAIN active'[w] = {"index", "left"}
        BY <1>2, <1>3, <2>2, <3>3
      <4>2. Missing(w)' = Missing(w) \ {<<i, b>>}
        BY <1>3, <2>2, <4>1 DEF Missing
      <4>3. /\ asked[w] \subseteq Missing(w)
            /\ "choke" \notin Faults => asked[w] = Missing(w)
        BY <1>1, <1>2, <2>2 DEF Waits
      <4>4. /\ asked'[w] \subseteq Missing(w)'
            /\ "choke" \notin Faults => asked'[w] = Missing(w)'
        BY <3>1, <4>2, <4>3
      <4>5. asked'[w] \subseteq Missing(w)' /\ wire'[w] = "connected"
              /\ ("choke" \notin Faults => asked'[w] = Missing(w)')
        BY <3>1, <4>4
      <4> QED BY <4>1, <4>5 DEF Waits
    <3> QED BY <1>4, <3>2, <3>3
  <2> QED BY <2>1, <2>2
<1>6. DOMAIN active' = Wires /\ DOMAIN asked' = Wires /\ DOMAIN wire' = Wires
  BY <1>1, <1>2, <1>4 DEF LoopInv, Shape
<1> QED BY <1>5, <1>6 DEF LoopInv, Shape

\* The invariant holds however the wires, the session and the peers interleave.
THEOREM LoopInvariant == Spec => []LoopInv
<1>1. Init => LoopInv
  <2> SUFFICES ASSUME Init PROVE LoopInv
    OBVIOUS
  <2>1. Shape
    BY DEF Init, Shape, NoPiece
  <2>2. \A w \in Wires : Missing(w) = {}
    BY DEF Init, Missing, NoPiece
  <2> QED BY <2>1, <2>2 DEF Init, LoopInv, Waits
<1>2. LoopInv /\ [Next]_vars => LoopInv'
  <2> SUFFICES ASSUME LoopInv, [Next]_vars PROVE LoopInv'
    OBVIOUS
  <2>1. CASE UNCHANGED vars
    BY <2>1, RestIInv DEF vars, loopVars
  <2>2. CASE \E skip \in BOOLEAN : InitSession(skip)
    <3>1. UNCHANGED wire /\ \E W : RequestBlocks(W)
      BY <2>2 DEF InitSession, OnReady, UpdateInterest, loopRest
    <3> QED BY <3>1, AskOnlyIInv
  <2>3. CASE SetMetadata
    <3>1. UNCHANGED wire /\ \E W : RequestBlocks(W)
      BY <2>3 DEF SetMetadata, UpdateInterest, loopRest
    <3> QED BY <3>1, AskOnlyIInv
  <2>4. CASE \E s \in Rescans : Rescan(s)
    BY <2>4, RestIInv DEF Rescan, loopVars
  <2>5. CASE \E s \in T!Scanners : ScanStep(s)
    <3>1. UNCHANGED wire /\ \E W : RequestBlocks(W)
      BY <2>5 DEF ScanStep, OnReady, UpdateInterest, loopRest
    <3> QED BY <3>1, AskOnlyIInv
  <2>6. CASE \E w \in Wires : Open(w)
    BY <2>6, OpenIInv
  <2>7. CASE \E w \in Wires : Register(w)
    <3>1. PICK w \in Wires : Register(w)
      BY <2>7
    <3>2. /\ wire[w] = "handshaking" /\ wire' = [wire EXCEPT ![w] = "connected"]
          /\ \E W : RequestBlocks(W)
      BY <3>1 DEF Register, UpdateInterest
    <3>3. DOMAIN wire' = Wires
          /\ \A v \in Wires :
               wire'[v] = wire[v] \/ (wire[v] = "handshaking" /\ wire'[v] = "connected")
      BY <3>2 DEF LoopInv, Shape
    <3> QED BY <3>2, <3>3, AskIInv
  <2>8. CASE \E w \in Wires : OnUnchoke(w)
    <3>1. UNCHANGED wire /\ \E W : RequestBlocks(W)
      BY <2>8 DEF OnUnchoke, UpdateInterest
    <3> QED BY <3>1, AskOnlyIInv
  <2>9. CASE \E w \in Wires : OnChoke(w) \/ OnClose(w)
    BY <2>9, DropIInv DEF OnChoke, OnClose
  <2>10. CASE \E w \in Wires, S \in SUBSET Pieces : OnHave(w, S)
    <3>1. UNCHANGED wire /\ \E W : RequestBlocks(W)
      BY <2>10 DEF OnHave, UpdateInterest
    <3> QED BY <3>1, AskOnlyIInv
  <2>11. CASE \E w \in Wires, i \in Pieces, b \in Blocks : OnBlock(w, i, b)
    BY <2>11, OnBlockIInv
  <2>12. CASE \E r \in Calls : ReceiveStep(r)
    BY <2>12, RestIInv DEF ReceiveStep, loopVars
  <2>13. CASE \E r \in Calls : AfterReceive(r)
    <3>1. UNCHANGED wire /\ \E W : RequestBlocks(W)
      BY <2>13 DEF AfterReceive, loopRest
    <3> QED BY <3>1, AskOnlyIInv
  <2> QED BY <2>1, <2>2, <2>3, <2>4, <2>5, <2>6, <2>7, <2>8, <2>9, <2>10, <2>11, <2>12,
             <2>13 DEF Next
<1> QED BY <1>1, <1>2, PTL DEF Spec

\* Whatever a peer chokes, forgets or answers, each block that may still arrive is one
\* the active piece waits for (the "piece" handler of _registerWire drops none).
THEOREM AnswersAreCollectedHolds == Spec => []AnswersAreCollected
<1>1. LoopInv => AnswersAreCollected
  BY DEF LoopInv, AnswersAreCollected, Waits, Missing
<1> QED BY <1>1, LoopInvariant, PTL

\* While no peer chokes, a connected wire waits for exactly the blocks its active piece
\* misses (requestBlocks and the "piece" handler).
THEOREM WaitsForWhatItMissesHolds == Spec => []WaitsForWhatItMisses
<1>1. LoopInv => WaitsForWhatItMisses
  BY DEF LoopInv, WaitsForWhatItMisses, Waits, Missing
<1> QED BY <1>1, LoopInvariant, PTL
-----------------------------------------------------------------------------
(***************************************************************************)
(* No wire rests                                                           *)
(***************************************************************************)

\* The accounting as far as the loop needs it: without destroy the store stays open.
Books ==
  /\ storeState = "open" /\ credited \in [Pieces -> Nat]
  /\ scan \in [T!Scanners -> [phase : {"idle", "get", "hash", "done"}, at : Nat]]
  /\ call \in [Calls -> T!Calls]
Begins == T!Started \/ \A w \in Wires : wire[w] = "absent"
BusyInv == Books /\ Begins /\ WireIsBusy

\* The two halves of WireIsBusy for one wire.
MayAsk(w) ==
  /\ \A s \in Rescans : scan[s].phase = "idle"
  /\ \A v \in Wires \ {w} : wire[v] = "absent"
  /\ wire[w] = "connected" /\ ~peerChoking[w] /\ ~T!Done
  /\ known /\ remotePieces[w] \ bitfield # {}
Working(w) ==
  \/ active[w] # NoPiece
  \/ \E slot \in 1..Slots : call[<<w, slot>>].phase # "idle"
  \/ T!Active("metadata")

\* What is added to _downloaded before the metadata reset it stays in it.
Grows == \A i \in Pieces : credited[i] <= credited'[i]

\* More additions make a larger sum, so a torrent that is done stays so.
LEMMA DoneLemma ==
  ASSUME Books, Books', Grows, known' = known, T!Done
  PROVE  T!Done'
<1> DEFINE f == [i \in Pieces |-> credited[i] * T!PieceLen(i)]
           h == [i \in Pieces |-> credited'[i] * T!PieceLen(i)]
<1>1. IsFiniteSet(Pieces)
  <2>1. 0 \in Int /\ NumPieces - 1 \in Int
    BY DownloadAssumption
  <2> QED BY <2>1, FS_Interval DEF Pieces, T!Pieces
<1>2. ASSUME NEW i \in Pieces PROVE f[i] \in Nat /\ h[i] \in Nat /\ f[i] <= h[i]
  <2>1. PICK a \in Nat, d \in Nat, n \in Nat :
          a = credited[i] /\ a + d = credited'[i] /\ n = T!PieceLen(i)
    <3>1. T!PieceLen(i) \in Nat
      BY DownloadAssumption DEF T!PieceLen
    <3>2. PICK a \in Nat, b \in Nat : a = credited[i] /\ b = credited'[i]
      BY DEF Books
    <3>3. a <= b
      BY <3>2 DEF Grows
    <3>4. b - a \in Nat /\ a + (b - a) = b
      BY <3>3
    <3> QED BY <3>1, <3>2, <3>4
  <2>2. /\ a * n \in Nat /\ d * n \in Nat /\ (a + d) * n = a * n + d * n
    OBVIOUS
  <2>3. f[i] = a * n /\ h[i] = (a + d) * n
    BY <2>1
  <2> QED BY <2>2, <2>3
<1>3. f \in [Pieces -> Nat] /\ h \in [Pieces -> Nat]
  BY <1>2
<1> HIDE DEF f, h
<1>4. PICK a \in Nat, b \in Nat :
        a = FoldFunction(+, 0, f) /\ b = FoldFunction(+, 0, h) /\ a <= b
  <2>1. \A i \in Pieces : f[i] <= h[i]
    BY <1>2
  <2> QED BY <1>1, <1>3, <2>1, SumGrows
<1>5. T!Downloaded = a /\ T!Downloaded' = b /\ a <= b
  BY <1>4
  DEF f, h, T!Downloaded, Pieces, T!FoldFunction, T!FoldFunctionOnSet, T!MapThenFoldSet,
      FoldFunction, FoldFunctionOnSet, MapThenFoldSet
<1>6. T!Length \in Int /\ T!Length' = T!Length
  BY DownloadAssumption DEF T!Length
<1> QED BY <1>5, <1>6 DEF T!Done

\* A wire that requestBlocks reaches, and may ask, is at work.
LEMMA AskedWorks ==
  ASSUME NEW W, RequestBlocks(W), NEW w \in Wires, w \in W, MayAsk(w)'
  PROVE  Working(w)'
<1>1. CASE active[w] # NoPiece
  <2>1. active'[w] = active[w]
    BY <1>1 DEF RequestBlocks, MayRequest
  <2> QED BY <1>1, <2>1 DEF Working
<1>2. CASE active[w] = NoPiece
  <2>1. MayRequest(w)
    BY <1>2 DEF MayRequest, MayAsk, Wanted
  <2>2. PICK i : active'[w] = [index |-> i, left |-> Blocks]
    BY <2>1 DEF RequestBlocks
  <2>3. 1 \in Blocks
    BY DownloadAssumption DEF Blocks
  <2>4. active'[w] # NoPiece
    BY <2>2, <2>3 DEF NoPiece
  <2> QED BY <2>4 DEF Working
<1> QED BY <1>1, <1>2

\* Another wire keeps its piece.
LEMMA OthersKeep ==
  ASSUME NEW W, RequestBlocks(W), NEW w \in Wires,
         w \notin W \/ wire'[w] # "connected" \/ active[w] # NoPiece
  PROVE  active'[w] = active[w]
BY DEF RequestBlocks, MayRequest

\* A step after which a wire may ask that before might have too.
LEMMA KeepsWorking ==
  ASSUME BusyInv, Books', NEW w \in Wires, MayAsk(w)',
         wire' = wire, peerChoking' = peerChoking, remotePieces' = remotePieces,
         known' = known, bitfield \subseteq bitfield', Grows,
         \A s \in Rescans : scan[s].phase = "idle" \/ scan'[s].phase # "idle",
         T!Active("metadata") => T!Active("metadata")',
         active'[w] = active[w] \/ active'[w] # NoPiece,
         \A slot \in 1..Slots :
           call[<<w, slot>>].phase # "idle" => call'[<<w, slot>>].phase # "idle"
  PROVE  Working(w)'
<1>1. ~T!Done
  BY DoneLemma DEF BusyInv, MayAsk
<1>2. MayAsk(w)
  BY <1>1 DEF MayAsk
<1>3. Working(w)
  BY <1>2 DEF BusyInv, WireIsBusy, MayAsk, Working
<1> QED BY <1>3 DEF Working

\* A scan that begins or moves on is in a phase, at a number.
LEMMA ScanAtBooks ==
  ASSUME Books, NEW s \in T!Scanners, NEW i \in Nat, T!ScanAt(s, i)
  PROVE  scan' \in [T!Scanners -> [phase : {"idle", "get", "hash", "done"}, at : Nat]]
<1> DEFINE r == IF T!ScanEnds(i) THEN [phase |-> "done", at |-> NumPieces]
                ELSE [phase |-> "get", at |-> i]
<1>1. r \in [phase : {"idle", "get", "hash", "done"}, at : Nat]
  BY DownloadAssumption
<1>2. scan' = [scan EXCEPT ![s] = r]
  BY DEF T!ScanAt
<1> HIDE DEF r
<1> QED BY <1>1, <1>2 DEF Books

\* The first scan of the session, of the metadata or of a rescan.
LEMMA BeginScanBooks ==
  ASSUME Books, NEW s \in T!Scanners, T!BeginScan(s), UNCHANGED <<storeState, call>>
  PROVE  Books'
<1>1. scan' \in [T!Scanners -> [phase : {"idle", "get", "hash", "done"}, at : Nat]]
  BY ScanAtBooks DEF T!BeginScan
<1>2. credited' \in [Pieces -> Nat]
  BY DEF T!BeginScan, T!NoCredit, Pieces
<1> QED BY <1>1, <1>2 DEF Books

\* An addition counts one piece once more.
LEMMA CreditLemma ==
  ASSUME Books, NEW i, credited' = T!Credit(credited, i)
  PROVE  credited' \in [Pieces -> Nat] /\ Grows
<1>1. credited' = [credited EXCEPT ![i] = @ + 1] /\ credited \in [Pieces -> Nat]
  BY DEF T!Credit, Books
<1>2. ASSUME NEW j \in Pieces PROVE credited'[j] \in Nat /\ credited[j] <= credited'[j]
  <2>1. PICK n \in Nat : n = credited[j]
    BY <1>1
  <2>2. credited'[j] = n \/ credited'[j] = n + 1
    BY <1>1, <2>1
  <2> QED BY <2>1, <2>2
<1>3. credited' \in [Pieces -> Nat]
  BY <1>1, <1>2
<1> QED BY <1>2, <1>3 DEF Grows

\* What no addition touches grows too.
LEMMA SameGrows == ASSUME Books, credited' = credited PROVE Grows
<1>1. \A i \in Pieces : credited[i] \in Nat
  BY DEF Books
<1> QED BY <1>1 DEF Grows

\* A scan of the session goes on: it marks and adds, or passes a piece over.
LEMMA ScanStepBooks ==
  ASSUME Books, NEW s \in T!Scanners, T!ScanStep(s)
  PROVE  /\ Books' /\ Grows /\ bitfield \subseteq bitfield' /\ UNCHANGED <<known, call>>
         /\ \A t \in T!Scanners \ {s} : scan'[t] = scan[t]
         /\ scan[s].phase \in {"get", "hash"} /\ scan'[s].phase \in {"get", "hash", "done"}
<1>1. scan[s].phase \in {"get", "hash"} /\ scan[s].at \in Nat /\ scan[s].at + 1 \in Nat
  BY DEF T!ScanStep, T!ScanRead, T!ScanMark, Books
<1>2. UNCHANGED <<known, call, storeState>> /\ bitfield \subseteq bitfield'
  BY DEF T!ScanStep, T!ScanRead, T!ScanMark, T!disk
<1>3. credited' \in [Pieces -> Nat] /\ Grows
  <2>1. credited' = credited \/ credited' = T!Credit(credited, scan[s].at)
    BY DEF T!ScanStep, T!ScanRead, T!ScanMark
  <2>2. CASE credited' = credited
    BY <2>2, SameGrows DEF Books
  <2> QED BY <2>1, <2>2, CreditLemma
<1>4. \/ T!ScanAt(s, scan[s].at + 1)
      \/ scan' = [scan EXCEPT ![s].phase = "hash"]
  BY DEF T!ScanStep, T!ScanRead, T!ScanMark
<1>5. /\ scan' \in [T!Scanners -> [phase : {"idle", "get", "hash", "done"}, at : Nat]]
      /\ \A t \in T!Scanners \ {s} : scan'[t] = scan[t]
      /\ scan'[s].phase \in {"get", "hash", "done"}
  <2>1. CASE T!ScanAt(s, scan[s].at + 1)
    <3>1. scan' \in [T!Scanners -> [phase : {"idle", "get", "hash", "done"}, at : Nat]]
      BY <1>1, <2>1, ScanAtBooks
    <3> QED BY <2>1, <3>1 DEF T!ScanAt, Books
  <2>2. CASE scan' = [scan EXCEPT ![s].phase = "hash"]
    <3>1. PICK r \in [phase : {"idle", "get", "hash", "done"}, at : Nat] :
            r = [scan[s] EXCEPT !.phase = "hash"]
      BY DEF Books
    <3>2. scan' = [scan EXCEPT ![s] = r] /\ r.phase = "hash"
      BY <2>2, <3>1 DEF Books
    <3> QED BY <3>2 DEF Books
  <2> QED BY <1>4, <2>1, <2>2
<1> QED BY <1>1, <1>2, <1>3, <1>5 DEF Books

\* receivePiece goes on and does not end for its caller.
LEMMA ReceiveStepBooks ==
  ASSUME Books, NEW r \in Calls, T!ReceiveStep(r)
  PROVE  /\ Books' /\ Grows /\ bitfield \subseteq bitfield' /\ UNCHANGED <<known, scan, ready>>
         /\ \A c \in Calls : call[c].phase # "idle" => call'[c].phase # "idle"
<1>1. call[r] \in T!Calls /\ call \in [Calls -> T!Calls]
  BY DEF Books
<1>2. \/ credited' = credited /\ bitfield' = bitfield
      \/ credited' = T!Credit(credited, call[r].piece) /\ bitfield' = bitfield \cup {call[r].piece}
  BY DEF T!ReceiveStep, T!ReceiveHashed, T!PutLands, T!PutFails, T!ReceiveCommit
<1>3. credited' \in [Pieces -> Nat] /\ Grows /\ bitfield \subseteq bitfield'
  <2>1. CASE credited' = credited
    BY <1>2, <2>1, SameGrows DEF Books
  <2> QED BY <1>2, <2>1, CreditLemma
<1>4. UNCHANGED <<storeState, known, scan, ready>>
  BY DEF T!ReceiveStep, T!ReceiveHashed, T!PutLands, T!PutFails, T!ReceiveCommit, T!session, T!disk
<1>5. PICK c \in T!Calls : call' = [call EXCEPT ![r] = c] /\ c.phase # "idle"
  <2>1. \/ \E p \in {"put", "commit"} : call' = [call EXCEPT ![r].phase = p]
        \/ \E g \in BOOLEAN : T!Return(r, call[r].piece, g)
    BY DEF T!ReceiveStep, T!ReceiveHashed, T!PutLands, T!PutFails, T!ReceiveCommit
  <2>2. CASE \E p \in {"put", "commit"} : call' = [call EXCEPT ![r].phase = p]
    <3>1. PICK p \in {"put", "commit"} : call' = [call EXCEPT ![r].phase = p]
      BY <2>2
    <3>2. [call[r] EXCEPT !.phase = p] \in T!Calls
      BY <1>1 DEF T!Calls
    <3>3. [call[r] EXCEPT !.phase = p].phase = p
      BY <1>1 DEF T!Calls
    <3>4. call' = [call EXCEPT ![r] = [call[r] EXCEPT !.phase = p]]
      BY <1>1, <3>1
    <3> QED BY <3>2, <3>3, <3>4
  <2>3. CASE \E g \in BOOLEAN : T!Return(r, call[r].piece, g)
    <3>1. PICK g \in BOOLEAN : T!Return(r, call[r].piece, g)
      BY <2>3
    <3>2. PICK c \in T!Calls : c = [phase |-> "returned", piece |-> call[r].piece, good |-> g]
      BY <1>1 DEF T!Calls
    <3> QED BY <3>1, <3>2 DEF T!Return
  <2> QED BY <2>1, <2>2, <2>3
<1>6. /\ call' \in [Calls -> T!Calls]
      /\ \A d \in Calls : call[d].phase # "idle" => call'[d].phase # "idle"
  BY <1>1, <1>5
<1> QED BY <1>3, <1>4, <1>6 DEF Books

\* receivePiece begins.
LEMMA ReceiveStartBooks ==
  ASSUME Books, NEW r \in Calls, NEW i \in Pieces, NEW good \in BOOLEAN,
         T!ReceiveStart(r, i, good)
  PROVE  /\ Books' /\ UNCHANGED <<known, scan, ready, bitfield, credited>>
         /\ call'[r].phase # "idle" /\ \A c \in Calls \ {r} : call'[c] = call[c]
<1>1. PICK p \in {"returned", "hash"}, g \in BOOLEAN :
        call' = [call EXCEPT ![r] = [phase |-> p, piece |-> i, good |-> g]]
  BY DEF T!ReceiveStart, T!Return
<1>2. [phase |-> p, piece |-> i, good |-> g] \in T!Calls
  BY DEF T!Calls, Pieces
<1>3. call' \in [Calls -> T!Calls] /\ call'[r].phase = p
      /\ \A c \in Calls \ {r} : call'[c] = call[c]
  BY <1>1, <1>2 DEF Books
<1>4. UNCHANGED <<storeState, known, scan, ready, bitfield, credited>>
  BY DEF T!ReceiveStart, T!session, T!disk
<1> QED BY <1>3, <1>4 DEF Books

\* The caller has the result.
LEMMA ReceiveResumeBooks ==
  ASSUME Books, NEW r \in Calls, T!ReceiveResume(r)
  PROVE  /\ Books' /\ UNCHANGED <<known, scan, ready, bitfield, credited>>
         /\ \A c \in Calls \ {r} : call'[c] = call[c]
<1>1. call' = [call EXCEPT ![r] = T!NoCall]
  BY DEF T!ReceiveResume
<1>2. T!NoCall \in T!Calls
  BY DownloadAssumption DEF T!Calls, T!NoCall, T!Pieces
<1>3. UNCHANGED <<storeState, known, scan, ready, bitfield, credited>>
  BY DEF T!ReceiveResume, T!session, T!disk
<1> QED BY <1>1, <1>2, <1>3 DEF Books

\* Wires exist once the session has started.
LEMMA BeginsLemma ==
  ASSUME Begins, T!Started => T!Started',
         T!Started \/ \A w \in Wires : wire[w] = "absent" => wire'[w] = "absent"
  PROVE  Begins'
BY DEF Begins

\* WireIsBusy in the two halves.
LEMMA BusyLemma ==
  /\ WireIsBusy <=> \A w \in Wires : MayAsk(w) => Working(w)
  /\ WireIsBusy' <=> \A w \in Wires : MayAsk(w)' => Working(w)'
BY DEF WireIsBusy, MayAsk, Working

\* The session starts: "ready" asks on every registered wire, and before there is none.
LEMMA InitSessionBusy ==
  ASSUME BusyInv, LoopInv, NEW skip \in BOOLEAN, InitSession(skip) PROVE BusyInv'
<1>1. /\ ~T!Started /\ UNCHANGED wire
      /\ \/ T!BeginScan("init")
         \/ ready' = TRUE /\ UNCHANGED <<bitfield, credited, scan>>
      /\ UNCHANGED <<storeState, call>>
  BY DEF InitSession, T!InitSession, loopRest, T!disk
<1>2. "init" \in T!Scanners
  BY DEF T!Scanners
<1>3. Books'
  BY <1>1, <1>2, BeginScanBooks DEF BusyInv, Books
<1>4. Begins' /\ WireIsBusy'
  BY <1>1, BusyLemma DEF BusyInv, Begins, MayAsk
<1> QED BY <1>3, <1>4 DEF BusyInv

\* The metadata arrives: its scan runs, whether or not the wires are told.
LEMMA SetMetadataBusy ==
  ASSUME BusyInv, LoopInv, SetMetadata PROVE BusyInv'
<1>1. /\ T!Started /\ T!BeginScan("metadata") /\ UNCHANGED <<storeState, call, wire>>
  BY DEF SetMetadata, T!SetMetadata, loopRest, T!disk
<1>2. "metadata" \in T!Scanners
  BY DEF T!Scanners
<1>3. Books'
  BY <1>1, <1>2, BeginScanBooks DEF BusyInv
<1>4. scan' = [scan EXCEPT !["metadata"] = [phase |-> "get", at |-> 0]]
  <2>1. ~T!ScanEnds(0)
    BY DownloadAssumption DEF BusyInv, Books, T!ScanEnds
  <2> QED BY <1>1, <2>1 DEF T!BeginScan, T!ScanAt
<1>5. T!Active("metadata")'
  BY <1>2, <1>4 DEF BusyInv, Books, T!Active
<1>6. T!Started'
  <2>1. ready => ready'
    BY <1>1 DEF T!BeginScan, T!AfterScan
  <2>2. scan["init"].phase # "idle" => scan'["init"].phase # "idle"
    BY <1>4 DEF BusyInv, Books, T!Scanners
  <2> QED BY <1>1, <2>1, <2>2 DEF T!Started
<1> QED BY <1>3, <1>5, <1>6, BusyLemma DEF BusyInv, Begins, Working

\* A rescan is an excuse.
LEMMA RescanBusy ==
  ASSUME BusyInv, LoopInv, NEW s \in Rescans, Rescan(s) PROVE BusyInv'
<1>1. /\ UNCHANGED <<storeState, call, wire>> /\ s \in T!Scanners
      /\ \/ T!BeginScan(s)
         \/ /\ credited' = T!NoCredit /\ UNCHANGED ready
            /\ scan' = [scan EXCEPT ![s] = [phase |-> "done", at |-> NumPieces]]
  BY DEF Rescan, T!Rescan, loopVars, T!disk, T!Scanners
<1>2. Books'
  <2>1. CASE T!BeginScan(s)
    BY <1>1, <2>1, BeginScanBooks DEF BusyInv
  <2>2. CASE /\ credited' = T!NoCredit
             /\ scan' = [scan EXCEPT ![s] = [phase |-> "done", at |-> NumPieces]]
    <3>1. [phase |-> "done", at |-> NumPieces] \in
            [phase : {"idle", "get", "hash", "done"}, at : Nat]
      BY DownloadAssumption
    <3>2. T!NoCredit \in [Pieces -> Nat]
      BY DEF T!NoCredit, Pieces
    <3> QED BY <1>1, <2>2, <3>1, <3>2 DEF BusyInv, Books
  <2> QED BY <1>1, <2>1, <2>2
<1>3. /\ \A t \in T!Scanners \ {s} : scan'[t] = scan[t]
      /\ scan'[s].phase # "idle"
  <2>1. \/ scan' = [scan EXCEPT ![s] = [phase |-> "done", at |-> NumPieces]]
        \/ scan' = [scan EXCEPT ![s] = [phase |-> "get", at |-> 0]]
    BY <1>1 DEF T!BeginScan, T!ScanAt
  <2> QED BY <1>1, <2>1 DEF BusyInv, Books
<1>4. T!Started => T!Started'
  <2>1. ready => ready'
    BY <1>1 DEF T!BeginScan, T!AfterScan
  <2>2. "init" \in T!Scanners \ {s}
    BY DownloadAssumption DEF T!Scanners
  <2> QED BY <1>3, <2>1, <2>2 DEF T!Started
<1>5. Begins'
  BY <1>1, <1>4, BeginsLemma DEF BusyInv
<1>6. \A w \in Wires : ~MayAsk(w)'
  BY <1>3 DEF MayAsk
<1> QED BY <1>2, <1>5, <1>6, BusyLemma DEF BusyInv

\* A scan moves on: what it marks leaves less to ask for, and at its end all are asked.
LEMMA ScanStepBusy ==
  ASSUME BusyInv, LoopInv, NEW s \in T!Scanners, ScanStep(s) PROVE BusyInv'
<1>1. /\ T!ScanStep(s) /\ UNCHANGED <<wire, remotePieces, peerChoking>>
      /\ RequestBlocks(IF s \notin Rescans /\ scan'[s].phase = "done" THEN Registered ELSE {})
  BY DEF ScanStep, loopRest, OnReady, UpdateInterest
<1>2. /\ Books' /\ Grows /\ bitfield \subseteq bitfield' /\ UNCHANGED <<known, call>>
      /\ \A t \in T!Scanners \ {s} : scan'[t] = scan[t]
      /\ scan[s].phase \in {"get", "hash"} /\ scan'[s].phase \in {"get", "hash", "done"}
  BY <1>1, ScanStepBooks DEF BusyInv
<1>3. T!Started => T!Started'
  <2>1. ready => ready'
    BY <1>1 DEF T!ScanStep, T!ScanRead, T!ScanMark, T!AfterScan
  <2>2. scan["init"].phase # "idle" => scan'["init"].phase # "idle"
    BY <1>2 DEF T!Scanners
  <2> QED BY <2>1, <2>2 DEF T!Started
<1>4. Begins'
  BY <1>1, <1>3, BeginsLemma DEF BusyInv
<1>5. ASSUME NEW w \in Wires, MayAsk(w)' PROVE Working(w)'
  <2>0. s \notin Rescans
    <3>1. \A t \in Rescans : scan'[t].phase = "idle"
      BY <1>5 DEF MayAsk
    <3> QED BY <1>2, <3>1
  <2>1. CASE scan'[s].phase = "done"
    <3>1. w \in Registered /\ RequestBlocks(Registered)
      BY <1>1, <1>5, <2>0, <2>1 DEF Registered, MayAsk
    <3> QED BY <1>5, <3>1, AskedWorks
  <2>2. CASE scan'[s].phase # "done"
    <3>1. RequestBlocks({})
      BY <1>1, <2>2
    <3>2. active'[w] = active[w]
      BY <3>1, OthersKeep
    <3>3. T!Active("metadata") => T!Active("metadata")'
      BY <1>2, <2>2 DEF T!Active, T!Scanners
    <3>4. \A t \in Rescans : scan[t].phase = "idle" \/ scan'[t].phase # "idle"
      BY <1>2 DEF T!Scanners
    <3> QED BY <1>1, <1>2, <1>5, <3>2, <3>3, <3>4, KeepsWorking
  <2> QED BY <2>1, <2>2
<1> QED BY <1>2, <1>4, <1>5, BusyLemma DEF BusyInv

\* The accounting rests.
LEMMA RestsBooks ==
  ASSUME Books, UNCHANGED torrentVars
  PROVE  Books' /\ Grows /\ (T!Started => T!Started') /\ (T!Active("metadata") <=> T!Active("metadata")')
<1>1. UNCHANGED <<storeState, credited, scan, call, ready>>
  BY DEF torrentVars
<1> QED BY <1>1, SameGrows DEF Books, T!Started, T!Active

\* A step of one wire: it is asked for if it may ask, and any other wire there is
\* excuses the rest.
LEMMA WireBusy ==
  ASSUME BusyInv, LoopInv, UNCHANGED torrentVars, NEW v \in Wires,
         wire[v] = "absent" => T!Started,
         wire'[v] # "absent", \A w \in Wires \ {v} : wire'[w] = wire[w],
         MayAsk(v)' => RequestBlocks({v})
  PROVE  BusyInv'
<1>1. Books' /\ (T!Started => T!Started')
  BY RestsBooks DEF BusyInv
<1>2. T!Started
  BY DEF BusyInv, Begins
<1>3. ASSUME NEW w \in Wires, MayAsk(w)' PROVE Working(w)'
  <2>1. w = v
    BY <1>3 DEF MayAsk
  <2> QED BY <1>3, <2>1, AskedWorks
<1> QED BY <1>1, <1>2, <1>3, BusyLemma DEF BusyInv, Begins

\* The last block of a piece leaves its call at work, any other the piece.
LEMMA OnBlockBusy ==
  ASSUME BusyInv, LoopInv, NEW v \in Wires, NEW i \in Pieces, NEW b \in Blocks, OnBlock(v, i, b)
  PROVE  BusyInv'
<1>0. /\ UNCHANGED <<wire, remotePieces, peerChoking>> /\ DOMAIN active = Wires
      /\ \A w \in Wires : DOMAIN active[w] = {"index", "left"}
  BY DEF OnBlock, LoopInv, Shape
<1>1. CASE \E slot \in 1..Slots, good \in BOOLEAN : T!ReceiveStart(<<v, slot>>, i, good)
  <2>1. PICK slot \in 1..Slots, good \in BOOLEAN : T!ReceiveStart(<<v, slot>>, i, good)
    BY <1>1
  <2>2. <<v, slot>> \in Calls
    BY DEF Calls
  <2>3. /\ Books' /\ UNCHANGED <<known, scan, ready, bitfield, credited>>
        /\ call'[<<v, slot>>].phase # "idle"
        /\ \A c \in Calls \ {<<v, slot>>} : call'[c] = call[c]
    BY <2>1, <2>2, ReceiveStartBooks DEF BusyInv
  <2>4. Begins'
    BY <1>0, <2>3, BeginsLemma DEF BusyInv, T!Started
  <2>5. ASSUME NEW w \in Wires, MayAsk(w)' PROVE Working(w)'
    <3>1. CASE w = v
      BY <2>3, <3>1 DEF Working
    <3>2. CASE w # v
      <4>1. active'[w] = active[w]
        BY <1>0, <3>2 DEF OnBlock
      <4>2. \A k \in 1..Slots : call'[<<w, k>>] = call[<<w, k>>]
        BY <2>3, <3>2 DEF Calls
      <4>3. Grows
        BY <2>3, SameGrows DEF BusyInv
      <4>4. T!Active("metadata") => T!Active("metadata")'
        BY <2>3 DEF T!Active
      <4> QED BY <1>0, <2>3, <2>5, <4>1, <4>2, <4>3, <4>4, KeepsWorking
    <3> QED BY <3>1, <3>2
  <2> QED BY <2>3, <2>4, <2>5, BusyLemma DEF BusyInv
<1>2. CASE /\ UNCHANGED torrentVars
           /\ \/ active' = active
              \/ active[v].index = i /\ active' = [active EXCEPT ![v].left = @ \ {b}]
  <2>1. Books' /\ Grows /\ (T!Started => T!Started')
        /\ (T!Active("metadata") <=> T!Active("metadata")')
    BY <1>2, RestsBooks DEF BusyInv
  <2>2. Begins'
    BY <1>0, <2>1, BeginsLemma DEF BusyInv
  <2>3. ASSUME NEW w \in Wires PROVE active'[w] = active[w] \/ active'[w] # NoPiece
    <3>1. CASE active[v].index = i /\ active' = [active EXCEPT ![v].left = @ \ {b}] /\ w = v
      <4>1. active'[w].index = i
        BY <1>0, <3>1
      <4>2. i # -1
        BY DownloadAssumption DEF Pieces, T!Pieces
      <4> QED BY <4>1, <4>2 DEF NoPiece
    <3>2. CASE ~(active[v].index = i /\ active' = [active EXCEPT ![v].left = @ \ {b}] /\ w = v)
      BY <1>0, <1>2, <3>2
    <3> QED BY <3>1, <3>2
  <2>4. UNCHANGED <<known, bitfield, scan, call>>
    BY <1>2 DEF torrentVars
  <2>5. ASSUME NEW w \in Wires, MayAsk(w)' PROVE Working(w)'
    BY <1>0, <2>1, <2>3, <2>4, <2>5, KeepsWorking
  <2> QED BY <2>1, <2>2, <2>5, BusyLemma DEF BusyInv
<1> QED BY <1>1, <1>2 DEF OnBlock

\* receivePiece goes on.
LEMMA ReceiveStepBusy ==
  ASSUME BusyInv, LoopInv, NEW r \in Calls, ReceiveStep(r) PROVE BusyInv'
<1>1. T!ReceiveStep(r) /\ UNCHANGED <<wire, remotePieces, peerChoking, active>>
  BY DEF ReceiveStep, T!ReceiveStep, loopVars
<1>2. /\ Books' /\ Grows /\ bitfield \subseteq bitfield' /\ UNCHANGED <<known, scan, ready>>
      /\ \A c \in Calls : call[c].phase # "idle" => call'[c].phase # "idle"
  BY <1>1, ReceiveStepBooks DEF BusyInv
<1>3. Begins'
  BY <1>1, <1>2, BeginsLemma DEF BusyInv, T!Started
<1>4. ASSUME NEW w \in Wires, MayAsk(w)' PROVE Working(w)'
  <2>1. \A k \in 1..Slots : <<w, k>> \in Calls
    BY DEF Calls
  <2>2. T!Active("metadata") => T!Active("metadata")'
    BY <1>2 DEF T!Active
  <2> QED BY <1>1, <1>2, <1>4, <2>1, <2>2, KeepsWorking
<1> QED BY <1>2, <1>3, <1>4, BusyLemma DEF BusyInv

\* The rest of the "piece" handler asks again: nobody shakes hands on whom it could throw.
LEMMA AfterReceiveBusy ==
  ASSUME BusyInv, LoopInv, NEW r \in Calls, AfterReceive(r) PROVE BusyInv'
<1>1. PICK v \in Wires, k \in 1..Slots : r = <<v, k>>
  BY DEF Calls
<1>2. /\ T!ReceiveResume(r) /\ UNCHANGED <<wire, remotePieces, peerChoking>>
      /\ RequestBlocks(IF call[r].good /\ HaveThrows(v) THEN {} ELSE {v})
  BY <1>1 DEF AfterReceive, loopRest
<1>3. /\ Books' /\ UNCHANGED <<known, scan, ready, bitfield, credited>>
      /\ \A c \in Calls \ {r} : call'[c] = call[c]
  BY <1>2, ReceiveResumeBooks DEF BusyInv
<1>4. Begins'
  BY <1>2, <1>3, BeginsLemma DEF BusyInv, T!Started
<1>5. ASSUME NEW w \in Wires, MayAsk(w)' PROVE Working(w)'
  <2>1. CASE w = v
    <3>1. ~HaveThrows(v)
      BY <1>2, <1>5, <2>1 DEF HaveThrows, MayAsk
    <3>2. RequestBlocks({v})
      BY <1>2, <3>1
    <3> QED BY <1>5, <2>1, <3>2, AskedWorks
  <2>2. CASE w # v
    <3>1. PICK W : W \subseteq {v} /\ RequestBlocks(W)
      BY <1>2
    <3>2. active'[w] = active[w]
      BY <2>2, <3>1, OthersKeep
    <3>3. \A n \in 1..Slots : call'[<<w, n>>] = call[<<w, n>>]
      BY <1>1, <1>3, <2>2 DEF Calls
    <3>4. Grows
      BY <1>3, SameGrows DEF BusyInv
    <3>5. T!Active("metadata") => T!Active("metadata")'
      BY <1>3 DEF T!Active
    <3> QED BY <1>2, <1>3, <1>5, <3>2, <3>3, <3>4, <3>5, KeepsWorking
  <2> QED BY <2>1, <2>2
<1> QED BY <1>3, <1>4, <1>5, BusyLemma DEF BusyInv

\* Each wire chokes or not.
Chokes == DOMAIN peerChoking = Wires
LEMMA NextChokes == Chokes /\ [Next]_vars => Chokes'
BY DEF Chokes, Next, vars, loopVars, loopRest, InitSession, SetMetadata, Rescan, ScanStep, Open,
       Register, OnUnchoke, OnChoke, OnClose, OnHave, OnBlock, ReceiveStep, AfterReceive

\* Every step leaves the wires at work.
LEMMA NextBusy == ASSUME BusyInv, LoopInv, Chokes, [Next]_vars PROVE BusyInv'
<1>0. DOMAIN wire = Wires /\ DOMAIN active = Wires
  BY DEF LoopInv, Shape
<1>1. CASE UNCHANGED vars
  <2>1. UNCHANGED torrentVars /\ UNCHANGED <<wire, peerChoking, remotePieces, active>>
    BY <1>1 DEF vars, loopVars
  <2>2. /\ Books' /\ Grows /\ (T!Started => T!Started')
        /\ (T!Active("metadata") <=> T!Active("metadata")')
    BY <2>1, RestsBooks DEF BusyInv
  <2>3. Begins'
    BY <2>1, <2>2, BeginsLemma DEF BusyInv
  <2>4. UNCHANGED <<known, bitfield, scan, call>>
    BY <2>1 DEF torrentVars
  <2>5. ASSUME NEW w \in Wires, MayAsk(w)' PROVE Working(w)'
    BY <2>1, <2>2, <2>4, <2>5, KeepsWorking
  <2> QED BY <2>2, <2>3, <2>5, BusyLemma DEF BusyInv
<1>2. CASE \E skip \in BOOLEAN : InitSession(skip)
  BY <1>2, InitSessionBusy
<1>3. CASE SetMetadata
  BY <1>3, SetMetadataBusy
<1>4. CASE \E s \in Rescans : Rescan(s)
  BY <1>4, RescanBusy
<1>5. CASE \E s \in T!Scanners : ScanStep(s)
  BY <1>5, ScanStepBusy
<1>6. ASSUME NEW v \in Wires, Open(v) \/ Register(v) \/ OnUnchoke(v) \/ OnChoke(v) \/ OnClose(v)
      PROVE  BusyInv'
  <2>1. UNCHANGED torrentVars
    BY <1>6 DEF Open, Register, OnUnchoke, OnChoke, OnClose
  <2>2. wire[v] = "absent" => T!Started
    BY <1>6 DEF Open, Register, OnUnchoke, OnChoke, OnClose
  <2>3. wire'[v] # "absent" /\ \A w \in Wires \ {v} : wire'[w] = wire[w]
    BY <1>0, <1>6 DEF Open, Register, OnUnchoke, OnChoke, OnClose
  <2>4. MayAsk(v)' => RequestBlocks({v})
    <3>1. CASE Register(v) \/ OnUnchoke(v)
      BY <3>1 DEF Register, OnUnchoke, UpdateInterest
    <3>2. CASE Open(v) \/ OnClose(v)
      BY <1>0, <3>2 DEF Open, OnClose, MayAsk
    <3>3. CASE OnChoke(v)
      <4>1. peerChoking' = [peerChoking EXCEPT ![v] = TRUE]
        BY <3>3 DEF OnChoke
      <4>2. peerChoking'[v] = TRUE
        BY <4>1 DEF Chokes
      <4> QED BY <4>2 DEF MayAsk
    <3> QED BY <1>6, <3>1, <3>2, <3>3
  <2> QED BY <2>1, <2>2, <2>3, <2>4, WireBusy
<1>7. ASSUME NEW v \in Wires, NEW S \in SUBSET Pieces, OnHave(v, S) PROVE BusyInv'
  <2>1. /\ UNCHANGED torrentVars /\ UNCHANGED wire /\ wire[v] = "connected"
        /\ RequestBlocks({v})
    BY <1>7 DEF OnHave, UpdateInterest
  <2> QED BY <2>1, WireBusy
<1>8. CASE \E w \in Wires, i \in Pieces, b \in Blocks : OnBlock(w, i, b)
  BY <1>8, OnBlockBusy
<1>9. CASE \E r \in Calls : ReceiveStep(r) \/ AfterReceive(r)
  BY <1>9, ReceiveStepBusy, AfterReceiveBusy
<1> QED BY <1>1, <1>2, <1>3, <1>4, <1>5, <1>6, <1>7, <1>8, <1>9 DEF Next

\* A connected wire that may ask for a missing piece its peer has works on one, or a
\* call or the metadata scan will make it ask again: no order of have, choke, unchoke,
\* metadata, ready and failed pieces leaves it idle, save after a rescan or when
\* broadcastHave throws (requestBlocks and its callers).
THEOREM WireIsBusyHolds == Spec => []WireIsBusy
<1>1. Init => BusyInv
  <2> SUFFICES ASSUME Init PROVE BusyInv
    OBVIOUS
  <2>1. Books
    <3>1. T!NoCredit \in [Pieces -> Nat]
      BY DEF T!NoCredit, Pieces
    <3>2. T!NoCall \in T!Calls
      BY DownloadAssumption DEF T!Calls, T!NoCall, T!Pieces
    <3> QED BY <3>1, <3>2 DEF Init, T!Init, Books
  <2>2. Begins /\ WireIsBusy
    BY DEF Init, Begins, WireIsBusy
  <2> QED BY <2>1, <2>2 DEF BusyInv
<1>2. BusyInv /\ LoopInv /\ Chokes /\ [Next]_vars => BusyInv'
  BY NextBusy
<1>3. BusyInv => WireIsBusy
  BY DEF BusyInv
<1>4. Init => Chokes
  BY DEF Init, Chokes
<1> QED BY <1>1, <1>2, <1>3, <1>4, NextChokes, LoopInvariant, PTL DEF Spec
=============================================================================

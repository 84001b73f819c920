------------------------------- MODULE Swarm -------------------------------
(***************************************************************************)
(* The swarm of one torrent (network/swarm.ts) and the life of its peers   *)
(* (network/peer.ts): the map of peers by address, the queue of addresses  *)
(* that wait for a slot, the offers that wait for an answer, and the loop  *)
(* of start() over the trackers.                                           *)
(*                                                                         *)
(* Events are dispatched synchronously, so a peer that fails runs its      *)
(* "error" and "close" handlers inside the step that fails it, and those   *)
(* connect queued peers: handlers are functions on the Swarm object.  A    *)
(* Peer object is named by what makes the code create it: an offer of ours,*)
(* an offer of a remote peer, a call of addPeer.                           *)
(***************************************************************************)
EXTENDS Integers, FiniteSets, Sequences, SequencesExt

CONSTANTS
  Offers,         \* our offers: bounds how many start() generates
  Inbound,        \* offers of remote peers: each arrives at most once
  Adds,           \* calls of addPeer
  AddrOf,         \* the "ip:port" of each call
  Ids,            \* remote peer ids, the addresses "webrtc:<id>"
  Trackers,       \* the announce list: "ws" or "http"
  MaxConns,
  MaxQueuedPeers, \* 200 in the code
  OffersPerAnnounce, \* 5 in the code
  NoPeer

Peers == Offers \cup Inbound \cup Adds
Addrs == Ids \cup {AddrOf[a] : a \in Adds}

ASSUME SwarmAssumption ==
  /\ MaxConns \in Nat \ {0} /\ MaxQueuedPeers \in Nat \ {0} /\ OffersPerAnnounce \in Nat
  /\ Trackers \in Seq({"ws", "http"})
  /\ IsFiniteSet(Peers) /\ Adds \cap (Offers \cup Inbound) = {}
  /\ NoPeer \notin Peers \cup Addrs
  /\ Cardinality(Offers) >= OffersPerAnnounce * Cardinality({i \in DOMAIN Trackers : Trackers[i] = "ws"})

VARIABLES
  swarm, \* the Swarm object, with the state of each Peer and the address it
         \* was hooked under (addr); `announced` is the tracker start() is at
  start, \* what start() awaits: "idle", "offers", "response" or "done"
  destroyedAt \* history: the tracker start() was at when the swarm was destroyed

vars == <<swarm, start, destroyedAt>>

Live == {"connecting", "open", "ready"}
Tracked(s) == {x \in Addrs : s.peers[x] # NoPeer}
Size(s) == Cardinality(Tracked(s))

Swarms ==
  [peers : [Addrs -> Peers \cup {NoPeer}], pendingOffers : SUBSET Offers,
   queue : Seq(Adds), paused : BOOLEAN, destroyed : BOOLEAN,
   state : [Peers -> {"none", "destroyed"} \cup Live],
   addr : [Peers -> Addrs \cup {NoPeer}], announced : 0..Len(Trackers) + 1]

TypeOK ==
  /\ swarm \in Swarms
  /\ Len(swarm.queue) <= MaxQueuedPeers
  /\ start \in {"idle", "offers", "response", "done"}
  /\ destroyedAt \in 0..Len(Trackers) + 1

Init ==
  /\ swarm = [peers |-> [x \in Addrs |-> NoPeer], pendingOffers |-> {}, queue |-> <<>>,
              paused |-> FALSE, destroyed |-> FALSE,
              state |-> [p \in Peers |-> "none"], addr |-> [p \in Peers |-> NoPeer],
              announced |-> 0]
  /\ start = "idle" /\ destroyedAt = 0
-----------------------------------------------------------------------------
(***************************************************************************)
(* Methods                                                                 *)
(***************************************************************************)

\* A new Peer under an address, hooked there; an entry of that address is lost.
Track(s, p, x) ==
  [s EXCEPT !.peers[x] = p, !.addr[p] = x,
            !.state[p] = IF @ = "none" THEN "connecting" ELSE @]

\* _connectPeer.
Connect(s, a) ==
  IF s.peers[AddrOf[a]] # NoPeer THEN s ELSE Track(s, a, AddrOf[a])

\* The head of the queue is connected if there is a slot.
DrainOne(s, limit) ==
  IF s.queue # <<>> /\ Size(s) < limit
  THEN Connect([s EXCEPT !.queue = Tail(@)], Head(s.queue))
  ELSE s
DrainTo(s, limit) == FoldLeft(LAMBDA t, a : DrainOne(t, limit), s, s.queue)

\* _drain: connects from the head of the queue while there is a slot.
Drain(s) ==
  IF s.destroyed \/ s.paused THEN s ELSE DrainTo(s, MaxConns)

\* The "close" handler, and the "error" handler: both forget the address.
OnClosedOnly(s, p) ==             \* mutant: the slot is not given to the queue
  IF s.addr[p] = NoPeer THEN s ELSE [s EXCEPT !.peers[s.addr[p]] = NoPeer]
OnClosed(s, p) ==
  IF s.addr[p] = NoPeer THEN s ELSE Drain([s EXCEPT !.peers[s.addr[p]] = NoPeer])

\* Peer.destroy.
DestroyPeer(s, p) ==
  IF s.state[p] = "destroyed" THEN s ELSE OnClosed([s EXCEPT !.state[p] = "destroyed"], p)

\* Peer._onError: "error" first, then destroy.
FailPeer(s, p) == DestroyPeer(OnClosed(s, p), p)

Enqueue(s, a) == [s EXCEPT !.queue = Append(@, a)]
AddPeer(s, a) ==
  IF s.destroyed \/ s.paused \/ s.peers[AddrOf[a]] # NoPeer THEN s
  ELSE IF Size(s) < MaxConns THEN Connect(s, a)
  ELSE IF Len(s.queue) < MaxQueuedPeers THEN Enqueue(s, a) ELSE s

\* A call of addPeer whose address is neither queued nor connected by it yet.
Idle(a) == swarm.state[a] = "none" /\ a \notin Range(swarm.queue)
-----------------------------------------------------------------------------
(***************************************************************************)
(* start(): one tracker after the other, whether destroyed meanwhile or not *)
(***************************************************************************)
Smaller(m, n) == IF m < n THEN m ELSE n

\* _generateOffers; a Peer per offer, not hooked yet.
NewOffers(s, O) ==
  [s EXCEPT !.pendingOffers = @ \cup O,
            !.state = [p \in Peers |-> IF p \in O THEN "connecting" ELSE @[p]]]

ToTracker(s) ==
  LET i == s.announced + 1 IN
  /\ start' = IF i > Len(Trackers) THEN "done"
              ELSE IF Trackers[i] = "ws" THEN "offers" ELSE "response"
  /\ \E O \in SUBSET {o \in Offers : s.state[o] = "none"} :
       /\ IF i <= Len(Trackers) /\ Trackers[i] = "ws" /\ Size(s) < MaxConns
          THEN Cardinality(O) = Smaller(MaxConns - Size(s), OffersPerAnnounce)
          ELSE O = {}
       /\ swarm' = NewOffers([s EXCEPT !.announced = i], O)
  /\ UNCHANGED destroyedAt

Start ==
  /\ start = "idle" /\ ~swarm.destroyed
  /\ ToTracker(swarm)

\* Every offer is ready, failed, or 5 s old.
OffersReady ==
  /\ start = "offers"
  /\ start' = "response"
  /\ UNCHANGED <<swarm, destroyedAt>>

\* _onTrackerResponse adds the peers of the response, in its order; an announce
\* that fails is a warning and adds none.
Response(order) ==
  /\ start = "response"
  /\ ToTracker(FoldLeft(AddPeer, swarm, order))
-----------------------------------------------------------------------------
(***************************************************************************)
(* Calls and events                                                        *)
(***************************************************************************)
Becomes(s) == swarm' = s /\ UNCHANGED <<start, destroyedAt>>

AddCall(a) == Idle(a) /\ Becomes(AddPeer(swarm, a))

\* removePeer: the close handler has deleted the entry already, and the slot
\* may be taken again by a queued peer of the same address.
RemovePeerOnly(x) ==              \* mutant: the peer is not destroyed
  swarm.peers[x] # NoPeer /\ Becomes(Drain([swarm EXCEPT !.peers[x] = NoPeer]))
RemovePeer(x) ==
  /\ swarm.peers[x] # NoPeer
  /\ LET s == DestroyPeer(swarm, swarm.peers[x])
     IN Becomes(Drain([s EXCEPT !.peers[x] = NoPeer]))

Pause == ~swarm.paused /\ Becomes([swarm EXCEPT !.paused = TRUE])

ResumeOnly == Becomes([swarm EXCEPT !.paused = FALSE])   \* mutant: no _drain
Resume == Becomes(Drain([swarm EXCEPT !.paused = FALSE]))

\* destroy: its own peers and the pending ones; no handler drains any more.
Destroy ==
  /\ ~swarm.destroyed
  /\ swarm' = [swarm EXCEPT
       !.destroyed = TRUE, !.queue = <<>>, !.pendingOffers = {},
       !.peers = [x \in Addrs |-> NoPeer],
       !.state = [p \in Peers |-> IF p \in Range(swarm.peers) \cup swarm.pendingOffers
                                  THEN "destroyed" ELSE @[p]]]
  /\ destroyedAt' = swarm.announced
  /\ UNCHANGED start

Listening == ~swarm.destroyed /\ ~swarm.paused

\* _onTrackerPeer with an answer: the peer gets the slot of its remote id.
OnAnswerAnytime(o, id) ==         \* mutant: destroyed is not checked
  /\ ~swarm.paused
  /\ o \in swarm.pendingOffers
  /\ Becomes(Track([swarm EXCEPT !.pendingOffers = @ \ {o}], o, id))
OnAnswer(o, id) ==
  /\ Listening
  /\ o \in swarm.pendingOffers
  /\ Becomes(Track([swarm EXCEPT !.pendingOffers = @ \ {o}], o, id))

\* _onTrackerPeer with an offer of a remote peer.
OnOffer(o, id) ==
  /\ Listening
  /\ swarm.state[o] = "none"
  /\ swarm.peers[id] = NoPeer
  /\ Becomes(Track(swarm, o, id))

\* The channel opens once both descriptions are exchanged, which a peer made by
\* _connectPeer never does: nobody forwards its "signal".
Open(p) ==
  /\ swarm.state[p] = "connecting"
  /\ p \notin Adds /\ swarm.addr[p] # NoPeer
  /\ Becomes([swarm EXCEPT !.state[p] = "open"])

Handshake(p) ==
  /\ swarm.state[p] = "open"
  /\ Becomes([swarm EXCEPT !.state[p] = "ready"])

\* _onError: WebRTC failure, an error of the wire, or one of the 25 s timers.
Fail(p) == swarm.state[p] \in Live /\ Becomes(FailPeer(swarm, p))
Timeout(p) == swarm.state[p] \in {"connecting", "open"} /\ Fail(p)

\* The channel's close event.
Close(p) == swarm.state[p] \in {"open", "ready"} /\ Becomes(DestroyPeer(swarm, p))
-----------------------------------------------------------------------------
Orders == SetToAllKPermutations({a \in Adds : Idle(a)})

Next ==
  \/ Start \/ OffersReady
  \/ \E order \in Orders : Response(order)
  \/ \E a \in Adds : AddCall(a)
  \/ \E x \in Addrs : RemovePeer(x)
  \/ Pause \/ Resume \/ Destroy
  \/ \E o \in Offers, id \in Ids : OnAnswer(o, id)
  \/ \E o \in Inbound, id \in Ids : OnOffer(o, id)
  \/ \E p \in Peers : Open(p) \/ Handshake(p) \/ Fail(p) \/ Close(p)

Spec == Init /\ [][Next]_vars

\* The timers of peers that are not ready fire.
FairSpec == Spec /\ \A p \in Peers : WF_vars(Timeout(p))
-----------------------------------------------------------------------------
(***************************************************************************)
(* Properties                                                              *)
(***************************************************************************)

\* No address waits while there is a slot: whatever closes, is removed, answers
\* late or resumes, the queue is drained in the same step.
SlotsAreUsed ==
  swarm.queue # <<>> /\ ~swarm.paused /\ ~swarm.destroyed => Size(swarm) >= MaxConns

\* A live peer can be found again, by the swarm's destroy among others: under its
\* address or among the offers.  The one way of losing it is that the address was
\* shared: an answer overwrites the entry of a remote that made an offer too, and
\* the second "close" of a queued address deletes its successor.
LiveIsTracked ==
  \A p \in Peers :
    swarm.state[p] \in Live =>
      IF swarm.addr[p] = NoPeer THEN p \in swarm.pendingOffers
      ELSE \/ swarm.peers[swarm.addr[p]] = p
           \/ \E q \in Peers \ {p} : swarm.addr[q] = swarm.addr[p]

\* The websocket trackers start() has come to since the swarm was destroyed.
WsSince == {i \in destroyedAt + 1..swarm.announced : i <= Len(Trackers) /\ Trackers[i] = "ws"}

\* start() goes on with the trackers of a destroyed swarm: it makes offers for them
\* that nobody destroys, and what they answer is still delivered.  That is all that
\* goes on: no peer gets an address, no address is queued, and the peers that live
\* are those offers, OffersPerAnnounce for each tracker since at most, besides the
\* peers that were lost before (LiveIsTracked).
DestroyIsFinal ==
  swarm.destroyed =>
    /\ Tracked(swarm) = {} /\ swarm.queue = <<>>
    /\ Cardinality(swarm.pendingOffers) <= OffersPerAnnounce * Cardinality(WsSince)
    /\ \A p \in Peers :
         swarm.state[p] \in Live =>
           \/ p \in swarm.pendingOffers
           \/ swarm.addr[p] # NoPeer /\ \E q \in Peers \ {p} : swarm.addr[q] = swarm.addr[p]

\* A queued address gets its turn, unless peers that are ready hold the slots, or
\* peers that died before their answer came: those are never removed.  (Remote
\* offers are finitely many here; an endless supply can starve the queue.)
Held == {x \in Tracked(swarm) : swarm.state[swarm.peers[x]] \in {"ready", "destroyed"}}
QueueMoves ==
  \A a \in Adds :
    a \in Range(swarm.queue) ~>
      \/ a \notin Range(swarm.queue)
      \/ swarm.paused \/ Cardinality(Held) >= MaxConns
=============================================================================

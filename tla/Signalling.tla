----------------------------- MODULE Signalling -----------------------------
(***************************************************************************)
(* Signalling: the web socket trackers of clients (WsTracker in            *)
(* core/network/tracker.ts), what Swarm does with the offers and answers   *)
(* that reach it, and the relay of the tracker server, over an instance of *)
(* TrackerServer.                                                          *)
(*                                                                         *)
(* An event handler is a step.  Sockets keep the order of messages and     *)
(* lose the ones in flight when the connection is lost.  The k-th socket a *)
(* tracker opens is <<tracker, k>>, the k-th offer <<tracker, k>> too.     *)
(*                                                                         *)
(* What every module has (Init, Next, Spec, ...) bears this module's name, *)
(* so that the proofs can extend it beside another module.                 *)
(***************************************************************************)
EXTENDS Integers, FiniteSets, Sequences, SequencesExt

CONSTANTS
  Trackers,    \* WsTracker objects, one for each torrent of a client
  PeerId,      \* the peer id each announces: that of its client
  InfoHash,    \* the torrent each announces
  Offers,      \* offers made by each start(), 5 in the code
  MaxSockets,  \* bounds the sockets a tracker opens
  MaxLosses,   \* bounds lost connections and failed attempts to connect
  None

Torrents == {InfoHash[t] : t \in Trackers}
Sockets == Trackers \X (1..MaxSockets)
Owner(c) == c[1]
Maker(offer) == offer[1]

ASSUME SignallingAssumption ==
  /\ IsFiniteSet(Trackers) /\ None \notin Sockets /\ None \notin Torrents
  /\ DOMAIN PeerId = Trackers /\ DOMAIN InfoHash = Trackers
  /\ Trackers # {} /\ Offers \in Nat /\ MaxSockets \in Nat \ {0} /\ MaxLosses \in Nat

VARIABLES
  client,    \* the WsTracker objects
  session,   \* what their swarms know of offers
  cs,        \* readyState of the client's end of each socket
  toServer, toClient, \* messages on their way
  losses,    \* connections lost so far
  peers, hashes, swarms, torrents, sock, listening \* server: see TrackerServer

T == INSTANCE TrackerServer WITH
  Conns <- Sockets, HttpIds <- {}, InfoHashes <- Torrents,
  MaxTorrents <- Cardinality(Torrents), MaxPeersPerTorrent <- Cardinality(Sockets),
  MaxListed <- Cardinality(Torrents),
  Null <- None, up <- listening

server == <<peers, hashes, swarms, torrents, sock, listening>>
signallingVars == <<client, session, cs, toServer, toClient, losses, server>>

\* ws: the socket the object refers to; timers: reconnect timers that run.
NewTracker == [ws |-> None, pending |-> <<>>, hasConnected |-> FALSE, destroyed |-> FALSE,
               timers |-> 0, opened |-> 0]

\* pendingOffers, the ids of peers, and the offers of others: being answered, and
\* all taken so far.  Peers do not fail here, so an id once in peers stays.
NewSession == [started |-> FALSE, pendingOffers |-> {}, peers |-> {}, answering |-> {}, taken |-> {}]

Started(offers) == [event |-> "started", offers |-> offers, offer |-> None]
Answer(offer) == [event |-> "answer", offers |-> <<>>, offer |-> offer]
ResponseBare == [type |-> "bare", offer |-> None, from |-> None]  \* mutant: no interval
Response == [type |-> "response", offer |-> None, from |-> None]
Relayed(type, offer, c) == [type |-> type, offer |-> offer, from |-> PeerId[Owner(c)]]

SignallingTypeOK ==
  /\ \A t \in Trackers :
       /\ client[t].ws \in Sockets \cup {None}
       /\ client[t].timers \in Nat /\ client[t].opened \in 0..MaxSockets
       /\ {client[t].hasConnected, client[t].destroyed} \subseteq BOOLEAN
       /\ Len(client[t].pending) <= 1 + Offers * Cardinality(Trackers)
       /\ session[t].pendingOffers \subseteq {t} \X (1..Offers)
       /\ session[t].answering \subseteq session[t].taken
  /\ cs \in [Sockets -> {"none", "connecting", "open", "closing", "closed"}]
  /\ losses \in 0..MaxLosses
  /\ T!TypeOK

SignallingInit ==
  /\ client = [t \in Trackers |-> NewTracker]
  /\ session = [t \in Trackers |-> NewSession]
  /\ cs = [c \in Sockets |-> "none"]
  /\ toServer = [c \in Sockets |-> <<>>] /\ toClient = [c \in Sockets |-> <<>>]
  /\ losses = 0
  /\ T!Init
-----------------------------------------------------------------------------
(***************************************************************************)
(* The tracker object: operations on a record w of the object, the states  *)
(* of the sockets and what is sent                                         *)
(***************************************************************************)
World(t) == [obj |-> client[t], cs |-> cs, sent |-> toServer]

\* _connect.
MayConnect(w) == w.obj.destroyed \/ w.obj.opened < MaxSockets
ConnectWs(w, t) ==
  LET n == w.obj.opened + 1
  IN  IF w.obj.destroyed THEN w
      ELSE [w EXCEPT !.obj.ws = <<t, n>>, !.obj.opened = n, !.cs[<<t, n>>] = "connecting"]

\* _flushAnnounces: everything pending is sent, sent before or not; an answer
\* settles at once, the others wait for a response.
Unsettled(pending) ==
  FoldLeft(LAMBDA left, m : IF m.event = "answer" THEN left ELSE Append(left, m), <<>>, pending)
FlushAll(w) ==
  IF w.obj.ws = None \/ w.cs[w.obj.ws] # "open" THEN w
  ELSE [w EXCEPT !.sent[w.obj.ws] = @ \o w.obj.pending, !.obj.pending = Unsettled(@)]

\* announce.
AnnounceWs(w, t, m) ==
  LET v == [w EXCEPT !.obj.pending = Append(@, m)]
  IN  IF w.obj.destroyed THEN w
      ELSE IF v.obj.ws = None \/ v.cs[v.obj.ws] \in {"closing", "closed"} THEN ConnectWs(v, t)
      ELSE FlushAll(v)

TrackerBecomes(t, w) ==
  /\ client' = [client EXCEPT ![t] = w.obj]
  /\ cs' = w.cs /\ toServer' = w.sent
-----------------------------------------------------------------------------
(***************************************************************************)
(* The client                                                              *)
(***************************************************************************)

\* Swarm.start with the offers made.
Start(t) ==
  LET offers == [k \in 1..Offers |-> <<t, k>>] IN
  /\ ~session[t].started /\ ~client[t].destroyed
  /\ MayConnect(World(t))
  /\ TrackerBecomes(t, AnnounceWs(World(t), t, Started(offers)))
  /\ session' = [session EXCEPT ![t].started = TRUE, ![t].pendingOffers = Range(offers)]
  /\ UNCHANGED <<toClient, losses, server>>

\* The answer to an offer is ready: the peer's signal event in _onTrackerPeer.
SendAnswer(t, offer) ==
  /\ offer \in session[t].answering
  /\ MayConnect(World(t))
  /\ TrackerBecomes(t, AnnounceWs(World(t), t, Answer(offer)))
  /\ session' = [session EXCEPT ![t].answering = @ \ {offer}]
  /\ UNCHANGED <<toClient, losses, server>>

\* onmessage, and _onTrackerPeer of the swarm.  A response settles every announce.
Receive(c) ==
  LET t == Owner(c)
      s == session[t]
      m == Head(toClient[c])
      live == ~client[t].destroyed
  IN
  /\ toClient[c] # <<>> /\ cs[c] = "open"
  /\ toClient' = [toClient EXCEPT ![c] = Tail(@)]
  /\ client' = [client EXCEPT ![t].pending = IF m.type = "response" THEN <<>> ELSE @]
  /\ session' = [session EXCEPT ![t] =
       IF live /\ m.type = "offer" /\ m.from \notin s.peers
       THEN [s EXCEPT !.peers = @ \cup {m.from}, !.answering = @ \cup {m.offer},
                      !.taken = @ \cup {m.offer}]
       ELSE IF live /\ m.type = "answer" /\ m.offer \in s.pendingOffers
       THEN [s EXCEPT !.peers = @ \cup {m.from}, !.pendingOffers = @ \ {m.offer}]
       ELSE s]
  /\ UNCHANGED <<cs, toServer, losses, server>>

\* destroy: the socket the object refers to is closed, and the reconnect timers,
\* cleared or not, connect no more.
Destroy(t) ==
  LET ws == client[t].ws IN
  /\ session[t].started /\ ~client[t].destroyed
  /\ client' = [client EXCEPT ![t].destroyed = TRUE, ![t].ws = None, ![t].pending = <<>>,
                              ![t].timers = 0]
  /\ cs' = [c \in Sockets |-> IF c = ws /\ cs[c] \in {"connecting", "open"} THEN "closing" ELSE cs[c]]
  /\ UNCHANGED <<session, toServer, toClient, losses, server>>

\* The reconnect timer.
ReconnectRepeats(t) ==            \* mutant: an interval, not a timeout
  /\ client[t].timers > 0 /\ MayConnect(World(t))
  /\ TrackerBecomes(t, ConnectWs(World(t), t))
  /\ UNCHANGED <<session, toClient, losses, server>>
Reconnect(t) ==
  LET w == [World(t) EXCEPT !.obj.timers = @ - 1] IN
  /\ client[t].timers > 0 /\ MayConnect(w)
  /\ TrackerBecomes(t, ConnectWs(w, t))
  /\ UNCHANGED <<session, toClient, losses, server>>
-----------------------------------------------------------------------------
(***************************************************************************)
(* Sockets                                                                 *)
(***************************************************************************)

\* The connection is accepted (handleConnection) and onopen runs.
Open(c) ==
  LET t == Owner(c)
      w == [World(t) EXCEPT !.obj.hasConnected = TRUE, !.cs[c] = "open"]
  IN
  /\ cs[c] = "connecting"
  /\ T!Connect(c)
  /\ TrackerBecomes(t, FlushAll(w))
  /\ UNCHANGED <<session, toClient, losses>>

OnCloseWaits(t) ==                \* mutant: no timer
  client' = [client EXCEPT ![t].ws = None]
\* onclose: whatever socket it was, the object forgets the one it refers to.
OnClose(t) ==
  client' = [client EXCEPT ![t].ws = None,
    ![t].timers = IF client[t].destroyed \/ ~client[t].hasConnected THEN @ ELSE @ + 1,
    ![t].pending = IF client[t].destroyed \/ ~client[t].hasConnected THEN <<>> ELSE @]

\* The server cannot be reached.
Refused(c) ==
  /\ cs[c] = "connecting" /\ losses < MaxLosses
  /\ losses' = losses + 1
  /\ cs' = [cs EXCEPT ![c] = "closed"]
  /\ OnClose(Owner(c))
  /\ UNCHANGED <<session, toServer, toClient, server>>

\* The connection is lost: the server's end sees it close (handleDisconnection)
\* and what is in flight is gone; the client's end may have seen a close frame.
Lose(c) ==
  /\ cs[c] = "open" /\ sock[c] = "open" /\ losses < MaxLosses
  /\ losses' = losses + 1
  /\ T!Disconnect(c)
  /\ toServer' = [toServer EXCEPT ![c] = <<>>] /\ toClient' = [toClient EXCEPT ![c] = <<>>]
  /\ \E state \in {"open", "closing"} : cs' = [cs EXCEPT ![c] = state]
  /\ UNCHANGED <<client, session>>

\* The close event of the client's end.
Closed(c) ==
  /\ \/ cs[c] = "closing"
     \/ cs[c] = "open" /\ sock[c] = "closed"
  /\ cs' = [cs EXCEPT ![c] = "closed"]
  /\ OnClose(Owner(c))
  /\ toClient' = [toClient EXCEPT ![c] = <<>>]
  /\ UNCHANGED <<session, toServer, losses, server>>
-----------------------------------------------------------------------------
(***************************************************************************)
(* The server                                                              *)
(***************************************************************************)

\* Who gets offers of c: the other open members of the swarm with another peer id.
Available(c) ==
  {d \in swarms'.members[InfoHash[Owner(c)]] \ {c} :
     sock[d] = "open" /\ PeerId[Owner(d)] # PeerId[Owner(c)]}

\* The first peer of the Map that has announced the peer id; listed is infoHashes,
\* which an announce sets together with the peer id.
FirstWith(id, listed) ==
  LET holders == SelectSeq(peers, LAMBDA c : listed[c] # <<>> /\ PeerId[Owner(c)] = id)
  IN  IF holders = <<>> THEN {} ELSE {holders[1]}

Send(c, offers) ==                \* the response, and an offer to each of some others
  LET open == Available(c)
      n == IF Len(offers) < Cardinality(open) THEN Len(offers) ELSE Cardinality(open)
  IN  \E targets \in SetToSeqs(open) :
        toClient' = [d \in Sockets |-> toClient[d] \o
          (IF d = c THEN <<Response>> ELSE <<>>) \o
          (IF d \in Range(SubSeq(targets, 1, n))
           THEN <<Relayed("offer", offers[CHOOSE i \in 1..n : targets[i] = d], c)>> ELSE <<>>)]

SendAnswerBack(c, offer, targets) ==    \* mutant: to the sender of the answer
  toClient' = [toClient EXCEPT ![c] = @ \o <<Response, Relayed("answer", offer, c)>>]
SendAnswerTo(c, offer, targets) ==
  toClient' = [d \in Sockets |-> toClient[d] \o
    (IF d = c THEN <<Response>> ELSE <<>>) \o
    (IF d \in targets /\ sock[d] = "open" THEN <<Relayed("answer", offer, c)>> ELSE <<>>)]

\* handleAnnounce with the signalling embedded in it.
Serve(c) ==
  LET m == Head(toServer[c]) IN
  /\ toServer[c] # <<>> /\ sock[c] = "open"
  /\ toServer' = [toServer EXCEPT ![c] = Tail(@)]
  /\ T!Announce(c, InfoHash[Owner(c)], "started")
  /\ IF m.event = "started" THEN Send(c, m.offers)
     ELSE SendAnswerTo(c, m.offer, FirstWith(PeerId[Maker(m.offer)], hashes'))
  /\ UNCHANGED <<client, session, cs, losses>>

\* The close event of the server's end, once it has read what was sent before.
ServerClosed(c) ==
  /\ cs[c] \in {"closing", "closed"} /\ toServer[c] = <<>>
  /\ T!Disconnect(c)
  /\ UNCHANGED <<client, session, cs, toServer, toClient, losses>>

SignallingNext ==
  \/ \E t \in Trackers :
       \/ Start(t) \/ Destroy(t) \/ Reconnect(t)
       \/ \E offer \in session[t].answering : SendAnswer(t, offer)
  \/ \E c \in Sockets :
       Open(c) \/ Refused(c) \/ Lose(c) \/ Closed(c) \/ Receive(c) \/ Serve(c) \/ ServerClosed(c)

SignallingSpec == SignallingInit /\ [][SignallingNext]_signallingVars

\* Sockets connect or fail, messages and close events arrive, timers fire.
FairSignallingSpec ==
  /\ SignallingSpec
  /\ \A t \in Trackers : WF_signallingVars(Reconnect(t))
  /\ \A c \in Sockets :
       /\ WF_signallingVars(Open(c)) /\ WF_signallingVars(Closed(c))
       /\ WF_signallingVars(Receive(c)) /\ WF_signallingVars(Serve(c))
       /\ WF_signallingVars(ServerClosed(c))
-----------------------------------------------------------------------------
(***************************************************************************)
(* Properties                                                              *)
(***************************************************************************)

\* Every announce settles, however sockets of the object replace each other: the
\* close event of an old socket takes the new one from ws, a timer and an announce
\* both connect (WsTracker.announce, _connect, _flushAnnounces).
AnnouncesSettle == \A t \in Trackers : client[t].pending # <<>> ~> client[t].pending = <<>>

\* The server has the maker's connection for the peer id that announced offer.
Reaches(offer) ==
  \E c \in FirstWith(PeerId[Maker(offer)], hashes) : Owner(c) = Maker(offer) /\ sock[c] = "open"

\* An answer sent reaches the swarm that made the offer, unless the answering side's
\* connection is lost first or the server takes another connection for the
\* maker's: the first with its peer id, which a second torrent of the same client
\* and a connection closed long ago have too (handleWebSocketSignaling).
AnswersArrive ==
  \A t \in Trackers : \A offer \in {t} \X (1..Offers) :
    (\E c \in Sockets : Answer(offer) \in Range(toServer[c]))
      ~> \/ offer \notin session[t].pendingOffers \/ client[t].destroyed \/ ~Reaches(offer)
         \/ \E c \in Sockets : sock[c] = "closed" /\ offer \in session[Owner(c)].taken

\* Two clients take offers of each other, and so make two connections between them
\* of which their peer maps hold one, only if one of them connected again: of two
\* announces the server passes on the offers of the later only, and an announce is
\* settled before an answer can make _flushAnnounces send it again.
OffersCrossNot ==
  \A t, u \in Trackers :
    /\ \E offer \in session[t].taken : Maker(offer) = u
    /\ \E offer \in session[u].taken : Maker(offer) = t
    => client[t].opened > 1 \/ client[u].opened > 1

\* Reconnecting does not breed sockets: a loss leaves at most two more of an object
\* alive, one connected by an announce and one by the timer (announce, onclose).
Alive(t) == {c \in Sockets : Owner(c) = t /\ cs[c] \in {"connecting", "open"}}
SocketsBounded == \A t \in Trackers : Cardinality(Alive(t)) <= 1 + 2 * losses
=============================================================================

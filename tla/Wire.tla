-------------------------------- MODULE Wire --------------------------------
(***************************************************************************)
(* The peer wire protocol (core/wire.ts): two endpoints that run the same  *)
(* Wire class over one ordered, reliable data channel.                     *)
(*                                                                         *)
(* Every send goes through _sendMessage (gates, availability order, write, *)
(* local state) and every arrival through _processBuffer (gates, order,    *)
(* limits, remote state, event).  Either side may be destroyed or time out *)
(* at any moment; messages in flight then arrive or are lost.  Payloads    *)
(* are abstracted to the block they name; "declare" stands for bitfield,   *)
(* haveAll and haveNone, "have" for have, suggestPiece and allowedFast.    *)
(***************************************************************************)
EXTENDS Integers, FiniteSets, Sequences, SequencesExt

CONSTANTS
  Blocks,     \* blocks the endpoints ask each other for
  MaxPending, \* maxPendingRequests
  Uses,       \* message types the application at each endpoint sends
  QueueBound  \* bound: messages in flight in one direction, answers apart

Endpoints == {"A", "B"}
Other(e) == IF e = "A" THEN "B" ELSE "A"

Flags    == {"choke", "unchoke", "interested", "notInterested"}
Requests == {"request", "cancel"}
Answers  == {"piece", "reject"}
Types    == Flags \cup {"declare", "have", "ignore"} \cup Requests \cup Answers

ASSUME WireAssumption ==
  /\ IsFiniteSet(Blocks)
  /\ MaxPending \in Nat \ {0}
  /\ QueueBound \in Nat \ {0}
  /\ Uses \in [Endpoints -> SUBSET Types]

VARIABLES
  fast,  \* both handshakes announce the Fast extension
  ep,    \* the Wire object of each endpoint, with the requests it is serving
  inbox, \* messages on their way to each endpoint, in order
  link   \* the data channel: "up" or "down"

vars == <<fast, ep, inbox, link>>

Message(type) == [type |-> type]
BlockMessage(type, k) == [type |-> type, block |-> k]
Messages == [type : {"handshake", "declare", "have"} \cup Flags]
            \cup [type : Requests \cup Answers, block : Blocks]

\* Availability order, of the messages sent and of those received.
Orders == {"open", "declared", "passed"}

Fresh == [state |-> "handshaking", reason |-> "none", sent |-> FALSE,
          amChoking |-> TRUE, amInterested |-> FALSE,
          peerChoking |-> TRUE, peerInterested |-> FALSE,
          local |-> "open", remote |-> "open",
          pending |-> {}, peerRequests |-> {}, serving |-> {}, ignored |-> {}]

TypeOK ==
  /\ fast \in BOOLEAN
  /\ link \in {"up", "down"}
  /\ ep \in [Endpoints ->
       [state : {"handshaking", "connected", "closed"},
        reason : {"none", "protocol", "limit", "destroy", "timeout", "link"}, sent : BOOLEAN,
        amChoking : BOOLEAN, amInterested : BOOLEAN,
        peerChoking : BOOLEAN, peerInterested : BOOLEAN,
        local : Orders, remote : Orders,
        pending : SUBSET Blocks, peerRequests : SUBSET Blocks,
        serving : SUBSET Blocks, ignored : SUBSET Blocks]]
  /\ \A e \in Endpoints : inbox[e] \in Seq(Messages)

Init ==
  /\ fast \in BOOLEAN
  /\ ep = [e \in Endpoints |-> Fresh]
  /\ inbox = [e \in Endpoints |-> <<>>]
  /\ link = "up"
-----------------------------------------------------------------------------
(***************************************************************************)
(* Pure parts of the Wire                                                  *)
(***************************************************************************)

\* _validateAvailabilityOrder.
OrderOK(order, m) ==
  \/ ~fast
  \/ m.type \in Flags
  \/ m.type = "declare" /\ order = "open"
  \/ m.type # "declare" /\ order # "open"

\* _commitAvailabilityOrder.
NextOrder(order, m) ==
  CASE m.type \in Flags                          -> order
    [] m.type = "declare" \/ order = "declared"  -> "declared"
    [] OTHER                                     -> "passed"

\* _assertExtensionNegotiated.
Negotiated(m) == m.type = "reject" => fast

\* The four flag messages, on the pair of flags they are about.
SetFlag(p, type, choking, interested) ==
  CASE type = "choke"         -> [p EXCEPT ![choking] = TRUE]
    [] type = "unchoke"       -> [p EXCEPT ![choking] = FALSE]
    [] type = "interested"    -> [p EXCEPT ![interested] = TRUE]
    [] type = "notInterested" -> [p EXCEPT ![interested] = FALSE]

\* _applyLocalState: note that a local cancel forgets the peer's request.
LocalState(p, m) ==
  CASE m.type \in Flags     -> SetFlag(p, m.type, "amChoking", "amInterested")
    [] m.type = "request"   -> [p EXCEPT !.pending = @ \cup {m.block}]
    [] m.type \in Answers \cup {"cancel"}
                            -> [p EXCEPT !.peerRequests = @ \ {m.block}]
    [] OTHER                -> p

\* The object after one more message sent.
Sent(p, m) == LocalState([p EXCEPT !.local = NextOrder(@, m)], m)

\* A remote choke drops what is pending unless the peer will reject it.
RemoteFlagOneWay(p, type) ==      \* mutant: notInterested is not recorded
  IF type = "notInterested" THEN p
  ELSE SetFlag(p, type, "peerChoking", "peerInterested")
RemoteFlag(p, type) ==
  SetFlag([p EXCEPT !.pending = IF type = "choke" /\ ~fast THEN {} ELSE @],
          type, "peerChoking", "peerInterested")

\* A remote request, and the "request" handler that it starts.
Requested(p, k) ==
  [p EXCEPT !.peerRequests = @ \cup {k}, !.serving = @ \cup {k}, !.ignored = @ \ {k}]

\* A remote cancel; the handler that serves the block is not stopped.
CancelledServing(p, k) ==         \* mutant: the handler is stopped unanswered
  [p EXCEPT !.peerRequests = @ \ {k}, !.serving = @ \ {k}]
Cancelled(p, k) == [p EXCEPT !.peerRequests = @ \ {k}]

\* A piece or a reject.
AnsweredByPiece(p, m) ==          \* mutant: a reject does not settle
  [p EXCEPT !.pending = IF m.type = "piece" THEN @ \ {m.block} ELSE @]
Answered(p, m) == [p EXCEPT !.pending = @ \ {m.block}]

\* _applyRemoteState.
RemoteState(p, m) ==
  CASE m.type \in Flags   -> RemoteFlag(p, m.type)
    [] m.type = "request" -> Requested(p, m.block)
    [] m.type = "cancel"  -> Cancelled(p, m.block)
    [] m.type \in Answers -> Answered(p, m)
    [] OTHER              -> p

\* The object after one more message received.
Received(p, m) == RemoteState([p EXCEPT !.remote = NextOrder(@, m)], m)
-----------------------------------------------------------------------------
(***************************************************************************)
(* Life of an endpoint                                                     *)
(***************************************************************************)

\* _terminate closes the transport and forgets all requests; what was on its
\* way to this side is lost.  The flags are dropped too: nothing reads them any
\* more, and a "request" handler that resumes now only throws.
Terminate(e, reason) ==
  /\ ep[e].state # "closed"
  /\ ep' = [ep EXCEPT ![e] = [Fresh EXCEPT !.state = "closed", !.reason = reason]]
  /\ inbox' = [inbox EXCEPT ![e] = <<>>]
  /\ link' = "down"
  /\ UNCHANGED fast

Destroy(e) == Terminate(e, "destroy")
HandshakeTimeout(e) == ep[e].state = "handshaking" /\ Terminate(e, "timeout")

\* The channel's close event; it may overtake the last messages.
LinkDown(e) == link = "down" /\ Terminate(e, "link")

\* transport.send drops the frame in silence once the channel is closed.
Transmit(e, m) ==
  inbox' = IF link = "up" THEN [inbox EXCEPT ![Other(e)] = Append(@, m)] ELSE inbox

\* Peer._setupWire: the wire is built and sends its handshake in one task.
SendHandshake(e) ==
  /\ ep[e].state = "handshaking" /\ ~ep[e].sent
  /\ ep' = [ep EXCEPT ![e].sent = TRUE]
  /\ Transmit(e, Message("handshake"))
  /\ UNCHANGED <<fast, link>>

\* _sendMessage; a gate that throws leaves everything as it was.
CanSendAnyOrder(e, m) ==          \* mutant: the order is checked on arrival only
  ep[e].state = "connected" /\ m.type \in Uses[e] /\ Negotiated(m)
CanSend(e, m) ==
  /\ ep[e].state = "connected"
  /\ m.type \in Uses[e]
  /\ Negotiated(m)
  /\ OrderOK(ep[e].local, m)

SendMessage(e, m, p) ==
  /\ CanSend(e, m)
  /\ Transmit(e, m)
  /\ ep' = [ep EXCEPT ![e] = Sent(p, m)]
  /\ UNCHANGED <<fast, link>>

Room(e) ==
  Cardinality({i \in 1..Len(inbox[e]) : inbox[e][i].type \notin Answers}) < QueueBound

Send(e, type) ==
  /\ Room(Other(e))
  /\ SendMessage(e, Message(type), ep[e])

\* The torrent asks once for a block it awaits; a choked wire drops the request.
SendRequest(e, k) ==
  /\ Room(Other(e))
  /\ ~ep[e].peerChoking /\ k \notin ep[e].pending
  /\ SendMessage(e, BlockMessage("request", k), ep[e])

SendCancel(e, k) ==
  /\ Room(Other(e))
  /\ k \in ep[e].pending
  /\ SendMessage(e, BlockMessage("cancel", k), ep[e])

\* The torrent's "request" handler resumes after getPiece and answers.
Answer(e, type, k) ==
  /\ k \in ep[e].serving
  /\ SendMessage(e, BlockMessage(type, k), [ep[e] EXCEPT !.serving = @ \ {k}])

\* Or it does not: the piece is missing, or sendPiece throws.
Ignore(e, k) ==
  /\ k \in ep[e].serving
  /\ "ignore" \in Uses[e] \/ ~CanSend(e, BlockMessage("piece", k))
  /\ ep' = [ep EXCEPT ![e].serving = @ \ {k}, ![e].ignored = @ \cup {k}]
  /\ UNCHANGED <<fast, inbox, link>>

\* _processBuffer for one whole message.
InOrder(p, m) == Negotiated(m) /\ OrderOK(p.remote, m)
WithinLimit(p, m) == m.type = "request" => Cardinality(p.peerRequests) < MaxPending

Deliver(e) ==
  /\ inbox[e] # <<>> /\ ep[e].sent /\ ep[e].state # "closed"
  /\ LET m == Head(inbox[e]) IN
     IF m.type = "handshake"
     THEN /\ ep' = [ep EXCEPT ![e].state = "connected"]
          /\ inbox' = [inbox EXCEPT ![e] = Tail(@)]
          /\ UNCHANGED <<fast, link>>
     ELSE IF InOrder(ep[e], m) /\ WithinLimit(ep[e], m)
     THEN /\ ep' = [ep EXCEPT ![e] = Received(@, m)]
          /\ inbox' = [inbox EXCEPT ![e] = Tail(@)]
          /\ UNCHANGED <<fast, link>>
     ELSE Terminate(e, IF InOrder(ep[e], m) THEN "limit" ELSE "protocol")
-----------------------------------------------------------------------------
Serve(e, k) == (\E type \in Answers : Answer(e, type, k)) \/ Ignore(e, k)

Next ==
  \E e \in Endpoints :
    \/ SendHandshake(e) \/ Deliver(e)
    \/ HandshakeTimeout(e) \/ Destroy(e) \/ LinkDown(e)
    \/ \E type \in Flags \cup {"declare", "have"} : Send(e, type)
    \/ \E k \in Blocks : SendRequest(e, k) \/ SendCancel(e, k) \/ Serve(e, k)

Spec == Init /\ [][Next]_vars

\* The channel delivers, close events arrive, and promises of the "request"
\* handler resolve.  Nothing is assumed of what the applications send.
FairSpec ==
  /\ Spec
  /\ \A e \in Endpoints : /\ WF_vars(SendHandshake(e)) /\ WF_vars(Deliver(e))
                          /\ WF_vars(LinkDown(e))
                          /\ \A k \in Blocks : WF_vars(Serve(e, k))
-----------------------------------------------------------------------------
(***************************************************************************)
(* Properties                                                              *)
(***************************************************************************)

\* What the gates of one endpoint let out, those of the other let in: two Wires
\* never kill each other's connection over availability order or negotiation,
\* whatever they send and when.  With reject semantics and no more blocks than
\* the limit they do not over requests either; without, a choke clears the
\* requester's side only, and the leftovers fill the limit.
NoProtocolError ==
  \A e \in Endpoints :
    /\ ep[e].reason # "protocol"
    /\ fast /\ Cardinality(Blocks) <= MaxPending => ep[e].reason # "limit"

\* Once what is in flight has arrived, each side sees the other as the other
\* sees itself: choking, interest and availability order never drift apart.
Arrives(p, m) == IF m.type = "handshake" THEN p ELSE Received(p, m)
Arrived(e) == FoldLeft(Arrives, ep[e], inbox[e])
ViewsConverge ==
  link = "up" =>
    \A e \in Endpoints :
      /\ Arrived(e).peerChoking = ep[Other(e)].amChoking
      /\ Arrived(e).peerInterested = ep[Other(e)].amInterested
      /\ Arrived(e).remote = ep[Other(e)].local

\* A pending request is somewhere: on its way, being served, on its way back, or
\* ignored by the peer's torrent, which never answers for a piece it lacks.
InFlight(e, types) ==
  {inbox[e][i].block : i \in {j \in 1..Len(inbox[e]) : inbox[e][j].type \in types}}
RequestsAccounted ==
  link = "up" =>
    \A e \in Endpoints :
      ep[e].pending \subseteq InFlight(Other(e), {"request"}) \cup ep[Other(e)].serving
                              \cup InFlight(e, Answers) \cup ep[Other(e)].ignored

\* Every request is settled: answered, rejected, forgotten with a choke or with
\* the connection, or ignored by the peer's torrent.
RequestsSettle ==
  \A e \in Endpoints, k \in Blocks :
    k \in ep[e].pending ~> (k \notin ep[e].pending \/ k \in ep[Other(e)].ignored)
=============================================================================

----------------------------- MODULE WireProofs -----------------------------
(***************************************************************************)
(* Proofs about Wire, for every set of blocks, limit and use of the        *)
(* connection: two ends that run this code never end a connection over the *)
(* order of messages, nor over the number of requests; what is on its way  *)
(* makes each end's view of the other what the other is; and no pending    *)
(* request is lost.                                                        *)
(***************************************************************************)
EXTENDS Wire, RecursionLemmas, FiniteSetTheorems, TLAPS

Fields == DOMAIN Fresh

\* Records and messages are what TypeOK says, as far as the proof needs it.
EndShape(p) ==
  /\ DOMAIN p = Fields
  /\ p.remote \in Orders /\ p.local \in Orders
  /\ p.peerRequests \subseteq Blocks
Shape ==
  /\ DOMAIN ep = Endpoints /\ \A e \in Endpoints : EndShape(ep[e])
  /\ DOMAIN inbox = Endpoints /\ \A e \in Endpoints : inbox[e] \in Seq(Messages)
  /\ link \in {"up", "down"}

\* The gates that a message passes when it is sent and when it arrives.
Passes(f, order, m) ==
  /\ m.type = "reject" => f
  /\ \/ ~f \/ m.type \in Flags
     \/ m.type = "declare" /\ order = "open"
     \/ m.type # "declare" /\ order # "open"

\* A message takes the availability order from a to b, as both ends keep it.
Follows(f, a, m, b) ==
  IF m.type = "handshake" THEN b = a ELSE Passes(f, a, m) /\ b = NextOrder(a, m)

\* The messages of q, one after the other, take the order that the receiver has to
\* the one that the sender has.
Replays(f, remote, q, local, l) ==
  \E o \in [1..Len(q) + 1 -> Orders] :
    /\ o[1] = remote
    /\ \A i \in 1..Len(q) : Follows(f, o[i], q[i], o[i + 1])
    /\ l = "up" => o[Len(q) + 1] = local

Asks(m, k) == m.type = "request" /\ m.block = k
Settles(m, k) == m.type \in Answers /\ m.block = k
Busy(p) == p.serving \cup p.ignored

\* A request of p is at one place: on its way to o, with o, or answered on its way
\* to p.  qo and qp are what is on its way to o and to p.
Accounts(p, o, qo, qp, l) ==
  /\ o.serving \cap o.ignored = {} /\ o.peerRequests \subseteq Busy(o)
  /\ \A k \in Blocks :
       /\ \A i, j \in 1..Len(qo) : Asks(qo[i], k) /\ Asks(qo[j], k) => i = j
       /\ \A i \in 1..Len(qo) : Asks(qo[i], k) => k \notin Busy(o)
       /\ l = "up" =>
            /\ \A i \in 1..Len(qo) : Asks(qo[i], k) =>
                 k \in p.pending /\ \A j \in 1..Len(qp) : ~Settles(qp[j], k)
            /\ k \in Busy(o) => k \in p.pending /\ \A j \in 1..Len(qp) : ~Settles(qp[j], k)
            /\ \A i, j \in 1..Len(qp) : Settles(qp[i], k) /\ Settles(qp[j], k) => i = j
            /\ \A j \in 1..Len(qp) : Settles(qp[j], k) => k \in p.pending

InOrderInv == \A e \in Endpoints : Replays(fast, ep[e].remote, inbox[e], ep[Other(e)].local, link)
AccountInv ==
  fast => \A e \in Endpoints :
    Accounts(ep[e], ep[Other(e)], inbox[Other(e)], inbox[e], link)

\* The inductive invariant.
IInv == Shape /\ InOrderInv /\ AccountInv /\ NoProtocolError
-----------------------------------------------------------------------------
(***************************************************************************)
(* Queues                                                                  *)
(***************************************************************************)

\* The messages of a queue that one more is sent on.
LEMMA AppendAt ==
  ASSUME NEW S, NEW q \in Seq(S), NEW m \in S
  PROVE  /\ Append(q, m) \in Seq(S) /\ Len(Append(q, m)) = Len(q) + 1
         /\ \A i \in 1..Len(q) : Append(q, m)[i] = q[i]
         /\ Append(q, m)[Len(q) + 1] = m
OBVIOUS

\* The messages of a queue whose first one has arrived.
LEMMA TailAt ==
  ASSUME NEW S, NEW q \in Seq(S), q # <<>>
  PROVE  /\ Tail(q) \in Seq(S) /\ Len(Tail(q)) = Len(q) - 1 /\ Len(q) >= 1
         /\ \A i \in 1..Len(q) - 1 : Tail(q)[i] = q[i + 1]
         /\ Head(q) = q[1] /\ Head(q) \in S
OBVIOUS

\* A message follows on the order its sender has.
LEMMA ReplayAppend ==
  ASSUME NEW f, NEW remote, NEW local, NEW q \in Seq(Messages), NEW m \in Messages,
         NEW next \in Orders, Replays(f, remote, q, local, "up"), Follows(f, local, m, next)
  PROVE  Replays(f, remote, Append(q, m), next, "up")
<1>1. PICK o \in [1..Len(q) + 1 -> Orders] :
        /\ o[1] = remote
        /\ \A i \in 1..Len(q) : Follows(f, o[i], q[i], o[i + 1])
        /\ o[Len(q) + 1] = local
  BY DEF Replays
<1>a. PICK t : t = Append(q, m)
  OBVIOUS
<1>2. /\ Len(t) = Len(q) + 1 /\ Len(q) \in Nat
      /\ \A i \in 1..Len(q) : t[i] = q[i]
      /\ t[Len(q) + 1] = m
  BY <1>a, AppendAt
<1>b. PICK n : n = [i \in 1..Len(t) + 1 |-> IF i = Len(t) + 1 THEN next ELSE o[i]]
  OBVIOUS
<1>3. /\ n \in [1..Len(t) + 1 -> Orders] /\ n[1] = remote /\ n[Len(t) + 1] = next
      /\ \A i \in 1..Len(q) + 1 : n[i] = o[i]
  BY <1>1, <1>2, <1>b
<1>4. ASSUME NEW i \in 1..Len(t) PROVE Follows(f, n[i], t[i], n[i + 1])
  <2>1. CASE i \in 1..Len(q)
    <3>1. t[i] = q[i] /\ n[i] = o[i] /\ n[i + 1] = o[i + 1]
      BY <1>2, <1>3, <2>1
    <3> QED BY <1>1, <2>1, <3>1
  <2>2. CASE i = Len(q) + 1
    <3>1. t[i] = m /\ n[i] = local /\ n[i + 1] = next
      BY <1>1, <1>2, <1>3, <2>2
    <3> QED BY <3>1
  <2> QED BY <1>2, <2>1, <2>2
<1> QED BY <1>a, <1>3, <1>4 DEF Replays

\* A message that arrives follows on the order its receiver has.
LEMMA ReplayTail ==
  ASSUME NEW f, NEW remote, NEW local, NEW l, NEW q \in Seq(Messages), q # <<>>,
         Replays(f, remote, q, local, l)
  PROVE  \E next \in Orders :
           Follows(f, remote, Head(q), next) /\ Replays(f, next, Tail(q), local, l)
<1>1. PICK o \in [1..Len(q) + 1 -> Orders] :
        /\ o[1] = remote
        /\ \A i \in 1..Len(q) : Follows(f, o[i], q[i], o[i + 1])
        /\ l = "up" => o[Len(q) + 1] = local
  BY DEF Replays
<1>a. PICK t : t = Tail(q)
  OBVIOUS
<1>2. /\ Len(t) = Len(q) - 1 /\ Len(q) \in Nat /\ Len(q) >= 1 /\ Head(q) = q[1]
      /\ \A i \in 1..Len(t) : t[i] = q[i + 1]
  BY <1>a, TailAt
<1>b. PICK n : n = [i \in 1..Len(t) + 1 |-> o[i + 1]]
  OBVIOUS
<1>3. /\ n \in [1..Len(t) + 1 -> Orders]
      /\ \A i \in 1..Len(t) + 1 : n[i] = o[i + 1]
  BY <1>2, <1>b
<1>4. ASSUME NEW i \in 1..Len(t) PROVE Follows(f, n[i], t[i], n[i + 1])
  <2>1. /\ n[i] = o[i + 1] /\ n[i + 1] = o[i + 2] /\ t[i] = q[i + 1] /\ i + 1 \in 1..Len(q)
        /\ i + 1 + 1 = i + 2
    BY <1>2, <1>3
  <2>2. Follows(f, o[i + 1], q[i + 1], o[i + 1 + 1])
    BY <1>1, <2>1
  <2> QED BY <2>1, <2>2
<1>5. n[1] = o[2] /\ n[Len(t) + 1] = o[Len(q) + 1] /\ o[2] \in Orders
  BY <1>2, <1>3, <1>1
<1>6. Replays(f, o[2], t, local, l)
  BY <1>1, <1>3, <1>4, <1>5 DEF Replays
<1>7. Follows(f, remote, Head(q), o[2])
  BY <1>1, <1>2
<1> QED BY <1>a, <1>5, <1>6, <1>7

\* When the connection is gone only what has been sent counts.
LEMMA ReplayDown ==
  ASSUME NEW f, NEW remote, NEW local, NEW l, NEW q, Replays(f, remote, q, local, l), NEW other
  PROVE  Replays(f, remote, q, other, "down")
BY DEF Replays

\* Nothing on its way takes any order to itself.
LEMMA ReplayEmpty ==
  ASSUME NEW f, NEW remote \in Orders, NEW local, NEW l, l = "up" => remote = local
  PROVE  Replays(f, remote, <<>>, local, l)
<1>a. PICK o : o = [i \in 1..1 |-> remote]
  OBVIOUS
<1>1. o \in [1..Len(<<>>) + 1 -> Orders] /\ o[1] = remote /\ Len(<<>>) = 0
  BY <1>a
<1> QED BY <1>1 DEF Replays
-----------------------------------------------------------------------------
(***************************************************************************)
(* Messages and the objects they change                                    *)
(***************************************************************************)

\* What a message may be.
LEMMA MessageSorts ==
  /\ \A m \in Messages :
       /\ m.type \in {"handshake", "declare", "have"} \cup Flags \cup Requests \cup Answers
       /\ m.type \in Requests \cup Answers => m.block \in Blocks
  /\ \A type \in {"handshake", "declare", "have"} \cup Flags : Message(type) \in Messages
  /\ \A type \in Requests \cup Answers, k \in Blocks : BlockMessage(type, k) \in Messages
BY DEF Messages, Message, BlockMessage, Flags, Requests, Answers

\* _commitAvailabilityOrder stays among the orders.
LEMMA OrderSorts == ASSUME NEW order \in Orders, NEW m PROVE NextOrder(order, m) \in Orders
BY DEF NextOrder, Orders

\* The object of an end that sends.
LEMMA LocalStateLemma ==
  ASSUME NEW p, EndShape(p), NEW m \in Messages, NEW p2, p2 = Sent(p, m)
  PROVE  /\ EndShape(p2) /\ p2.local = NextOrder(p.local, m)
         /\ p2.remote = p.remote /\ p2.reason = p.reason
         /\ p2.serving = p.serving /\ p2.ignored = p.ignored
         /\ p2.pending = IF m.type = "request" THEN p.pending \cup {m.block} ELSE p.pending
         /\ p2.peerRequests = IF m.type \in Answers \cup {"cancel"} THEN p.peerRequests \ {m.block}
                              ELSE p.peerRequests
<1>a. PICK q : q = [p EXCEPT !.local = NextOrder(p.local, m)]
  OBVIOUS
<1>b. p2 = LocalState(q, m) /\ NextOrder(p.local, m) \in Orders
  BY <1>a, OrderSorts DEF Sent, EndShape
<1>1. /\ DOMAIN q = Fields /\ q.local = NextOrder(p.local, m)
      /\ q.remote = p.remote /\ q.reason = p.reason
      /\ q.serving = p.serving /\ q.ignored = p.ignored /\ q.pending = p.pending
      /\ q.peerRequests = p.peerRequests /\ p.remote \in Orders /\ p.peerRequests \subseteq Blocks
  BY <1>a, <1>b DEF EndShape, Fields, Fresh
<1>2. CASE m.type \in Flags
  BY <1>b, <1>1, <1>2 DEF LocalState, SetFlag, Flags, Answers, EndShape, Fields, Fresh
<1>3. CASE m.type = "request"
  BY <1>b, <1>1, <1>3 DEF LocalState, Flags, Answers, EndShape, Fields, Fresh
<1>4. CASE m.type \in Answers \cup {"cancel"}
  BY <1>b, <1>1, <1>4 DEF LocalState, Flags, Answers, EndShape, Fields, Fresh
<1>5. CASE m.type \in {"handshake", "declare", "have"}
  BY <1>b, <1>1, <1>5 DEF LocalState, Flags, Answers, EndShape, Fields, Fresh
<1> QED BY <1>2, <1>3, <1>4, <1>5, MessageSorts DEF Requests

\* What a message m that arrives at an end changes there: of what the end is asked for,
\* and of what it asked for.
Serves(o, m, o2) ==
  /\ o2.peerRequests = IF m.type = "request" THEN o.peerRequests \cup {m.block}
                       ELSE IF m.type = "cancel" THEN o.peerRequests \ {m.block}
                       ELSE o.peerRequests
  /\ o2.serving = IF m.type = "request" THEN o.serving \cup {m.block} ELSE o.serving
  /\ o2.ignored = IF m.type = "request" THEN o.ignored \ {m.block} ELSE o.ignored
Clears(p, m, p2) ==
  p2.pending = IF m.type \in Answers THEN p.pending \ {m.block} ELSE p.pending

\* The object of an end that receives, under the Fast extension.
LEMMA RemoteStateLemma ==
  ASSUME NEW p, EndShape(p), NEW m \in Messages, NEW p2, p2 = Received(p, m)
  PROVE  /\ EndShape(p2) /\ p2.remote = NextOrder(p.remote, m)
         /\ p2.local = p.local /\ p2.reason = p.reason
         /\ fast => Clears(p, m, p2)
         /\ Serves(p, m, p2)
<1>a. PICK q : q = [p EXCEPT !.remote = NextOrder(p.remote, m)]
  OBVIOUS
<1>b. p2 = RemoteState(q, m) /\ NextOrder(p.remote, m) \in Orders
  BY <1>a, OrderSorts DEF Received, EndShape
<1>1. /\ DOMAIN q = Fields /\ q.remote = NextOrder(p.remote, m)
      /\ q.local = p.local /\ q.reason = p.reason
      /\ q.serving = p.serving /\ q.ignored = p.ignored /\ q.pending = p.pending
      /\ q.peerRequests = p.peerRequests /\ p.local \in Orders /\ p.peerRequests \subseteq Blocks
  BY <1>a, <1>b DEF EndShape, Fields, Fresh
<1>2. CASE m.type \in Flags
  BY <1>b, <1>1, <1>2
     DEF RemoteState, RemoteFlag, SetFlag, Flags, Answers, Serves, Clears, EndShape, Fields, Fresh
<1>3. CASE m.type = "request"
  <2>1. m.block \in Blocks
    BY <1>3, MessageSorts DEF Requests
  <2>2. RemoteState(q, m) = Requested(q, m.block)
    BY <1>3 DEF RemoteState, Flags, Answers
  <2>3. p2 = Requested(q, m.block)
    BY <1>b, <2>2
  <2>4. /\ DOMAIN p2 = Fields /\ p2.remote = q.remote /\ p2.local = q.local
        /\ p2.reason = q.reason /\ p2.pending = q.pending
        /\ p2.peerRequests = q.peerRequests \cup {m.block}
        /\ p2.serving = q.serving \cup {m.block} /\ p2.ignored = q.ignored \ {m.block}
    BY <1>1, <2>3 DEF Requested, Fields, Fresh
  <2> QED BY <1>b, <1>1, <1>3, <2>1, <2>4 DEF Answers, Serves, Clears, EndShape
<1>4. CASE m.type = "cancel"
  BY <1>b, <1>1, <1>4
     DEF RemoteState, Cancelled, Flags, Answers, Serves, Clears, EndShape, Fields, Fresh
<1>5. CASE m.type \in Answers
  BY <1>b, <1>1, <1>5
     DEF RemoteState, Answered, Flags, Answers, Serves, Clears, EndShape, Fields, Fresh
<1>6. CASE m.type \in {"handshake", "declare", "have"}
  BY <1>b, <1>1, <1>6 DEF RemoteState, Flags, Answers, Serves, Clears, EndShape, Fields, Fresh
<1> QED BY <1>2, <1>3, <1>4, <1>5, <1>6, MessageSorts DEF Requests
-----------------------------------------------------------------------------
(***************************************************************************)
(* Where a request is                                                      *)
(***************************************************************************)

\* The end that asks sends a message.
LEMMA RequesterSends ==
  ASSUME NEW p, NEW o, NEW qo \in Seq(Messages), NEW qp \in Seq(Messages), NEW m \in Messages,
         Accounts(p, o, qo, qp, "up"), NEW p2,
         p2.pending = IF m.type = "request" THEN p.pending \cup {m.block} ELSE p.pending,
         m.type = "request" => m.block \notin p.pending
  PROVE  Accounts(p2, o, Append(qo, m), qp, "up")
<1>a. PICK t : t = Append(qo, m)
  OBVIOUS
<1>1. /\ Len(t) = Len(qo) + 1 /\ Len(qo) \in Nat
      /\ \A i \in 1..Len(qo) : t[i] = qo[i]
      /\ t[Len(qo) + 1] = m
  BY <1>a, AppendAt
<1>2. \A i \in 1..Len(t) : i \in 1..Len(qo) \/ i = Len(qo) + 1
  BY <1>1
<1>3. ASSUME NEW k \in Blocks
      PROVE  /\ \A i, j \in 1..Len(t) : Asks(t[i], k) /\ Asks(t[j], k) => i = j
             /\ \A i \in 1..Len(t) : Asks(t[i], k) => k \notin Busy(o)
             /\ \A i \in 1..Len(t) : Asks(t[i], k) =>
                  k \in p2.pending /\ \A j \in 1..Len(qp) : ~Settles(qp[j], k)
             /\ k \in Busy(o) => k \in p2.pending /\ \A j \in 1..Len(qp) : ~Settles(qp[j], k)
             /\ \A i, j \in 1..Len(qp) : Settles(qp[i], k) /\ Settles(qp[j], k) => i = j
             /\ \A j \in 1..Len(qp) : Settles(qp[j], k) => k \in p2.pending
  <2>1. /\ \A i, j \in 1..Len(qo) : Asks(qo[i], k) /\ Asks(qo[j], k) => i = j
        /\ \A i \in 1..Len(qo) : Asks(qo[i], k) => k \notin Busy(o)
        /\ \A i \in 1..Len(qo) : Asks(qo[i], k) =>
             k \in p.pending /\ \A j \in 1..Len(qp) : ~Settles(qp[j], k)
        /\ k \in Busy(o) => k \in p.pending /\ \A j \in 1..Len(qp) : ~Settles(qp[j], k)
        /\ \A i, j \in 1..Len(qp) : Settles(qp[i], k) /\ Settles(qp[j], k) => i = j
        /\ \A j \in 1..Len(qp) : Settles(qp[j], k) => k \in p.pending
    BY DEF Accounts
  <2>2. Asks(m, k) => k \notin p.pending /\ k \in p2.pending
    BY DEF Asks
  <2>3. k \in p.pending => k \in p2.pending
    OBVIOUS
  <2> QED BY <1>1, <1>2, <2>1, <2>2, <2>3
<1>4. o.serving \cap o.ignored = {} /\ o.peerRequests \subseteq Busy(o)
  BY DEF Accounts
<1> QED BY <1>a, <1>3, <1>4 DEF Accounts

\* The end that is asked sends a message; an answer is for a request it serves.
LEMMA ServerSends ==
  ASSUME NEW p, NEW o, NEW qo \in Seq(Messages), NEW qp \in Seq(Messages), NEW m \in Messages,
         Accounts(p, o, qo, qp, "up"), NEW o2,
         o2.ignored = o.ignored,
         o2.serving = IF m.type \in Answers THEN o.serving \ {m.block} ELSE o.serving,
         m.type \in Answers => m.block \in o.serving,
         o2.peerRequests \subseteq
           (IF m.type \in Answers THEN o.peerRequests \ {m.block} ELSE o.peerRequests)
  PROVE  Accounts(p, o2, qo, Append(qp, m), "up")
<1>a. PICK t : t = Append(qp, m)
  OBVIOUS
<1>1. /\ Len(t) = Len(qp) + 1 /\ Len(qp) \in Nat
      /\ \A i \in 1..Len(qp) : t[i] = qp[i]
      /\ t[Len(qp) + 1] = m
  BY <1>a, AppendAt
<1>2. \A i \in 1..Len(t) : i \in 1..Len(qp) \/ i = Len(qp) + 1
  BY <1>1
<1>4. /\ o2.serving \cap o2.ignored = {} /\ o2.peerRequests \subseteq Busy(o2)
      /\ o.serving \cap o.ignored = {} /\ Busy(o2) \subseteq Busy(o)
  BY DEF Accounts, Busy
<1>3. ASSUME NEW k \in Blocks
      PROVE  /\ \A i, j \in 1..Len(qo) : Asks(qo[i], k) /\ Asks(qo[j], k) => i = j
             /\ \A i \in 1..Len(qo) : Asks(qo[i], k) => k \notin Busy(o2)
             /\ \A i \in 1..Len(qo) : Asks(qo[i], k) =>
                  k \in p.pending /\ \A j \in 1..Len(t) : ~Settles(t[j], k)
             /\ k \in Busy(o2) => k \in p.pending /\ \A j \in 1..Len(t) : ~Settles(t[j], k)
             /\ \A i, j \in 1..Len(t) : Settles(t[i], k) /\ Settles(t[j], k) => i = j
             /\ \A j \in 1..Len(t) : Settles(t[j], k) => k \in p.pending
  <2>1. /\ \A i, j \in 1..Len(qo) : Asks(qo[i], k) /\ Asks(qo[j], k) => i = j
        /\ \A i \in 1..Len(qo) : Asks(qo[i], k) => k \notin Busy(o)
        /\ \A i \in 1..Len(qo) : Asks(qo[i], k) =>
             k \in p.pending /\ \A j \in 1..Len(qp) : ~Settles(qp[j], k)
        /\ k \in Busy(o) => k \in p.pending /\ \A j \in 1..Len(qp) : ~Settles(qp[j], k)
        /\ \A i, j \in 1..Len(qp) : Settles(qp[i], k) /\ Settles(qp[j], k) => i = j
        /\ \A j \in 1..Len(qp) : Settles(qp[j], k) => k \in p.pending
    BY DEF Accounts
  <2>2. Settles(m, k) => k \in Busy(o) /\ k \notin Busy(o2)
    BY <1>4 DEF Settles, Busy
  <2> QED BY <1>1, <1>2, <1>4, <2>1, <2>2
<1> QED BY <1>a, <1>3, <1>4 DEF Accounts

\* A message arrives at the end that is asked; a request is for a block it is not asked for.
LEMMA ServerReceives ==
  ASSUME NEW p, NEW o, NEW qo \in Seq(Messages), NEW qp, NEW l, qo # <<>>,
         Accounts(p, o, qo, qp, l), NEW o2, NEW m, m = Head(qo), Serves(o, m, o2)
  PROVE  /\ Accounts(p, o2, Tail(qo), qp, l)
         /\ m.type = "request" => m.block \notin o.peerRequests
<1>a. PICK t : t = Tail(qo)
  OBVIOUS
<1>1. /\ Len(t) = Len(qo) - 1 /\ Len(qo) \in Nat /\ Len(qo) >= 1 /\ m = qo[1] /\ m \in Messages
      /\ \A i \in 1..Len(t) : t[i] = qo[i + 1]
  BY <1>a, TailAt
<1>2. \A i \in 1..Len(t) : i + 1 \in 1..Len(qo) /\ i + 1 # 1
  BY <1>1
<1>3. /\ o2.serving \cap o2.ignored = {} /\ o2.peerRequests \subseteq Busy(o2)
      /\ Busy(o2) = IF m.type = "request" THEN Busy(o) \cup {m.block} ELSE Busy(o)
  BY DEF Accounts, Serves, Busy
<1>4. ASSUME NEW k \in Blocks
      PROVE  /\ \A i, j \in 1..Len(t) : Asks(t[i], k) /\ Asks(t[j], k) => i = j
             /\ \A i \in 1..Len(t) : Asks(t[i], k) => k \notin Busy(o2)
             /\ l = "up" =>
                  /\ \A i \in 1..Len(t) : Asks(t[i], k) =>
                       k \in p.pending /\ \A j \in 1..Len(qp) : ~Settles(qp[j], k)
                  /\ k \in Busy(o2) => k \in p.pending /\ \A j \in 1..Len(qp) : ~Settles(qp[j], k)
                  /\ \A i, j \in 1..Len(qp) : Settles(qp[i], k) /\ Settles(qp[j], k) => i = j
                  /\ \A j \in 1..Len(qp) : Settles(qp[j], k) => k \in p.pending
  <2>1. /\ \A i, j \in 1..Len(qo) : Asks(qo[i], k) /\ Asks(qo[j], k) => i = j
        /\ \A i \in 1..Len(qo) : Asks(qo[i], k) => k \notin Busy(o)
        /\ l = "up" =>
             /\ \A i \in 1..Len(qo) : Asks(qo[i], k) =>
                  k \in p.pending /\ \A j \in 1..Len(qp) : ~Settles(qp[j], k)
             /\ k \in Busy(o) => k \in p.pending /\ \A j \in 1..Len(qp) : ~Settles(qp[j], k)
             /\ \A i, j \in 1..Len(qp) : Settles(qp[i], k) /\ Settles(qp[j], k) => i = j
             /\ \A j \in 1..Len(qp) : Settles(qp[j], k) => k \in p.pending
    BY DEF Accounts
  <2>2. k \in Busy(o2) /\ k \notin Busy(o) => Asks(qo[1], k)
    BY <1>1, <1>3 DEF Asks
  <2>3. 1 \in 1..Len(qo)
    BY <1>1
  <2>4. \A i, j \in 1..Len(t) : Asks(t[i], k) /\ Asks(t[j], k) => i = j
    BY <1>1, <1>2, <2>1
  <2>5. \A i \in 1..Len(t) : Asks(t[i], k) => k \notin Busy(o2)
    BY <1>1, <1>2, <2>1, <2>2, <2>3
  <2>6. l = "up" => \A i \in 1..Len(t) : Asks(t[i], k) =>
                k \in p.pending /\ \A j \in 1..Len(qp) : ~Settles(qp[j], k)
    BY <1>1, <1>2, <2>1
  <2>7. l = "up" => (k \in Busy(o2) => k \in p.pending /\ \A j \in 1..Len(qp) : ~Settles(qp[j], k))
    BY <2>1, <2>2, <2>3
  <2> QED BY <2>1, <2>4, <2>5, <2>6, <2>7
<1>5. m.type = "request" => m.block \notin o.peerRequests
  <2> SUFFICES ASSUME m.type = "request" PROVE m.block \notin o.peerRequests
    OBVIOUS
  <2>1. m.block \in Blocks /\ Asks(qo[1], m.block) /\ 1 \in 1..Len(qo)
    BY <1>1, MessageSorts DEF Asks, Requests
  <2> QED BY <2>1 DEF Accounts
<1> QED BY <1>a, <1>3, <1>4, <1>5 DEF Accounts

\* A message arrives at the end that asks.
LEMMA RequesterReceives ==
  ASSUME NEW p, NEW o, NEW qo, NEW qp \in Seq(Messages), NEW l, qp # <<>>,
         Accounts(p, o, qo, qp, l), NEW p2, NEW m, m = Head(qp), Clears(p, m, p2)
  PROVE  Accounts(p2, o, qo, Tail(qp), l)
<1>a. PICK t : t = Tail(qp)
  OBVIOUS
<1>1. /\ Len(t) = Len(qp) - 1 /\ Len(qp) \in Nat /\ Len(qp) >= 1 /\ m = qp[1]
      /\ \A i \in 1..Len(t) : t[i] = qp[i + 1]
  BY <1>a, TailAt
<1>2. /\ \A i \in 1..Len(t) : i + 1 \in 1..Len(qp) /\ i + 1 # 1
      /\ 1 \in 1..Len(qp)
  BY <1>1
<1>4. ASSUME NEW k \in Blocks
      PROVE  /\ \A i, j \in 1..Len(qo) : Asks(qo[i], k) /\ Asks(qo[j], k) => i = j
             /\ \A i \in 1..Len(qo) : Asks(qo[i], k) => k \notin Busy(o)
             /\ l = "up" =>
                  /\ \A i \in 1..Len(qo) : Asks(qo[i], k) =>
                       k \in p2.pending /\ \A j \in 1..Len(t) : ~Settles(t[j], k)
                  /\ k \in Busy(o) => k \in p2.pending /\ \A j \in 1..Len(t) : ~Settles(t[j], k)
                  /\ \A i, j \in 1..Len(t) : Settles(t[i], k) /\ Settles(t[j], k) => i = j
                  /\ \A j \in 1..Len(t) : Settles(t[j], k) => k \in p2.pending
  <2>1. /\ \A i, j \in 1..Len(qo) : Asks(qo[i], k) /\ Asks(qo[j], k) => i = j
        /\ \A i \in 1..Len(qo) : Asks(qo[i], k) => k \notin Busy(o)
        /\ l = "up" =>
             /\ \A i \in 1..Len(qo) : Asks(qo[i], k) =>
                  k \in p.pending /\ \A j \in 1..Len(qp) : ~Settles(qp[j], k)
             /\ k \in Busy(o) => k \in p.pending /\ \A j \in 1..Len(qp) : ~Settles(qp[j], k)
             /\ \A i, j \in 1..Len(qp) : Settles(qp[i], k) /\ Settles(qp[j], k) => i = j
             /\ \A j \in 1..Len(qp) : Settles(qp[j], k) => k \in p.pending
    BY DEF Accounts
  <2>2. k \in p.pending /\ k \notin p2.pending => Settles(qp[1], k)
    BY <1>1 DEF Clears, Settles
  <2>3. l = "up" => \A i \in 1..Len(qo) : Asks(qo[i], k) =>
                k \in p2.pending /\ \A j \in 1..Len(t) : ~Settles(t[j], k)
    BY <1>1, <1>2, <2>1, <2>2
  <2>4. l = "up" => (k \in Busy(o) => k \in p2.pending /\ \A j \in 1..Len(t) : ~Settles(t[j], k))
    BY <1>1, <1>2, <2>1, <2>2
  <2>5. l = "up" => \A i, j \in 1..Len(t) : Settles(t[i], k) /\ Settles(t[j], k) => i = j
    BY <1>1, <1>2, <2>1
  <2>6. l = "up" => \A j \in 1..Len(t) : Settles(t[j], k) => k \in p2.pending
    BY <1>1, <1>2, <2>1, <2>2
  <2> QED BY <2>1, <2>3, <2>4, <2>5, <2>6
<1>3. o.serving \cap o.ignored = {} /\ o.peerRequests \subseteq Busy(o)
  BY DEF Accounts
<1> QED BY <1>a, <1>3, <1>4 DEF Accounts

\* When the connection is gone nothing is expected of the end that asked.
LEMMA AccountsDown ==
  ASSUME NEW p, NEW o, NEW qo, NEW qp, NEW l, Accounts(p, o, qo, qp, l), NEW p2, NEW q2, NEW o2,
         o2.ignored \subseteq o.ignored, o2.serving \subseteq o.serving,
         o2.peerRequests \subseteq Busy(o2)
  PROVE  Accounts(p2, o2, qo, q2, "down")
<1>1. Busy(o2) \subseteq Busy(o)
  BY DEF Busy
<1> QED BY <1>1 DEF Accounts
-----------------------------------------------------------------------------
(***************************************************************************)
(* Steps                                                                   *)
(***************************************************************************)

\* There are two ends.
LEMMA Ends ==
  ASSUME NEW e \in Endpoints
  PROVE  /\ Other(e) \in Endpoints /\ Other(e) # e /\ Other(Other(e)) = e
         /\ Endpoints = {e, Other(e)}
BY DEF Endpoints, Other

\* What the invariant says of one end and of the other.
LEMMA Apart ==
  ASSUME IInv, NEW e \in Endpoints, NEW d, d = Other(e)
  PROVE  /\ DOMAIN ep = Endpoints /\ DOMAIN inbox = Endpoints /\ d \in Endpoints /\ d # e
         /\ EndShape(ep[e]) /\ inbox[e] \in Seq(Messages)
         /\ EndShape(ep[d]) /\ inbox[d] \in Seq(Messages)
         /\ link \in {"up", "down"}
         /\ Replays(fast, ep[e].remote, inbox[e], ep[d].local, link)
         /\ Replays(fast, ep[d].remote, inbox[d], ep[e].local, link)
         /\ fast => Accounts(ep[e], ep[d], inbox[d], inbox[e], link)
         /\ fast => Accounts(ep[d], ep[e], inbox[e], inbox[d], link)
         /\ \A x \in Endpoints :
              /\ ep[x].reason # "protocol"
              /\ fast /\ Cardinality(Blocks) <= MaxPending => ep[x].reason # "limit"
BY Ends DEF IInv, Shape, InOrderInv, AccountInv, NoProtocolError

\* And back, after a step.
LEMMA Together ==
  ASSUME NEW e \in Endpoints, NEW d, d = Other(e),
         DOMAIN ep' = Endpoints, DOMAIN inbox' = Endpoints,
         EndShape(ep'[e]), inbox'[e] \in Seq(Messages),
         EndShape(ep'[d]), inbox'[d] \in Seq(Messages),
         link' \in {"up", "down"},
         Replays(fast', ep'[e].remote, inbox'[e], ep'[d].local, link'),
         Replays(fast', ep'[d].remote, inbox'[d], ep'[e].local, link'),
         fast' => Accounts(ep'[e], ep'[d], inbox'[d], inbox'[e], link'),
         fast' => Accounts(ep'[d], ep'[e], inbox'[e], inbox'[d], link'),
         \A x \in Endpoints :
           /\ ep'[x].reason # "protocol"
           /\ fast' /\ Cardinality(Blocks) <= MaxPending => ep'[x].reason # "limit"
  PROVE  IInv'
<1>1. d \in Endpoints /\ Other(d) = e /\ \A x \in Endpoints : x = e \/ x = d
  BY Ends
<1>2. Shape'
  BY <1>1 DEF Shape
<1>3. InOrderInv'
  BY <1>1 DEF InOrderInv
<1>4. AccountInv'
  BY <1>1 DEF AccountInv
<1>5. NoProtocolError'
  BY DEF NoProtocolError
<1> QED BY <1>2, <1>3, <1>4, <1>5 DEF IInv

\* An end sends a message that passes its gates: a request for what it does not await,
\* an answer for what it serves.
LEMMA SendStep ==
  ASSUME IInv, NEW e \in Endpoints, NEW m \in Messages, NEW p2,
         ep' = [ep EXCEPT ![e] = p2], Transmit(e, m), UNCHANGED <<fast, link>>,
         EndShape(p2), p2.remote = ep[e].remote, p2.reason = ep[e].reason,
         Follows(fast, ep[e].local, m, p2.local),
         p2.pending = IF m.type = "request" THEN ep[e].pending \cup {m.block} ELSE ep[e].pending,
         p2.ignored = ep[e].ignored,
         p2.serving = IF m.type \in Answers THEN ep[e].serving \ {m.block} ELSE ep[e].serving,
         p2.peerRequests \subseteq
           (IF m.type \in Answers THEN ep[e].peerRequests \ {m.block} ELSE ep[e].peerRequests),
         m.type = "request" => m.block \notin ep[e].pending,
         m.type \in Answers => m.block \in ep[e].serving
  PROVE  IInv'
<1>0. PICK d : d = Other(e)
  OBVIOUS
<1>1. /\ DOMAIN ep = Endpoints /\ DOMAIN inbox = Endpoints /\ d \in Endpoints /\ d # e
      /\ EndShape(ep[e]) /\ inbox[e] \in Seq(Messages)
      /\ EndShape(ep[d]) /\ inbox[d] \in Seq(Messages)
      /\ link \in {"up", "down"}
      /\ Replays(fast, ep[e].remote, inbox[e], ep[d].local, link)
      /\ Replays(fast, ep[d].remote, inbox[d], ep[e].local, link)
      /\ fast => Accounts(ep[e], ep[d], inbox[d], inbox[e], link)
      /\ fast => Accounts(ep[d], ep[e], inbox[e], inbox[d], link)
      /\ \A x \in Endpoints :
           /\ ep[x].reason # "protocol"
           /\ fast /\ Cardinality(Blocks) <= MaxPending => ep[x].reason # "limit"
  BY <1>0, Apart
<1>2. /\ DOMAIN ep' = Endpoints /\ ep'[e] = p2 /\ ep'[d] = ep[d]
      /\ \A x \in Endpoints : ep'[x].reason = ep[x].reason
  BY <1>1
<1>3. fast' = fast /\ link' = link
  OBVIOUS
<1>4. DOMAIN inbox' = Endpoints /\ inbox'[e] = inbox[e]
      /\ inbox'[d] = IF link = "up" THEN Append(inbox[d], m) ELSE inbox[d]
  BY <1>0, <1>1 DEF Transmit
<1>5. inbox'[d] \in Seq(Messages)
  BY <1>1, <1>4, AppendAt
<1>6. p2.local \in Orders
  BY DEF EndShape
<1>7. Replays(fast, ep[d].remote, inbox'[d], p2.local, link)
  <2>1. CASE link = "up"
    <3>1. Replays(fast, ep[d].remote, Append(inbox[d], m), p2.local, "up")
      BY <1>1, <1>6, <2>1, ReplayAppend
    <3> QED BY <1>4, <2>1, <3>1
  <2>2. CASE link = "down"
    BY <1>1, <1>4, <2>2, ReplayDown
  <2> QED BY <1>1, <2>1, <2>2
<1>8. fast => Accounts(p2, ep[d], inbox'[d], inbox[e], link)
  <2> SUFFICES ASSUME fast PROVE Accounts(p2, ep[d], inbox'[d], inbox[e], link)
    OBVIOUS
  <2>1. CASE link = "up"
    <3>1. Accounts(p2, ep[d], Append(inbox[d], m), inbox[e], "up")
      BY <1>1, <2>1, RequesterSends
    <3> QED BY <1>4, <2>1, <3>1
  <2>2. CASE link = "down"
    <3>1. ep[d].peerRequests \subseteq Busy(ep[d])
      BY <1>1 DEF Accounts
    <3> QED BY <1>1, <1>4, <2>2, <3>1, AccountsDown
  <2> QED BY <1>1, <2>1, <2>2
<1>9. fast => Accounts(ep[d], p2, inbox[e], inbox'[d], link)
  <2> SUFFICES ASSUME fast PROVE Accounts(ep[d], p2, inbox[e], inbox'[d], link)
    OBVIOUS
  <2>1. CASE link = "up"
    <3>1. Accounts(ep[d], p2, inbox[e], Append(inbox[d], m), "up")
      BY <1>1, <2>1, ServerSends
    <3> QED BY <1>4, <2>1, <3>1
  <2>2. CASE link = "down"
    <3>1. ep[e].peerRequests \subseteq Busy(ep[e])
      BY <1>1 DEF Accounts
    <3>2. p2.peerRequests \subseteq Busy(p2) /\ p2.serving \subseteq ep[e].serving
      BY <3>1 DEF Busy
    <3> QED BY <1>1, <1>4, <2>2, <3>2, AccountsDown
  <2> QED BY <1>1, <2>1, <2>2
<1>10. /\ EndShape(ep'[e]) /\ EndShape(ep'[d])
       /\ inbox'[e] \in Seq(Messages) /\ link' \in {"up", "down"}
  BY <1>1, <1>2, <1>3, <1>4
<1>11. /\ Replays(fast', ep'[e].remote, inbox'[e], ep'[d].local, link')
       /\ Replays(fast', ep'[d].remote, inbox'[d], ep'[e].local, link')
  BY <1>1, <1>2, <1>3, <1>4, <1>7
<1>12. /\ fast' => Accounts(ep'[e], ep'[d], inbox'[d], inbox'[e], link')
       /\ fast' => Accounts(ep'[d], ep'[e], inbox'[e], inbox'[d], link')
  BY <1>2, <1>3, <1>4, <1>8, <1>9
<1>13. \A x \in Endpoints :
         /\ ep'[x].reason # "protocol"
         /\ fast' /\ Cardinality(Blocks) <= MaxPending => ep'[x].reason # "limit"
  BY <1>1, <1>2, <1>3
<1> QED BY <1>0, <1>2, <1>4, <1>5, <1>10, <1>11, <1>12, <1>13, Together

\* An end terminates for a reason that the invariant allows.
LEMMA TerminateStep ==
  ASSUME IInv, NEW e \in Endpoints, NEW reason, Terminate(e, reason), reason # "protocol",
         fast /\ Cardinality(Blocks) <= MaxPending => reason # "limit"
  PROVE  IInv'
<1>0. PICK d : d = Other(e)
  OBVIOUS
<1>1. /\ DOMAIN ep = Endpoints /\ DOMAIN inbox = Endpoints /\ d \in Endpoints /\ d # e
      /\ EndShape(ep[e]) /\ inbox[e] \in Seq(Messages)
      /\ EndShape(ep[d]) /\ inbox[d] \in Seq(Messages)
      /\ link \in {"up", "down"}
      /\ Replays(fast, ep[e].remote, inbox[e], ep[d].local, link)
      /\ Replays(fast, ep[d].remote, inbox[d], ep[e].local, link)
      /\ fast => Accounts(ep[e], ep[d], inbox[d], inbox[e], link)
      /\ fast => Accounts(ep[d], ep[e], inbox[e], inbox[d], link)
      /\ \A x \in Endpoints :
           /\ ep[x].reason # "protocol"
           /\ fast /\ Cardinality(Blocks) <= MaxPending => ep[x].reason # "limit"
  BY <1>0, Apart
<1>a. PICK p2 : p2 = [Fresh EXCEPT !.state = "closed", !.reason = reason]
  OBVIOUS
<1>2. /\ EndShape(p2) /\ p2.reason = reason /\ p2.remote \in Orders
      /\ p2.serving = {} /\ p2.ignored = {} /\ p2.peerRequests = {}
  BY <1>a DEF EndShape, Fields, Fresh, Orders
<1>3. /\ DOMAIN ep' = Endpoints /\ ep'[e] = p2 /\ ep'[d] = ep[d]
      /\ DOMAIN inbox' = Endpoints /\ inbox'[e] = <<>> /\ inbox'[d] = inbox[d]
      /\ link' = "down" /\ fast' = fast
  BY <1>a, <1>1 DEF Terminate
<1>4. <<>> \in Seq(Messages)
  OBVIOUS
<1>5. Replays(fast, p2.remote, <<>>, ep[d].local, "down")
  <2>1. PICK l : l = "down"
    OBVIOUS
  <2>2. l = "up" => p2.remote = ep[d].local
    BY <2>1
  <2>3. Replays(fast, p2.remote, <<>>, ep[d].local, l)
    BY <1>2, <2>2, ReplayEmpty
  <2> QED BY <2>1, <2>3
<1>6. Replays(fast, ep[d].remote, inbox[d], p2.local, "down")
  BY <1>1, ReplayDown
<1>7. fast => Accounts(p2, ep[d], inbox[d], <<>>, "down")
  <2> SUFFICES ASSUME fast PROVE Accounts(p2, ep[d], inbox[d], <<>>, "down")
    OBVIOUS
  <2>1. ep[d].peerRequests \subseteq Busy(ep[d])
    BY <1>1 DEF Accounts
  <2> QED BY <1>1, <2>1, AccountsDown
<1>8. fast => Accounts(ep[d], p2, <<>>, inbox[d], "down")
  BY <1>2 DEF Accounts, Busy
<1>9. \A x \in Endpoints :
        /\ ep'[x].reason # "protocol"
        /\ fast' /\ Cardinality(Blocks) <= MaxPending => ep'[x].reason # "limit"
  <2>1. \A x \in Endpoints : x = e \/ x = d
    BY <1>0, Ends
  <2> QED BY <1>1, <1>2, <1>3, <2>1
<1>10. link' \in {"up", "down"}
  BY <1>3
<1> QED BY <1>0, <1>1, <1>2, <1>3, <1>4, <1>5, <1>6, <1>7, <1>8, <1>9, <1>10, Together

\* _sendMessage, for whatever it sends.
LEMMA SendMessageStep ==
  ASSUME IInv, NEW e \in Endpoints, NEW m \in Messages, m.type # "handshake", NEW p,
         SendMessage(e, m, p), EndShape(p),
         p.remote = ep[e].remote, p.local = ep[e].local, p.reason = ep[e].reason,
         p.pending = ep[e].pending, p.ignored = ep[e].ignored,
         p.peerRequests = ep[e].peerRequests,
         p.serving = IF m.type \in Answers THEN ep[e].serving \ {m.block} ELSE ep[e].serving,
         m.type = "request" => m.block \notin ep[e].pending,
         m.type \in Answers => m.block \in ep[e].serving
  PROVE  IInv'
<1>2. PICK p2 : p2 = Sent(p, m)
  OBVIOUS
<1>3. ep' = [ep EXCEPT ![e] = p2] /\ Transmit(e, m) /\ UNCHANGED <<fast, link>>
  BY <1>2 DEF SendMessage
<1>5. /\ EndShape(p2) /\ p2.local = NextOrder(p.local, m)
      /\ p2.remote = p.remote /\ p2.reason = p.reason
      /\ p2.serving = p.serving /\ p2.ignored = p.ignored
      /\ p2.pending = IF m.type = "request" THEN p.pending \cup {m.block} ELSE p.pending
      /\ p2.peerRequests = IF m.type \in Answers \cup {"cancel"} THEN p.peerRequests \ {m.block}
                           ELSE p.peerRequests
  BY <1>2, LocalStateLemma
<1>6. Follows(fast, ep[e].local, m, p2.local)
  BY <1>5 DEF SendMessage, CanSend, Negotiated, OrderOK, Follows, Passes
<1>7. p2.peerRequests \subseteq
        (IF m.type \in Answers THEN ep[e].peerRequests \ {m.block} ELSE ep[e].peerRequests)
  BY <1>5
<1> QED BY <1>3, <1>5, <1>6, <1>7, SendStep

\* The handshake.
LEMMA SendHandshakeStep ==
  ASSUME IInv, NEW e \in Endpoints, SendHandshake(e)
  PROVE  IInv'
<1>1. PICK m : m = Message("handshake")
  OBVIOUS
<1>2. m \in Messages /\ m.type = "handshake"
  BY <1>1, MessageSorts DEF Message
<1>3. DOMAIN ep = Endpoints /\ EndShape(ep[e])
  BY Apart
<1>4. PICK p2 : p2 = [ep[e] EXCEPT !.sent = TRUE]
  OBVIOUS
<1>5. /\ EndShape(p2) /\ p2.remote = ep[e].remote /\ p2.local = ep[e].local
      /\ p2.reason = ep[e].reason /\ p2.pending = ep[e].pending /\ p2.ignored = ep[e].ignored
      /\ p2.serving = ep[e].serving /\ p2.peerRequests = ep[e].peerRequests
  BY <1>3, <1>4 DEF EndShape, Fields, Fresh
<1>6. ep' = [ep EXCEPT ![e] = p2] /\ Transmit(e, m) /\ UNCHANGED <<fast, link>>
  BY <1>1, <1>4 DEF SendHandshake
<1>7. Follows(fast, ep[e].local, m, p2.local)
  BY <1>2, <1>5 DEF Follows
<1>8. m.type # "request" /\ m.type \notin Answers
  BY <1>2 DEF Answers
<1> QED BY <1>2, <1>5, <1>6, <1>7, <1>8, SendStep

\* A message that names no block.
LEMMA SendPlainStep ==
  ASSUME IInv, NEW e \in Endpoints, NEW type \in Flags \cup {"declare", "have"}, Send(e, type)
  PROVE  IInv'
<1>1. PICK m : m = Message(type)
  OBVIOUS
<1>2. /\ m \in Messages /\ m.type # "handshake"
      /\ m.type # "request" /\ m.type \notin Answers
  BY <1>1, MessageSorts DEF Message, Flags, Answers
<1>3. EndShape(ep[e]) /\ SendMessage(e, m, ep[e])
  BY <1>1, Apart DEF Send
<1> QED BY <1>2, <1>3, SendMessageStep

\* A request: a choked wire drops it, and a block is asked for once.
LEMMA SendRequestStep ==
  ASSUME IInv, NEW e \in Endpoints, NEW k \in Blocks, SendRequest(e, k)
  PROVE  IInv'
<1>1. PICK m : m = BlockMessage("request", k)
  OBVIOUS
<1>2. /\ m \in Messages /\ m.type # "handshake" /\ m.block = k
      /\ m.type = "request" /\ m.type \notin Answers
  BY <1>1, MessageSorts DEF BlockMessage, Requests, Answers
<1>3. EndShape(ep[e]) /\ SendMessage(e, m, ep[e]) /\ k \notin ep[e].pending
  BY <1>1, Apart DEF SendRequest
<1> QED BY <1>2, <1>3, SendMessageStep

\* A cancel: the request stays pending until it is answered.
LEMMA SendCancelStep ==
  ASSUME IInv, NEW e \in Endpoints, NEW k \in Blocks, SendCancel(e, k)
  PROVE  IInv'
<1>1. PICK m : m = BlockMessage("cancel", k)
  OBVIOUS
<1>2. /\ m \in Messages /\ m.type # "handshake"
      /\ m.type # "request" /\ m.type \notin Answers
  BY <1>1, MessageSorts DEF BlockMessage, Requests, Answers
<1>3. EndShape(ep[e]) /\ SendMessage(e, m, ep[e])
  BY <1>1, Apart DEF SendCancel
<1> QED BY <1>2, <1>3, SendMessageStep

\* The answer of the torrent, for a request it serves.
LEMMA AnswerStep ==
  ASSUME IInv, NEW e \in Endpoints, NEW k \in Blocks, NEW type \in Answers, Answer(e, type, k)
  PROVE  IInv'
<1>1. PICK m : m = BlockMessage(type, k)
  OBVIOUS
<1>2. /\ m \in Messages /\ m.type # "handshake" /\ m.block = k
      /\ m.type # "request" /\ m.type \in Answers
  BY <1>1, MessageSorts DEF BlockMessage, Requests, Answers
<1>3. PICK p : p = [ep[e] EXCEPT !.serving = ep[e].serving \ {k}]
  OBVIOUS
<1>4. SendMessage(e, m, p) /\ k \in ep[e].serving
  BY <1>1, <1>3 DEF Answer
<1>5. EndShape(ep[e])
  BY Apart
<1>6. /\ EndShape(p) /\ p.remote = ep[e].remote /\ p.local = ep[e].local
      /\ p.reason = ep[e].reason /\ p.pending = ep[e].pending /\ p.ignored = ep[e].ignored
      /\ p.peerRequests = ep[e].peerRequests /\ p.serving = ep[e].serving \ {k}
  BY <1>3, <1>5 DEF EndShape, Fields, Fresh
<1> QED BY <1>2, <1>4, <1>6, SendMessageStep

\* The torrent lacks the piece: the request stays with it.
LEMMA IgnoreStep ==
  ASSUME IInv, NEW e \in Endpoints, NEW k \in Blocks, Ignore(e, k)
  PROVE  IInv'
<1>0. PICK d : d = Other(e)
  OBVIOUS
<1>1. /\ DOMAIN ep = Endpoints /\ DOMAIN inbox = Endpoints /\ d \in Endpoints /\ d # e
      /\ EndShape(ep[e]) /\ inbox[e] \in Seq(Messages)
      /\ EndShape(ep[d]) /\ inbox[d] \in Seq(Messages)
      /\ link \in {"up", "down"}
      /\ Replays(fast, ep[e].remote, inbox[e], ep[d].local, link)
      /\ Replays(fast, ep[d].remote, inbox[d], ep[e].local, link)
      /\ fast => Accounts(ep[e], ep[d], inbox[d], inbox[e], link)
      /\ fast => Accounts(ep[d], ep[e], inbox[e], inbox[d], link)
      /\ \A x \in Endpoints :
           /\ ep[x].reason # "protocol"
           /\ fast /\ Cardinality(Blocks) <= MaxPending => ep[x].reason # "limit"
  BY <1>0, Apart
<1>2. PICK p2 : p2 = [[ep[e] EXCEPT !.serving = ep[e].serving \ {k}]
                        EXCEPT !.ignored = ep[e].ignored \cup {k}]
  OBVIOUS
<1>3. k \in ep[e].serving /\ UNCHANGED <<fast, inbox, link>>
  BY DEF Ignore
<1>4. ep' = [ep EXCEPT ![e] = p2]
  BY <1>1, <1>2 DEF Ignore, EndShape, Fields, Fresh
<1>5. /\ EndShape(p2) /\ p2.remote = ep[e].remote /\ p2.local = ep[e].local
      /\ p2.reason = ep[e].reason /\ p2.pending = ep[e].pending
      /\ p2.peerRequests = ep[e].peerRequests /\ p2.serving = ep[e].serving \ {k}
      /\ p2.ignored = ep[e].ignored \cup {k}
  BY <1>1, <1>2 DEF EndShape, Fields, Fresh
<1>6. /\ DOMAIN ep' = Endpoints /\ ep'[e] = p2 /\ ep'[d] = ep[d]
      /\ \A x \in Endpoints : ep'[x].reason = ep[x].reason
  BY <1>1, <1>4, <1>5
<1>7. fast => Accounts(ep[d], p2, inbox[e], inbox[d], link)
  <2> SUFFICES ASSUME fast PROVE Accounts(ep[d], p2, inbox[e], inbox[d], link)
    OBVIOUS
  <2>1. Accounts(ep[d], ep[e], inbox[e], inbox[d], link)
    BY <1>1
  <2>2. Busy(p2) = Busy(ep[e]) /\ p2.serving \cap p2.ignored = {}
    BY <1>3, <1>5, <2>1 DEF Accounts, Busy
  <2> QED BY <1>5, <2>1, <2>2 DEF Accounts
<1>8. fast => Accounts(p2, ep[d], inbox[d], inbox[e], link)
  BY <1>1, <1>5 DEF Accounts
<1> QED BY <1>0, <1>1, <1>3, <1>5, <1>6, <1>7, <1>8, Together

\* A message arrives: a handshake, which changes nothing the invariant speaks of, or
\* another one, which the gates of the receiver have let in.
LEMMA ArriveStep ==
  ASSUME IInv, NEW e \in Endpoints, inbox[e] # <<>>, NEW m, m = Head(inbox[e]), NEW p2,
         ep' = [ep EXCEPT ![e] = p2], inbox' = [inbox EXCEPT ![e] = Tail(@)],
         UNCHANGED <<fast, link>>,
         EndShape(p2), p2.local = ep[e].local, p2.reason = ep[e].reason,
         p2.remote = IF m.type = "handshake" THEN ep[e].remote ELSE NextOrder(ep[e].remote, m),
         fast => Clears(ep[e], m, p2), Serves(ep[e], m, p2)
  PROVE  IInv'
<1>0. PICK d : d = Other(e)
  OBVIOUS
<1>1. /\ DOMAIN ep = Endpoints /\ DOMAIN inbox = Endpoints /\ d \in Endpoints /\ d # e
      /\ EndShape(ep[e]) /\ inbox[e] \in Seq(Messages)
      /\ EndShape(ep[d]) /\ inbox[d] \in Seq(Messages)
      /\ link \in {"up", "down"}
      /\ Replays(fast, ep[e].remote, inbox[e], ep[d].local, link)
      /\ Replays(fast, ep[d].remote, inbox[d], ep[e].local, link)
      /\ fast => Accounts(ep[e], ep[d], inbox[d], inbox[e], link)
      /\ fast => Accounts(ep[d], ep[e], inbox[e], inbox[d], link)
      /\ \A x \in Endpoints :
           /\ ep[x].reason # "protocol"
           /\ fast /\ Cardinality(Blocks) <= MaxPending => ep[x].reason # "limit"
  BY <1>0, Apart
<1>2. PICK t : t = Tail(inbox[e])
  OBVIOUS
<1>3. t \in Seq(Messages)
  BY <1>1, <1>2, TailAt
<1>4. /\ DOMAIN ep' = Endpoints /\ ep'[e] = p2 /\ ep'[d] = ep[d]
      /\ DOMAIN inbox' = Endpoints /\ inbox'[e] = t /\ inbox'[d] = inbox[d]
      /\ fast' = fast /\ link' = link
  BY <1>1, <1>2
<1>5. \A x \in Endpoints : ep'[x].reason = ep[x].reason
  BY <1>1
<1>6. Replays(fast, p2.remote, t, ep[d].local, link)
  <2>1. PICK next \in Orders :
          Follows(fast, ep[e].remote, m, next) /\ Replays(fast, next, t, ep[d].local, link)
    BY <1>1, <1>2, ReplayTail
  <2>2. next = p2.remote
    BY <2>1 DEF Follows
  <2> QED BY <2>1, <2>2
<1>7. ASSUME fast PROVE Accounts(p2, ep[d], inbox[d], t, link)
  <2>1. Accounts(ep[e], ep[d], inbox[d], inbox[e], link)
    BY <1>1, <1>7
  <2> QED BY <1>1, <1>2, <1>7, <2>1, RequesterReceives
<1>8. ASSUME fast PROVE Accounts(ep[d], p2, t, inbox[d], link)
  <2>1. Accounts(ep[d], ep[e], inbox[e], inbox[d], link)
    BY <1>1, <1>8
  <2> QED BY <1>1, <1>2, <2>1, ServerReceives
<1>9. Replays(fast, ep[d].remote, inbox[d], p2.local, link)
  BY <1>1
<1>10. \A x \in Endpoints :
         /\ ep'[x].reason # "protocol"
         /\ fast' /\ Cardinality(Blocks) <= MaxPending => ep'[x].reason # "limit"
  BY <1>1, <1>4, <1>5
<1>11. /\ EndShape(ep'[e]) /\ EndShape(ep'[d])
       /\ inbox'[e] \in Seq(Messages) /\ inbox'[d] \in Seq(Messages)
       /\ link' \in {"up", "down"}
  BY <1>1, <1>3, <1>4
<1>12. /\ Replays(fast', ep'[e].remote, inbox'[e], ep'[d].local, link')
       /\ Replays(fast', ep'[d].remote, inbox'[d], ep'[e].local, link')
  BY <1>4, <1>6, <1>9
<1>13. fast' => Accounts(ep'[e], ep'[d], inbox'[d], inbox'[e], link')
  <2> SUFFICES ASSUME fast' PROVE Accounts(ep'[e], ep'[d], inbox'[d], inbox'[e], link')
    OBVIOUS
  <2>1. fast
    BY <1>4
  <2>2. Accounts(p2, ep[d], inbox[d], t, link)
    BY <1>7, <2>1
  <2> QED BY <1>4, <2>2
<1>14. fast' => Accounts(ep'[d], ep'[e], inbox'[e], inbox'[d], link')
  <2> SUFFICES ASSUME fast' PROVE Accounts(ep'[d], ep'[e], inbox'[e], inbox'[d], link')
    OBVIOUS
  <2>1. fast
    BY <1>4
  <2>2. Accounts(ep[d], p2, t, inbox[d], link)
    BY <1>8, <2>1
  <2> QED BY <1>4, <2>2
<1> QED BY <1>0, <1>4, <1>10, <1>11, <1>12, <1>13, <1>14, Together

\* What arrives passes the gates, and a request finds room when the limit is not below
\* the number of blocks.
LEMMA ArrivalPasses ==
  ASSUME IInv, NEW e \in Endpoints, inbox[e] # <<>>, NEW m, m = Head(inbox[e]),
         m.type # "handshake"
  PROVE  /\ InOrder(ep[e], m)
         /\ fast /\ Cardinality(Blocks) <= MaxPending => WithinLimit(ep[e], m)
<1>0. PICK d : d = Other(e)
  OBVIOUS
<1>1. /\ EndShape(ep[e]) /\ inbox[e] \in Seq(Messages)
      /\ Replays(fast, ep[e].remote, inbox[e], ep[d].local, link)
      /\ fast => Accounts(ep[d], ep[e], inbox[e], inbox[d], link)
  BY <1>0, Apart
<1>2. InOrder(ep[e], m)
  <2>1. PICK next : Follows(fast, ep[e].remote, m, next)
    BY <1>1, ReplayTail
  <2> QED BY <2>1 DEF Follows, Passes, InOrder, Negotiated, OrderOK
<1>3. ASSUME fast, Cardinality(Blocks) <= MaxPending, m.type = "request"
      PROVE  Cardinality(ep[e].peerRequests) < MaxPending
  <2>1. m \in Messages
    BY <1>1, TailAt
  <2>2. m.block \in Blocks
    BY <1>3, <2>1, MessageSorts DEF Requests
  <2>3. Asks(inbox[e][1], m.block) /\ 1 \in 1..Len(inbox[e])
    BY <1>1, <1>3, TailAt DEF Asks
  <2>4. m.block \notin ep[e].peerRequests
    BY <1>1, <1>3, <2>2, <2>3 DEF Accounts
  <2>5. /\ IsFiniteSet(Blocks) /\ MaxPending \in Nat
    BY WireAssumption
  <2>6. IsFiniteSet(Blocks \ {m.block}) /\ Cardinality(Blocks \ {m.block}) = Cardinality(Blocks) - 1
    BY <2>2, <2>5, FS_RemoveElement
  <2>7. ep[e].peerRequests \subseteq Blocks \ {m.block}
    BY <1>1, <2>4 DEF EndShape
  <2>8. IsFiniteSet(ep[e].peerRequests)
        /\ Cardinality(ep[e].peerRequests) <= Cardinality(Blocks \ {m.block})
    BY <2>6, <2>7, FS_Subset
  <2>9. Cardinality(ep[e].peerRequests) \in Nat /\ Cardinality(Blocks) \in Nat
    BY <2>5, <2>8, FS_CardinalityType
  <2> QED BY <1>3, <2>5, <2>6, <2>8, <2>9
<1> QED BY <1>2, <1>3 DEF WithinLimit

\* _processBuffer, for one message.
LEMMA DeliverStep ==
  ASSUME IInv, NEW e \in Endpoints, Deliver(e)
  PROVE  IInv'
<1>1. PICK m : m = Head(inbox[e])
  OBVIOUS
<1>2. inbox[e] # <<>>
  BY DEF Deliver
<1>3. EndShape(ep[e]) /\ DOMAIN ep = Endpoints /\ inbox[e] \in Seq(Messages)
  BY Apart
<1>4. m \in Messages
  BY <1>1, <1>2, <1>3, TailAt
<1>5. CASE m.type = "handshake"
  <2>1. PICK p2 : p2 = [ep[e] EXCEPT !.state = "connected"]
    OBVIOUS
  <2>2. /\ EndShape(p2) /\ p2.remote = ep[e].remote /\ p2.local = ep[e].local
        /\ p2.reason = ep[e].reason /\ p2.pending = ep[e].pending /\ p2.ignored = ep[e].ignored
        /\ p2.serving = ep[e].serving /\ p2.peerRequests = ep[e].peerRequests
    BY <1>3, <2>1 DEF EndShape, Fields, Fresh
  <2>3. /\ ep' = [ep EXCEPT ![e] = p2] /\ inbox' = [inbox EXCEPT ![e] = Tail(@)]
        /\ UNCHANGED <<fast, link>>
    BY <1>1, <1>5, <2>1 DEF Deliver
  <2>4. m.type # "request" /\ m.type \notin Answers /\ m.type # "cancel"
    BY <1>5 DEF Answers
  <2>5. Serves(ep[e], m, p2) /\ Clears(ep[e], m, p2)
    BY <2>2, <2>4 DEF Serves, Clears
  <2> QED BY <1>1, <1>2, <1>5, <2>2, <2>3, <2>5, ArriveStep
<1>6. CASE m.type # "handshake"
  <2>1. /\ InOrder(ep[e], m)
        /\ fast /\ Cardinality(Blocks) <= MaxPending => WithinLimit(ep[e], m)
    BY <1>1, <1>2, <1>6, ArrivalPasses
  <2>2. CASE WithinLimit(ep[e], m)
    <3>1. PICK p : p = ep[e]
      OBVIOUS
    <3>2. EndShape(p)
      BY <1>3, <3>1
    <3>4. PICK p2 : p2 = Received(p, m)
      OBVIOUS
    <3>5. /\ ep' = [ep EXCEPT ![e] = p2] /\ inbox' = [inbox EXCEPT ![e] = Tail(@)]
          /\ UNCHANGED <<fast, link>>
      BY <1>1, <1>6, <2>1, <2>2, <3>1, <3>4 DEF Deliver
    <3>6. /\ EndShape(p2) /\ p2.remote = NextOrder(p.remote, m)
          /\ p2.local = p.local /\ p2.reason = p.reason
          /\ fast => Clears(p, m, p2)
          /\ Serves(p, m, p2)
      BY <1>4, <3>2, <3>4, RemoteStateLemma
    <3>7. /\ p2.local = ep[e].local /\ p2.reason = ep[e].reason
          /\ p2.remote = IF m.type = "handshake" THEN ep[e].remote
                         ELSE NextOrder(ep[e].remote, m)
          /\ fast => Clears(ep[e], m, p2)
          /\ Serves(ep[e], m, p2)
      BY <1>6, <3>1, <3>6
    <3> QED BY <1>1, <1>2, <3>5, <3>6, <3>7, ArriveStep
  <2>3. CASE ~WithinLimit(ep[e], m)
    <3>1. Terminate(e, "limit")
      BY <1>1, <1>6, <2>1, <2>3 DEF Deliver
    <3> QED BY <2>1, <2>3, <3>1, TerminateStep
  <2> QED BY <2>2, <2>3
<1> QED BY <1>5, <1>6
-----------------------------------------------------------------------------
(***************************************************************************)
(* The theorems                                                            *)
(***************************************************************************)

\* Wire.ts starts with both queues empty and both orders open.
LEMMA InitIInv == Init => IInv
<1> SUFFICES ASSUME Init PROVE IInv
  OBVIOUS
<1>1. /\ DOMAIN ep = Endpoints /\ DOMAIN inbox = Endpoints /\ link = "up"
      /\ \A e \in Endpoints : ep[e] = Fresh /\ inbox[e] = <<>>
  BY DEF Init
<1>2. /\ Fresh.remote = "open" /\ Fresh.local = "open" /\ Fresh.reason = "none"
      /\ Fresh.serving = {} /\ Fresh.ignored = {} /\ Fresh.peerRequests = {}
      /\ EndShape(Fresh)
  BY DEF EndShape, Fields, Fresh, Orders
<1>3. Shape
  <2>1. <<>> \in Seq(Messages)
    OBVIOUS
  <2> QED BY <1>1, <1>2, <2>1 DEF Shape
<1>4. InOrderInv
  <2>1. Fresh.remote \in Orders
    BY <1>2 DEF Orders
  <2>2. Replays(fast, Fresh.remote, <<>>, Fresh.local, link)
    BY <1>2, <2>1, ReplayEmpty
  <2> QED BY <1>1, <2>2, Ends DEF InOrderInv
<1>5. AccountInv
  <2>1. Accounts(Fresh, Fresh, <<>>, <<>>, link)
    BY <1>2 DEF Accounts, Busy
  <2> QED BY <1>1, <2>1, Ends DEF AccountInv
<1>6. NoProtocolError
  BY <1>1, <1>2 DEF NoProtocolError
<1> QED BY <1>3, <1>4, <1>5, <1>6 DEF IInv

\* Every step of either end keeps the invariant.
LEMMA NextIInv == IInv /\ [Next]_vars => IInv'
<1> SUFFICES ASSUME IInv, [Next]_vars PROVE IInv'
  OBVIOUS
<1>1. CASE UNCHANGED vars
  BY <1>1 DEF vars, IInv, Shape, InOrderInv, AccountInv, NoProtocolError
<1>2. ASSUME NEW e \in Endpoints, SendHandshake(e) PROVE IInv'
  BY <1>2, SendHandshakeStep
<1>3. ASSUME NEW e \in Endpoints, Deliver(e) PROVE IInv'
  BY <1>3, DeliverStep
<1>4. ASSUME NEW e \in Endpoints, HandshakeTimeout(e) \/ Destroy(e) \/ LinkDown(e) PROVE IInv'
  BY <1>4, TerminateStep DEF HandshakeTimeout, Destroy, LinkDown
<1>5. ASSUME NEW e \in Endpoints, NEW type \in Flags \cup {"declare", "have"}, Send(e, type)
      PROVE  IInv'
  BY <1>5, SendPlainStep
<1>6. ASSUME NEW e \in Endpoints, NEW k \in Blocks, SendRequest(e, k) PROVE IInv'
  BY <1>6, SendRequestStep
<1>7. ASSUME NEW e \in Endpoints, NEW k \in Blocks, SendCancel(e, k) PROVE IInv'
  BY <1>7, SendCancelStep
<1>8. ASSUME NEW e \in Endpoints, NEW k \in Blocks, Serve(e, k) PROVE IInv'
  BY <1>8, AnswerStep, IgnoreStep DEF Serve
<1> QED BY <1>1, <1>2, <1>3, <1>4, <1>5, <1>6, <1>7, <1>8 DEF Next

\* What is on its way always passes the gates that wait for it, and with the Fast
\* extension a request is at one place at a time: on its way, being served or ignored,
\* or answered on the way back.
THEOREM WireInvariant == Spec => []IInv
BY InitIInv, NextIInv, PTL DEF Spec

\* NoProtocolError: two ends that run wire.ts never end a connection over availability
\* order or negotiation; nor, with the Fast extension and a limit not below the number
\* of blocks, over the number of requests.
THEOREM NoProtocolErrorHolds == Spec => []NoProtocolError
<1>1. IInv => NoProtocolError
  BY DEF IInv
<1> QED BY <1>1, WireInvariant, PTL
-----------------------------------------------------------------------------
(***************************************************************************)
(* What each end knows of the other, and where its requests are, with or   *)
(* without the Fast extension                                              *)
(***************************************************************************)

EndRecords ==
  [state : {"handshaking", "connected", "closed"},
   reason : {"none", "protocol", "limit", "destroy", "timeout", "link"}, sent : BOOLEAN,
   amChoking : BOOLEAN, amInterested : BOOLEAN,
   peerChoking : BOOLEAN, peerInterested : BOOLEAN,
   local : Orders, remote : Orders,
   pending : SUBSET Blocks, peerRequests : SUBSET Blocks,
   serving : SUBSET Blocks, ignored : SUBSET Blocks]

\* A flag after a message of a type: two types set it and clear it.
Turns(b, type, b2, on, off) ==
  /\ type = on => b2 = TRUE
  /\ type = off => b2 = FALSE
  /\ type # on /\ type # off => b2 = b

\* The messages of q, one after the other, take the flag from b to v.
Tracks(b, q, v, on, off) ==
  \E c \in [1..Len(q) + 1 -> BOOLEAN] :
    /\ c[1] = b /\ c[Len(q) + 1] = v
    /\ \A i \in 1..Len(q) : Turns(c[i], q[i].type, c[i + 1], on, off)

\* What is on its way to p makes of its view of o what o is.
Sees(p, o, qp) ==
  /\ Tracks(p.peerChoking, qp, o.amChoking, "choke", "unchoke")
  /\ Tracks(p.peerInterested, qp, o.amInterested, "interested", "notInterested")

\* A pending request of p is on its way to o, with o, or answered on its way back.
Somewhere(p, o, qo, qp) ==
  \A k \in p.pending :
    \/ \E i \in 1..Len(qo) : Asks(qo[i], k)
    \/ k \in Busy(o)
    \/ \E j \in 1..Len(qp) : Settles(qp[j], k)

Agree(p, o, qo, qp) == Sees(p, o, qp) /\ Somewhere(p, o, qo, qp)

AgreeInv ==
  link = "up" => \A e \in Endpoints : Agree(ep[e], ep[Other(e)], inbox[Other(e)], inbox[e])

\* With types.
VInv == IInv /\ TypeOK /\ AgreeInv

\* What an end that sends m becomes, p2, of what the other end sees of it, asks it for
\* and owes it.
Emits(p, m, p2) ==
  /\ Turns(p.amChoking, m.type, p2.amChoking, "choke", "unchoke")
  /\ Turns(p.amInterested, m.type, p2.amInterested, "interested", "notInterested")
  /\ p2.peerChoking = p.peerChoking /\ p2.peerInterested = p.peerInterested
  /\ \A k \in p2.pending : k \in p.pending \/ Asks(m, k)
  /\ \A k \in Busy(p) : k \in Busy(p2) \/ Settles(m, k)

\* And what an end that takes m in becomes.
Accepts(p, m, p2) ==
  /\ Turns(p.peerChoking, m.type, p2.peerChoking, "choke", "unchoke")
  /\ Turns(p.peerInterested, m.type, p2.peerInterested, "interested", "notInterested")
  /\ p2.amChoking = p.amChoking /\ p2.amInterested = p.amInterested
  /\ \A k \in p2.pending : k \in p.pending /\ ~Settles(m, k)
  /\ Busy(p) \subseteq Busy(p2)
  /\ \A k : Asks(m, k) => k \in Busy(p2)
-----------------------------------------------------------------------------
\* A flag follows one more message that is sent.
LEMMA TracksAppend ==
  ASSUME NEW b, NEW v, NEW v2 \in BOOLEAN, NEW on, NEW off, NEW q \in Seq(Messages),
         NEW m \in Messages, Tracks(b, q, v, on, off), Turns(v, m.type, v2, on, off)
  PROVE  Tracks(b, Append(q, m), v2, on, off)
<1>1. PICK c \in [1..Len(q) + 1 -> BOOLEAN] :
        /\ c[1] = b /\ c[Len(q) + 1] = v
        /\ \A i \in 1..Len(q) : Turns(c[i], q[i].type, c[i + 1], on, off)
  BY DEF Tracks
<1>a. PICK t : t = Append(q, m)
  OBVIOUS
<1>2. /\ Len(t) = Len(q) + 1 /\ Len(q) \in Nat
      /\ \A i \in 1..Len(q) : t[i] = q[i]
      /\ t[Len(q) + 1] = m
  BY <1>a, AppendAt
<1>b. PICK n : n = [i \in 1..Len(t) + 1 |-> IF i = Len(t) + 1 THEN v2 ELSE c[i]]
  OBVIOUS
<1>3. /\ n \in [1..Len(t) + 1 -> BOOLEAN] /\ n[1] = b /\ n[Len(t) + 1] = v2
      /\ \A i \in 1..Len(q) + 1 : n[i] = c[i]
  BY <1>1, <1>2, <1>b
<1>4. ASSUME NEW i \in 1..Len(t) PROVE Turns(n[i], t[i].type, n[i + 1], on, off)
  <2>1. CASE i \in 1..Len(q)
    <3>1. t[i] = q[i] /\ n[i] = c[i] /\ n[i + 1] = c[i + 1]
      BY <1>2, <1>3, <2>1
    <3> QED BY <1>1, <2>1, <3>1
  <2>2. CASE i = Len(q) + 1
    <3>1. t[i] = m /\ n[i] = v /\ n[i + 1] = v2
      BY <1>1, <1>2, <1>3, <2>2
    <3> QED BY <3>1
  <2> QED BY <1>2, <2>1, <2>2
<1> QED BY <1>a, <1>3, <1>4 DEF Tracks

\* A flag follows the first message when it arrives.
LEMMA TracksTail ==
  ASSUME NEW b, NEW v, NEW b2, NEW on, NEW off, on # off, NEW q \in Seq(Messages), q # <<>>,
         Tracks(b, q, v, on, off), Turns(b, Head(q).type, b2, on, off)
  PROVE  Tracks(b2, Tail(q), v, on, off)
<1>1. PICK c \in [1..Len(q) + 1 -> BOOLEAN] :
        /\ c[1] = b /\ c[Len(q) + 1] = v
        /\ \A i \in 1..Len(q) : Turns(c[i], q[i].type, c[i + 1], on, off)
  BY DEF Tracks
<1>a. PICK t : t = Tail(q)
  OBVIOUS
<1>2. /\ Len(t) = Len(q) - 1 /\ Len(q) \in Nat /\ Len(q) >= 1 /\ Head(q) = q[1]
      /\ \A i \in 1..Len(t) : t[i] = q[i + 1]
  BY <1>a, TailAt
<1>b. PICK n : n = [i \in 1..Len(t) + 1 |-> c[i + 1]]
  OBVIOUS
<1>3. /\ n \in [1..Len(t) + 1 -> BOOLEAN]
      /\ \A i \in 1..Len(t) + 1 : n[i] = c[i + 1]
  BY <1>2, <1>b
<1>4. ASSUME NEW i \in 1..Len(t) PROVE Turns(n[i], t[i].type, n[i + 1], on, off)
  <2>1. /\ n[i] = c[i + 1] /\ n[i + 1] = c[i + 2] /\ t[i] = q[i + 1] /\ i + 1 \in 1..Len(q)
        /\ i + 1 + 1 = i + 2
    BY <1>2, <1>3
  <2>2. Turns(c[i + 1], q[i + 1].type, c[i + 1 + 1], on, off)
    BY <1>1, <2>1
  <2> QED BY <2>1, <2>2
<1>5. n[1] = c[2] /\ n[Len(t) + 1] = v
  <2>1. /\ 1 + 1 = 2 /\ Len(t) + 1 + 1 = Len(q) + 1
        /\ 1 \in 1..Len(t) + 1 /\ Len(t) + 1 \in 1..Len(t) + 1
    BY <1>2
  <2> QED BY <1>1, <1>3, <2>1
<1>6. c[2] = b2
  <2>1. Turns(c[1], q[1].type, c[2], on, off)
    <3>1. 1 \in 1..Len(q) /\ 1 + 1 = 2
      BY <1>2
    <3> QED BY <1>1, <3>1
  <2> QED BY <1>1, <1>2, <2>1 DEF Turns
<1> QED BY <1>a, <1>3, <1>4, <1>5, <1>6 DEF Tracks

\* Nothing on its way leaves a flag as it is.
LEMMA TracksEmpty == ASSUME NEW b \in BOOLEAN, NEW on, NEW off PROVE Tracks(b, <<>>, b, on, off)
<1>a. PICK c : c = [i \in 1..1 |-> b]
  OBVIOUS
<1>1. c \in [1..Len(<<>>) + 1 -> BOOLEAN] /\ c[1] = b /\ Len(<<>>) = 0 /\ 0 + 1 = 1
  BY <1>a
<1> QED BY <1>1 DEF Tracks

\* The end that is seen, or that asks, sends a message.
LEMMA AgreeSends ==
  ASSUME NEW p \in EndRecords, NEW o \in EndRecords, NEW p2 \in EndRecords,
         NEW qo \in Seq(Messages), NEW qp \in Seq(Messages),
         NEW m \in Messages, Emits(p, m, p2)
  PROVE  /\ Agree(p, o, qo, qp) => Agree(p2, o, Append(qo, m), qp)
         /\ Agree(o, p, qp, qo) => Agree(o, p2, qp, Append(qo, m))
<1>a. PICK t : t = Append(qo, m)
  OBVIOUS
<1>1. /\ Len(t) = Len(qo) + 1 /\ Len(qo) \in Nat
      /\ \A i \in 1..Len(qo) : t[i] = qo[i]
      /\ t[Len(qo) + 1] = m
  BY <1>a, AppendAt
<1>2. Len(qo) + 1 \in 1..Len(t) /\ \A i \in 1..Len(qo) : i \in 1..Len(t)
  BY <1>1
<1>3. ASSUME Agree(p, o, qo, qp) PROVE Agree(p2, o, t, qp)
  <2>1. Sees(p2, o, qp)
    BY <1>3 DEF Agree, Sees, Emits
  <2>2. ASSUME NEW k \in p2.pending
        PROVE  \/ \E i \in 1..Len(t) : Asks(t[i], k)
               \/ k \in Busy(o)
               \/ \E j \in 1..Len(qp) : Settles(qp[j], k)
    <3>1. CASE k \in p.pending
      <4>1. \/ \E i \in 1..Len(qo) : Asks(qo[i], k)
            \/ k \in Busy(o)
            \/ \E j \in 1..Len(qp) : Settles(qp[j], k)
        BY <1>3, <3>1 DEF Agree, Somewhere
      <4> QED BY <1>1, <1>2, <4>1
    <3>2. CASE Asks(m, k)
      BY <1>1, <1>2, <3>2
    <3> QED BY <3>1, <3>2 DEF Emits
  <2> QED BY <2>1, <2>2 DEF Agree, Somewhere
<1>4. ASSUME Agree(o, p, qp, qo) PROVE Agree(o, p2, qp, t)
  <2>1. Tracks(o.peerChoking, t, p2.amChoking, "choke", "unchoke")
    <3>1. /\ Tracks(o.peerChoking, qo, p.amChoking, "choke", "unchoke")
          /\ Turns(p.amChoking, m.type, p2.amChoking, "choke", "unchoke")
          /\ p2.amChoking \in BOOLEAN
      BY <1>4 DEF Agree, Sees, Emits, EndRecords
    <3> QED BY <1>a, <3>1, TracksAppend
  <2>2. Tracks(o.peerInterested, t, p2.amInterested, "interested", "notInterested")
    <3>1. /\ Tracks(o.peerInterested, qo, p.amInterested, "interested", "notInterested")
          /\ Turns(p.amInterested, m.type, p2.amInterested, "interested", "notInterested")
          /\ p2.amInterested \in BOOLEAN
      BY <1>4 DEF Agree, Sees, Emits, EndRecords
    <3> QED BY <1>a, <3>1, TracksAppend
  <2>3. ASSUME NEW k \in o.pending
        PROVE  \/ \E i \in 1..Len(qp) : Asks(qp[i], k)
               \/ k \in Busy(p2)
               \/ \E j \in 1..Len(t) : Settles(t[j], k)
    <3>1. \/ \E i \in 1..Len(qp) : Asks(qp[i], k)
          \/ k \in Busy(p)
          \/ \E j \in 1..Len(qo) : Settles(qo[j], k)
      BY <1>4 DEF Agree, Somewhere
    <3>2. CASE k \in Busy(p)
      <4>1. k \in Busy(p2) \/ Settles(m, k)
        BY <3>2 DEF Emits
      <4> QED BY <1>1, <1>2, <4>1
    <3> QED BY <1>1, <1>2, <3>1, <3>2
  <2> QED BY <2>1, <2>2, <2>3 DEF Agree, Sees, Somewhere
<1> QED BY <1>a, <1>3, <1>4

\* The end that sees, or that is asked, takes in a message.
LEMMA AgreeAccepts ==
  ASSUME NEW p \in EndRecords, NEW o \in EndRecords, NEW p2 \in EndRecords,
         NEW qo \in Seq(Messages), NEW qp \in Seq(Messages), qp # <<>>,
         NEW m, m = Head(qp), Accepts(p, m, p2)
  PROVE  /\ Agree(p, o, qo, qp) => Agree(p2, o, qo, Tail(qp))
         /\ Agree(o, p, qp, qo) => Agree(o, p2, Tail(qp), qo)
<1>a. PICK t : t = Tail(qp)
  OBVIOUS
<1>1. /\ Len(t) = Len(qp) - 1 /\ Len(qp) \in Nat /\ Len(qp) >= 1
      /\ \A i \in 1..Len(t) : t[i] = qp[i + 1]
      /\ m = qp[1]
  BY <1>a, TailAt
<1>2. ASSUME NEW j \in 1..Len(qp) PROVE j = 1 \/ \E i \in 1..Len(t) : t[i] = qp[j]
  <2>1. CASE j # 1
    <3>1. j - 1 \in 1..Len(t) /\ (j - 1) + 1 = j
      BY <1>1, <2>1
    <3> QED BY <1>1, <3>1
  <2> QED BY <2>1
<1>3. ASSUME Agree(p, o, qo, qp) PROVE Agree(p2, o, qo, t)
  <2>1. Tracks(p2.peerChoking, t, o.amChoking, "choke", "unchoke")
    <3>1. /\ Tracks(p.peerChoking, qp, o.amChoking, "choke", "unchoke")
          /\ Turns(p.peerChoking, Head(qp).type, p2.peerChoking, "choke", "unchoke")
      BY <1>3 DEF Agree, Sees, Accepts
    <3> QED BY <1>a, <3>1, TracksTail
  <2>2. Tracks(p2.peerInterested, t, o.amInterested, "interested", "notInterested")
    <3>1. /\ Tracks(p.peerInterested, qp, o.amInterested, "interested", "notInterested")
          /\ Turns(p.peerInterested, Head(qp).type, p2.peerInterested,
                   "interested", "notInterested")
      BY <1>3 DEF Agree, Sees, Accepts
    <3> QED BY <1>a, <3>1, TracksTail
  <2>3. ASSUME NEW k \in p2.pending
        PROVE  \/ \E i \in 1..Len(qo) : Asks(qo[i], k)
               \/ k \in Busy(o)
               \/ \E j \in 1..Len(t) : Settles(t[j], k)
    <3>1. k \in p.pending /\ ~Settles(qp[1], k)
      BY <1>1 DEF Accepts
    <3>2. \/ \E i \in 1..Len(qo) : Asks(qo[i], k)
          \/ k \in Busy(o)
          \/ \E j \in 1..Len(qp) : Settles(qp[j], k)
      BY <1>3, <3>1 DEF Agree, Somewhere
    <3>3. ASSUME NEW j \in 1..Len(qp), Settles(qp[j], k)
          PROVE  \E i \in 1..Len(t) : Settles(t[i], k)
      BY <1>2, <3>1, <3>3
    <3> QED BY <3>2, <3>3
  <2> QED BY <2>1, <2>2, <2>3 DEF Agree, Sees, Somewhere
<1>4. ASSUME Agree(o, p, qp, qo) PROVE Agree(o, p2, t, qo)
  <2>1. Sees(o, p2, qo)
    BY <1>4 DEF Agree, Sees, Accepts
  <2>2. ASSUME NEW k \in o.pending
        PROVE  \/ \E i \in 1..Len(t) : Asks(t[i], k)
               \/ k \in Busy(p2)
               \/ \E j \in 1..Len(qo) : Settles(qo[j], k)
    <3>1. \/ \E i \in 1..Len(qp) : Asks(qp[i], k)
          \/ k \in Busy(p)
          \/ \E j \in 1..Len(qo) : Settles(qo[j], k)
      BY <1>4 DEF Agree, Somewhere
    <3>2. ASSUME NEW i \in 1..Len(qp), Asks(qp[i], k)
          PROVE  k \in Busy(p2) \/ \E j \in 1..Len(t) : Asks(t[j], k)
      <4>1. CASE i = 1
        BY <1>1, <3>2, <4>1 DEF Accepts
      <4> QED BY <1>2, <3>2, <4>1
    <3>3. k \in Busy(p) => k \in Busy(p2)
      BY DEF Accepts
    <3> QED BY <3>1, <3>2, <3>3
  <2> QED BY <2>1, <2>2 DEF Agree, Somewhere
<1> QED BY <1>a, <1>3, <1>4
-----------------------------------------------------------------------------
\* The object of an end that has sent m: a message that is no answer leaves what the
\* end is asked for as it is.
LEMMA SentLemma ==
  ASSUME NEW p \in EndRecords, NEW m \in Messages, NEW p2, p2 = Sent(p, m)
  PROVE  p2 \in EndRecords /\ Emits(p, m, p2) /\ Busy(p2) = Busy(p)
<1>a. PICK q : q = [p EXCEPT !.local = NextOrder(p.local, m)]
  OBVIOUS
<1>b. p2 = LocalState(q, m) /\ NextOrder(p.local, m) \in Orders
  BY <1>a, OrderSorts DEF Sent, EndRecords
<1>1. /\ q \in EndRecords
      /\ q.amChoking = p.amChoking /\ q.amInterested = p.amInterested
      /\ q.peerChoking = p.peerChoking /\ q.peerInterested = p.peerInterested
      /\ q.serving = p.serving /\ q.ignored = p.ignored /\ q.pending = p.pending
  BY <1>a, <1>b DEF EndRecords
<1>2. ASSUME NEW type \in Flags, m.type = type
      PROVE  p2 \in EndRecords /\ Emits(p, m, p2) /\ Busy(p2) = Busy(p)
  <2>1. p2 = SetFlag(q, type, "amChoking", "amInterested")
    BY <1>b, <1>2 DEF LocalState, Flags, Answers
  <2>2. CASE type = "choke"
    <3>1. p2 = [q EXCEPT !.amChoking = TRUE]
      BY <2>1, <2>2 DEF SetFlag
    <3>2. /\ p2 \in EndRecords /\ p2.amChoking = TRUE /\ p2.amInterested = q.amInterested
          /\ p2.peerChoking = q.peerChoking /\ p2.peerInterested = q.peerInterested
          /\ p2.serving = q.serving /\ p2.ignored = q.ignored /\ p2.pending = q.pending
      BY <1>1, <3>1 DEF EndRecords
    <3> QED BY <1>1, <1>2, <2>2, <3>2 DEF Emits, Turns, Busy
  <2>3. CASE type = "unchoke"
    <3>1. p2 = [q EXCEPT !.amChoking = FALSE]
      BY <2>1, <2>3 DEF SetFlag
    <3>2. /\ p2 \in EndRecords /\ p2.amChoking = FALSE /\ p2.amInterested = q.amInterested
          /\ p2.peerChoking = q.peerChoking /\ p2.peerInterested = q.peerInterested
          /\ p2.serving = q.serving /\ p2.ignored = q.ignored /\ p2.pending = q.pending
      BY <1>1, <3>1 DEF EndRecords
    <3> QED BY <1>1, <1>2, <2>3, <3>2 DEF Emits, Turns, Busy
  <2>4. CASE type = "interested"
    <3>1. p2 = [q EXCEPT !.amInterested = TRUE]
      BY <2>1, <2>4 DEF SetFlag
    <3>2. /\ p2 \in EndRecords /\ p2.amInterested = TRUE /\ p2.amChoking = q.amChoking
          /\ p2.peerChoking = q.peerChoking /\ p2.peerInterested = q.peerInterested
          /\ p2.serving = q.serving /\ p2.ignored = q.ignored /\ p2.pending = q.pending
      BY <1>1, <3>1 DEF EndRecords
    <3> QED BY <1>1, <1>2, <2>4, <3>2 DEF Emits, Turns, Busy
  <2>5. CASE type = "notInterested"
    <3>1. p2 = [q EXCEPT !.amInterested = FALSE]
      BY <2>1, <2>5 DEF SetFlag
    <3>2. /\ p2 \in EndRecords /\ p2.amInterested = FALSE /\ p2.amChoking = q.amChoking
          /\ p2.peerChoking = q.peerChoking /\ p2.peerInterested = q.peerInterested
          /\ p2.serving = q.serving /\ p2.ignored = q.ignored /\ p2.pending = q.pending
      BY <1>1, <3>1 DEF EndRecords
    <3> QED BY <1>1, <1>2, <2>5, <3>2 DEF Emits, Turns, Busy
  <2> QED BY <2>2, <2>3, <2>4, <2>5 DEF Flags
<1>3. CASE m.type = "request"
  <2>1. m.block \in Blocks
    BY <1>3, MessageSorts DEF Requests
  <2>2. p2 = [q EXCEPT !.pending = q.pending \cup {m.block}]
    BY <1>b, <1>3 DEF LocalState, Flags, Answers
  <2>3. /\ p2 \in EndRecords /\ p2.pending = q.pending \cup {m.block}
        /\ p2.amChoking = q.amChoking /\ p2.amInterested = q.amInterested
        /\ p2.peerChoking = q.peerChoking /\ p2.peerInterested = q.peerInterested
        /\ p2.serving = q.serving /\ p2.ignored = q.ignored
    BY <1>1, <2>1, <2>2 DEF EndRecords
  <2> QED BY <1>1, <1>3, <2>3 DEF Emits, Turns, Busy, Asks
<1>4. CASE m.type \in Answers \cup {"cancel"}
  <2>1. p2 = [q EXCEPT !.peerRequests = q.peerRequests \ {m.block}]
    BY <1>b, <1>4 DEF LocalState, Flags, Answers
  <2>2. /\ p2 \in EndRecords /\ p2.pending = q.pending
        /\ p2.amChoking = q.amChoking /\ p2.amInterested = q.amInterested
        /\ p2.peerChoking = q.peerChoking /\ p2.peerInterested = q.peerInterested
        /\ p2.serving = q.serving /\ p2.ignored = q.ignored
    BY <1>1, <2>1 DEF EndRecords
  <2> QED BY <1>1, <1>4, <2>2 DEF Emits, Turns, Busy, Answers
<1>5. CASE m.type \in {"handshake", "declare", "have"}
  <2>1. p2 = q
    BY <1>b, <1>5 DEF LocalState, Flags, Answers
  <2> QED BY <1>1, <1>5, <2>1 DEF Emits, Turns, Busy
<1> QED BY <1>2, <1>3, <1>4, <1>5, MessageSorts DEF Requests

\* The object of an end that has taken m in.
LEMMA ReceivedLemma ==
  ASSUME NEW p \in EndRecords, NEW m \in Messages, NEW p2, p2 = Received(p, m)
  PROVE  p2 \in EndRecords /\ Accepts(p, m, p2) /\ p2.remote = NextOrder(p.remote, m)
<1>a. PICK q : q = [p EXCEPT !.remote = NextOrder(p.remote, m)]
  OBVIOUS
<1>b. p2 = RemoteState(q, m) /\ NextOrder(p.remote, m) \in Orders
  BY <1>a, OrderSorts DEF Received, EndRecords
<1>1. /\ q \in EndRecords /\ q.remote = NextOrder(p.remote, m)
      /\ q.amChoking = p.amChoking /\ q.amInterested = p.amInterested
      /\ q.peerChoking = p.peerChoking /\ q.peerInterested = p.peerInterested
      /\ q.serving = p.serving /\ q.ignored = p.ignored /\ q.pending = p.pending
  BY <1>a, <1>b DEF EndRecords
<1> DEFINE Goal == p2 \in EndRecords /\ Accepts(p, m, p2) /\ p2.remote = NextOrder(p.remote, m)
<1>2. ASSUME NEW type \in Flags, m.type = type PROVE Goal
  <2>1. PICK left : left = IF type = "choke" /\ ~fast THEN {} ELSE q.pending
    OBVIOUS
  <2>2. PICK r : r = [q EXCEPT !.pending = left]
    OBVIOUS
  <2>3. p2 = SetFlag(r, type, "peerChoking", "peerInterested")
    <3>1. m.type # "request" /\ m.type # "cancel" /\ m.type \notin Answers /\ m.type \in Flags
      BY <1>2 DEF Flags, Answers
    <3>2. p2 = RemoteFlag(q, m.type)
      BY <1>b, <3>1 DEF RemoteState
    <3> QED BY <1>2, <2>1, <2>2, <3>2 DEF RemoteFlag
  <2>4. q.pending \subseteq Blocks
    BY <1>1 DEF EndRecords
  <2>5. left \subseteq q.pending /\ left \subseteq Blocks
    BY <2>1, <2>4
  <2>6. /\ r \in EndRecords /\ r.pending = left /\ r.remote = q.remote
        /\ r.amChoking = q.amChoking /\ r.amInterested = q.amInterested
        /\ r.peerChoking = q.peerChoking /\ r.peerInterested = q.peerInterested
        /\ r.serving = q.serving /\ r.ignored = q.ignored
    BY <1>1, <2>2, <2>5 DEF EndRecords
  <2>7. m.type # "request" /\ m.type \notin Answers
    BY <1>2 DEF Flags, Answers
  <2>8. CASE type = "choke"
    <3>1. p2 = [r EXCEPT !.peerChoking = TRUE]
      BY <2>3, <2>8 DEF SetFlag
    <3>2. /\ p2 \in EndRecords /\ p2.peerChoking = TRUE /\ p2.peerInterested = r.peerInterested
          /\ p2.amChoking = r.amChoking /\ p2.amInterested = r.amInterested
          /\ p2.serving = r.serving /\ p2.ignored = r.ignored /\ p2.pending = left
          /\ p2.remote = r.remote
      BY <2>6, <3>1 DEF EndRecords
    <3> QED BY <1>1, <1>2, <2>5, <2>6, <2>7, <2>8, <3>2 DEF Accepts, Turns, Busy, Asks, Settles
  <2>9. CASE type = "unchoke"
    <3>1. p2 = [r EXCEPT !.peerChoking = FALSE]
      BY <2>3, <2>9 DEF SetFlag
    <3>2. /\ p2 \in EndRecords /\ p2.peerChoking = FALSE /\ p2.peerInterested = r.peerInterested
          /\ p2.amChoking = r.amChoking /\ p2.amInterested = r.amInterested
          /\ p2.serving = r.serving /\ p2.ignored = r.ignored /\ p2.pending = left
          /\ p2.remote = r.remote
      BY <2>6, <3>1 DEF EndRecords
    <3> QED BY <1>1, <1>2, <2>5, <2>6, <2>7, <2>9, <3>2 DEF Accepts, Turns, Busy, Asks, Settles
  <2>10. CASE type = "interested"
    <3>1. p2 = [r EXCEPT !.peerInterested = TRUE]
      BY <2>3, <2>10 DEF SetFlag
    <3>2. /\ p2 \in EndRecords /\ p2.peerInterested = TRUE /\ p2.peerChoking = r.peerChoking
          /\ p2.amChoking = r.amChoking /\ p2.amInterested = r.amInterested
          /\ p2.serving = r.serving /\ p2.ignored = r.ignored /\ p2.pending = left
          /\ p2.remote = r.remote
      BY <2>6, <3>1 DEF EndRecords
    <3> QED BY <1>1, <1>2, <2>5, <2>6, <2>7, <2>10, <3>2 DEF Accepts, Turns, Busy, Asks, Settles
  <2>11. CASE type = "notInterested"
    <3>1. p2 = [r EXCEPT !.peerInterested = FALSE]
      BY <2>3, <2>11 DEF SetFlag
    <3>2. /\ p2 \in EndRecords /\ p2.peerInterested = FALSE /\ p2.peerChoking = r.peerChoking
          /\ p2.amChoking = r.amChoking /\ p2.amInterested = r.amInterested
          /\ p2.serving = r.serving /\ p2.ignored = r.ignored /\ p2.pending = left
          /\ p2.remote = r.remote
      BY <2>6, <3>1 DEF EndRecords
    <3> QED BY <1>1, <1>2, <2>5, <2>6, <2>7, <2>11, <3>2 DEF Accepts, Turns, Busy, Asks, Settles
  <2> QED BY <2>8, <2>9, <2>10, <2>11 DEF Flags
<1>3. CASE m.type = "request"
  <2>1. PICK k \in Blocks : k = m.block
    BY <1>3, MessageSorts DEF Requests
  <2>2. p2 = Requested(q, k)
    BY <1>b, <1>3, <2>1 DEF RemoteState, Flags, Answers
  <2>3. /\ p2 \in EndRecords /\ p2.pending = q.pending /\ p2.remote = q.remote
        /\ p2.amChoking = q.amChoking /\ p2.amInterested = q.amInterested
        /\ p2.peerChoking = q.peerChoking /\ p2.peerInterested = q.peerInterested
        /\ p2.serving = q.serving \cup {k} /\ p2.ignored = q.ignored \ {k}
    <3>1. PICK x \in SUBSET Blocks : x = q.peerRequests \cup {k}
      BY <1>1 DEF EndRecords
    <3>2. PICK y \in SUBSET Blocks : y = q.serving \cup {k}
      BY <1>1 DEF EndRecords
    <3>3. PICK z \in SUBSET Blocks : z = q.ignored \ {k}
      BY <1>1 DEF EndRecords
    <3>4. p2 = [q EXCEPT !.peerRequests = x, !.serving = y, !.ignored = z]
      BY <2>2, <3>1, <3>2, <3>3 DEF Requested
    <3>5. p2 \in EndRecords
      BY <1>1, <3>4 DEF EndRecords
    <3>6. /\ p2.pending = q.pending /\ p2.remote = q.remote
          /\ p2.amChoking = q.amChoking /\ p2.amInterested = q.amInterested
          /\ p2.peerChoking = q.peerChoking /\ p2.peerInterested = q.peerInterested
          /\ p2.serving = y /\ p2.ignored = z
      BY <1>1, <3>4 DEF EndRecords
    <3> QED BY <3>2, <3>3, <3>5, <3>6
  <2> QED BY <1>1, <1>3, <2>1, <2>3 DEF Accepts, Turns, Busy, Asks, Settles, Answers
<1>4. CASE m.type = "cancel"
  <2>1. p2 = Cancelled(q, m.block)
    BY <1>b, <1>4 DEF RemoteState, Flags, Answers
  <2>2. /\ p2 \in EndRecords /\ p2.pending = q.pending /\ p2.remote = q.remote
        /\ p2.amChoking = q.amChoking /\ p2.amInterested = q.amInterested
        /\ p2.peerChoking = q.peerChoking /\ p2.peerInterested = q.peerInterested
        /\ p2.serving = q.serving /\ p2.ignored = q.ignored
    BY <1>1, <2>1 DEF Cancelled, EndRecords
  <2> QED BY <1>1, <1>4, <2>2 DEF Accepts, Turns, Busy, Asks, Settles, Answers
<1>5. CASE m.type \in Answers
  <2>1. p2 = Answered(q, m)
    BY <1>b, <1>5 DEF RemoteState, Flags, Answers
  <2>2. /\ p2 \in EndRecords /\ p2.pending = q.pending \ {m.block} /\ p2.remote = q.remote
        /\ p2.amChoking = q.amChoking /\ p2.amInterested = q.amInterested
        /\ p2.peerChoking = q.peerChoking /\ p2.peerInterested = q.peerInterested
        /\ p2.serving = q.serving /\ p2.ignored = q.ignored
    BY <1>1, <2>1 DEF Answered, EndRecords
  <2> QED BY <1>1, <1>5, <2>2 DEF Accepts, Turns, Busy, Asks, Settles, Answers
<1>6. CASE m.type \in {"handshake", "declare", "have"}
  <2>1. p2 = q
    BY <1>b, <1>6 DEF RemoteState, Flags, Answers
  <2> QED BY <1>1, <1>6, <2>1 DEF Accepts, Turns, Busy, Asks, Settles, Answers
<1> QED BY <1>2, <1>3, <1>4, <1>5, <1>6, MessageSorts DEF Requests
-----------------------------------------------------------------------------
\* The types, with a name for the records.
LEMMA TypeFacts ==
  TypeOK <=> /\ fast \in BOOLEAN /\ link \in {"up", "down"} /\ ep \in [Endpoints -> EndRecords]
             /\ \A e \in Endpoints : inbox[e] \in Seq(Messages)
BY DEF TypeOK, EndRecords

\* Both ends agree after a step when they do from the side of one and of the other.
LEMMA AgreeTogether ==
  ASSUME NEW e \in Endpoints, NEW d, d = Other(e),
         link' = "up" => /\ Agree(ep'[e], ep'[d], inbox'[d], inbox'[e])
                         /\ Agree(ep'[d], ep'[e], inbox'[e], inbox'[d])
  PROVE  AgreeInv'
<1>1. \A x \in Endpoints : x = e \/ x = d
  BY Ends
<1>2. d \in Endpoints /\ Other(d) = e
  BY Ends
<1> SUFFICES ASSUME link' = "up", NEW x \in Endpoints
             PROVE  Agree(ep'[x], ep'[Other(x)], inbox'[Other(x)], inbox'[x])
  BY DEF AgreeInv
<1>3. CASE x = e
  BY <1>3
<1>4. CASE x = d
  BY <1>2, <1>4
<1> QED BY <1>1, <1>3, <1>4

\* An end sends m and becomes p2.
LEMMA EmitStep ==
  ASSUME VInv, NEW e \in Endpoints, NEW m \in Messages, NEW p2 \in EndRecords,
         Emits(ep[e], m, p2), ep' = [ep EXCEPT ![e] = p2], Transmit(e, m),
         UNCHANGED <<fast, link>>
  PROVE  TypeOK' /\ AgreeInv'
<1>0. PICK d : d = Other(e)
  OBVIOUS
<1>1. /\ d \in Endpoints /\ d # e /\ Other(d) = e /\ \A x \in Endpoints : x = e \/ x = d
  BY <1>0, Ends
<1>2. /\ fast \in BOOLEAN /\ link \in {"up", "down"} /\ ep \in [Endpoints -> EndRecords]
      /\ \A x \in Endpoints : inbox[x] \in Seq(Messages)
      /\ DOMAIN inbox = Endpoints
  BY TypeFacts DEF VInv, IInv, Shape
<1>3. Append(inbox[d], m) \in Seq(Messages)
  BY <1>1, <1>2, AppendAt
<1>4. /\ ep' \in [Endpoints -> EndRecords] /\ ep'[e] = p2 /\ ep'[d] = ep[d]
      /\ fast' = fast /\ link' = link /\ inbox'[e] = inbox[e]
      /\ inbox'[d] = IF link = "up" THEN Append(inbox[d], m) ELSE inbox[d]
  BY <1>0, <1>1, <1>2 DEF Transmit
<1>5. TypeOK'
  <2>1. inbox'[d] \in Seq(Messages) /\ inbox'[e] \in Seq(Messages)
    BY <1>1, <1>2, <1>3, <1>4
  <2>2. \A x \in Endpoints : inbox'[x] \in Seq(Messages)
    BY <1>1, <2>1
  <2> QED BY <1>2, <1>4, <2>2 DEF TypeOK, EndRecords
<1>6. ASSUME link = "up"
      PROVE  /\ Agree(p2, ep[d], Append(inbox[d], m), inbox[e])
             /\ Agree(ep[d], p2, inbox[e], Append(inbox[d], m))
  <2>1. /\ Agree(ep[e], ep[d], inbox[d], inbox[e]) /\ Agree(ep[d], ep[e], inbox[e], inbox[d])
    BY <1>0, <1>1, <1>6 DEF VInv, AgreeInv
  <2>2. ep[e] \in EndRecords /\ ep[d] \in EndRecords
    BY <1>1, <1>2
  <2> QED BY <1>1, <1>2, <2>1, <2>2, AgreeSends
<1>7. link' = "up" => /\ Agree(ep'[e], ep'[d], inbox'[d], inbox'[e])
                      /\ Agree(ep'[d], ep'[e], inbox'[e], inbox'[d])
  BY <1>4, <1>6
<1>8. AgreeInv'
  BY <1>0, <1>7, AgreeTogether
<1> QED BY <1>5, <1>8

\* An end takes in the first message on its way and becomes p2.
LEMMA AcceptStep ==
  ASSUME VInv, NEW e \in Endpoints, inbox[e] # <<>>, NEW m, m = Head(inbox[e]),
         NEW p2 \in EndRecords, Accepts(ep[e], m, p2), ep' = [ep EXCEPT ![e] = p2],
         inbox' = [inbox EXCEPT ![e] = Tail(@)], UNCHANGED <<fast, link>>
  PROVE  TypeOK' /\ AgreeInv'
<1>0. PICK d : d = Other(e)
  OBVIOUS
<1>1. /\ d \in Endpoints /\ d # e /\ Other(d) = e /\ \A x \in Endpoints : x = e \/ x = d
  BY <1>0, Ends
<1>2. /\ fast \in BOOLEAN /\ link \in {"up", "down"} /\ ep \in [Endpoints -> EndRecords]
      /\ \A x \in Endpoints : inbox[x] \in Seq(Messages)
      /\ DOMAIN inbox = Endpoints
  BY TypeFacts DEF VInv, IInv, Shape
<1>3. Tail(inbox[e]) \in Seq(Messages)
  BY <1>2, TailAt
<1>4. /\ ep' \in [Endpoints -> EndRecords] /\ ep'[e] = p2 /\ ep'[d] = ep[d]
      /\ fast' = fast /\ link' = link /\ inbox'[e] = Tail(inbox[e]) /\ inbox'[d] = inbox[d]
  BY <1>0, <1>1, <1>2
<1>5. TypeOK'
  <2>1. inbox'[d] \in Seq(Messages) /\ inbox'[e] \in Seq(Messages)
    BY <1>1, <1>2, <1>3, <1>4
  <2>2. \A x \in Endpoints : inbox'[x] \in Seq(Messages)
    BY <1>1, <2>1
  <2> QED BY <1>2, <1>4, <2>2 DEF TypeOK, EndRecords
<1>6. ASSUME link = "up"
      PROVE  /\ Agree(p2, ep[d], inbox[d], Tail(inbox[e]))
             /\ Agree(ep[d], p2, Tail(inbox[e]), inbox[d])
  <2>1. /\ Agree(ep[e], ep[d], inbox[d], inbox[e]) /\ Agree(ep[d], ep[e], inbox[e], inbox[d])
    BY <1>0, <1>1, <1>6 DEF VInv, AgreeInv
  <2>2. ep[e] \in EndRecords /\ ep[d] \in EndRecords
    BY <1>1, <1>2
  <2> QED BY <1>1, <1>2, <2>1, <2>2, AgreeAccepts
<1>7. link' = "up" => /\ Agree(ep'[e], ep'[d], inbox'[d], inbox'[e])
                      /\ Agree(ep'[d], ep'[e], inbox'[e], inbox'[d])
  BY <1>4, <1>6
<1>8. AgreeInv'
  BY <1>0, <1>7, AgreeTogether
<1> QED BY <1>5, <1>8

\* The other steps: the end that terminates takes the connection with it.
LEMMA TerminateAgrees ==
  ASSUME VInv, NEW e \in Endpoints, NEW reason, Terminate(e, reason),
         reason \in {"protocol", "limit", "destroy", "timeout", "link"}
  PROVE  TypeOK' /\ AgreeInv'
<1>1. /\ fast \in BOOLEAN /\ ep \in [Endpoints -> EndRecords]
      /\ \A x \in Endpoints : inbox[x] \in Seq(Messages)
      /\ DOMAIN inbox = Endpoints
  BY TypeFacts DEF VInv, IInv, Shape
<1>2. PICK p2 : p2 = [Fresh EXCEPT !.state = "closed", !.reason = reason]
  OBVIOUS
<1>3. p2 \in EndRecords
  BY <1>2 DEF Fresh, EndRecords, Orders
<1>4. /\ ep' \in [Endpoints -> EndRecords] /\ fast' \in BOOLEAN /\ link' = "down"
      /\ inbox' = [inbox EXCEPT ![e] = <<>>]
  BY <1>1, <1>2, <1>3 DEF Terminate
<1>5. \A x \in Endpoints : inbox'[x] \in Seq(Messages)
  <2>1. <<>> \in Seq(Messages)
    OBVIOUS
  <2> QED BY <1>1, <1>4, <2>1
<1>6. TypeOK'
  BY <1>4, <1>5 DEF TypeOK, EndRecords
<1> QED BY <1>4, <1>6 DEF AgreeInv

\* And a request that is ignored stays where it is.
LEMMA IgnoreAgrees ==
  ASSUME VInv, NEW e \in Endpoints, NEW k \in Blocks, Ignore(e, k)
  PROVE  TypeOK' /\ AgreeInv'
<1>0. PICK d : d = Other(e)
  OBVIOUS
<1>1. /\ d \in Endpoints /\ d # e /\ Other(d) = e /\ \A x \in Endpoints : x = e \/ x = d
  BY <1>0, Ends
<1>2. /\ fast \in BOOLEAN /\ link \in {"up", "down"} /\ ep \in [Endpoints -> EndRecords]
      /\ \A x \in Endpoints : inbox[x] \in Seq(Messages)
  BY TypeFacts DEF VInv
<1>3. PICK x \in SUBSET Blocks : x = ep[e].serving \ {k}
  BY <1>2 DEF EndRecords
<1>4. PICK y \in SUBSET Blocks : y = ep[e].ignored \cup {k}
  BY <1>2 DEF EndRecords
<1>5. PICK p2 : p2 = [[ep[e] EXCEPT !.serving = x] EXCEPT !.ignored = y]
  OBVIOUS
<1>6. k \in ep[e].serving /\ UNCHANGED <<fast, inbox, link>>
  BY DEF Ignore
<1>7. ep' = [ep EXCEPT ![e] = p2]
  <2>1. ep' = [ep EXCEPT ![e].serving = x, ![e].ignored = y]
    BY <1>2, <1>3, <1>4 DEF Ignore, EndRecords
  <2> QED BY <1>2, <1>5, <2>1 DEF EndRecords
<1>8. /\ p2 \in EndRecords
      /\ p2.pending = ep[e].pending
      /\ p2.amChoking = ep[e].amChoking /\ p2.amInterested = ep[e].amInterested
      /\ p2.peerChoking = ep[e].peerChoking /\ p2.peerInterested = ep[e].peerInterested
      /\ p2.serving = x /\ p2.ignored = y
  <2>1. PICK r : r = [ep[e] EXCEPT !.serving = x]
    OBVIOUS
  <2>2. r \in EndRecords /\ r.serving = x
    BY <1>2, <2>1 DEF EndRecords
  <2>3. /\ r.pending = ep[e].pending
        /\ r.amChoking = ep[e].amChoking /\ r.amInterested = ep[e].amInterested
        /\ r.peerChoking = ep[e].peerChoking /\ r.peerInterested = ep[e].peerInterested
    BY <1>2, <2>1 DEF EndRecords
  <2>4. p2 = [r EXCEPT !.ignored = y]
    BY <1>5, <2>1
  <2>5. p2 \in EndRecords
    BY <2>2, <2>4 DEF EndRecords
  <2>6. /\ p2.pending = r.pending /\ p2.serving = r.serving /\ p2.ignored = y
        /\ p2.amChoking = r.amChoking /\ p2.amInterested = r.amInterested
        /\ p2.peerChoking = r.peerChoking /\ p2.peerInterested = r.peerInterested
    BY <2>2, <2>4 DEF EndRecords
  <2> QED BY <2>2, <2>3, <2>5, <2>6
<1>9. Busy(p2) = Busy(ep[e])
  BY <1>3, <1>4, <1>6, <1>8 DEF Busy
<1>10. ep' \in [Endpoints -> EndRecords] /\ ep'[e] = p2 /\ ep'[d] = ep[d]
  BY <1>1, <1>2, <1>7, <1>8
<1>11. TypeOK'
  BY <1>2, <1>6, <1>10 DEF TypeOK, EndRecords
<1>12. ASSUME link = "up"
       PROVE  /\ Agree(p2, ep[d], inbox[d], inbox[e])
              /\ Agree(ep[d], p2, inbox[e], inbox[d])
  <2>1. /\ Agree(ep[e], ep[d], inbox[d], inbox[e]) /\ Agree(ep[d], ep[e], inbox[e], inbox[d])
    BY <1>0, <1>1, <1>12 DEF VInv, AgreeInv
  <2> QED BY <1>8, <1>9, <2>1 DEF Agree, Sees, Somewhere
<1>13. AgreeInv'
  BY <1>0, <1>6, <1>10, <1>12, AgreeTogether
<1> QED BY <1>11, <1>13

\* _sendMessage, for whatever it sends: an answer ends the serving of its block.
LEMMA SendAgrees ==
  ASSUME VInv, NEW e \in Endpoints, NEW m \in Messages, NEW p \in EndRecords,
         SendMessage(e, m, p),
         p.amChoking = ep[e].amChoking, p.amInterested = ep[e].amInterested,
         p.peerChoking = ep[e].peerChoking, p.peerInterested = ep[e].peerInterested,
         p.pending = ep[e].pending,
         \A k \in Busy(ep[e]) : k \in Busy(p) \/ Settles(m, k)
  PROVE  TypeOK' /\ AgreeInv'
<1>1. PICK p2 : p2 = Sent(p, m)
  OBVIOUS
<1>2. p2 \in EndRecords /\ Emits(p, m, p2) /\ Busy(p2) = Busy(p)
  BY <1>1, SentLemma
<1>3. Emits(ep[e], m, p2)
  BY <1>2 DEF Emits
<1>4. ep' = [ep EXCEPT ![e] = p2] /\ Transmit(e, m) /\ UNCHANGED <<fast, link>>
  BY <1>1 DEF SendMessage
<1> QED BY <1>2, <1>3, <1>4, EmitStep

\* What an end sends of its own accord.
LEMMA SendsAgree ==
  ASSUME VInv, NEW e \in Endpoints
  PROVE  /\ SendHandshake(e) => TypeOK' /\ AgreeInv'
         /\ \A type \in Flags \cup {"declare", "have"} : Send(e, type) => TypeOK' /\ AgreeInv'
         /\ \A k \in Blocks : SendRequest(e, k) \/ SendCancel(e, k) => TypeOK' /\ AgreeInv'
<1>1. ep[e] \in EndRecords
  BY TypeFacts DEF VInv
<1>2. ASSUME SendHandshake(e) PROVE TypeOK' /\ AgreeInv'
  <2>1. PICK m : m = Message("handshake")
    OBVIOUS
  <2>2. m \in Messages /\ m.type = "handshake"
    BY <2>1, MessageSorts DEF Message
  <2>3. PICK p2 : p2 = [ep[e] EXCEPT !.sent = TRUE]
    OBVIOUS
  <2>4. /\ p2 \in EndRecords
        /\ p2.pending = ep[e].pending /\ p2.serving = ep[e].serving
        /\ p2.ignored = ep[e].ignored
        /\ p2.amChoking = ep[e].amChoking /\ p2.amInterested = ep[e].amInterested
        /\ p2.peerChoking = ep[e].peerChoking /\ p2.peerInterested = ep[e].peerInterested
    BY <1>1, <2>3 DEF EndRecords
  <2>5. ep' = [ep EXCEPT ![e] = p2] /\ Transmit(e, m) /\ UNCHANGED <<fast, link>>
    BY <1>2, <2>1, <2>3 DEF SendHandshake
  <2>6. Emits(ep[e], m, p2)
    BY <2>2, <2>4 DEF Emits, Turns, Busy
  <2> QED BY <2>2, <2>4, <2>5, <2>6, EmitStep
<1>3. ASSUME NEW m \in Messages, SendMessage(e, m, ep[e]) PROVE TypeOK' /\ AgreeInv'
  BY <1>1, <1>3, SendAgrees
<1>4. \A type \in Flags \cup {"declare", "have"} : Send(e, type) => TypeOK' /\ AgreeInv'
  BY <1>3, MessageSorts DEF Send
<1>5. \A k \in Blocks : SendRequest(e, k) \/ SendCancel(e, k) => TypeOK' /\ AgreeInv'
  BY <1>3, MessageSorts DEF SendRequest, SendCancel, Requests
<1> QED BY <1>2, <1>4, <1>5

\* The answer of the torrent.
LEMMA AnswerAgrees ==
  ASSUME VInv, NEW e \in Endpoints, NEW k \in Blocks, NEW type \in Answers, Answer(e, type, k)
  PROVE  TypeOK' /\ AgreeInv'
<1>1. PICK m : m = BlockMessage(type, k)
  OBVIOUS
<1>2. m \in Messages /\ Settles(m, k)
  BY <1>1, MessageSorts DEF BlockMessage, Settles
<1>3. ep[e] \in EndRecords
  BY TypeFacts DEF VInv
<1>4. PICK x \in SUBSET Blocks : x = ep[e].serving \ {k}
  BY <1>3 DEF EndRecords
<1>5. PICK p : p = [ep[e] EXCEPT !.serving = x]
  OBVIOUS
<1>6. SendMessage(e, m, p)
  BY <1>1, <1>4, <1>5 DEF Answer
<1>7. /\ p \in EndRecords /\ p.serving = x /\ p.ignored = ep[e].ignored
      /\ p.amChoking = ep[e].amChoking /\ p.amInterested = ep[e].amInterested
      /\ p.peerChoking = ep[e].peerChoking /\ p.peerInterested = ep[e].peerInterested
      /\ p.pending = ep[e].pending
  BY <1>3, <1>5 DEF EndRecords
<1>8. \A b \in Busy(ep[e]) : b \in Busy(p) \/ Settles(m, b)
  BY <1>2, <1>4, <1>7 DEF Busy
<1> QED BY <1>2, <1>6, <1>7, <1>8, SendAgrees

\* _processBuffer, for one message.
LEMMA DeliverAgrees ==
  ASSUME VInv, NEW e \in Endpoints, Deliver(e)
  PROVE  TypeOK' /\ AgreeInv'
<1>1. PICK m : m = Head(inbox[e])
  OBVIOUS
<1>2. inbox[e] # <<>> /\ ep[e] \in EndRecords /\ inbox[e] \in Seq(Messages)
  BY TypeFacts DEF VInv, Deliver
<1>3. m \in Messages
  BY <1>1, <1>2, TailAt
<1>4. CASE m.type = "handshake"
  <2>1. PICK p2 : p2 = [ep[e] EXCEPT !.state = "connected"]
    OBVIOUS
  <2>2. /\ p2 \in EndRecords
        /\ p2.pending = ep[e].pending /\ p2.serving = ep[e].serving
        /\ p2.ignored = ep[e].ignored
        /\ p2.amChoking = ep[e].amChoking /\ p2.amInterested = ep[e].amInterested
        /\ p2.peerChoking = ep[e].peerChoking /\ p2.peerInterested = ep[e].peerInterested
    BY <1>2, <2>1 DEF EndRecords
  <2>3. /\ ep' = [ep EXCEPT ![e] = p2] /\ inbox' = [inbox EXCEPT ![e] = Tail(@)]
        /\ UNCHANGED <<fast, link>>
    BY <1>1, <1>4, <2>1 DEF Deliver
  <2>4. Accepts(ep[e], m, p2)
    BY <1>4, <2>2 DEF Accepts, Turns, Busy, Asks, Settles, Answers
  <2> QED BY <1>1, <1>2, <2>2, <2>3, <2>4, AcceptStep
<1>5. CASE m.type # "handshake" /\ InOrder(ep[e], m) /\ WithinLimit(ep[e], m)
  <2>1. PICK p2 : p2 = Received(ep[e], m)
    OBVIOUS
  <2>2. /\ ep' = [ep EXCEPT ![e] = p2] /\ inbox' = [inbox EXCEPT ![e] = Tail(@)]
        /\ UNCHANGED <<fast, link>>
    BY <1>1, <1>5, <2>1 DEF Deliver
  <2>3. p2 \in EndRecords /\ Accepts(ep[e], m, p2)
    BY <1>2, <1>3, <2>1, ReceivedLemma
  <2> QED BY <1>1, <1>2, <2>2, <2>3, AcceptStep
<1>6. CASE m.type # "handshake" /\ ~(InOrder(ep[e], m) /\ WithinLimit(ep[e], m))
  <2>1. PICK reason : reason = IF InOrder(ep[e], m) THEN "limit" ELSE "protocol"
    OBVIOUS
  <2>2. Terminate(e, reason)
    BY <1>1, <1>6, <2>1 DEF Deliver
  <2> QED BY <2>1, <2>2, TerminateAgrees
<1> QED BY <1>4, <1>5, <1>6

\* Both queues start empty and the two objects are alike.
LEMMA InitVInv == Init => VInv
<1> SUFFICES ASSUME Init PROVE VInv
  OBVIOUS
<1>1. /\ link = "up" /\ fast \in BOOLEAN /\ \A e \in Endpoints : ep[e] = Fresh /\ inbox[e] = <<>>
      /\ ep = [e \in Endpoints |-> Fresh]
  BY DEF Init
<1>2. Fresh \in EndRecords
  BY DEF Fresh, EndRecords, Orders
<1>3. TypeOK
  <2>1. <<>> \in Seq(Messages)
    OBVIOUS
  <2> QED BY <1>1, <1>2, <2>1, TypeFacts
<1>4. Agree(Fresh, Fresh, <<>>, <<>>)
  <2>1. /\ Fresh.peerChoking = TRUE /\ Fresh.amChoking = TRUE
        /\ Fresh.peerInterested = FALSE /\ Fresh.amInterested = FALSE /\ Fresh.pending = {}
    BY DEF Fresh
  <2>2. /\ Tracks(TRUE, <<>>, TRUE, "choke", "unchoke")
        /\ Tracks(FALSE, <<>>, FALSE, "interested", "notInterested")
    BY TracksEmpty
  <2> QED BY <2>1, <2>2 DEF Agree, Sees, Somewhere
<1>5. AgreeInv
  BY <1>1, <1>4, Ends DEF AgreeInv
<1> QED BY <1>3, <1>5, InitIInv DEF VInv

\* Every step keeps the two ends in agreement.
LEMMA NextVInv == VInv /\ [Next]_vars => VInv'
<1> SUFFICES ASSUME VInv, [Next]_vars PROVE VInv'
  OBVIOUS
<1>1. IInv'
  BY NextIInv DEF VInv
<1>2. TypeOK' /\ AgreeInv'
  <2>1. CASE UNCHANGED vars
    BY <2>1 DEF vars, VInv, TypeOK, AgreeInv
  <2>2. ASSUME NEW e \in Endpoints,
               HandshakeTimeout(e) \/ Destroy(e) \/ LinkDown(e)
        PROVE  TypeOK' /\ AgreeInv'
    BY <2>2, TerminateAgrees DEF HandshakeTimeout, Destroy, LinkDown
  <2>3. ASSUME NEW e \in Endpoints, NEW k \in Blocks, Serve(e, k) PROVE TypeOK' /\ AgreeInv'
    BY <2>3, AnswerAgrees, IgnoreAgrees DEF Serve
  <2> QED BY <2>1, <2>2, <2>3, SendsAgree, DeliverAgrees DEF Next
<1> QED BY <1>1, <1>2 DEF VInv
-----------------------------------------------------------------------------
\* What has arrived when everything on its way has: the fold goes through the messages,
\* and the flags and the order go through their traces with it.
LEMMA ArrivedLemma ==
  ASSUME NEW p \in EndRecords, NEW q \in Seq(Messages), NEW choking, NEW interested, NEW order,
         Tracks(p.peerChoking, q, choking, "choke", "unchoke"),
         Tracks(p.peerInterested, q, interested, "interested", "notInterested"),
         Replays(fast, p.remote, q, order, "up")
  PROVE  /\ FoldLeft(Arrives, p, q).peerChoking = choking
         /\ FoldLeft(Arrives, p, q).peerInterested = interested
         /\ FoldLeft(Arrives, p, q).remote = order
<1>1. PICK n \in Nat : n = Len(q) /\ DOMAIN q = 1..n /\ \A i \in 1..n : q[i] \in Messages
  OBVIOUS
<1>2. PICK c \in [1..n + 1 -> BOOLEAN] :
        /\ c[1] = p.peerChoking /\ c[n + 1] = choking
        /\ \A i \in 1..n : Turns(c[i], q[i].type, c[i + 1], "choke", "unchoke")
  BY <1>1 DEF Tracks
<1>3. PICK d \in [1..n + 1 -> BOOLEAN] :
        /\ d[1] = p.peerInterested /\ d[n + 1] = interested
        /\ \A i \in 1..n : Turns(d[i], q[i].type, d[i + 1], "interested", "notInterested")
  BY <1>1 DEF Tracks
<1>4. PICK o \in [1..n + 1 -> Orders] :
        /\ o[1] = p.remote /\ o[n + 1] = order
        /\ \A i \in 1..n : Follows(fast, o[i], q[i], o[i + 1])
  BY <1>1 DEF Replays
<1>5. PICK F : F = [x \in EndRecords \X Messages |-> Arrives(x[1], x[2])]
  OBVIOUS
<1>6. ASSUME NEW x \in EndRecords, NEW m \in Messages
      PROVE  F[<<x, m>>] = Arrives(x, m) /\ F[<<x, m>>] \in EndRecords
  <2>1. Received(x, m) \in EndRecords
    BY ReceivedLemma
  <2> QED BY <1>5, <2>1 DEF Arrives
<1>7. F \in [EndRecords \X Messages -> EndRecords]
  BY <1>5, <1>6
<1>8. PICK g \in [SUBSET (1..n) -> EndRecords] : Folds(g, F, p, q, n)
  BY <1>1, <1>7, FoldExists
<1> DEFINE Walks(w) == w = [T \in SUBSET (1..n) |->
                              IF T = {} THEN p ELSE Arrives(w[T \ {Max(T)}], q[Max(T)])]
<1>9. FoldLeft(Arrives, p, q) = (CHOOSE w : Walks(w))[1..n]
  BY <1>1 DEF FoldLeft, MapThenFoldSet
<1>10. Walks(g)
  <2>1. ASSUME NEW T \in SUBSET (1..n)
        PROVE  g[T] = IF T = {} THEN p ELSE Arrives(g[T \ {Max(T)}], q[Max(T)])
    <3>1. CASE T = {}
      BY <1>8, <3>1 DEF Folds
    <3>2. CASE T # {}
      <4>1. Max(T) \in T
        BY <3>2, MaxLemma
      <4>2. g[T \ {Max(T)}] \in EndRecords /\ q[Max(T)] \in Messages
        BY <1>1, <4>1
      <4>3. g[T] = F[<<g[T \ {Max(T)}], q[Max(T)]>>]
        BY <1>8, <3>2 DEF Folds
      <4> QED BY <1>6, <3>2, <4>2, <4>3
    <3> QED BY <3>1, <3>2
  <2>2. g = [T \in SUBSET (1..n) |-> g[T]]
    OBVIOUS
  <2> QED BY <2>1, <2>2
<1>11. PICK w : w = CHOOSE v : Walks(v)
  OBVIOUS
<1>12. Walks(w)
  <2> HIDE DEF Walks
  <2> QED BY <1>10, <1>11
<1>13. w[{}] = p /\ \A k \in 1..n : w[1..k] = Arrives(w[1..(k - 1)], q[k])
  <2>1. ASSUME NEW k \in 1..n PROVE w[1..k] = Arrives(w[1..(k - 1)], q[k])
    <3>1. /\ 1..k \in SUBSET (1..n) /\ 1..k # {} /\ Max(1..k) = k /\ (1..k) \ {k} = 1..(k - 1)
      BY PrefixLemma
    <3> QED BY <1>12, <3>1
  <2> QED BY <1>12, <2>1
<1> HIDE DEF Walks
<1> DEFINE Done(k) == /\ w[1..k] \in EndRecords
                      /\ w[1..k].peerChoking = c[k + 1]
                      /\ w[1..k].peerInterested = d[k + 1]
                      /\ w[1..k].remote = o[k + 1]
<1>14. PICK P : P = {k \in Nat : k <= n => Done(k)}
  OBVIOUS
<1>15. Done(0)
  <2>1. 1..0 = {} /\ 0 + 1 = 1
    OBVIOUS
  <2> QED BY <1>2, <1>3, <1>4, <1>13, <2>1
<1>16. ASSUME NEW k \in Nat, k + 1 <= n, Done(k) PROVE Done(k + 1)
  <2>1. k + 1 \in 1..n /\ (k + 1) - 1 = k
    BY <1>16
  <2>2. PICK u : u = w[1..k]
    OBVIOUS
  <2>3. PICK v : v = w[1..(k + 1)]
    OBVIOUS
  <2>4. PICK m \in Messages : m = q[k + 1]
    BY <1>1, <2>1
  <2>5. v = Arrives(u, m)
    BY <1>13, <2>1, <2>2, <2>3, <2>4
  <2>6. /\ u \in EndRecords /\ u.peerChoking = c[k + 1]
        /\ u.peerInterested = d[k + 1] /\ u.remote = o[k + 1]
    BY <1>16, <2>2
  <2>7. /\ Turns(u.peerChoking, m.type, c[(k + 1) + 1], "choke", "unchoke")
        /\ Turns(u.peerInterested, m.type, d[(k + 1) + 1], "interested", "notInterested")
        /\ Follows(fast, u.remote, m, o[(k + 1) + 1])
    BY <1>2, <1>3, <1>4, <2>1, <2>4, <2>6
  <2>8. /\ v \in EndRecords
        /\ Turns(u.peerChoking, m.type, v.peerChoking, "choke", "unchoke")
        /\ Turns(u.peerInterested, m.type, v.peerInterested, "interested", "notInterested")
        /\ v.remote = IF m.type = "handshake" THEN u.remote ELSE NextOrder(u.remote, m)
    <3>1. CASE m.type = "handshake"
      BY <2>5, <2>6, <3>1 DEF Arrives, Turns
    <3>2. CASE m.type # "handshake"
      <4>1. v = Received(u, m)
        BY <2>5, <3>2 DEF Arrives
      <4>2. v \in EndRecords /\ Accepts(u, m, v) /\ v.remote = NextOrder(u.remote, m)
        BY <2>6, <4>1, ReceivedLemma
      <4> QED BY <3>2, <4>2 DEF Accepts
    <3> QED BY <3>1, <3>2
  <2>9. v.remote = o[(k + 1) + 1]
    BY <2>7, <2>8 DEF Follows
  <2>10. v.peerChoking = c[(k + 1) + 1]
    BY <2>7, <2>8 DEF Turns
  <2>11. v.peerInterested = d[(k + 1) + 1]
    BY <2>7, <2>8 DEF Turns
  <2> QED BY <2>3, <2>8, <2>9, <2>10, <2>11
<1> HIDE DEF Done
<1>17. ASSUME NEW k \in Nat, k \in P PROVE k + 1 \in P
  <2>1. CASE k + 1 <= n
    <3>1. k <= n /\ Done(k)
      BY <1>14, <1>17, <2>1
    <3> QED BY <1>14, <1>16, <2>1, <3>1
  <2>2. CASE ~(k + 1 <= n)
    BY <1>14, <2>2
  <2> QED BY <2>1, <2>2
<1>18. Done(n)
  <2>1. 0 \in P
    BY <1>14, <1>15
  <2>2. n \in P /\ n <= n
    BY <2>1, <1>17, Induction
  <2> QED BY <1>14, <2>2
<1>19. FoldLeft(Arrives, p, q) = w[1..n]
  BY <1>9, <1>11
<1> QED BY <1>2, <1>3, <1>4, <1>18, <1>19 DEF Done
-----------------------------------------------------------------------------
\* Each end has the other's flags right, but for the messages on their way, and every
\* pending request is somewhere.
THEOREM AgreeInvariant == Spec => []VInv
BY InitVInv, NextVInv, PTL DEF Spec

\* TypeOK: the objects, the messages and the channel keep their types.
THEOREM WireTypeCorrect == Spec => []TypeOK
<1>1. VInv => TypeOK
  BY DEF VInv
<1> QED BY <1>1, AgreeInvariant, PTL

\* ViewsConverge: once what is in flight has arrived, each side sees the other as the
\* other sees itself.
THEOREM ViewsConvergeHolds == Spec => []ViewsConverge
<1>1. VInv => ViewsConverge
  <2> SUFFICES ASSUME VInv, link = "up", NEW e \in Endpoints, NEW d, d = Other(e)
               PROVE  /\ Arrived(e).peerChoking = ep[d].amChoking
                      /\ Arrived(e).peerInterested = ep[d].amInterested
                      /\ Arrived(e).remote = ep[d].local
    BY DEF ViewsConverge
  <2>1. ep[e] \in EndRecords /\ inbox[e] \in Seq(Messages)
    BY TypeFacts DEF VInv
  <2>2. Sees(ep[e], ep[d], inbox[e])
    BY DEF VInv, AgreeInv, Agree
  <2>3. Replays(fast, ep[e].remote, inbox[e], ep[d].local, "up")
    BY DEF VInv, IInv, InOrderInv
  <2> QED BY <2>1, <2>2, <2>3, ArrivedLemma DEF Arrived, Sees
<1> QED BY <1>1, AgreeInvariant, PTL

\* RequestsAccounted: a pending request is on its way, being served, on its way back, or
\* ignored by the peer's torrent.
THEOREM RequestsAccountedHolds == Spec => []RequestsAccounted
<1>1. VInv => RequestsAccounted
  <2> SUFFICES ASSUME VInv, link = "up", NEW e \in Endpoints, NEW d, d = Other(e),
                      NEW k \in ep[e].pending
               PROVE  k \in InFlight(d, {"request"}) \cup ep[d].serving
                            \cup InFlight(e, Answers) \cup ep[d].ignored
    BY DEF RequestsAccounted
  <2>1. Somewhere(ep[e], ep[d], inbox[d], inbox[e])
    BY DEF VInv, AgreeInv, Agree
  <2>2. CASE \E i \in 1..Len(inbox[d]) : Asks(inbox[d][i], k)
    BY <2>2 DEF InFlight, Asks
  <2>3. CASE \E j \in 1..Len(inbox[e]) : Settles(inbox[e][j], k)
    BY <2>3 DEF InFlight, Settles
  <2>4. CASE k \in Busy(ep[d])
    BY <2>4 DEF Busy
  <2> QED BY <2>1, <2>2, <2>3, <2>4 DEF Somewhere
<1> QED BY <1>1, AgreeInvariant, PTL
=============================================================================

---------------------------- MODULE SwarmProofs ----------------------------
(***************************************************************************)
(* Proofs about Swarm: no slot is left empty while an address waits, a     *)
(* live peer can be found again, and what a destroyed swarm still holds.   *)
(***************************************************************************)
EXTENDS Swarm, RecursionLemmas, FiniteSetTheorems, SequenceTheorems, TLAPS

KeySet(q) == {q[i] : i \in 1..Len(q)}

\* Entries of the map and the peers hooked under them: a peer is hooked once.
Hooked(s) ==
  /\ IsFiniteSet(Tracked(s))
  /\ \A x \in Addrs : s.peers[x] # NoPeer => s.addr[s.peers[x]] = x
  /\ \A p \in Peers : s.state[p] = "none" => s.addr[p] = NoPeer
  /\ \A o \in s.pendingOffers : s.state[o] # "none" /\ s.addr[o] = NoPeer

\* What waits in the queue is not connected yet, and waits once.
Waiting(s) ==
  /\ Len(s.queue) <= MaxQueuedPeers
  /\ \A i \in 1..Len(s.queue) : s.state[s.queue[i]] = "none"
  /\ \A i, j \in 1..Len(s.queue) : s.queue[i] = s.queue[j] => i = j

Ended(s) == s.destroyed => Tracked(s) = {} /\ s.queue = <<>>

Good(s) == s \in Swarms /\ Hooked(s) /\ Waiting(s) /\ Ended(s)

\* LiveIsTracked for one peer.
Found(s, p) ==
  s.state[p] \in Live =>
    IF s.addr[p] = NoPeer THEN p \in s.pendingOffers
    ELSE \/ s.peers[s.addr[p]] = p
         \/ \E q \in Peers \ {p} : s.addr[q] = s.addr[p]

\* SlotsAreUsed for a state of the Swarm object.
Used(s) == s.queue # <<>> /\ ~s.paused /\ ~s.destroyed => Size(s) >= MaxConns

\* What the handlers of a closed peer leave alone.
Keeps(s, t) ==
  /\ \A r \in Peers : s.state[r] # "none" => t.state[r] = s.state[r] /\ t.addr[r] = s.addr[r]
  /\ t.paused = s.paused /\ t.destroyed = s.destroyed
  /\ t.pendingOffers = s.pendingOffers /\ t.announced = s.announced

\* What start() and destroy() alone change.
SameEnd(s, t) ==
  t.destroyed = s.destroyed /\ t.pendingOffers = s.pendingOffers /\ t.announced = s.announced

-----------------------------------------------------------------------------
(***************************************************************************)
(* The fields after each primitive step                                    *)
(***************************************************************************)

\* A new peer under an address changes three fields.
LEMMA TrackFields ==
  ASSUME NEW s \in Swarms, NEW p \in Peers, NEW x \in Addrs, NEW t, t = Track(s, p, x)
  PROVE  /\ t \in Swarms
         /\ t.peers = [s.peers EXCEPT ![x] = p]
         /\ t.addr = [s.addr EXCEPT ![p] = x]
         /\ t.state = [s.state EXCEPT ![p] = IF s.state[p] = "none" THEN "connecting" ELSE @]
         /\ t.queue = s.queue /\ t.paused = s.paused /\ t.destroyed = s.destroyed
         /\ t.pendingOffers = s.pendingOffers /\ t.announced = s.announced
<1>1. PICK m \in [Addrs -> Peers \cup {NoPeer}] : m = [s.peers EXCEPT ![x] = p]
  BY DEF Swarms
<1>2. PICK a \in [Peers -> Addrs \cup {NoPeer}] : a = [s.addr EXCEPT ![p] = x]
  BY DEF Swarms
<1>3. PICK c \in [Peers -> {"none", "destroyed"} \cup Live] :
        c = [s.state EXCEPT ![p] = IF s.state[p] = "none" THEN "connecting" ELSE @]
  BY DEF Swarms, Live
<1>4. t = [s EXCEPT !.peers = m, !.addr = a, !.state = c]
  BY <1>1, <1>2, <1>3 DEF Track, Swarms
<1>5. t \in Swarms
  BY <1>4 DEF Swarms
<1>6. /\ t.peers = m /\ t.addr = a /\ t.state = c /\ t.queue = s.queue
      /\ t.paused = s.paused /\ t.destroyed = s.destroyed
      /\ t.pendingOffers = s.pendingOffers /\ t.announced = s.announced
  BY <1>4 DEF Swarms
<1> QED BY <1>1, <1>2, <1>3, <1>5, <1>6

\* A peer in its final or its next state.
LEMMA StateFields ==
  ASSUME NEW s \in Swarms, NEW p \in Peers, NEW c \in {"destroyed"} \cup Live,
         NEW t, t = [s EXCEPT !.state[p] = c]
  PROVE  /\ t \in Swarms
         /\ t.state = [s.state EXCEPT ![p] = c]
         /\ t.addr = s.addr /\ t.peers = s.peers
         /\ t.queue = s.queue /\ t.paused = s.paused /\ t.destroyed = s.destroyed
         /\ t.pendingOffers = s.pendingOffers /\ t.announced = s.announced
<1>1. PICK m \in [Peers -> {"none", "destroyed"} \cup Live] : m = [s.state EXCEPT ![p] = c]
  BY DEF Swarms, Live
<1>2. t = [s EXCEPT !.state = m]
  BY <1>1 DEF Swarms
<1>3. t \in Swarms
  BY <1>2 DEF Swarms
<1> QED BY <1>1, <1>2, <1>3 DEF Swarms

\* Another queue.
LEMMA QueueFields ==
  ASSUME NEW s \in Swarms, NEW q \in Seq(Adds), NEW t, t = [s EXCEPT !.queue = q]
  PROVE  /\ t \in Swarms /\ t.queue = q
         /\ t.addr = s.addr /\ t.peers = s.peers /\ t.state = s.state
         /\ t.paused = s.paused /\ t.destroyed = s.destroyed
         /\ t.pendingOffers = s.pendingOffers /\ t.announced = s.announced
  BY DEF Swarms

-----------------------------------------------------------------------------
(***************************************************************************)
(* Connecting and the queue                                                *)
(***************************************************************************)

\* A peer that was under no address gets one: the others stay found, and those
\* whose entry it takes share its address.
LEMMA TrackLemma ==
  ASSUME NEW s, Good(s), ~s.destroyed, NEW p \in Peers, NEW x \in Addrs,
         s.addr[p] = NoPeer, p \notin s.pendingOffers, p \notin KeySet(s.queue),
         NEW E \in SUBSET Peers, \A r \in Peers \ E : Found(s, r),
         NEW t, t = Track(s, p, x)
  PROVE  /\ Good(t) /\ Size(t) >= Size(s) /\ t.queue = s.queue
         /\ t.paused = s.paused /\ t.destroyed = s.destroyed
         /\ t.pendingOffers = s.pendingOffers /\ t.announced = s.announced
         /\ \A r \in Peers \ {p} : t.state[r] = s.state[r] /\ t.addr[r] = s.addr[r]
         /\ \A r \in (Peers \ E) \cup {p} : Found(t, r)
<1>0. NoPeer \notin Peers /\ NoPeer \notin Addrs
  BY SwarmAssumption
<1>1. s \in Swarms
  BY DEF Good
<1>2. /\ s.peers \in [Addrs -> Peers \cup {NoPeer}]
      /\ s.state \in [Peers -> {"none", "destroyed"} \cup Live]
      /\ s.addr \in [Peers -> Addrs \cup {NoPeer}]
      /\ s.queue \in Seq(Adds) /\ s.pendingOffers \subseteq Offers
  BY <1>1 DEF Swarms
<1>3. /\ t \in Swarms
      /\ t.peers = [s.peers EXCEPT ![x] = p]
      /\ t.addr = [s.addr EXCEPT ![p] = x]
      /\ t.state = [s.state EXCEPT ![p] = IF s.state[p] = "none" THEN "connecting" ELSE @]
      /\ t.queue = s.queue /\ t.paused = s.paused /\ t.destroyed = s.destroyed
      /\ t.pendingOffers = s.pendingOffers /\ t.announced = s.announced
  BY <1>1, TrackFields
<1>4. /\ t.peers[x] = p /\ \A y \in Addrs \ {x} : t.peers[y] = s.peers[y]
      /\ t.addr[p] = x /\ \A r \in Peers \ {p} : t.addr[r] = s.addr[r]
      /\ t.state[p] # "none" /\ \A r \in Peers \ {p} : t.state[r] = s.state[r]
  BY <1>2, <1>3
<1>5. Tracked(t) = Tracked(s) \cup {x}
  BY <1>0, <1>4 DEF Tracked
<1>6. IsFiniteSet(Tracked(t)) /\ Size(t) >= Size(s)
  <2>1. IsFiniteSet(Tracked(s))
    BY DEF Good, Hooked
  <2>2. IsFiniteSet(Tracked(t))
    BY <1>5, <2>1, FS_AddElement
  <2>3. Cardinality(Tracked(s)) <= Cardinality(Tracked(t))
    BY <1>5, <2>2, FS_Subset
  <2>4. Cardinality(Tracked(s)) \in Nat /\ Cardinality(Tracked(t)) \in Nat
    BY <2>1, <2>2, FS_CardinalityType
  <2>5. PICK m \in Nat, n \in Nat : m = Cardinality(Tracked(s)) /\ n = Cardinality(Tracked(t))
    BY <2>4
  <2> QED BY <2>2, <2>3, <2>5 DEF Size
<1>7. Hooked(t)
  <2>1. ASSUME NEW y \in Addrs, t.peers[y] # NoPeer PROVE t.addr[t.peers[y]] = y
    <3>1. CASE y = x
      BY <1>4, <3>1
    <3>2. CASE y # x
      <4>1. s.peers[y] # NoPeer /\ s.addr[s.peers[y]] = y /\ s.peers[y] \in Peers
        BY <1>2, <1>4, <2>1, <3>2 DEF Good, Hooked
      <4>2. s.peers[y] # p
        BY <1>0, <4>1
      <4> QED BY <1>4, <3>2, <4>1, <4>2
    <3> QED BY <3>1, <3>2
  <2>2. \A r \in Peers : t.state[r] = "none" => t.addr[r] = NoPeer
    BY <1>4 DEF Good, Hooked
  <2>3. \A o \in t.pendingOffers : t.state[o] # "none" /\ t.addr[o] = NoPeer
    <3>1. \A o \in s.pendingOffers : o \in Peers \ {p}
      BY <1>2 DEF Peers
    <3> QED BY <1>3, <1>4, <3>1 DEF Good, Hooked
  <2> QED BY <1>6, <2>1, <2>2, <2>3 DEF Hooked
<1>8. Waiting(t)
  <2>1. \A i \in 1..Len(s.queue) : s.queue[i] \in Peers \ {p}
    BY <1>2 DEF Peers, KeySet
  <2> QED BY <1>3, <1>4, <2>1 DEF Good, Waiting
<1>9. Good(t)
  BY <1>3, <1>7, <1>8 DEF Good, Ended
<1>10. ASSUME NEW r \in (Peers \ E) \cup {p} PROVE Found(t, r)
  <2>1. CASE r = p
    BY <1>0, <1>4, <2>1 DEF Found
  <2>2. CASE r # p /\ s.state[r] \in Live /\ s.addr[r] = NoPeer
    BY <1>3, <1>4, <1>10, <2>2 DEF Found
  <2>3. CASE r # p /\ s.state[r] \in Live /\ s.addr[r] # NoPeer
    <3>1. r \in Peers /\ s.addr[r] \in Addrs /\ t.addr[r] = s.addr[r]
      BY <1>2, <1>4, <1>10, <2>3
    <3>2. CASE s.addr[r] = x
      <4>1. p \in Peers \ {r} /\ t.addr[p] = t.addr[r]
        BY <1>4, <2>3, <3>1, <3>2
      <4> QED BY <3>1, <4>1, <2>3 DEF Found
    <3>3. CASE s.addr[r] # x
      <4>1. t.peers[t.addr[r]] = s.peers[s.addr[r]]
        BY <1>4, <3>1, <3>3
      <4>2. CASE s.peers[s.addr[r]] = r
        BY <2>3, <3>1, <4>1, <4>2 DEF Found
      <4>3. CASE s.peers[s.addr[r]] # r
        <5>1. PICK q \in Peers \ {r} : s.addr[q] = s.addr[r]
          BY <1>10, <2>3, <4>3 DEF Found
        <5>2. q # p /\ t.addr[q] = t.addr[r]
          BY <1>4, <2>3, <3>1, <5>1
        <5> QED BY <2>3, <3>1, <5>1, <5>2 DEF Found
      <4> QED BY <4>2, <4>3
    <3> QED BY <3>2, <3>3
  <2>4. CASE r # p /\ s.state[r] \notin Live
    BY <1>4, <1>10, <2>4 DEF Found
  <2> QED BY <2>1, <2>2, <2>3, <2>4
<1> QED BY <1>3, <1>4, <1>6, <1>9, <1>10

\* An entry is deleted on account of p, which was hooked under it: others that
\* were hooked there share the address with p.
LEMMA DeleteLemma ==
  ASSUME NEW s, Good(s), NEW p \in Peers, NEW x \in Addrs, s.addr[p] = x,
         NEW E \in SUBSET Peers, p \in E, \A r \in Peers \ E : Found(s, r),
         NEW t, t = [s EXCEPT !.peers[x] = NoPeer]
  PROVE  /\ Good(t) /\ Keeps(s, t) /\ t.queue = s.queue
         /\ \A r \in Peers \ E : Found(t, r)
<1>0. NoPeer \notin Peers /\ NoPeer \notin Addrs
  BY SwarmAssumption
<1>1. s \in Swarms
  BY DEF Good
<1>2. /\ s.peers \in [Addrs -> Peers \cup {NoPeer}]
      /\ s.addr \in [Peers -> Addrs \cup {NoPeer}]
  BY <1>1 DEF Swarms
<1>3. /\ t \in Swarms
      /\ t.peers = [s.peers EXCEPT ![x] = NoPeer]
      /\ t.addr = s.addr /\ t.state = s.state
      /\ t.queue = s.queue /\ t.paused = s.paused /\ t.destroyed = s.destroyed
      /\ t.pendingOffers = s.pendingOffers /\ t.announced = s.announced
  <2>1. PICK m \in [Addrs -> Peers \cup {NoPeer}] : m = [s.peers EXCEPT ![x] = NoPeer]
    BY <1>2
  <2>2. t = [s EXCEPT !.peers = m]
    BY <1>1, <2>1 DEF Swarms
  <2>3. t \in Swarms
    BY <1>1, <2>2 DEF Swarms
  <2> QED BY <1>1, <2>1, <2>2, <2>3 DEF Swarms
<1>4. t.peers[x] = NoPeer /\ \A y \in Addrs \ {x} : t.peers[y] = s.peers[y]
  BY <1>2, <1>3
<1>5. Tracked(t) \subseteq Tracked(s)
  BY <1>4 DEF Tracked
<1>6. IsFiniteSet(Tracked(t))
  BY <1>5, FS_Subset DEF Good, Hooked
<1>7. Hooked(t) /\ Waiting(t) /\ Ended(t)
  BY <1>3, <1>4, <1>5, <1>6 DEF Good, Hooked, Waiting, Ended
<1>8. ASSUME NEW r \in Peers \ E PROVE Found(t, r)
  <2>1. CASE s.addr[r] = x
    <3>1. p \in Peers \ {r} /\ t.addr[p] = t.addr[r]
      BY <1>3, <1>8, <2>1
    <3> QED BY <1>0, <1>3, <2>1, <3>1 DEF Found
  <2>2. CASE s.addr[r] = NoPeer
    BY <1>3, <1>8, <2>2 DEF Found
  <2>3. CASE s.addr[r] # x /\ s.addr[r] # NoPeer
    <3>1. s.addr[r] \in Addrs \ {x}
      BY <1>2, <1>8, <2>3
    <3>2. t.peers[t.addr[r]] = s.peers[s.addr[r]]
      BY <1>3, <1>4, <3>1
    <3> QED BY <1>3, <1>8, <2>3, <3>2 DEF Found
  <2> QED BY <2>1, <2>2, <2>3
<1> QED BY <1>3, <1>7, <1>8 DEF Good, Keeps

\* The first of the queue has its turn if there is a slot.
LEMMA DrainOneLemma ==
  ASSUME NEW s, Good(s), ~s.destroyed, NEW limit \in Nat,
         NEW E \in SUBSET Peers, \A r \in Peers \ E : Found(s, r),
         NEW t, t = DrainOne(s, limit)
  PROVE  /\ Good(t) /\ Keeps(s, t) /\ \A r \in Peers \ E : Found(t, r)
         /\ \/ t = s /\ (s.queue = <<>> \/ Size(s) >= limit)
            \/ Len(t.queue) + 1 = Len(s.queue)
<1>1. PICK n \in Nat : n = Len(s.queue)
  BY DEF Good, Swarms
<1>2. CASE s.queue = <<>> \/ ~(Size(s) < limit)
  <2>1. t = s
    BY <1>2 DEF DrainOne
  <2>2. PICK m \in Nat : m = Size(s)
    BY FS_CardinalityType DEF Good, Hooked, Size
  <2>3. s.queue = <<>> \/ Size(s) >= limit
    BY <1>2, <2>2
  <2> QED BY <2>1, <2>3 DEF Keeps
<1>3. CASE s.queue # <<>> /\ Size(s) < limit
  <2>1. PICK q \in Seq(Adds) : q = s.queue
    BY DEF Good, Swarms
  <2>2. PICK a \in Adds : a = Head(q)
    BY <1>3, <2>1
  <2>3. PICK w \in Seq(Adds) : w = Tail(q)
    <3>1. q # <<>>
      BY <1>3, <2>1
    <3> QED BY <3>1, HeadTailProperties
  <2>4. /\ n # 0 /\ n = Len(q) /\ Len(w) = n - 1 /\ a = q[1]
        /\ \A i \in 1..n - 1 : w[i] = q[i + 1]
    BY <1>1, <1>3, <2>1, <2>2, <2>3
  <2>5. PICK u : u = [s EXCEPT !.queue = w]
    OBVIOUS
  <2>6. /\ u \in Swarms /\ u.queue = w
        /\ u.addr = s.addr /\ u.peers = s.peers /\ u.state = s.state
        /\ u.paused = s.paused /\ u.destroyed = s.destroyed
        /\ u.pendingOffers = s.pendingOffers /\ u.announced = s.announced
    BY <2>5, QueueFields DEF Good
  <2>7. t = Connect(u, a)
    <3>1. [s EXCEPT !.queue = Tail(@)] = u
      BY <2>1, <2>3, <2>5
    <3> QED BY <1>3, <2>1, <2>2, <3>1 DEF DrainOne
  <2>8. Good(u)
    <3>1. Hooked(u)
      BY <2>6 DEF Good, Hooked, Tracked
    <3>2. Waiting(u)
      <4>1. \A i \in 1..Len(q) : s.state[q[i]] = "none"
        BY <2>1 DEF Good, Waiting
      <4>2. \A i, j \in 1..Len(q) : q[i] = q[j] => i = j
        BY <2>1 DEF Good, Waiting
      <4>3. n <= MaxQueuedPeers /\ MaxQueuedPeers \in Nat
        BY <1>1, SwarmAssumption DEF Good, Waiting
      <4>4. \A i \in 1..n - 1 : i + 1 \in 1..n
        OBVIOUS
      <4>5. Len(w) <= MaxQueuedPeers
        BY <2>4, <4>3
      <4>6. \A i \in 1..Len(w) : s.state[w[i]] = "none"
        BY <2>4, <4>1, <4>4
      <4>7. \A i, j \in 1..Len(w) : w[i] = w[j] => i = j
        BY <2>4, <4>2, <4>4
      <4> QED BY <2>6, <4>5, <4>6, <4>7 DEF Waiting
    <3>3. Ended(u)
      BY <2>6 DEF Ended
    <3> QED BY <2>6, <3>1, <3>2, <3>3 DEF Good
  <2>9. \A r \in Peers \ E : Found(u, r)
    BY <2>6 DEF Found
  <2>10. Len(u.queue) + 1 = Len(s.queue)
    BY <1>1, <2>1, <2>4, <2>6
  <2>11. CASE u.peers[AddrOf[a]] # NoPeer
    <3>1. t = u
      BY <2>7, <2>11 DEF Connect
    <3> QED BY <2>6, <2>8, <2>9, <2>10, <3>1 DEF Keeps
  <2>12. CASE u.peers[AddrOf[a]] = NoPeer
    <3>1. t = Track(u, a, AddrOf[a]) /\ a \in Peers /\ AddrOf[a] \in Addrs
      BY <2>7, <2>12 DEF Connect, Peers, Addrs
    <3>2. s.state[a] = "none"
      <4>1. 1 \in 1..Len(s.queue) /\ a = s.queue[1]
        BY <1>1, <2>1, <2>4
      <4> QED BY <4>1 DEF Good, Waiting
    <3>3. u.addr[a] = NoPeer /\ a \notin u.pendingOffers
      BY <2>6, <2>8, <3>1, <3>2 DEF Good, Hooked
    <3>4. a \notin KeySet(u.queue)
      <4>1. \A i, j \in 1..Len(q) : q[i] = q[j] => i = j
        BY <2>1 DEF Good, Waiting
      <4>2. ASSUME NEW i \in 1..n - 1 PROVE w[i] # a
        <5>1. i + 1 \in 1..n /\ 1 \in 1..n /\ i + 1 # 1
          BY <2>4
        <5> QED BY <2>4, <4>1, <5>1
      <4> QED BY <2>4, <2>6, <4>2 DEF KeySet
    <3>5. /\ Good(t) /\ t.queue = u.queue
          /\ t.paused = u.paused /\ t.destroyed = u.destroyed
          /\ t.pendingOffers = u.pendingOffers /\ t.announced = u.announced
          /\ \A r \in Peers \ {a} : t.state[r] = u.state[r] /\ t.addr[r] = u.addr[r]
          /\ \A r \in Peers \ E : Found(t, r)
      BY <2>6, <2>8, <2>9, <3>1, <3>3, <3>4, TrackLemma
    <3> QED BY <2>6, <2>10, <3>2, <3>5 DEF Keeps
  <2> QED BY <2>11, <2>12
<1> QED BY <1>2, <1>3

\* Doing one after the other.
LEMMA KeepsTwice ==
  ASSUME NEW s, NEW t, NEW u, Keeps(s, t), Keeps(t, u)
  PROVE  Keeps(s, u)
  BY DEF Keeps

\* _drain fills the slots or empties the queue.
LEMMA DrainToLemma ==
  ASSUME NEW s, Good(s), ~s.destroyed, NEW limit \in Nat,
         NEW E \in SUBSET Peers, \A r \in Peers \ E : Found(s, r),
         NEW t, t = DrainTo(s, limit)
  PROVE  /\ Good(t) /\ Keeps(s, t) /\ \A r \in Peers \ E : Found(t, r)
         /\ t.queue = <<>> \/ Size(t) >= limit
<1>1. PICK q \in Seq(Adds) : q = s.queue
  BY DEF Good, Swarms
<1>2. PICK n \in Nat : n = Len(q) /\ DOMAIN q = 1..n /\ \A i \in 1..n : q[i] \in Adds
  OBVIOUS
<1> DEFINE Fine(u) == /\ Good(u) /\ ~u.destroyed /\ Keeps(s, u)
                      /\ \A r \in Peers \ E : Found(u, r)
<1>3. PICK V : V = {u \in Swarms : Fine(u)}
  OBVIOUS
<1>4. s \in V
  BY <1>3 DEF Good, Keeps
<1>5. PICK F : F = [p \in V \X Adds |-> DrainOne(p[1], limit)]
  OBVIOUS
<1>6. ASSUME NEW v \in V, NEW a \in Adds
      PROVE  F[<<v, a>>] = DrainOne(v, limit) /\ F[<<v, a>>] \in V
  <2>1. Fine(v)
    BY <1>3
  <2>2. PICK u : u = DrainOne(v, limit)
    OBVIOUS
  <2>3. Good(u) /\ Keeps(v, u) /\ \A r \in Peers \ E : Found(u, r)
    BY <2>1, <2>2, DrainOneLemma
  <2>4. Keeps(s, u) /\ ~u.destroyed
    BY <2>1, <2>3, KeepsTwice DEF Keeps
  <2> QED BY <1>3, <1>5, <2>2, <2>3, <2>4 DEF Good
<1>7. F \in [V \X Adds -> V]
  BY <1>5, <1>6
<1>8. PICK g \in [SUBSET (1..n) -> V] : Folds(g, F, s, q, n)
  BY <1>2, <1>4, <1>7, FoldExists
<1> DEFINE Walks(w) == w = [T \in SUBSET (1..n) |->
                              IF T = {} THEN s ELSE DrainOne(w[T \ {Max(T)}], limit)]
<1>9. DrainTo(s, limit) = (CHOOSE w : Walks(w))[1..n]
  BY <1>1, <1>2 DEF DrainTo, FoldLeft, MapThenFoldSet
<1>10. Walks(g)
  <2>1. ASSUME NEW T \in SUBSET (1..n)
        PROVE  g[T] = IF T = {} THEN s ELSE DrainOne(g[T \ {Max(T)}], limit)
    <3>1. CASE T = {}
      BY <1>8, <3>1 DEF Folds
    <3>2. CASE T # {}
      <4>1. Max(T) \in T
        BY <3>2, MaxLemma
      <4>2. g[T \ {Max(T)}] \in V /\ q[Max(T)] \in Adds
        BY <1>2, <4>1
      <4>3. g[T] = F[<<g[T \ {Max(T)}], q[Max(T)]>>]
        BY <1>8, <3>2 DEF Folds
      <4> QED BY <1>6, <3>2, <4>2, <4>3
    <3> QED BY <3>1, <3>2
  <2>2. g = [T \in SUBSET (1..n) |-> g[T]]
    OBVIOUS
  <2> QED BY <2>1, <2>2
<1>11. PICK w : w = CHOOSE v : Walks(v)
  OBVIOUS
<1>12. Walks(w)
  <2> HIDE DEF Walks
  <2> QED BY <1>10, <1>11
<1>13. w[{}] = s /\ \A k \in 1..n : w[1..k] = DrainOne(w[1..(k - 1)], limit)
  <2>1. ASSUME NEW k \in 1..n PROVE w[1..k] = DrainOne(w[1..(k - 1)], limit)
    <3>1. /\ 1..k \in SUBSET (1..n) /\ 1..k # {} /\ Max(1..k) = k /\ (1..k) \ {k} = 1..(k - 1)
      BY PrefixLemma
    <3> QED BY <1>12, <3>1
  <2> QED BY <1>12, <2>1
<1> HIDE DEF Walks
<1> DEFINE Full(u, k) == u.queue = <<>> \/ Size(u) >= limit \/ Len(u.queue) + k = n
           Done(k) == Fine(w[1..k]) /\ Full(w[1..k], k)
<1>14. PICK P : P = {k \in Nat : k <= n => Done(k)}
  OBVIOUS
<1>15. Done(0)
  <2>1. 1..0 = {} /\ Fine(s) /\ n + 0 = n
    BY <1>3, <1>4
  <2> QED BY <1>1, <1>2, <1>13, <2>1
<1>16. ASSUME NEW k \in Nat, k + 1 <= n, Done(k) PROVE Done(k + 1)
  <2>1. k + 1 \in 1..n /\ (k + 1) - 1 = k
    BY <1>16
  <2>2. PICK v : v = w[1..k]
    OBVIOUS
  <2>3. PICK u : u = w[1..k + 1]
    OBVIOUS
  <2>4. u = DrainOne(v, limit) /\ Fine(v) /\ Full(v, k)
    BY <1>13, <1>16, <2>1, <2>2, <2>3
  <2>5. /\ Good(u) /\ Keeps(v, u) /\ \A r \in Peers \ E : Found(u, r)
        /\ \/ u = v /\ (v.queue = <<>> \/ Size(v) >= limit)
           \/ Len(u.queue) + 1 = Len(v.queue)
    BY <2>4, DrainOneLemma
  <2>6. Fine(u)
    BY <2>4, <2>5, KeepsTwice DEF Keeps
  <2>7. Full(u, k + 1)
    <3>1. CASE u = v /\ (v.queue = <<>> \/ Size(v) >= limit)
      BY <3>1
    <3>2. CASE u # v /\ Len(u.queue) + 1 = Len(v.queue)
      <4>0. PICK m \in Nat : m = Size(v)
        BY <2>4, FS_CardinalityType DEF Good, Hooked, Size
      <4>1. v.queue # <<>> /\ ~(Size(v) >= limit)
        <5>1. v.queue # <<>> /\ m < limit
          BY <2>4, <3>2, <4>0 DEF DrainOne
        <5> QED BY <4>0, <5>1
      <4>2. PICK i \in Nat, j \in Nat : i = Len(u.queue) /\ j = Len(v.queue)
        BY <2>4, <2>5 DEF Good, Swarms
      <4>3. j + k = n /\ i + 1 = j
        BY <2>4, <3>2, <4>1, <4>2
      <4>4. i + (k + 1) = n
        BY <4>3
      <4> QED BY <4>2, <4>4
    <3>3. CASE u = v /\ ~(v.queue = <<>> \/ Size(v) >= limit)
      <4>1. PICK j \in Nat : j = Len(v.queue)
        BY <2>4 DEF Good, Swarms
      <4>2. j + 1 = j
        BY <2>5, <3>3, <4>1
      <4> QED BY <4>2
    <3> QED BY <2>5, <3>1, <3>2, <3>3
  <2> QED BY <2>3, <2>6, <2>7
<1>17. 0 \in P /\ \A k \in Nat : k \in P => k + 1 \in P
  <2>1. ASSUME NEW k \in Nat, k \in P PROVE k + 1 \in P
    <3>1. CASE k + 1 <= n
      <4>1. k <= n
        BY <3>1
      <4>2. Done(k)
        BY <1>14, <2>1, <4>1
      <4> HIDE DEF Done
      <4> QED BY <1>14, <1>16, <3>1, <4>2
    <3>2. CASE ~(k + 1 <= n)
      BY <1>14, <3>2
    <3> QED BY <3>1, <3>2
  <2> HIDE DEF Done
  <2> QED BY <1>14, <1>15, <2>1
<1>18. Done(n)
  <2> HIDE DEF Done
  <2>1. n \in P /\ n <= n
    BY <1>17, Induction
  <2> QED BY <1>14, <2>1
<1>19. t = w[1..n]
  BY <1>9, <1>11
<1>20. t.queue = <<>> \/ Size(t) >= limit
  <2>1. CASE Len(t.queue) + n = n
    <3>1. PICK j \in Nat : j = Len(t.queue) /\ t.queue \in Seq(Adds)
      BY <1>18, <1>19 DEF Good, Swarms
    <3>2. j = 0
      BY <2>1, <3>1
    <3> QED BY <3>1, <3>2, EmptySeq
  <2> QED BY <1>18, <1>19, <2>1
<1> QED BY <1>18, <1>19, <1>20

\* After _drain no slot is empty while an address waits.
LEMMA DrainLemma ==
  ASSUME NEW s, Good(s), NEW E \in SUBSET Peers, \A r \in Peers \ E : Found(s, r),
         NEW t, t = Drain(s)
  PROVE  /\ Good(t) /\ Keeps(s, t) /\ \A r \in Peers \ E : Found(t, r)
         /\ Used(t)
<1>1. CASE s.destroyed \/ s.paused
  BY <1>1 DEF Drain, Keeps, Used
<1>2. CASE ~s.destroyed /\ ~s.paused
  <2>1. t = DrainTo(s, MaxConns) /\ MaxConns \in Nat
    BY <1>2, SwarmAssumption DEF Drain
  <2>2. /\ Good(t) /\ Keeps(s, t) /\ \A r \in Peers \ E : Found(t, r)
        /\ t.queue = <<>> \/ Size(t) >= MaxConns
    BY <1>2, <2>1, DrainToLemma
  <2> QED BY <2>2 DEF Used
<1> QED BY <1>1, <1>2

-----------------------------------------------------------------------------
(***************************************************************************)
(* Peers that close                                                        *)
(***************************************************************************)

\* The "close" and "error" handlers of p, which is accounted for elsewhere.
LEMMA OnClosedLemma ==
  ASSUME NEW s, Good(s), NEW p \in Peers,
         NEW E \in SUBSET Peers, p \in E, \A r \in Peers \ E : Found(s, r),
         NEW t, t = OnClosed(s, p)
  PROVE  /\ Good(t) /\ Keeps(s, t) /\ \A r \in Peers \ E : Found(t, r)
         /\ Used(s) => Used(t)
<1>1. CASE s.addr[p] = NoPeer
  BY <1>1 DEF OnClosed, Keeps
<1>2. CASE s.addr[p] # NoPeer
  <2>1. PICK x \in Addrs : x = s.addr[p]
    BY <1>2 DEF Good, Swarms
  <2>2. PICK u : u = [s EXCEPT !.peers[x] = NoPeer]
    OBVIOUS
  <2>3. t = Drain(u)
    BY <1>2, <2>1, <2>2 DEF OnClosed
  <2>4. Good(u) /\ Keeps(s, u) /\ \A r \in Peers \ E : Found(u, r)
    BY <2>1, <2>2, DeleteLemma
  <2>5. /\ Good(t) /\ Keeps(u, t) /\ \A r \in Peers \ E : Found(t, r)
        /\ Used(t)
    BY <2>3, <2>4, DrainLemma
  <2> QED BY <2>4, <2>5, KeepsTwice
<1> QED BY <1>1, <1>2

\* What a peer's destroy leaves of the rest.
KeepsOthers(s, t, p) ==
  /\ t.addr[p] = s.addr[p]
  /\ t.paused = s.paused /\ t.destroyed = s.destroyed
  /\ t.pendingOffers = s.pendingOffers /\ t.announced = s.announced

\* Peer.destroy: the peer is dead, the others stay found.
LEMMA DestroyPeerLemma ==
  ASSUME NEW s, Good(s), NEW p \in Peers, s.state[p] # "none",
         \A r \in Peers \ {p} : Found(s, r),
         NEW t, t = DestroyPeer(s, p)
  PROVE  /\ Good(t) /\ KeepsOthers(s, t, p)
         /\ \A r \in Peers : Found(t, r)
         /\ t.state[p] = "destroyed"
         /\ Used(s) => Used(t)
<1>1. CASE s.state[p] = "destroyed"
  <2>1. t = s /\ Found(s, p)
    BY <1>1 DEF DestroyPeer, Found, Live
  <2> QED BY <1>1, <2>1 DEF KeepsOthers
<1>2. CASE s.state[p] # "destroyed"
  <2>1. PICK c \in [Peers -> {"none", "destroyed"} \cup Live] :
          c = [s.state EXCEPT ![p] = "destroyed"]
    BY DEF Good, Swarms
  <2>2. PICK u : u = [s EXCEPT !.state = c]
    OBVIOUS
  <2>3. t = OnClosed(u, p)
    BY <1>2, <2>1, <2>2 DEF DestroyPeer, Good, Swarms
  <2>4. u \in Swarms
    BY <2>2 DEF Good, Swarms
  <2>5. /\ u.state = c /\ u.addr = s.addr /\ u.peers = s.peers
        /\ u.queue = s.queue /\ u.paused = s.paused /\ u.destroyed = s.destroyed
        /\ u.pendingOffers = s.pendingOffers /\ u.announced = s.announced
    BY <2>2 DEF Good, Swarms
  <2>6. c[p] = "destroyed" /\ \A r \in Peers \ {p} : c[r] = s.state[r]
    BY <2>1
  <2>7. Hooked(u)
    <3>1. s.pendingOffers \subseteq Peers
      BY DEF Good, Swarms, Peers
    <3> QED BY <2>5, <2>6, <3>1 DEF Good, Hooked, Tracked
  <2>8. Waiting(u)
    <3>1. \A i \in 1..Len(s.queue) : s.queue[i] \in Peers \ {p}
      <4>1. s.queue \in Seq(Adds)
        BY DEF Good, Swarms
      <4>2. \A i \in 1..Len(s.queue) : s.queue[i] \in Peers
        BY <4>1 DEF Peers
      <4> QED BY <4>2 DEF Good, Waiting
    <3> QED BY <2>5, <2>6, <3>1 DEF Good, Waiting
  <2>9. Good(u)
    BY <2>4, <2>5, <2>7, <2>8 DEF Good, Ended, Tracked
  <2>10. \A r \in Peers \ {p} : Found(u, r)
    BY <2>5, <2>6 DEF Found
  <2>11. /\ Good(t) /\ Keeps(u, t) /\ \A r \in Peers \ {p} : Found(t, r)
         /\ Used(u) => Used(t)
    BY <2>3, <2>9, <2>10, OnClosedLemma
  <2>12. t.state[p] = "destroyed" /\ t.addr[p] = s.addr[p]
    BY <2>5, <2>6, <2>11 DEF Keeps
  <2>13. Used(s) => Used(u)
    BY <2>5 DEF Used, Size, Tracked
  <2>14. Found(t, p)
    BY <2>12 DEF Found, Live
  <2> QED BY <2>5, <2>11, <2>12, <2>13, <2>14 DEF Keeps, KeepsOthers
<1> QED BY <1>1, <1>2

\* _onError.
LEMMA FailPeerLemma ==
  ASSUME NEW s, Good(s), NEW p \in Peers, s.state[p] # "none",
         \A r \in Peers : Found(s, r),
         NEW t, t = FailPeer(s, p)
  PROVE  /\ Good(t) /\ KeepsOthers(s, t, p)
         /\ \A r \in Peers : Found(t, r)
         /\ Used(s) => Used(t)
<1>1. PICK u : u = OnClosed(s, p)
  OBVIOUS
<1>2. /\ Good(u) /\ Keeps(s, u) /\ \A r \in Peers \ {p} : Found(u, r)
      /\ Used(s) => Used(u)
  BY <1>1, OnClosedLemma
<1>3. t = DestroyPeer(u, p) /\ u.state[p] # "none"
  BY <1>1, <1>2 DEF FailPeer, Keeps
<1>4. /\ Good(t) /\ KeepsOthers(u, t, p) /\ \A r \in Peers : Found(t, r)
      /\ Used(u) => Used(t)
  BY <1>2, <1>3, DestroyPeerLemma
<1> QED BY <1>2, <1>4 DEF Keeps, KeepsOthers

-----------------------------------------------------------------------------
(***************************************************************************)
(* addPeer and the peers of a tracker's response                           *)
(***************************************************************************)

\* addPeer returns a Swarm object, whatever it is called with.
LEMMA AddPeerType ==
  ASSUME NEW s \in Swarms, NEW a \in Adds
  PROVE  AddPeer(s, a) \in Swarms
<1>1. a \in Peers /\ AddrOf[a] \in Addrs
  BY DEF Peers, Addrs
<1>2. Connect(s, a) \in Swarms
  BY <1>1, TrackFields DEF Connect
<1>3. PICK q \in Seq(Adds) : q = Append(s.queue, a)
  <2>1. PICK w \in Seq(Adds) : w = s.queue
    BY DEF Swarms
  <2> QED BY <2>1, AppendProperties
<1>4. Enqueue(s, a) \in Swarms
  BY <1>3 DEF Enqueue, Swarms
<1> QED BY <1>2, <1>4 DEF AddPeer

\* An idle call of addPeer connects, waits or is dropped; the other calls stay idle.
LEMMA AddPeerLemma ==
  ASSUME NEW s, Good(s), Used(s), \A r \in Peers : Found(s, r),
         NEW a \in Adds, s.state[a] = "none", a \notin KeySet(s.queue),
         NEW t, t = AddPeer(s, a)
  PROVE  /\ Good(t) /\ Used(t) /\ \A r \in Peers : Found(t, r)
         /\ SameEnd(s, t)
         /\ \A b \in Adds \ {a} : t.state[b] = s.state[b]
         /\ \A b \in Adds \ {a} : b \notin KeySet(s.queue) => b \notin KeySet(t.queue)
<1>1. a \in Peers /\ AddrOf[a] \in Addrs /\ Adds \subseteq Peers
  BY DEF Peers, Addrs
<1>2. s.addr[a] = NoPeer /\ a \notin s.pendingOffers
  BY <1>1 DEF Good, Hooked
<1>3. PICK m \in Nat : m = Size(s)
  BY FS_CardinalityType DEF Good, Hooked, Size
<1>4. CASE t = s
  BY <1>4 DEF SameEnd
<1>5. CASE t # s /\ m < MaxConns
  <2>1. ~s.destroyed /\ ~s.paused /\ s.peers[AddrOf[a]] = NoPeer /\ t = Connect(s, a)
    BY <1>3, <1>5 DEF AddPeer
  <2>2. t = Track(s, a, AddrOf[a])
    BY <2>1 DEF Connect
  <2>3. /\ Good(t) /\ Size(t) >= Size(s) /\ t.queue = s.queue
        /\ t.paused = s.paused /\ t.destroyed = s.destroyed
        /\ t.pendingOffers = s.pendingOffers /\ t.announced = s.announced
        /\ \A r \in Peers \ {a} : t.state[r] = s.state[r] /\ t.addr[r] = s.addr[r]
        /\ \A r \in Peers : Found(t, r)
    <3>1. PICK E \in SUBSET Peers : E = {}
      OBVIOUS
    <3>2. \A r \in Peers \ E : Found(s, r)
      OBVIOUS
    <3>3. /\ Good(t) /\ Size(t) >= Size(s) /\ t.queue = s.queue
          /\ t.paused = s.paused /\ t.destroyed = s.destroyed
          /\ t.pendingOffers = s.pendingOffers /\ t.announced = s.announced
          /\ \A r \in Peers \ {a} : t.state[r] = s.state[r] /\ t.addr[r] = s.addr[r]
          /\ \A r \in (Peers \ E) \cup {a} : Found(t, r)
      BY <1>1, <1>2, <2>1, <2>2, <3>2, TrackLemma
    <3> QED BY <3>1, <3>3
  <2>4. MaxConns \in Nat /\ ~(m >= MaxConns)
    BY <1>5, SwarmAssumption
  <2>5. s.queue = <<>>
    BY <1>3, <2>1, <2>4 DEF Used
  <2> QED BY <1>1, <2>3, <2>5 DEF Used, SameEnd
<1>6. CASE t # s /\ ~(m < MaxConns)
  <2>1. /\ ~s.destroyed /\ ~s.paused /\ s.peers[AddrOf[a]] = NoPeer
        /\ Len(s.queue) < MaxQueuedPeers /\ t = Enqueue(s, a)
    BY <1>3, <1>6 DEF AddPeer
  <2>2. PICK q \in Seq(Adds) : q = s.queue
    BY DEF Good, Swarms
  <2>3. PICK n \in Nat : n = Len(q)
    OBVIOUS
  <2>4. PICK w \in Seq(Adds) : w = Append(q, a)
    BY AppendProperties
  <2>5. /\ Len(w) = n + 1 /\ w[n + 1] = a /\ \A i \in 1..n : w[i] = q[i]
        /\ \A i \in 1..n + 1 : i = n + 1 \/ i \in 1..n
    BY <2>3, <2>4
  <2>6. t = [s EXCEPT !.queue = w]
    BY <2>1, <2>2, <2>4 DEF Enqueue
  <2>7. /\ t \in Swarms /\ t.queue = w
        /\ t.addr = s.addr /\ t.peers = s.peers /\ t.state = s.state
        /\ t.paused = s.paused /\ t.destroyed = s.destroyed
        /\ t.pendingOffers = s.pendingOffers /\ t.announced = s.announced
    BY <2>6, QueueFields DEF Good
  <2>8. /\ \A i \in 1..n : s.state[q[i]] = "none" /\ q[i] # a
        /\ \A i, j \in 1..n : q[i] = q[j] => i = j
    BY <2>2, <2>3 DEF Good, Waiting, KeySet
  <2>9. Waiting(t)
    <3>1. Len(w) <= MaxQueuedPeers
      BY <2>1, <2>2, <2>3, <2>5, SwarmAssumption
    <3>2. \A i \in 1..Len(w) : s.state[w[i]] = "none"
      BY <2>5, <2>8
    <3>3. ASSUME NEW i \in 1..Len(w), NEW j \in 1..Len(w), w[i] = w[j] PROVE i = j
      <4>1. CASE i = n + 1 /\ j = n + 1
        BY <4>1
      <4>2. CASE i \in 1..n /\ j \in 1..n
        BY <2>5, <2>8, <3>3, <4>2
      <4>3. CASE i = n + 1 /\ j \in 1..n
        BY <2>5, <2>8, <3>3, <4>3
      <4>4. CASE i \in 1..n /\ j = n + 1
        BY <2>5, <2>8, <3>3, <4>4
      <4> QED BY <2>5, <4>1, <4>2, <4>3, <4>4
    <3> QED BY <2>7, <3>1, <3>2, <3>3 DEF Waiting
  <2>10. Good(t)
    BY <2>1, <2>7, <2>9 DEF Good, Hooked, Tracked, Ended
  <2>11. Used(t)
    <3>1. m >= MaxConns
      BY <1>6, SwarmAssumption
    <3> QED BY <1>3, <2>7, <3>1 DEF Used, Size, Tracked
  <2>12. \A r \in Peers : Found(t, r)
    BY <2>7 DEF Found
  <2>13. ASSUME NEW b \in Adds \ {a}, b \notin KeySet(s.queue) PROVE b \notin KeySet(t.queue)
    BY <2>2, <2>3, <2>5, <2>7, <2>13 DEF KeySet
  <2> QED BY <2>7, <2>10, <2>11, <2>12, <2>13 DEF SameEnd
<1> QED BY <1>4, <1>5, <1>6

\* _onTrackerResponse: the calls of one response, one after the other.
LEMMA AddAllLemma ==
  ASSUME NEW s, Good(s), Used(s), \A r \in Peers : Found(s, r),
         NEW q \in Seq(Adds),
         \A i \in 1..Len(q) : s.state[q[i]] = "none" /\ q[i] \notin KeySet(s.queue),
         \A i, j \in 1..Len(q) : q[i] = q[j] => i = j,
         NEW t, t = FoldLeft(AddPeer, s, q)
  PROVE  /\ Good(t) /\ Used(t) /\ \A r \in Peers : Found(t, r)
         /\ SameEnd(s, t)
<1>1. PICK n \in Nat : n = Len(q) /\ DOMAIN q = 1..n /\ \A i \in 1..n : q[i] \in Adds
  OBVIOUS
<1>2. s \in Swarms
  BY DEF Good
<1>3. PICK F : F = [p \in Swarms \X Adds |-> AddPeer(p[1], p[2])]
  OBVIOUS
<1>4. ASSUME NEW v \in Swarms, NEW a \in Adds
      PROVE  F[<<v, a>>] = AddPeer(v, a) /\ F[<<v, a>>] \in Swarms
  BY <1>3, AddPeerType
<1>5. F \in [Swarms \X Adds -> Swarms]
  BY <1>3, <1>4
<1>6. PICK g \in [SUBSET (1..n) -> Swarms] : Folds(g, F, s, q, n)
  BY <1>1, <1>2, <1>5, FoldExists
<1> DEFINE Walks(w) == w = [T \in SUBSET (1..n) |->
                              IF T = {} THEN s ELSE AddPeer(w[T \ {Max(T)}], q[Max(T)])]
<1>7. FoldLeft(AddPeer, s, q) = (CHOOSE w : Walks(w))[1..n]
  BY <1>1 DEF FoldLeft, MapThenFoldSet
<1>8. Walks(g)
  <2>1. ASSUME NEW T \in SUBSET (1..n)
        PROVE  g[T] = IF T = {} THEN s ELSE AddPeer(g[T \ {Max(T)}], q[Max(T)])
    <3>1. CASE T = {}
      BY <1>6, <3>1 DEF Folds
    <3>2. CASE T # {}
      <4>1. Max(T) \in T
        BY <3>2, MaxLemma
      <4>2. g[T \ {Max(T)}] \in Swarms /\ q[Max(T)] \in Adds
        BY <1>1, <4>1
      <4>3. g[T] = F[<<g[T \ {Max(T)}], q[Max(T)]>>]
        BY <1>6, <3>2 DEF Folds
      <4> QED BY <1>4, <3>2, <4>2, <4>3
    <3> QED BY <3>1, <3>2
  <2>2. g = [T \in SUBSET (1..n) |-> g[T]]
    OBVIOUS
  <2> QED BY <2>1, <2>2
<1>9. PICK w : w = CHOOSE v : Walks(v)
  OBVIOUS
<1>10. Walks(w)
  <2> HIDE DEF Walks
  <2> QED BY <1>8, <1>9
<1>11. w[{}] = s /\ \A k \in 1..n : w[1..k] = AddPeer(w[1..(k - 1)], q[k])
  <2>1. ASSUME NEW k \in 1..n PROVE w[1..k] = AddPeer(w[1..(k - 1)], q[k])
    <3>1. /\ 1..k \in SUBSET (1..n) /\ 1..k # {} /\ Max(1..k) = k /\ (1..k) \ {k} = 1..(k - 1)
      BY PrefixLemma
    <3>2. w[1..k] = AddPeer(w[(1..k) \ {Max(1..k)}], q[Max(1..k)])
      BY <1>10, <3>1
    <3> QED BY <3>1, <3>2
  <2> QED BY <1>10, <2>1
<1> HIDE DEF Walks
<1> DEFINE Fine(u) == /\ Good(u) /\ Used(u) /\ \A r \in Peers : Found(u, r)
                      /\ SameEnd(s, u)
           Left(u, k) == \A i \in k + 1..n : u.state[q[i]] = "none" /\ q[i] \notin KeySet(u.queue)
           Done(k) == Fine(w[1..k]) /\ Left(w[1..k], k)
<1>12. PICK P : P = {k \in Nat : k <= n => Done(k)}
  OBVIOUS
<1>13. Done(0)
  <2>1. 1..0 = {} /\ 0 + 1 = 1
    OBVIOUS
  <2> QED BY <1>1, <1>11, <2>1 DEF SameEnd
<1>14. ASSUME NEW k \in Nat, k + 1 <= n, Done(k) PROVE Done(k + 1)
  <2>1. k + 1 \in 1..n /\ (k + 1) - 1 = k
    BY <1>14
  <2>2. PICK v : v = w[1..k]
    OBVIOUS
  <2>3. PICK u : u = w[1..k + 1]
    OBVIOUS
  <2>4. PICK a \in Adds : a = q[k + 1]
    BY <1>1, <2>1
  <2>5. u = AddPeer(v, a) /\ Fine(v) /\ Left(v, k)
    BY <1>11, <1>14, <2>1, <2>2, <2>3, <2>4
  <2>6. v.state[a] = "none" /\ a \notin KeySet(v.queue)
    BY <2>1, <2>4, <2>5
  <2>7. /\ Good(u) /\ Used(u) /\ \A r \in Peers : Found(u, r)
        /\ SameEnd(v, u)
        /\ \A b \in Adds \ {a} : u.state[b] = v.state[b]
        /\ \A b \in Adds \ {a} : b \notin KeySet(v.queue) => b \notin KeySet(u.queue)
    BY <2>5, <2>6, AddPeerLemma
  <2>8. ASSUME NEW i \in (k + 1) + 1..n
        PROVE  u.state[q[i]] = "none" /\ q[i] \notin KeySet(u.queue)
    <3>1. i \in 1..n /\ i \in k + 1..n /\ i # k + 1
      OBVIOUS
    <3>2. q[i] \in Adds \ {a}
      BY <1>1, <2>1, <2>4, <3>1
    <3> QED BY <2>5, <2>7, <3>1, <3>2
  <2> QED BY <2>3, <2>5, <2>7, <2>8 DEF SameEnd
<1>15. 0 \in P /\ \A k \in Nat : k \in P => k + 1 \in P
  <2>1. ASSUME NEW k \in Nat, k \in P PROVE k + 1 \in P
    <3>1. CASE k + 1 <= n
      <4>1. k <= n
        BY <3>1
      <4> HIDE DEF Done
      <4>2. Done(k)
        BY <1>12, <2>1, <4>1
      <4> QED BY <1>12, <1>14, <3>1, <4>2
    <3>2. CASE ~(k + 1 <= n)
      BY <1>12, <3>2
    <3> QED BY <3>1, <3>2
  <2> HIDE DEF Done
  <2> QED BY <1>12, <1>13, <2>1
<1>16. Done(n)
  <2> HIDE DEF Done
  <2>1. n \in P /\ n <= n
    BY <1>15, Induction
  <2> QED BY <1>12, <2>1
<1> QED BY <1>7, <1>9, <1>16

-----------------------------------------------------------------------------
(***************************************************************************)
(* The invariant and its preservation                                      *)
(***************************************************************************)

\* The Swarm object between two events.
Sound(s) == Good(s) /\ Used(s) /\ \A r \in Peers : Found(s, r)

\* Where start() is among the trackers.
Turn ==
  /\ start \in {"idle", "offers", "response", "done"}
  /\ start = "idle" => swarm.announced = 0
  /\ start \in {"offers", "response"} => swarm.announced <= Len(Trackers)

\* What start() put among the offers since the swarm was destroyed.
Late ==
  /\ destroyedAt \in 0..Len(Trackers) + 1
  /\ swarm.destroyed =>
       /\ destroyedAt <= swarm.announced
       /\ Cardinality(swarm.pendingOffers) <= OffersPerAnnounce * Cardinality(WsSince)

IInv == Sound(swarm) /\ Turn /\ Late

\* A step that leaves start() where it is.
LEMMA BecomesLemma ==
  ASSUME Turn, Late, NEW t, Sound(t), t.announced = swarm.announced, Becomes(t),
         t.destroyed => SameEnd(swarm, t)
  PROVE  IInv'
<1>1. swarm' = t /\ start' = start /\ destroyedAt' = destroyedAt
  BY DEF Becomes
<1>2. Sound(swarm)'
  BY <1>1 DEF Sound, Good, Used, Found, Hooked, Waiting, Ended, Tracked, Size
<1>3. Late'
  BY <1>1 DEF Late, WsSince, SameEnd
<1> QED BY <1>1, <1>2, <1>3 DEF IInv, Turn

\* The next tracker: the offers it gets are new peers that wait for an answer.
LEMMA ToTrackerLemma ==
  ASSUME Late, NEW s, Sound(s), SameEnd(swarm, s), s.announced <= Len(Trackers), ToTracker(s)
  PROVE  IInv'
<1>1. PICK i : i = s.announced + 1
  OBVIOUS
<1>2. PICK n \in Nat : n = Len(Trackers)
  BY SwarmAssumption
<1>3. i \in 0..n + 1 /\ s \in Swarms
  <2>1. s.announced \in 0..n + 1 /\ s \in Swarms
    BY <1>2 DEF Sound, Good, Swarms
  <2> QED BY <1>1, <1>2, <2>1
<1>4. PICK O \in SUBSET {o \in Offers : s.state[o] = "none"} :
        /\ IF i <= Len(Trackers) /\ Trackers[i] = "ws" /\ Size(s) < MaxConns
           THEN Cardinality(O) = Smaller(MaxConns - Size(s), OffersPerAnnounce)
           ELSE O = {}
        /\ swarm' = NewOffers([s EXCEPT !.announced = i], O)
  BY <1>1 DEF ToTracker
<1>5. start' = IF i > n THEN "done" ELSE IF Trackers[i] = "ws" THEN "offers" ELSE "response"
  BY <1>1, <1>2 DEF ToTracker
<1>6. PICK t : t = swarm'
  OBVIOUS
<1>7. PICK c \in [Peers -> {"none", "destroyed"} \cup Live] :
        c = [p \in Peers |-> IF p \in O THEN "connecting" ELSE s.state[p]]
  <2>1. s.state \in [Peers -> {"none", "destroyed"} \cup Live]
    BY <1>3 DEF Swarms
  <2>2. [p \in Peers |-> IF p \in O THEN "connecting" ELSE s.state[p]]
          \in [Peers -> {"none", "destroyed"} \cup Live]
    BY <2>1 DEF Live
  <2> QED BY <2>2
<1>8. PICK f \in SUBSET Offers : f = s.pendingOffers \cup O
  BY <1>3 DEF Swarms
<1>9. t = [s EXCEPT !.announced = i, !.pendingOffers = f, !.state = c]
  BY <1>3, <1>4, <1>6, <1>7, <1>8 DEF NewOffers, Swarms
<1>10. t \in Swarms
  BY <1>2, <1>3, <1>9 DEF Swarms
<1>11. /\ t.state = c /\ t.addr = s.addr /\ t.peers = s.peers
       /\ t.queue = s.queue /\ t.paused = s.paused /\ t.destroyed = s.destroyed
       /\ t.pendingOffers = f /\ t.announced = i
  BY <1>3, <1>9 DEF Swarms
<1>12. O \subseteq Peers /\ O \cap Adds = {} /\ Offers \subseteq Peers
  BY SwarmAssumption DEF Peers
<1>13. /\ \A o \in O : s.state[o] = "none" /\ s.addr[o] = NoPeer /\ c[o] = "connecting"
       /\ \A p \in Peers \ O : c[p] = s.state[p]
       /\ \A p \in Peers : c[p] = "none" => s.state[p] = "none"
  BY <1>7, <1>12 DEF Sound, Good, Hooked
<1>14. Hooked(t)
  <2>1. \A o \in f : c[o] # "none" /\ s.addr[o] = NoPeer
    BY <1>8, <1>12, <1>13 DEF Sound, Good, Hooked
  <2> QED BY <1>11, <1>13, <2>1 DEF Sound, Good, Hooked, Tracked
<1>15. Waiting(t)
  <2>1. \A j \in 1..Len(s.queue) : s.queue[j] \in Peers \ O
    <3>1. s.queue \in Seq(Adds)
      BY <1>3 DEF Swarms
    <3>2. \A j \in 1..Len(s.queue) : s.queue[j] \in Adds
      BY <3>1
    <3> QED BY <1>12, <3>2 DEF Peers
  <2> QED BY <1>11, <1>13, <2>1 DEF Sound, Good, Waiting
<1>16. Good(t) /\ Used(t)
  BY <1>10, <1>11, <1>14, <1>15 DEF Sound, Good, Used, Ended, Tracked, Size
<1>17. ASSUME NEW r \in Peers PROVE Found(t, r)
  <2>1. CASE r \in O
    BY <1>8, <1>11, <1>13, <2>1 DEF Found
  <2>2. CASE r \notin O
    BY <1>8, <1>11, <1>13, <2>2 DEF Sound, Found
  <2> QED BY <2>1, <2>2
<1>18. Sound(swarm)'
  BY <1>6, <1>16, <1>17 DEF Sound, Good, Used, Found, Hooked, Waiting, Ended, Tracked, Size
<1>19. Turn'
  <2>1. swarm'.announced = i
    BY <1>6, <1>11
  <2>2. start' \in {"offers", "response"} => i <= n
    BY <1>3, <1>5
  <2>3. start' \in {"idle", "offers", "response", "done"} /\ start' # "idle"
    BY <1>5
  <2> QED BY <1>2, <2>1, <2>2, <2>3 DEF Turn
<1>20. Late'
  <2>1. destroyedAt' = destroyedAt
    BY DEF ToTracker
  <2>2. PICK d \in 0..n + 1 : d = destroyedAt
    BY <1>2 DEF Late
  <2>3. CASE ~s.destroyed
    BY <1>6, <1>11, <2>1, <2>3 DEF Late
  <2>4. CASE s.destroyed
    <3>1. d <= s.announced /\ d <= i /\ s.announced \in 0..n
      <4>1. d <= s.announced
        BY <2>2, <2>4 DEF Late, SameEnd
      <4>2. PICK a \in 0..n : a = s.announced
        BY <1>2, <1>3 DEF Swarms
      <4> QED BY <1>1, <4>1, <4>2
    <3>2. PICK W : W = {j \in d + 1..s.announced : j <= n /\ Trackers[j] = "ws"}
      OBVIOUS
    <3>3. PICK V : V = {j \in d + 1..i : j <= n /\ Trackers[j] = "ws"}
      OBVIOUS
    <3>4. W = WsSince /\ V = WsSince'
      BY <1>2, <1>6, <1>11, <2>1, <2>2, <3>2, <3>3 DEF WsSince, SameEnd
    <3>5. V = W \cup (IF i <= n /\ Trackers[i] = "ws" THEN {i} ELSE {}) /\ i \notin W
      BY <1>1, <3>1, <3>2, <3>3
    <3>6. IsFiniteSet(W) /\ Cardinality(W) \in Nat
      <4>1. PICK l \in Int, h \in Int : l = d + 1 /\ h = s.announced
        BY <3>1
      <4>2. IsFiniteSet(l..h) /\ W \subseteq l..h
        BY <3>2, <4>1, FS_Interval
      <4> QED BY <4>2, FS_Subset, FS_CardinalityType
    <3>7. IsFiniteSet(O) /\ IsFiniteSet(s.pendingOffers)
      <4>1. IsFiniteSet(Offers)
        BY SwarmAssumption, FS_Subset DEF Peers
      <4> QED BY <1>3, <4>1, FS_Subset DEF Swarms
    <3>8. PICK w \in Nat, k \in Nat, a \in Nat, b \in Nat :
            /\ w = Cardinality(W) /\ k = OffersPerAnnounce
            /\ a = Cardinality(s.pendingOffers) /\ b = Cardinality(O)
      BY <3>6, <3>7, FS_CardinalityType, SwarmAssumption
    <3>9. a <= k * w
      BY <2>4, <3>4, <3>8 DEF Late, SameEnd
    <3>10. Cardinality(f) <= a + b
      <4>1. s.pendingOffers \cap O = {}
        BY <1>12, <1>13 DEF Sound, Good, Hooked
      <4>2. Cardinality(f) = a + b - Cardinality(s.pendingOffers \cap O)
        BY <1>8, <3>7, <3>8, FS_Union
      <4>3. Cardinality(s.pendingOffers \cap O) = 0
        BY <4>1, FS_EmptySet
      <4> QED BY <4>2, <4>3
    <3>11. PICK c1 \in Nat : c1 = Cardinality(f)
      BY <1>8, <3>7, FS_Union, FS_CardinalityType
    <3>12. CASE i <= n /\ Trackers[i] = "ws"
      <4>1. Cardinality(V) = w + 1
        BY <3>5, <3>6, <3>8, <3>12, FS_AddElement
      <4>2. b <= k
        <5>1. CASE Size(s) < MaxConns
          <6>1. PICK e \in Nat : e = Size(s)
            BY FS_CardinalityType DEF Sound, Good, Hooked, Size
          <6>2. b = Smaller(MaxConns - e, k) /\ MaxConns \in Nat
            BY <1>2, <1>4, <3>8, <3>12, <5>1, <6>1, SwarmAssumption
          <6> QED BY <6>2 DEF Smaller
        <5>2. CASE ~(Size(s) < MaxConns)
          <6>1. O = {}
            BY <1>4, <5>2
          <6>2. b = 0
            BY <3>8, <6>1, FS_EmptySet
          <6> QED BY <6>2
        <5> QED BY <5>1, <5>2
      <4>3. k * (w + 1) = k * w + k
        OBVIOUS
      <4>4. k * w \in Nat
        OBVIOUS
      <4>5. c1 <= k * (w + 1)
        BY <3>9, <3>10, <3>11, <4>2, <4>3, <4>4
      <4> QED BY <1>6, <1>11, <2>1, <2>2, <3>1, <3>4, <3>8, <3>11, <4>1, <4>5 DEF Late
    <3>13. CASE ~(i <= n /\ Trackers[i] = "ws")
      <4>1. O = {} /\ V = W
        BY <1>2, <1>4, <3>5, <3>13
      <4> QED BY <1>6, <1>8, <1>11, <2>1, <2>2, <3>1, <3>4, <3>8, <3>9, <4>1 DEF Late
    <3> QED BY <3>12, <3>13
  <2> QED BY <2>3, <2>4
<1> QED BY <1>18, <1>19, <1>20 DEF IInv

\* The initial state.
LEMMA InitHolds == Init => IInv
<1> SUFFICES ASSUME Init PROVE IInv
  OBVIOUS
<1>0. NoPeer \notin Peers /\ NoPeer \notin Addrs /\ Trackers \in Seq({"ws", "http"})
      /\ MaxQueuedPeers \in Nat
  BY SwarmAssumption
<1>1. /\ swarm.peers = [x \in Addrs |-> NoPeer] /\ swarm.pendingOffers = {}
      /\ swarm.queue = <<>> /\ swarm.paused = FALSE /\ swarm.destroyed = FALSE
      /\ swarm.state = [p \in Peers |-> "none"] /\ swarm.addr = [p \in Peers |-> NoPeer]
      /\ swarm.announced = 0 /\ start = "idle" /\ destroyedAt = 0
  BY DEF Init
<1>2. swarm \in Swarms
  <2>1. 0 \in 0..Len(Trackers) + 1 /\ <<>> \in Seq(Adds)
    BY <1>0
  <2> QED BY <2>1 DEF Init, Swarms
<1>3. Tracked(swarm) = {}
  BY <1>1 DEF Tracked
<1>4. Hooked(swarm)
  BY <1>1, <1>3, FS_EmptySet DEF Hooked
<1>5. Waiting(swarm)
  BY <1>0, <1>1 DEF Waiting
<1>6. \A r \in Peers : Found(swarm, r)
  BY <1>1 DEF Found, Live
<1>7. Sound(swarm)
  BY <1>1, <1>2, <1>4, <1>5, <1>6 DEF Sound, Good, Used, Ended
<1>8. Late
  <2>1. 0 \in 0..Len(Trackers) + 1
    BY <1>0
  <2> QED BY <1>1, <2>1 DEF Late
<1> QED BY <1>1, <1>7, <1>8 DEF IInv, Turn

\* An answer: the offer gets the slot of the peer that answers.
LEMMA AnswerLemma ==
  ASSUME IInv, NEW o \in Offers, NEW id \in Ids, OnAnswer(o, id)
  PROVE  IInv'
<1>1. PICK s : s = swarm
  OBVIOUS
<1>2. Sound(s) /\ s \in Swarms /\ ~s.destroyed /\ o \in s.pendingOffers
  BY <1>1 DEF IInv, Sound, Good, OnAnswer, Listening
<1>3. PICK f \in SUBSET Offers : f = s.pendingOffers \ {o}
  BY <1>2 DEF Swarms
<1>4. PICK u : u = [s EXCEPT !.pendingOffers = f]
  OBVIOUS
<1>5. PICK t : t = Track(u, o, id)
  OBVIOUS
<1>6. Becomes(t)
  BY <1>1, <1>3, <1>4, <1>5 DEF OnAnswer
<1>7. /\ u \in Swarms /\ u.pendingOffers = f
      /\ u.state = s.state /\ u.addr = s.addr /\ u.peers = s.peers
      /\ u.queue = s.queue /\ u.paused = s.paused /\ u.destroyed = s.destroyed
      /\ u.announced = s.announced
  BY <1>2, <1>4 DEF Swarms
<1>8. Good(u) /\ Used(u)
  BY <1>2, <1>3, <1>7
  DEF Sound, Good, Used, Hooked, Waiting, Ended, Tracked, Size
<1>9. o \in Peers /\ id \in Addrs
  BY DEF Peers, Addrs
<1>10. PICK E \in SUBSET Peers : E = {o} /\ \A r \in Peers \ E : Found(u, r)
  <2>1. \A r \in Peers \ {o} : Found(u, r)
    BY <1>2, <1>3, <1>7 DEF Sound, Found
  <2> QED BY <1>9, <2>1
<1>11. ~u.destroyed /\ u.addr[o] = NoPeer /\ o \notin u.pendingOffers
  BY <1>2, <1>3, <1>7 DEF Sound, Good, Hooked
<1>12. o \notin KeySet(u.queue)
  <2>1. s.state[o] # "none"
    BY <1>2 DEF Sound, Good, Hooked
  <2>2. \A i \in 1..Len(s.queue) : s.state[s.queue[i]] = "none"
    BY <1>2 DEF Sound, Good, Waiting
  <2> QED BY <1>7, <2>1, <2>2 DEF KeySet
<1>13. /\ Good(t) /\ Size(t) >= Size(u) /\ t.queue = u.queue
       /\ t.paused = u.paused /\ t.destroyed = u.destroyed
       /\ t.pendingOffers = u.pendingOffers /\ t.announced = u.announced
       /\ \A r \in (Peers \ E) \cup {o} : Found(t, r)
  BY <1>5, <1>8, <1>9, <1>10, <1>11, <1>12, TrackLemma
<1>14. Used(t)
  <2>1. PICK m \in Nat, n \in Nat : m = Size(t) /\ n = Size(u)
    BY <1>8, <1>13, FS_CardinalityType DEF Good, Hooked, Size
  <2>2. m >= n /\ MaxConns \in Nat
    BY <1>13, <2>1, SwarmAssumption
  <2> QED BY <1>8, <1>13, <2>1, <2>2 DEF Used
<1>15. Sound(t)
  BY <1>10, <1>13, <1>14 DEF Sound
<1>16. ~t.destroyed
  BY <1>2, <1>7, <1>13
<1> QED BY <1>1, <1>6, <1>7, <1>13, <1>15, <1>16, BecomesLemma DEF IInv

\* An offer of a remote peer takes a slot, queue or not.
LEMMA OfferLemma ==
  ASSUME IInv, NEW o \in Inbound, NEW id \in Ids, OnOffer(o, id)
  PROVE  IInv'
<1>1. PICK s : s = swarm
  OBVIOUS
<1>2. PICK t : t = Track(s, o, id)
  OBVIOUS
<1>3. /\ Sound(s) /\ ~s.destroyed /\ s.state[o] = "none" /\ Becomes(t)
  BY <1>1, <1>2 DEF IInv, OnOffer, Listening
<1>4. o \in Peers /\ id \in Addrs /\ o \notin Adds
  BY SwarmAssumption DEF Peers, Addrs
<1>5. s.addr[o] = NoPeer /\ o \notin s.pendingOffers
  BY <1>3, <1>4 DEF Sound, Good, Hooked
<1>6. o \notin KeySet(s.queue)
  <2>1. s.queue \in Seq(Adds)
    BY <1>3 DEF Sound, Good, Swarms
  <2> QED BY <1>4, <2>1 DEF KeySet
<1>7. PICK E \in SUBSET Peers : E = {}
  OBVIOUS
<1>8. \A r \in Peers \ E : Found(s, r)
  BY <1>3 DEF Sound
<1>9. /\ Good(t) /\ Size(t) >= Size(s) /\ t.queue = s.queue
      /\ t.paused = s.paused /\ t.destroyed = s.destroyed
      /\ t.pendingOffers = s.pendingOffers /\ t.announced = s.announced
      /\ \A r \in (Peers \ E) \cup {o} : Found(t, r)
  BY <1>2, <1>3, <1>4, <1>5, <1>6, <1>8, TrackLemma DEF Sound
<1>10. Used(t)
  <2>1. PICK m \in Nat, n \in Nat : m = Size(t) /\ n = Size(s)
    BY <1>3, <1>9, FS_CardinalityType DEF Sound, Good, Hooked, Size
  <2>2. m >= n /\ MaxConns \in Nat
    BY <1>9, <2>1, SwarmAssumption
  <2> QED BY <1>3, <1>9, <2>1, <2>2 DEF Sound, Used
<1>11. Sound(t)
  BY <1>7, <1>9, <1>10 DEF Sound
<1>12. SameEnd(swarm, t)
  BY <1>1, <1>9 DEF SameEnd
<1> QED BY <1>1, <1>3, <1>9, <1>11, <1>12, BecomesLemma DEF IInv

\* removePeer.
LEMMA RemoveLemma ==
  ASSUME IInv, NEW x \in Addrs, RemovePeer(x)
  PROVE  IInv'
<1>1. PICK s : s = swarm
  OBVIOUS
<1>2. Sound(s) /\ s.peers[x] # NoPeer
  BY <1>1 DEF IInv, RemovePeer
<1>3. PICK p \in Peers : p = s.peers[x]
  BY <1>2 DEF Sound, Good, Swarms
<1>4. s.addr[p] = x /\ s.state[p] # "none"
  <2>1. s.addr[p] = x
    BY <1>2, <1>3 DEF Sound, Good, Hooked
  <2>2. x # NoPeer
    BY SwarmAssumption
  <2> QED BY <1>2, <2>1, <2>2 DEF Sound, Good, Hooked
<1>5. PICK u : u = DestroyPeer(s, p)
  OBVIOUS
<1>6. PICK v : v = [u EXCEPT !.peers[x] = NoPeer]
  OBVIOUS
<1>7. PICK t : t = Drain(v)
  OBVIOUS
<1>8. Becomes(t)
  BY <1>1, <1>3, <1>5, <1>6, <1>7 DEF RemovePeer
<1>9. /\ Good(u) /\ KeepsOthers(s, u, p) /\ \A r \in Peers : Found(u, r)
      /\ u.state[p] = "destroyed"
  BY <1>2, <1>4, <1>5, DestroyPeerLemma DEF Sound
<1>10. PICK E \in SUBSET Peers : E = {p}
  OBVIOUS
<1>11. u.addr[p] = x
  BY <1>4, <1>9 DEF KeepsOthers
<1>12. Good(v) /\ Keeps(u, v) /\ \A r \in Peers \ E : Found(v, r)
  BY <1>6, <1>9, <1>10, <1>11, DeleteLemma
<1>13. /\ Good(t) /\ Keeps(v, t) /\ \A r \in Peers \ E : Found(t, r)
       /\ Used(t)
  BY <1>7, <1>12, DrainLemma
<1>14. Found(t, p)
  BY <1>9, <1>12, <1>13 DEF Keeps, Found, Live
<1>15. Sound(t)
  BY <1>10, <1>13, <1>14 DEF Sound
<1>16. SameEnd(swarm, t)
  BY <1>1, <1>9, <1>12, <1>13 DEF Keeps, KeepsOthers, SameEnd
<1> QED BY <1>8, <1>15, <1>16, BecomesLemma DEF IInv, SameEnd

\* destroy: what was under an address, or waited for an answer, is dead; a live
\* peer that had lost its entry keeps the peer it shared the address with.
LEMMA DestroyLemma ==
  ASSUME IInv, Destroy
  PROVE  IInv'
<1>1. PICK s : s = swarm
  OBVIOUS
<1>2. Sound(s) /\ s \in Swarms
  BY <1>1 DEF IInv, Sound, Good
<1>3. PICK D : D = Range(s.peers) \cup s.pendingOffers
  OBVIOUS
<1>4. PICK m \in [Addrs -> Peers \cup {NoPeer}] : m = [x \in Addrs |-> NoPeer]
  OBVIOUS
<1>5. PICK c \in [Peers -> {"none", "destroyed"} \cup Live] :
        c = [p \in Peers |-> IF p \in D THEN "destroyed" ELSE s.state[p]]
  <2>1. s.state \in [Peers -> {"none", "destroyed"} \cup Live]
    BY <1>2 DEF Swarms
  <2> QED BY <2>1
<1>6. PICK t : t = [s EXCEPT !.destroyed = TRUE, !.queue = <<>>, !.pendingOffers = {},
                             !.peers = m, !.state = c]
  OBVIOUS
<1>7. swarm' = t /\ start' = start /\ destroyedAt' = swarm.announced
  BY <1>1, <1>3, <1>4, <1>5, <1>6, <1>2 DEF Destroy, Swarms
<1>8. /\ t.destroyed = TRUE /\ t.queue = <<>> /\ t.pendingOffers = {} /\ t.peers = m
      /\ t.state = c /\ t.addr = s.addr /\ t.paused = s.paused /\ t.announced = s.announced
  BY <1>2, <1>6 DEF Swarms
<1>9. t \in Swarms
  <2>1. <<>> \in Seq(Adds) /\ {} \in SUBSET Offers
    OBVIOUS
  <2> QED BY <1>2, <1>6, <2>1 DEF Swarms
<1>10. Tracked(t) = {}
  BY <1>4, <1>8 DEF Tracked
<1>11. Hooked(t)
  BY <1>2, <1>4, <1>5, <1>8, <1>10, FS_EmptySet DEF Sound, Good, Hooked
<1>12. Waiting(t)
  BY <1>8, SwarmAssumption DEF Waiting
<1>13. Good(t) /\ Used(t)
  BY <1>8, <1>9, <1>10, <1>11, <1>12 DEF Good, Ended, Used
<1>14. ASSUME NEW r \in Peers, t.state[r] \in Live PROVE Found(t, r)
  <2>1. r \notin D /\ s.state[r] \in Live
    BY <1>5, <1>8, <1>14 DEF Live
  <2>2. s.addr[r] # NoPeer /\ s.addr[r] \in Addrs
    BY <1>2, <1>3, <2>1 DEF Sound, Found, Swarms
  <2>3. s.peers[s.addr[r]] # r
    <3>1. DOMAIN s.peers = Addrs
      BY <1>2 DEF Swarms
    <3> QED BY <1>3, <2>1, <2>2, <3>1 DEF Range
  <2>4. PICK q \in Peers \ {r} : s.addr[q] = s.addr[r]
    BY <1>2, <2>1, <2>2, <2>3 DEF Sound, Found
  <2> QED BY <1>8, <2>2, <2>4 DEF Found
<1>15. Sound(t)
  BY <1>13, <1>14 DEF Sound, Found
<1>16. Sound(swarm)' /\ Turn'
  BY <1>1, <1>7, <1>8, <1>15
  DEF IInv, Turn, Sound, Good, Used, Found, Hooked, Waiting, Ended, Tracked, Size
<1>17. Late'
  <2>1. PICK n \in Nat : n = Len(Trackers)
    BY SwarmAssumption
  <2>2. PICK d \in 0..n + 1 : d = s.announced
    BY <1>2, <2>1 DEF Swarms
  <2>3. destroyedAt' = d /\ swarm'.announced = d
    BY <1>1, <1>7, <1>8, <2>2
  <2>4. WsSince' = {}
    <3>1. d + 1..d = {}
      OBVIOUS
    <3> QED BY <2>3, <3>1 DEF WsSince
  <2>5. Cardinality(swarm'.pendingOffers) = 0 /\ Cardinality(WsSince') = 0
    BY <1>7, <1>8, <2>4, FS_EmptySet
  <2>6. OffersPerAnnounce * 0 = 0
    BY SwarmAssumption
  <2> QED BY <2>1, <2>3, <2>5, <2>6 DEF Late
<1> QED BY <1>16, <1>17 DEF IInv

\* Every step keeps the invariant.
LEMMA NextHolds == IInv /\ [Next]_vars => IInv'
<1> SUFFICES ASSUME IInv, [Next]_vars PROVE IInv'
  OBVIOUS
<1>0. /\ swarm \in Swarms /\ Sound(swarm) /\ Turn /\ Late
      /\ swarm.state \in [Peers -> {"none", "destroyed"} \cup Live]
  BY DEF IInv, Sound, Good, Swarms
<1>1. ASSUME Start PROVE IInv'
  <2>1. swarm.announced <= Len(Trackers)
    <3>1. PICK n \in Nat : n = Len(Trackers)
      BY SwarmAssumption
    <3>2. swarm.announced = 0
      BY <1>0, <1>1 DEF Turn, Start
    <3> QED BY <3>1, <3>2
  <2> QED BY <1>0, <1>1, <2>1, ToTrackerLemma DEF Start, SameEnd
<1>2. ASSUME OffersReady PROVE IInv'
  <2>1. Sound(swarm)'
    BY <1>0, <1>2 DEF OffersReady, Sound, Good, Used, Found, Hooked, Waiting, Ended, Tracked, Size
  <2>2. Turn'
    BY <1>0, <1>2 DEF OffersReady, Turn
  <2>3. Late'
    BY <1>0, <1>2 DEF OffersReady, Late, WsSince
  <2> QED BY <2>1, <2>2, <2>3 DEF IInv
<1>3. ASSUME NEW order \in Orders, Response(order) PROVE IInv'
  <2>1. PICK S \in SUBSET {a \in Adds : Idle(a)} : order \in SetToSeqs(S)
    BY DEF Orders, SetToAllKPermutations
  <2>2. IsFiniteSet(S)
    <3>1. S \subseteq Peers
      BY <2>1 DEF Peers
    <3> QED BY <3>1, FS_Subset, SwarmAssumption
  <2>3. PICK n \in Nat : n = Cardinality(S)
    BY <2>2, FS_CardinalityType
  <2>4. /\ order \in [1..n -> S]
        /\ \A i, j \in 1..n : i # j => order[i] # order[j]
    BY <2>1, <2>3 DEF SetToSeqs
  <2>5. order \in Seq(Adds) /\ Len(order) = n
    BY <2>1, <2>4
  <2>6. ASSUME NEW i \in 1..n
        PROVE  swarm.state[order[i]] = "none" /\ order[i] \notin KeySet(swarm.queue)
    <3>1. Idle(order[i])
      BY <2>1, <2>4
    <3>2. DOMAIN swarm.queue = 1..Len(swarm.queue)
      BY <1>0 DEF Swarms
    <3> QED BY <3>1, <3>2 DEF Idle, KeySet, Range
  <2>7. PICK t : t = FoldLeft(AddPeer, swarm, order)
    OBVIOUS
  <2>8. /\ Good(t) /\ Used(t) /\ \A r \in Peers : Found(t, r)
        /\ SameEnd(swarm, t)
    <3>1. \A i, j \in 1..Len(order) : order[i] = order[j] => i = j
      BY <2>4, <2>5
    <3>2. \A i \in 1..Len(order) :
             swarm.state[order[i]] = "none" /\ order[i] \notin KeySet(swarm.queue)
      BY <2>5, <2>6
    <3>3. Good(swarm) /\ Used(swarm) /\ \A r \in Peers : Found(swarm, r)
      BY <1>0 DEF Sound
    <3> QED BY <2>5, <2>7, <3>1, <3>2, <3>3, AddAllLemma
  <2>9. ToTracker(t) /\ t.announced <= Len(Trackers)
    BY <1>0, <1>3, <2>7, <2>8 DEF Response, Turn, SameEnd
  <2> QED BY <1>0, <2>8, <2>9, ToTrackerLemma DEF Sound
<1>4. ASSUME NEW a \in Adds, AddCall(a) PROVE IInv'
  <2>1. swarm.state[a] = "none" /\ a \notin KeySet(swarm.queue)
    <3>1. DOMAIN swarm.queue = 1..Len(swarm.queue)
      BY <1>0 DEF Swarms
    <3> QED BY <1>4, <3>1 DEF AddCall, Idle, KeySet, Range
  <2>2. PICK t : t = AddPeer(swarm, a)
    OBVIOUS
  <2>3. /\ Good(t) /\ Used(t) /\ \A r \in Peers : Found(t, r)
        /\ SameEnd(swarm, t)
    BY <1>0, <2>1, <2>2, AddPeerLemma DEF Sound
  <2> QED BY <1>0, <1>4, <2>2, <2>3, BecomesLemma DEF AddCall, Sound, SameEnd
<1>5. ASSUME NEW x \in Addrs, RemovePeer(x) PROVE IInv'
  BY <1>5, RemoveLemma
<1>6. ASSUME Pause PROVE IInv'
  <2>1. PICK t : t = [swarm EXCEPT !.paused = TRUE]
    OBVIOUS
  <2>2. /\ t \in Swarms /\ t.paused = TRUE
        /\ t.state = swarm.state /\ t.addr = swarm.addr /\ t.peers = swarm.peers
        /\ t.queue = swarm.queue /\ t.destroyed = swarm.destroyed
        /\ t.pendingOffers = swarm.pendingOffers /\ t.announced = swarm.announced
    BY <1>0, <2>1 DEF Swarms
  <2>3. Good(t) /\ Used(t)
    BY <1>0, <2>2 DEF Sound, Good, Used, Hooked, Waiting, Ended, Tracked
  <2>4. \A r \in Peers : Found(t, r)
    BY <1>0, <2>2 DEF Sound, Found
  <2>5. Sound(t)
    BY <2>3, <2>4 DEF Sound
  <2>6. SameEnd(swarm, t)
    BY <2>2 DEF SameEnd
  <2> QED BY <1>0, <1>6, <2>1, <2>2, <2>5, <2>6, BecomesLemma DEF Pause
<1>7. ASSUME Resume PROVE IInv'
  <2>1. PICK u : u = [swarm EXCEPT !.paused = FALSE]
    OBVIOUS
  <2>2. /\ u \in Swarms
        /\ u.state = swarm.state /\ u.addr = swarm.addr /\ u.peers = swarm.peers
        /\ u.queue = swarm.queue /\ u.destroyed = swarm.destroyed
        /\ u.pendingOffers = swarm.pendingOffers /\ u.announced = swarm.announced
    BY <1>0, <2>1 DEF Swarms
  <2>3. Good(u)
    BY <1>0, <2>2 DEF Sound, Good, Hooked, Waiting, Ended, Tracked
  <2>4. PICK E \in SUBSET Peers : E = {}
    OBVIOUS
  <2> \A r \in Peers \ E : Found(u, r)
    BY <1>0, <2>2 DEF Sound, Found
  <2>5. PICK t : t = Drain(u)
    OBVIOUS
  <2>6. /\ Good(t) /\ Keeps(u, t) /\ \A r \in Peers \ E : Found(t, r)
        /\ Used(t)
    BY <2>3, <2>4, <2>5, DrainLemma
  <2>7. Sound(t) /\ SameEnd(swarm, t)
    BY <2>2, <2>4, <2>6 DEF Sound, Keeps, SameEnd
  <2> QED BY <1>0, <1>7, <2>1, <2>5, <2>7, BecomesLemma DEF Resume, SameEnd
<1>8. ASSUME Destroy PROVE IInv'
  BY <1>8, DestroyLemma
<1>9. ASSUME NEW o \in Offers, NEW id \in Ids, OnAnswer(o, id) PROVE IInv'
  BY <1>9, AnswerLemma
<1>10. ASSUME NEW o \in Inbound, NEW id \in Ids, OnOffer(o, id) PROVE IInv'
  BY <1>10, OfferLemma
<1>11. ASSUME NEW p \in Peers, NEW c \in {"open", "ready"}, swarm.state[p] \in Live,
              Becomes([swarm EXCEPT !.state[p] = c])
       PROVE  IInv'
  <2>1. PICK m \in [Peers -> {"none", "destroyed"} \cup Live] : m = [swarm.state EXCEPT ![p] = c]
    BY <1>0 DEF Live
  <2>2. PICK t : t = [swarm EXCEPT !.state = m]
    OBVIOUS
  <2>3. Becomes(t)
    BY <1>0, <1>11, <2>1, <2>2 DEF Swarms
  <2>4. /\ t \in Swarms /\ t.state = m /\ t.addr = swarm.addr /\ t.peers = swarm.peers
        /\ t.queue = swarm.queue /\ t.paused = swarm.paused /\ t.destroyed = swarm.destroyed
        /\ t.pendingOffers = swarm.pendingOffers /\ t.announced = swarm.announced
    BY <1>0, <2>2 DEF Swarms
  <2>5. /\ m[p] \in Live /\ m[p] # "none" /\ swarm.state[p] # "none"
        /\ \A r \in Peers \ {p} : m[r] = swarm.state[r]
    BY <1>0, <1>11, <2>1 DEF Live
  <2>6. \A r \in Peers : m[r] = "none" <=> swarm.state[r] = "none"
    BY <2>5
  <2>7. /\ swarm.pendingOffers \subseteq Peers
        /\ \A i \in 1..Len(swarm.queue) : swarm.queue[i] \in Peers
    <3>1. swarm.queue \in Seq(Adds) /\ swarm.pendingOffers \subseteq Offers
      BY <1>0 DEF Swarms
    <3> QED BY <3>1 DEF Peers
  <2>8. Good(t) /\ Used(t)
    BY <1>0, <2>4, <2>6, <2>7 DEF Sound, Good, Used, Hooked, Waiting, Ended, Tracked, Size
  <2>9. \A r \in Peers : Found(t, r)
    BY <1>0, <1>11, <2>4, <2>5 DEF Sound, Found
  <2>10. Sound(t) /\ SameEnd(swarm, t)
    BY <2>4, <2>8, <2>9 DEF Sound, SameEnd
  <2> QED BY <1>0, <2>3, <2>4, <2>10, BecomesLemma
<1>12. ASSUME NEW p \in Peers, Open(p) PROVE IInv'
  BY <1>11, <1>12 DEF Open, Live
<1>13. ASSUME NEW p \in Peers, Handshake(p) PROVE IInv'
  BY <1>11, <1>13 DEF Handshake, Live
<1>14. ASSUME NEW p \in Peers, Fail(p) PROVE IInv'
  <2>1. PICK t : t = FailPeer(swarm, p)
    OBVIOUS
  <2>2. swarm.state[p] # "none" /\ Becomes(t)
    BY <1>14, <2>1 DEF Fail, Live
  <2>3. /\ Good(t) /\ KeepsOthers(swarm, t, p) /\ \A r \in Peers : Found(t, r)
        /\ Used(swarm) => Used(t)
    BY <1>0, <2>1, <2>2, FailPeerLemma DEF Sound
  <2>4. Sound(t) /\ SameEnd(swarm, t)
    BY <1>0, <2>3 DEF Sound, KeepsOthers, SameEnd
  <2> QED BY <1>0, <2>2, <2>4, BecomesLemma DEF SameEnd
<1>15. ASSUME NEW p \in Peers, Close(p) PROVE IInv'
  <2>1. PICK t : t = DestroyPeer(swarm, p)
    OBVIOUS
  <2>2. swarm.state[p] # "none" /\ Becomes(t)
    BY <1>15, <2>1 DEF Close
  <2>3. /\ Good(t) /\ KeepsOthers(swarm, t, p) /\ \A r \in Peers : Found(t, r)
        /\ Used(swarm) => Used(t)
    BY <1>0, <2>1, <2>2, DestroyPeerLemma DEF Sound
  <2>4. Sound(t) /\ SameEnd(swarm, t)
    BY <1>0, <2>3 DEF Sound, KeepsOthers, SameEnd
  <2> QED BY <1>0, <2>2, <2>4, BecomesLemma DEF SameEnd
<1>16. ASSUME UNCHANGED vars PROVE IInv'
  BY <1>0, <1>16
  DEF vars, IInv, Turn, Late, WsSince, Sound, Good, Used, Found, Hooked, Waiting, Ended, Tracked, Size
<1> QED
  BY <1>1, <1>2, <1>3, <1>4, <1>5, <1>6, <1>7, <1>8, <1>9, <1>10, <1>12, <1>13, <1>14, <1>15,
     <1>16 DEF Next
-----------------------------------------------------------------------------
(***************************************************************************)
(* The theorems                                                            *)
(***************************************************************************)

\* The inductive invariant: each entry of the map of peers is the peer that was
\* hooked under it, what waits in the queue is not connected and waits once, and
\* the slots, the tracked peers and the end of the swarm are as below.
THEOREM SwarmInvariant == Spec => []IInv
<1> QED BY InitHolds, NextHolds, PTL DEF Spec

\* Type correctness of the Swarm object and of start().
THEOREM SwarmTypeCorrect == Spec => []TypeOK
<1>1. IInv => TypeOK
  BY DEF IInv, Sound, Good, Waiting, Turn, Late, TypeOK
<1> QED BY <1>1, SwarmInvariant, PTL

\* No address waits while there is a slot, whatever closes, fails, is removed,
\* answers late or resumes, for any number of peers and limits.
THEOREM SlotsAreUsedHolds == Spec => []SlotsAreUsed
<1>1. IInv => SlotsAreUsed
  BY DEF IInv, Sound, Used, SlotsAreUsed
<1> QED BY <1>1, SwarmInvariant, PTL

\* A live peer is under its address or among the offers, unless it shared the
\* address with another peer.
THEOREM LiveIsTrackedHolds == Spec => []LiveIsTracked
<1>1. IInv => LiveIsTracked
  BY DEF IInv, Sound, Found, LiveIsTracked
<1> QED BY <1>1, SwarmInvariant, PTL

\* A destroyed swarm has no peer under an address and no address in its queue, and
\* what lives on are the offers start() made for the trackers still ahead of it,
\* OffersPerAnnounce for each at most, and peers lost before: for any announce list,
\* limits and peers.
THEOREM DestroyIsFinalHolds == Spec => []DestroyIsFinal
<1>1. ASSUME IInv, swarm.destroyed, NEW p \in Peers, swarm.state[p] \in Live
      PROVE  \/ p \in swarm.pendingOffers
             \/ swarm.addr[p] # NoPeer /\ \E q \in Peers \ {p} : swarm.addr[q] = swarm.addr[p]
  <2>1. swarm.addr[p] \in Addrs \cup {NoPeer} /\ p # NoPeer
    BY <1>1, SwarmAssumption DEF IInv, Sound, Good, Swarms
  <2>2. \A x \in Addrs : swarm.peers[x] = NoPeer
    BY <1>1 DEF IInv, Sound, Good, Ended, Tracked
  <2> QED BY <1>1, <2>1, <2>2 DEF IInv, Sound, Found
<1>2. IInv => DestroyIsFinal
  BY <1>1 DEF IInv, Sound, Good, Ended, Late, DestroyIsFinal
<1> QED BY <1>2, SwarmInvariant, PTL
=============================================================================

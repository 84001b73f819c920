--------------------------- MODULE TrackerServer ---------------------------
(***************************************************************************)
(* The tracker server (websocket-tracker/src/server.ts): connections, the  *)
(* swarms in an LRU cache, announces over web sockets and HTTP, evictions  *)
(* and disconnects.  The relay of offers and answers changes no state of   *)
(* the server and is left to the module that models its clients.           *)
(*                                                                         *)
(* A handler runs to completion, so it is one step.  Peers connect at      *)
(* different times, so connectedAt orders them as the Map of peers does.   *)
(***************************************************************************)
EXTENDS Integers, FiniteSets, Sequences, SequencesExt

CONSTANTS
  Conns,        \* web socket connections, each opened at most once
  HttpIds,      \* peer ids that announce over HTTP
  InfoHashes,
  MaxTorrents,  \* 100 in the code
  MaxPeersPerTorrent, \* 50 in the code
  MaxListed,    \* bounds the torrents one peer announces
  Null

Entries == Conns \cup HttpIds

ASSUME TrackerAssumption ==
  /\ Conns \cap HttpIds = {} /\ IsFiniteSet(Entries) /\ IsFiniteSet(InfoHashes)
  /\ Null \notin Entries \cup InfoHashes /\ MaxTorrents \in Nat \ {0}
  /\ MaxPeersPerTorrent \in Nat \ {0} /\ MaxListed \in Nat

L == INSTANCE Lru WITH Keys <- InfoHashes, Capacity <- MaxTorrents

VARIABLES
  peers,    \* peers: the Map's keys in insertion order, never deleted but by close
  hashes,   \* infoHashes of each peer, in the order it announced them
  swarms,   \* peersByInfoHash: [cache, members of each swarm]
  torrents, \* the keys of torrents; the seeder counters themselves are left out
  sock,     \* the web socket of each connection
  up        \* the HTTP server is listening

vars == <<peers, hashes, swarms, torrents, sock, up>>

TypeOK ==
  /\ IsInjective(peers)
  /\ Range(peers) \subseteq Entries
  /\ hashes \in [Entries -> Seq(InfoHashes)]
  /\ \A e \in Entries : IsInjective(hashes[e]) /\ Len(hashes[e]) <= MaxListed
  /\ swarms.cache \in L!Lists /\ swarms.members \in [InfoHashes -> SUBSET Entries]
  /\ torrents \subseteq InfoHashes
  /\ sock \in [Conns -> {"none", "open", "closing", "closed"}]
  /\ up \in BOOLEAN

Init ==
  /\ peers = <<>>
  /\ hashes = [e \in Entries |-> <<>>]
  /\ swarms = [cache |-> L!NewCache, members |-> [h \in InfoHashes |-> {}]]
  /\ torrents = {}
  /\ sock = [c \in Conns |-> "none"]
  /\ up = TRUE

IsOpen(e) == e \in Conns /\ sock[e] = "open"
-----------------------------------------------------------------------------
(***************************************************************************)
(* Swarms: each operation on a record of what it changes                   *)
(***************************************************************************)
State == [swarms |-> swarms, torrents |-> torrents, hashes |-> hashes]

Touch(s, h) == [s EXCEPT !.swarms.cache = L!Get(@, h)]

\* A swarm for h: a new one may push the least recently used one out of the
\* cache, with its members; its entry in torrents stays behind.
GetOrCreate(s, h) ==
  IF h \in s.swarms.cache.map THEN Touch(s, h)
  ELSE LET cache == L!Put(s.swarms.cache, h)
       IN  [s EXCEPT !.swarms = [cache |-> cache,
                                 members |-> [i \in InfoHashes |->
                                   IF i \in cache.map \ {h} THEN @.members[i] ELSE {}]],
                     !.torrents = @ \cup {h}]

Position(e) == CHOOSE i \in 1..Len(peers) : peers[i] = e
NewestMember(members) ==          \* mutant
  CHOOSE e \in members : \A f \in members : Position(e) >= Position(f)
OldestMember(members) ==
  CHOOSE e \in members : \A f \in members : Position(e) <= Position(f)

\* evictLeastActivePeer: the evicted peer forgets the torrent too.
EvictOldest(s, h) ==
  LET e == OldestMember(s.swarms.members[h])
  IN  [s EXCEPT !.swarms.members[h] = @ \ {e}, !.hashes[e] = RemoveFirst(@, h)]

\* addPeerToTorrent: a full swarm makes room, whether e is in it or not.
AddToTorrentLate(s, h, e) ==      \* mutant: one peer too many
  LET t == GetOrCreate(s, h)
      room == IF Cardinality(t.swarms.members[h]) > MaxPeersPerTorrent THEN EvictOldest(t, h) ELSE t
  IN  [room EXCEPT !.swarms.members[h] = @ \cup {e}]
AddToTorrent(s, h, e) ==
  LET t == GetOrCreate(s, h)
      room == IF Cardinality(t.swarms.members[h]) >= MaxPeersPerTorrent THEN EvictOldest(t, h) ELSE t
  IN  [room EXCEPT !.swarms.members[h] = @ \cup {e}]

\* removePeerFromTorrent: the last one out removes both entries.
RemoveFromTorrent(s, h, e) ==
  LET left == s.swarms.members[h] \ {e}
      t == [Touch(s, h) EXCEPT !.swarms.members[h] = left]
  IN  IF h \notin s.swarms.cache.map THEN s
      ELSE IF left # {} THEN t
      ELSE [t EXCEPT !.swarms.cache = L!RemoveKey(@, h), !.torrents = @ \ {h}]

Listed(s, h, e) == [s EXCEPT !.hashes[e] = IF h \in Range(@) THEN @ ELSE Append(@, h)]

\* What an announce does to the swarms.
Announced(h, e, event) ==
  LET s == Listed(State, h, e)
      t == IF event = "stopped" THEN RemoveFromTorrent(s, h, e) ELSE AddToTorrent(s, h, e)
  IN  Touch(t, h)

LeftLast(s, e) ==                 \* mutant: only the torrent announced last
  IF s.hashes[e] = <<>> THEN s ELSE RemoveFromTorrent(s, Last(s.hashes[e]), e)
\* Leaves every torrent the peer lists.
Left(s, e) == FoldLeft(LAMBDA t, h : RemoveFromTorrent(t, h, e), s, s.hashes[e])

Update(s) == swarms' = s.swarms /\ torrents' = s.torrents /\ hashes' = s.hashes
-----------------------------------------------------------------------------
(***************************************************************************)
(* Actions                                                                 *)
(***************************************************************************)

\* handleConnection.
Connect(c) ==
  /\ up /\ sock[c] = "none"
  /\ sock' = [sock EXCEPT ![c] = "open"]
  /\ peers' = Append(peers, c)
  /\ UNCHANGED <<hashes, swarms, torrents, up>>

MayList(e, h) == h \in Range(hashes[e]) \/ Len(hashes[e]) < MaxListed

\* handleAnnounce.
Announce(c, h, event) ==
  /\ IsOpen(c)
  /\ MayList(c, h)
  /\ Update(Announced(h, c, event))
  /\ UNCHANGED <<peers, sock, up>>

\* handleHttpAnnounce.
HttpAnnounce(x, h, event) ==
  /\ up
  /\ MayList(x, h)
  /\ peers' = IF x \in Range(peers) THEN peers ELSE Append(peers, x)
  /\ Update(Announced(h, x, event))
  /\ UNCHANGED <<sock, up>>

\* handleScrape and handleHttpScrape look a swarm up.
Scrape(h) ==
  /\ up \/ \E c \in Conns : IsOpen(c)
  /\ Update(Touch(State, h))
  /\ UNCHANGED <<peers, sock, up>>

\* The close event of a socket: handleDisconnection.
Disconnect(c) ==
  /\ sock[c] \in {"open", "closing"}
  /\ sock' = [sock EXCEPT ![c] = "closed"]
  /\ Update(Left(State, c))
  /\ UNCHANGED <<peers, up>>

\* close().  An HTTP peer has no socket to close, and the exception ends the
\* loop before anything is cleared.
Close ==
  LET http == {i \in 1..Len(peers) : peers[i] \in HttpIds}
      reached == {peers[i] : i \in {j \in 1..Len(peers) : \A k \in http : j < k}}
  IN  /\ up /\ up' = FALSE
      /\ sock' = [c \in Conns |-> IF c \in reached /\ sock[c] = "open" THEN "closing" ELSE sock[c]]
      /\ IF http # {} THEN UNCHANGED <<peers, swarms, torrents>>
         ELSE /\ peers' = <<>>
              /\ swarms' = [cache |-> L!NewCache, members |-> [h \in InfoHashes |-> {}]]
              /\ torrents' = {}
      /\ UNCHANGED hashes

\* Every event but "stopped" adds the peer.
Events == {"started", "stopped"}
Next ==
  \/ \E c \in Conns : Connect(c)
  \/ \E c \in Conns, h \in InfoHashes, event \in Events : Announce(c, h, event)
  \/ \E x \in HttpIds, h \in InfoHashes, event \in Events : HttpAnnounce(x, h, event)
  \/ \E h \in InfoHashes : Scrape(h)
  \/ \E c \in Conns : Disconnect(c)
  \/ Close

Spec == Init /\ [][Next]_vars
-----------------------------------------------------------------------------
(***************************************************************************)
(* Properties                                                              *)
(***************************************************************************)

\* The cache of swarms is a well-formed list of at most MaxTorrents, its swarms
\* are the ones with members, and each has its entry in torrents: looked up,
\* replaced and removed by announces, scrapes and disconnects (lru.ts, server.ts).
CacheSound ==
  /\ L!Linked(swarms.cache)
  /\ Len(L!KeysInOrder(swarms.cache)) = Cardinality(swarms.cache.map)
  /\ \A h \in InfoHashes : (h \in swarms.cache.map) <=> (swarms.members[h] # {})
  /\ swarms.cache.map \subseteq torrents

\* However peers announce again, stop and disconnect, no swarm has more than
\* maxPeersPerTorrent members (addPeerToTorrent, evictLeastActivePeer).
SwarmsBounded ==
  \A h \in InfoHashes : Cardinality(swarms.members[h]) <= MaxPeersPerTorrent

\* A closed connection stays a member only of a torrent its own list has lost:
\* it evicted itself when it announced again to a full swarm, and was put back
\* (handleDisconnection follows the list).
ClosedLeaves ==
  \A c \in Conns, h \in InfoHashes :
    sock[c] = "closed" /\ c \in swarms.members[h] => h \notin Range(hashes[c])

\* A member leaves a swarm for a reason only: it said so or its socket closed,
\* the swarm was full and it was the first of them to have connected, or the
\* cache was full and the swarm the least recently used.
LeavesForCause ==
  [][\A h \in InfoHashes : \A e \in swarms.members[h] \ swarms'.members[h] :
       \/ e \in Conns /\ (sock'[e] = "closed" \/ Announce(e, h, "stopped"))
       \/ e \in HttpIds /\ HttpAnnounce(e, h, "stopped")
       \/ /\ Cardinality(swarms.members[h]) = MaxPeersPerTorrent
          /\ \A f \in swarms.members[h] : Position(e) <= Position(f)
       \/ /\ Cardinality(swarms.cache.map) = MaxTorrents
          /\ L!KeysInOrder(swarms.cache)[MaxTorrents] = h
       \/ Close]_vars
=============================================================================

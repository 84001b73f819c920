-------------------------------- MODULE Lru --------------------------------
(***************************************************************************)
(* The cache of the tracker server (websocket-tracker/src/lru.ts): a map   *)
(* and a doubly linked list of its keys, the most recently used first.     *)
(* The methods are functions from one LRUCache object to the next; a key   *)
(* has one node, so nodes are named by their keys, and the values are kept *)
(* by the module that uses the cache.                                      *)
(***************************************************************************)
EXTENDS Integers, FiniteSets, Sequences

CONSTANTS Keys, Capacity, Null

\* What a user of this module assumes of its constants (TrackerAssumption does).
LruAssumption == IsFiniteSet(Keys) /\ Capacity \in Nat \ {0} /\ Null \notin Keys

Link == Keys \cup {Null}
Lists == [map : SUBSET Keys, head : Link, tail : Link,
          prev : [Keys -> Link], next : [Keys -> Link], size : Int]

NewCache ==
  [map |-> {}, head |-> Null, tail |-> Null,
   prev |-> [k \in Keys |-> Null], next |-> [k \in Keys |-> Null], size |-> 0]
-----------------------------------------------------------------------------
(***************************************************************************)
(* The linked list                                                         *)
(***************************************************************************)
AddToFront(l, k) ==
  [l EXCEPT !.prev = [i \in Keys |-> IF i = k THEN Null
                                     ELSE IF i = l.head THEN k ELSE @[i]],
            !.next[k] = l.head,
            !.head = k,
            !.tail = IF @ = Null THEN k ELSE @]

\* Unlinks a node; what points to it is made to point past it.
RemoveNodeOneWay(l, k) ==         \* mutant: prev of the next node is kept
  [l EXCEPT !.head = IF l.prev[k] = Null THEN l.next[k] ELSE @,
            !.tail = IF l.next[k] = Null THEN l.prev[k] ELSE @,
            !.next = [i \in Keys |-> IF i = k THEN Null
                                     ELSE IF i = l.prev[k] THEN l.next[k] ELSE @[i]],
            !.prev[k] = Null]
RemoveNode(l, k) ==
  [l EXCEPT !.head = IF l.prev[k] = Null THEN l.next[k] ELSE @,
            !.tail = IF l.next[k] = Null THEN l.prev[k] ELSE @,
            !.next = [i \in Keys |-> IF i = k THEN Null
                                     ELSE IF i = l.prev[k] THEN l.next[k] ELSE @[i]],
            !.prev = [i \in Keys |-> IF i = k THEN Null
                                     ELSE IF i = l.next[k] THEN l.prev[k] ELSE @[i]]]

MoveToFront(l, k) == IF k = l.head THEN l ELSE AddToFront(RemoveNode(l, k), k)
-----------------------------------------------------------------------------
(***************************************************************************)
(* The methods of the cache                                                *)
(***************************************************************************)
Get(l, k) == IF k \in l.map THEN MoveToFront(l, k) ELSE l

RemoveKey(l, k) ==
  IF k \notin l.map THEN l
  ELSE [RemoveNode(l, k) EXCEPT !.map = @ \ {k}, !.size = @ - 1]

Evict(l) == IF l.tail = Null THEN l ELSE RemoveKey(l, l.tail)

\* put; a new key makes room for itself first.
Put(l, k) ==
  IF k \in l.map THEN MoveToFront(l, k)
  ELSE LET room == IF l.size >= Capacity THEN Evict(l) ELSE l
       IN  [AddToFront(room, k) EXCEPT !.map = @ \cup {k}, !.size = @ + 1]
-----------------------------------------------------------------------------
\* The nodes are linked both ways from head to tail, they are the keys of the
\* map, and size counts them.
Linked(l) ==
  /\ l.size = Cardinality(l.map) /\ l.size <= Capacity
  /\ (l.head = Null) <=> (l.map = {})
  /\ (l.tail = Null) <=> (l.map = {})
  /\ \A k \in Keys \ l.map : l.prev[k] = Null /\ l.next[k] = Null
  /\ \A k \in l.map :
       /\ IF k = l.head THEN l.prev[k] = Null
          ELSE l.prev[k] \in l.map /\ l.next[l.prev[k]] = k
       /\ IF k = l.tail THEN l.next[k] = Null
          ELSE l.next[k] \in l.map /\ l.prev[l.next[k]] = k

\* keys(): from the most to the least recently used.
KeysInOrder(l) ==
  LET walk[n \in Nat] ==
        IF n = 0 THEN IF l.head = Null THEN <<>> ELSE <<l.head>>
        ELSE LET s == walk[n - 1]
             IN  IF s = <<>> \/ l.next[s[Len(s)]] = Null THEN s
                 ELSE Append(s, l.next[s[Len(s)]])
  IN  walk[Cardinality(Keys)]
=============================================================================

------------------------ MODULE TrackerServerProofs ------------------------
(***************************************************************************)
(* Proofs about TrackerServer and the LRU cache in it: the linked list is  *)
(* the sequence of its keys by last use, the swarms are the ones with      *)
(* members and stay within their limit, and who leaves has a reason.       *)
(***************************************************************************)
EXTENDS TrackerServer, RecursionLemmas, FiniteSetTheorems,
        SequenceTheorems, TLAPS

(***************************************************************************)
(* The linked list of the cache is a sequence of keys                      *)
(***************************************************************************)
ListFields == {"map", "head", "tail", "prev", "next", "size"}
Distinct(q) == \A i, j \in 1..Len(q) : q[i] = q[j] => i = j
KeySet(q) == {q[i] : i \in 1..Len(q)}

\* The nodes of l are linked in the order of q.
Links(l, q) ==
  /\ DOMAIN l = ListFields
  /\ q \in Seq(InfoHashes) /\ Distinct(q)
  /\ l.prev \in [InfoHashes -> InfoHashes \cup {Null}]
  /\ l.next \in [InfoHashes -> InfoHashes \cup {Null}]
  /\ l.head = IF Len(q) = 0 THEN Null ELSE q[1]
  /\ l.tail = IF Len(q) = 0 THEN Null ELSE q[Len(q)]
  /\ \A i \in 1..Len(q) : l.prev[q[i]] = IF i = 1 THEN Null ELSE q[i - 1]
  /\ \A i \in 1..Len(q) : l.next[q[i]] = IF i = Len(q) THEN Null ELSE q[i + 1]
  /\ \A k \in InfoHashes \ KeySet(q) : l.prev[k] = Null /\ l.next[k] = Null

\* The cache l has the keys q, the most recently used first.
Holds(l, q) ==
  /\ Links(l, q) /\ l.map = KeySet(q) /\ l.size = Len(q) /\ Len(q) <= MaxTorrents

InFront(k, q) == [i \in 1..Len(q) + 1 |-> IF i = 1 THEN k ELSE q[i - 1]]
Without(q, n) == [i \in 1..Len(q) - 1 |-> IF i < n THEN q[i] ELSE q[i + 1]]

\* A key in front of the others.
LEMMA ConsLemma ==
  ASSUME NEW q \in Seq(InfoHashes), Distinct(q), NEW k \in InfoHashes \ KeySet(q)
  PROVE  /\ InFront(k, q) \in Seq(InfoHashes) /\ Len(InFront(k, q)) = Len(q) + 1
         /\ Distinct(InFront(k, q)) /\ KeySet(InFront(k, q)) = KeySet(q) \cup {k}
<1>1. PICK r : r = InFront(k, q)
  OBVIOUS
<1>2. /\ Len(q) \in Nat /\ \A i \in 1..Len(q) : q[i] \in InfoHashes
      /\ r = [i \in 1..Len(q) + 1 |-> IF i = 1 THEN k ELSE q[i - 1]]
  BY <1>1 DEF InFront
<1>3. /\ r[1] = k /\ \A i \in 2..Len(q) + 1 : r[i] = q[i - 1] /\ i - 1 \in 1..Len(q)
      /\ \A i \in 1..Len(q) : i + 1 \in 1..Len(q) + 1 /\ r[i + 1] = q[i]
  BY <1>2
<1>4. \A i \in 1..Len(q) + 1 : r[i] \in InfoHashes
  BY <1>2, <1>3
<1>5. r \in Seq(InfoHashes) /\ Len(r) = Len(q) + 1
  BY <1>2, <1>4
<1>6. Distinct(r)
  BY <1>2, <1>3, <1>5 DEF Distinct, KeySet
<1>7. KeySet(r) = KeySet(q) \cup {k}
  <2>1. KeySet(r) \subseteq KeySet(q) \cup {k}
    BY <1>2, <1>3, <1>5 DEF KeySet
  <2>2. k \in KeySet(r)
    BY <1>2, <1>3, <1>5 DEF KeySet
  <2>3. ASSUME NEW i \in 1..Len(q) PROVE q[i] \in KeySet(r)
    <3>1. i + 1 \in 1..Len(r) /\ r[i + 1] = q[i]
      BY <1>2, <1>3, <1>5
    <3> QED BY <3>1 DEF KeySet
  <2> QED BY <2>1, <2>2, <2>3 DEF KeySet
<1> QED BY <1>1, <1>5, <1>6, <1>7

\* The keys without the n-th.
LEMMA WithoutLemma ==
  ASSUME NEW q \in Seq(InfoHashes), Distinct(q), NEW n \in 1..Len(q)
  PROVE  /\ Without(q, n) \in Seq(InfoHashes) /\ Len(Without(q, n)) = Len(q) - 1
         /\ Distinct(Without(q, n)) /\ KeySet(Without(q, n)) = KeySet(q) \ {q[n]}
<1>1. PICK r : r = Without(q, n)
  OBVIOUS
<1>2. /\ Len(q) \in Nat /\ Len(q) - 1 \in Nat /\ \A i \in 1..Len(q) : q[i] \in InfoHashes
      /\ r = [i \in 1..Len(q) - 1 |-> IF i < n THEN q[i] ELSE q[i + 1]]
  BY <1>1 DEF Without
<1>3. \A i \in 1..Len(q) - 1 : r[i] \in InfoHashes
  BY <1>2
<1>4. r \in Seq(InfoHashes) /\ Len(r) = Len(q) - 1
  BY <1>2, <1>3
<1>5. /\ \A i \in 1..Len(r) : i < n => r[i] = q[i] /\ i \in 1..Len(q)
      /\ \A i \in 1..Len(r) : i >= n => r[i] = q[i + 1] /\ i + 1 \in 1..Len(q) /\ i + 1 # n
  BY <1>2, <1>4
<1>6. Distinct(r)
  BY <1>2, <1>4, <1>5 DEF Distinct
<1>7. KeySet(r) \subseteq KeySet(q) \ {q[n]}
  BY <1>2, <1>4, <1>5 DEF KeySet, Distinct
<1>8. ASSUME NEW i \in 1..Len(q), i # n PROVE q[i] \in KeySet(r)
  <2>1. CASE i < n
    BY <1>2, <1>4, <1>5, <2>1 DEF KeySet
  <2>2. CASE i > n
    <3>1. i - 1 \in 1..Len(r) /\ r[i - 1] = q[i]
      BY <1>2, <1>4, <1>5, <2>2
    <3> QED BY <3>1 DEF KeySet
  <2> QED BY <1>8, <2>1, <2>2
<1>9. KeySet(q) \ {q[n]} \subseteq KeySet(r)
  BY <1>8 DEF KeySet
<1> QED BY <1>1, <1>4, <1>6, <1>7, <1>9

\* A new node at the front.
LEMMA AddToFrontLemma ==
  ASSUME NEW l, NEW q, Links(l, q), NEW k \in InfoHashes \ KeySet(q)
  PROVE  /\ Links(L!AddToFront(l, k), InFront(k, q))
         /\ L!AddToFront(l, k).map = l.map /\ L!AddToFront(l, k).size = l.size
<1>1. PICK r : r = InFront(k, q)
  OBVIOUS
<1>2. PICK m : m = L!AddToFront(l, k)
  OBVIOUS
<1>3. /\ q \in Seq(InfoHashes) /\ Distinct(q) /\ Len(q) \in Nat
      /\ \A i \in 1..Len(q) : q[i] \in InfoHashes
      /\ r = [i \in 1..Len(q) + 1 |-> IF i = 1 THEN k ELSE q[i - 1]]
  BY <1>1 DEF Links, InFront
<1>4. /\ r \in Seq(InfoHashes) /\ Len(r) = Len(q) + 1 /\ Distinct(r)
      /\ KeySet(r) = KeySet(q) \cup {k}
  BY <1>1, <1>3, ConsLemma
<1>5. /\ DOMAIN m = ListFields /\ m.map = l.map /\ m.size = l.size
      /\ m.head = k /\ m.tail = IF l.tail = Null THEN k ELSE l.tail
      /\ m.next = [l.next EXCEPT ![k] = l.head]
      /\ m.prev = [i \in InfoHashes |-> IF i = k THEN Null ELSE IF i = l.head THEN k
                                        ELSE l.prev[i]]
  BY <1>2 DEF L!AddToFront, Links, ListFields
<1>6. /\ r[1] = k /\ \A i \in 1..Len(r) : i # 1 => r[i] = q[i - 1] /\ i - 1 \in 1..Len(q)
  BY <1>3, <1>4
<1>7. Null \notin InfoHashes
  BY TrackerAssumption
<1>8. /\ m.prev \in [InfoHashes -> InfoHashes \cup {Null}]
      /\ m.next \in [InfoHashes -> InfoHashes \cup {Null}]
  BY <1>3, <1>5 DEF Links
<1>9. /\ m.head = r[1] /\ m.tail = r[Len(r)]
  BY <1>3, <1>4, <1>5, <1>6, <1>7 DEF Links
<1>10. ASSUME NEW i \in 1..Len(r)
       PROVE  m.prev[r[i]] = IF i = 1 THEN Null ELSE r[i - 1]
  <2>1. CASE i = 1
    BY <1>5, <1>6, <2>1
  <2>2. CASE i = 2
    <3>1. r[i] = q[1] /\ 1 \in 1..Len(q) /\ q[1] # k
      BY <1>6, <2>2 DEF KeySet
    <3>2. l.head = q[1]
      BY <3>1 DEF Links
    <3> QED BY <1>3, <1>5, <1>6, <2>2, <3>1, <3>2
  <2>3. CASE i > 2
    <3>1. /\ r[i] = q[i - 1] /\ i - 1 \in 1..Len(q) /\ r[i - 1] = q[i - 2]
          /\ i - 1 # 1 /\ 1 \in 1..Len(q)
      BY <1>3, <1>4, <1>6, <2>3
    <3>2. q[i - 1] # k /\ q[i - 1] # q[1] /\ l.head = q[1]
      BY <3>1 DEF KeySet, Links, Distinct
    <3>3. l.prev[q[i - 1]] = q[i - 2]
      BY <1>3, <3>1 DEF Links
    <3> QED BY <1>3, <1>5, <2>3, <3>1, <3>2, <3>3
  <2> QED BY <1>4, <2>1, <2>2, <2>3
<1>11. ASSUME NEW i \in 1..Len(r)
       PROVE  m.next[r[i]] = IF i = Len(r) THEN Null ELSE r[i + 1]
  <2>1. CASE i = 1
    <3>1. m.next[r[1]] = l.head
      BY <1>3, <1>5, <1>6 DEF Links
    <3>2. Len(q) # 0 => 2 \in 1..Len(r) /\ r[2] = q[1]
      BY <1>3, <1>4, <1>6
    <3> QED BY <1>3, <1>4, <2>1, <3>1, <3>2 DEF Links
  <2>2. CASE i # 1
    <3>1. r[i] = q[i - 1] /\ i - 1 \in 1..Len(q) /\ q[i - 1] # k
      BY <1>6, <2>2 DEF KeySet
    <3>2. l.next[q[i - 1]] = IF i - 1 = Len(q) THEN Null ELSE q[i]
      <4>1. PICK j \in 1..Len(q) : j = i - 1 /\ j + 1 = i
        BY <3>1
      <4>2. l.next[q[j]] = IF j = Len(q) THEN Null ELSE q[j + 1]
        BY DEF Links
      <4> QED BY <4>1, <4>2
    <3>3. m.next[q[i - 1]] = l.next[q[i - 1]]
      BY <1>3, <1>5, <3>1 DEF Links
    <3>4. i # Len(r) => i + 1 \in 1..Len(r) /\ r[i + 1] = q[i]
      BY <1>3, <1>4, <1>6
    <3> QED BY <1>3, <1>4, <3>1, <3>2, <3>3, <3>4
  <2> QED BY <2>1, <2>2
<1>12. ASSUME NEW i \in InfoHashes \ KeySet(r)
       PROVE  m.prev[i] = Null /\ m.next[i] = Null
  <2>1. i \in InfoHashes /\ i # k /\ i \notin KeySet(q)
    BY <1>4
  <2>2. i # l.head
    BY <1>3, <1>7, <2>1 DEF Links, KeySet
  <2> QED BY <1>5, <2>1, <2>2 DEF Links
<1>13. Len(r) # 0
  BY <1>3, <1>4
<1> QED BY <1>1, <1>2, <1>4, <1>5, <1>8, <1>9, <1>10, <1>11, <1>12, <1>13 DEF Links

\* A node is unlinked.
LEMMA RemoveNodeLemma ==
  ASSUME NEW l, NEW q, Links(l, q), NEW n \in 1..Len(q)
  PROVE  /\ Links(L!RemoveNode(l, q[n]), Without(q, n))
         /\ L!RemoveNode(l, q[n]).map = l.map /\ L!RemoveNode(l, q[n]).size = l.size
<1>1. PICK r : r = Without(q, n)
  OBVIOUS
<1>2. PICK k : k = q[n]
  OBVIOUS
<1>3. PICK m : m = L!RemoveNode(l, k)
  OBVIOUS
<1>4. /\ q \in Seq(InfoHashes) /\ Distinct(q) /\ Len(q) \in Nat /\ k \in InfoHashes
      /\ \A i \in 1..Len(q) : q[i] \in InfoHashes
      /\ r = [i \in 1..Len(q) - 1 |-> IF i < n THEN q[i] ELSE q[i + 1]]
      /\ \A i \in 1..Len(q) : i # n => q[i] # k
  BY <1>1, <1>2 DEF Links, Without, Distinct
<1>5. /\ r \in Seq(InfoHashes) /\ Len(r) = Len(q) - 1 /\ Distinct(r)
      /\ KeySet(r) = KeySet(q) \ {k}
  BY <1>1, <1>2, <1>4, WithoutLemma
<1>6. PICK a : a = l.prev[k]
  OBVIOUS
<1>7. PICK b : b = l.next[k]
  OBVIOUS
<1>8. /\ a = (IF n = 1 THEN Null ELSE q[n - 1]) /\ b = (IF n = Len(q) THEN Null ELSE q[n + 1])
  BY <1>2, <1>6, <1>7 DEF Links
<1>9. /\ DOMAIN m = ListFields /\ m.map = l.map /\ m.size = l.size
      /\ m.head = (IF a = Null THEN b ELSE l.head) /\ m.tail = (IF b = Null THEN a ELSE l.tail)
      /\ m.next = [i \in InfoHashes |-> IF i = k THEN Null ELSE IF i = a THEN b ELSE l.next[i]]
      /\ m.prev = [i \in InfoHashes |-> IF i = k THEN Null ELSE IF i = b THEN a ELSE l.prev[i]]
  BY <1>3, <1>6, <1>7 DEF L!RemoveNode, Links, ListFields
<1>10. /\ \A i \in 1..Len(r) : i < n => r[i] = q[i] /\ i \in 1..Len(q)
       /\ \A i \in 1..Len(r) : i >= n => r[i] = q[i + 1] /\ i + 1 \in 1..Len(q)
  BY <1>4, <1>5
<1>11. Null \notin InfoHashes
  BY TrackerAssumption
<1>12. /\ a \in InfoHashes \cup {Null} /\ b \in InfoHashes \cup {Null}
  BY <1>4, <1>8
<1>13. /\ m.prev \in [InfoHashes -> InfoHashes \cup {Null}]
       /\ m.next \in [InfoHashes -> InfoHashes \cup {Null}]
  BY <1>9, <1>12 DEF Links
<1>14. /\ m.head = IF Len(r) = 0 THEN Null ELSE r[1]
  <2>1. CASE n = 1
    BY <1>4, <1>5, <1>8, <1>9, <1>10, <2>1
  <2>2. CASE n # 1
    <3>1. a # Null /\ Len(r) # 0 /\ r[1] = q[1]
      BY <1>4, <1>5, <1>8, <1>10, <1>11, <2>2
    <3> QED BY <1>4, <1>9, <2>2, <3>1 DEF Links
  <2> QED BY <2>1, <2>2
<1>15. /\ m.tail = IF Len(r) = 0 THEN Null ELSE r[Len(r)]
  <2>1. CASE n = Len(q)
    BY <1>4, <1>5, <1>8, <1>9, <1>10, <2>1
  <2>2. CASE n # Len(q)
    <3>1. b # Null /\ Len(r) # 0 /\ r[Len(r)] = q[Len(q)]
      BY <1>4, <1>5, <1>8, <1>10, <1>11, <2>2
    <3> QED BY <1>4, <1>9, <2>2, <3>1 DEF Links
  <2> QED BY <2>1, <2>2
<1>16. ASSUME NEW i \in 1..Len(r)
       PROVE  m.prev[r[i]] = IF i = 1 THEN Null ELSE r[i - 1]
  <2>1. CASE i < n
    <3>1. r[i] = q[i] /\ i \in 1..Len(q) /\ q[i] # k /\ (i # 1 => r[i - 1] = q[i - 1])
      BY <1>4, <1>5, <1>10, <2>1
    <3>2. q[i] # b
      BY <1>4, <1>8, <1>11, <2>1, <3>1 DEF Distinct
    <3> QED BY <1>4, <1>9, <3>1, <3>2 DEF Links
  <2>2. CASE i = n
    <3>1. r[i] = q[n + 1] /\ n + 1 \in 1..Len(q) /\ q[n + 1] # k /\ b = q[n + 1]
      BY <1>4, <1>8, <1>10, <2>2
    <3>2. i # 1 => r[i - 1] = q[n - 1]
      BY <1>4, <1>5, <1>10, <2>2
    <3> QED BY <1>4, <1>8, <1>9, <2>2, <3>1, <3>2
  <2>3. CASE i > n
    <3>1. /\ r[i] = q[i + 1] /\ i + 1 \in 1..Len(q) /\ i # 1 /\ r[i - 1] = q[i] /\ q[i + 1] # k
      BY <1>4, <1>5, <1>10, <2>3
    <3>2. q[i + 1] # b
      BY <1>4, <1>8, <1>11, <2>3, <3>1 DEF Distinct
    <3>3. l.prev[q[i + 1]] = q[i]
      BY <1>4, <2>3, <3>1 DEF Links
    <3> QED BY <1>4, <1>9, <3>1, <3>2, <3>3
  <2> QED BY <1>5, <2>1, <2>2, <2>3
<1>17. ASSUME NEW i \in 1..Len(r)
       PROVE  m.next[r[i]] = IF i = Len(r) THEN Null ELSE r[i + 1]
  <2>1. CASE i < n - 1
    <3>1. r[i] = q[i] /\ i \in 1..Len(q) /\ q[i] # k /\ i # Len(r) /\ r[i + 1] = q[i + 1]
      BY <1>4, <1>5, <1>10, <2>1
    <3>2. q[i] # a
      BY <1>4, <1>8, <1>11, <2>1, <3>1 DEF Distinct
    <3>3. l.next[q[i]] = q[i + 1]
      BY <1>4, <2>1, <3>1 DEF Links
    <3> QED BY <1>4, <1>9, <3>1, <3>2, <3>3
  <2>2. CASE i = n - 1
    <3>1. r[i] = q[n - 1] /\ n - 1 \in 1..Len(q) /\ q[n - 1] # k /\ a = q[n - 1]
      BY <1>4, <1>8, <1>10, <2>2
    <3>2. /\ n = Len(q) => i = Len(r)
          /\ n # Len(q) => i # Len(r) /\ r[i + 1] = q[n + 1]
      BY <1>4, <1>5, <1>10, <2>2
    <3> QED BY <1>4, <1>8, <1>9, <2>2, <3>1, <3>2
  <2>3. CASE i >= n
    <3>1. /\ r[i] = q[i + 1] /\ i + 1 \in 1..Len(q) /\ q[i + 1] # k
          /\ i = Len(r) <=> i + 1 = Len(q)
          /\ i # Len(r) => r[i + 1] = q[i + 2]
      BY <1>4, <1>5, <1>10, <2>3
    <3>2. q[i + 1] # a
      BY <1>4, <1>8, <1>11, <2>3, <3>1 DEF Distinct
    <3>3. l.next[q[i + 1]] = IF i = Len(r) THEN Null ELSE q[i + 2]
      BY <1>4, <2>3, <3>1 DEF Links
    <3> QED BY <1>4, <1>9, <3>1, <3>2, <3>3
  <2> QED BY <1>5, <2>1, <2>2, <2>3
<1>18. ASSUME NEW i \in InfoHashes \ KeySet(r)
       PROVE  m.prev[i] = Null /\ m.next[i] = Null
  <2>1. CASE i = k
    BY <1>9, <2>1
  <2>2. CASE i # k
    <3>1. i \in InfoHashes /\ i \notin KeySet(q)
      BY <1>5, <2>2
    <3>2. i # a /\ i # b
      BY <1>4, <1>8, <1>11, <3>1 DEF KeySet
    <3> QED BY <1>9, <2>2, <3>1, <3>2 DEF Links
  <2> QED BY <2>1, <2>2
<1> QED BY <1>1, <1>2, <1>3, <1>5, <1>9, <1>13, <1>14, <1>15, <1>16, <1>17, <1>18 DEF Links

\* moveToFront.
LEMMA MoveToFrontLemma ==
  ASSUME NEW l, NEW q, Holds(l, q), NEW n \in 1..Len(q)
  PROVE  /\ \E r : Holds(L!MoveToFront(l, q[n]), r)
         /\ L!MoveToFront(l, q[n]).map = l.map
<1>1. CASE q[n] = l.head
  BY <1>1 DEF L!MoveToFront
<1>2. CASE q[n] # l.head
  <2>1. PICK k : k = q[n]
    OBVIOUS
  <2>2. PICK m : m = L!RemoveNode(l, k)
    OBVIOUS
  <2>3. Links(l, q) /\ q \in Seq(InfoHashes) /\ Distinct(q) /\ k \in InfoHashes /\ k \in KeySet(q)
    BY <2>1 DEF Holds, Links, KeySet
  <2>4. PICK r : r = Without(q, n)
    OBVIOUS
  <2>5. Links(m, r) /\ m.map = l.map /\ m.size = l.size
    BY <2>1, <2>2, <2>3, <2>4, RemoveNodeLemma
  <2>6. r \in Seq(InfoHashes) /\ Len(r) = Len(q) - 1 /\ Distinct(r) /\ KeySet(r) = KeySet(q) \ {k}
    BY <2>1, <2>3, <2>4, WithoutLemma
  <2>7. k \in InfoHashes \ KeySet(r)
    BY <2>3, <2>6
  <2>8. PICK p : p = L!AddToFront(m, k)
    OBVIOUS
  <2>9. Links(p, InFront(k, r)) /\ p.map = l.map /\ p.size = l.size
    BY <2>5, <2>7, <2>8, AddToFrontLemma
  <2>10. Len(InFront(k, r)) = Len(q) /\ KeySet(InFront(k, r)) = KeySet(q)
    <3>1. Len(InFront(k, r)) = Len(r) + 1 /\ KeySet(InFront(k, r)) = KeySet(r) \cup {k}
      BY <2>6, <2>7, ConsLemma
    <3>2. Len(q) \in Nat
      BY <2>3
    <3>3. Len(InFront(k, r)) = Len(q)
      BY <2>6, <3>1, <3>2
    <3> QED BY <2>3, <2>6, <3>1, <3>3
  <2>11. L!MoveToFront(l, q[n]) = p
    BY <1>2, <2>1, <2>2, <2>8 DEF L!MoveToFront
  <2> QED BY <2>9, <2>10, <2>11 DEF Holds
<1> QED BY <1>1, <1>2

\* get.
LEMMA GetLemma ==
  ASSUME NEW l, NEW q, Holds(l, q), NEW k
  PROVE  (\E r : Holds(L!Get(l, k), r)) /\ L!Get(l, k).map = l.map
<1>1. CASE k \in l.map
  <2>1. PICK n \in 1..Len(q) : k = q[n]
    BY <1>1 DEF Holds, KeySet
  <2> QED BY <1>1, <2>1, MoveToFrontLemma DEF L!Get
<1>2. CASE k \notin l.map
  BY <1>2 DEF L!Get
<1> QED BY <1>1, <1>2

\* remove of a key in the cache.
LEMMA RemoveKeyLemma ==
  ASSUME NEW l, NEW q, Holds(l, q), NEW n \in 1..Len(q)
  PROVE  Holds(L!RemoveKey(l, q[n]), Without(q, n))
<1>1. PICK k : k = q[n]
  OBVIOUS
<1>2. PICK m : m = L!RemoveNode(l, k)
  OBVIOUS
<1>3. /\ Links(l, q) /\ q \in Seq(InfoHashes) /\ Distinct(q) /\ k \in l.map
      /\ Len(q) \in Nat /\ l.map = KeySet(q) /\ l.size = Len(q) /\ Len(q) <= MaxTorrents
  BY <1>1 DEF Holds, Links, KeySet
<1>4. PICK r : r = Without(q, n)
  OBVIOUS
<1>5. Links(m, r) /\ m.map = l.map /\ m.size = l.size
  BY <1>1, <1>2, <1>3, <1>4, RemoveNodeLemma
<1>6. r \in Seq(InfoHashes) /\ Len(r) = Len(q) - 1 /\ KeySet(r) = KeySet(q) \ {k}
  BY <1>1, <1>3, <1>4, WithoutLemma
<1>7. PICK p : p = L!RemoveKey(l, k)
  OBVIOUS
<1>8. p = [m EXCEPT !.map = @ \ {k}, !.size = @ - 1]
  BY <1>2, <1>3, <1>7 DEF L!RemoveKey
<1>9. /\ DOMAIN p = ListFields /\ p.map = m.map \ {k} /\ p.size = m.size - 1
      /\ p.head = m.head /\ p.tail = m.tail /\ p.prev = m.prev /\ p.next = m.next
  BY <1>5, <1>8 DEF Links, ListFields
<1>10. Links(p, r)
  BY <1>5, <1>9 DEF Links
<1>11. MaxTorrents \in Nat
  BY TrackerAssumption
<1> QED BY <1>1, <1>3, <1>4, <1>5, <1>6, <1>7, <1>9, <1>10, <1>11 DEF Holds

\* put of a new key: in a full cache the last key makes room.
LEMMA PutLemma ==
  ASSUME NEW l, NEW q, Holds(l, q), NEW k \in InfoHashes \ l.map
  PROVE  /\ \E r : Holds(L!Put(l, k), r)
         /\ \/ L!Put(l, k).map = l.map \cup {k}
            \/ Len(q) = MaxTorrents /\ L!Put(l, k).map = (l.map \ {q[MaxTorrents]}) \cup {k}
<1>1. /\ Links(l, q) /\ q \in Seq(InfoHashes) /\ Distinct(q) /\ Len(q) \in Nat
      /\ l.map = KeySet(q) /\ l.size = Len(q) /\ Len(q) <= MaxTorrents
      /\ MaxTorrents \in Nat \ {0}
  BY TrackerAssumption DEF Holds, Links
<1>2. PICK room : room = IF l.size >= MaxTorrents THEN L!Evict(l) ELSE l
  OBVIOUS
<1>3. PICK r : /\ Holds(room, r) /\ Len(r) < MaxTorrents /\ k \notin KeySet(r)
               /\ \/ KeySet(r) = KeySet(q)
                  \/ Len(q) = MaxTorrents /\ KeySet(r) = KeySet(q) \ {q[MaxTorrents]}
  <2>1. CASE l.size >= MaxTorrents
    <3>1. Len(q) = MaxTorrents /\ MaxTorrents \in 1..Len(q)
      BY <1>1, <2>1
    <3>2. l.tail = q[MaxTorrents] /\ l.tail # Null
      BY <1>1, <3>1, TrackerAssumption DEF Links
    <3>3. room = L!RemoveKey(l, q[MaxTorrents])
      BY <1>2, <2>1, <3>2 DEF L!Evict
    <3>4. Holds(room, Without(q, MaxTorrents))
      BY <3>1, <3>3, RemoveKeyLemma
    <3>5. /\ Len(Without(q, MaxTorrents)) = Len(q) - 1
          /\ KeySet(Without(q, MaxTorrents)) = KeySet(q) \ {q[MaxTorrents]}
      BY <1>1, <3>1, WithoutLemma
    <3> QED BY <1>1, <3>1, <3>4, <3>5
  <2>2. CASE ~(l.size >= MaxTorrents)
    BY <1>1, <1>2, <2>2
  <2> QED BY <2>1, <2>2
<1>4. /\ Links(room, r) /\ room.map = KeySet(r) /\ room.size = Len(r) /\ Len(r) \in Nat
      /\ r \in Seq(InfoHashes) /\ Distinct(r) /\ k \in InfoHashes \ KeySet(r)
  <2>1. Links(room, r) /\ room.map = KeySet(r) /\ room.size = Len(r)
    BY <1>3 DEF Holds
  <2>2. r \in Seq(InfoHashes) /\ Distinct(r)
    BY <2>1 DEF Links
  <2>3. k \in InfoHashes \ KeySet(r)
    BY <1>3
  <2> QED BY <2>1, <2>2, <2>3
<1>5. PICK m : m = L!AddToFront(room, k)
  OBVIOUS
<1>6. Links(m, InFront(k, r)) /\ m.map = room.map /\ m.size = room.size
  BY <1>4, <1>5, AddToFrontLemma
<1>7. PICK p : p = L!Put(l, k)
  OBVIOUS
<1>8. p = [m EXCEPT !.map = @ \cup {k}, !.size = @ + 1]
  BY <1>2, <1>5, <1>7 DEF L!Put
<1>9. /\ DOMAIN p = ListFields /\ p.map = m.map \cup {k} /\ p.size = m.size + 1
      /\ p.head = m.head /\ p.tail = m.tail /\ p.prev = m.prev /\ p.next = m.next
  BY <1>6, <1>8 DEF Links, ListFields
<1>10. Links(p, InFront(k, r))
  BY <1>6, <1>9 DEF Links
<1>11. Len(InFront(k, r)) = Len(r) + 1 /\ KeySet(InFront(k, r)) = KeySet(r) \cup {k}
  BY <1>4, ConsLemma
<1>12. Holds(p, InFront(k, r))
  BY <1>1, <1>3, <1>4, <1>6, <1>9, <1>10, <1>11 DEF Holds
<1> QED BY <1>1, <1>3, <1>4, <1>6, <1>7, <1>9, <1>12

\* A new cache is empty.
LEMMA NewCacheLemma == Holds(L!NewCache, <<>>)
<1>1. /\ <<>> \in Seq(InfoHashes) /\ Len(<<>>) = 0 /\ 1..0 = {} /\ MaxTorrents \in Nat
  BY TrackerAssumption
<1>2. KeySet(<<>>) = {}
  BY DEF KeySet
<1>3. PICK l : l = L!NewCache
  OBVIOUS
<1>4. /\ DOMAIN l = ListFields /\ l.map = {} /\ l.head = Null /\ l.tail = Null /\ l.size = 0
      /\ l.prev = [k \in InfoHashes |-> Null] /\ l.next = [k \in InfoHashes |-> Null]
  BY <1>3 DEF L!NewCache, ListFields
<1> QED BY <1>1, <1>2, <1>3, <1>4 DEF Holds, Links, Distinct

\* As many keys as the sequence is long.
LEMMA CountLemma ==
  ASSUME NEW q \in Seq(InfoHashes), Distinct(q)
  PROVE  Cardinality(KeySet(q)) = Len(q) /\ Len(q) <= Cardinality(InfoHashes)
<1>1. Len(q) \in Nat /\ q \in [1..Len(q) -> InfoHashes] /\ q \in [1..Len(q) -> KeySet(q)]
  BY DEF KeySet
<1>2. IsFiniteSet(1..Len(q)) /\ Cardinality(1..Len(q)) = Len(q) /\ IsFiniteSet(InfoHashes)
  BY <1>1, FS_Interval, TrackerAssumption
<1>3. q \in Injection(1..Len(q), InfoHashes)
  BY <1>1 DEF Injection, IsInjective, Distinct
<1>4. Len(q) <= Cardinality(InfoHashes)
  BY <1>2, <1>3, FS_Injection
<1>5. q \in Bijection(1..Len(q), KeySet(q))
  BY <1>1 DEF Bijection, Injection, IsInjective, Surjection, Distinct, KeySet
<1>6. Cardinality(KeySet(q)) = Len(q)
  BY <1>1, <1>5, FS_CountingElements DEF ExistsBijection
<1> QED BY <1>4, <1>6

\* keys() walks the list.
LEMMA KeysInOrderLemma ==
  ASSUME NEW l, NEW q, Holds(l, q)
  PROVE  L!KeysInOrder(l) = q
<1> DEFINE Body(w, n) ==
             IF n = 0 THEN IF l.head = Null THEN <<>> ELSE <<l.head>>
             ELSE IF w[n - 1] = <<>> \/ l.next[w[n - 1][Len(w[n - 1])]] = Null THEN w[n - 1]
                  ELSE Append(w[n - 1], l.next[w[n - 1][Len(w[n - 1])]])
           Walks(w) == w = [n \in Nat |-> Body(w, n)]
           upto(n) == IF n + 1 < Len(q) THEN n + 1 ELSE Len(q)
           g == [n \in Nat |-> [i \in 1..upto(n) |-> q[i]]]
<1>1. L!KeysInOrder(l) = (CHOOSE w : Walks(w))[Cardinality(InfoHashes)]
  BY DEF L!KeysInOrder, L!Cardinality, Cardinality
<1>2. /\ Links(l, q) /\ q \in Seq(InfoHashes) /\ Distinct(q) /\ Len(q) \in Nat
      /\ \A i \in 1..Len(q) : q[i] \in InfoHashes
  BY DEF Holds, Links
<1>3. Null \notin InfoHashes /\ IsFiniteSet(InfoHashes)
  BY TrackerAssumption
<1>4. \A n \in Nat : g[n] = [i \in 1..upto(n) |-> q[i]]
  OBVIOUS
<1>5. q = [i \in 1..Len(q) |-> q[i]]
  BY <1>2
<1> HIDE DEF g
<1>6. ASSUME NEW n \in Nat, NEW w, n # 0 => w[n - 1] = g[n - 1]
      PROVE  Body(w, n) = g[n]
  <2>1. CASE n = 0
    <3>1. CASE Len(q) = 0
      <4>1. l.head = Null
        BY <1>2, <3>1 DEF Links
      <4>2. g[0] = <<>>
        <5>1. upto(0) = 0
          BY <1>2, <3>1
        <5>2. g[0] = [i \in 1..upto(0) |-> q[i]]
          BY <1>4
        <5> QED BY <5>1, <5>2
      <4> QED BY <2>1, <4>1, <4>2
    <3>2. CASE Len(q) > 0
      <4>1. l.head = q[1] /\ l.head # Null
        BY <1>2, <1>3, <3>2 DEF Links
      <4>2. g[0] = <<q[1]>>
        <5>1. upto(0) = 1
          <6>1. PICK m \in Nat : m = Len(q)
            BY <1>2
          <6>2. m = 1 \/ 1 < m
            BY <3>2, <6>1
          <6> QED BY <6>1, <6>2
        <5>2. g[0] = [i \in 1..upto(0) |-> q[i]]
          BY <1>4
        <5>3. [i \in 1..1 |-> q[i]] = <<q[1]>>
          OBVIOUS
        <5> QED BY <5>1, <5>2, <5>3
      <4> QED BY <2>1, <4>1, <4>2
    <3> QED BY <1>2, <3>1, <3>2
  <2>2. CASE n # 0 /\ n + 1 <= Len(q)
    <3>1. PICK s : s = g[n - 1]
      OBVIOUS
    <3>2. n - 1 \in Nat /\ upto(n - 1) = n /\ upto(n) = n + 1 /\ n \in 1..Len(q) /\ n # Len(q)
          /\ n + 1 \in 1..Len(q)
      BY <1>2, <2>2
    <3>3. s = [i \in 1..n |-> q[i]] /\ g[n] = [i \in 1..n + 1 |-> q[i]]
      BY <1>4, <3>1, <3>2
    <3>4. \A i \in 1..n : s[i] = q[i] /\ q[i] \in InfoHashes
      BY <1>2, <3>2, <3>3
    <3>5. s \in Seq(InfoHashes) /\ Len(s) = n /\ s[n] = q[n] /\ s # <<>>
      BY <3>2, <3>3, <3>4
    <3>6. l.next[q[n]] = q[n + 1] /\ q[n + 1] \in InfoHashes
      BY <1>2, <3>2 DEF Links
    <3>7. Append(s, q[n + 1]) = g[n]
      BY <3>2, <3>3, <3>4, <3>5, <3>6
    <3> QED BY <1>3, <1>6, <2>2, <3>1, <3>5, <3>6, <3>7
  <2>3. CASE n # 0 /\ n + 1 > Len(q)
    <3>1. n - 1 \in Nat /\ upto(n - 1) = Len(q) /\ upto(n) = Len(q)
      BY <1>2, <2>3
    <3>2. g[n - 1] = q /\ g[n] = q
      BY <1>4, <1>5, <2>3, <3>1
    <3>3. q # <<>> => l.next[q[Len(q)]] = Null
      BY <1>2 DEF Links
    <3> QED BY <1>6, <2>3, <3>2, <3>3
  <2> QED BY <1>2, <2>1, <2>2, <2>3
<1>7. Walks(g)
  <2>1. \A n \in Nat : Body(g, n) = g[n]
    BY <1>6
  <2>2. g = [n \in Nat |-> g[n]]
    BY DEF g
  <2> QED BY <2>1, <2>2
<1>8. PICK w : w = CHOOSE v : Walks(v)
  OBVIOUS
<1>9. Walks(w)
  <2> HIDE DEF Walks
  <2> QED BY <1>7, <1>8
<1>10. PICK P : P = {n \in Nat : w[n] = g[n]}
  OBVIOUS
<1>11. Nat \subseteq P
  <2>1. \A n \in Nat : w[n] = Body(w, n)
    BY <1>9
  <2> HIDE DEF Body, Walks
  <2>2. 0 \in P
    BY <1>6, <1>10, <2>1
  <2>3. ASSUME NEW n \in Nat, n \in P PROVE n + 1 \in P
    <3>1. n + 1 \in Nat /\ (n + 1) - 1 = n /\ w[n] = g[n]
      BY <1>10, <2>3
    <3>2. Body(w, n + 1) = g[n + 1]
      BY <1>6, <3>1
    <3> QED BY <1>10, <2>1, <3>1, <3>2
  <2> QED BY <2>2, <2>3, Induction
<1>12. PICK c : c = Cardinality(InfoHashes)
  OBVIOUS
<1>13. c \in Nat /\ Len(q) <= c
  BY <1>2, <1>3, <1>12, CountLemma, FS_CardinalityType
<1>14. g[c] = q
  <2>1. upto(c) = Len(q)
    BY <1>2, <1>13
  <2> QED BY <1>4, <1>5, <1>13, <2>1
<1>15. w[c] = g[c]
  BY <1>10, <1>11, <1>13
<1> HIDE DEF Body, Walks
<1> QED BY <1>1, <1>8, <1>12, <1>14, <1>15
-----------------------------------------------------------------------------
(***************************************************************************)
(* The state of the swarms, and what each operation does to it             *)
(***************************************************************************)
Listings == {q \in Seq(InfoHashes) : IsInjective(q) /\ Len(q) <= MaxListed}
States == [swarms : [cache : L!Lists, members : [InfoHashes -> SUBSET Entries]],
           torrents : SUBSET InfoHashes, hashes : [Entries -> Listings]]

\* The cache of s is a list in some order.
Typed(s) == s \in States /\ \E q : Holds(s.swarms.cache, q)

\* The swarms of s are the ones with members, with an entry in torrents each.
Good(s) ==
  /\ Typed(s)
  /\ \A h \in InfoHashes : (h \in s.swarms.cache.map) <=> (s.swarms.members[h] # {})
  /\ s.swarms.cache.map \subseteq s.torrents
  /\ \A h \in InfoHashes : Cardinality(s.swarms.members[h]) <= MaxPeersPerTorrent

\* The cache l is full and h the key it evicts next.
LastUsed(l, h) == Cardinality(l.map) = MaxTorrents /\ L!KeysInOrder(l)[MaxTorrents] = h

\* The members of a swarm are finitely many.
LEMMA MembersFinite ==
  ASSUME NEW s \in States, NEW h \in InfoHashes
  PROVE  /\ IsFiniteSet(s.swarms.members[h]) /\ Cardinality(s.swarms.members[h]) \in Nat
         /\ s.swarms.members[h] \subseteq Entries
<1>1. s.swarms.members[h] \in SUBSET Entries
  BY DEF States
<1> QED BY <1>1, FS_Subset, FS_CardinalityType, TrackerAssumption

\* splice(indexOf(h), 1).
LEMMA RemoveFirstLemma ==
  ASSUME NEW q \in Listings, NEW h
  PROVE  RemoveFirst(q, h) \in Listings /\ Range(RemoveFirst(q, h)) = Range(q) \ {h}
<1>1. /\ q \in Seq(InfoHashes) /\ Distinct(q) /\ Len(q) \in Nat /\ Len(q) <= MaxListed
      /\ DOMAIN q = 1..Len(q) /\ MaxListed \in Nat /\ \A i \in 1..Len(q) : q[i] \in InfoHashes
  BY TrackerAssumption DEF Listings, IsInjective, Distinct
<1>2. CASE \E i \in 1..Len(q) : q[i] = h
  <2>1. PICK I : I = {i \in 1..Len(q) : q[i] = h}
    OBVIOUS
  <2>2. I \subseteq Nat /\ I # {}
    BY <1>2, <2>1
  <2>3. \E x \in I : \A y \in I : x <= y
    BY <2>2, LeastNumber
  <2>4. Min(I) \in I
    BY <2>3, Zenon DEF Min
  <2>5. PICK n \in 1..Len(q) : n = Min(I) /\ q[n] = h
    BY <2>1, <2>4
  <2>6. RemoveFirst(q, h) = RemoveAt(q, n)
    BY <1>2, <2>1, <2>2, <2>5 DEF RemoveFirst, SelectInSeq
  <2>7. PICK r : r = RemoveAt(q, n)
    OBVIOUS
  <2>8. r = Without(q, n)
    <3>1. PICK a : a = SubSeq(q, 1, n - 1)
      OBVIOUS
    <3>2. PICK b : b = SubSeq(q, n + 1, Len(q))
      OBVIOUS
    <3>3. /\ a \in Seq(InfoHashes) /\ Len(a) = n - 1 /\ \A i \in 1..n - 1 : a[i] = q[i]
      <4>1. 1 \in Int /\ n - 1 \in Int /\ \A i \in 1..n - 1 : q[i] \in InfoHashes
        BY <1>1
      <4>2. /\ a \in Seq(InfoHashes)
            /\ Len(a) = IF 1 <= n - 1 THEN (n - 1) - 1 + 1 ELSE 0
            /\ \A i \in 1..(n - 1) - 1 + 1 : a[i] = q[1 + i - 1]
        BY <3>1, <4>1, SubSeqProperties
      <4>3. (IF 1 <= n - 1 THEN (n - 1) - 1 + 1 ELSE 0) = n - 1
        BY <1>1
      <4>4. (n - 1) - 1 + 1 = n - 1 /\ \A i \in 1..n - 1 : 1 + i - 1 = i
        OBVIOUS
      <4> QED BY <4>2, <4>3, <4>4
    <3>4. /\ b \in Seq(InfoHashes) /\ Len(b) = Len(q) - n
          /\ \A i \in 1..Len(q) - n : b[i] = q[i + n]
      <4>1. n + 1 \in Int /\ Len(q) \in Int
        BY <1>1
      <4>2. \A i \in n + 1..Len(q) : q[i] \in InfoHashes
        BY <1>1
      <4>3. /\ b \in Seq(InfoHashes)
            /\ Len(b) = IF n + 1 <= Len(q) THEN Len(q) - (n + 1) + 1 ELSE 0
            /\ \A i \in 1..Len(q) - (n + 1) + 1 : b[i] = q[(n + 1) + i - 1]
        BY <3>2, <4>1, <4>2, SubSeqProperties
      <4>4. (IF n + 1 <= Len(q) THEN Len(q) - (n + 1) + 1 ELSE 0) = Len(q) - n
        <5>1. PICK m \in Nat : m = Len(q) /\ n \in 1..m
          BY <1>1
        <5>2. (IF n + 1 <= m THEN m - (n + 1) + 1 ELSE 0) = m - n
          BY <5>1
        <5> QED BY <5>1, <5>2
      <4>5. Len(q) - (n + 1) + 1 = Len(q) - n
        BY <1>1
      <4>6. \A i \in 1..Len(q) - n : (n + 1) + i - 1 = i + n
        BY <1>1
      <4> QED BY <4>3, <4>4, <4>5, <4>6
    <3>5. r = a \o b
      BY <2>7, <3>1, <3>2 DEF RemoveAt
    <3>6. Len(a) + Len(b) = Len(q) - 1
      BY <1>1, <3>3, <3>4
    <3>7. /\ r = [i \in 1..Len(q) - 1 |-> r[i]]
          /\ \A i \in 1..Len(q) - 1 : r[i] = IF i <= n - 1 THEN a[i] ELSE b[i - (n - 1)]
      <4>1. /\ r \in Seq(InfoHashes) /\ Len(r) = Len(q) - 1
            /\ \A i \in 1..Len(a) + Len(b) : r[i] = IF i <= Len(a) THEN a[i] ELSE b[i - Len(a)]
        BY <3>3, <3>4, <3>5, <3>6, ConcatProperties
      <4>2. r = [i \in 1..Len(q) - 1 |-> r[i]]
        BY <4>1
      <4> QED BY <3>3, <3>6, <4>1, <4>2
    <3>8. ASSUME NEW i \in 1..Len(q) - 1
          PROVE  r[i] = IF i < n THEN q[i] ELSE q[i + 1]
      <4>1. CASE i < n
        BY <1>1, <3>3, <3>7, <4>1
      <4>2. CASE i >= n
        <5>1. i - (n - 1) \in 1..Len(q) - n /\ (i - (n - 1)) + n = i + 1
          BY <1>1, <4>2
        <5> QED BY <3>4, <3>7, <4>2, <5>1
      <4> QED BY <1>1, <4>1, <4>2
    <3> QED BY <3>7, <3>8 DEF Without
  <2>9. /\ r \in Seq(InfoHashes) /\ Len(r) = Len(q) - 1 /\ Distinct(r)
        /\ KeySet(r) = KeySet(q) \ {h}
    BY <1>1, <2>5, <2>8, WithoutLemma
  <2>10. DOMAIN r = 1..Len(r)
    BY <2>9
  <2>11. r \in Listings
    BY <1>1, <2>9, <2>10 DEF Listings, IsInjective, Distinct
  <2>12. Range(r) = KeySet(r) /\ Range(q) = KeySet(q)
    BY <1>1, <2>10 DEF Range, KeySet
  <2> QED BY <2>6, <2>7, <2>9, <2>11, <2>12
<1>3. CASE ~\E i \in 1..Len(q) : q[i] = h
  BY <1>1, <1>3 DEF RemoveFirst, Range
<1> QED BY <1>2, <1>3

\* The operations of the cache keep its type.
LEMMA ListTypes ==
  ASSUME NEW l \in L!Lists, NEW k \in InfoHashes
  PROVE  /\ L!AddToFront(l, k) \in L!Lists /\ L!RemoveNode(l, k) \in L!Lists
         /\ L!MoveToFront(l, k) \in L!Lists /\ L!Get(l, k) \in L!Lists
         /\ L!RemoveKey(l, k) \in L!Lists
<1>1. ASSUME NEW m \in L!Lists PROVE L!AddToFront(m, k) \in L!Lists
  BY DEF L!AddToFront, L!Lists, L!Link
<1>2. L!RemoveNode(l, k) \in L!Lists
  BY DEF L!RemoveNode, L!Lists, L!Link
<1>3. L!MoveToFront(l, k) \in L!Lists
  BY <1>1, <1>2 DEF L!MoveToFront
<1>4. L!Get(l, k) \in L!Lists
  BY <1>3 DEF L!Get
<1>5. L!RemoveKey(l, k) \in L!Lists
  <2>1. PICK m \in L!Lists : m = L!RemoveNode(l, k)
    BY <1>2
  <2>2. PICK a \in SUBSET InfoHashes : a = m.map \ {k}
    BY DEF L!Lists
  <2>3. PICK b \in Int : b = m.size - 1
    BY DEF L!Lists
  <2>4. [m EXCEPT !.map = a, !.size = b] \in L!Lists
    BY DEF L!Lists
  <2> QED BY <2>1, <2>2, <2>3, <2>4 DEF L!RemoveKey
<1> QED BY <1>1, <1>2, <1>3, <1>4, <1>5

\* put keeps it too.
LEMMA PutType ==
  ASSUME NEW l \in L!Lists, NEW k \in InfoHashes
  PROVE  L!Put(l, k) \in L!Lists
<1>1. PICK room : room = IF l.size >= MaxTorrents THEN L!Evict(l) ELSE l
  OBVIOUS
<1>2. l.tail # Null => l.tail \in InfoHashes
  BY DEF L!Lists, L!Link
<1>3. L!Evict(l) \in L!Lists
  BY <1>2, ListTypes DEF L!Evict
<1>4. L!AddToFront(room, k) \in L!Lists
  BY <1>1, <1>3, ListTypes
<1>5. PICK m \in L!Lists : m = L!AddToFront(room, k)
  BY <1>4
<1>6. PICK a \in SUBSET InfoHashes : a = m.map \cup {k}
  BY DEF L!Lists
<1>7. PICK b \in Int : b = m.size + 1
  BY DEF L!Lists
<1>8. [m EXCEPT !.map = a, !.size = b] \in L!Lists
  BY DEF L!Lists
<1> QED BY <1>1, <1>5, <1>6, <1>7, <1>8, ListTypes DEF L!Put
-----------------------------------------------------------------------------
\* Touch changes the order of the cache only.
LEMMA TouchLemma ==
  ASSUME NEW s, Typed(s), NEW h \in InfoHashes
  PROVE  /\ Typed(Touch(s, h)) /\ Touch(s, h).swarms.cache.map = s.swarms.cache.map
         /\ Touch(s, h).swarms.members = s.swarms.members
         /\ Touch(s, h).torrents = s.torrents /\ Touch(s, h).hashes = s.hashes
<1>1. PICK l : l = s.swarms.cache
  OBVIOUS
<1>2. PICK q : Holds(l, q)
  BY <1>1 DEF Typed
<1>3. PICK m : m = L!Get(l, h)
  OBVIOUS
<1>4. l \in L!Lists
  BY <1>1 DEF Typed, States
<1>5. m \in L!Lists /\ m.map = l.map /\ \E r : Holds(m, r)
  BY <1>2, <1>3, <1>4, ListTypes, GetLemma
<1>6. PICK t : t = Touch(s, h)
  OBVIOUS
<1>7. t = [s EXCEPT !.swarms.cache = m]
  BY <1>1, <1>3, <1>6 DEF Touch
<1>8. /\ t \in States /\ t.swarms.cache = m /\ t.swarms.members = s.swarms.members
      /\ t.torrents = s.torrents /\ t.hashes = s.hashes
  BY <1>5, <1>7 DEF Typed, States
<1> QED BY <1>1, <1>5, <1>6, <1>8 DEF Typed

\* Touch of a sound state.
LEMMA TouchGood ==
  ASSUME NEW s, Good(s), NEW h \in InfoHashes
  PROVE  Good(Touch(s, h))
BY TouchLemma DEF Good

\* A swarm for h: it may take the place of the last one used.
LEMMA GetOrCreateLemma ==
  ASSUME NEW s, Good(s), NEW h \in InfoHashes, NEW t, t = GetOrCreate(s, h)
  PROVE  /\ Typed(t) /\ t.hashes = s.hashes /\ h \in t.swarms.cache.map
         /\ t.swarms.cache.map \subseteq t.torrents
         /\ t.swarms.members[h] = s.swarms.members[h]
         /\ \A i \in InfoHashes \ {h} :
              (i \in t.swarms.cache.map) <=> (t.swarms.members[i] # {})
         /\ \A i \in InfoHashes :
              \/ t.swarms.members[i] = s.swarms.members[i]
              \/ t.swarms.members[i] = {} /\ LastUsed(s.swarms.cache, i)
<1>1. PICK l : l = s.swarms.cache
  OBVIOUS
<1>2. PICK q : Holds(l, q)
  BY <1>1 DEF Good, Typed
<1>3. l \in L!Lists
  BY <1>1 DEF Good, Typed, States
<1>4. CASE h \in l.map
  <2>1. t = Touch(s, h)
    BY <1>1, <1>4 DEF GetOrCreate
  <2>2. Typed(s)
    BY DEF Good
  <2>3. /\ Typed(t) /\ t.swarms.cache.map = l.map /\ t.swarms.members = s.swarms.members
        /\ t.torrents = s.torrents /\ t.hashes = s.hashes
    BY <1>1, <2>1, <2>2, TouchLemma
  <2> QED BY <1>1, <1>4, <2>3 DEF Good
<1>5. CASE h \notin l.map
  <2>1. PICK m : m = L!Put(l, h)
    OBVIOUS
  <2>2. /\ m \in L!Lists /\ \E r : Holds(m, r)
        /\ \/ m.map = l.map \cup {h}
           \/ Len(q) = MaxTorrents /\ m.map = (l.map \ {q[MaxTorrents]}) \cup {h}
    BY <1>2, <1>3, <1>5, <2>1, PutLemma, PutType
  <2>3. PICK mem : mem = [i \in InfoHashes |->
                            IF i \in m.map \ {h} THEN s.swarms.members[i] ELSE {}]
    OBVIOUS
  <2>4. mem \in [InfoHashes -> SUBSET Entries]
    BY <2>3 DEF Good, Typed, States
  <2>5. t = [s EXCEPT !.swarms = [cache |-> m, members |-> mem], !.torrents = @ \cup {h}]
    BY <1>1, <1>5, <2>1, <2>3 DEF GetOrCreate
  <2>6. /\ t \in States /\ t.swarms.cache = m /\ t.swarms.members = mem
        /\ t.torrents = s.torrents \cup {h} /\ t.hashes = s.hashes
    <3>1. PICK sw \in [cache : L!Lists, members : [InfoHashes -> SUBSET Entries]] :
             sw = [cache |-> m, members |-> mem]
      BY <2>2, <2>4
    <3>2. PICK tor \in SUBSET InfoHashes : tor = s.torrents \cup {h}
      BY DEF Good, Typed, States
    <3>3. t = [s EXCEPT !.swarms = sw, !.torrents = tor] /\ s \in States
      BY <2>5, <3>1, <3>2 DEF Good, Typed
    <3>4. t \in States
      BY <3>3 DEF States
    <3>5. t.swarms = sw /\ t.torrents = tor /\ t.hashes = s.hashes
      BY <3>3 DEF States
    <3> QED BY <3>1, <3>2, <3>4, <3>5
  <2>7. s.swarms.members[h] = {} /\ mem[h] = {}
    BY <1>1, <1>5, <2>3 DEF Good
  <2>8. m.map \subseteq l.map \cup {h} /\ h \in m.map
    BY <2>2
  <2>9. ASSUME NEW i \in InfoHashes
        PROVE  \/ mem[i] = s.swarms.members[i]
               \/ mem[i] = {} /\ LastUsed(l, i)
    <3>1. CASE i \in m.map \ {h}
      BY <2>3, <3>1
    <3>2. CASE i = h
      BY <2>7, <3>2
    <3>3. CASE i \notin l.map
      BY <1>1, <2>3, <2>8, <3>3 DEF Good
    <3>4. CASE i # h /\ i \in l.map /\ i \notin m.map
      <4>1. Len(q) = MaxTorrents /\ i = q[MaxTorrents]
        BY <2>2, <3>4
      <4>2. L!KeysInOrder(l) = q /\ Cardinality(l.map) = Len(q)
        BY <1>2, KeysInOrderLemma, CountLemma DEF Holds, Links
      <4> QED BY <2>3, <3>4, <4>1, <4>2 DEF LastUsed
    <3> QED BY <3>1, <3>2, <3>3, <3>4
  <2>10. ASSUME NEW i \in InfoHashes \ {h} PROVE i \in m.map <=> mem[i] # {}
    BY <1>1, <2>3, <2>8 DEF Good
  <2>11. m.map \subseteq t.torrents
    BY <1>1, <2>6, <2>8 DEF Good
  <2> QED BY <1>1, <2>2, <2>6, <2>7, <2>8, <2>9, <2>10, <2>11 DEF Typed
<1> QED BY <1>4, <1>5

\* The first of the members to have connected is one of them.
LEMMA OldestLemma ==
  ASSUME peers \in Seq(Entries), NEW T, T \subseteq Range(peers), T # {}
  PROVE  /\ OldestMember(T) \in T
         /\ \A f \in T : Position(OldestMember(T)) <= Position(f)
<1>1. ASSUME NEW f \in T PROVE Position(f) \in Nat
  <2>1. \E i \in 1..Len(peers) : peers[i] = f
    BY DEF Range
  <2>2. Position(f) \in 1..Len(peers)
    BY <2>1, Zenon DEF Position
  <2> QED BY <2>2
<1>2. PICK D : D = {Position(f) : f \in T}
  OBVIOUS
<1>3. D \subseteq Nat /\ D # {}
  BY <1>1, <1>2
<1>4. PICK d \in D : \A c \in D : d <= c
  BY <1>3, LeastNumber
<1>5. \E x \in T : \A f \in T : Position(x) <= Position(f)
  BY <1>2, <1>4
<1> QED BY <1>5, Zenon DEF OldestMember

\* Why x is no longer a member of the swarm h of s.
Cause(s, h, x) ==
  \/ LastUsed(s.swarms.cache, h)
  \/ /\ Cardinality(s.swarms.members[h]) = MaxPeersPerTorrent
     /\ \A f \in s.swarms.members[h] : Position(x) <= Position(f)

\* addPeerToTorrent: a member is lost for a cause, and e alone is new.
LEMMA AddLemma ==
  ASSUME NEW s, Good(s), NEW h \in InfoHashes, NEW e \in Entries,
         peers \in Seq(Entries), s.swarms.members[h] \subseteq Range(peers),
         NEW t, t = AddToTorrent(s, h, e)
  PROVE  /\ Good(t)
         /\ \A i \in InfoHashes : \A x \in s.swarms.members[i] \ t.swarms.members[i] : Cause(s, i, x)
         /\ \A i \in InfoHashes :
              t.swarms.members[i] \subseteq s.swarms.members[i] \cup (IF i = h THEN {e} ELSE {})
         /\ \A x \in Entries : Range(t.hashes[x]) \subseteq Range(s.hashes[x])
<1>1. PICK g : g = GetOrCreate(s, h)
  OBVIOUS
<1>2. /\ Typed(g) /\ g.hashes = s.hashes /\ h \in g.swarms.cache.map
      /\ g.swarms.cache.map \subseteq g.torrents
      /\ g.swarms.members[h] = s.swarms.members[h]
      /\ \A i \in InfoHashes \ {h} : (i \in g.swarms.cache.map) <=> (g.swarms.members[i] # {})
      /\ \A i \in InfoHashes :
           \/ g.swarms.members[i] = s.swarms.members[i]
           \/ g.swarms.members[i] = {} /\ LastUsed(s.swarms.cache, i)
  BY <1>1, GetOrCreateLemma
<1>3. PICK M : M = s.swarms.members[h]
  OBVIOUS
<1>4. /\ s \in States /\ g \in States /\ MaxPeersPerTorrent \in Nat \ {0}
      /\ M \subseteq Entries /\ IsFiniteSet(M) /\ Cardinality(M) \in Nat
      /\ Cardinality(M) <= MaxPeersPerTorrent
  BY <1>2, <1>3, MembersFinite, TrackerAssumption DEF Good, Typed
<1>5. PICK room : room = IF Cardinality(M) >= MaxPeersPerTorrent THEN EvictOldest(g, h) ELSE g
  OBVIOUS
<1>6. t = [room EXCEPT !.swarms.members[h] = @ \cup {e}]
  BY <1>1, <1>2, <1>3, <1>5 DEF AddToTorrent
<1>7. /\ room \in States /\ room.swarms.cache = g.swarms.cache /\ room.torrents = g.torrents
      /\ \A i \in InfoHashes \ {h} : room.swarms.members[i] = g.swarms.members[i]
      /\ room.swarms.members[h] \subseteq M
      /\ Cardinality(room.swarms.members[h]) < MaxPeersPerTorrent
      /\ \A x \in M \ room.swarms.members[h] : Cause(s, h, x)
      /\ \A x \in Entries : Range(room.hashes[x]) \subseteq Range(s.hashes[x])
  <2>1. CASE Cardinality(M) >= MaxPeersPerTorrent
    <3>1. Cardinality(M) = MaxPeersPerTorrent /\ M # {}
      BY <1>4, <2>1, FS_EmptySet
    <3>2. PICK o : o = OldestMember(M)
      OBVIOUS
    <3>3. o \in M /\ \A f \in M : Position(o) <= Position(f)
      BY <1>3, <3>1, <3>2, OldestLemma
    <3>4. PICK left : left = M \ {o}
      OBVIOUS
    <3>5. o \in Entries /\ left \in SUBSET Entries
      BY <1>4, <3>3, <3>4
    <3>6. PICK list \in Listings : list = RemoveFirst(g.hashes[o], h)
                                  /\ Range(list) \subseteq Range(g.hashes[o])
      <4>1. g.hashes[o] \in Listings
        BY <1>4, <3>5 DEF States
      <4> QED BY <4>1, RemoveFirstLemma
    <3>7. room = [g EXCEPT !.swarms.members[h] = left, !.hashes[o] = list]
      BY <1>2, <1>3, <1>5, <2>1, <3>2, <3>4, <3>6 DEF EvictOldest
    <3>8. /\ room \in States /\ room.swarms.cache = g.swarms.cache /\ room.torrents = g.torrents
          /\ room.swarms.members = [g.swarms.members EXCEPT ![h] = left]
          /\ room.hashes = [g.hashes EXCEPT ![o] = list]
      BY <1>4, <3>5, <3>7 DEF States
    <3>9. /\ room.swarms.members[h] = left
          /\ \A i \in InfoHashes \ {h} : room.swarms.members[i] = g.swarms.members[i]
      BY <1>4, <3>8 DEF States
    <3>10. Cardinality(left) < MaxPeersPerTorrent
      <4>1. Cardinality(left) = Cardinality(M) - 1
        BY <1>4, <3>3, <3>4, FS_RemoveElement
      <4>2. PICK c \in Nat : c = Cardinality(M) /\ c = MaxPeersPerTorrent
        BY <1>4, <3>1
      <4> QED BY <4>1, <4>2
    <3>11. \A x \in M \ left : Cause(s, h, x)
      BY <1>3, <3>1, <3>3, <3>4 DEF Cause
    <3>12. \A x \in Entries : Range(room.hashes[x]) \subseteq Range(g.hashes[x])
      BY <1>4, <3>6, <3>8 DEF States
    <3> QED BY <1>2, <3>4, <3>8, <3>9, <3>10, <3>11, <3>12
  <2>2. CASE ~(Cardinality(M) >= MaxPeersPerTorrent)
    BY <1>2, <1>3, <1>4, <1>5, <2>2
  <2> QED BY <2>1, <2>2
<1>8. PICK N \in SUBSET Entries : N = room.swarms.members[h] \cup {e}
  BY <1>4, <1>7
<1>9. /\ t \in States /\ t.swarms.cache = g.swarms.cache /\ t.torrents = g.torrents
      /\ t.hashes = room.hashes /\ t.swarms.members = [room.swarms.members EXCEPT ![h] = N]
  <2>1. t = [room EXCEPT !.swarms.members[h] = N] /\ room \in States
    BY <1>6, <1>7, <1>8
  <2>2. t \in States
    <3>1. room.swarms.members \in [InfoHashes -> SUBSET Entries]
      BY <2>1 DEF States
    <3>2. PICK m \in [InfoHashes -> SUBSET Entries] :
            m = [room.swarms.members EXCEPT ![h] = N]
      BY <3>1
    <3>3. t = [room EXCEPT !.swarms.members = m]
      BY <2>1, <3>2
    <3> QED BY <2>1, <3>3 DEF States
  <2>3. /\ t.swarms.cache = room.swarms.cache /\ t.torrents = room.torrents
        /\ t.hashes = room.hashes
        /\ t.swarms.members = [room.swarms.members EXCEPT ![h] = N]
    BY <2>1 DEF States
  <2> QED BY <1>7, <2>2, <2>3
<1>10. /\ t.swarms.members[h] = N
       /\ \A i \in InfoHashes \ {h} : t.swarms.members[i] = g.swarms.members[i]
  BY <1>7, <1>9 DEF States
<1>11. Cardinality(N) <= MaxPeersPerTorrent
  <2>1. PICK R : R = room.swarms.members[h]
    OBVIOUS
  <2>2. IsFiniteSet(R) /\ Cardinality(R) \in Nat /\ Cardinality(R) < MaxPeersPerTorrent
    BY <1>7, <2>1, MembersFinite
  <2>3. Cardinality(N) = Cardinality(R) \/ Cardinality(N) = Cardinality(R) + 1
    BY <1>8, <2>1, <2>2, FS_AddElement
  <2>4. PICK c \in Nat : c = Cardinality(R) /\ c < MaxPeersPerTorrent
    BY <2>2
  <2> QED BY <1>4, <2>3, <2>4
<1>12. ASSUME NEW i \in InfoHashes PROVE Cardinality(t.swarms.members[i]) <= MaxPeersPerTorrent
  <2>1. CASE i = h
    BY <1>10, <1>11, <2>1
  <2>2. CASE i # h
    <3>1. t.swarms.members[i] = s.swarms.members[i] \/ t.swarms.members[i] = {}
      BY <1>2, <1>10, <2>2
    <3>2. Cardinality({}) = 0 /\ 0 <= MaxPeersPerTorrent
      BY <1>4, FS_EmptySet
    <3>3. Cardinality(s.swarms.members[i]) <= MaxPeersPerTorrent
      BY DEF Good
    <3> QED BY <3>1, <3>2, <3>3
  <2> QED BY <2>1, <2>2
<1>13. \A i \in InfoHashes : (i \in t.swarms.cache.map) <=> (t.swarms.members[i] # {})
  BY <1>2, <1>8, <1>9, <1>10
<1>14. Good(t)
  BY <1>2, <1>9, <1>12, <1>13 DEF Good, Typed
<1>15. ASSUME NEW i \in InfoHashes, NEW x \in s.swarms.members[i] \ t.swarms.members[i]
       PROVE  Cause(s, i, x)
  <2>1. CASE i = h
    BY <1>3, <1>7, <1>8, <1>10, <2>1
  <2>2. CASE i # h
    BY <1>2, <1>10, <2>2 DEF Cause
  <2> QED BY <2>1, <2>2
<1>16. ASSUME NEW i \in InfoHashes
       PROVE  t.swarms.members[i] \subseteq s.swarms.members[i] \cup (IF i = h THEN {e} ELSE {})
  BY <1>2, <1>3, <1>7, <1>8, <1>10
<1> QED BY <1>7, <1>9, <1>14, <1>15, <1>16

\* removePeerFromTorrent: e is no longer a member of h, and nothing else changes.
LEMMA RemoveLemma ==
  ASSUME NEW s, Good(s), NEW h \in InfoHashes, NEW e, NEW t, t = RemoveFromTorrent(s, h, e)
  PROVE  /\ Good(t) /\ t.hashes = s.hashes
         /\ t.swarms.members = [s.swarms.members EXCEPT ![h] = @ \ {e}]
<1>1. PICK left : left = s.swarms.members[h] \ {e}
  OBVIOUS
<1>2. s \in States /\ Typed(s) /\ s.swarms.members \in [InfoHashes -> SUBSET Entries]
  BY DEF Good, Typed, States
<1>3. CASE h \notin s.swarms.cache.map
  <2>1. t = s /\ s.swarms.members[h] = {}
    BY <1>3 DEF RemoveFromTorrent, Good
  <2> QED BY <1>2, <2>1
<1>4. CASE h \in s.swarms.cache.map
  <2>1. PICK g : g = Touch(s, h)
    OBVIOUS
  <2>2. /\ Typed(g) /\ g.swarms.cache.map = s.swarms.cache.map
        /\ g.swarms.members = s.swarms.members /\ g.torrents = s.torrents /\ g.hashes = s.hashes
    BY <1>2, <2>1, TouchLemma
  <2>3. PICK u : u = [g EXCEPT !.swarms.members[h] = left]
    OBVIOUS
  <2>4. left \in SUBSET Entries
    BY <1>1, <1>2
  <2>5. /\ u \in States /\ u.swarms.cache = g.swarms.cache /\ u.torrents = s.torrents
        /\ u.hashes = s.hashes /\ u.swarms.members = [s.swarms.members EXCEPT ![h] = left]
    BY <2>2, <2>3, <2>4 DEF Typed, States
  <2>6. PICK l \in L!Lists : l = g.swarms.cache /\ \E q : Holds(l, q)
    BY <2>2 DEF Typed, States
  <2>7. /\ u.swarms.members[h] = left
        /\ \A i \in InfoHashes \ {h} : u.swarms.members[i] = s.swarms.members[i]
    BY <1>2, <2>5
  <2>8. ASSUME NEW i \in InfoHashes
        PROVE  Cardinality(u.swarms.members[i]) <= MaxPeersPerTorrent
    <3>1. CASE i = h
      <4>1. /\ IsFiniteSet(s.swarms.members[h]) /\ Cardinality(s.swarms.members[h]) \in Nat
            /\ Cardinality(s.swarms.members[h]) <= MaxPeersPerTorrent
        BY <1>2, MembersFinite DEF Good
      <4>2. Cardinality(left) \in Nat /\ Cardinality(left) <= Cardinality(s.swarms.members[h])
        BY <1>1, <4>1, FS_Subset, FS_CardinalityType
      <4> QED BY <2>7, <3>1, <4>1, <4>2, TrackerAssumption
    <3>2. CASE i # h
      BY <2>7, <3>2 DEF Good
    <3> QED BY <3>1, <3>2
  <2>9. CASE left # {}
    <3>1. t = u
      BY <1>1, <1>4, <2>1, <2>3, <2>9 DEF RemoveFromTorrent
    <3>2. \A i \in InfoHashes : (i \in u.swarms.cache.map) <=> (u.swarms.members[i] # {})
      BY <1>4, <2>2, <2>5, <2>7, <2>9 DEF Good
    <3>3. Typed(u) /\ u.swarms.cache.map \subseteq u.torrents
      BY <2>2, <2>5 DEF Typed, Good
    <3>4. Good(u)
      BY <2>8, <3>2, <3>3 DEF Good
    <3> QED BY <1>1, <2>5, <3>1, <3>4
  <2>10. CASE left = {}
    <3>1. PICK m : m = L!RemoveKey(l, h)
      OBVIOUS
    <3>2. m \in L!Lists
      BY <2>6, <3>1, ListTypes
    <3>3. PICK q : Holds(l, q)
      BY <2>6
    <3>4. PICK n \in 1..Len(q) : q[n] = h
      BY <1>4, <2>2, <2>6, <3>3 DEF Holds, KeySet
    <3>5. Holds(m, Without(q, n))
      BY <3>1, <3>3, <3>4, RemoveKeyLemma
    <3>6. m.map = l.map \ {h}
      <4>1. q \in Seq(InfoHashes) /\ Distinct(q) /\ l.map = KeySet(q)
        BY <3>3 DEF Holds, Links
      <4>2. m.map = KeySet(Without(q, n))
        BY <3>5 DEF Holds
      <4> QED BY <3>4, <4>1, <4>2, WithoutLemma
    <3>7. PICK tor \in SUBSET InfoHashes : tor = s.torrents \ {h}
      BY <1>2 DEF States
    <3>8. t = [u EXCEPT !.swarms.cache = m, !.torrents = tor]
      <4>1. t = [u EXCEPT !.swarms.cache = L!RemoveKey(@, h), !.torrents = @ \ {h}]
        BY <1>1, <1>4, <2>1, <2>3, <2>10 DEF RemoveFromTorrent
      <4>2. u.swarms.cache = l /\ u.torrents = s.torrents
        BY <2>5, <2>6
      <4> QED BY <3>1, <3>7, <4>1, <4>2
    <3>9. /\ t \in States /\ t.swarms.cache = m /\ t.torrents = tor /\ t.hashes = s.hashes
          /\ t.swarms.members = u.swarms.members
      <4>1. PICK sw : sw = [u.swarms EXCEPT !.cache = m]
        OBVIOUS
      <4>2. /\ u.swarms \in [cache : L!Lists, members : [InfoHashes -> SUBSET Entries]]
            /\ u \in States
        BY <2>5 DEF States
      <4>3. /\ sw \in [cache : L!Lists, members : [InfoHashes -> SUBSET Entries]]
            /\ sw.cache = m /\ sw.members = u.swarms.members
        BY <3>2, <4>1, <4>2
      <4>4. t = [u EXCEPT !.swarms = sw, !.torrents = tor]
        BY <3>8, <4>1, <4>2 DEF States
      <4>5. t \in States
        BY <4>2, <4>3, <4>4 DEF States
      <4>6. t.swarms = sw /\ t.torrents = tor /\ t.hashes = u.hashes
        BY <4>2, <4>4 DEF States
      <4> QED BY <2>5, <4>3, <4>5, <4>6
    <3>10. \A i \in InfoHashes : (i \in m.map) <=> (t.swarms.members[i] # {})
      BY <2>2, <2>6, <2>7, <2>10, <3>6, <3>9 DEF Good
    <3>11. m.map \subseteq tor
      BY <2>2, <2>6, <3>6, <3>7 DEF Good
    <3>12. Good(t)
      BY <2>8, <3>5, <3>9, <3>10, <3>11 DEF Good, Typed
    <3> QED BY <1>1, <2>5, <3>9, <3>12
  <2> QED BY <2>9, <2>10
<1> QED BY <1>3, <1>4

\* handleDisconnection: e is no longer a member of the torrents it lists.
LEMMA LeftLemma ==
  ASSUME NEW s, Good(s), NEW e \in Entries, NEW t, t = Left(s, e)
  PROVE  /\ Good(t) /\ t.hashes = s.hashes
         /\ \A i \in InfoHashes :
              t.swarms.members[i]
                = s.swarms.members[i] \ (IF i \in Range(s.hashes[e]) THEN {e} ELSE {})
<1>1. PICK q \in Listings : q = s.hashes[e]
  BY DEF Good, Typed, States
<1>2. PICK n \in Nat : n = Len(q) /\ DOMAIN q = 1..n /\ \A i \in 1..n : q[i] \in InfoHashes
  BY DEF Listings
<1>3. PICK V : V = {u \in States : Good(u)}
  OBVIOUS
<1>4. s \in V
  BY <1>3 DEF Good, Typed
<1>5. PICK F : F = [p \in V \X InfoHashes |-> RemoveFromTorrent(p[1], p[2], e)]
  OBVIOUS
<1>6. ASSUME NEW v \in V, NEW h \in InfoHashes
      PROVE  F[<<v, h>>] = RemoveFromTorrent(v, h, e) /\ F[<<v, h>>] \in V
  <2>1. Good(v)
    BY <1>3
  <2>2. Good(RemoveFromTorrent(v, h, e))
    BY <2>1, RemoveLemma
  <2> QED BY <1>3, <1>5, <2>2 DEF Good, Typed
<1>7. F \in [V \X InfoHashes -> V]
  BY <1>5, <1>6
<1>8. PICK g \in [SUBSET (1..n) -> V] : Folds(g, F, s, q, n)
  BY <1>2, <1>4, <1>7, FoldExists DEF Listings
<1> DEFINE Walks(w) == w = [T \in SUBSET (1..n) |->
                              IF T = {} THEN s
                              ELSE RemoveFromTorrent(w[T \ {Max(T)}], q[Max(T)], e)]
<1>9. Left(s, e) = (CHOOSE w : Walks(w))[1..n]
  BY <1>1, <1>2 DEF Left, FoldLeft, MapThenFoldSet
<1>10. Walks(g)
  <2>1. ASSUME NEW T \in SUBSET (1..n)
        PROVE  g[T] = IF T = {} THEN s ELSE RemoveFromTorrent(g[T \ {Max(T)}], q[Max(T)], e)
    <3>1. CASE T = {}
      BY <1>8, <3>1 DEF Folds
    <3>2. CASE T # {}
      <4>1. Max(T) \in T
        BY <3>2, MaxLemma
      <4>2. g[T \ {Max(T)}] \in V /\ q[Max(T)] \in InfoHashes
        BY <1>2, <4>1
      <4>3. g[T] = F[<<g[T \ {Max(T)}], q[Max(T)]>>]
        BY <1>8, <3>2 DEF Folds
      <4> QED BY <1>6, <3>2, <4>2, <4>3
    <3> QED BY <3>1, <3>2
  <2>2. g = [T \in SUBSET (1..n) |-> g[T]]
    OBVIOUS
  <2> QED BY <2>1, <2>2
<1>11. PICK w : w = CHOOSE v : Walks(v)
  OBVIOUS
<1>12. Walks(w)
  <2> HIDE DEF Walks
  <2> QED BY <1>10, <1>11
<1>13. w[{}] = s /\ \A k \in 1..n : w[1..k] = RemoveFromTorrent(w[1..(k - 1)], q[k], e)
  <2>1. ASSUME NEW k \in 1..n PROVE w[1..k] = RemoveFromTorrent(w[1..(k - 1)], q[k], e)
    <3>1. /\ 1..k \in SUBSET (1..n) /\ 1..k # {} /\ Max(1..k) = k /\ (1..k) \ {k} = 1..(k - 1)
      BY PrefixLemma
    <3> QED BY <1>12, <3>1
  <2> QED BY <1>12, <2>1
<1> HIDE DEF Walks
<1> DEFINE Gone(k) == {q[j] : j \in 1..k}
           Done(k) == /\ Good(w[1..k]) /\ w[1..k].hashes = s.hashes
                      /\ \A i \in InfoHashes :
                           w[1..k].swarms.members[i]
                             = s.swarms.members[i] \ (IF i \in Gone(k) THEN {e} ELSE {})
<1>14. PICK P : P = {k \in Nat : k <= n => Done(k)}
  OBVIOUS
<1>15. Done(0)
  <2>1. 1..0 = {} /\ Gone(0) = {}
    OBVIOUS
  <2> QED BY <1>13, <2>1
<1>16. ASSUME NEW k \in Nat, k + 1 <= n, Done(k) PROVE Done(k + 1)
  <2>1. k + 1 \in 1..n /\ (k + 1) - 1 = k
    BY <1>16
  <2>2. PICK u : u = w[1..k]
    OBVIOUS
  <2>3. PICK v : v = w[1..(k + 1)]
    OBVIOUS
  <2>4. v = RemoveFromTorrent(u, q[k + 1], e) /\ q[k + 1] \in InfoHashes
    BY <1>2, <1>13, <2>1, <2>2, <2>3
  <2>5. Good(u) /\ u.hashes = s.hashes
    BY <1>16, <2>2
  <2>6. /\ Good(v) /\ v.hashes = s.hashes
        /\ v.swarms.members = [u.swarms.members EXCEPT ![q[k + 1]] = @ \ {e}]
    BY <2>4, <2>5, RemoveLemma
  <2>7. u.swarms.members \in [InfoHashes -> SUBSET Entries]
    BY <2>5 DEF Good, Typed, States
  <2>8. Gone(k + 1) = Gone(k) \cup {q[k + 1]}
    <3>1. 1..(k + 1) = (1..k) \cup {k + 1}
      OBVIOUS
    <3> QED BY <3>1
  <2>9. ASSUME NEW i \in InfoHashes
        PROVE  v.swarms.members[i]
                 = s.swarms.members[i] \ (IF i \in Gone(k + 1) THEN {e} ELSE {})
    <3>1. u.swarms.members[i] = s.swarms.members[i] \ (IF i \in Gone(k) THEN {e} ELSE {})
      BY <1>16, <2>2
    <3> HIDE DEF Gone
    <3>2. CASE i = q[k + 1]
      BY <2>6, <2>7, <2>8, <3>1, <3>2
    <3>3. CASE i # q[k + 1]
      BY <2>6, <2>7, <2>8, <3>1, <3>3
    <3> QED BY <3>2, <3>3
  <2> QED BY <2>3, <2>6, <2>9
<1> HIDE DEF Done
<1>17. ASSUME NEW k \in Nat, k \in P PROVE k + 1 \in P
  <2>1. CASE k + 1 <= n
    <3>1. k <= n /\ Done(k)
      BY <1>14, <1>17, <2>1
    <3> QED BY <1>14, <1>16, <2>1, <3>1
  <2>2. CASE ~(k + 1 <= n)
    BY <1>14, <2>2
  <2> QED BY <2>1, <2>2
<1>18. Nat \subseteq P
  <2>1. 0 \in P
    BY <1>14, <1>15
  <2> QED BY <1>17, <2>1, Induction
<1>19. Done(n)
  <2>1. n \in P /\ n <= n
    BY <1>18
  <2> QED BY <1>14, <2>1
<1>20. Gone(n) = Range(s.hashes[e])
  BY <1>1, <1>2 DEF Range
<1>21. t = w[1..n]
  BY <1>9, <1>11
<1> HIDE DEF Gone
<1> QED BY <1>19, <1>20, <1>21 DEF Done

\* Listed adds h to the list of e.
LEMMA ListedLemma ==
  ASSUME NEW s, Good(s), NEW h \in InfoHashes, NEW e \in Entries,
         h \in Range(s.hashes[e]) \/ Len(s.hashes[e]) < MaxListed, NEW t, t = Listed(s, h, e)
  PROVE  /\ Good(t) /\ t.swarms = s.swarms /\ t.torrents = s.torrents
         /\ \A x \in Entries \ {e} : t.hashes[x] = s.hashes[x]
<1>1. PICK q \in Listings : q = s.hashes[e]
  BY DEF Good, Typed, States
<1>2. PICK r : r = IF h \in Range(q) THEN q ELSE Append(q, h)
  OBVIOUS
<1>3. r \in Listings
  <2>1. CASE h \in Range(q)
    BY <1>2, <2>1
  <2>2. CASE h \notin Range(q)
    <3>1. PICK n \in Nat : n = Len(q) /\ DOMAIN q = 1..n /\ n < MaxListed
      BY <1>1, <2>2 DEF Listings
    <3>2. /\ r \in Seq(InfoHashes) /\ Len(r) = n + 1 /\ DOMAIN r = 1..n + 1
          /\ r[n + 1] = h /\ \A i \in 1..n : r[i] = q[i] /\ q[i] \in InfoHashes
      BY <1>2, <2>2, <3>1 DEF Listings
    <3>3. \A i \in 1..n : q[i] # h
      BY <2>2, <3>1 DEF Range
    <3>4. ASSUME NEW i \in 1..n + 1, NEW j \in 1..n + 1, r[i] = r[j] PROVE i = j
      <4>1. \A a, b \in 1..n : q[a] = q[b] => a = b
        BY <3>1 DEF Listings, IsInjective
      <4>2. (i \in 1..n \/ i = n + 1) /\ (j \in 1..n \/ j = n + 1)
        OBVIOUS
      <4> QED BY <3>2, <3>3, <3>4, <4>1, <4>2
    <3>5. n + 1 <= MaxListed
      BY <3>1, TrackerAssumption
    <3> QED BY <3>2, <3>4, <3>5 DEF Listings, IsInjective
  <2> QED BY <2>1, <2>2
<1>4. t = [s EXCEPT !.hashes[e] = r]
  BY <1>1, <1>2 DEF Listed
<1>5. /\ t \in States /\ t.swarms = s.swarms /\ t.torrents = s.torrents
      /\ \A x \in Entries \ {e} : t.hashes[x] = s.hashes[x]
  BY <1>3, <1>4 DEF Good, Typed, States
<1> QED BY <1>5 DEF Good, Typed

\* An announce: a member is lost for a cause or because it stops, and e alone is new.
LEMMA AnnouncedLemma ==
  ASSUME NEW h \in InfoHashes, NEW e \in Entries, NEW event \in Events, Good(State),
         MayList(e, h), peers \in Seq(Entries), swarms.members[h] \subseteq Range(peers),
         NEW t, t = Announced(h, e, event)
  PROVE  /\ Good(t)
         /\ \A i \in InfoHashes : \A x \in swarms.members[i] \ t.swarms.members[i] :
              Cause(State, i, x) \/ (x = e /\ i = h /\ event = "stopped")
         /\ \A i \in InfoHashes :
              t.swarms.members[i] \subseteq swarms.members[i] \cup (IF i = h THEN {e} ELSE {})
         /\ \A x \in Entries \ {e} : Range(t.hashes[x]) \subseteq Range(hashes[x])
<1>1. State.swarms = swarms /\ State.hashes = hashes /\ State.torrents = torrents
  BY DEF State
<1>2. PICK s : s = Listed(State, h, e)
  OBVIOUS
<1>3. /\ Good(s) /\ s.swarms = swarms
      /\ \A x \in Entries \ {e} : s.hashes[x] = hashes[x]
  BY <1>1, <1>2, ListedLemma DEF MayList
<1>4. PICK u : u = IF event = "stopped" THEN RemoveFromTorrent(s, h, e) ELSE AddToTorrent(s, h, e)
  OBVIOUS
<1>5. t = Touch(u, h)
  BY <1>2, <1>4 DEF Announced
<1>6. swarms.members \in [InfoHashes -> SUBSET Entries]
  BY <1>1 DEF Good, Typed, States
<1>7. /\ Good(u)
      /\ \A i \in InfoHashes : \A x \in swarms.members[i] \ u.swarms.members[i] :
           Cause(State, i, x) \/ (x = e /\ i = h /\ event = "stopped")
      /\ \A i \in InfoHashes :
           u.swarms.members[i] \subseteq swarms.members[i] \cup (IF i = h THEN {e} ELSE {})
      /\ \A x \in Entries \ {e} : Range(u.hashes[x]) \subseteq Range(hashes[x])
  <2>1. CASE event = "stopped"
    <3>1. /\ Good(u) /\ u.hashes = s.hashes
          /\ u.swarms.members = [swarms.members EXCEPT ![h] = @ \ {e}]
      BY <1>3, <1>4, <2>1, RemoveLemma
    <3>2. \A i \in InfoHashes : \A x \in swarms.members[i] \ u.swarms.members[i] : x = e /\ i = h
      BY <1>6, <3>1
    <3>3. \A i \in InfoHashes : u.swarms.members[i] \subseteq swarms.members[i]
      BY <1>6, <3>1
    <3> QED BY <1>3, <2>1, <3>1, <3>2, <3>3
  <2>2. CASE event # "stopped"
    <3>1. u = AddToTorrent(s, h, e)
      BY <1>4, <2>2
    <3>2. /\ Good(u)
          /\ \A i \in InfoHashes : \A x \in s.swarms.members[i] \ u.swarms.members[i] : Cause(s, i, x)
          /\ \A i \in InfoHashes :
               u.swarms.members[i] \subseteq s.swarms.members[i] \cup (IF i = h THEN {e} ELSE {})
          /\ \A x \in Entries : Range(u.hashes[x]) \subseteq Range(s.hashes[x])
      BY <1>3, <3>1, AddLemma
    <3>3. \A i, x : Cause(s, i, x) => Cause(State, i, x)
      BY <1>1, <1>3 DEF Cause
    <3> QED BY <1>3, <3>2, <3>3
  <2> QED BY <2>1, <2>2
<1>8. Good(t) /\ t.swarms.members = u.swarms.members /\ t.hashes = u.hashes
  <2>1. Typed(u)
    BY <1>7 DEF Good
  <2> QED BY <1>5, <1>7, <2>1, TouchLemma, TouchGood
<1> QED BY <1>7, <1>8
-----------------------------------------------------------------------------
(***************************************************************************)
(* The invariant                                                           *)
(***************************************************************************)
SockType == sock \in [Conns -> {"none", "open", "closing", "closed"}]

\* The peers known to the server are the ones that have connected.
PeersKnown ==
  /\ peers \in Seq(Entries) /\ IsInjective(peers)
  /\ \A c \in Conns : c \in Range(peers) => sock[c] # "none"
  /\ \A c \in Conns : sock[c] = "open" => c \in Range(peers)
  /\ \A h \in InfoHashes : swarms.members[h] \subseteq Range(peers)

IInv ==
  /\ Good(State) /\ torrents \subseteq InfoHashes /\ up \in BOOLEAN
  /\ SockType /\ PeersKnown /\ ClosedLeaves

\* The swarms, the sockets and the peers after a step that keeps the peers.
LEMMA KeepsPeers ==
  ASSUME IInv, NEW t, Good(t), Update(t), UNCHANGED <<peers, up>>,
         sock' \in [Conns -> {"none", "open", "closing", "closed"}],
         \A c \in Conns : sock'[c] = "none" => sock[c] = "none",
         \A c \in Conns : sock'[c] = "open" => sock[c] = "open",
         \A h \in InfoHashes : t.swarms.members[h] \subseteq Range(peers)
  PROVE  Good(State)' /\ (torrents \subseteq InfoHashes)' /\ (up \in BOOLEAN)'
         /\ SockType' /\ PeersKnown'
<1>1. State' = [swarms |-> t.swarms, torrents |-> t.torrents, hashes |-> t.hashes]
  BY DEF State, Update
<1>2. t = [swarms |-> t.swarms, torrents |-> t.torrents, hashes |-> t.hashes]
  BY DEF Good, Typed, States
<1>3. Good(State')
  BY <1>1, <1>2
<1>4. Good(State)' <=> Good(State')
  BY DEF Good, Typed, State
<1>5. torrents' \subseteq InfoHashes
  BY DEF Update, Good, Typed, States
<1>6. PeersKnown'
  BY DEF PeersKnown, IInv, Update
<1> QED BY <1>3, <1>4, <1>5, <1>6 DEF IInv, SockType

\* Nothing is known at first.
LEMMA InitHolds == Init => IInv
<1> SUFFICES ASSUME Init PROVE IInv
  OBVIOUS
<1>1. <<>> \in Listings /\ Range(<<>>) = {}
  <2>1. /\ <<>> \in Seq(InfoHashes) /\ Len(<<>>) = 0 /\ DOMAIN <<>> = {} /\ MaxListed \in Nat
    BY TrackerAssumption
  <2> QED BY <2>1 DEF Listings, IsInjective, Range
<1>2. PICK l : l = L!NewCache
  OBVIOUS
<1>3. Holds(l, <<>>) /\ l \in L!Lists /\ l.map = {}
  BY <1>2, NewCacheLemma DEF L!NewCache, L!Lists, L!Link
<1>4. PICK s : s = State
  OBVIOUS
<1>5. /\ s.swarms.cache = l /\ s.torrents = {}
      /\ s.swarms.members = [h \in InfoHashes |-> {}] /\ s.hashes = [e \in Entries |-> <<>>]
      /\ s = [swarms |-> [cache |-> l, members |-> [h \in InfoHashes |-> {}]],
              torrents |-> {}, hashes |-> [e \in Entries |-> <<>>]]
  BY <1>2, <1>4 DEF State, Init
<1>6. s \in States
  BY <1>1, <1>3, <1>5 DEF States
<1>7. \A h \in InfoHashes : s.swarms.members[h] = {} /\ Cardinality({}) <= MaxPeersPerTorrent
  BY <1>5, FS_EmptySet, TrackerAssumption
<1>8. Good(State)
  BY <1>3, <1>4, <1>5, <1>6, <1>7 DEF Good, Typed
<1>9. SockType /\ \A c \in Conns : sock[c] = "none"
  BY DEF Init, SockType
<1>10. PeersKnown
  <2>1. peers = <<>> /\ peers \in Seq(Entries) /\ IsInjective(peers) /\ Range(peers) = {}
    BY <1>1 DEF Init, IsInjective
  <2>2. \A h \in InfoHashes : swarms.members[h] = {}
    BY DEF Init
  <2> QED BY <1>9, <2>1, <2>2 DEF PeersKnown
<1>11. ClosedLeaves
  BY <1>9 DEF ClosedLeaves
<1> QED BY <1>8, <1>9, <1>10, <1>11 DEF IInv, Init

\* A new peer at the end of the map.
LEMMA AppendPeer ==
  ASSUME peers \in Seq(Entries), IsInjective(peers), NEW e \in Entries \ Range(peers)
  PROVE  /\ Append(peers, e) \in Seq(Entries) /\ IsInjective(Append(peers, e))
         /\ Range(Append(peers, e)) = Range(peers) \cup {e}
<1>1. PICK n \in Nat : n = Len(peers) /\ DOMAIN peers = 1..n
  OBVIOUS
<1>2. PICK r : r = Append(peers, e)
  OBVIOUS
<1>3. /\ r \in Seq(Entries) /\ DOMAIN r = 1..n + 1 /\ r[n + 1] = e
      /\ \A i \in 1..n : r[i] = peers[i]
  BY <1>1, <1>2
<1>4. \A i \in 1..n : peers[i] # e
  BY <1>1 DEF Range
<1>5. ASSUME NEW i \in 1..n + 1, NEW j \in 1..n + 1, r[i] = r[j] PROVE i = j
  <2>1. \A a, b \in 1..n : peers[a] = peers[b] => a = b
    BY <1>1 DEF IsInjective
  <2>2. (i \in 1..n \/ i = n + 1) /\ (j \in 1..n \/ j = n + 1)
    OBVIOUS
  <2> QED BY <1>3, <1>4, <1>5, <2>1, <2>2
<1>6. Range(r) = Range(peers) \cup {e}
  <2>1. 1..n + 1 = (1..n) \cup {n + 1}
    OBVIOUS
  <2>2. Range(r) = {r[i] : i \in 1..n} \cup {e}
    BY <1>3, <2>1 DEF Range
  <2>3. {r[i] : i \in 1..n} = Range(peers)
    BY <1>1, <1>3 DEF Range
  <2> QED BY <2>2, <2>3
<1> QED BY <1>2, <1>3, <1>5, <1>6 DEF IsInjective

\* Another peer is known, and nothing is forgotten.
LEMMA KnowsPeer ==
  ASSUME IInv, NEW e \in Entries, NEW t, Good(t), Update(t), UNCHANGED up,
         peers' = IF e \in Range(peers) THEN peers ELSE Append(peers, e),
         sock' = IF e \in Conns /\ sock[e] = "none" THEN [sock EXCEPT ![e] = "open"] ELSE sock,
         e \in Conns => sock[e] \in {"none", "open"},
         \A h \in InfoHashes : t.swarms.members[h] \subseteq Range(peers) \cup {e}
  PROVE  Good(State)' /\ (torrents \subseteq InfoHashes)' /\ (up \in BOOLEAN)'
         /\ SockType' /\ PeersKnown'
<1>1. State' = [swarms |-> t.swarms, torrents |-> t.torrents, hashes |-> t.hashes]
  BY DEF State, Update
<1>2. t = [swarms |-> t.swarms, torrents |-> t.torrents, hashes |-> t.hashes]
  BY DEF Good, Typed, States
<1>3. Good(State)'
  BY <1>1, <1>2 DEF Good, Typed
<1>4. torrents' \subseteq InfoHashes
  BY DEF Update, Good, Typed, States
<1>5. SockType'
  BY DEF SockType, IInv
<1>6. peers' \in Seq(Entries) /\ IsInjective(peers') /\ Range(peers') = Range(peers) \cup {e}
  BY AppendPeer DEF PeersKnown, IInv
<1>7. \A c \in Conns : sock'[c] = IF c = e /\ sock[c] = "none" THEN "open" ELSE sock[c]
  BY DEF SockType, IInv
<1>8. \A c \in Conns : c \in Range(peers) => sock[c] # "none"
  BY DEF PeersKnown, IInv
<1>9. \A c \in Conns : sock[c] = "open" => c \in Range(peers)
  BY DEF PeersKnown, IInv
<1>10. \A c \in Conns : c \in Range(peers') => sock'[c] # "none"
  BY <1>6, <1>7, <1>8
<1>11. \A c \in Conns : sock'[c] = "open" => c \in Range(peers')
  BY <1>6, <1>7, <1>9
<1>12. PeersKnown'
  BY <1>6, <1>10, <1>11 DEF PeersKnown, Update
<1> QED BY <1>3, <1>4, <1>5, <1>12 DEF IInv

\* Facts of the invariant that every step starts from.
LEMMA InvFacts ==
  ASSUME IInv
  PROVE  /\ State.swarms = swarms /\ State.hashes = hashes /\ State.torrents = torrents
         /\ swarms.members \in [InfoHashes -> SUBSET Entries]
         /\ hashes \in [Entries -> Listings] /\ Entries = Conns \cup HttpIds
         /\ Conns \cap HttpIds = {}
<1>1. State.swarms = swarms /\ State.hashes = hashes /\ State.torrents = torrents
  BY DEF State
<1>2. State \in States
  BY DEF IInv, Good, Typed
<1> QED BY <1>1, <1>2, TrackerAssumption DEF States, Entries

\* An announce by a connection or by a peer of the HTTP tracker keeps ClosedLeaves.
LEMMA AnnouncedKeeps ==
  ASSUME IInv, NEW h \in InfoHashes, NEW e \in Entries, NEW t, Update(t), UNCHANGED sock,
         e \in Conns => sock[e] = "open",
         \A i \in InfoHashes :
           t.swarms.members[i] \subseteq swarms.members[i] \cup (IF i = h THEN {e} ELSE {}),
         \A x \in Entries \ {e} : Range(t.hashes[x]) \subseteq Range(hashes[x])
  PROVE  ClosedLeaves'
<1> SUFFICES ASSUME NEW c \in Conns, NEW i \in InfoHashes,
                    sock'[c] = "closed", c \in swarms'.members[i], i \in Range(hashes'[c])
             PROVE  FALSE
  BY DEF ClosedLeaves
<1>1. c \in Entries /\ c # e
  BY InvFacts
<1>2. c \in swarms.members[i] /\ i \in Range(hashes[c])
  BY <1>1 DEF Update
<1> QED BY <1>2 DEF IInv, ClosedLeaves

\* Every step keeps the invariant.
LEMMA NextHolds == IInv /\ [Next]_vars => IInv'
<1> SUFFICES ASSUME IInv, [Next]_vars PROVE IInv'
  OBVIOUS
<1> USE InvFacts
<1>1. ASSUME NEW c \in Conns, Connect(c) PROVE IInv'
  <2>1. c \in Entries /\ c \notin Range(peers)
    BY <1>1 DEF Connect, IInv, PeersKnown
  <2>2. Good(State) /\ Update(State)
    BY <1>1 DEF Connect, IInv, Update
  <2>3. Good(State)' /\ (torrents \subseteq InfoHashes)' /\ (up \in BOOLEAN)'
        /\ SockType' /\ PeersKnown'
    <3>1. \A h \in InfoHashes : State.swarms.members[h] \subseteq Range(peers) \cup {c}
      BY DEF IInv, PeersKnown
    <3> QED BY <1>1, <2>1, <2>2, <3>1, KnowsPeer DEF Connect
  <2>4. ClosedLeaves'
    BY <1>1 DEF Connect, IInv, ClosedLeaves, SockType
  <2> QED BY <2>3, <2>4 DEF IInv
<1>2. ASSUME NEW c \in Conns, NEW h \in InfoHashes, NEW event \in Events, Announce(c, h, event)
      PROVE  IInv'
  <2>1. c \in Entries /\ sock[c] = "open" /\ MayList(c, h) /\ c \in Range(peers)
    BY <1>2 DEF Announce, IsOpen, IInv, PeersKnown
  <2>2. PICK t : t = Announced(h, c, event)
    OBVIOUS
  <2>3. /\ Good(t)
        /\ \A i \in InfoHashes :
             t.swarms.members[i] \subseteq swarms.members[i] \cup (IF i = h THEN {c} ELSE {})
        /\ \A x \in Entries \ {c} : Range(t.hashes[x]) \subseteq Range(hashes[x])
    <3>1. Good(State) /\ peers \in Seq(Entries) /\ swarms.members[h] \subseteq Range(peers)
      BY DEF IInv, PeersKnown
    <3> QED BY <2>1, <2>2, <3>1, AnnouncedLemma
  <2>4. Update(t) /\ UNCHANGED <<peers, sock, up>>
    BY <1>2, <2>2 DEF Announce
  <2>5. Good(State)' /\ (torrents \subseteq InfoHashes)' /\ (up \in BOOLEAN)'
        /\ SockType' /\ PeersKnown'
    <3>1. \A i \in InfoHashes : t.swarms.members[i] \subseteq Range(peers)
      BY <2>1, <2>3 DEF IInv, PeersKnown
    <3> QED BY <2>3, <2>4, <3>1, KeepsPeers DEF IInv, SockType
  <2>6. ClosedLeaves'
    BY <2>1, <2>3, <2>4, AnnouncedKeeps
  <2> QED BY <2>5, <2>6 DEF IInv
<1>3. ASSUME NEW x \in HttpIds, NEW h \in InfoHashes, NEW event \in Events,
             HttpAnnounce(x, h, event)
      PROVE  IInv'
  <2>1. x \in Entries /\ x \notin Conns /\ MayList(x, h)
    BY <1>3 DEF HttpAnnounce
  <2>2. PICK t : t = Announced(h, x, event)
    OBVIOUS
  <2>3. /\ Good(t)
        /\ \A i \in InfoHashes :
             t.swarms.members[i] \subseteq swarms.members[i] \cup (IF i = h THEN {x} ELSE {})
        /\ \A y \in Entries \ {x} : Range(t.hashes[y]) \subseteq Range(hashes[y])
    <3>1. Good(State) /\ peers \in Seq(Entries) /\ swarms.members[h] \subseteq Range(peers)
      BY DEF IInv, PeersKnown
    <3> QED BY <2>1, <2>2, <3>1, AnnouncedLemma
  <2>4. /\ Update(t) /\ UNCHANGED <<sock, up>>
        /\ peers' = IF x \in Range(peers) THEN peers ELSE Append(peers, x)
    BY <1>3, <2>2 DEF HttpAnnounce
  <2>5. Good(State)' /\ (torrents \subseteq InfoHashes)' /\ (up \in BOOLEAN)'
        /\ SockType' /\ PeersKnown'
    <3>1. \A i \in InfoHashes : t.swarms.members[i] \subseteq Range(peers) \cup {x}
      BY <2>3 DEF IInv, PeersKnown
    <3> QED BY <2>1, <2>3, <2>4, <3>1, KnowsPeer
  <2>6. ClosedLeaves'
    BY <2>1, <2>3, <2>4, AnnouncedKeeps
  <2> QED BY <2>5, <2>6 DEF IInv
<1>4. ASSUME NEW h \in InfoHashes, Scrape(h) PROVE IInv'
  <2>1. PICK t : t = Touch(State, h)
    OBVIOUS
  <2>2. Good(t) /\ t.swarms.members = swarms.members /\ t.hashes = hashes
    <3>1. Good(State) /\ Typed(State)
      BY DEF IInv, Good
    <3> QED BY <2>1, <3>1, TouchGood, TouchLemma
  <2>3. Update(t) /\ UNCHANGED <<peers, sock, up>>
    BY <1>4, <2>1 DEF Scrape
  <2>4. Good(State)' /\ (torrents \subseteq InfoHashes)' /\ (up \in BOOLEAN)'
        /\ SockType' /\ PeersKnown'
    BY <2>2, <2>3, KeepsPeers DEF IInv, SockType, PeersKnown
  <2>5. ClosedLeaves'
    BY <2>2, <2>3 DEF ClosedLeaves, IInv, Update
  <2> QED BY <2>4, <2>5 DEF IInv
<1>5. ASSUME NEW c \in Conns, Disconnect(c) PROVE IInv'
  <2>1. PICK t : t = Left(State, c)
    OBVIOUS
  <2>2. /\ Good(t) /\ t.hashes = hashes
        /\ \A i \in InfoHashes :
             t.swarms.members[i]
               = swarms.members[i] \ (IF i \in Range(hashes[c]) THEN {c} ELSE {})
    BY <2>1, LeftLemma DEF IInv
  <2>3. Update(t) /\ UNCHANGED <<peers, up>> /\ sock' = [sock EXCEPT ![c] = "closed"]
    BY <1>5, <2>1 DEF Disconnect
  <2>4. \A d \in Conns : sock'[d] = IF d = c THEN "closed" ELSE sock[d]
    BY <2>3 DEF IInv, SockType
  <2>5. Good(State)' /\ (torrents \subseteq InfoHashes)' /\ (up \in BOOLEAN)'
        /\ SockType' /\ PeersKnown'
    <3>1. \A i \in InfoHashes : t.swarms.members[i] \subseteq Range(peers)
      BY <2>2 DEF IInv, PeersKnown
    <3>2. sock' \in [Conns -> {"none", "open", "closing", "closed"}]
      BY <2>3 DEF IInv, SockType
    <3> QED BY <2>2, <2>3, <2>4, <3>1, <3>2, KeepsPeers
  <2>6. ClosedLeaves'
    <3> SUFFICES ASSUME NEW d \in Conns, NEW i \in InfoHashes, sock'[d] = "closed",
                        d \in swarms'.members[i], i \in Range(hashes'[d])
                 PROVE  FALSE
      BY DEF ClosedLeaves
    <3>1. d \in t.swarms.members[i] /\ i \in Range(hashes[d])
      BY <2>2, <2>3 DEF Update
    <3>2. CASE d = c
      BY <2>2, <3>1, <3>2
    <3>3. CASE d # c
      BY <2>2, <2>4, <3>1, <3>3 DEF IInv, ClosedLeaves
    <3> QED BY <3>2, <3>3
  <2> QED BY <2>5, <2>6 DEF IInv
<1>6. ASSUME Close PROVE IInv'
  <2>1. PICK http : http = {i \in 1..Len(peers) : peers[i] \in HttpIds}
    OBVIOUS
  <2>2. PICK reached : reached = {peers[i] : i \in {j \in 1..Len(peers) :
                                                     \A k \in http : j < k}}
    OBVIOUS
  <2>3. /\ up' = FALSE /\ UNCHANGED hashes
        /\ sock' = [c \in Conns |-> IF c \in reached /\ sock[c] = "open" THEN "closing"
                                    ELSE sock[c]]
        /\ \/ http # {} /\ UNCHANGED <<peers, swarms, torrents>>
           \/ /\ http = {} /\ peers' = <<>>
              /\ swarms' = [cache |-> L!NewCache, members |-> [h \in InfoHashes |-> {}]]
              /\ torrents' = {}
    BY <1>6, <2>1, <2>2 DEF Close
  <2>4. /\ SockType'
        /\ \A c \in Conns : sock'[c] = "closed" => sock[c] = "closed"
        /\ \A c \in Conns : sock'[c] = "open" => sock[c] = "open" /\ c \notin reached
        /\ \A c \in Conns : sock'[c] = "none" => sock[c] = "none"
    BY <2>3 DEF IInv, SockType
  <2>5. CASE http # {}
    <3>1. UNCHANGED <<peers, swarms, torrents, hashes>>
      BY <2>3, <2>5
    <3>2. Good(State)'
      BY <3>1 DEF IInv, Good, Typed, State
    <3>3. PeersKnown'
      BY <2>4, <3>1 DEF IInv, PeersKnown
    <3>4. ClosedLeaves'
      BY <2>4, <3>1 DEF IInv, ClosedLeaves
    <3> QED BY <2>3, <2>4, <3>1, <3>2, <3>3, <3>4 DEF IInv
  <2>6. CASE http = {}
    <3>1. /\ peers' = <<>> /\ torrents' = {} /\ hashes' = hashes
          /\ swarms' = [cache |-> L!NewCache, members |-> [h \in InfoHashes |-> {}]]
      BY <2>3, <2>6
    <3>2. \A c \in Conns : c \in Range(peers) => c \in reached
      BY <2>2, <2>6 DEF IInv, PeersKnown, Range
    <3>3. \A c \in Conns : sock'[c] # "open"
      BY <2>4, <3>2 DEF IInv, PeersKnown
    <3>4. Good(State)'
      <4>1. PICK l : l = L!NewCache
        OBVIOUS
      <4>2. Holds(l, <<>>) /\ l \in L!Lists /\ l.map = {}
        BY <4>1, NewCacheLemma DEF L!NewCache, L!Lists, L!Link
      <4>3. PICK s : s = State'
        OBVIOUS
      <4>4. /\ s.swarms.cache = l /\ s.torrents = {}
            /\ s.swarms.members = [h \in InfoHashes |-> {}]
            /\ s = [swarms |-> [cache |-> l, members |-> [h \in InfoHashes |-> {}]],
                    torrents |-> {}, hashes |-> hashes]
        BY <3>1, <4>1, <4>3 DEF State
      <4>5. s \in States
        BY <4>2, <4>4 DEF States
      <4>6. \A h \in InfoHashes : s.swarms.members[h] = {}
                                  /\ Cardinality({}) <= MaxPeersPerTorrent
        BY <4>4, FS_EmptySet, TrackerAssumption
      <4>7. Good(s)
        BY <4>2, <4>4, <4>5, <4>6 DEF Good, Typed
      <4> QED BY <4>3, <4>7 DEF Good, Typed
    <3>5. /\ peers' \in Seq(Entries) /\ IsInjective(peers') /\ Range(peers') = {}
          /\ \A h \in InfoHashes : swarms'.members[h] = {}
      BY <3>1 DEF IsInjective, Range
    <3>6. PeersKnown'
      BY <3>3, <3>5 DEF PeersKnown
    <3>7. ClosedLeaves'
      BY <3>5 DEF ClosedLeaves
    <3> QED BY <2>3, <2>4, <3>1, <3>4, <3>6, <3>7 DEF IInv
  <2> QED BY <2>5, <2>6
<1>7. CASE UNCHANGED vars
  BY <1>7 DEF IInv, vars, Good, Typed, State, SockType, PeersKnown, ClosedLeaves
<1> QED BY <1>1, <1>2, <1>3, <1>4, <1>5, <1>6, <1>7 DEF Next

\* The invariant holds in every reachable state.
THEOREM Invariant == Spec => []IInv
BY InitHolds, NextHolds, PTL DEF Spec
-----------------------------------------------------------------------------
(***************************************************************************)
(* The properties                                                          *)
(***************************************************************************)

\* Who announces may join swarms, nobody else.
LEMMA OnlyWhoAnnouncesJoins ==
  ASSUME IInv, NEW c \in Conns, NEW h \in InfoHashes, NEW event \in Events, Announce(c, h, event)
  PROVE  \A i \in InfoHashes : swarms'.members[i] \subseteq swarms.members[i] \cup {c}
<1>1. PICK t : t = Announced(h, c, event)
  OBVIOUS
<1>2. Update(t) /\ MayList(c, h)
  BY <1>1 DEF Announce
<1>3. c \in Entries /\ Good(State) /\ peers \in Seq(Entries) /\ swarms.members[h] \subseteq Range(peers)
  BY InvFacts DEF IInv, PeersKnown
<1>4. \A i \in InfoHashes :
        t.swarms.members[i] \subseteq swarms.members[i] \cup (IF i = h THEN {c} ELSE {})
  BY <1>1, <1>2, <1>3, AnnouncedLemma
<1> QED BY <1>2, <1>4 DEF Update

\* Nobody joins a swarm when a socket closes.
LEMMA NobodyJoinsByClosing ==
  ASSUME IInv, NEW c \in Conns, Disconnect(c)
  PROVE  \A i \in InfoHashes : swarms'.members[i] \subseteq swarms.members[i]
<1>1. PICK t : t = Left(State, c)
  OBVIOUS
<1>2. Update(t) /\ State.swarms = swarms
  BY <1>1, InvFacts DEF Disconnect
<1>3. c \in Entries /\ Good(State)
  BY InvFacts DEF IInv
<1>4. \A i \in InfoHashes : t.swarms.members[i] \subseteq State.swarms.members[i]
  BY <1>1, <1>3, LeftLemma
<1> QED BY <1>2, <1>4 DEF Update

\* A list in some order is linked both ways.
LEMMA HoldsLinked ==
  ASSUME NEW l, NEW q, Holds(l, q)
  PROVE  L!Linked(l)
<1>1. /\ q \in Seq(InfoHashes) /\ Distinct(q) /\ l.map = KeySet(q) /\ l.size = Len(q)
      /\ Len(q) <= MaxTorrents /\ Null \notin InfoHashes
  BY TrackerAssumption DEF Holds, Links
<1>2. PICK n \in Nat : n = Len(q) /\ \A i \in 1..n : q[i] \in InfoHashes
  BY <1>1
<1>3. l.size = Cardinality(l.map) /\ l.size <= MaxTorrents
  BY <1>1, CountLemma
<1>4. (n = 0) <=> (l.map = {})
  <2>1. l.map = {q[i] : i \in 1..n}
    BY <1>1, <1>2 DEF KeySet
  <2>2. CASE n = 0
    BY <2>1, <2>2
  <2>3. CASE n # 0
    <3>1. q[1] \in l.map
      BY <2>1, <2>3
    <3> QED BY <2>3, <3>1
  <2> QED BY <2>2, <2>3
<1>5. /\ (l.head = Null) <=> (l.map = {})
      /\ (l.tail = Null) <=> (l.map = {})
  BY <1>1, <1>2, <1>4 DEF Holds, Links
<1>6. \A k \in InfoHashes \ l.map : l.prev[k] = Null /\ l.next[k] = Null
  BY <1>1 DEF Holds, Links
<1>7. ASSUME NEW k \in l.map
      PROVE  /\ IF k = l.head THEN l.prev[k] = Null
                ELSE l.prev[k] \in l.map /\ l.next[l.prev[k]] = k
             /\ IF k = l.tail THEN l.next[k] = Null
                ELSE l.next[k] \in l.map /\ l.prev[l.next[k]] = k
  <2>1. PICK i \in 1..n : k = q[i]
    BY <1>1, <1>2 DEF KeySet
  <2>2. 1 \in 1..n /\ n \in 1..n /\ l.head = q[1] /\ l.tail = q[n]
    BY <1>2, <2>1 DEF Holds, Links
  <2>3. (k = l.head <=> i = 1) /\ (k = l.tail <=> i = n)
    BY <1>1, <1>2, <2>1, <2>2 DEF Distinct
  <2>4. \A j \in 1..n : /\ l.prev[q[j]] = (IF j = 1 THEN Null ELSE q[j - 1])
                        /\ l.next[q[j]] = (IF j = n THEN Null ELSE q[j + 1])
    BY <1>2 DEF Holds, Links
  <2>5. i # 1 => l.prev[k] = q[i - 1] /\ q[i - 1] \in l.map /\ l.next[q[i - 1]] = k
    <3>1. i # 1 => i - 1 \in 1..n /\ i - 1 # n /\ (i - 1) + 1 = i
      OBVIOUS
    <3> QED BY <1>1, <1>2, <2>1, <2>4, <3>1 DEF KeySet
  <2>6. i # n => l.next[k] = q[i + 1] /\ q[i + 1] \in l.map /\ l.prev[q[i + 1]] = k
    <3>1. i # n => i + 1 \in 1..n /\ i + 1 # 1 /\ (i + 1) - 1 = i
      OBVIOUS
    <3> QED BY <1>1, <1>2, <2>1, <2>4, <3>1 DEF KeySet
  <2> QED BY <2>1, <2>3, <2>4, <2>5, <2>6
<1> QED BY <1>3, <1>5, <1>6, <1>7 DEF L!Linked, L!Cardinality, Cardinality

\* The cache of swarms is a well-formed list in last-used order of the swarms
\* with members, and every swarm has its entry in torrents.
THEOREM CacheSoundHolds == Spec => []CacheSound
<1>1. ASSUME IInv PROVE CacheSound
  <2>1. PICK q : Holds(swarms.cache, q)
    BY <1>1 DEF IInv, Good, Typed, State
  <2>2. L!Linked(swarms.cache)
    BY <2>1, HoldsLinked
  <2>3. Len(L!KeysInOrder(swarms.cache)) = Cardinality(swarms.cache.map)
    BY <2>1, KeysInOrderLemma, CountLemma DEF Holds, Links
  <2>4. /\ \A h \in InfoHashes : (h \in swarms.cache.map) <=> (swarms.members[h] # {})
        /\ swarms.cache.map \subseteq torrents
    BY <1>1 DEF IInv, Good, State
  <2> QED BY <2>2, <2>3, <2>4 DEF CacheSound
<1> QED BY <1>1, Invariant, PTL

\* No swarm has more than maxPeersPerTorrent members.
THEOREM SwarmsBoundedHolds == Spec => []SwarmsBounded
<1>1. IInv => SwarmsBounded
  BY DEF IInv, Good, State, SwarmsBounded
<1> QED BY <1>1, Invariant, PTL

\* A closed connection stays a member only of a torrent its list has lost.
THEOREM ClosedLeavesHolds == Spec => []ClosedLeaves
<1>1. IInv => ClosedLeaves
  BY DEF IInv
<1> QED BY <1>1, Invariant, PTL

\* Type correctness.
THEOREM TypeCorrect == Spec => []TypeOK
<1>1. ASSUME IInv PROVE TypeOK
  <2>1. State \in States
    BY <1>1 DEF IInv, Good, Typed
  <2>2. /\ swarms.cache \in L!Lists /\ swarms.members \in [InfoHashes -> SUBSET Entries]
        /\ hashes \in [Entries -> Listings]
    BY <2>1 DEF States, State
  <2>3. /\ hashes \in [Entries -> Seq(InfoHashes)]
        /\ \A e \in Entries : IsInjective(hashes[e]) /\ Len(hashes[e]) <= MaxListed
    BY <2>2 DEF Listings
  <2>4. IsInjective(peers) /\ Range(peers) \subseteq Entries
    BY <1>1 DEF IInv, PeersKnown, Range
  <2> QED BY <1>1, <2>2, <2>3, <2>4 DEF TypeOK, IInv, SockType
<1> QED BY <1>1, Invariant, PTL

\* A cause in the state of the server is one that LeavesForCause names.
LEMMA CauseLemma ==
  ASSUME NEW h \in InfoHashes, NEW x, Cause(State, h, x)
  PROVE  \/ /\ Cardinality(swarms.members[h]) = MaxPeersPerTorrent
            /\ \A f \in swarms.members[h] : Position(x) <= Position(f)
         \/ /\ Cardinality(swarms.cache.map) = MaxTorrents
            /\ L!KeysInOrder(swarms.cache)[MaxTorrents] = h
<1>1. State.swarms = swarms
  BY DEF State
<1> QED BY <1>1 DEF Cause, LastUsed

\* A member leaves a swarm because it said so or closed, or as the first to
\* have connected of a full swarm, or with the least recently used swarm.
THEOREM LeavesForCauseHolds == Spec => LeavesForCause
<1> DEFINE Reason(h, e) ==
      \/ e \in Conns /\ (sock'[e] = "closed" \/ Announce(e, h, "stopped"))
      \/ e \in HttpIds /\ HttpAnnounce(e, h, "stopped")
      \/ /\ Cardinality(swarms.members[h]) = MaxPeersPerTorrent
         /\ \A f \in swarms.members[h] : Position(e) <= Position(f)
      \/ /\ Cardinality(swarms.cache.map) = MaxTorrents
         /\ L!KeysInOrder(swarms.cache)[MaxTorrents] = h
      \/ Close
<1>1. ASSUME IInv, [Next]_vars
      PROVE  [\A h \in InfoHashes : \A e \in swarms.members[h] \ swarms'.members[h] :
                Reason(h, e)]_vars
  <2> SUFFICES ASSUME Next, NEW i \in InfoHashes, NEW y \in swarms.members[i] \ swarms'.members[i]
               PROVE  Reason(i, y)
    BY <1>1
  <2> USE <1>1, InvFacts
  <2>1. ASSUME NEW e \in Entries, NEW h \in InfoHashes, NEW event \in Events, MayList(e, h),
               Update(Announced(h, e, event))
        PROVE  Cause(State, i, y) \/ (y = e /\ i = h /\ event = "stopped")
    <3>1. Good(State) /\ peers \in Seq(Entries) /\ swarms.members[h] \subseteq Range(peers)
      BY DEF IInv, PeersKnown
    <3>2. PICK t : t = Announced(h, e, event)
      OBVIOUS
    <3>3. \A x \in swarms.members[i] \ t.swarms.members[i] :
            Cause(State, i, x) \/ (x = e /\ i = h /\ event = "stopped")
      BY <2>1, <3>1, <3>2, AnnouncedLemma
    <3>4. swarms' = t.swarms
      BY <2>1, <3>2 DEF Update
    <3> QED BY <3>3, <3>4
  <2>2. ASSUME NEW c \in Conns, Connect(c) PROVE FALSE
    BY <2>2 DEF Connect
  <2>3. ASSUME NEW c \in Conns, NEW h \in InfoHashes, NEW event \in Events, Announce(c, h, event)
        PROVE  Reason(i, y)
    <3>1. Cause(State, i, y) \/ (y = c /\ i = h /\ event = "stopped")
      BY <2>1, <2>3 DEF Announce
    <3> QED BY <2>3, <3>1, CauseLemma
  <2>4. ASSUME NEW x \in HttpIds, NEW h \in InfoHashes, NEW event \in Events,
               HttpAnnounce(x, h, event)
        PROVE  Reason(i, y)
    <3>1. Cause(State, i, y) \/ (y = x /\ i = h /\ event = "stopped")
      BY <2>1, <2>4 DEF HttpAnnounce
    <3> QED BY <2>4, <3>1, CauseLemma
  <2>5. ASSUME NEW h \in InfoHashes, Scrape(h) PROVE FALSE
    <3>1. Typed(State)
      BY DEF IInv, Good
    <3>2. swarms'.members = swarms.members
      BY <2>5, <3>1, TouchLemma DEF Scrape, Update
    <3> QED BY <3>2
  <2>6. ASSUME NEW c \in Conns, Disconnect(c) PROVE Reason(i, y)
    <3>1. Good(State) /\ c \in Entries
      BY DEF IInv
    <3>2. PICK t : t = Left(State, c)
      OBVIOUS
    <3>3. \A h \in InfoHashes :
            t.swarms.members[h]
              = swarms.members[h] \ (IF h \in Range(hashes[c]) THEN {c} ELSE {})
      <4>1. \A h \in InfoHashes :
              t.swarms.members[h] = State.swarms.members[h]
                                      \ (IF h \in Range(State.hashes[c]) THEN {c} ELSE {})
        <5> HIDE DEF Reason
        <5> QED BY <3>1, <3>2, LeftLemma
      <4> QED BY <4>1
    <3>4. swarms' = t.swarms /\ sock' = [sock EXCEPT ![c] = "closed"]
      BY <2>6, <3>2 DEF Disconnect, Update
    <3>5. y = c /\ sock'[c] = "closed"
      BY <3>3, <3>4 DEF IInv, SockType
    <3> QED BY <3>5
  <2> QED BY <2>2, <2>3, <2>4, <2>5, <2>6 DEF Next
<1> QED BY <1>1, Invariant, PTL DEF Spec, LeavesForCause
=============================================================================

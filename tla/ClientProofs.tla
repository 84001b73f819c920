---------------------------- MODULE ClientProofs ----------------------------
(***************************************************************************)
(* Proofs about Client: what its maps, list and registry say of the        *)
(* sessions between calls, that destroy leaves nothing, and that what is   *)
(* seeded is of its input and complete, for every number of overlapping    *)
(* calls.                                                                  *)
(***************************************************************************)
EXTENDS Client, RecursionLemmas, FiniteSetTheorems, SequenceTheorems, TLAPS

SessionFields ==
  {"hash", "known", "torrent", "swarm", "closed", "verified", "beside", "late"}
CallFields ==
  {"at", "input", "hash", "known", "written", "result", "wipe", "next", "found", "mixed"}

\* Where a call stands that has not made its session.
Early == {"idle", "write", "generate", "parse", "store"}

\* Where a seed stands that has one, and its steps that scan it.
AtStore == {"populate", "rescan", "scan", "mark", "done"}
Scans(s) == RescanFiles(s) \/ ScanRead(s) \/ ScanMark(s)

\* The sessions are records of the calls that made them, as far as those got.
SessionShape ==
  /\ Made \subseteq Sessions
  /\ \A c \in Made :
       /\ DOMAIN session[c] = SessionFields
       /\ session[c].torrent \in BOOLEAN /\ session[c].swarm \in BOOLEAN
CallShape ==
  /\ DOMAIN call = Calls
  /\ \A c \in Calls : DOMAIN call[c] = CallFields
  /\ \A c \in Sessions : call[c].at \in Early => c \notin Made
  /\ \A c \in Made : session[c].known = call[c].known
  /\ \A r \in Removes : call[r].at = "closing" =>
       call[r].result \in Made /\ session[call[r].result].hash = call[r].hash

\* Every map leads from a hash to a session of it, and the list has each once.
Leads(f) == \A h \in DOMAIN f : f[h] \in Made /\ session[f[h]].hash = h
MapShape ==
  /\ Leads(torrents) /\ Leads(swarms) /\ Leads(registry)
  /\ torrentList \in Seq(Made) /\ IsInjective(torrentList)

DestroyShape ==
  /\ destroyed \in BOOLEAN /\ server \in BOOLEAN /\ listens \in BOOLEAN
  /\ server => listens
  /\ ~destroyed /\ listens => server
  /\ DOMAIN destroying = {"at", "seen"}
  /\ destroying.at \in {"no", "loop", "done"}
  /\ destroyed <=> destroying.at # "no"
  /\ destroying.at = "loop" => destroying.seen \subseteq DOMAIN torrents
  /\ ~destroyed /\ ~server => DOMAIN registry = {}

Has(f, c) == session[c].hash \in DOMAIN f /\ f[session[c].hash] = c
Removing(h) == \E r \in Removes : call[r].at = "closing" /\ call[r].hash = h
Holds(c) == \E r \in Removes : call[r].at = "closing" /\ call[r].result = c

\* What lives is in the maps, a remove under way has stopped it.
LiveInMaps(c) ==
  /\ session[c].torrent => Has(torrents, c)
  /\ Removing(session[c].hash) => ~session[c].torrent

\* What is in the maps lives, or is being removed.
MapsAlive(c) ==
  /\ session[c].torrent <=> session[c].swarm
  /\ Has(torrents, c) => session[c].torrent \/ Removing(session[c].hash)
  /\ session[c].swarm <=> Has(swarms, c)
  /\ Has(registry, c) => session[c].torrent \/ Removing(session[c].hash)
  /\ server /\ session[c].known /\ session[c].torrent => Has(registry, c)
  /\ session[c].torrent => c \in Range(torrentList)
  /\ c \in Range(torrentList) => session[c].torrent \/ Holds(c)

\* What destroy has been at is gone.
Gone(c) ==
  /\ destroyed => session[c].late \/ ~session[c].swarm
  /\ destroying.at = "loop" /\ session[c].hash \in destroying.seen => ~session[c].torrent
  /\ destroying.at = "done" => session[c].late \/ ~session[c].torrent

Shape == SessionShape /\ CallShape /\ MapShape /\ DestroyShape
Agree ==
  \A c \in Made : Undisputed(c) => LiveInMaps(c) /\ (~destroyed => MapsAlive(c)) /\ Gone(c)
IInv == Shape /\ Agree
-----------------------------------------------------------------------------
(***************************************************************************)
(* Lemmas about the operators                                              *)
(***************************************************************************)

\* Splicing out an element of a list without repetition leaves the others.
LEMMA SpliceLemma ==
  ASSUME NEW S, NEW s \in Seq(S), IsInjective(s), NEW x
  PROVE  /\ Splice(s, x) \in Seq(S) /\ IsInjective(Splice(s, x))
         /\ Range(Splice(s, x)) = Range(s) \ {x}
<1>1. CASE ~ \E i \in 1..Len(s) : s[i] = x
  BY <1>1 DEF Splice, RemoveFirst, Range
<1>2. CASE \E i \in 1..Len(s) : s[i] = x
  <2>1. PICK i \in 1..Len(s) : s[i] = x
    BY <1>2
  <2>2. {j \in 1..Len(s) : s[j] = x} = {i}
    BY <2>1 DEF IsInjective
  <2>3. SelectInSeq(s, LAMBDA v : v = x) = i
    BY <2>1, <2>2 DEF SelectInSeq, Min
  <2>4. Splice(s, x) = SubSeq(s, 1, i - 1) \o SubSeq(s, i + 1, Len(s))
    BY <1>2, <2>3 DEF Splice, RemoveFirst, RemoveAt
  <2> DEFINE t == Splice(s, x)
  <2> DEFINE before == SubSeq(s, 1, i - 1)
             after == SubSeq(s, i + 1, Len(s))
  <2>c. /\ before \in Seq(S) /\ Len(before) = i - 1
        /\ \A j \in 1..(i - 1) : before[j] = s[j]
    BY <2>1, SubSeqProperties
  <2>d. /\ after \in Seq(S) /\ Len(after) = Len(s) - i
        /\ \A j \in 1..(Len(s) - i) : after[j] = s[i + j]
    BY <2>1, SubSeqProperties
  <2>e. t = before \o after
    BY <2>4
  <2> HIDE DEF before, after, t
  <2>5. t \in Seq(S) /\ Len(t) = Len(s) - 1
    BY <2>1, <2>c, <2>d, <2>e
  <2>6. \A j \in 1..Len(t) : t[j] = IF j < i THEN s[j] ELSE s[j + 1]
    <3> SUFFICES ASSUME NEW j \in 1..Len(t) PROVE t[j] = IF j < i THEN s[j] ELSE s[j + 1]
      OBVIOUS
    <3>1. CASE j < i
      BY <2>1, <2>c, <2>d, <2>e, <2>5, <3>1
    <3>2. CASE j >= i
      <4>1. t[j] = after[j - (i - 1)]
        BY <2>1, <2>c, <2>d, <2>e, <2>5, <3>2
      <4>2. j - (i - 1) \in 1..(Len(s) - i)
        BY <2>1, <2>5, <3>2
      <4> QED BY <2>1, <2>5, <2>d, <3>2, <4>1, <4>2
    <3> QED BY <2>1, <2>5, <3>1, <3>2
  <2>a. \A j, k \in 1..Len(s) : s[j] = s[k] => j = k
    BY DEF IsInjective
  <2>b. DOMAIN t = 1..Len(t) /\ DOMAIN s = 1..Len(s)
    BY <2>5
  <2>7. IsInjective(t)
    <3>1. ASSUME NEW j \in 1..Len(t), NEW k \in 1..Len(t), t[j] = t[k] PROVE j = k
      <4> DEFINE old(n) == IF n < i THEN n ELSE n + 1
      <4>1. \A n \in 1..Len(t) : old(n) \in 1..Len(s) /\ t[n] = s[old(n)]
        BY <2>1, <2>5, <2>6
      <4>2. old(j) = old(k)
        BY <2>a, <3>1, <4>1
      <4> QED BY <4>2
    <3> QED BY <2>b, <3>1 DEF IsInjective
  <2>8. Range(t) = Range(s) \ {x}
    <3>1. ASSUME NEW j \in 1..Len(t) PROVE t[j] \in Range(s) \ {x}
      <4>1. PICK n \in 1..Len(s) : t[j] = s[n] /\ n # i
        BY <2>1, <2>5, <2>6
      <4>2. s[n] # x
        BY <2>1, <2>a, <4>1
      <4> QED BY <2>b, <4>1, <4>2 DEF Range
    <3>2. ASSUME NEW j \in 1..Len(s), s[j] # x PROVE s[j] \in Range(t)
      <4>1. CASE j < i
        <5>1. j \in 1..Len(t) /\ t[j] = s[j]
          BY <2>1, <2>5, <2>6, <4>1
        <5> QED BY <5>1, <2>b DEF Range
      <4>2. CASE j > i
        <5>1. j - 1 \in 1..Len(t) /\ t[j - 1] = s[j]
          BY <2>1, <2>5, <2>6, <4>2
        <5> QED BY <5>1, <2>b DEF Range
      <4> QED BY <3>2, <2>1, <4>1, <4>2
    <3> QED BY <2>b, <3>1, <3>2 DEF Range
  <2> QED BY <2>5, <2>7, <2>8 DEF t
<1> QED BY <1>1, <1>2

\* A new element goes to the end of the list.
LEMMA AppendLemma ==
  ASSUME NEW S, NEW s \in Seq(S), IsInjective(s), NEW x, x \notin S
  PROVE  /\ Append(s, x) \in Seq(S \cup {x}) /\ IsInjective(Append(s, x))
         /\ Range(Append(s, x)) = Range(s) \cup {x}
<1> DEFINE t == Append(s, x)
<1>1. t \in Seq(S \cup {x}) /\ Len(t) = Len(s) + 1
  OBVIOUS
<1>2. \A j \in 1..Len(t) : t[j] = IF j = Len(t) THEN x ELSE s[j]
  BY <1>1
<1>3. \A j \in 1..Len(s) : s[j] \in S
  OBVIOUS
<1> HIDE DEF t
<1>4. IsInjective(t)
  BY <1>1, <1>2, <1>3 DEF IsInjective
<1>5. Range(t) = Range(s) \cup {x}
  <2>1. x = t[Len(t)] /\ Len(t) \in 1..Len(t)
    BY <1>1, <1>2
  <2>2. \A j \in 1..Len(s) : j \in 1..Len(t) /\ t[j] = s[j]
    BY <1>1, <1>2
  <2>3. \A j \in 1..Len(t) : j = Len(t) \/ j \in 1..Len(s)
    BY <1>1
  <2> QED BY <1>1, <1>2, <2>1, <2>2, <2>3 DEF Range
<1> QED BY <1>1, <1>4, <1>5 DEF t

\* In a list without repetition an element stands once or not at all.
LEMMA OnceLemma ==
  ASSUME NEW S, NEW s \in Seq(S), IsInjective(s), NEW x
  PROVE  Cardinality({i \in 1..Len(s) : s[i] = x}) = IF x \in Range(s) THEN 1 ELSE 0
<1>1. CASE x \in Range(s)
  <2>1. PICK i \in 1..Len(s) : s[i] = x
    BY <1>1 DEF Range
  <2>2. {j \in 1..Len(s) : s[j] = x} = {i}
    BY <2>1 DEF IsInjective
  <2> QED BY <1>1, <2>2, FS_Singleton
<1>2. CASE x \notin Range(s)
  <2>1. {j \in 1..Len(s) : s[j] = x} = {}
    BY <1>2 DEF Range
  <2> QED BY <1>2, <2>1, FS_EmptySet
<1> QED BY <1>1, <1>2
-----------------------------------------------------------------------------
(***************************************************************************)
(* Steps of calls that make and destroy no session                         *)
(***************************************************************************)
Kept(c) ==
  /\ DOMAIN session'[c] = SessionFields
  /\ session'[c].hash = session[c].hash /\ session'[c].known = session[c].known
  /\ session'[c].beside = session[c].beside /\ session'[c].late = session[c].late
SameSessions ==
  /\ DOMAIN session' = Made
  /\ \A c \in Made : Kept(c) /\ session'[c].torrent = session[c].torrent
                             /\ session'[c].swarm = session[c].swarm
CallsGoOn ==
  /\ DOMAIN call' = Calls
  /\ \A c \in Calls : DOMAIN call'[c] = CallFields
  /\ \A c \in Sessions : call'[c].at \in Early => call[c].at \in Early
  /\ \A c \in Made : call'[c].known = call[c].known
  /\ \A r \in Removes : call'[r] = call[r]

\* Such a step keeps the invariant.
LEMMA KeepLemma ==
  ASSUME IInv, UNCHANGED <<maps, destroyed, destroying>>, SameSessions, CallsGoOn
  PROVE  IInv'
<1>1. UNCHANGED <<torrents, swarms, torrentList, server, listens, registry, destroyed, destroying>>
  BY DEF maps
<1>2. Made' = Made
  BY DEF SameSessions, Made
<1>3. SessionShape'
  BY <1>2 DEF IInv, Shape, SessionShape, SameSessions, Kept
<1>4. CallShape'
  <2>1. \A r \in Removes : call[r].at = "closing" =>
          /\ call[r].result \in Made
          /\ session'[call[r].result].hash = session[call[r].result].hash
    BY DEF IInv, Shape, CallShape, SameSessions, Kept
  <2> QED BY <1>2, <2>1 DEF IInv, Shape, CallShape, CallsGoOn, SameSessions, Kept
<1>5. MapShape' /\ DestroyShape'
  <2>1. \A h \in DOMAIN torrents : session'[torrents[h]].hash = session[torrents[h]].hash
    BY DEF IInv, Shape, MapShape, Leads, SameSessions, Kept
  <2>2. \A h \in DOMAIN swarms : session'[swarms[h]].hash = session[swarms[h]].hash
    BY DEF IInv, Shape, MapShape, Leads, SameSessions, Kept
  <2>3. \A h \in DOMAIN registry : session'[registry[h]].hash = session[registry[h]].hash
    BY DEF IInv, Shape, MapShape, Leads, SameSessions, Kept
  <2> QED BY <1>1, <1>2, <2>1, <2>2, <2>3 DEF IInv, Shape, MapShape, DestroyShape, Leads
<1>6. Agree'
  <2> SUFFICES ASSUME NEW c \in Made, Undisputed(c)'
               PROVE  LiveInMaps(c)' /\ (~destroyed => MapsAlive(c)') /\ Gone(c)'
    BY <1>1, <1>2 DEF Agree
  <2>1. Undisputed(c)
    BY <1>2 DEF Undisputed, SameSessions, Kept
  <2>2. LiveInMaps(c) /\ (~destroyed => MapsAlive(c)) /\ Gone(c)
    BY <2>1 DEF IInv, Agree
  <2>3. /\ session'[c].hash = session[c].hash /\ session'[c].known = session[c].known
        /\ session'[c].torrent = session[c].torrent /\ session'[c].swarm = session[c].swarm
        /\ session'[c].late = session[c].late
    BY DEF SameSessions, Kept
  <2>4. /\ \A h : Removing(h)' <=> Removing(h)
        /\ Holds(c)' <=> Holds(c)
    BY DEF CallsGoOn, Removing, Holds
  <2>5. /\ Has(torrents, c)' <=> Has(torrents, c)
        /\ Has(swarms, c)' <=> Has(swarms, c)
        /\ Has(registry, c)' <=> Has(registry, c)
    BY <1>1, <2>3 DEF Has
  <2>6. LiveInMaps(c)'
    BY <2>2, <2>3, <2>4, <2>5 DEF LiveInMaps
  <2>7. ~destroyed => MapsAlive(c)'
    BY <1>1, <2>2, <2>3, <2>4, <2>5 DEF MapsAlive
  <2>8. Gone(c)'
    BY <1>1, <2>2, <2>3 DEF Gone
  <2> QED BY <2>6, <2>7, <2>8
<1> QED BY <1>3, <1>4, <1>5, <1>6 DEF IInv, Shape
\* The constants are as ClientAssumption says.
LEMMA CallSorts ==
  /\ Adds \subseteq Sessions /\ Seeds \subseteq Sessions
  /\ Sessions \subseteq Calls /\ Removes \subseteq Calls
  /\ \A c \in Sessions : c \notin Removes /\ c # NoSession
BY ClientAssumption DEF Sessions, Calls

\* At the start there is no session.
LEMMA InitIInv == Init => IInv
<1> SUFFICES ASSUME Init PROVE IInv
  OBVIOUS
<1>1. Made = {} /\ DOMAIN torrents = {} /\ DOMAIN swarms = {} /\ DOMAIN registry = {}
  BY DEF Init, Made
<1>2. SessionShape /\ MapShape /\ DestroyShape /\ Agree
  <2>1. SessionShape /\ Agree
    BY <1>1 DEF SessionShape, Agree
  <2>2. DestroyShape
    BY <1>1 DEF Init, DestroyShape
  <2>3. torrentList \in Seq(Made) /\ IsInjective(torrentList)
    BY DEF Init, IsInjective
  <2>4. Leads(torrents) /\ Leads(swarms) /\ Leads(registry)
    BY <1>1 DEF Leads
  <2> QED BY <2>1, <2>2, <2>3, <2>4 DEF MapShape
<1>3. CallShape
  <2>1. \A c \in Calls : call[c] = NewCall
    BY DEF Init
  <2>2. DOMAIN NewCall = CallFields /\ NewCall.at = "idle"
    BY DEF NewCall, CallFields
  <2>3. DOMAIN call = Calls
    BY DEF Init
  <2> QED BY <1>1, <2>1, <2>2, <2>3, CallSorts DEF CallShape
<1> QED BY <1>2, <1>3 DEF IInv, Shape

\* A step that changes the record of a session's call only.
LEMMA OneCallLemma ==
  ASSUME IInv, UNCHANGED <<maps, destroyed, destroying, session>>,
         NEW c \in Sessions, DOMAIN call' = Calls, DOMAIN call'[c] = CallFields,
         \A d \in Calls \ {c} : call'[d] = call[d],
         call'[c].at \in Early => call[c].at \in Early,
         c \in Made => call'[c].known = call[c].known
  PROVE  IInv'
<1>1. SameSessions
  BY DEF IInv, Shape, SessionShape, SameSessions, Kept, Made
<1>2. CallsGoOn
  <2>1. \A d \in Calls : DOMAIN call'[d] = CallFields
    BY DEF IInv, Shape, CallShape
  <2>2. \A d \in Sessions : call'[d].at \in Early => call[d].at \in Early
    BY CallSorts
  <2>3. \A d \in Made : call'[d].known = call[d].known
    BY CallSorts DEF IInv, Shape, SessionShape
  <2> QED BY <2>1, <2>2, <2>3, CallSorts DEF CallsGoOn
<1> QED BY <1>1, <1>2, KeepLemma DEF maps

\* The session of a call that is idle is not made.
LEMMA IdleLemma ==
  ASSUME IInv, NEW c \in Sessions, call[c].at \in Early
  PROVE  c \notin Made
BY DEF IInv, Shape, CallShape

\* seed begins: no session is touched.
LEMMA SeedCalledIInv == ASSUME IInv, NEW s \in Seeds, SeedCalled(s) PROVE IInv'
<1>1. PICK input \in Inputs :
        call' = [call EXCEPT ![s].at = IF input.kind = "directory" THEN "generate" ELSE "write",
                             ![s].input = input]
  BY DEF SeedCalled
<1>2. DOMAIN call = Calls /\ DOMAIN call[s] = CallFields /\ s \in Sessions /\ s \in Calls
  BY CallSorts DEF IInv, Shape, CallShape
<1>3. /\ DOMAIN call' = Calls /\ DOMAIN call'[s] = CallFields
      /\ \A d \in Calls \ {s} : call'[d] = call[d]
      /\ call'[s].known = call[s].known
  BY <1>1, <1>2 DEF CallFields
<1>4. call[s].at \in Early
  BY DEF SeedCalled, MayCall, Early
<1> QED BY <1>2, <1>3, <1>4, OneCallLemma DEF SeedCalled

\* seed writes a file, which may mark other seeds as mixed.
LEMMA WriteTempIInv == ASSUME IInv, NEW s \in Seeds, WriteTemp(s) PROVE IInv'
<1> DEFINE n == call[s].written + 1
           f == call[s].input.files[n]
<1>1. call' = [c \in Calls |->
       IF c = s THEN [call[c] EXCEPT !.written = n,
                        !.at = IF n = Len(call[c].input.files) THEN "generate" ELSE @]
       ELSE IF c \in Seeds /\ Reads(c, f) THEN [call[c] EXCEPT !.mixed = TRUE] ELSE call[c]]
  BY DEF WriteTemp
<1>2. call[s].at = "write" /\ UNCHANGED <<maps, destroyed, destroying, session>>
  BY DEF WriteTemp
<1> HIDE DEF n, f
<1>3. \A c \in Calls : DOMAIN call[c] = CallFields
  BY DEF IInv, Shape, CallShape
<1>4. ASSUME NEW c \in Calls
      PROVE  /\ DOMAIN call'[c] = CallFields /\ call'[c].known = call[c].known
             /\ c \notin Seeds => call'[c] = call[c]
             /\ call'[c].at \in Early => call[c].at \in Early
  <2>1. CASE c = s
    <3>1. call'[c] = [call[c] EXCEPT !.written = n,
                        !.at = IF n = Len(call[c].input.files) THEN "generate" ELSE @]
      BY <1>1, <2>1
    <3> QED BY <1>2, <1>3, <2>1, <3>1 DEF CallFields, Early
  <2>2. CASE c # s /\ c \in Seeds /\ Reads(c, f)
    <3>1. call'[c] = [call[c] EXCEPT !.mixed = TRUE]
      BY <1>1, <2>2
    <3> QED BY <1>3, <2>2, <3>1 DEF CallFields
  <2>3. CASE c # s /\ ~(c \in Seeds /\ Reads(c, f))
    <3>1. call'[c] = call[c]
      BY <1>1, <2>3
    <3> QED BY <1>3, <3>1
  <2> QED BY <2>1, <2>2, <2>3
<1>5. CallsGoOn
  <2>1. DOMAIN call' = Calls
    BY <1>1
  <2>2. \A r \in Removes : r \in Calls /\ r \notin Seeds
    BY CallSorts
  <2>3. \A c \in Made : c \in Calls
    BY CallSorts DEF IInv, Shape, SessionShape
  <2> QED BY <1>4, <2>1, <2>2, <2>3, CallSorts DEF CallsGoOn
<1>6. SameSessions
  BY <1>2 DEF IInv, Shape, SessionShape, SameSessions, Kept, Made
<1> QED BY <1>2, <1>5, <1>6, KeepLemma

\* seed has its metainfo: its call has the hash.
LEMMA GenerateTorrentIInv == ASSUME IInv, NEW s \in Seeds, GenerateTorrent(s) PROVE IInv'
<1>1. PICK at, hash : call' = [call EXCEPT ![s].at = at, ![s].hash = hash]
  BY DEF GenerateTorrent
<1>2. DOMAIN call = Calls /\ DOMAIN call[s] = CallFields /\ s \in Sessions /\ s \in Calls
  BY CallSorts DEF IInv, Shape, CallShape
<1>3. /\ DOMAIN call' = Calls /\ DOMAIN call'[s] = CallFields
      /\ \A d \in Calls \ {s} : call'[d] = call[d]
      /\ call'[s].known = call[s].known
  BY <1>1, <1>2 DEF CallFields
<1>4. call[s].at \in Early
  BY DEF GenerateTorrent, Early
<1> QED BY <1>2, <1>3, <1>4, OneCallLemma DEF GenerateTorrent

\* add begins: its call has no session yet, so its hash and known may be set.
LEMMA AddCalledIInv == ASSUME IInv, NEW c \in Adds, AddCalled(c) PROVE IInv'
<1>1. PICK known, hash : call' = [call EXCEPT ![c].at = "parse", ![c].known = known, ![c].hash = hash]
  BY DEF AddCalled
<1>2. DOMAIN call = Calls /\ DOMAIN call[c] = CallFields /\ c \in Sessions /\ c \in Calls
  BY CallSorts DEF IInv, Shape, CallShape
<1>3. /\ DOMAIN call' = Calls /\ DOMAIN call'[c] = CallFields
      /\ \A d \in Calls \ {c} : call'[d] = call[d]
  BY <1>1, <1>2 DEF CallFields
<1>4. call[c].at \in Early
  BY DEF AddCalled, MayCall, Early
<1>5. c \notin Made
  BY <1>2, <1>4, IdleLemma
<1> QED BY <1>2, <1>3, <1>4, <1>5, OneCallLemma DEF AddCalled

\* add looks for a torrent there is and makes none.
LEMMA AddCheckIInv == ASSUME IInv, NEW c \in Sessions, AddCheck(c) PROVE IInv'
<1>1. PICK found, at : call' = [call EXCEPT ![c].result = found, ![c].at = at]
  BY DEF AddCheck
<1>2. DOMAIN call = Calls /\ DOMAIN call[c] = CallFields /\ c \in Calls
  BY CallSorts DEF IInv, Shape, CallShape
<1>3. /\ DOMAIN call' = Calls /\ DOMAIN call'[c] = CallFields
      /\ \A d \in Calls \ {c} : call'[d] = call[d]
      /\ call'[c].known = call[c].known
  BY <1>1, <1>2 DEF CallFields
<1>4. call[c].at \in Early
  BY DEF AddCheck, Early
<1> QED BY <1>3, <1>4, OneCallLemma DEF AddCheck

\* What a seed's steps at the store may change: its call, the chunks, and the bit field
\* of its session.
AtTheStore(s) ==
  /\ UNCHANGED <<maps, destroyed, destroying, temp>> /\ SameSessions
  /\ \A c \in Made : session'[c].closed = session[c].closed
  /\ \A c \in Made : c # call[s].result => session'[c] = session[c]
  /\ DOMAIN call' = Calls /\ DOMAIN call'[s] = CallFields
  /\ \A d \in Calls \ {s} : call'[d] = call[d]
  /\ call[s].at \in AtStore /\ call'[s].at \in AtStore \cup {"failed"}
  /\ call[s].at # "done" /\ (call'[s].at = "populate" => call[s].at = "populate")
  /\ call'[s].known = call[s].known /\ call'[s].input = call[s].input
  /\ call'[s].hash = call[s].hash /\ call'[s].result = call[s].result
  /\ call'[s].mixed = call[s].mixed
  /\ call[s].next \in Nat \ {0} => call'[s].next \in Nat \ {0}

\* They change no more.
LEMMA StoreSteps == ASSUME IInv, NEW s \in Seeds, Populate(s) \/ Scans(s) PROVE AtTheStore(s)
<1>1. /\ DOMAIN call = Calls /\ s \in Calls /\ DOMAIN call[s] = CallFields
      /\ \A c \in Made : DOMAIN session[c] = SessionFields
  BY CallSorts DEF IInv, Shape, CallShape, SessionShape
<1>2. PICK c : c = call[s].result
  OBVIOUS
<1>3. UNCHANGED <<maps, destroyed, destroying, temp>>
  BY DEF Populate, Scans, RescanFiles, ScanRead, ScanMark
<1>4. ASSUME session' = session \/ \E v : session' = [session EXCEPT ![c].verified = v]
      PROVE  /\ SameSessions /\ \A d \in Made : session'[d].closed = session[d].closed
             /\ \A d \in Made : d # c => session'[d] = session[d]
  <2>1. CASE session' = session
    BY <1>1, <2>1 DEF SameSessions, Kept, Made
  <2>2. CASE \E v : session' = [session EXCEPT ![c].verified = v]
    <3>1. PICK v : session' = [session EXCEPT ![c].verified = v]
      BY <2>2
    <3> QED BY <1>1, <3>1 DEF SameSessions, Kept, Made, SessionFields
  <2> QED BY <1>4, <2>1, <2>2
<1>5. ASSUME Populate(s) PROVE AtTheStore(s)
  <2>1. PICK at, n :
          /\ call' = [call EXCEPT ![s].at = at, ![s].next = n]
          /\ at = call[s].at \/ at = "rescan" \/ at = "failed"
          /\ n = call[s].next + 1
    BY <1>5, <1>1 DEF Populate
  <2>2. session' = session /\ call[s].at = "populate"
    BY <1>5 DEF Populate
  <2>3. at \in AtStore \cup {"failed"}
    BY <2>1, <2>2 DEF AtStore
  <2>4. /\ SameSessions /\ \A d \in Made : session'[d].closed = session[d].closed
        /\ \A d \in Made : d # call[s].result => session'[d] = session[d]
    BY <1>2, <1>4, <2>2
  <2>5. /\ DOMAIN call' = Calls /\ DOMAIN call'[s] = CallFields
        /\ \A d \in Calls \ {s} : call'[d] = call[d]
        /\ call'[s].at = at
        /\ call'[s].next = n
        /\ call'[s].known = call[s].known /\ call'[s].input = call[s].input
        /\ call'[s].hash = call[s].hash /\ call'[s].result = call[s].result
        /\ call'[s].mixed = call[s].mixed
    BY <1>1, <2>1 DEF CallFields
  <2>6. call[s].next \in Nat \ {0} => call'[s].next \in Nat \ {0}
    BY <2>1, <2>5
  <2> QED BY <1>3, <2>1, <2>2, <2>3, <2>4, <2>5, <2>6 DEF AtTheStore, AtStore
<1>6. ASSUME RescanFiles(s) PROVE AtTheStore(s)
  <2>1. PICK at \in {"scan", "done"} : call' = [call EXCEPT ![s].at = at, ![s].next = 1]
    BY <1>6 DEF RescanFiles
  <2>2. session' = [session EXCEPT ![c].verified = {}] /\ call[s].at = "rescan"
    BY <1>2, <1>6 DEF RescanFiles
  <2>3. at \in AtStore \cup {"failed"} /\ at # "populate"
    BY <2>1 DEF AtStore
  <2>4. /\ SameSessions /\ \A d \in Made : session'[d].closed = session[d].closed
        /\ \A d \in Made : d # call[s].result => session'[d] = session[d]
    BY <1>2, <1>4, <2>2
  <2>5. /\ DOMAIN call' = Calls /\ DOMAIN call'[s] = CallFields
        /\ \A d \in Calls \ {s} : call'[d] = call[d]
        /\ call'[s].at = at
        /\ call'[s].next = 1
        /\ call'[s].known = call[s].known /\ call'[s].input = call[s].input
        /\ call'[s].hash = call[s].hash /\ call'[s].result = call[s].result
        /\ call'[s].mixed = call[s].mixed
    BY <1>1, <2>1 DEF CallFields
  <2>6. call[s].next \in Nat \ {0} => call'[s].next \in Nat \ {0}
    BY <2>1, <2>5
  <2> QED BY <1>3, <2>1, <2>2, <2>3, <2>4, <2>5, <2>6 DEF AtTheStore, AtStore
<1>7. ASSUME ScanRead(s) PROVE AtTheStore(s)
  <2>1. PICK f : call' = [call EXCEPT ![s].at = "mark", ![s].found = f]
    BY <1>7 DEF ScanRead
  <2>2. session' = session /\ call[s].at = "scan" /\ "mark" \in AtStore \cup {"failed"}
    BY <1>7 DEF ScanRead, AtStore
  <2>4. /\ SameSessions /\ \A d \in Made : session'[d].closed = session[d].closed
        /\ \A d \in Made : d # call[s].result => session'[d] = session[d]
    BY <1>2, <1>4, <2>2
  <2>5. /\ DOMAIN call' = Calls /\ DOMAIN call'[s] = CallFields
        /\ \A d \in Calls \ {s} : call'[d] = call[d]
        /\ call'[s].at = "mark"
        /\ call'[s].next = call[s].next
        /\ call'[s].known = call[s].known /\ call'[s].input = call[s].input
        /\ call'[s].hash = call[s].hash /\ call'[s].result = call[s].result
        /\ call'[s].mixed = call[s].mixed
    BY <1>1, <2>1 DEF CallFields
  <2>6. call[s].next \in Nat \ {0} => call'[s].next \in Nat \ {0}
    BY <2>1, <2>5
  <2> QED BY <1>3, <2>1, <2>2, <2>4, <2>5, <2>6 DEF AtTheStore, AtStore
<1>8. ASSUME ScanMark(s) PROVE AtTheStore(s)
  <2>1. PICK at, n : /\ at \in {"scan", "done"} /\ n = call[s].next + 1
                     /\ call' = [call EXCEPT ![s].at = at, ![s].next = n]
    BY <1>8 DEF ScanMark
  <2>2. session' = session \/ \E v : session' = [session EXCEPT ![c].verified = v]
    BY <1>2, <1>8 DEF ScanMark
  <2>3. at \in AtStore \cup {"failed"} /\ at # "populate" /\ call[s].at = "mark"
    BY <1>8, <2>1 DEF AtStore, ScanMark
  <2>4. /\ SameSessions /\ \A d \in Made : session'[d].closed = session[d].closed
        /\ \A d \in Made : d # call[s].result => session'[d] = session[d]
    BY <1>2, <1>4, <2>2
  <2>5. /\ DOMAIN call' = Calls /\ DOMAIN call'[s] = CallFields
        /\ \A d \in Calls \ {s} : call'[d] = call[d]
        /\ call'[s].at = at
        /\ call'[s].next = n
        /\ call'[s].known = call[s].known /\ call'[s].input = call[s].input
        /\ call'[s].hash = call[s].hash /\ call'[s].result = call[s].result
        /\ call'[s].mixed = call[s].mixed
    BY <1>1, <2>1 DEF CallFields
  <2>6. call[s].next \in Nat \ {0} => call'[s].next \in Nat \ {0}
    BY <2>1, <2>5
  <2> QED BY <1>3, <2>1, <2>2, <2>3, <2>4, <2>5, <2>6 DEF AtTheStore, AtStore
<1> QED BY <1>5, <1>6, <1>7, <1>8 DEF Scans

\* What the maps depend on is not among it.
LEMMA StoreIInv == ASSUME IInv, NEW s \in Seeds, Populate(s) \/ Scans(s) PROVE IInv'
<1>1. AtTheStore(s)
  BY StoreSteps
<1>2. CallsGoOn
  <2>1. \A d \in Calls : DOMAIN call[d] = CallFields
    BY DEF IInv, Shape, CallShape
  <2>2. \A d \in Made : d \in Calls
    BY CallSorts DEF IInv, Shape, SessionShape
  <2>3. \A r \in Removes : r \in Calls \ {s}
    BY CallSorts
  <2> QED BY <1>1, <2>1, <2>2, <2>3, CallSorts DEF AtTheStore, CallsGoOn, Early, AtStore
<1> QED BY <1>1, <1>2, KeepLemma DEF AtTheStore
-----------------------------------------------------------------------------
(***************************************************************************)
(* Steps that make, stop or unlist sessions                                *)
(***************************************************************************)

\* Who is undisputed after a step was so before it.
LEMMA UndisputedLemma ==
  ASSUME Made \subseteq Made', \A c \in Made : Kept(c), NEW c \in Made, Undisputed(c)'
  PROVE  Undisputed(c)
BY DEF Undisputed, Kept, Made

\* add inserts its session: whoever had the hash is disputed from now on, unless it was
\* gone already.
LEMMA AddInsertIInv == ASSUME IInv, NEW c \in Sessions, AddInsert(c) PROVE IInv'
<1>a. PICK h : h = call[c].hash
  OBVIOUS
<1>b. PICK beside : beside = (h \in DOMAIN torrents \/ Removing(h))
  OBVIOUS
<1>1. /\ call[c].at = "store" /\ c \notin Made /\ c \in Calls
      /\ DOMAIN call = Calls /\ DOMAIN call[c] = CallFields
  BY CallSorts, IdleLemma DEF AddInsert, Early, IInv, Shape, CallShape
<1>2. /\ session' = Set(session, c, NewSession(h, call[c].known, beside, destroyed))
      /\ torrents' = Set(torrents, h, c)
      /\ swarms' = Set(swarms, h, c)
      /\ torrentList' = Append(torrentList, c)
      /\ registry' = IF listens /\ call[c].known THEN Set(registry, h, c) ELSE registry
      /\ UNCHANGED <<destroyed, destroying, server, listens>>
  BY <1>a, <1>b DEF AddInsert, Removing, Register
<1>3. /\ DOMAIN call' = Calls /\ DOMAIN call'[c] = CallFields
      /\ \A d \in Calls \ {c} : call'[d] = call[d]
      /\ call'[c].known = call[c].known /\ call'[c].at \notin Early
  <2>1. call' = [call EXCEPT ![c].result = c, ![c].at = IF c \in Seeds THEN "populate" ELSE "done"]
    BY DEF AddInsert
  <2> QED BY <1>1, <2>1 DEF CallFields, Early
<1>4. /\ Made' = Made \cup {c}
      /\ \A d \in Made : session'[d] = session[d]
      /\ session'[c] = NewSession(h, call[c].known, beside, destroyed)
  BY <1>1, <1>2 DEF Made, Set
<1>5. /\ DOMAIN session'[c] = SessionFields
      /\ session'[c].hash = h /\ session'[c].known = call[c].known
      /\ session'[c].torrent = TRUE /\ session'[c].swarm = TRUE
      /\ session'[c].beside = beside /\ session'[c].late = destroyed
  BY <1>4 DEF NewSession, SessionFields
<1>6. SessionShape'
  BY <1>4, <1>5 DEF IInv, Shape, SessionShape
<1>7. CallShape'
  <2>1. \A d \in Calls : DOMAIN call'[d] = CallFields
    BY <1>3 DEF IInv, Shape, CallShape
  <2>2. \A d \in Sessions : call'[d].at \in Early => d \notin Made'
    BY <1>3, <1>4, CallSorts DEF IInv, Shape, CallShape
  <2>3. \A d \in Made' : session'[d].known = call'[d].known
    BY <1>3, <1>4, <1>5, CallSorts DEF IInv, Shape, CallShape, SessionShape
  <2>4. \A r \in Removes : call'[r] = call[r]
    BY <1>3, CallSorts
  <2>5. \A r \in Removes : call'[r].at = "closing" =>
          call'[r].result \in Made' /\ session'[call'[r].result].hash = call'[r].hash
    BY <1>4, <2>4 DEF IInv, Shape, CallShape
  <2> QED BY <1>3, <2>1, <2>2, <2>3, <2>5 DEF CallShape
<1>8. /\ DOMAIN torrents' = DOMAIN torrents \cup {h} /\ torrents'[h] = c
      /\ \A k \in DOMAIN torrents : k # h => torrents'[k] = torrents[k]
      /\ DOMAIN swarms' = DOMAIN swarms \cup {h} /\ swarms'[h] = c
      /\ \A k \in DOMAIN swarms : k # h => swarms'[k] = swarms[k]
  BY <1>2 DEF Set
<1>9. /\ DOMAIN registry' = IF listens /\ call[c].known THEN DOMAIN registry \cup {h} ELSE DOMAIN registry
      /\ listens /\ call[c].known => registry'[h] = c
      /\ \A k \in DOMAIN registry : k # h \/ ~(listens /\ call[c].known) => registry'[k] = registry[k]
  BY <1>2 DEF Set
<1>10. /\ torrentList' \in Seq(Made') /\ IsInjective(torrentList')
       /\ Range(torrentList') = Range(torrentList) \cup {c}
  <2>1. torrentList \in Seq(Made) /\ IsInjective(torrentList)
    BY DEF IInv, Shape, MapShape
  <2> QED BY <1>1, <1>2, <1>4, <2>1, AppendLemma
<1>11. MapShape'
  <2>1. Leads(torrents)' /\ Leads(swarms)'
    BY <1>4, <1>5, <1>8 DEF IInv, Shape, MapShape, Leads
  <2>2. Leads(registry)'
    BY <1>4, <1>5, <1>9 DEF IInv, Shape, MapShape, Leads
  <2> QED BY <2>1, <2>2, <1>10 DEF MapShape
<1>12. DestroyShape'
  BY <1>2, <1>8, <1>9 DEF IInv, Shape, DestroyShape
<1>13. Agree'
  <2> SUFFICES ASSUME NEW d \in Made', Undisputed(d)'
               PROVE  LiveInMaps(d)' /\ (~destroyed => MapsAlive(d)') /\ Gone(d)'
    BY <1>2 DEF Agree
  <2>1. \A r \in Removes : call'[r] = call[r]
    BY <1>3, CallSorts
  <2>2. \A k : Removing(k)' <=> Removing(k)
    BY <2>1 DEF Removing
  <2>3. CASE d = c
    <3>1. ~beside
      BY <1>4, <1>5, <2>3 DEF Undisputed
    <3>2. Has(torrents, d)' /\ Has(swarms, d)'
      BY <1>5, <1>8, <2>3 DEF Has
    <3>3. ~Removing(h)'
      BY <1>b, <3>1, <2>2
    <3>4. LiveInMaps(d)'
      BY <1>5, <2>3, <3>2, <3>3 DEF LiveInMaps
    <3>5. server /\ call[c].known => Has(registry, d)'
      BY <1>5, <1>9, <2>3 DEF Has, IInv, Shape, DestroyShape
    <3>6. MapsAlive(d)'
      BY <1>2, <1>5, <1>10, <2>3, <3>2, <3>5 DEF MapsAlive
    <3>7. destroying.at = "loop" => h \notin destroying.seen
      BY <1>b, <3>1 DEF IInv, Shape, DestroyShape
    <3>8. Gone(d)'
      BY <1>2, <1>5, <2>3, <3>7 DEF Gone, IInv, Shape, DestroyShape
    <3> QED BY <3>4, <3>6, <3>8
  <2>4. CASE d # c
    <3>1. d \in Made /\ session'[d] = session[d]
      BY <1>4, <2>4
    <3>2. Undisputed(d)
      BY <3>1, <1>4, UndisputedLemma DEF Kept, IInv, Shape, SessionShape
    <3>3. LiveInMaps(d) /\ (~destroyed => MapsAlive(d)) /\ Gone(d)
      BY <3>1, <3>2 DEF IInv, Agree
    <3>4. session[d].hash = h => ~beside
      BY <1>4, <1>5, <3>1 DEF Undisputed
    <3>5. Has(torrents, d)' <=> Has(torrents, d)
      BY <1>1, <1>8, <1>b, <3>1, <3>4 DEF Has
    <3>6. ~destroyed => (Has(swarms, d)' <=> Has(swarms, d))
      <4>1. CASE session[d].hash # h
        BY <1>8, <3>1, <4>1 DEF Has
      <4>2. CASE session[d].hash = h /\ ~destroyed
        <5>1. ~session[d].torrent
          BY <1>b, <3>3, <3>4, <4>2 DEF LiveInMaps, Has
        <5>2. ~Has(swarms, d)
          BY <3>3, <4>2, <5>1 DEF MapsAlive
        <5> QED BY <1>8, <2>4, <3>1, <4>2, <5>2 DEF Has
      <4> QED BY <4>1, <4>2
    <3>7. Has(registry, d)' => Has(registry, d)
      BY <1>9, <2>4, <3>1 DEF Has
    <3>8. session[d].torrent /\ Has(registry, d) => Has(registry, d)'
      <4>1. session[d].torrent => session[d].hash # h
        BY <1>b, <3>3, <3>4 DEF LiveInMaps, Has
      <4> QED BY <1>9, <3>1, <4>1 DEF Has
    <3>9. Holds(d)' <=> Holds(d)
      BY <2>1 DEF Holds
    <3>10. LiveInMaps(d)'
      BY <2>2, <3>1, <3>3, <3>5 DEF LiveInMaps
    <3>11. ~destroyed => MapsAlive(d)'
      BY <1>2, <1>10, <2>2, <2>4, <3>1, <3>3, <3>5, <3>6, <3>7, <3>8, <3>9 DEF MapsAlive
    <3>12. Gone(d)'
      BY <1>2, <3>1, <3>3 DEF Gone
    <3> QED BY <3>10, <3>11, <3>12
  <2> QED BY <2>3, <2>4
<1> QED BY <1>6, <1>7, <1>11, <1>12, <1>13 DEF IInv, Shape

\* Torrent.destroy stops its torrent, and changes nothing else that matters here.
LEMMA DestroyTorrentLemma ==
  ASSUME NEW ss, NEW t \in DOMAIN ss, NEW wipe,
         \A d \in DOMAIN ss : DOMAIN ss[d] = SessionFields /\ ss[d].torrent \in BOOLEAN
  PROVE  /\ DOMAIN DestroyTorrent(ss, t, wipe) = DOMAIN ss
         /\ \A d \in DOMAIN ss :
              /\ DOMAIN DestroyTorrent(ss, t, wipe)[d] = SessionFields
              /\ DestroyTorrent(ss, t, wipe)[d].hash = ss[d].hash
              /\ DestroyTorrent(ss, t, wipe)[d].known = ss[d].known
              /\ DestroyTorrent(ss, t, wipe)[d].beside = ss[d].beside
              /\ DestroyTorrent(ss, t, wipe)[d].late = ss[d].late
              /\ DestroyTorrent(ss, t, wipe)[d].swarm = ss[d].swarm
              /\ DestroyTorrent(ss, t, wipe)[d].torrent = (ss[d].torrent /\ d # t)
<1>1. CASE ss[t].torrent
  <2>1. DestroyTorrent(ss, t, wipe) = [ss EXCEPT ![t].torrent = FALSE, ![t].closed = ~wipe]
    BY <1>1 DEF DestroyTorrent
  <2>2. DestroyTorrent(ss, t, wipe)[t] = [ss[t] EXCEPT !.torrent = FALSE, !.closed = ~wipe]
    BY <2>1
  <2>3. /\ DOMAIN DestroyTorrent(ss, t, wipe) = DOMAIN ss
        /\ \A d \in DOMAIN ss : d # t => DestroyTorrent(ss, t, wipe)[d] = ss[d]
    BY <2>1
  <2> DEFINE to == DestroyTorrent(ss, t, wipe)
  <2>4. /\ DOMAIN to[t] = SessionFields
        /\ to[t].hash = ss[t].hash /\ to[t].known = ss[t].known
        /\ to[t].beside = ss[t].beside /\ to[t].late = ss[t].late
        /\ to[t].swarm = ss[t].swarm /\ to[t].torrent = FALSE
    BY <2>2 DEF SessionFields
  <2> HIDE DEF to
  <2>5. \A d \in DOMAIN ss : d = t => to[d].torrent = (ss[d].torrent /\ d # t)
    BY <2>4
  <2>6. \A d \in DOMAIN ss : d # t => to[d].torrent = (ss[d].torrent /\ d # t)
    BY <2>3 DEF to
  <2>7. DOMAIN to = DOMAIN ss /\ \A d \in DOMAIN ss : d # t => to[d] = ss[d]
    BY <2>3 DEF to
  <2>8. \A d \in DOMAIN ss :
          /\ DOMAIN to[d] = SessionFields
          /\ to[d].hash = ss[d].hash /\ to[d].known = ss[d].known
          /\ to[d].beside = ss[d].beside /\ to[d].late = ss[d].late
          /\ to[d].swarm = ss[d].swarm
    BY <2>4, <2>7
  <2> QED BY <2>5, <2>6, <2>7, <2>8 DEF to
<1>2. CASE ~ss[t].torrent
  BY <1>2 DEF DestroyTorrent
<1> QED BY <1>1, <1>2

\* remove takes the swarm out of its map and stops the session before its await.
LEMMA RemoveCalledIInv == ASSUME IInv, NEW c \in Removes, RemoveCalled(c) PROVE IInv'
<1>a. PICK h \in DOMAIN torrents, wipe \in BOOLEAN :
        LET t == torrents[h]
            u == Lookup(swarms, h)
            stopped == IF u = NoSession THEN session ELSE [session EXCEPT ![u].swarm = FALSE]
        IN  /\ call' = [call EXCEPT ![c].at = "closing", ![c].hash = h, ![c].result = t,
                                    ![c].wipe = wipe /\ session[t].torrent]
            /\ swarms' = Delete(swarms, h)
            /\ session' = DestroyTorrent(stopped, t, wipe)
  BY DEF RemoveCalled
<1>b. PICK t : t = torrents[h]
  OBVIOUS
<1>c. PICK u : u = Lookup(swarms, h)
  OBVIOUS
<1>d. PICK stopped : stopped = IF u = NoSession THEN session ELSE [session EXCEPT ![u].swarm = FALSE]
  OBVIOUS
<1>1. /\ call[c].at = "idle" /\ c \in Calls /\ DOMAIN call = Calls /\ DOMAIN call[c] = CallFields
      /\ UNCHANGED <<torrents, torrentList, destroyed, destroying, server, listens, registry>>
  BY CallSorts DEF RemoveCalled, MayCall, IInv, Shape, CallShape
<1>2. /\ call' = [call EXCEPT ![c].at = "closing", ![c].hash = h, ![c].result = t,
                              ![c].wipe = wipe /\ session[t].torrent]
      /\ swarms' = Delete(swarms, h)
      /\ session' = DestroyTorrent(stopped, t, wipe)
  BY <1>a, <1>b, <1>c, <1>d
<1>3. t \in Made /\ session[t].hash = h
  BY <1>b DEF IInv, Shape, MapShape, Leads
<1>4. /\ u # NoSession => u \in Made /\ session[u].hash = h /\ h \in DOMAIN swarms /\ swarms[h] = u
      /\ u = NoSession => h \notin DOMAIN swarms
  BY <1>c, CallSorts DEF Lookup, IInv, Shape, MapShape, Leads, SessionShape
<1>5. /\ DOMAIN stopped = Made
      /\ \A d \in Made : /\ DOMAIN stopped[d] = SessionFields
                          /\ stopped[d].hash = session[d].hash /\ stopped[d].known = session[d].known
                          /\ stopped[d].beside = session[d].beside /\ stopped[d].late = session[d].late
                          /\ stopped[d].torrent = session[d].torrent
                          /\ stopped[d].swarm = (session[d].swarm /\ d # u)
  <2>0. \A d \in Made : /\ DOMAIN session[d] = SessionFields
                        /\ session[d].torrent \in BOOLEAN /\ session[d].swarm \in BOOLEAN
    BY DEF IInv, Shape, SessionShape
  <2>1. CASE u = NoSession
    <3>1. \A d \in Made : d # u
      BY <2>1, CallSorts DEF IInv, Shape, SessionShape
    <3>2. stopped = session
      BY <1>d, <2>1
    <3> QED BY <2>0, <3>1, <3>2 DEF Made
  <2>2. CASE u # NoSession
    <3>1. stopped = [session EXCEPT ![u].swarm = FALSE]
      BY <1>d, <2>2
    <3> QED BY <1>4, <2>0, <2>2, <3>1 DEF Made, SessionFields
  <2> QED BY <2>1, <2>2
<1>6. /\ Made' = Made
      /\ \A d \in Made : /\ Kept(d)
                          /\ session'[d].torrent = (session[d].torrent /\ d # t)
                          /\ session'[d].swarm = (session[d].swarm /\ d # u)
  <2>1. \A d \in DOMAIN stopped : DOMAIN stopped[d] = SessionFields /\ stopped[d].torrent \in BOOLEAN
    BY <1>5 DEF IInv, Shape, SessionShape
  <2>2. t \in DOMAIN stopped
    BY <1>3, <1>5
  <2> QED BY <1>2, <1>5, <2>1, <2>2, DestroyTorrentLemma DEF Kept, Made
<1>7. /\ DOMAIN call' = Calls /\ DOMAIN call'[c] = CallFields
      /\ \A d \in Calls \ {c} : call'[d] = call[d]
      /\ call'[c].at = "closing" /\ call'[c].hash = h /\ call'[c].result = t
  BY <1>1, <1>2 DEF CallFields
<1>8. DOMAIN swarms' = DOMAIN swarms \ {h} /\ \A k \in DOMAIN swarms' : swarms'[k] = swarms[k]
  BY <1>2 DEF Delete, Restrict
<1>9. SessionShape'
  BY <1>6 DEF IInv, Shape, SessionShape, Kept
<1>10. CallShape'
  <2>1. \A d \in Calls : DOMAIN call'[d] = CallFields
    BY <1>7 DEF IInv, Shape, CallShape
  <2>2. \A d \in Sessions : call'[d] = call[d]
    BY <1>7, CallSorts
  <2>3. \A d \in Made : call'[d] = call[d]
    BY <2>2 DEF IInv, Shape, SessionShape
  <2>4. \A r \in Removes : call'[r].at = "closing" =>
          call'[r].result \in Made /\ session[call'[r].result].hash = call'[r].hash
    BY <1>3, <1>7, CallSorts DEF IInv, Shape, CallShape
  <2> QED BY <1>6, <1>7, <2>1, <2>2, <2>3, <2>4 DEF IInv, Shape, CallShape, Kept
<1>11. MapShape' /\ DestroyShape'
  BY <1>1, <1>6, <1>8 DEF IInv, Shape, MapShape, DestroyShape, Leads, Kept
<1>12. Agree'
  <2> SUFFICES ASSUME NEW d \in Made, Undisputed(d)'
               PROVE  LiveInMaps(d)' /\ (~destroyed => MapsAlive(d)') /\ Gone(d)'
    BY <1>1, <1>6 DEF Agree
  <2>1. LiveInMaps(d) /\ (~destroyed => MapsAlive(d)) /\ Gone(d)
    BY <1>6, UndisputedLemma DEF IInv, Agree
  <2>2. /\ session'[d].hash = session[d].hash /\ session'[d].known = session[d].known
        /\ session'[d].late = session[d].late
        /\ session'[d].torrent = (session[d].torrent /\ d # t)
        /\ session'[d].swarm = (session[d].swarm /\ d # u)
        /\ session[d].torrent \in BOOLEAN /\ session[d].swarm \in BOOLEAN
    BY <1>6 DEF Kept, IInv, Shape, SessionShape
  <2>3. /\ \A k : k # h => (Removing(k)' <=> Removing(k))
        /\ Removing(h)'
        /\ Holds(t)' /\ (Holds(d) => Holds(d)') /\ (d # t => (Holds(d)' <=> Holds(d)))
    BY <1>1, <1>7, CallSorts DEF Removing, Holds
  <2>4. /\ Has(torrents, d)' <=> Has(torrents, d)
        /\ Has(registry, d)' <=> Has(registry, d)
        /\ session[d].hash # h => (Has(swarms, d)' <=> Has(swarms, d))
        /\ session[d].hash = h => ~Has(swarms, d)'
    BY <1>1, <1>8, <2>2 DEF Has
  <2>5. Gone(d)'
    BY <1>1, <2>1, <2>2 DEF Gone
  <2>6. CASE session[d].hash # h
    <3>1. d # t /\ d # u
      BY <1>3, <1>4, <2>6, CallSorts DEF IInv, Shape, SessionShape
    <3>2. LiveInMaps(d)'
      BY <2>1, <2>2, <2>3, <2>4, <2>6, <3>1 DEF LiveInMaps
    <3>3. ~destroyed => MapsAlive(d)'
      BY <1>1, <2>1, <2>2, <2>3, <2>4, <2>6, <3>1 DEF MapsAlive
    <3> QED BY <2>5, <3>2, <3>3
  <2>7. CASE session[d].hash = h
    <3>1. session[d].torrent => d = t
      BY <1>b, <2>1, <2>7 DEF LiveInMaps, Has
    <3>2. ~session'[d].torrent
      BY <2>2, <3>1
    <3>3. ~destroyed => ~session'[d].swarm
      <4>1. ~destroyed /\ session[d].swarm => d = u
        BY <1>c, <2>1, <2>7 DEF MapsAlive, Has, Lookup
      <4> QED BY <2>2, <4>1
    <3>4. LiveInMaps(d)'
      BY <3>2 DEF LiveInMaps
    <3>5. ~destroyed => (d \in Range(torrentList) => Holds(d)')
      BY <2>1, <2>3, <3>1 DEF MapsAlive
    <3>6. ~destroyed => MapsAlive(d)'
      BY <1>1, <2>2, <2>3, <2>4, <2>7, <3>2, <3>3, <3>5 DEF MapsAlive
    <3> QED BY <2>5, <3>4, <3>6
  <2> QED BY <2>6, <2>7
<1> QED BY <1>9, <1>10, <1>11, <1>12 DEF IInv, Shape

\* The rest of remove unlists the session and whatever its hash has by then.
LEMMA RemoveEndsIInv == ASSUME IInv, NEW c \in Removes, RemoveEnds(c) PROVE IInv'
<1>a. PICK h : h = call[c].hash
  OBVIOUS
<1>b. PICK t : t = call[c].result
  OBVIOUS
<1>1. /\ call[c].at = "closing" /\ c \in Calls /\ DOMAIN call = Calls /\ DOMAIN call[c] = CallFields
      /\ t \in Made /\ session[t].hash = h
  BY <1>a, <1>b, CallSorts DEF RemoveEnds, IInv, Shape, CallShape
<1>2. /\ torrents' = Delete(torrents, h)
      /\ torrentList' = Splice(torrentList, t)
      /\ registry' = IF server THEN Delete(registry, h) ELSE registry
      /\ destroying' = [destroying EXCEPT !.seen = @ \ {h}]
      /\ session' = [session EXCEPT ![t].closed = TRUE]
      /\ call' = [call EXCEPT ![c].at = "done"]
      /\ UNCHANGED <<swarms, destroyed, server, listens>>
  BY <1>a, <1>b DEF RemoveEnds
<1>3. SameSessions
  BY <1>2 DEF IInv, Shape, SessionShape, SameSessions, Kept, Made, SessionFields
<1>4. /\ Made' = Made
      /\ \A d \in Made : Kept(d)
  BY <1>3 DEF SameSessions, Made
<1>5. /\ DOMAIN call' = Calls /\ DOMAIN call'[c] = CallFields
      /\ \A d \in Calls \ {c} : call'[d] = call[d]
      /\ call'[c].at = "done"
  BY <1>1, <1>2 DEF CallFields
<1>6. /\ DOMAIN torrents' = DOMAIN torrents \ {h}
      /\ \A k \in DOMAIN torrents' : torrents'[k] = torrents[k]
  BY <1>2 DEF Delete, Restrict
<1>7. /\ DOMAIN registry' = IF server THEN DOMAIN registry \ {h} ELSE DOMAIN registry
      /\ \A k \in DOMAIN registry' : registry'[k] = registry[k]
  BY <1>2 DEF Delete, Restrict
<1>8. /\ torrentList' \in Seq(Made) /\ IsInjective(torrentList')
      /\ Range(torrentList') = Range(torrentList) \ {t}
  BY <1>2, SpliceLemma DEF IInv, Shape, MapShape
<1>9. /\ DOMAIN destroying' = {"at", "seen"} /\ destroying'.at = destroying.at
      /\ destroying'.seen = destroying.seen \ {h}
  BY <1>2 DEF IInv, Shape, DestroyShape
<1>10. SessionShape'
  BY <1>3, <1>4 DEF IInv, Shape, SessionShape, SameSessions, Kept
<1>11. CallShape'
  <2>1. \A d \in Calls : DOMAIN call'[d] = CallFields
    BY <1>5 DEF IInv, Shape, CallShape
  <2>2. \A d \in Sessions : call'[d] = call[d]
    BY <1>5, CallSorts
  <2>3. \A d \in Made : call'[d] = call[d]
    BY <2>2 DEF IInv, Shape, SessionShape
  <2>4. \A r \in Removes : call'[r].at = "closing" =>
          call'[r].result \in Made /\ session[call'[r].result].hash = call'[r].hash
    BY <1>5, CallSorts DEF IInv, Shape, CallShape
  <2> QED BY <1>4, <1>5, <2>1, <2>2, <2>3, <2>4 DEF IInv, Shape, CallShape, Kept
<1>12. MapShape'
  BY <1>2, <1>4, <1>6, <1>7, <1>8 DEF IInv, Shape, MapShape, Leads, Kept
<1>13. DestroyShape'
  BY <1>2, <1>6, <1>7, <1>9 DEF IInv, Shape, DestroyShape
<1>14. Agree'
  <2> SUFFICES ASSUME NEW d \in Made, Undisputed(d)'
               PROVE  LiveInMaps(d)' /\ (~destroyed => MapsAlive(d)') /\ Gone(d)'
    BY <1>2, <1>4 DEF Agree
  <2>1. LiveInMaps(d) /\ (~destroyed => MapsAlive(d)) /\ Gone(d)
    BY <1>4, UndisputedLemma DEF IInv, Agree
  <2>2. /\ session'[d].hash = session[d].hash /\ session'[d].known = session[d].known
        /\ session'[d].late = session[d].late
        /\ session'[d].torrent = session[d].torrent /\ session'[d].swarm = session[d].swarm
    BY <1>3 DEF SameSessions, Kept
  <2>3. /\ \A k : Removing(k)' => Removing(k)
        /\ \A k : k # h => (Removing(k)' <=> Removing(k))
        /\ Removing(h)
        /\ d # t => (Holds(d) => Holds(d)')
    BY <1>a, <1>b, <1>1, <1>5, CallSorts DEF Removing, Holds
  <2>4. /\ session[d].hash # h => (Has(torrents, d)' <=> Has(torrents, d))
        /\ session[d].hash = h => ~Has(torrents, d)'
        /\ Has(swarms, d)' <=> Has(swarms, d)
        /\ session[d].hash # h => (Has(registry, d)' <=> Has(registry, d))
        /\ session[d].hash = h /\ server => ~Has(registry, d)'
        /\ Has(registry, d)' => Has(registry, d)
    BY <1>2, <1>6, <1>7, <2>2 DEF Has
  <2>5. CASE session[d].hash # h
    <3>1. d # t
      BY <1>1, <2>5
    <3>2. LiveInMaps(d)'
      BY <2>1, <2>2, <2>3, <2>4, <2>5 DEF LiveInMaps
    <3>3. ~destroyed => MapsAlive(d)'
      BY <1>2, <1>8, <2>1, <2>2, <2>3, <2>4, <2>5, <3>1 DEF MapsAlive
    <3>4. Gone(d)'
      BY <1>2, <1>9, <2>1, <2>2 DEF Gone
    <3> QED BY <3>2, <3>3, <3>4
  <2>6. CASE session[d].hash = h
    <3>1. ~session[d].torrent
      BY <2>1, <2>3, <2>6 DEF LiveInMaps
    <3>2. LiveInMaps(d)'
      BY <2>2, <3>1 DEF LiveInMaps
    <3>3. ~destroyed /\ ~server => ~Has(registry, d)
      BY DEF Has, IInv, Shape, DestroyShape
    <3>4. ~destroyed => (d \in Range(torrentList') => Holds(d)')
      BY <1>8, <2>1, <2>3, <3>1 DEF MapsAlive
    <3>5. ~destroyed => MapsAlive(d)'
      BY <1>2, <2>1, <2>2, <2>4, <2>6, <3>1, <3>3, <3>4 DEF MapsAlive
    <3>6. Gone(d)'
      BY <1>2, <1>9, <2>1, <2>2, <3>1 DEF Gone
    <3> QED BY <3>2, <3>5, <3>6
  <2> QED BY <2>5, <2>6
<1> QED BY <1>10, <1>11, <1>12, <1>13, <1>14 DEF IInv, Shape

\* createServer registers the files of the torrents that are there.
LEMMA CreateServerIInv == ASSUME IInv, CreateServer PROVE IInv'
<1>1. /\ ~server /\ server' = TRUE /\ listens' = TRUE
      /\ UNCHANGED <<torrents, swarms, torrentList, destroyed, destroying, session, call>>
  BY DEF CreateServer
<1>2. /\ DOMAIN registry' = DOMAIN registry \cup {k \in DOMAIN torrents : session[torrents[k]].known}
      /\ \A h \in DOMAIN registry' :
           registry'[h] = IF h \in DOMAIN torrents /\ session[torrents[h]].known THEN torrents[h]
                          ELSE registry[h]
  BY DEF CreateServer
<1>3. Made' = Made /\ SessionShape' /\ CallShape'
  BY <1>1 DEF IInv, Shape, SessionShape, CallShape, Made
<1>4. MapShape'
  BY <1>1, <1>2, <1>3 DEF IInv, Shape, MapShape, Leads
<1>5. DestroyShape'
  BY <1>1 DEF IInv, Shape, DestroyShape
<1>6. Agree'
  <2> SUFFICES ASSUME NEW d \in Made, Undisputed(d)'
               PROVE  LiveInMaps(d)' /\ (~destroyed => MapsAlive(d)') /\ Gone(d)'
    BY <1>1, <1>3 DEF Agree
  <2>1. LiveInMaps(d) /\ (~destroyed => MapsAlive(d)) /\ Gone(d)
    BY <1>1, <1>3 DEF IInv, Agree, Undisputed
  <2>2. LiveInMaps(d)' /\ Gone(d)'
    BY <1>1, <2>1 DEF LiveInMaps, Gone, Has, Removing
  <2>3. ASSUME ~destroyed PROVE MapsAlive(d)'
    <3>1. DOMAIN registry = {}
      BY <1>1, <2>3 DEF IInv, Shape, DestroyShape
    <3>2. Has(registry, d)' <=> Has(torrents, d) /\ session[d].known
      BY <1>1, <1>2, <3>1 DEF Has
    <3>3. /\ Has(torrents, d)' <=> Has(torrents, d)
          /\ Has(swarms, d)' <=> Has(swarms, d)
          /\ Removing(session[d].hash)' <=> Removing(session[d].hash)
          /\ Holds(d)' <=> Holds(d)
      BY <1>1 DEF Has, Removing, Holds
    <3> QED BY <1>1, <2>1, <2>3, <3>2, <3>3 DEF MapsAlive, LiveInMaps
  <2> QED BY <2>2, <2>3
<1> QED BY <1>3, <1>4, <1>5, <1>6 DEF IInv, Shape

\* A round of destroy's loop, over sessions ss whose swarms it has stopped.
LEMMA DestroyRoundLemma ==
  ASSUME IInv, NEW ss, NEW seen \in SUBSET DOMAIN torrents, DestroyRound(ss, seen),
         destroyed' = TRUE, Leads(swarms)', UNCHANGED <<listens, registry, call>>,
         DOMAIN ss = Made,
         \A d \in Made : /\ DOMAIN ss[d] = SessionFields
                         /\ ss[d].hash = session[d].hash /\ ss[d].known = session[d].known
                         /\ ss[d].beside = session[d].beside /\ ss[d].late = session[d].late
                         /\ ss[d].torrent = session[d].torrent /\ ss[d].swarm \in BOOLEAN,
         \A d \in Made : Undisputed(d) =>
           /\ ss[d].late \/ ~ss[d].swarm
           /\ ss[d].hash \in seen => ~ss[d].torrent
  PROVE  IInv'
<1>1. /\ Made' = Made
      /\ \A d \in Made : /\ Kept(d) /\ session'[d].swarm = ss[d].swarm
                         /\ session'[d].torrent \in BOOLEAN
                         /\ session'[d].torrent => session[d].torrent
      /\ destroyed' = TRUE
      /\ listens' = listens /\ registry' = registry /\ call' = call
  <2>0. \A d \in Made : session[d].torrent \in BOOLEAN
    BY DEF IInv, Shape, SessionShape
  <2>1. CASE session' = ss
    BY <2>0, <2>1 DEF Made, Kept
  <2>2. CASE \E h \in DOMAIN torrents : session' = DestroyTorrent(ss, torrents[h], FALSE)
    <3>0. PICK no : no = FALSE
      OBVIOUS
    <3>1. PICK h \in DOMAIN torrents : session' = DestroyTorrent(ss, torrents[h], no)
      BY <2>2, <3>0
    <3>t. PICK t : t = torrents[h]
      OBVIOUS
    <3>2. t \in DOMAIN ss /\ session' = DestroyTorrent(ss, t, no)
      BY <3>1, <3>t DEF IInv, Shape, MapShape, Leads
    <3>3. \A d \in DOMAIN ss : DOMAIN ss[d] = SessionFields /\ ss[d].torrent \in BOOLEAN
      BY <2>0
    <3>4. /\ DOMAIN session' = Made
          /\ \A d \in Made :
               /\ DOMAIN session'[d] = SessionFields
               /\ session'[d].hash = ss[d].hash /\ session'[d].known = ss[d].known
               /\ session'[d].beside = ss[d].beside /\ session'[d].late = ss[d].late
               /\ session'[d].swarm = ss[d].swarm
               /\ session'[d].torrent = (ss[d].torrent /\ d # t)
      BY <3>2, <3>3, DestroyTorrentLemma
    <3> QED BY <2>0, <3>4 DEF Made, Kept
  <2> QED BY <2>1, <2>2 DEF DestroyRound, IInv, Shape, DestroyShape
<1>2. SessionShape'
  BY <1>1 DEF IInv, Shape, SessionShape, Kept
<1>3. CallShape'
  <2>1. \A r \in Removes : call[r].at = "closing" => call[r].result \in Made
    BY DEF IInv, Shape, CallShape
  <2> QED BY <1>1, <2>1 DEF IInv, Shape, CallShape, Kept
<1>4. Leads(registry)'
  BY <1>1 DEF IInv, Shape, MapShape, Leads, Kept
<1>5. ASSUME NEW d \in Made, Undisputed(d)'
      PROVE  /\ LiveInMaps(d)
             /\ session'[d].late \/ ~session'[d].swarm
             /\ session[d].hash \in seen => ~session'[d].torrent
             /\ session[d].torrent \in BOOLEAN
  <2>1. Undisputed(d)
    BY <1>1, <1>5, UndisputedLemma
  <2> QED BY <1>1, <2>1 DEF IInv, Agree, Kept, Shape, SessionShape
<1>6. CASE DOMAIN torrents \subseteq seen
  <2>1. /\ torrents' = <<>> /\ torrentList' = <<>> /\ server' = FALSE
        /\ destroying' = [at |-> "done", seen |-> seen]
    BY <1>6 DEF DestroyRound
  <2>2. MapShape'
    <3>1. Leads(torrents)'
      BY <2>1 DEF Leads
    <3>2. torrentList' \in Seq(Made') /\ IsInjective(torrentList')
      BY <2>1 DEF IsInjective
    <3> QED BY <1>4, <3>1, <3>2 DEF MapShape
  <2>3. DestroyShape'
    BY <1>1, <2>1 DEF IInv, Shape, DestroyShape
  <2>4. Agree'
    <3> SUFFICES ASSUME NEW d \in Made, Undisputed(d)' PROVE LiveInMaps(d)' /\ Gone(d)'
      BY <1>1 DEF Agree
    <3>1. ~session'[d].torrent
      BY <1>1, <1>5, <1>6 DEF LiveInMaps, Has
    <3> QED BY <1>1, <1>5, <2>1, <3>1 DEF LiveInMaps, Gone
  <2> QED BY <1>2, <1>3, <2>2, <2>3, <2>4 DEF IInv, Shape
<1>7. CASE ~(DOMAIN torrents \subseteq seen)
  <2>1. PICK h \in DOMAIN torrents \ seen :
          /\ session' = DestroyTorrent(ss, torrents[h], FALSE)
          /\ destroying' = [at |-> "loop", seen |-> seen \cup {h}]
    BY <1>7 DEF DestroyRound
  <2>2. UNCHANGED <<torrents, torrentList, server>>
    BY <1>7 DEF DestroyRound
  <2>3. MapShape'
    BY <1>1, <1>4, <2>2 DEF IInv, Shape, MapShape, Leads, Kept
  <2>4. DestroyShape'
    BY <1>1, <2>1, <2>2 DEF IInv, Shape, DestroyShape
  <2>5. ~session'[torrents[h]].torrent
    <3>1. torrents[h] \in DOMAIN ss
      BY DEF IInv, Shape, MapShape, Leads
    <3>2. \A d \in DOMAIN ss : DOMAIN ss[d] = SessionFields /\ ss[d].torrent \in BOOLEAN
      BY DEF IInv, Shape, SessionShape
    <3>3. PICK no : no = FALSE
      OBVIOUS
    <3>4. session' = DestroyTorrent(ss, torrents[h], no)
      BY <2>1, <3>3
    <3>5. session'[torrents[h]].torrent = (ss[torrents[h]].torrent /\ torrents[h] # torrents[h])
      BY <3>1, <3>2, <3>4, DestroyTorrentLemma
    <3> QED BY <3>5
  <2>6. Agree'
    <3> SUFFICES ASSUME NEW d \in Made, Undisputed(d)' PROVE LiveInMaps(d)' /\ Gone(d)'
      BY <1>1 DEF Agree
    <3>1. LiveInMaps(d)'
      <4>1. Has(torrents, d)' <=> Has(torrents, d)
        BY <1>1, <2>2 DEF Has, Kept
      <4>2. Removing(session[d].hash)' <=> Removing(session[d].hash)
        BY <1>1 DEF Removing, Kept
      <4> QED BY <1>1, <1>5, <4>1, <4>2 DEF LiveInMaps, Kept
    <3>2. session[d].hash \in seen \cup {h} => ~session'[d].torrent
      BY <1>1, <1>5, <2>5 DEF LiveInMaps, Has
    <3> QED BY <1>1, <1>5, <2>1, <3>1, <3>2 DEF Gone, Kept
  <2> QED BY <1>2, <1>3, <2>3, <2>4, <2>6 DEF IInv, Shape
<1> QED BY <1>6, <1>7

\* destroy stops the swarms and begins its loop.
LEMMA DestroyCalledIInv == ASSUME IInv, DestroyCalled PROVE IInv'
<1>a. PICK ss : ss = [c \in Made |-> [session[c] EXCEPT !.swarm = @ /\ c \notin Range(swarms)]]
  OBVIOUS
<1>1. /\ ~destroyed /\ destroyed' = TRUE /\ swarms' = <<>> /\ UNCHANGED <<listens, registry, call>>
      /\ DestroyRound(ss, {})
  BY <1>a DEF DestroyCalled
<1>2. Leads(swarms)'
  BY <1>1 DEF Leads
<1>3. ASSUME NEW d \in Made
      PROVE  /\ DOMAIN ss[d] = SessionFields
             /\ ss[d].hash = session[d].hash /\ ss[d].known = session[d].known
             /\ ss[d].beside = session[d].beside /\ ss[d].late = session[d].late
             /\ ss[d].torrent = session[d].torrent
             /\ ss[d].swarm = (session[d].swarm /\ d \notin Range(swarms))
             /\ ss[d].swarm \in BOOLEAN
  <2>1. DOMAIN session[d] = SessionFields /\ session[d].swarm \in BOOLEAN
    BY DEF IInv, Shape, SessionShape
  <2>2. ss[d] = [session[d] EXCEPT !.swarm = session[d].swarm /\ d \notin Range(swarms)]
    BY <1>a
  <2> QED BY <2>1, <2>2 DEF SessionFields
<1>4. ASSUME NEW d \in Made, Undisputed(d) PROVE ~ss[d].swarm
  <2>1. session[d].swarm => Has(swarms, d)
    BY <1>1, <1>4 DEF IInv, Agree, MapsAlive
  <2>2. Has(swarms, d) => d \in Range(swarms)
    BY DEF Has, Range
  <2> QED BY <1>3, <2>1, <2>2
<1>5. DOMAIN ss = Made
  BY <1>a
<1> QED BY <1>1, <1>2, <1>3, <1>4, <1>5, DestroyRoundLemma

\* destroy's loop goes on.
LEMMA DestroyLoopIInv == ASSUME IInv, DestroyLoop PROVE IInv'
<1>1. /\ destroying.at = "loop" /\ DestroyRound(session, destroying.seen)
      /\ UNCHANGED <<swarms, destroyed, listens, registry, call>>
  BY DEF DestroyLoop
<1>2. destroyed /\ destroyed' = TRUE /\ destroying.seen \subseteq DOMAIN torrents
  BY <1>1 DEF IInv, Shape, DestroyShape
<1>3. DOMAIN session = Made
  BY DEF Made
<1>4. Leads(swarms)'
  <2>1. CASE session' = session
    BY <1>1, <2>1 DEF IInv, Shape, MapShape, Leads, Made
  <2>2. CASE \E h \in DOMAIN torrents : session' = DestroyTorrent(session, torrents[h], FALSE)
    <3>0. PICK no : no = FALSE
      OBVIOUS
    <3>1. PICK h \in DOMAIN torrents : session' = DestroyTorrent(session, torrents[h], no)
      BY <2>2, <3>0
    <3>2. torrents[h] \in DOMAIN session
      BY <1>3 DEF IInv, Shape, MapShape, Leads
    <3>3. \A d \in DOMAIN session : DOMAIN session[d] = SessionFields /\ session[d].torrent \in BOOLEAN
      BY <1>3 DEF IInv, Shape, SessionShape
    <3>4. /\ DOMAIN session' = DOMAIN session
          /\ \A d \in DOMAIN session : session'[d].hash = session[d].hash
      BY <3>1, <3>2, <3>3, DestroyTorrentLemma
    <3> QED BY <1>1, <3>4 DEF IInv, Shape, MapShape, Leads, Made
  <2> QED BY <1>1, <2>1, <2>2 DEF DestroyRound
<1>5. \A d \in Made : Undisputed(d) =>
        /\ session[d].late \/ ~session[d].swarm
        /\ session[d].hash \in destroying.seen => ~session[d].torrent
  BY <1>1, <1>2 DEF IInv, Agree, Gone
<1>6. \A d \in Made : DOMAIN session[d] = SessionFields /\ session[d].swarm \in BOOLEAN
  BY DEF IInv, Shape, SessionShape
<1> QED BY <1>1, <1>2, <1>3, <1>4, <1>5, <1>6, DestroyRoundLemma

\* A stutter keeps the invariant.
LEMMA StutterIInv == ASSUME IInv, UNCHANGED vars PROVE IInv'
<1>1. SameSessions /\ CallsGoOn
  BY DEF vars, IInv, Shape, SessionShape, CallShape, SameSessions, Kept, CallsGoOn, Made
<1> QED BY <1>1, KeepLemma DEF vars, maps

\* Every step of the client keeps the invariant.
LEMMA NextIInv == IInv /\ [Next]_vars => IInv'
<1> SUFFICES ASSUME IInv, [Next]_vars PROVE IInv'
  OBVIOUS
<1>1. CASE \E s \in Seeds :
        SeedCalled(s) \/ WriteTemp(s) \/ GenerateTorrent(s) \/ Populate(s) \/ Scans(s)
  BY <1>1, SeedCalledIInv, WriteTempIInv, GenerateTorrentIInv, StoreIInv
<1>2. CASE \E c \in Adds : AddCalled(c)
  BY <1>2, AddCalledIInv
<1>3. CASE \E c \in Sessions : AddCheck(c) \/ AddInsert(c)
  BY <1>3, AddCheckIInv, AddInsertIInv
<1>4. CASE \E c \in Removes : RemoveCalled(c) \/ RemoveEnds(c)
  BY <1>4, RemoveCalledIInv, RemoveEndsIInv
<1>5. CASE CreateServer \/ DestroyCalled \/ DestroyLoop
  BY <1>5, CreateServerIInv, DestroyCalledIInv, DestroyLoopIInv
<1>6. CASE UNCHANGED vars
  BY <1>6, StutterIInv
<1> QED BY <1>1, <1>2, <1>3, <1>4, <1>5, <1>6 DEF Next, Scans
-----------------------------------------------------------------------------
(***************************************************************************)
(* What a seed is of                                                       *)
(***************************************************************************)

\* The files to write are an input's, and unless another seed wrote among them, the
\* entry of a single file holds that one when the metainfo is made of it.
SeedOf(s) ==
  LET input == call[s].input IN
  /\ call[s].at = "idle" => call[s].written = 0
  /\ call[s].at # "idle" => input \in Inputs
  /\ call[s].at = "write" =>
       input.kind # "directory" /\ call[s].written \in 0..(Len(input.files) - 1)
  /\ call[s].at = "generate" /\ input.kind = "single" /\ ~call[s].mixed =>
       Entry(input, temp) = {input.files[1]}
  /\ call[s].at \notin {"idle", "write", "generate", "failed"} /\ input.kind # "array"
       /\ ~call[s].mixed =>
       call[s].hash = Metainfo(input, Range(input.files))
SeedsOf == \A s \in Seeds : SeedOf(s)

\* A seed that leaves its call and the directory alone stays as it was.
LEMMA SeedOfKept ==
  ASSUME NEW s \in Seeds, SeedOf(s), call'[s] = call[s], temp' = temp
  PROVE  SeedOf(s)'
BY DEF SeedOf, Entry

\* The entry of the file itself is the file.
LEMMA EntryLemma ==
  ASSUME NEW i \in Inputs, i.kind = "single"
  PROVE  Entry(i, Range(i.files)) = {i.files[1]}
<1>1. Len(i.files) = 1 /\ i.files \in Seq(Range(i.files))
  BY ClientAssumption
<1>2. Range(i.files) = {i.files[1]}
  BY <1>1 DEF Range
<1> QED BY <1>2 DEF Entry

\* The metainfo is of the entry only.
LEMMA MetainfoLemma ==
  ASSUME NEW i, NEW d, NEW e, Entry(i, d) = Entry(i, e)
  PROVE  Metainfo(i, d) = Metainfo(i, e)
BY DEF Metainfo, Walked

\* seed begins.
LEMMA SeedCalledOf == ASSUME IInv, SeedsOf, NEW s \in Seeds, SeedCalled(s) PROVE SeedsOf'
<1>1. PICK input \in Inputs :
        call' = [call EXCEPT ![s].at = IF input.kind = "directory" THEN "generate" ELSE "write",
                             ![s].input = input]
  BY DEF SeedCalled
<1>2. DOMAIN call = Calls /\ DOMAIN call[s] = CallFields /\ s \in Calls
  BY CallSorts DEF IInv, Shape, CallShape
<1>3. /\ call'[s].at = IF input.kind = "directory" THEN "generate" ELSE "write"
      /\ call'[s].input = input /\ call'[s].written = call[s].written
      /\ \A d \in Calls \ {s} : call'[d] = call[d]
  BY <1>1, <1>2 DEF CallFields
<1>4. call[s].written = 0 /\ temp' = temp
  BY DEF SeedsOf, SeedOf, SeedCalled, MayCall
<1>5. 0 \in 0..(Len(input.files) - 1)
  BY ClientAssumption
<1>6. SeedOf(s)'
  BY <1>3, <1>4, <1>5 DEF SeedOf
<1>7. \A t \in Seeds \ {s} : SeedOf(t)'
  BY <1>3, <1>4, SeedOfKept, CallSorts DEF SeedsOf
<1> QED BY <1>6, <1>7 DEF SeedsOf

\* seed writes a file: the entry of a single one is then that, and a seed whose entry
\* another file of the name goes into is mixed.
LEMMA WriteTempOf == ASSUME IInv, SeedsOf, NEW s \in Seeds, WriteTemp(s) PROVE SeedsOf'
<1> DEFINE n == call[s].written + 1
           f == call[s].input.files[n]
<1>1. call' = [c \in Calls |->
       IF c = s THEN [call[c] EXCEPT !.written = n,
                        !.at = IF n = Len(call[c].input.files) THEN "generate" ELSE @]
       ELSE IF c \in Seeds /\ Reads(c, f) THEN [call[c] EXCEPT !.mixed = TRUE] ELSE call[c]]
  BY DEF WriteTemp
<1>2. call[s].at = "write" /\ temp' = {g \in temp : g.name # f.name} \cup {f}
  BY DEF WriteTemp
<1>3. /\ call[s].input \in Inputs /\ call[s].input.kind # "directory"
      /\ call[s].written \in 0..(Len(call[s].input.files) - 1)
  BY <1>2 DEF SeedsOf, SeedOf
<1>4. call[s].input.kind = "single" => n = 1
  <2>1. ASSUME call[s].input.kind = "single" PROVE call[s].written = 0
    <3>1. Len(call[s].input.files) = 1
      BY <1>3, <2>1, ClientAssumption
    <3>2. PICK w \in 0..(Len(call[s].input.files) - 1) : w = call[s].written
      BY <1>3
    <3> QED BY <3>1, <3>2
  <2> QED BY <2>1
<1>5. Len(call[s].input.files) \in Nat
  BY <1>3, ClientAssumption
<1>n. n \in 1..Len(call[s].input.files)
  BY <1>3, <1>5
<1>f. f = call[s].input.files[n]
  OBVIOUS
<1> HIDE DEF n, f
<1>6. SeedOf(s)'
  <2>1. call'[s] = [call[s] EXCEPT !.written = n,
                      !.at = IF n = Len(call[s].input.files) THEN "generate" ELSE @]
    BY <1>1, CallSorts
  <2>2. DOMAIN call[s] = CallFields
    BY CallSorts DEF IInv, Shape, CallShape
  <2>3. /\ call'[s].at = IF n = Len(call[s].input.files) THEN "generate" ELSE "write"
        /\ call'[s].written = n /\ call'[s].input = call[s].input
    BY <1>2, <2>1, <2>2 DEF CallFields
  <2>4. ASSUME call[s].input.kind = "single"
        PROVE  Entry(call[s].input, temp') = {call[s].input.files[1]}
    BY <1>2, <1>4, <1>f, <2>4 DEF Entry
  <2>5. n # Len(call[s].input.files) => n \in 0..(Len(call[s].input.files) - 1)
    BY <1>n, <1>5
  <2> QED BY <1>3, <2>3, <2>4, <2>5 DEF SeedOf
<1>7. ASSUME NEW t \in Seeds, t # s PROVE SeedOf(t)'
  <2>0. SeedOf(t) /\ DOMAIN call[t] = CallFields /\ t \in Calls
    BY CallSorts DEF SeedsOf, IInv, Shape, CallShape
  <2>1. CASE Reads(t, f)
    <3>1. call'[t] = [call[t] EXCEPT !.mixed = TRUE]
      BY <1>1, <1>7, <2>0, <2>1
    <3>2. /\ call'[t].at = call[t].at /\ call'[t].input = call[t].input
          /\ call'[t].written = call[t].written /\ call'[t].mixed
      BY <2>0, <3>1 DEF CallFields
    <3> QED BY <2>0, <3>2 DEF SeedOf
  <2>2. CASE ~Reads(t, f)
    <3>1. call'[t] = call[t]
      BY <1>1, <1>7, <2>0, <2>2
    <3>2. ASSUME call[t].at = "generate", call[t].input.kind = "single"
          PROVE  Entry(call[t].input, temp') = Entry(call[t].input, temp)
      <4>1. call[t].input.files[1].name # f.name
        BY <2>2, <3>2 DEF Reads, Settled
      <4> QED BY <1>2, <3>2, <4>1 DEF Entry
    <3> QED BY <2>0, <3>1, <3>2 DEF SeedOf
  <2> QED BY <2>1, <2>2
<1> QED BY <1>6, <1>7 DEF SeedsOf

\* The metainfo is made: of the input, unless the entry was disturbed.
LEMMA GenerateTorrentOf ==
  ASSUME IInv, SeedsOf, NEW s \in Seeds, GenerateTorrent(s) PROVE SeedsOf'
<1> DEFINE input == call[s].input
<1>1. PICK at \in {"failed", "parse"} :
        call' = [call EXCEPT ![s].at = at, ![s].hash = Metainfo(input, temp)]
  BY DEF GenerateTorrent
<1>2. call[s].at = "generate" /\ temp' = temp
  BY DEF GenerateTorrent
<1>3. DOMAIN call = Calls /\ DOMAIN call[s] = CallFields /\ s \in Calls /\ SeedOf(s)
  BY CallSorts DEF IInv, Shape, CallShape, SeedsOf
<1>4. input \in Inputs
  BY <1>2, <1>3 DEF SeedOf
<1>5. /\ call'[s].at = at /\ call'[s].hash = Metainfo(input, temp)
      /\ call'[s].input = input /\ call'[s].mixed = call[s].mixed
      /\ \A d \in Calls \ {s} : call'[d] = call[d]
  BY <1>1, <1>3 DEF CallFields
<1>6. ASSUME input.kind # "array", ~call[s].mixed
      PROVE  Metainfo(input, temp) = Metainfo(input, Range(input.files))
  <2>1. CASE input.kind = "single"
    <3>1. Entry(input, temp) = {input.files[1]}
      BY <1>2, <1>3, <1>6, <2>1 DEF SeedOf
    <3>2. Entry(input, Range(input.files)) = {input.files[1]}
      BY <1>4, <2>1, EntryLemma
    <3> QED BY <3>1, <3>2, MetainfoLemma
  <2>2. CASE input.kind = "directory"
    <3>1. Entry(input, temp) = Entry(input, Range(input.files))
      BY <2>2 DEF Entry
    <3> QED BY <3>1, MetainfoLemma
  <2> QED BY <1>4, <1>6, <2>1, <2>2, ClientAssumption
<1> HIDE DEF input
<1>7. SeedOf(s)'
  BY <1>4, <1>5, <1>6 DEF SeedOf
<1>8. \A t \in Seeds \ {s} : SeedOf(t)'
  BY <1>2, <1>5, SeedOfKept, CallSorts DEF SeedsOf
<1> QED BY <1>7, <1>8 DEF SeedsOf

\* From there on a call keeps its input, its hash and whether it was mixed.
LEMMA GoesOnOf ==
  ASSUME IInv, SeedsOf, NEW c \in Sessions, temp' = temp,
         \A d \in Calls \ {c} : call'[d] = call[d],
         c \in Seeds =>
           /\ call[c].at \in {"parse", "store"} \cup AtStore
           /\ call'[c].at \in {"store", "failed"} \cup AtStore
           /\ call'[c].input = call[c].input /\ call'[c].hash = call[c].hash
           /\ call'[c].mixed = call[c].mixed
  PROVE  SeedsOf'
<1>1. c \in Seeds => SeedOf(c)'
  BY DEF SeedsOf, SeedOf, AtStore
<1>2. \A t \in Seeds \ {c} : SeedOf(t)'
  BY SeedOfKept, CallSorts DEF SeedsOf
<1> QED BY <1>1, <1>2 DEF SeedsOf

\* Every step keeps what the seeds are of.
LEMMA NextOf == ASSUME IInv, SeedsOf, [Next]_vars PROVE SeedsOf'
<1>0. /\ DOMAIN call = Calls
      /\ \A c \in Sessions : c \in Calls /\ DOMAIN call[c] = CallFields
  BY CallSorts DEF IInv, Shape, CallShape
<1>1. ASSUME NEW c \in Sessions, AddCheck(c) PROVE SeedsOf'
  <2>1. PICK found, at : call' = [call EXCEPT ![c].result = found, ![c].at = at]
    BY <1>1 DEF AddCheck
  <2>2. c \in Seeds => call'[c].at \in {"store", "populate"}
    BY <1>0, <1>1 DEF AddCheck, CallFields
  <2>3. /\ \A d \in Calls \ {c} : call'[d] = call[d]
        /\ call'[c].input = call[c].input /\ call'[c].hash = call[c].hash
        /\ call'[c].mixed = call[c].mixed
    BY <1>0, <2>1 DEF CallFields
  <2>4. temp' = temp /\ call[c].at = "parse"
    BY <1>1 DEF AddCheck
  <2> QED BY <2>2, <2>3, <2>4, GoesOnOf DEF AtStore
<1>2. ASSUME NEW c \in Sessions, AddInsert(c) PROVE SeedsOf'
  <2>1. PICK found, at : call' = [call EXCEPT ![c].result = found, ![c].at = at]
    BY <1>2 DEF AddInsert
  <2>2. c \in Seeds => call'[c].at = "populate"
    BY <1>0, <1>2 DEF AddInsert, CallFields
  <2>3. /\ \A d \in Calls \ {c} : call'[d] = call[d]
        /\ call'[c].input = call[c].input /\ call'[c].hash = call[c].hash
        /\ call'[c].mixed = call[c].mixed
    BY <1>0, <2>1 DEF CallFields
  <2>4. temp' = temp /\ call[c].at = "store"
    BY <1>2 DEF AddInsert
  <2> QED BY <2>2, <2>3, <2>4, GoesOnOf DEF AtStore
<1>3. ASSUME NEW s \in Seeds, Populate(s) \/ Scans(s) PROVE SeedsOf'
  <2>1. AtTheStore(s) /\ s \in Sessions
    BY <1>3, StoreSteps, CallSorts
  <2> QED BY <2>1, GoesOnOf DEF AtTheStore
<1>4. ASSUME temp' = temp, \A s \in Seeds : call'[s] = call[s] PROVE SeedsOf'
  BY <1>4, SeedOfKept DEF SeedsOf
<1>5. ASSUME NEW c \in Adds, AddCalled(c) PROVE SeedsOf'
  <2>1. temp' = temp /\ \A d \in Calls \ {c} : call'[d] = call[d]
    BY <1>0, <1>5 DEF AddCalled
  <2>2. \A s \in Seeds : s \in Calls \ {c}
    BY CallSorts, ClientAssumption
  <2> QED BY <1>4, <2>1, <2>2
<1>6. ASSUME NEW c \in Removes, RemoveCalled(c) \/ RemoveEnds(c) PROVE SeedsOf'
  <2>1. temp' = temp /\ \A d \in Calls \ {c} : call'[d] = call[d]
    BY <1>0, <1>6 DEF RemoveCalled, RemoveEnds
  <2>2. \A s \in Seeds : s \in Calls \ {c}
    BY CallSorts
  <2> QED BY <1>4, <2>1, <2>2
<1>7. CASE CreateServer \/ DestroyCalled \/ DestroyLoop \/ UNCHANGED vars
  BY <1>4, <1>7 DEF CreateServer, DestroyCalled, DestroyLoop, vars
<1> QED BY <1>1, <1>2, <1>3, <1>5, <1>6, <1>7, SeedCalledOf, WriteTempOf, GenerateTorrentOf DEF Next, Scans
-----------------------------------------------------------------------------
(***************************************************************************)
(* How files are walked, joined and poured                                 *)
(***************************************************************************)

\* The buffer of the populating pass and the chunks it has put.
Pours == [buffer : Seq(Nat), puts : Seq(Seq(Nat))]
NewPour == [buffer |-> <<>>, puts |-> <<>>]

\* A file inserted into a sequence of files leaves one.
LEMMA InsertLemma ==
  ASSUME NEW D, NEW q \in Seq(D), NEW f \in D
  PROVE  Insert(q, f) \in Seq(D)
<1>1. PICK T : T = {i \in DOMAIN q : Before(q[i], f)}
  OBVIOUS
<1>2. PICK l \in Nat : l = Len(q)
  OBVIOUS
<1>3. IsFiniteSet(1..l) /\ Cardinality(1..l) = l
  BY FS_Interval
<1>4. T \subseteq 1..Len(q)
  BY <1>1
<1>5. IsFiniteSet(T) /\ Cardinality(T) <= Len(q)
  BY <1>2, <1>3, <1>4, FS_Subset
<1>6. PICK n \in Nat : n = Cardinality(T) /\ n <= Len(q)
  BY <1>5, FS_CardinalityType
<1>7. Insert(q, f) = InsertAt(q, 1 + n, f)
  BY <1>1, <1>6 DEF Insert
<1>8. InsertAt(q, 1 + n, f) = SubSeq(q, 1, n) \o <<f>> \o SubSeq(q, 1 + n, Len(q))
  <2>1. (1 + n) - 1 = n
    OBVIOUS
  <2> QED BY <2>1 DEF InsertAt
<1>9. /\ SubSeq(q, 1, n) \in Seq(D) /\ SubSeq(q, 1 + n, Len(q)) \in Seq(D) /\ <<f>> \in Seq(D)
  BY <1>6
<1>10. SubSeq(q, 1, n) \o <<f>> \in Seq(D)
  BY <1>9
<1>11. SubSeq(q, 1, n) \o <<f>> \o SubSeq(q, 1 + n, Len(q)) \in Seq(D)
  BY <1>9, <1>10
<1> QED BY <1>7, <1>8, <1>11

\* The listing of a finite set is a sequence of it.
LEMMA ListingLemma ==
  ASSUME NEW D, IsFiniteSet(D)
  PROVE  SetToSeq(D) \in Seq(D)
<1>1. PICK n \in Nat : n = Cardinality(D)
  BY FS_CardinalityType
<1>2. \E f \in [1..n -> D] : IsInjective(f)
  <2>1. ExistsBijection(1..n, D)
    BY <1>1, FS_CardinalityType
  <2> QED BY <2>1 DEF ExistsBijection, Bijection, Injection
<1>3. SetToSeq(D) \in [1..n -> D]
  BY <1>1, <1>2 DEF SetToSeq
<1> QED BY <1>3

\* walkOPFSDir inserts the files one after another.
LEMMA WalkUnfolds ==
  ASSUME NEW D, NEW q \in Seq(D)
  PROVE  \E r \in [0..Len(q) -> Seq(D)] :
           /\ FoldLeft(Insert, <<>>, q) = r[Len(q)] /\ r[0] = <<>>
           /\ \A k \in 1..Len(q) : r[k] = Insert(r[k - 1], q[k])
<1>1. PICK n \in Nat : n = Len(q) /\ DOMAIN q = 1..n /\ \A i \in 1..n : q[i] \in D
  OBVIOUS
<1>2. PICK V : V = Seq(D)
  OBVIOUS
<1>3. PICK F : F = [p \in V \X D |-> Insert(p[1], p[2])]
  OBVIOUS
<1>4. ASSUME NEW v \in V, NEW m \in D
      PROVE  F[<<v, m>>] = Insert(v, m) /\ Insert(v, m) \in V
  <2>1. F[<<v, m>>] = Insert(v, m)
    BY <1>3
  <2>2. Insert(v, m) \in V
    BY <1>2, InsertLemma
  <2> QED BY <2>1, <2>2
<1>5. PICK g \in [SUBSET (1..n) -> V] : Folds(g, F, <<>>, q, n)
  <2>1. F \in [V \X D -> V]
    BY <1>3, <1>4
  <2>2. <<>> \in V
    BY <1>2
  <2> QED BY <1>1, <2>1, <2>2, FoldExists
<1> DEFINE Walks(w) == w = [T \in SUBSET (1..n) |->
                              IF T = {} THEN <<>> ELSE Insert(w[T \ {Max(T)}], q[Max(T)])]
<1>6. FoldLeft(Insert, <<>>, q) = (CHOOSE w : Walks(w))[1..n]
  BY <1>1 DEF FoldLeft, MapThenFoldSet
<1>7. Walks(g)
  <2>1. ASSUME NEW T \in SUBSET (1..n)
        PROVE  g[T] = IF T = {} THEN <<>> ELSE Insert(g[T \ {Max(T)}], q[Max(T)])
    <3>1. CASE T = {}
      BY <1>5, <3>1 DEF Folds
    <3>2. CASE T # {}
      <4>1. Max(T) \in T
        BY <3>2, MaxLemma
      <4>2. g[T \ {Max(T)}] \in V /\ q[Max(T)] \in D
        BY <1>1, <4>1
      <4>3. g[T] = F[<<g[T \ {Max(T)}], q[Max(T)]>>]
        BY <1>5, <3>2 DEF Folds
      <4> QED BY <1>4, <3>2, <4>2, <4>3
    <3> QED BY <3>1, <3>2
  <2>2. g = [T \in SUBSET (1..n) |-> g[T]]
    OBVIOUS
  <2> QED BY <2>1, <2>2
<1>8. PICK w : w = CHOOSE v : Walks(v)
  OBVIOUS
<1>9. Walks(w)
  <2> HIDE DEF Walks
  <2> QED BY <1>7, <1>8
<1>10. w[{}] = <<>> /\ \A k \in 1..n : w[1..k] = Insert(w[1..(k - 1)], q[k])
  <2>1. ASSUME NEW k \in 1..n
        PROVE  w[1..k] = Insert(w[1..(k - 1)], q[k])
    <3>1. 1..k \in SUBSET (1..n) /\ 1..k # {} /\ Max(1..k) = k /\ (1..k) \ {k} = 1..(k - 1)
      BY PrefixLemma
    <3> QED BY <1>9, <3>1
  <2> QED BY <1>9, <2>1
<1> HIDE DEF Walks
<1>11. PICK r : r = [k \in 0..n |-> w[1..k]]
  OBVIOUS
<1>12. r[n] = w[1..n] /\ r[0] = <<>>
  <2>1. 1..0 = {}
    OBVIOUS
  <2> QED BY <1>10, <1>11, <2>1
<1>13. ASSUME NEW k \in 1..n PROVE r[k] = Insert(r[k - 1], q[k])
  <2>1. k - 1 \in 0..n /\ k \in 0..n
    OBVIOUS
  <2> QED BY <1>10, <1>11, <2>1
<1>14. PICK N : N = {k \in Nat : k <= n => r[k] \in V}
  OBVIOUS
<1>15. 0 \in N
  <2>1. <<>> \in V
    BY <1>2
  <2>2. r[0] \in V
    BY <1>12, <2>1
  <2> QED BY <1>14, <2>2
<1>16. ASSUME NEW k \in Nat, k \in N PROVE k + 1 \in N
  <2>1. CASE k + 1 <= n
    <3>1. k + 1 \in 1..n /\ (k + 1) - 1 = k /\ k <= n
      BY <2>1
    <3>2. r[k] \in V /\ q[k + 1] \in D
      BY <1>1, <1>14, <1>16, <3>1
    <3>3. r[k + 1] = Insert(r[k], q[k + 1])
      BY <1>13, <3>1
    <3>4. r[k + 1] \in V
      BY <1>4, <3>2, <3>3
    <3> QED BY <1>14, <3>4
  <2>2. CASE ~(k + 1 <= n)
    BY <1>14, <2>2
  <2> QED BY <2>1, <2>2
<1>17. Nat \subseteq N
  BY <1>15, <1>16, Induction
<1>18. r \in [0..n -> Seq(D)]
  BY <1>2, <1>11, <1>14, <1>17
<1> QED BY <1>1, <1>6, <1>8, <1>12, <1>13, <1>18

\* A walk gives files of the directory.
LEMMA WalkLemma ==
  ASSUME NEW D, IsFiniteSet(D), NEW hide
  PROVE  WalkDir(D, hide) \in Seq(D)
<1>1. PICK E \in SUBSET D : E = {f \in D : ~(hide /\ f.hidden)}
  OBVIOUS
<1>2. PICK q \in Seq(E) : q = SetToSeq(E)
  BY <1>1, FS_Subset, ListingLemma
<1>3. WalkDir(D, hide) = FoldLeft(Insert, <<>>, q)
  BY <1>1, <1>2 DEF WalkDir
<1>4. PICK r \in [0..Len(q) -> Seq(E)] : FoldLeft(Insert, <<>>, q) = r[Len(q)]
  BY WalkUnfolds
<1>5. r[Len(q)] \in Seq(E)
  OBVIOUS
<1> QED BY <1>3, <1>4, <1>5

\* The bytes of files, one file after another.
LEMMA BytesUnfold ==
  ASSUME NEW X, NEW q \in Seq(X), \A f \in X : f.bytes \in Seq(Nat)
  PROVE  \E r \in [0..Len(q) -> Seq(Nat)] :
           /\ Bytes(q) = r[Len(q)] /\ r[0] = <<>>
           /\ \A k \in 1..Len(q) : r[k] = (r[k - 1] \o q[k].bytes)
<1>1. PICK n \in Nat : n = Len(q) /\ DOMAIN q = 1..n /\ \A i \in 1..n : q[i] \in X
  OBVIOUS
<1>2. PICK V : V = Seq(Nat)
  OBVIOUS
<1>3. PICK F : F = [p \in V \X X |-> (p[1] \o p[2].bytes)]
  OBVIOUS
<1>4. ASSUME NEW v \in V, NEW m \in X
      PROVE  F[<<v, m>>] = (v \o m.bytes) /\ (v \o m.bytes) \in V
  <2>1. F[<<v, m>>] = (v \o m.bytes)
    BY <1>3
  <2>2. (v \o m.bytes) \in V
    BY <1>2
  <2> QED BY <2>1, <2>2
<1>5. PICK g \in [SUBSET (1..n) -> V] : Folds(g, F, <<>>, q, n)
  <2>1. F \in [V \X X -> V]
    BY <1>3, <1>4
  <2>2. <<>> \in V
    BY <1>2
  <2> QED BY <1>1, <2>1, <2>2, FoldExists
<1> DEFINE Walks(w) == w = [T \in SUBSET (1..n) |->
                              IF T = {} THEN <<>> ELSE (w[T \ {Max(T)}] \o q[Max(T)].bytes)]
<1>6. Bytes(q) = (CHOOSE w : Walks(w))[1..n]
  BY <1>1 DEF Bytes, FoldLeft, MapThenFoldSet
<1>7. Walks(g)
  <2>1. ASSUME NEW T \in SUBSET (1..n)
        PROVE  g[T] = IF T = {} THEN <<>> ELSE (g[T \ {Max(T)}] \o q[Max(T)].bytes)
    <3>1. CASE T = {}
      BY <1>5, <3>1 DEF Folds
    <3>2. CASE T # {}
      <4>1. Max(T) \in T
        BY <3>2, MaxLemma
      <4>2. g[T \ {Max(T)}] \in V /\ q[Max(T)] \in X
        BY <1>1, <4>1
      <4>3. g[T] = F[<<g[T \ {Max(T)}], q[Max(T)]>>]
        BY <1>5, <3>2 DEF Folds
      <4> QED BY <1>4, <3>2, <4>2, <4>3
    <3> QED BY <3>1, <3>2
  <2>2. g = [T \in SUBSET (1..n) |-> g[T]]
    OBVIOUS
  <2> QED BY <2>1, <2>2
<1>8. PICK w : w = CHOOSE v : Walks(v)
  OBVIOUS
<1>9. Walks(w)
  <2> HIDE DEF Walks
  <2> QED BY <1>7, <1>8
<1>10. w[{}] = <<>> /\ \A k \in 1..n : w[1..k] = (w[1..(k - 1)] \o q[k].bytes)
  <2>1. ASSUME NEW k \in 1..n
        PROVE  w[1..k] = (w[1..(k - 1)] \o q[k].bytes)
    <3>1. 1..k \in SUBSET (1..n) /\ 1..k # {} /\ Max(1..k) = k /\ (1..k) \ {k} = 1..(k - 1)
      BY PrefixLemma
    <3> QED BY <1>9, <3>1
  <2> QED BY <1>9, <2>1
<1> HIDE DEF Walks
<1>11. PICK r : r = [k \in 0..n |-> w[1..k]]
  OBVIOUS
<1>12. r[n] = w[1..n] /\ r[0] = <<>>
  <2>1. 1..0 = {}
    OBVIOUS
  <2> QED BY <1>10, <1>11, <2>1
<1>13. ASSUME NEW k \in 1..n PROVE r[k] = (r[k - 1] \o q[k].bytes)
  <2>1. k - 1 \in 0..n /\ k \in 0..n
    OBVIOUS
  <2> QED BY <1>10, <1>11, <2>1
<1>14. PICK N : N = {k \in Nat : k <= n => r[k] \in V}
  OBVIOUS
<1>15. 0 \in N
  <2>1. <<>> \in V
    BY <1>2
  <2>2. r[0] \in V
    BY <1>12, <2>1
  <2> QED BY <1>14, <2>2
<1>16. ASSUME NEW k \in Nat, k \in N PROVE k + 1 \in N
  <2>1. CASE k + 1 <= n
    <3>1. k + 1 \in 1..n /\ (k + 1) - 1 = k /\ k <= n
      BY <2>1
    <3>2. r[k] \in V /\ q[k + 1] \in X
      BY <1>1, <1>14, <1>16, <3>1
    <3>3. r[k + 1] = (r[k] \o q[k + 1].bytes)
      BY <1>13, <3>1
    <3>4. r[k + 1] \in V
      BY <1>4, <3>2, <3>3
    <3> QED BY <1>14, <3>4
  <2>2. CASE ~(k + 1 <= n)
    BY <1>14, <2>2
  <2> QED BY <2>1, <2>2
<1>17. Nat \subseteq N
  BY <1>15, <1>16, Induction
<1>18. r \in [0..n -> Seq(Nat)]
  BY <1>2, <1>11, <1>14, <1>17
<1> QED BY <1>1, <1>6, <1>8, <1>12, <1>13, <1>18

\* The length of a torrent, one file after another.
LEMMA LengthUnfolds ==
  ASSUME NEW info, NEW X, info.files \in Seq(X), \A f \in X : f.length \in Nat
  PROVE  \E r \in [0..Len(info.files) -> Nat] :
           /\ Length(info) = r[Len(info.files)] /\ r[0] = 0
           /\ \A k \in 1..Len(info.files) : r[k] = r[k - 1] + info.files[k].length
<1>1. PICK n \in Nat :
        n = Len(info.files) /\ DOMAIN info.files = 1..n /\ \A i \in 1..n : info.files[i] \in X
  OBVIOUS
<1>2. PICK V : V = Nat
  OBVIOUS
<1>3. PICK F : F = [p \in V \X X |-> p[1] + p[2].length]
  OBVIOUS
<1>4. ASSUME NEW v \in V, NEW m \in X
      PROVE  F[<<v, m>>] = v + m.length /\ v + m.length \in V
  <2>1. F[<<v, m>>] = v + m.length
    BY <1>3
  <2>2. v + m.length \in V
    BY <1>2
  <2> QED BY <2>1, <2>2
<1>5. PICK g \in [SUBSET (1..n) -> V] : Folds(g, F, 0, info.files, n)
  <2>1. F \in [V \X X -> V]
    BY <1>3, <1>4
  <2>2. 0 \in V
    BY <1>2
  <2> QED BY <1>1, <2>1, <2>2, FoldExists
<1> DEFINE Walks(w) == w = [T \in SUBSET (1..n) |->
                              IF T = {} THEN 0 ELSE w[T \ {Max(T)}] + info.files[Max(T)].length]
<1>6. Length(info) = (CHOOSE w : Walks(w))[1..n]
  BY <1>1 DEF Length, FoldLeft, MapThenFoldSet
<1>7. Walks(g)
  <2>1. ASSUME NEW T \in SUBSET (1..n)
        PROVE  g[T] = IF T = {} THEN 0 ELSE g[T \ {Max(T)}] + info.files[Max(T)].length
    <3>1. CASE T = {}
      BY <1>5, <3>1 DEF Folds
    <3>2. CASE T # {}
      <4>1. Max(T) \in T
        BY <3>2, MaxLemma
      <4>2. g[T \ {Max(T)}] \in V /\ info.files[Max(T)] \in X
        BY <1>1, <4>1
      <4>3. g[T] = F[<<g[T \ {Max(T)}], info.files[Max(T)]>>]
        BY <1>5, <3>2 DEF Folds
      <4> QED BY <1>4, <3>2, <4>2, <4>3
    <3> QED BY <3>1, <3>2
  <2>2. g = [T \in SUBSET (1..n) |-> g[T]]
    OBVIOUS
  <2> QED BY <2>1, <2>2
<1>8. PICK w : w = CHOOSE v : Walks(v)
  OBVIOUS
<1>9. Walks(w)
  <2> HIDE DEF Walks
  <2> QED BY <1>7, <1>8
<1>10. w[{}] = 0 /\ \A k \in 1..n : w[1..k] = w[1..(k - 1)] + info.files[k].length
  <2>1. ASSUME NEW k \in 1..n
        PROVE  w[1..k] = w[1..(k - 1)] + info.files[k].length
    <3>1. 1..k \in SUBSET (1..n) /\ 1..k # {} /\ Max(1..k) = k /\ (1..k) \ {k} = 1..(k - 1)
      BY PrefixLemma
    <3> QED BY <1>9, <3>1
  <2> QED BY <1>9, <2>1
<1> HIDE DEF Walks
<1>11. PICK r : r = [k \in 0..n |-> w[1..k]]
  OBVIOUS
<1>12. r[n] = w[1..n] /\ r[0] = 0
  <2>1. 1..0 = {}
    OBVIOUS
  <2> QED BY <1>10, <1>11, <2>1
<1>13. ASSUME NEW k \in 1..n PROVE r[k] = r[k - 1] + info.files[k].length
  <2>1. k - 1 \in 0..n /\ k \in 0..n
    OBVIOUS
  <2> QED BY <1>10, <1>11, <2>1
<1>14. PICK N : N = {k \in Nat : k <= n => r[k] \in V}
  OBVIOUS
<1>15. 0 \in N
  <2>1. 0 \in V
    BY <1>2
  <2>2. r[0] \in V
    BY <1>12, <2>1
  <2> QED BY <1>14, <2>2
<1>16. ASSUME NEW k \in Nat, k \in N PROVE k + 1 \in N
  <2>1. CASE k + 1 <= n
    <3>1. k + 1 \in 1..n /\ (k + 1) - 1 = k /\ k <= n
      BY <2>1
    <3>2. r[k] \in V /\ info.files[k + 1] \in X
      BY <1>1, <1>14, <1>16, <3>1
    <3>3. r[k + 1] = r[k] + info.files[k + 1].length
      BY <1>13, <3>1
    <3>4. r[k + 1] \in V
      BY <1>4, <3>2, <3>3
    <3> QED BY <1>14, <3>4
  <2>2. CASE ~(k + 1 <= n)
    BY <1>14, <2>2
  <2> QED BY <2>1, <2>2
<1>17. Nat \subseteq N
  BY <1>15, <1>16, Induction
<1>18. r \in [0..n -> Nat]
  BY <1>2, <1>11, <1>14, <1>17
<1> QED BY <1>1, <1>6, <1>8, <1>12, <1>13, <1>18

\* A byte more in the buffer, or a piece more that is put.
LEMMA PourLemma ==
  ASSUME NEW v \in Pours, NEW m \in Nat, NEW size
  PROVE  Pour(v, m, size) \in Pours
<1>1. PICK buffer \in Seq(Nat), puts \in Seq(Seq(Nat)) : v = [buffer |-> buffer, puts |-> puts]
  BY DEF Pours
<1>2. PICK full \in Seq(Nat) : full = Append(buffer, m)
  <2>1. Append(buffer, m) \in Seq(Nat)
    OBVIOUS
  <2> QED BY <2>1
<1>3. Append(puts, full) \in Seq(Seq(Nat)) /\ <<>> \in Seq(Nat)
  OBVIOUS
<1>4. Pour(v, m, size) = IF Len(full) = size THEN [buffer |-> <<>>, puts |-> Append(puts, full)]
                         ELSE [buffer |-> full, puts |-> puts]
  <2>1. v.buffer = buffer /\ v.puts = puts
    BY <1>1
  <2>2. \A x : [v EXCEPT !.buffer = x] = [buffer |-> x, puts |-> puts]
    BY <1>1
  <2> QED BY <1>2, <2>1, <2>2 DEF Pour
<1> QED BY <1>3, <1>4 DEF Pours

\* The chunks as they are put, byte by byte.
LEMMA PourUnfolds ==
  ASSUME NEW files, Bytes(files) \in Seq(Nat), NEW size
  PROVE  \E r \in [0..Len(Bytes(files)) -> Pours] :
           /\ Poured(files, size) = r[Len(Bytes(files))] /\ r[0] = NewPour
           /\ \A k \in 1..Len(Bytes(files)) : r[k] = Pour(r[k - 1], Bytes(files)[k], size)
<1>1. PICK n \in Nat :
        /\ n = Len(Bytes(files)) /\ DOMAIN Bytes(files) = 1..n
        /\ \A i \in 1..n : Bytes(files)[i] \in Nat
  OBVIOUS
<1>2. PICK V : V = Pours
  OBVIOUS
<1>3. PICK F : F = [p \in V \X Nat |-> Pour(p[1], p[2], size)]
  OBVIOUS
<1>4. ASSUME NEW v \in V, NEW m \in Nat
      PROVE  F[<<v, m>>] = Pour(v, m, size) /\ Pour(v, m, size) \in V
  <2>1. F[<<v, m>>] = Pour(v, m, size)
    BY <1>3
  <2>2. Pour(v, m, size) \in V
    BY <1>2, PourLemma
  <2> QED BY <2>1, <2>2
<1>5. PICK g \in [SUBSET (1..n) -> V] : Folds(g, F, NewPour, Bytes(files), n)
  <2>1. F \in [V \X Nat -> V]
    BY <1>3, <1>4
  <2>2. NewPour \in V
    BY <1>2 DEF NewPour, Pours
  <2> QED BY <1>1, <2>1, <2>2, FoldExists
<1> DEFINE Walks(w) == w = [T \in SUBSET (1..n) |->
                              IF T = {} THEN NewPour ELSE Pour(w[T \ {Max(T)}], Bytes(files)[Max(T)], size)]
<1>6. Poured(files, size) = (CHOOSE w : Walks(w))[1..n]
  BY <1>1 DEF Poured, NewPour, FoldLeft, MapThenFoldSet
<1>7. Walks(g)
  <2>1. ASSUME NEW T \in SUBSET (1..n)
        PROVE  g[T] = IF T = {} THEN NewPour ELSE Pour(g[T \ {Max(T)}], Bytes(files)[Max(T)], size)
    <3>1. CASE T = {}
      BY <1>5, <3>1 DEF Folds
    <3>2. CASE T # {}
      <4>1. Max(T) \in T
        BY <3>2, MaxLemma
      <4>2. g[T \ {Max(T)}] \in V /\ Bytes(files)[Max(T)] \in Nat
        BY <1>1, <4>1
      <4>3. g[T] = F[<<g[T \ {Max(T)}], Bytes(files)[Max(T)]>>]
        BY <1>5, <3>2 DEF Folds
      <4> QED BY <1>4, <3>2, <4>2, <4>3
    <3> QED BY <3>1, <3>2
  <2>2. g = [T \in SUBSET (1..n) |-> g[T]]
    OBVIOUS
  <2> QED BY <2>1, <2>2
<1>8. PICK w : w = CHOOSE v : Walks(v)
  OBVIOUS
<1>9. Walks(w)
  <2> HIDE DEF Walks
  <2> QED BY <1>7, <1>8
<1>10. w[{}] = NewPour /\ \A k \in 1..n : w[1..k] = Pour(w[1..(k - 1)], Bytes(files)[k], size)
  <2>1. ASSUME NEW k \in 1..n
        PROVE  w[1..k] = Pour(w[1..(k - 1)], Bytes(files)[k], size)
    <3>1. 1..k \in SUBSET (1..n) /\ 1..k # {} /\ Max(1..k) = k /\ (1..k) \ {k} = 1..(k - 1)
      BY PrefixLemma
    <3> QED BY <1>9, <3>1
  <2> QED BY <1>9, <2>1
<1> HIDE DEF Walks
<1>11. PICK r : r = [k \in 0..n |-> w[1..k]]
  OBVIOUS
<1>12. r[n] = w[1..n] /\ r[0] = NewPour
  <2>1. 1..0 = {}
    OBVIOUS
  <2> QED BY <1>10, <1>11, <2>1
<1>13. ASSUME NEW k \in 1..n PROVE r[k] = Pour(r[k - 1], Bytes(files)[k], size)
  <2>1. k - 1 \in 0..n /\ k \in 0..n
    OBVIOUS
  <2> QED BY <1>10, <1>11, <2>1
<1>14. PICK N : N = {k \in Nat : k <= n => r[k] \in V}
  OBVIOUS
<1>15. 0 \in N
  <2>1. NewPour \in V
    BY <1>2 DEF NewPour, Pours
  <2>2. r[0] \in V
    BY <1>12, <2>1
  <2> QED BY <1>14, <2>2
<1>16. ASSUME NEW k \in Nat, k \in N PROVE k + 1 \in N
  <2>1. CASE k + 1 <= n
    <3>1. k + 1 \in 1..n /\ (k + 1) - 1 = k /\ k <= n
      BY <2>1
    <3>2. r[k] \in V /\ Bytes(files)[k + 1] \in Nat
      BY <1>1, <1>14, <1>16, <3>1
    <3>3. r[k + 1] = Pour(r[k], Bytes(files)[k + 1], size)
      BY <1>13, <3>1
    <3>4. r[k + 1] \in V
      BY <1>4, <3>2, <3>3
    <3> QED BY <1>14, <3>4
  <2>2. CASE ~(k + 1 <= n)
    BY <1>14, <2>2
  <2> QED BY <2>1, <2>2
<1>17. Nat \subseteq N
  BY <1>15, <1>16, Induction
<1>18. r \in [0..n -> Pours]
  BY <1>2, <1>11, <1>14, <1>17
<1> QED BY <1>1, <1>6, <1>8, <1>12, <1>13, <1>18

-----------------------------------------------------------------------------
(***************************************************************************)
(* The pieces a generator takes digests of are the chunks that are put     *)
(***************************************************************************)

\* Division, by the numbers it is made of.
LEMMA DivLemma ==
  ASSUME NEW z \in Nat \ {0}, NEW m \in Nat, NEW l \in 0..(z - 1)
  PROVE  (m * z + l) \div z = m /\ (m * z + l) % z = l
OBVIOUS

\* A product is a number, and one factor more adds the other one.
LEMMA TimesLemma ==
  ASSUME NEW z \in Nat \ {0}, NEW m \in Nat
  PROVE  /\ m * z \in Nat /\ (m + 1) * z = m * z + z
         /\ \A i \in 1..m : i * z \in Nat /\ (i - 1) * z \in Nat /\ i * z = (i - 1) * z + z /\ i * z <= m * z
<1>1. m * z \in Nat /\ (m + 1) * z = m * z + z
  OBVIOUS
<1>2. ASSUME NEW i \in 1..m
      PROVE  i * z \in Nat /\ (i - 1) * z \in Nat /\ i * z = (i - 1) * z + z /\ i * z <= m * z
  <2>1. i * z \in Nat /\ (i - 1) * z \in Nat /\ i * z = (i - 1) * z + z
    OBVIOUS
  <2>2. PICK d \in Nat : m = i + d
    <3>1. m - i \in Nat /\ m = i + (m - i)
      OBVIOUS
    <3> QED BY <3>1
  <2>3. m * z = i * z + d * z /\ d * z \in Nat
    BY <2>2
  <2> QED BY <1>1, <2>1, <2>3
<1> QED BY <1>1, <1>2

\* How many pieces n bytes have, and how long the last one is.
LEMMA CountsLemma ==
  ASSUME NEW z \in Nat \ {0}, NEW m \in Nat, NEW l \in 0..(z - 1), NEW n, n = m * z + l
  PROVE  /\ (n + z - 1) \div z = IF l = 0 THEN m ELSE m + 1
         /\ n % z = l
<1>1. n % z = l
  BY DivLemma
<1>2. CASE l = 0
  <2>1. n + z - 1 = m * z + (z - 1) /\ z - 1 \in 0..(z - 1)
    BY <1>2, TimesLemma
  <2>2. (m * z + (z - 1)) \div z = m
    BY <2>1, DivLemma
  <2> QED BY <1>1, <1>2, <2>1, <2>2
<1>3. CASE l # 0
  <2>1. n + z - 1 = (m + 1) * z + (l - 1) /\ l - 1 \in 0..(z - 1) /\ m + 1 \in Nat
    BY <1>3, TimesLemma
  <2>2. ((m + 1) * z + (l - 1)) \div z = m + 1
    BY <2>1, DivLemma
  <2> QED BY <1>1, <1>3, <2>1, <2>2
<1> QED BY <1>2, <1>3

\* A part of a sequence, element by element.
LEMMA PartLemma ==
  ASSUME NEW S, NEW b \in Seq(S), NEW s \in Seq(S), NEW a \in Nat, a + Len(s) <= Len(b),
         \A i \in 1..Len(s) : s[i] = b[a + i]
  PROVE  SubSeq(b, a + 1, a + Len(s)) = s
<1>1. PICK d \in Nat : d = Len(s) /\ a + d <= Len(b)
  OBVIOUS
<1>2. PICK t \in Seq(S) : t = SubSeq(b, a + 1, a + d)
  <2>1. SubSeq(b, a + 1, a + d) \in Seq(S)
    BY <1>1
  <2> QED BY <2>1
<1>3. Len(t) = d /\ \A i \in 1..d : t[i] = b[(a + 1) + i - 1]
  <2>1. a + 1 \in 1..(Len(b) + 1) /\ a + d \in a..Len(b) /\ (a + d) - (a + 1) + 1 = d
    BY <1>1
  <2>2. /\ Len(t) = (a + d) - (a + 1) + 1
        /\ \A i \in 1..((a + d) - (a + 1) + 1) : t[i] = b[(a + 1) + i - 1]
    BY <1>1, <1>2, <2>1, SubSeqProperties
  <2> QED BY <2>1, <2>2
<1>4. \A i \in 1..d : t[i] = b[a + i]
  BY <1>3
<1>5. \A i \in 1..d : t[i] = s[i]
  BY <1>1, <1>4
<1>6. t = [i \in 1..d |-> t[i]] /\ s = [i \in 1..d |-> s[i]]
  BY <1>1, <1>3
<1>7. t = s
  BY <1>5, <1>6
<1> QED BY <1>1, <1>2, <1>7

\* v has cut the first k bytes of b into m pieces and l bytes more.
Cuts(v, b, z, k, m, l) ==
  /\ k = m * z + l /\ Len(v.puts) = m /\ Len(v.buffer) = l
  /\ \A i \in 1..l : v.buffer[i] = b[m * z + i]
  /\ \A i \in 1..m : v.puts[i] = SubSeq(b, (i - 1) * z + 1, i * z)
\* It has cut them somehow.
CutsSome(v, b, z, k) == \E m \in Nat, l \in 0..(z - 1) : Cuts(v, b, z, k, m, l)

\* One byte more keeps it so: a full buffer is put as the next piece.
LEMMA PourCuts ==
  ASSUME NEW b \in Seq(Nat), NEW z \in Nat \ {0}, NEW k \in 0..(Len(b) - 1), NEW v \in Pours,
         CutsSome(v, b, z, k)
  PROVE  CutsSome(Pour(v, b[k + 1], z), b, z, k + 1)
<1>1. PICK m \in Nat, l \in 0..(z - 1) : Cuts(v, b, z, k, m, l)
  BY DEF CutsSome
<1>2. PICK n \in Nat : n = Len(b) /\ k + 1 \in 1..n /\ b[k + 1] \in Nat
  OBVIOUS
<1>3. PICK buffer \in Seq(Nat), puts \in Seq(Seq(Nat)) : v = [buffer |-> buffer, puts |-> puts]
  BY DEF Pours
<1>4. /\ k = m * z + l /\ Len(puts) = m /\ Len(buffer) = l
      /\ \A i \in 1..l : buffer[i] = b[m * z + i]
      /\ \A i \in 1..m : puts[i] = SubSeq(b, (i - 1) * z + 1, i * z)
  BY <1>1, <1>3 DEF Cuts
<1>5. PICK a \in Nat : a = m * z
  BY TimesLemma
<1>6. PICK full \in Seq(Nat) : full = Append(buffer, b[k + 1])
  <2>1. Append(buffer, b[k + 1]) \in Seq(Nat)
    BY <1>2
  <2> QED BY <2>1
<1>7. Len(full) = l + 1 /\ \A i \in 1..(l + 1) : full[i] = b[a + i]
  <2>1. Len(full) = l + 1 /\ full[l + 1] = b[k + 1] /\ \A i \in 1..l : full[i] = buffer[i]
    <3>1. Len(buffer) = l
      BY <1>4
    <3>2. /\ Len(full) = Len(buffer) + 1 /\ full[Len(buffer) + 1] = b[k + 1]
          /\ \A i \in 1..Len(buffer) : full[i] = buffer[i]
      BY <1>2, <1>6, AppendProperties
    <3> QED BY ONLY <3>1, <3>2
  <2>2. k + 1 = a + (l + 1)
    BY <1>4, <1>5
  <2>3. \A i \in 1..l : full[i] = b[a + i]
    BY <1>4, <1>5, <2>1
  <2>4. ASSUME NEW i \in 1..(l + 1) PROVE full[i] = b[a + i]
    <3>1. CASE i \in 1..l
      BY <2>3, <3>1
    <3>2. CASE i = l + 1
      BY <2>1, <2>2, <3>2
    <3>3. i \in 1..l \/ i = l + 1
      <4>1. l \in Nat /\ i \in 1..(l + 1)
        BY <2>4
      <4> QED BY ONLY <4>1
    <3> QED BY ONLY <3>1, <3>2, <3>3
  <2> QED BY <2>1, <2>4
<1>8. Pour(v, b[k + 1], z) = IF Len(full) = z THEN [buffer |-> <<>>, puts |-> Append(puts, full)]
                             ELSE [buffer |-> full, puts |-> puts]
  <2>1. v.buffer = buffer /\ v.puts = puts
    BY <1>3
  <2>2. \A x : [v EXCEPT !.buffer = x] = [buffer |-> x, puts |-> puts]
    BY <1>3
  <2> QED BY <1>6, <2>1, <2>2 DEF Pour
<1>9. CASE l + 1 = z
  <2>1. PICK more \in Seq(Seq(Nat)) : more = Append(puts, full)
    <3>1. Append(puts, full) \in Seq(Seq(Nat))
      OBVIOUS
    <3> QED BY <3>1
  <2>2. Pour(v, b[k + 1], z) = [buffer |-> <<>>, puts |-> more]
    BY <1>7, <1>8, <1>9, <2>1
  <2>3. k + 1 = (m + 1) * z + 0 /\ (m + 1) * z = a + z
    <3>1. (m + 1) * z = a + z
      <4>1. (m + 1) * z = m * z + z
        BY TimesLemma
      <4> QED BY ONLY <4>1, <1>5
    <3>2. k = a + l
      BY ONLY <1>4, <1>5
    <3>3. PICK t \in Nat : t = (m + 1) * z
      <4>1. a + z \in Nat
        OBVIOUS
      <4> QED BY ONLY <3>1, <4>1
    <3>4. k + 1 = t + 0
      <4>1. a \in Nat /\ l \in Nat /\ z \in Nat /\ t \in Nat
        OBVIOUS
      <4> QED BY ONLY <1>9, <3>1, <3>2, <3>3, <4>1
    <3> QED BY ONLY <3>1, <3>3, <3>4
  <2>4. full = SubSeq(b, a + 1, a + z)
    <3>1. a + Len(full) <= Len(b) /\ a + Len(full) = a + z
      BY <1>2, <1>4, <1>5, <1>7, <1>9
    <3>2. \A i \in 1..Len(full) : full[i] = b[a + i]
      BY <1>7
    <3>3. SubSeq(b, a + 1, a + Len(full)) = full
      BY <3>1, <3>2, PartLemma
    <3> QED BY <3>1, <3>3
  <2>5. Len(more) = m + 1 /\ more[m + 1] = full /\ \A i \in 1..m : more[i] = puts[i]
    <3>1. Len(puts) = m
      BY <1>4
    <3>2. /\ Len(more) = Len(puts) + 1 /\ more[Len(puts) + 1] = full
          /\ \A i \in 1..Len(puts) : more[i] = puts[i]
      BY <2>1, AppendProperties
    <3> QED BY ONLY <3>1, <3>2
  <2>6. \A i \in 1..(m + 1) : more[i] = SubSeq(b, (i - 1) * z + 1, i * z)
    <3>1. ASSUME NEW i \in 1..(m + 1) PROVE more[i] = SubSeq(b, (i - 1) * z + 1, i * z)
      <4>1. CASE i \in 1..m
        BY <1>4, <2>5, <4>1
      <4>2. CASE i = m + 1
        <5>1. (i - 1) * z = a /\ i * z = a + z
          BY <1>5, <2>3, <4>2
        <5> QED BY <2>4, <2>5, <4>2, <5>1
      <4> QED BY <4>1, <4>2
    <3> QED BY <3>1
  <2>7. Cuts([buffer |-> <<>>, puts |-> more], b, z, k + 1, m + 1, 0)
    BY <2>3, <2>5, <2>6 DEF Cuts
  <2> QED BY <2>2, <2>7 DEF CutsSome
<1>10. CASE l + 1 # z
  <2>1. Pour(v, b[k + 1], z) = [buffer |-> full, puts |-> puts]
    BY <1>7, <1>8, <1>10
  <2>2. Cuts([buffer |-> full, puts |-> puts], b, z, k + 1, m, l + 1)
    <3>1. k + 1 = m * z + (l + 1)
      BY <1>4, <1>5
    <3>2. \A i \in 1..(l + 1) : full[i] = b[m * z + i]
      BY <1>5, <1>7
    <3> QED BY <1>4, <1>7, <3>1, <3>2 DEF Cuts
  <2>3. l + 1 \in 0..(z - 1)
    BY <1>10
  <2> QED BY <2>1, <2>2, <2>3 DEF CutsSome
<1> QED BY <1>9, <1>10

\* _populateChunkStoreFromOPFSEntry puts the chunks of which the generator took the digests.
LEMMA PutsLemma ==
  ASSUME NEW files, Bytes(files) \in Seq(Nat), NEW z \in Nat \ {0}
  PROVE  Puts(files, z) = Chunks(Bytes(files), z) /\ Puts(files, z) \in Seq(Seq(Nat))
<1>1. PICK b \in Seq(Nat) : b = Bytes(files)
  OBVIOUS
<1>2. PICK n \in Nat : n = Len(b)
  OBVIOUS
<1>3. PICK r \in [0..n -> Pours] :
        /\ Poured(files, z) = r[n] /\ r[0] = NewPour
        /\ \A k \in 1..n : r[k] = Pour(r[k - 1], b[k], z)
  <2>1. PICK f : f = files
    OBVIOUS
  <2>2. Bytes(f) \in Seq(Nat) /\ Bytes(f) = b
    BY <1>1, <2>1
  <2>3. \E r \in [0..Len(Bytes(f)) -> Pours] :
          /\ Poured(f, z) = r[Len(Bytes(f))] /\ r[0] = NewPour
          /\ \A k \in 1..Len(Bytes(f)) : r[k] = Pour(r[k - 1], Bytes(f)[k], z)
    BY <2>2, PourUnfolds
  <2> QED BY <1>2, <2>1, <2>2, <2>3
<1>4. PICK N : N = {k \in Nat : k <= n => CutsSome(r[k], b, z, k)}
  OBVIOUS
<1>5. 0 \in N
  <2>1. Cuts(NewPour, b, z, 0, 0, 0)
    BY DEF Cuts, NewPour
  <2>2. CutsSome(NewPour, b, z, 0)
    BY <2>1 DEF CutsSome
  <2> QED BY <1>3, <1>4, <2>2
<1>6. ASSUME NEW k \in Nat, k \in N PROVE k + 1 \in N
  <2>1. CASE k + 1 <= n
    <3>1. k + 1 \in 1..n /\ (k + 1) - 1 = k /\ k <= n /\ k \in 0..n /\ k \in 0..(Len(b) - 1)
      BY <1>2, <2>1
    <3>2. CutsSome(r[k], b, z, k) /\ r[k] \in Pours
      BY <1>4, <1>6, <3>1
    <3>3. r[k + 1] = Pour(r[k], b[k + 1], z)
      BY <1>3, <3>1
    <3>4. CutsSome(Pour(r[k], b[k + 1], z), b, z, k + 1)
      BY <3>1, <3>2, PourCuts
    <3> QED BY <1>4, <3>3, <3>4
  <2>2. CASE ~(k + 1 <= n)
    BY <1>4, <2>2
  <2> QED BY <2>1, <2>2
<1>7. CutsSome(r[n], b, z, n)
  <2>1. Nat \subseteq N
    BY <1>5, <1>6, Induction
  <2> QED BY <1>4, <2>1
<1>8. PICK m \in Nat, l \in 0..(z - 1) : Cuts(r[n], b, z, n, m, l)
  BY <1>7 DEF CutsSome
<1>9. PICK buffer \in Seq(Nat), puts \in Seq(Seq(Nat)) : r[n] = [buffer |-> buffer, puts |-> puts]
  BY DEF Pours
<1>10. /\ n = m * z + l /\ Len(puts) = m /\ Len(buffer) = l
       /\ \A i \in 1..l : buffer[i] = b[m * z + i]
       /\ \A i \in 1..m : puts[i] = SubSeq(b, (i - 1) * z + 1, i * z)
  BY <1>8, <1>9 DEF Cuts
<1>11. Puts(files, z) = IF buffer = <<>> THEN puts ELSE Append(puts, buffer)
  BY <1>3, <1>9 DEF Puts
<1>12. PICK a \in Nat : a = m * z /\ \A i \in 1..m : i * z \in Nat /\ i * z <= a
  BY TimesLemma
<1>13. \A i \in 1..m : SubSeq(b, (i - 1) * z + 1, i * z) = SubSeq(b, (i - 1) * z + 1, Less(i * z, n))
  <2>1. ASSUME NEW i \in 1..m PROVE Less(i * z, n) = i * z
    <3>1. PICK e \in Nat : e = i * z /\ e <= a
      BY <1>12
    <3>2. e <= n
      <4>1. n = m * z + l /\ a = m * z
        BY <1>10, <1>12
      <4>2. n = a + l
        BY <4>1
      <4>3. l \in Nat
        OBVIOUS
      <4> QED BY ONLY <3>1, <4>2, <4>3, a \in Nat, e \in Nat
    <3> QED BY <3>1, <3>2 DEF Less
  <2> QED BY <2>1
<1>14. PICK t : t = Chunks(b, z)
  OBVIOUS
<1>15. CASE l = 0
  <2>1. (n + z - 1) \div z = m
    <3>1. n = m * z + l
      BY <1>10
    <3> QED BY <1>15, <3>1, CountsLemma
  <2>2. t = [i \in 1..m |-> SubSeq(b, (i - 1) * z + 1, Less(i * z, n))]
    BY <1>2, <1>14, <2>1 DEF Chunks
  <2>3. puts = [i \in 1..m |-> puts[i]]
    BY <1>10
  <2>4. puts = t
    BY <1>10, <1>13, <2>2, <2>3
  <2>5. buffer = <<>>
    BY <1>10, <1>15
  <2> QED BY <1>1, <1>11, <1>14, <2>4, <2>5
<1>16. CASE l # 0
  <2>1. (n + z - 1) \div z = m + 1
    <3>1. n = m * z + l
      BY <1>10
    <3> QED BY <1>16, <3>1, CountsLemma
  <2>2. t = [i \in 1..(m + 1) |-> SubSeq(b, (i - 1) * z + 1, Less(i * z, n))]
    BY <1>2, <1>14, <2>1 DEF Chunks
  <2>3. PICK all \in Seq(Seq(Nat)) : all = Append(puts, buffer)
    <3>1. Append(puts, buffer) \in Seq(Seq(Nat))
      OBVIOUS
    <3> QED BY <3>1
  <2>4. Len(all) = m + 1 /\ all[m + 1] = buffer /\ \A i \in 1..m : all[i] = puts[i]
    <3>1. Len(puts) = m
      BY <1>10
    <3>2. /\ Len(all) = Len(puts) + 1 /\ all[Len(puts) + 1] = buffer
          /\ \A i \in 1..Len(puts) : all[i] = puts[i]
      BY <2>3, AppendProperties
    <3> QED BY ONLY <3>1, <3>2
  <2>5. buffer = SubSeq(b, a + 1, a + l)
    BY <1>2, <1>10, <1>12, PartLemma
  <2>6. ((m + 1) - 1) * z = a /\ Less((m + 1) * z, n) = a + l
    <3>1. (m + 1) * z = a + z /\ n = a + l /\ (m + 1) - 1 = m
      BY <1>10, <1>12, TimesLemma
    <3> QED BY <1>12, <3>1 DEF Less
  <2>7. ASSUME NEW i \in 1..(m + 1) PROVE all[i] = SubSeq(b, (i - 1) * z + 1, Less(i * z, n))
    <3>1. CASE i \in 1..m
      BY <1>10, <1>13, <2>4, <3>1
    <3>2. CASE i = m + 1
      BY <2>4, <2>5, <2>6, <3>2
    <3> QED BY <3>1, <3>2
  <2>8. all = [i \in 1..(m + 1) |-> all[i]]
    BY <2>4
  <2>9. all = t
    BY <2>2, <2>7, <2>8
  <2>10. buffer # <<>>
    BY <1>10, <1>16
  <2> QED BY <1>1, <1>11, <1>14, <2>3, <2>9, <2>10
<1> QED BY <1>15, <1>16

\* The bytes of files are a sequence of bytes.
LEMMA BytesLemma ==
  ASSUME NEW X, NEW q \in Seq(X), \A f \in X : f.bytes \in Seq(Nat)
  PROVE  Bytes(q) \in Seq(Nat)
<1>1. PICK r \in [0..Len(q) -> Seq(Nat)] : Bytes(q) = r[Len(q)]
  BY BytesUnfold
<1>2. Len(q) \in 0..Len(q)
  OBVIOUS
<1> QED BY <1>1, <1>2

\* The length of a torrent is that of its bytes.
LEMMA LengthLemma ==
  ASSUME NEW X, NEW q \in Seq(X), \A f \in X : f.bytes \in Seq(Nat), NEW info,
         info.files = [i \in 1..Len(q) |-> [depth |-> q[i].depth, name |-> q[i].name,
                                            length |-> Len(q[i].bytes)]]
  PROVE  Length(info) = Len(Bytes(q))
<1>1. PICK n \in Nat : n = Len(q) /\ \A i \in 1..n : q[i] \in X
  OBVIOUS
<1>2. PICK Y : Y = {[depth |-> f.depth, name |-> f.name, length |-> Len(f.bytes)] : f \in X}
  OBVIOUS
<1>3. \A y \in Y : y.length \in Nat
  BY <1>2
<1>4. info.files \in Seq(Y) /\ Len(info.files) = n /\ \A i \in 1..n : info.files[i].length = Len(q[i].bytes)
  <2>1. \A i \in 1..n : [depth |-> q[i].depth, name |-> q[i].name, length |-> Len(q[i].bytes)] \in Y
    BY <1>1, <1>2
  <2> QED BY <1>1, <2>1
<1>5. PICK r \in [0..n -> Seq(Nat)] :
        Bytes(q) = r[n] /\ r[0] = <<>> /\ \A k \in 1..n : r[k] = (r[k - 1] \o q[k].bytes)
  BY <1>1, BytesUnfold
<1>6. PICK s \in [0..n -> Nat] :
        /\ Length(info) = s[n] /\ s[0] = 0
        /\ \A k \in 1..n : s[k] = s[k - 1] + info.files[k].length
  <2>1. \E s \in [0..Len(info.files) -> Nat] :
          /\ Length(info) = s[Len(info.files)] /\ s[0] = 0
          /\ \A k \in 1..Len(info.files) : s[k] = s[k - 1] + info.files[k].length
    BY <1>3, <1>4, LengthUnfolds
  <2> QED BY <1>4, <2>1
<1>7. PICK N : N = {k \in Nat : k <= n => s[k] = Len(r[k])}
  OBVIOUS
<1>8. 0 \in N
  BY <1>5, <1>6, <1>7
<1>9. ASSUME NEW k \in Nat, k \in N PROVE k + 1 \in N
  <2>1. CASE k + 1 <= n
    <3>1. k <= n => s[k] = Len(r[k])
      BY <1>7, <1>9
    <3>2. k + 1 \in 1..n /\ (k + 1) - 1 = k /\ k \in 0..n /\ s[k] = Len(r[k])
      <4>1. k + 1 \in 1..n /\ (k + 1) - 1 = k /\ k \in 0..n /\ k <= n
        BY <2>1
      <4> QED BY <3>1, <4>1
    <3>3. PICK bytes \in Seq(Nat) : bytes = q[k + 1].bytes
      BY <1>1, <3>2
    <3>4. r[k] \in Seq(Nat) /\ r[k + 1] = r[k] \o bytes /\ s[k + 1] = s[k] + Len(bytes)
      BY <1>4, <1>5, <1>6, <3>2, <3>3
    <3>5. Len(r[k] \o bytes) = Len(r[k]) + Len(bytes)
      BY <3>4
    <3> QED BY <1>7, <3>2, <3>4, <3>5
  <2>2. CASE ~(k + 1 <= n)
    BY <1>7, <2>2
  <2> QED BY <2>1, <2>2
<1>10. n \in N
  BY <1>8, <1>9, Induction
<1> QED BY <1>5, <1>6, <1>7, <1>10

\* calcPieceSize gives one of the sizes there are.
LEMMA SizeLemma ==
  ASSUME NEW total \in Nat
  PROVE  CalcPieceSize(total) \in Presets /\ CalcPieceSize(total) \in Nat \ {0}
<1>1. PICK larger : larger = {p \in Presets : total < p}
  OBVIOUS
<1>2. Presets \subseteq Nat \ {0} /\ LargestAuto \in Presets
  BY GeneratorAssumption
<1>3. CASE larger = {}
  <2>1. Presets \subseteq 1..total /\ Presets # {}
    BY <1>1, <1>2, <1>3
  <2>2. PICK m \in Presets : m = Max(Presets)
    BY <2>1, MaxLemma
  <2> QED BY <1>1, <1>2, <1>3, <2>2 DEF CalcPieceSize, Less
<1>4. CASE larger # {}
  <2>1. larger \subseteq Nat
    BY <1>1, <1>2
  <2>2. \E x \in larger : \A y \in larger : x <= y
    BY <1>4, <2>1, LeastNumber
  <2>3. PICK m \in larger : m = Min(larger)
    BY <2>2 DEF Min
  <2> QED BY <1>1, <1>2, <1>4, <2>3 DEF CalcPieceSize, Less
<1> QED BY <1>3, <1>4

\* What is in the metainfo of files, and what more if nothing is padded.
LEMMA GenerateLemma ==
  ASSUME NEW X, NEW q \in Seq(X), \A f \in X : f.bytes \in Seq(Nat), NEW name, NEW align,
         NEW g, g = Generate(name, q, align)
  PROVE  /\ g.pieceLength \in Presets /\ g.pieceLength \in Nat \ {0}
         /\ ~align => g.pieces = Chunks(Bytes(q), g.pieceLength) /\ Length(g) = Len(Bytes(q))
<1>1. PICK b \in Seq(Nat) : b = Bytes(q)
  BY BytesLemma
<1>2. PICK z : z = CalcPieceSize(Len(b))
  OBVIOUS
<1>3. z \in Presets /\ z \in Nat \ {0}
  <2>1. Len(b) \in Nat
    OBVIOUS
  <2> QED BY <1>2, <2>1, SizeLemma
<1>4. PICK all : /\ g = [name |-> name,
                        files |-> [i \in 1..Len(all) |-> [depth |-> all[i].depth, name |-> all[i].name,
                                                          length |-> Len(all[i].bytes)]],
                        pieceLength |-> z, pieces |-> Digests(all, z)]
                 /\ ~align => all = q
  BY <1>1, <1>2 DEF Generate
<1>5. g.pieceLength = z /\ g.pieces = Digests(all, z)
      /\ g.files = [i \in 1..Len(all) |-> [depth |-> all[i].depth, name |-> all[i].name,
                                           length |-> Len(all[i].bytes)]]
  BY <1>4
<1>6. ASSUME ~align PROVE g.pieces = Chunks(Bytes(q), g.pieceLength) /\ Length(g) = Len(Bytes(q))
  <2>1. all = q
    BY <1>4, <1>6
  <2>2. Length(g) = Len(Bytes(q))
    BY <1>5, <2>1, LengthLemma
  <2> QED BY <1>5, <2>1, <2>2 DEF Digests
<1> QED BY <1>3, <1>5, <1>6

\* Every number is so many times another one and a rest.
LEMMA DivExists ==
  ASSUME NEW n \in Nat, NEW z \in Nat \ {0}
  PROVE  \E m \in Nat, l \in 0..(z - 1) : n = m * z + l
<1>1. PICK N : N = {k \in Nat : \E m \in Nat, l \in 0..(z - 1) : k = m * z + l}
  OBVIOUS
<1>2. 0 \in N
  <2>1. 0 = 0 * z + 0 /\ 0 \in 0..(z - 1)
    OBVIOUS
  <2> QED BY <1>1, <2>1
<1>3. ASSUME NEW k \in Nat, k \in N PROVE k + 1 \in N
  <2>1. PICK m \in Nat, l \in 0..(z - 1) : k = m * z + l
    BY <1>1, <1>3
  <2>2. CASE l + 1 = z
    <3>1. PICK a \in Nat, d \in Nat : a = m * z /\ d = (m + 1) * z /\ d = a + z
      BY <2>1, TimesLemma
    <3>2. k + 1 = d + 0 /\ m + 1 \in Nat /\ 0 \in 0..(z - 1)
      BY <2>1, <2>2, <3>1
    <3>3. \E j \in Nat, e \in 0..(z - 1) : k + 1 = j * z + e
      <4>1. PICK j \in Nat : j = m + 1
        BY <2>1
      <4>2. k + 1 = d + 0 /\ d = j * z
        BY <3>1, <3>2, <4>1
      <4>3. k + 1 = j * z + 0
        BY <4>2
      <4> QED BY <3>2, <4>3
    <3> QED BY <1>1, <3>3
  <2>3. CASE l + 1 # z
    <3>1. PICK a \in Nat : a = m * z
      BY <2>1, TimesLemma
    <3>2. k + 1 = a + (l + 1) /\ l + 1 \in 0..(z - 1)
      BY <2>1, <2>3, <3>1
    <3>3. k + 1 = m * z + (l + 1)
      BY <3>1, <3>2
    <3> QED BY <1>1, <3>2, <3>3
  <2> QED BY <2>2, <2>3
<1>4. n \in N
  BY <1>2, <1>3, Induction
<1> QED BY <1>1, <1>4

\* The rest, and the number of pieces.
LEMMA RestLemma ==
  ASSUME NEW n \in Nat, NEW z \in Nat \ {0}
  PROVE  \E m \in Nat, l \in 0..(z - 1) :
           /\ n = m * z + l /\ n % z = l
           /\ l = 0 => (n + z - 1) \div z = m
           /\ l # 0 => (n + z - 1) \div z = m + 1
<1>1. PICK m \in Nat, l \in 0..(z - 1) : n = m * z + l
  BY DivExists
<1>2. n % z = l
  BY <1>1, DivLemma
<1>3. (n + z - 1) \div z = IF l = 0 THEN m ELSE m + 1
  BY <1>1, CountsLemma
<1> QED BY <1>1, <1>2, <1>3

\* Every piece has the length of a piece, but the last one what is left.
SizedAs(t, n, z) ==
  /\ Len(t) = (n + z - 1) \div z
  /\ \A i \in 1..Len(t) : Len(t[i]) = IF i = Len(t) /\ n % z # 0 THEN n % z ELSE z

\* So are the chunks bytes are cut into.
LEMMA SizesLemma ==
  ASSUME NEW b \in Seq(Nat), NEW z \in Nat \ {0}
  PROVE  SizedAs(Chunks(b, z), Len(b), z)
<1>1. PICK n \in Nat : n = Len(b)
  OBVIOUS
<1>2. PICK t : t = Chunks(b, z)
  OBVIOUS
<1>3. PICK m \in Nat, l \in 0..(z - 1) :
        /\ n = m * z + l /\ n % z = l
        /\ l = 0 => (n + z - 1) \div z = m
        /\ l # 0 => (n + z - 1) \div z = m + 1
  BY RestLemma
<1>4. PICK k \in Nat : k = IF l = 0 THEN m ELSE m + 1
  OBVIOUS
<1>5. (n + z - 1) \div z = k /\ n % z = l
  BY <1>3, <1>4
<1>6. t = [i \in 1..k |-> SubSeq(b, (i - 1) * z + 1, Less(i * z, n))]
  BY <1>1, <1>2, <1>5 DEF Chunks
<1>7. Len(t) = k
  BY <1>6
<1>8. PICK a \in Nat : /\ a = m * z /\ (m + 1) * z = a + z
                       /\ \A i \in 1..m : i * z \in Nat /\ (i - 1) * z \in Nat /\ i * z = (i - 1) * z + z /\ i * z <= a
  BY TimesLemma
<1>9. n = a + l
  BY <1>3, <1>8
<1>10. ASSUME NEW i \in 1..k PROVE Len(t[i]) = IF i = k /\ l # 0 THEN l ELSE z
  <2>1. CASE i \in 1..m
    <3>1. PICK d \in Nat, e \in Nat : d = (i - 1) * z /\ e = i * z /\ e = d + z /\ e <= a
      BY <1>8, <2>1
    <3>2. e <= n
      BY <1>9, <3>1
    <3>3. Less(e, n) = e
      BY <3>2 DEF Less
    <3>4. t[i] = SubSeq(b, (i - 1) * z + 1, Less(i * z, n))
      BY <1>6, <1>10
    <3>5. t[i] = SubSeq(b, d + 1, e)
      BY <3>1, <3>3, <3>4
    <3>6. Len(SubSeq(b, d + 1, e)) = z
      BY <1>1, <3>1, <3>2
    <3>7. ~(i = k /\ l # 0)
      BY <1>4, <2>1
    <3> QED BY <3>6, <3>7, <3>5
  <2>2. CASE i = m + 1 /\ l # 0
    <3>1. (i - 1) * z = a /\ i * z = a + z /\ i = k
      BY <1>4, <1>8, <2>2
    <3>2. Less(a + z, n) = n
      BY <1>9 DEF Less
    <3>3. t[i] = SubSeq(b, a + 1, n)
      BY <1>6, <3>1, <3>2
    <3>4. Len(SubSeq(b, a + 1, n)) = l
      BY <1>1, <1>9
    <3> QED BY <2>2, <3>1, <3>3, <3>4
  <2> QED BY <1>4, <2>1, <2>2
<1>11. SizedAs(t, n, z)
  BY <1>5, <1>7, <1>10 DEF SizedAs
<1> QED BY <1>1, <1>2, <1>11

-----------------------------------------------------------------------------
(***************************************************************************)
(* What a seed is of, and stays of                                         *)
(***************************************************************************)

\* The files of a directory.
Directory(dir) == IsFiniteSet(dir) /\ \A f \in dir : f.bytes \in Seq(Nat)

\* The elements of a sequence are finitely many.
LEMMA RangeFinite ==
  ASSUME NEW S, NEW q \in Seq(S)
  PROVE  IsFiniteSet(Range(q))
<1>1. PICK n \in Nat : n = Len(q)
  OBVIOUS
<1>2. IsFiniteSet(1..n)
  BY FS_Interval
<1>3. PICK X : X = Range(q)
  OBVIOUS
<1>4. q \in [1..n -> X] /\ \A x \in X : \E i \in 1..n : q[i] = x
  BY <1>1, <1>3 DEF Range
<1>5. q \in Surjection(1..n, X)
  BY <1>4 DEF Surjection
<1>6. IsFiniteSet(X)
  BY <1>2, <1>5, FS_Surjection
<1> QED BY <1>3, <1>6

\* What is seeded, or put beside others, is a directory of finitely many files.
LEMMA EntryDirectory ==
  ASSUME NEW i \in Inputs, NEW dir, Directory(dir)
  PROVE  Directory(Entry(i, dir))
<1>1. /\ i.files \in Seq(Range(i.files))
      /\ \A f \in Range(i.files) : f.bytes \in Seq(Nat)
  BY ClientAssumption
<1>2. Directory(Range(i.files))
  BY <1>1, RangeFinite DEF Directory
<1>3. IsFiniteSet({f \in dir : f.name = i.files[1].name})
  BY FS_Subset DEF Directory
<1>4. Directory({f \in dir : f.name = i.files[1].name})
  BY <1>3 DEF Directory
<1> QED BY <1>2, <1>4 DEF Entry

\* The metainfo of an input has a piece length there is, and the pieces are what the
\* files are cut into, if nothing is padded or left out.
LEMMA PiecesLemma ==
  ASSUME NEW i \in Inputs, NEW dir, Directory(dir)
  PROVE  \E g, q :
           /\ g = Metainfo(i, dir) /\ q = WalkDir(Entry(i, dir), FALSE) /\ Bytes(q) \in Seq(Nat)
           /\ g.pieceLength \in Presets /\ g.pieceLength \in Nat \ {0}
           /\ ~i.align /\ ~Hides(i) =>
                g.pieces = Chunks(Bytes(q), g.pieceLength) /\ Length(g) = Len(Bytes(q))
<1>1. PICK E : E = Entry(i, dir)
  OBVIOUS
<1>2. IsFiniteSet(E) /\ \A f \in E : f.bytes \in Seq(Nat)
  BY <1>1, EntryDirectory DEF Directory
<1>3. PICK q \in Seq(E) : q = WalkDir(E, FALSE)
  <2>1. PICK no : no = FALSE
    OBVIOUS
  <2>2. WalkDir(E, no) \in Seq(E)
    BY <1>2, WalkLemma
  <2> QED BY <2>1, <2>2
<1>4. PICK w \in Seq(E) : w = WalkDir(E, Hides(i))
  BY <1>2, WalkLemma
<1>5. PICK g : g = Generate(RootName(i), w, i.align)
  OBVIOUS
<1>6. g = Metainfo(i, dir)
  BY <1>1, <1>4, <1>5 DEF Metainfo, Walked
<1>7. /\ g.pieceLength \in Presets /\ g.pieceLength \in Nat \ {0}
      /\ ~i.align => g.pieces = Chunks(Bytes(w), g.pieceLength) /\ Length(g) = Len(Bytes(w))
  BY <1>2, <1>5, GenerateLemma
<1>8. ~Hides(i) => w = q
  BY <1>3, <1>4 DEF WalkDir
<1>9. Bytes(q) \in Seq(Nat)
  BY <1>2, BytesLemma
<1> QED BY <1>1, <1>3, <1>6, <1>7, <1>8, <1>9

\* The directory seeds are prepared in has finitely many files, and a seed that nobody
\* disturbed still has there the files it was made of.
StillThere(t) ==
  call[t].at \in {"parse", "store", "populate"} /\ ~call[t].mixed =>
    call[t].hash = Metainfo(call[t].input, temp)
FilesOf == Directory(temp) /\ \A t \in Seeds : StillThere(t)

\* A seed that leaves its call and the directory alone stays as it was.
LEMMA StillThereKept ==
  ASSUME NEW t \in Seeds, StillThere(t), call'[t] = call[t], temp' = temp
  PROVE  StillThere(t)'
BY DEF StillThere

\* seed writes a file: every seed whose files it may be among is mixed.
LEMMA WriteTempFiles ==
  ASSUME IInv, SeedsOf, FilesOf, NEW s \in Seeds, WriteTemp(s) PROVE FilesOf'
<1>1. PICK n, f :
        /\ n = call[s].written + 1 /\ f = call[s].input.files[n]
        /\ call[s].at = "write"
        /\ temp' = {g \in temp : g.name # f.name} \cup {f}
        /\ call' = [c \in Calls |->
             IF c = s THEN [call[c] EXCEPT !.written = n,
                              !.at = IF n = Len(call[c].input.files) THEN "generate" ELSE @]
             ELSE IF c \in Seeds /\ Reads(c, f) THEN [call[c] EXCEPT !.mixed = TRUE] ELSE call[c]]
  BY DEF WriteTemp
<1>2. /\ call[s].input \in Inputs
      /\ call[s].written \in 0..(Len(call[s].input.files) - 1)
  BY <1>1 DEF SeedsOf, SeedOf
<1>3. f.bytes \in Seq(Nat)
  <2>1. PICK q : /\ q = call[s].input.files /\ q \in Seq(Range(q))
                 /\ \A g \in Range(q) : g.bytes \in Seq(Nat)
    BY <1>2, ClientAssumption
  <2>2. PICK w \in 0..(Len(q) - 1) : w = call[s].written
    BY <1>2, <2>1
  <2>3. Len(q) \in Nat /\ w + 1 \in DOMAIN q
    BY <2>1, <2>2
  <2>4. f = q[w + 1]
    BY <1>1, <2>1, <2>2
  <2> QED BY <2>1, <2>3, <2>4 DEF Range
<1>4. Directory(temp)'
  <2>1. IsFiniteSet({g \in temp : g.name # f.name})
    BY FS_Subset DEF FilesOf, Directory
  <2>2. IsFiniteSet(temp')
    BY <1>1, <2>1, FS_AddElement
  <2>3. \A g \in temp' : g.bytes \in Seq(Nat)
    BY <1>1, <1>3 DEF FilesOf, Directory
  <2> QED BY <2>2, <2>3 DEF Directory
<1>5. ASSUME NEW t \in Seeds PROVE StillThere(t)'
  <2>1. t \in Calls /\ DOMAIN call[t] = CallFields /\ StillThere(t)
    BY CallSorts DEF FilesOf, IInv, Shape, CallShape
  <2>2. CASE t = s
    <3>1. call'[s] = [call[s] EXCEPT !.written = n,
                        !.at = IF n = Len(call[s].input.files) THEN "generate" ELSE @]
      BY <1>1, <2>1, <2>2
    <3>2. call'[s].at = IF n = Len(call[s].input.files) THEN "generate" ELSE "write"
      BY <1>1, <2>1, <2>2, <3>1 DEF CallFields
    <3> QED BY <2>2, <3>2 DEF StillThere
  <2>3. CASE t # s /\ Reads(t, f)
    <3>1. call'[t] = [call[t] EXCEPT !.mixed = TRUE]
      BY <1>1, <2>1, <2>3
    <3>2. call'[t].mixed
      BY <2>1, <3>1 DEF CallFields
    <3> QED BY <3>2 DEF StillThere
  <2>4. CASE t # s /\ ~Reads(t, f)
    <3>1. call'[t] = call[t]
      BY <1>1, <2>1, <2>4
    <3>2. ASSUME call[t].at \in {"parse", "store", "populate"}
          PROVE  Entry(call[t].input, temp') = Entry(call[t].input, temp)
      <4>1. call[t].input \in Inputs
        BY <3>2 DEF SeedsOf, SeedOf
      <4>2. \/ call[t].input.kind = "directory"
            \/ call[t].input.kind = "single" /\ call[t].input.files[1].name # f.name
        BY <2>4, <3>2, <4>1, ClientAssumption DEF Reads, Settled
      <4>3. CASE call[t].input.kind = "directory"
        BY <4>3 DEF Entry
      <4>4. CASE call[t].input.kind = "single" /\ call[t].input.files[1].name # f.name
        BY <1>1, <4>4 DEF Entry
      <4> QED BY <4>2, <4>3, <4>4
    <3>3. ASSUME call[t].at \in {"parse", "store", "populate"}
          PROVE  Metainfo(call[t].input, temp') = Metainfo(call[t].input, temp)
      BY <3>2, <3>3, MetainfoLemma
    <3> QED BY <2>1, <3>1, <3>3 DEF StillThere
  <2> QED BY <2>2, <2>3, <2>4
<1> QED BY <1>4, <1>5 DEF FilesOf

\* A seed whose call goes on keeps what it is of.
LEMMA GoesOnFiles ==
  ASSUME FilesOf, NEW c \in Sessions, temp' = temp,
         \A d \in Calls \ {c} : call'[d] = call[d],
         c \in Seeds =>
           \/ call'[c].at \notin {"parse", "store", "populate"}
           \/ call'[c].hash = Metainfo(call'[c].input, temp)
           \/ /\ call[c].at \in {"parse", "store", "populate"}
              /\ call'[c].input = call[c].input /\ call'[c].hash = call[c].hash
              /\ call'[c].mixed = call[c].mixed
  PROVE  FilesOf'
<1>1. c \in Seeds => StillThere(c)'
  BY DEF FilesOf, StillThere
<1>2. \A t \in Seeds \ {c} : StillThere(t)'
  BY StillThereKept, CallSorts DEF FilesOf
<1>3. Directory(temp)'
  BY DEF FilesOf, Directory
<1> QED BY <1>1, <1>2, <1>3 DEF FilesOf

\* Every step keeps the files of the seeds.
LEMMA NextFiles == ASSUME IInv, SeedsOf, FilesOf, [Next]_vars PROVE FilesOf'
<1>1. /\ DOMAIN call = Calls
      /\ \A c \in Sessions : c \in Calls /\ DOMAIN call[c] = CallFields
  BY CallSorts DEF IInv, Shape, CallShape
<1>2. ASSUME NEW c \in Sessions, AddCheck(c) \/ AddInsert(c) PROVE FilesOf'
  <2>1. PICK found, at : call' = [call EXCEPT ![c].result = found, ![c].at = at]
    BY <1>2 DEF AddCheck, AddInsert
  <2>2. /\ \A d \in Calls \ {c} : call'[d] = call[d]
        /\ call'[c].input = call[c].input /\ call'[c].hash = call[c].hash
        /\ call'[c].mixed = call[c].mixed
    BY <1>1, <2>1 DEF CallFields
  <2>3. temp' = temp /\ call[c].at \in {"parse", "store"}
    BY <1>2 DEF AddCheck, AddInsert
  <2> QED BY <2>2, <2>3, GoesOnFiles
<1>3. ASSUME NEW s \in Seeds, Populate(s) \/ Scans(s) PROVE FilesOf'
  <2>1. AtTheStore(s) /\ s \in Sessions
    BY <1>3, StoreSteps, CallSorts
  <2> QED BY <2>1, GoesOnFiles DEF AtTheStore, AtStore
<1>4. ASSUME NEW s \in Seeds, SeedCalled(s) PROVE FilesOf'
  <2>1. PICK at \in {"generate", "write"}, input \in Inputs :
          call' = [call EXCEPT ![s].at = at, ![s].input = input]
    BY <1>4 DEF SeedCalled
  <2>2. s \in Sessions
    BY CallSorts
  <2>3. /\ \A d \in Calls \ {s} : call'[d] = call[d]
        /\ call'[s].at = at
    BY <1>1, <2>1, <2>2 DEF CallFields
  <2>4. temp' = temp
    BY <1>4 DEF SeedCalled
  <2> QED BY <2>2, <2>3, <2>4, GoesOnFiles
<1>5. ASSUME NEW s \in Seeds, GenerateTorrent(s) PROVE FilesOf'
  <2>1. PICK at, h : /\ call' = [call EXCEPT ![s].at = at, ![s].hash = h]
                     /\ h = Metainfo(call[s].input, temp)
    BY <1>5 DEF GenerateTorrent
  <2>2. s \in Sessions
    BY CallSorts
  <2>3. /\ \A d \in Calls \ {s} : call'[d] = call[d]
        /\ call'[s].hash = h /\ call'[s].input = call[s].input
    BY <1>1, <2>1, <2>2 DEF CallFields
  <2>4. temp' = temp
    BY <1>5 DEF GenerateTorrent
  <2>5. call'[s].hash = Metainfo(call'[s].input, temp)
    BY <2>1, <2>3
  <2> QED BY <2>2, <2>3, <2>4, <2>5, GoesOnFiles
<1>6. ASSUME temp' = temp, \A s \in Seeds : call'[s] = call[s] PROVE FilesOf'
  <2>1. Directory(temp)'
    BY <1>6 DEF FilesOf, Directory
  <2> QED BY <1>6, <2>1, StillThereKept DEF FilesOf
<1>7. ASSUME NEW c \in Adds, AddCalled(c) PROVE FilesOf'
  <2>1. c \in Sessions /\ c \notin Seeds
    BY CallSorts, ClientAssumption
  <2>2. temp' = temp /\ \A d \in Calls \ {c} : call'[d] = call[d]
    BY <1>1, <1>7 DEF AddCalled
  <2> QED BY <2>1, <2>2, GoesOnFiles
<1>8. ASSUME NEW c \in Removes, RemoveCalled(c) \/ RemoveEnds(c) PROVE FilesOf'
  <2>1. temp' = temp /\ \A d \in Calls \ {c} : call'[d] = call[d]
    BY <1>1, <1>8 DEF RemoveCalled, RemoveEnds
  <2>2. \A s \in Seeds : s \in Calls \ {c}
    BY CallSorts
  <2> QED BY <1>6, <2>1, <2>2
<1>9. CASE CreateServer \/ DestroyCalled \/ DestroyLoop \/ UNCHANGED vars
  BY <1>6, <1>9 DEF CreateServer, DestroyCalled, DestroyLoop, vars
<1> QED BY <1>2, <1>3, <1>4, <1>5, <1>7, <1>8, <1>9, WriteTempFiles DEF Next, Scans

-----------------------------------------------------------------------------
(***************************************************************************)
(* Who has the open store of a hash                                        *)
(***************************************************************************)

\* A store is open while its torrent lives, and longer only under a remove; a session
\* nobody disputes has the only open store of its hash.
Closing(c) ==
  /\ session[c].closed \in BOOLEAN
  /\ session[c].torrent => ~session[c].closed
  /\ ~session[c].torrent => session[c].closed \/ Holds(c)
  /\ Holds(c) => ~session[c].torrent
OnlyStore(c) ==
  Undisputed(c) /\ session[c].torrent =>
    \A d \in Made \ {c} : session[d].hash = session[c].hash => session[d].closed
OneStore == \A c \in Made : Closing(c) /\ OnlyStore(c)

\* What a session goes through when it is not scanned.
Going(c) ==
  /\ Kept(c) /\ session'[c].verified = session[c].verified
  /\ session'[c].torrent => session[c].torrent
  /\ session[c].closed => session'[c].closed
  /\ Closing(c)'

\* Then no store is opened again.
LEMMA GoingLemma ==
  ASSUME IInv, OneStore, Made' = Made,
         \A c \in Made : /\ Kept(c) /\ (session'[c].torrent => session[c].torrent)
                         /\ (session[c].closed => session'[c].closed) /\ Closing(c)'
  PROVE  OneStore'
<1> SUFFICES ASSUME NEW c \in Made, Undisputed(c)', session'[c].torrent,
                    NEW d \in Made \ {c}, session'[d].hash = session'[c].hash
             PROVE  session'[d].closed
  BY DEF OneStore, OnlyStore
<1>1. Undisputed(c)
  BY UndisputedLemma
<1>2. session[d].hash = session[c].hash /\ session[c].torrent
  BY DEF Kept
<1>3. session[d].closed
  BY <1>1, <1>2 DEF OneStore, OnlyStore
<1> QED BY <1>3

\* A step that leaves the sessions and the removes alone.
LEMMA SameGoing ==
  ASSUME IInv, OneStore, session' = session, \A r \in Removes : call'[r] = call[r]
  PROVE  Made' = Made /\ \A c \in Made : Going(c)
<1>1. Made' = Made
  BY DEF Made
<1>2. \A c \in Made : Kept(c)
  BY DEF Kept, IInv, Shape, SessionShape
<1>3. \A c : Holds(c)' <=> Holds(c)
  BY DEF Holds
<1>4. \A c \in Made : Closing(c)'
  BY <1>3 DEF OneStore, Closing
<1> QED BY <1>1, <1>2, <1>4 DEF Going

\* Torrent.destroy closes the store of a torrent it finds alive unless it is to be wiped,
\* and leaves the bit field.
LEMMA DestroyStore ==
  ASSUME NEW ss, NEW t \in DOMAIN ss, NEW wipe, NEW d \in DOMAIN ss,
         DOMAIN ss[d] = SessionFields, NEW to, to = DestroyTorrent(ss, t, wipe)
  PROVE  /\ to[d].verified = ss[d].verified
         /\ d = t /\ ss[t].torrent => to[d].closed = ~wipe
         /\ ~(d = t /\ ss[t].torrent) => to[d].closed = ss[d].closed
<1>1. CASE ss[t].torrent
  <2>1. to = [ss EXCEPT ![t].torrent = FALSE, ![t].closed = ~wipe]
    BY <1>1 DEF DestroyTorrent
  <2>2. CASE d = t
    <3>1. to[d] = [ss[d] EXCEPT !.torrent = FALSE, !.closed = ~wipe]
      BY <2>1, <2>2
    <3> QED BY <1>1, <2>2, <3>1 DEF SessionFields
  <2>3. CASE d # t
    <3>1. to[d] = ss[d]
      BY <2>1, <2>3
    <3> QED BY <2>3, <3>1
  <2> QED BY <2>2, <2>3
<1>2. CASE ~ss[t].torrent
  BY <1>2 DEF DestroyTorrent
<1> QED BY <1>1, <1>2

\* remove closes the store at once, or leaves it open for the wipe it ends with.
LEMMA RemoveCalledGoing ==
  ASSUME IInv, OneStore, NEW c \in Removes, RemoveCalled(c)
  PROVE  Made' = Made /\ \A d \in Made : Going(d)
<1>1. PICK h \in DOMAIN torrents, wipe \in BOOLEAN :
        LET t == torrents[h]
            u == Lookup(swarms, h)
            stopped == IF u = NoSession THEN session ELSE [session EXCEPT ![u].swarm = FALSE]
        IN  /\ call' = [call EXCEPT ![c].at = "closing", ![c].hash = h, ![c].result = t,
                                    ![c].wipe = wipe /\ session[t].torrent]
            /\ session' = DestroyTorrent(stopped, t, wipe)
  BY DEF RemoveCalled
<1>2. PICK t : t = torrents[h]
  OBVIOUS
<1>3. PICK u : u = Lookup(swarms, h)
  OBVIOUS
<1>4. PICK stopped : stopped = IF u = NoSession THEN session ELSE [session EXCEPT ![u].swarm = FALSE]
  OBVIOUS
<1>5. /\ call[c].at = "idle" /\ c \in Calls /\ DOMAIN call = Calls /\ DOMAIN call[c] = CallFields
  BY CallSorts DEF RemoveCalled, MayCall, IInv, Shape, CallShape
<1>6. /\ call' = [call EXCEPT ![c].at = "closing", ![c].hash = h, ![c].result = t,
                              ![c].wipe = wipe /\ session[t].torrent]
      /\ session' = DestroyTorrent(stopped, t, wipe)
  BY <1>1, <1>2, <1>3, <1>4
<1>7. t \in Made
  BY <1>2 DEF IInv, Shape, MapShape, Leads
<1>8. ASSUME NEW d \in Made
      PROVE  /\ DOMAIN session[d] = SessionFields
             /\ session[d].torrent \in BOOLEAN /\ session[d].closed \in BOOLEAN
  BY DEF IInv, Shape, SessionShape, OneStore, Closing
<1>9. /\ DOMAIN stopped = Made
      /\ \A d \in Made :
           /\ DOMAIN stopped[d] = SessionFields
           /\ stopped[d].hash = session[d].hash /\ stopped[d].known = session[d].known
           /\ stopped[d].beside = session[d].beside /\ stopped[d].late = session[d].late
           /\ stopped[d].torrent = session[d].torrent
           /\ stopped[d].verified = session[d].verified /\ stopped[d].closed = session[d].closed
  <2>1. CASE u = NoSession
    BY <1>4, <1>8, <2>1 DEF Made
  <2>2. CASE u # NoSession
    <3>1. stopped = [session EXCEPT ![u].swarm = FALSE]
      BY <1>4, <2>2
    <3> QED BY <1>8, <3>1 DEF Made, SessionFields
  <2> QED BY <2>1, <2>2
<1>10. /\ Made' = Made
      /\ \A d \in Made : /\ Kept(d)
                          /\ session'[d].torrent = (session[d].torrent /\ d # t)
  <2>1. \A d \in DOMAIN stopped : DOMAIN stopped[d] = SessionFields /\ stopped[d].torrent \in BOOLEAN
    BY <1>8, <1>9
  <2>2. t \in DOMAIN stopped
    BY <1>7, <1>9
  <2> QED BY <1>6, <1>9, <2>1, <2>2, DestroyTorrentLemma DEF Kept, Made
<1>11. /\ \A d \in Calls \ {c} : call'[d] = call[d]
      /\ call'[c].at = "closing" /\ call'[c].result = t
  BY <1>5, <1>6 DEF CallFields
<1>12. \A r \in Removes : r # c => call'[r] = call[r]
  BY <1>11, CallSorts
<1>13. ASSUME NEW d \in Made PROVE Going(d)
  <2>1. /\ session'[d].verified = stopped[d].verified
        /\ d = t /\ stopped[t].torrent => session'[d].closed = ~wipe
        /\ ~(d = t /\ stopped[t].torrent) => session'[d].closed = stopped[d].closed
    <3>1. t \in DOMAIN stopped /\ d \in DOMAIN stopped /\ DOMAIN stopped[d] = SessionFields
      BY <1>7, <1>9
    <3>2. PICK to : to = DestroyTorrent(stopped, t, wipe)
      OBVIOUS
    <3>3. /\ to[d].verified = stopped[d].verified
          /\ d = t /\ stopped[t].torrent => to[d].closed = ~wipe
          /\ ~(d = t /\ stopped[t].torrent) => to[d].closed = stopped[d].closed
      BY <3>1, <3>2, DestroyStore
    <3> QED BY <1>6, <3>2, <3>3
  <2>2. /\ session'[d].verified = session[d].verified
        /\ d = t /\ session[t].torrent => session'[d].closed = ~wipe
        /\ ~(d = t /\ session[t].torrent) => session'[d].closed = session[d].closed
    BY <1>7, <1>9, <2>1
  <2>3. Closing(d) /\ session[d].closed \in BOOLEAN /\ session[d].torrent \in BOOLEAN
    BY <1>8 DEF OneStore
  <2>4. session'[d].torrent = (session[d].torrent /\ d # t)
    BY <1>10
  <2>5. CASE d = t
    <3>1. Holds(d)'
      BY <1>11, <2>5 DEF Holds
    <3>2. ~session'[d].torrent /\ session'[d].closed \in BOOLEAN
      BY <2>2, <2>3, <2>4, <2>5
    <3>3. session[d].closed => session'[d].closed
      BY <2>2, <2>3, <2>5 DEF Closing
    <3>4. Closing(d)'
      BY <3>1, <3>2 DEF Closing
    <3> QED BY <1>10, <2>2, <3>2, <3>3, <3>4 DEF Going
  <2>6. CASE d # t
    <3>1. Holds(d)' <=> Holds(d)
      BY <1>5, <1>11, <1>12, <2>6 DEF Holds
    <3>2. session'[d].closed = session[d].closed /\ session'[d].torrent = session[d].torrent
      BY <2>2, <2>3, <2>4, <2>6
    <3>3. Closing(d)'
      BY <2>3, <3>1, <3>2 DEF Closing
    <3> QED BY <1>10, <2>2, <3>2, <3>3 DEF Going
  <2> QED BY <2>5, <2>6
<1> QED BY <1>10, <1>13

\* It is closed at the end.
LEMMA RemoveEndsGoing ==
  ASSUME IInv, OneStore, NEW c \in Removes, RemoveEnds(c)
  PROVE  Made' = Made /\ \A d \in Made : Going(d)
<1>1. PICK t : t = call[c].result
  OBVIOUS
<1>2. /\ call[c].at = "closing" /\ c \in Calls /\ DOMAIN call = Calls /\ DOMAIN call[c] = CallFields
      /\ t \in Made
  BY <1>1, CallSorts DEF RemoveEnds, IInv, Shape, CallShape
<1>3. /\ session' = [session EXCEPT ![t].closed = TRUE]
      /\ call' = [call EXCEPT ![c].at = "done"]
  BY <1>1 DEF RemoveEnds
<1>4. \A d \in Made : DOMAIN session[d] = SessionFields /\ Closing(d)
  BY DEF IInv, Shape, SessionShape, OneStore
<1>5. /\ Made' = Made
      /\ \A d \in Made \ {t} : session'[d] = session[d]
      /\ session'[t] = [session[t] EXCEPT !.closed = TRUE]
  BY <1>2, <1>3 DEF Made
<1>6. \A r \in Removes : r # c => call'[r] = call[r]
  BY <1>2, <1>3, CallSorts
<1>7. call'[c].at = "done"
  BY <1>2, <1>3 DEF CallFields
<1>8. ASSUME NEW d \in Made PROVE Going(d)
  <2>1. CASE d = t
    <3>1. Holds(d)
      BY <1>2, <1>1, <2>1 DEF Holds
    <3>2. /\ session'[d].closed = TRUE /\ session'[d].torrent = session[d].torrent
          /\ session'[d].verified = session[d].verified /\ Kept(d)
      BY <1>4, <1>5, <2>1 DEF Kept, SessionFields
    <3>3. Closing(d)'
      BY <1>4, <3>1, <3>2 DEF Closing
    <3> QED BY <3>2, <3>3 DEF Going
  <2>2. CASE d # t
    <3>1. Holds(d)' <=> Holds(d)
      BY <1>2, <1>1, <1>6, <1>7, <2>2 DEF Holds
    <3>2. session'[d] = session[d]
      BY <1>5, <2>2
    <3>3. Closing(d)' /\ Kept(d)
      BY <1>4, <3>1, <3>2 DEF Closing, Kept
    <3> QED BY <3>2, <3>3 DEF Going
  <2> QED BY <2>1, <2>2
<1> QED BY <1>5, <1>8

\* destroy closes the stores it comes to.
LEMMA DestroyRoundGoing ==
  ASSUME IInv, OneStore, NEW ss, NEW seen, DestroyRound(ss, seen), call' = call, DOMAIN ss = Made,
         \A d \in Made : /\ DOMAIN ss[d] = SessionFields
                         /\ ss[d].hash = session[d].hash /\ ss[d].known = session[d].known
                         /\ ss[d].beside = session[d].beside /\ ss[d].late = session[d].late
                         /\ ss[d].torrent = session[d].torrent
                         /\ ss[d].verified = session[d].verified /\ ss[d].closed = session[d].closed
  PROVE  Made' = Made /\ \A d \in Made : Going(d)
<1>1. \A d \in Made : session[d].torrent \in BOOLEAN /\ Closing(d)
  BY DEF IInv, Shape, SessionShape, OneStore
<1>2. \A d : Holds(d)' <=> Holds(d)
  BY DEF Holds
<1>3. CASE session' = ss
  BY <1>1, <1>2, <1>3 DEF Made, Going, Kept, Closing
<1>4. CASE \E h \in DOMAIN torrents : session' = DestroyTorrent(ss, torrents[h], FALSE)
  <2>1. PICK no : no = FALSE
    OBVIOUS
  <2>2. PICK h \in DOMAIN torrents : session' = DestroyTorrent(ss, torrents[h], no)
    BY <1>4, <2>1
  <2>3. PICK t : t = torrents[h]
    OBVIOUS
  <2>4. t \in DOMAIN ss /\ session' = DestroyTorrent(ss, t, no)
    BY <2>2, <2>3 DEF IInv, Shape, MapShape, Leads
  <2>5. \A d \in DOMAIN ss : DOMAIN ss[d] = SessionFields /\ ss[d].torrent \in BOOLEAN
    BY <1>1
  <2>6. /\ Made' = Made
        /\ \A d \in Made : Kept(d) /\ session'[d].torrent = (ss[d].torrent /\ d # t)
    BY <2>4, <2>5, DestroyTorrentLemma DEF Kept, Made
  <2>7. ASSUME NEW d \in Made PROVE Going(d)
    <3>1. d \in DOMAIN ss /\ DOMAIN ss[d] = SessionFields
      OBVIOUS
    <3>2. PICK to : to = DestroyTorrent(ss, t, no)
      OBVIOUS
    <3>3. /\ to[d].verified = ss[d].verified
          /\ d = t /\ ss[t].torrent => to[d].closed = ~no
          /\ ~(d = t /\ ss[t].torrent) => to[d].closed = ss[d].closed
      BY <2>4, <3>1, <3>2, DestroyStore
    <3>4. /\ session'[d].verified = session[d].verified
          /\ d = t /\ session[t].torrent => session'[d].closed = TRUE
          /\ ~(d = t /\ session[t].torrent) => session'[d].closed = session[d].closed
      BY <2>1, <2>4, <3>2, <3>3
    <3>5. session'[d].torrent = (session[d].torrent /\ d # t) /\ Kept(d)
      BY <2>6
    <3>6. session[d].torrent \in BOOLEAN /\ Closing(d)
      BY <1>1
    <3>7. Closing(d)'
      BY <1>2, <3>4, <3>5, <3>6 DEF Closing
    <3>8. session[d].closed => session'[d].closed
      BY <3>4
    <3> QED BY <3>4, <3>5, <3>6, <3>7, <3>8 DEF Going
  <2> QED BY <2>6, <2>7
<1> QED BY <1>3, <1>4 DEF DestroyRound

\* So destroy goes, from its first round on.
LEMMA DestroyGoing ==
  ASSUME IInv, OneStore, DestroyCalled \/ DestroyLoop
  PROVE  Made' = Made /\ \A d \in Made : Going(d)
<1>1. \A d \in Made : DOMAIN session[d] = SessionFields
  BY DEF IInv, Shape, SessionShape
<1>2. CASE DestroyCalled
  <2>1. PICK ss : ss = [c \in Made |-> [session[c] EXCEPT !.swarm = @ /\ c \notin Range(swarms)]]
    OBVIOUS
  <2>2. PICK seen : seen = {}
    OBVIOUS
  <2>3. DestroyRound(ss, seen) /\ call' = call
    BY <1>2, <2>1, <2>2 DEF DestroyCalled
  <2>4. ASSUME NEW d \in Made
        PROVE  /\ DOMAIN ss[d] = SessionFields
               /\ ss[d].hash = session[d].hash /\ ss[d].known = session[d].known
               /\ ss[d].beside = session[d].beside /\ ss[d].late = session[d].late
               /\ ss[d].torrent = session[d].torrent
               /\ ss[d].verified = session[d].verified /\ ss[d].closed = session[d].closed
    <3>1. ss[d] = [session[d] EXCEPT !.swarm = session[d].swarm /\ d \notin Range(swarms)]
      BY <2>1
    <3> QED BY <1>1, <3>1 DEF SessionFields
  <2>5. DOMAIN ss = Made
    BY <2>1
  <2> QED BY <2>3, <2>4, <2>5, DestroyRoundGoing
<1>3. CASE DestroyLoop
  <2>1. PICK ss : ss = session
    OBVIOUS
  <2>2. DestroyRound(ss, destroying.seen) /\ call' = call
    BY <1>3, <2>1 DEF DestroyLoop
  <2>3. DOMAIN ss = Made
    BY <2>1 DEF Made
  <2>4. PICK seen : seen = destroying.seen
    OBVIOUS
  <2>5. DestroyRound(ss, seen) /\ call' = call
    BY <2>2, <2>4
  <2> QED BY <1>1, <2>1, <2>3, <2>5, DestroyRoundGoing
<1> QED BY <1>2, <1>3

\* add opens the store of its session: if nobody disputes it, every other one of the
\* hash is closed by then.
LEMMA AddInsertStore == ASSUME IInv, OneStore, NEW c \in Sessions, AddInsert(c) PROVE OneStore'
<1>1. PICK h : h = call[c].hash
  OBVIOUS
<1>2. PICK beside : beside = (h \in DOMAIN torrents \/ Removing(h))
  OBVIOUS
<1>3. /\ call[c].at = "store" /\ c \notin Made /\ c \in Calls
      /\ DOMAIN call = Calls /\ DOMAIN call[c] = CallFields
  BY CallSorts, IdleLemma DEF AddInsert, Early, IInv, Shape, CallShape
<1>4. session' = Set(session, c, NewSession(h, call[c].known, beside, destroyed))
  BY <1>1, <1>2 DEF AddInsert, Removing
<1>5. \A r \in Removes : call'[r] = call[r]
  <2>1. call' = [call EXCEPT ![c].result = c, ![c].at = IF c \in Seeds THEN "populate" ELSE "done"]
    BY DEF AddInsert
  <2>2. \A d \in Calls \ {c} : call'[d] = call[d]
    BY <1>3, <2>1
  <2> QED BY <2>2, CallSorts
<1>6. /\ Made' = Made \cup {c}
      /\ \A d \in Made : session'[d] = session[d]
      /\ session'[c] = NewSession(h, call[c].known, beside, destroyed)
  BY <1>3, <1>4 DEF Made, Set
<1>7. /\ session'[c].hash = h /\ session'[c].torrent = TRUE /\ session'[c].closed = FALSE
      /\ session'[c].beside = beside
  BY <1>6 DEF NewSession
<1>8. \A d : Holds(d)' <=> Holds(d)
  BY <1>5 DEF Holds
<1>9. ASSUME NEW d \in Made PROVE Closing(d)'
  <2>1. Closing(d) /\ session'[d] = session[d]
    BY <1>6 DEF OneStore
  <2> QED BY <1>8, <2>1 DEF Closing
<1>10. Closing(c)'
  <2>1. ~Holds(c)
    BY <1>3 DEF Holds, IInv, Shape, CallShape
  <2> QED BY <1>7, <1>8, <2>1 DEF Closing
<1>11. ASSUME NEW d \in Made, Undisputed(d)' PROVE Undisputed(d)
  <2>1. Made \subseteq Made' /\ \A e \in Made : Kept(e)
    BY <1>6 DEF Kept, IInv, Shape, SessionShape
  <2> QED BY <1>11, <2>1, UndisputedLemma
<1>12. ASSUME NEW d \in Made, ~beside, session[d].hash = h, Undisputed(d)
       PROVE  session[d].closed
  <2>1. LiveInMaps(d) /\ Closing(d)
    BY <1>12 DEF IInv, Agree, OneStore
  <2>2. ~session[d].torrent
    BY <1>2, <1>12, <2>1 DEF LiveInMaps, Has
  <2>3. ~Holds(d)
    <3>1. \A r \in Removes : call[r].at = "closing" /\ call[r].result = d => call[r].hash = h
      BY <1>12 DEF IInv, Shape, CallShape
    <3> QED BY <1>2, <1>12, <3>1 DEF Removing, Holds
  <2> QED BY <2>1, <2>2, <2>3 DEF Closing
<1>13. OnlyStore(c)'
  <2> SUFFICES ASSUME Undisputed(c)', NEW d \in Made, session'[d].hash = session'[c].hash
               PROVE  session'[d].closed
    BY <1>6 DEF OnlyStore
  <2>1. ~beside
    BY <1>6, <1>7 DEF Undisputed
  <2>2. session[d].hash = h /\ session'[d] = session[d]
    BY <1>6, <1>7
  <2>3. Undisputed(d)'
    BY <1>7, <2>2 DEF Undisputed
  <2> QED BY <1>11, <1>12, <2>1, <2>2, <2>3
<1>14. ASSUME NEW d \in Made PROVE OnlyStore(d)'
  <2> SUFFICES ASSUME Undisputed(d)', session'[d].torrent, NEW e \in Made' \ {d},
                      session'[e].hash = session'[d].hash
               PROVE  session'[e].closed
    BY DEF OnlyStore
  <2>1. Undisputed(d) /\ session'[d] = session[d]
    BY <1>6, <1>11
  <2>2. CASE e = c
    <3>1. session[d].hash = h
      BY <1>7, <2>1, <2>2
    <3>2. ~beside
      BY <1>6, <1>7, <2>1, <3>1 DEF Undisputed
    <3>3. session[d].closed
      BY <1>12, <2>1, <3>1, <3>2
    <3>4. ~session[d].closed
      BY <2>1 DEF OneStore, Closing
    <3> QED BY <3>3, <3>4
  <2>3. CASE e # c
    <3>1. e \in Made /\ session'[e] = session[e]
      BY <1>6, <2>3
    <3> QED BY <2>1, <3>1 DEF OneStore, OnlyStore
  <2> QED BY <2>2, <2>3
<1> QED BY <1>6, <1>9, <1>10, <1>13, <1>14 DEF OneStore

\* Every step that makes no session and scans none.
LEMMA NextGoing ==
  ASSUME IInv, OneStore, [Next]_vars, \A c \in Sessions : ~AddInsert(c), \A s \in Seeds : ~Scans(s)
  PROVE  Made' = Made /\ \A c \in Made : Going(c)
<1>1. DOMAIN call = Calls
  BY DEF IInv, Shape, CallShape
<1>2. ASSUME session' = session, NEW c \in Sessions, \A d \in Calls \ {c} : call'[d] = call[d]
      PROVE  Made' = Made /\ \A d \in Made : Going(d)
  <2>1. \A r \in Removes : call'[r] = call[r]
    BY <1>2, CallSorts
  <2> QED BY <1>2, <2>1, SameGoing
<1>3. ASSUME NEW s \in Seeds, SeedCalled(s) \/ GenerateTorrent(s) \/ Populate(s)
      PROVE  Made' = Made /\ \A d \in Made : Going(d)
  <2>1. session' = session /\ \A d \in Calls \ {s} : call'[d] = call[d]
    BY <1>1, <1>3 DEF SeedCalled, GenerateTorrent, Populate
  <2> QED BY <1>2, <2>1, CallSorts
<1>4. ASSUME NEW s \in Seeds, WriteTemp(s)
      PROVE  Made' = Made /\ \A d \in Made : Going(d)
  <2>1. PICK n, f : call' = [c \in Calls |->
           IF c = s THEN [call[c] EXCEPT !.written = n,
                            !.at = IF n = Len(call[c].input.files) THEN "generate" ELSE @]
           ELSE IF c \in Seeds /\ Reads(c, f) THEN [call[c] EXCEPT !.mixed = TRUE] ELSE call[c]]
    BY <1>4 DEF WriteTemp
  <2>2. \A r \in Removes : r \in Calls /\ r # s /\ r \notin Seeds
    BY CallSorts
  <2>3. session' = session /\ \A r \in Removes : call'[r] = call[r]
    BY <1>4, <2>1, <2>2 DEF WriteTemp
  <2> QED BY <2>3, SameGoing
<1>5. ASSUME NEW c \in Sessions, AddCalled(c) \/ AddCheck(c)
      PROVE  Made' = Made /\ \A d \in Made : Going(d)
  <2>1. session' = session /\ \A d \in Calls \ {c} : call'[d] = call[d]
    BY <1>1, <1>5 DEF AddCalled, AddCheck
  <2> QED BY <1>2, <2>1
<1>6. CASE CreateServer \/ UNCHANGED vars
  BY <1>6, SameGoing DEF CreateServer, vars
<1> QED BY <1>3, <1>4, <1>5, <1>6, RemoveCalledGoing, RemoveEndsGoing, DestroyGoing, CallSorts
       DEF Next, Scans

\* A scan changes the bit field only.
LEMMA ScanStore == ASSUME IInv, OneStore, NEW s \in Seeds, Scans(s) PROVE OneStore'
<1>1. AtTheStore(s)
  BY StoreSteps
<1>2. \A r \in Removes : call'[r] = call[r]
  BY <1>1, CallSorts DEF AtTheStore
<1>3. \A d : Holds(d)' <=> Holds(d)
  BY <1>2 DEF Holds
<1>4. Made' = Made
  BY <1>1 DEF AtTheStore, SameSessions, Made
<1>5. ASSUME NEW d \in Made
      PROVE  /\ Kept(d) /\ session'[d].torrent = session[d].torrent
             /\ session'[d].closed = session[d].closed
  BY <1>1 DEF AtTheStore, SameSessions
<1>6. \A d \in Made : Closing(d)'
  BY <1>3, <1>5 DEF OneStore, Closing
<1> QED BY <1>4, <1>5, <1>6, GoingLemma

\* Every step keeps what is said of the stores.
LEMMA NextStore == ASSUME IInv, OneStore, [Next]_vars PROVE OneStore'
<1>1. CASE \E c \in Sessions : AddInsert(c)
  BY <1>1, AddInsertStore
<1>2. CASE \E s \in Seeds : Scans(s)
  BY <1>2, ScanStore
<1>3. CASE ~(\E c \in Sessions : AddInsert(c)) /\ ~(\E s \in Seeds : Scans(s))
  <2>1. Made' = Made /\ \A c \in Made : Going(c)
    BY <1>3, NextGoing
  <2> QED BY <2>1, GoingLemma DEF Going
<1> QED BY <1>1, <1>2, <1>3

-----------------------------------------------------------------------------
(***************************************************************************)
(* The calls' sessions and the chunk directories                           *)
(***************************************************************************)

\* Where a seed stands it has its session, one of the hash it was given, and a piece its
\* loops are at.
ResultOf(t) ==
  /\ call[t].at \in Early => call[t].result = NoSession /\ call[t].next = 1
  /\ call[t].at \in AtStore =>
       call[t].result \in Made /\ session[call[t].result].hash = call[t].hash
  /\ call[t].next \in Nat \ {0}
Resulted == \A t \in Seeds : ResultOf(t)

\* Every session has a chunk directory, and its metainfo a piece length.
Stored ==
  /\ \A c \in Sessions : call[c].at \in {"parse", "store"} => call[c].hash.pieceLength \in Presets
  /\ \A c \in Sessions : call[c].at = "store" => call[c].hash \in DOMAIN chunks
  /\ \A c \in Made : session[c].hash \in DOMAIN chunks /\ session[c].hash.pieceLength \in Presets

\* A seed puts the next chunk of its files into the open store of its session, or has put
\* all, or is refused; undisturbed it is not refused, and its chunks are the pieces.
Fills(s, c, h, i, puts) ==
  /\ c \in Made /\ c = call[s].result /\ h \in DOMAIN chunks /\ h = session[c].hash
  /\ i = call[s].next /\ i \in Nat \ {0} /\ puts \in Seq(Seq(Nat))
  /\ call'[s].next = i + 1
  /\ \/ i > Len(puts) /\ chunks' = chunks /\ call'[s].at = "rescan"
     \/ /\ i <= Len(puts) /\ chunks' = chunks /\ call'[s].at = "failed"
        /\ ~(Plain(s) /\ session[c].known /\ ~session[c].closed)
     \/ /\ i <= Len(puts) /\ ~session[c].closed /\ call'[s].at = "populate"
        /\ chunks' = [chunks EXCEPT ![h] = Set(chunks[h], i, puts[i])]
  /\ Plain(s) /\ session[c].known => puts = h.pieces

\* This is what populating it does: each chunk has the length of its index.
LEMMA PopulateStep ==
  ASSUME IInv, SeedsOf, FilesOf, Resulted, Stored, NEW s \in Seeds, Populate(s)
  PROVE  \E c, h, i, puts : Fills(s, c, h, i, puts)
<1>1. PICK c, h, z, q, i, puts :
        /\ c = call[s].result /\ h = session[c].hash /\ z = PieceLength(c)
        /\ q = WalkDir(Entry(call[s].input, temp), FALSE)
        /\ i = call[s].next /\ puts = Puts(q, z)
  OBVIOUS
<1>2. PICK m : m = Len(puts)
  OBVIOUS
<1>3. PICK refused \in BOOLEAN : refused <=> ((session[c].closed \/ Len(puts[i]) # ChunkLength(c, i)))
  OBVIOUS
<1>4. /\ call[s].at = "populate"
      /\ chunks' = IF i > m \/ refused THEN chunks ELSE [chunks EXCEPT ![h] = Set(@, i, puts[i])]
      /\ call' = [call EXCEPT ![s].at = IF i > m THEN "rescan" ELSE IF refused THEN "failed" ELSE @,
                              ![s].next = i + 1]
  <2>1. /\ call[s].at = "populate"
        /\ chunks' = IF i > m \/ (~(i > m) /\ (session[c].closed \/ Len(puts[i]) # ChunkLength(c, i)))
                     THEN chunks ELSE [chunks EXCEPT ![h] = Set(@, i, puts[i])]
        /\ call' = [call EXCEPT
             ![s].at = IF i > m THEN "rescan"
                       ELSE IF ~(i > m) /\ (session[c].closed \/ Len(puts[i]) # ChunkLength(c, i))
                            THEN "failed" ELSE @,
             ![s].next = i + 1]
    BY <1>1, <1>2 DEF Populate
  <2>2. CASE i > m
    BY <2>1, <2>2
  <2>3. CASE ~(i > m)
    BY <1>3, <2>1, <2>3
  <2> QED BY <2>2, <2>3
<1>5. /\ c \in Made /\ h = call[s].hash /\ h \in DOMAIN chunks /\ h.pieceLength \in Presets
      /\ i \in Nat \ {0}
  BY <1>1, <1>4 DEF Resulted, ResultOf, Stored, AtStore
<1>6. call[s].input \in Inputs /\ Directory(temp)
  BY <1>4 DEF SeedsOf, SeedOf, FilesOf
<1>7. PICK g : /\ g = Metainfo(call[s].input, temp) /\ Bytes(q) \in Seq(Nat)
               /\ ~call[s].input.align /\ ~Hides(call[s].input) =>
                    g.pieces = Chunks(Bytes(q), g.pieceLength) /\ Length(g) = Len(Bytes(q))
  BY <1>1, <1>6, PiecesLemma
<1>8. z \in Nat \ {0} /\ (session[c].known => z = h.pieceLength)
  BY <1>1, <1>5, GeneratorAssumption, ClientAssumption DEF PieceLength
<1>9. PICK b \in Seq(Nat) : b = Bytes(q)
  BY <1>7
<1>10. puts = Chunks(b, z) /\ puts \in Seq(Seq(Nat)) /\ Len(puts) \in Nat
  <2>1. Bytes(q) \in Seq(Nat) /\ z \in Nat \ {0}
    BY <1>7, <1>8
  <2>2. Puts(q, z) = Chunks(Bytes(q), z) /\ Puts(q, z) \in Seq(Seq(Nat))
    BY <2>1, PutsLemma
  <2>3. puts = Chunks(b, z) /\ puts \in Seq(Seq(Nat))
    BY <1>1, <1>9, <2>2
  <2> QED BY <2>3
<1>11. ASSUME Plain(s), session[c].known
       PROVE  puts = h.pieces /\ (~session[c].closed /\ ~(i > m) => ~refused)
  <2>1. h = g
    BY <1>4, <1>5, <1>7, <1>11 DEF Plain, FilesOf, StillThere
  <2>2. h.pieces = Chunks(b, z) /\ Length(h) = Len(b) /\ z = h.pieceLength
    BY <1>7, <1>8, <1>9, <1>11, <2>1 DEF Plain
  <2>3. SizedAs(puts, Len(b), z)
    BY <1>8, <1>10, SizesLemma
  <2>4. PICK last, rest :
          /\ last = Len(puts) /\ last = (Len(b) + z - 1) \div z /\ rest = Len(b) % z
          /\ \A j \in 1..last : Len(puts[j]) = IF j = last /\ rest # 0 THEN rest ELSE z
    BY <2>3 DEF SizedAs
  <2>5. \A j : ChunkLength(c, j) = IF j = last /\ rest # 0 THEN rest ELSE z
    BY <1>1, <1>11, <2>2, <2>4 DEF ChunkLength
  <2>6. ~(i > m) => i \in 1..last
    BY <1>2, <1>5, <1>10, <2>4
  <2>7. ~session[c].closed /\ ~(i > m) => ~refused
    BY <1>3, <2>4, <2>5, <2>6
  <2> QED BY <1>10, <2>2, <2>7
<1>12. /\ call'[s].next = i + 1
       /\ call'[s].at = IF i > m THEN "rescan" ELSE IF refused THEN "failed" ELSE "populate"
  <2>1. DOMAIN call = Calls /\ DOMAIN call[s] = CallFields /\ s \in Calls
    BY CallSorts DEF IInv, Shape, CallShape
  <2> QED BY <1>4, <2>1 DEF CallFields
<1>13. ~(i > m) => i <= Len(puts)
  BY <1>2, <1>5, <1>10
<1>14. ~refused => ~session[c].closed
  BY <1>3
<1>15. Fills(s, c, h, i, puts)
  <2>1. \/ i > Len(puts) /\ chunks' = chunks /\ call'[s].at = "rescan"
        \/ /\ i <= Len(puts) /\ chunks' = chunks /\ call'[s].at = "failed"
           /\ ~(Plain(s) /\ session[c].known /\ ~session[c].closed)
        \/ /\ i <= Len(puts) /\ ~session[c].closed /\ call'[s].at = "populate"
           /\ chunks' = [chunks EXCEPT ![h] = Set(chunks[h], i, puts[i])]
    BY <1>2, <1>4, <1>11, <1>12, <1>13, <1>14
  <2> QED BY <1>1, <1>5, <1>10, <1>11, <1>12, <2>1 DEF Fills
<1> QED BY <1>15

\* No step forgets a session or what it is of.
LEMMA NextSessions ==
  ASSUME IInv, OneStore, [Next]_vars
  PROVE  Made \subseteq Made' /\ \A c \in Made : Kept(c)
<1>1. \A c \in Made : DOMAIN session[c] = SessionFields
  BY DEF IInv, Shape, SessionShape
<1>2. ASSUME NEW c \in Sessions, AddInsert(c) PROVE Made \subseteq Made' /\ \A d \in Made : Kept(d)
  <2>1. PICK new : session' = Set(session, c, new)
    BY <1>2 DEF AddInsert
  <2>2. c \notin Made
    BY <1>2, IdleLemma DEF AddInsert, Early
  <2>3. Made \subseteq Made' /\ \A d \in Made : session'[d] = session[d]
    BY <2>1, <2>2 DEF Made, Set
  <2> QED BY <1>1, <2>3 DEF Kept
<1>3. ASSUME NEW s \in Seeds, Scans(s) PROVE Made \subseteq Made' /\ \A d \in Made : Kept(d)
  BY <1>3, StoreSteps DEF AtTheStore, SameSessions, Made
<1>4. CASE ~(\E c \in Sessions : AddInsert(c)) /\ ~(\E s \in Seeds : Scans(s))
  <2>1. Made' = Made /\ \A c \in Made : Going(c)
    BY <1>4, NextGoing
  <2> QED BY <2>1 DEF Going
<1> QED BY <1>2, <1>3, <1>4

\* How a seed goes on in a step: it stays where it is, goes towards its session, has
\* it, or fills and scans the store.
Stays(t) ==
  /\ call'[t].at = call[t].at /\ call'[t].result = call[t].result
  /\ call'[t].hash = call[t].hash /\ call'[t].input = call[t].input
  /\ call'[t].next = call[t].next /\ call'[t].found = call[t].found
  /\ call[t].mixed => call'[t].mixed
Begins(t) ==
  /\ call[t].at \in Early /\ call'[t].at \in Early \cup {"failed"}
  /\ call'[t].result = NoSession /\ call'[t].next = call[t].next
Arrives(t) ==
  /\ call[t].at \in Early /\ call'[t].at = "populate" /\ call'[t].next = call[t].next
  /\ call'[t].result \in Made' /\ session'[call'[t].result].hash = call'[t].hash
Works(t) == (Populate(t) \/ Scans(t)) /\ AtTheStore(t)
GoesOn(t) == Stays(t) \/ Begins(t) \/ Arrives(t) \/ Works(t)

\* There is no other way.
LEMMA NextCalls ==
  ASSUME IInv, Resulted, [Next]_vars, NEW t \in Seeds
  PROVE  GoesOn(t)
<1>1. /\ DOMAIN call = Calls
      /\ \A c \in Sessions : c \in Calls /\ DOMAIN call[c] = CallFields
      /\ t \in Sessions /\ t \in Calls /\ t \notin Removes
      /\ call[t].at \in Early => call[t].result = NoSession
  BY CallSorts DEF IInv, Shape, CallShape, Resulted, ResultOf
<1>2. ASSUME NEW c \in Calls, c # t, \A d \in Calls \ {c} : call'[d] = call[d] PROVE GoesOn(t)
  BY <1>1, <1>2 DEF GoesOn, Stays
<1>3. ASSUME SeedCalled(t) PROVE GoesOn(t)
  <2>1. PICK at \in {"generate", "write"}, input \in Inputs :
          call' = [call EXCEPT ![t].at = at, ![t].input = input]
    BY <1>3 DEF SeedCalled
  <2>2. call'[t].at = at /\ call'[t].result = call[t].result /\ call'[t].next = call[t].next
    BY <1>1, <2>1 DEF CallFields
  <2>3. call[t].at \in Early
    BY <1>3 DEF SeedCalled, MayCall, Early
  <2> QED BY <1>1, <2>2, <2>3 DEF GoesOn, Begins, Early
<1>4. ASSUME NEW s \in Seeds, WriteTemp(s) PROVE GoesOn(t)
  <2>1. PICK n, f : call' = [c \in Calls |->
           IF c = s THEN [call[c] EXCEPT !.written = n,
                            !.at = IF n = Len(call[c].input.files) THEN "generate" ELSE @]
           ELSE IF c \in Seeds /\ Reads(c, f) THEN [call[c] EXCEPT !.mixed = TRUE] ELSE call[c]]
    BY <1>4 DEF WriteTemp
  <2>2. CASE t = s
    <3>1. call'[t] = [call[t] EXCEPT !.written = n,
                        !.at = IF n = Len(call[t].input.files) THEN "generate" ELSE @]
      BY <1>1, <2>1, <2>2
    <3>2. call[t].at = "write"
      BY <1>4, <2>2 DEF WriteTemp
    <3>3. /\ call'[t].at \in {"write", "generate"}
          /\ call'[t].result = call[t].result /\ call'[t].next = call[t].next
      BY <1>1, <3>1, <3>2 DEF CallFields
    <3> QED BY <1>1, <3>2, <3>3 DEF GoesOn, Begins, Early
  <2>3. CASE t # s
    <3>1. call'[t] = [call[t] EXCEPT !.mixed = TRUE] \/ call'[t] = call[t]
      BY <1>1, <2>1, <2>3
    <3> QED BY <1>1, <3>1 DEF GoesOn, Stays, CallFields
  <2> QED BY <2>2, <2>3
<1>5. ASSUME GenerateTorrent(t) PROVE GoesOn(t)
  <2>1. PICK at \in {"failed", "parse"} :
          call' = [call EXCEPT ![t].at = at, ![t].hash = Metainfo(call[t].input, temp)]
    BY <1>5 DEF GenerateTorrent
  <2>2. call'[t].at = at /\ call'[t].result = call[t].result /\ call'[t].next = call[t].next
    BY <1>1, <2>1 DEF CallFields
  <2>3. call[t].at \in Early
    BY <1>5 DEF GenerateTorrent, Early
  <2> QED BY <1>1, <2>2, <2>3 DEF GoesOn, Begins, Early
<1>6. ASSUME AddCheck(t) PROVE GoesOn(t)
  <2>1. PICK found : found = Lookup(torrents, call[t].hash)
    OBVIOUS
  <2>2. /\ call' = [call EXCEPT ![t].result = found,
                                ![t].at = IF found = NoSession THEN "store" ELSE "populate"]
        /\ session' = session /\ call[t].at \in Early
    BY <1>6, <2>1 DEF AddCheck, Early
  <2>3. /\ call'[t].at = IF found = NoSession THEN "store" ELSE "populate"
        /\ call'[t].result = found /\ call'[t].hash = call[t].hash /\ call'[t].next = call[t].next
    BY <1>1, <2>2 DEF CallFields
  <2>4. found # NoSession => found \in Made /\ session[found].hash = call[t].hash
    BY <2>1 DEF Lookup, IInv, Shape, MapShape, Leads
  <2>5. CASE found = NoSession
    BY <2>2, <2>3, <2>5 DEF GoesOn, Begins, Early
  <2>6. CASE found # NoSession
    BY <2>2, <2>3, <2>4, <2>6 DEF GoesOn, Arrives, Made
  <2> QED BY <2>5, <2>6
<1>7. ASSUME AddInsert(t) PROVE GoesOn(t)
  <2>1. PICK known, beside : session' = Set(session, t, NewSession(call[t].hash, known, beside, destroyed))
    BY <1>7 DEF AddInsert
  <2>2. /\ call' = [call EXCEPT ![t].result = t, ![t].at = "populate"]
        /\ call[t].at \in Early
    BY <1>7 DEF AddInsert, Early
  <2>3. /\ call'[t].at = "populate" /\ call'[t].result = t /\ call'[t].hash = call[t].hash
        /\ call'[t].next = call[t].next
    BY <1>1, <2>2 DEF CallFields
  <2>4. t \in Made' /\ session'[t].hash = call[t].hash
    BY <2>1 DEF Set, Made, NewSession
  <2> QED BY <2>2, <2>3, <2>4 DEF GoesOn, Arrives
<1>8. ASSUME Populate(t) \/ Scans(t) PROVE GoesOn(t)
  BY <1>8, StoreSteps DEF GoesOn, Works
<1>9. ASSUME NEW c \in Calls, c # t,
             \/ SeedCalled(c) \/ GenerateTorrent(c) \/ (c \in Seeds /\ (Populate(c) \/ Scans(c)))
             \/ AddCalled(c) \/ AddCheck(c) \/ AddInsert(c) \/ RemoveCalled(c) \/ RemoveEnds(c)
      PROVE  GoesOn(t)
  <2>1. \A d \in Calls \ {c} : call'[d] = call[d]
    BY <1>1, <1>9, StoreSteps DEF SeedCalled, GenerateTorrent, AtTheStore, AddCalled, AddCheck,
                                  AddInsert, RemoveCalled, RemoveEnds
  <2> QED BY <1>2, <1>9, <2>1
<1>10. CASE CreateServer \/ DestroyCalled \/ DestroyLoop \/ UNCHANGED vars
  BY <1>10 DEF CreateServer, DestroyCalled, DestroyLoop, vars, GoesOn, Stays
<1>11. Adds \subseteq Calls /\ Seeds \subseteq Calls /\ Sessions \subseteq Calls
       /\ Removes \subseteq Calls /\ t \notin Adds /\ t \notin Removes
  BY <1>1, CallSorts, ClientAssumption
<1>12. CASE \E s \in Seeds :
         SeedCalled(s) \/ WriteTemp(s) \/ GenerateTorrent(s) \/ Populate(s) \/ Scans(s)
  BY <1>3, <1>4, <1>5, <1>8, <1>9, <1>11, <1>12
<1>13. CASE \E c \in Sessions : AddCheck(c) \/ AddInsert(c)
  BY <1>6, <1>7, <1>9, <1>11, <1>13
<1>14. CASE (\E c \in Adds : AddCalled(c)) \/ \E c \in Removes : RemoveCalled(c) \/ RemoveEnds(c)
  BY <1>9, <1>11, <1>14
<1> QED BY <1>10, <1>12, <1>13, <1>14 DEF Next, Scans

\* Every step keeps what the seeds have.
LEMMA NextResults == ASSUME IInv, OneStore, Resulted, [Next]_vars PROVE Resulted'
<1> SUFFICES ASSUME NEW t \in Seeds PROVE ResultOf(t)'
  BY DEF Resulted
<1>1. GoesOn(t) /\ ResultOf(t)
  BY NextCalls DEF Resulted
<1>2. \A c \in Made : c \in Made' /\ session'[c].hash = session[c].hash
  BY NextSessions DEF Kept
<1>3. CASE Stays(t)
  BY <1>1, <1>2, <1>3 DEF Stays, ResultOf
<1>4. CASE Begins(t)
  BY <1>1, <1>4 DEF Begins, ResultOf, Early, AtStore
<1>5. CASE Arrives(t)
  BY <1>1, <1>5 DEF Arrives, ResultOf, Early
<1>6. CASE Works(t)
  BY <1>1, <1>2, <1>6 DEF Works, AtTheStore, ResultOf, Early, AtStore
<1> QED BY <1>1, <1>3, <1>4, <1>5, <1>6 DEF GoesOn

\* The chunk directories stay.
LEMMA NextChunks ==
  ASSUME [Next]_vars
  PROVE  DOMAIN chunks \subseteq DOMAIN chunks'
<1>1. ASSUME NEW s \in Seeds, Populate(s) PROVE DOMAIN chunks \subseteq DOMAIN chunks'
  <2>1. PICK h, f : chunks' = chunks \/ chunks' = [chunks EXCEPT ![h] = f]
    BY <1>1 DEF Populate
  <2> QED BY <2>1
<1>2. ASSUME NEW c \in Sessions, AddCheck(c) PROVE DOMAIN chunks \subseteq DOMAIN chunks'
  <2>1. chunks' = chunks \/ chunks' = Set(chunks, call[c].hash, <<>>)
    BY <1>2 DEF AddCheck
  <2> QED BY <2>1 DEF Set
<1>3. ASSUME NEW c \in Removes, RemoveEnds(c) PROVE DOMAIN chunks \subseteq DOMAIN chunks'
  <2>1. chunks' = chunks \/ chunks' = [chunks EXCEPT ![call[c].hash] = <<>>]
    BY <1>3 DEF RemoveEnds
  <2> QED BY <2>1
<1>4. \/ chunks' = chunks
      \/ \E s \in Seeds : Populate(s)
      \/ \E c \in Sessions : AddCheck(c)
      \/ \E c \in Removes : RemoveEnds(c)
  BY DEF Next, vars, SeedCalled, WriteTemp, GenerateTorrent, RescanFiles, ScanRead, ScanMark, AddCalled,
         AddInsert, RemoveCalled, CreateServer, DestroyCalled, DestroyLoop
<1> QED BY <1>1, <1>2, <1>3, <1>4

\* Every metainfo made has a piece length there is.
LEMMA PresetLemma ==
  ASSUME NEW i \in Inputs, NEW dir, Directory(dir)
  PROVE  Metainfo(i, dir).pieceLength \in Presets
BY PiecesLemma

\* What is added has a metainfo, and its directory once the store is made.
AddsWell(c) ==
  call'[c].at \in {"parse", "store"} =>
    \/ /\ call[c].at \in {"parse", "store"} /\ call'[c].hash = call[c].hash
       /\ call'[c].at = "store" => call[c].at = "store" \/ call[c].hash \in DOMAIN chunks'
    \/ call'[c].at = "parse" /\ call'[c].hash.pieceLength \in Presets

\* So goes every call.
LEMMA NextAdds ==
  ASSUME IInv, SeedsOf, FilesOf, Resulted, Stored, [Next]_vars, NEW c \in Sessions
  PROVE  AddsWell(c)
<1>1. /\ DOMAIN call = Calls
      /\ \A d \in Sessions : d \in Calls /\ DOMAIN call[d] = CallFields
      /\ c \notin Removes
      /\ DOMAIN chunks \subseteq DOMAIN chunks'
  BY CallSorts, NextChunks DEF IInv, Shape, CallShape
<1>2. CASE call'[c].at = call[c].at /\ call'[c].hash = call[c].hash
  BY <1>2 DEF AddsWell
<1>3. CASE call'[c].at \notin {"parse", "store"}
  BY <1>3 DEF AddsWell
<1>4. ASSUME NEW s \in Seeds, SeedCalled(s) PROVE AddsWell(c)
  <2>1. PICK at \in {"generate", "write"}, input \in Inputs :
          call' = [call EXCEPT ![s].at = at, ![s].input = input]
    BY <1>4 DEF SeedCalled
  <2>2. CASE c = s
    <3>1. call'[c].at = at
      BY <1>1, <2>1, <2>2 DEF CallFields
    <3> QED BY <1>3, <3>1
  <2>3. CASE c # s
    BY <1>1, <1>2, <2>1, <2>3
  <2> QED BY <2>2, <2>3
<1>5. ASSUME NEW s \in Seeds, WriteTemp(s) PROVE AddsWell(c)
  <2>1. PICK n, f : call' = [d \in Calls |->
           IF d = s THEN [call[d] EXCEPT !.written = n,
                            !.at = IF n = Len(call[d].input.files) THEN "generate" ELSE @]
           ELSE IF d \in Seeds /\ Reads(d, f) THEN [call[d] EXCEPT !.mixed = TRUE] ELSE call[d]]
    BY <1>5 DEF WriteTemp
  <2>2. CASE c = s
    <3>1. call'[c] = [call[c] EXCEPT !.written = n,
                        !.at = IF n = Len(call[c].input.files) THEN "generate" ELSE @]
      BY <1>1, <2>1, <2>2
    <3>2. call[c].at = "write"
      BY <1>5, <2>2 DEF WriteTemp
    <3>3. call'[c].at \in {"write", "generate"}
      BY <1>1, <3>1, <3>2 DEF CallFields
    <3> QED BY <1>3, <3>3
  <2>3. CASE c # s
    <3>1. call'[c] = [call[c] EXCEPT !.mixed = TRUE] \/ call'[c] = call[c]
      BY <1>1, <2>1, <2>3
    <3>2. call'[c].at = call[c].at /\ call'[c].hash = call[c].hash
      BY <1>1, <3>1 DEF CallFields
    <3> QED BY <1>2, <3>2
  <2> QED BY <2>2, <2>3
<1>6. ASSUME NEW s \in Seeds, GenerateTorrent(s) PROVE AddsWell(c)
  <2>1. PICK h : h = Metainfo(call[s].input, temp)
    OBVIOUS
  <2>2. PICK at \in {"failed", "parse"} : call' = [call EXCEPT ![s].at = at, ![s].hash = h]
    BY <1>6, <2>1 DEF GenerateTorrent
  <2>3. CASE c = s
    <3>1. call'[c].at = at /\ call'[c].hash = h
      BY <1>1, <2>2, <2>3 DEF CallFields
    <3>2. call[s].input \in Inputs /\ Directory(temp)
      BY <1>6 DEF SeedsOf, SeedOf, FilesOf, GenerateTorrent
    <3>3. h.pieceLength \in Presets
      BY <2>1, <3>2, PresetLemma
    <3> QED BY <3>1, <3>3 DEF AddsWell
  <2>4. CASE c # s
    BY <1>1, <1>2, <2>2, <2>4
  <2> QED BY <2>3, <2>4
<1>7. ASSUME NEW a \in Adds, AddCalled(a) PROVE AddsWell(c)
  <2>1. PICK input \in Known, known \in BOOLEAN :
          call' = [call EXCEPT ![a].at = "parse", ![a].known = known,
                               ![a].hash = Metainfo(input, Range(input.files))]
    BY <1>7 DEF AddCalled
  <2>2. PICK dir : dir = Range(input.files)
    OBVIOUS
  <2>3. PICK h : h = Metainfo(input, dir)
    OBVIOUS
  <2>4. call' = [call EXCEPT ![a].at = "parse", ![a].known = known, ![a].hash = h]
    BY <2>1, <2>2, <2>3
  <2>5. CASE c = a
    <3>1. call'[c].at = "parse" /\ call'[c].hash = h
      BY <1>1, <2>4, <2>5 DEF CallFields
    <3>2. input \in Inputs /\ Directory(dir)
      <4>1. input \in Inputs
        BY <2>1, ClientAssumption
      <4>2. PICK q : q = input.files /\ q \in Seq(Range(q)) /\ \A f \in Range(q) : f.bytes \in Seq(Nat)
        BY <4>1, ClientAssumption
      <4>3. IsFiniteSet(Range(q))
        BY <4>2, RangeFinite
      <4> QED BY <2>2, <4>1, <4>2, <4>3 DEF Directory
    <3>3. h.pieceLength \in Presets
      BY <2>3, <3>2, PresetLemma
    <3> QED BY <3>1, <3>3 DEF AddsWell
  <2>6. CASE c # a
    BY <1>1, <1>2, <2>4, <2>6
  <2> QED BY <2>5, <2>6
<1>8. ASSUME NEW d \in Sessions, AddCheck(d) PROVE AddsWell(c)
  <2>1. PICK found, at : /\ call' = [call EXCEPT ![d].result = found, ![d].at = at]
                         /\ at = "store" => found = NoSession
                         /\ at \in {"store", "populate", "done"}
                         /\ found = Lookup(torrents, call[d].hash)
    BY <1>8 DEF AddCheck
  <2>2. CASE c = d
    <3>1. call'[c].at = at /\ call'[c].hash = call[c].hash
      BY <1>1, <2>1, <2>2 DEF CallFields
    <3>2. at = "store" => call[c].hash \in DOMAIN chunks'
      BY <1>8, <2>1, <2>2 DEF AddCheck, Set
    <3>3. call[c].at = "parse"
      BY <1>8, <2>2 DEF AddCheck
    <3> QED BY <2>1, <3>1, <3>2, <3>3 DEF AddsWell
  <2>3. CASE c # d
    BY <1>1, <1>2, <2>1, <2>3
  <2> QED BY <2>2, <2>3
<1>9. ASSUME NEW d \in Sessions, AddInsert(d) PROVE AddsWell(c)
  <2>1. PICK at \in {"populate", "done"} : call' = [call EXCEPT ![d].result = d, ![d].at = at]
    BY <1>9 DEF AddInsert
  <2>2. CASE c = d
    <3>1. call'[c].at = at
      BY <1>1, <2>1, <2>2 DEF CallFields
    <3> QED BY <1>3, <3>1
  <2>3. CASE c # d
    BY <1>1, <1>2, <2>1, <2>3
  <2> QED BY <2>2, <2>3
<1>10. ASSUME NEW s \in Seeds, Populate(s) \/ Scans(s) PROVE AddsWell(c)
  <2>1. AtTheStore(s)
    BY <1>10, StoreSteps
  <2>2. CASE c = s
    BY <1>3, <2>1, <2>2 DEF AtTheStore, AtStore
  <2>3. CASE c # s
    BY <1>1, <1>2, <2>1, <2>3 DEF AtTheStore
  <2> QED BY <2>2, <2>3
<1>11. ASSUME NEW r \in Removes, RemoveCalled(r) \/ RemoveEnds(r) PROVE AddsWell(c)
  <2>1. call'[c] = call[c]
    BY <1>1, <1>11 DEF RemoveCalled, RemoveEnds
  <2> QED BY <1>2, <2>1
<1>12. CASE CreateServer \/ DestroyCalled \/ DestroyLoop \/ UNCHANGED vars
  BY <1>2, <1>12 DEF CreateServer, DestroyCalled, DestroyLoop, vars
<1> QED BY <1>4, <1>5, <1>6, <1>7, <1>8, <1>9, <1>10, <1>11, <1>12 DEF Next, Scans

\* Every step keeps what is said of the chunk directories.
LEMMA NextStored ==
  ASSUME IInv, SeedsOf, FilesOf, OneStore, Resulted, Stored, [Next]_vars PROVE Stored'
<1>1. DOMAIN chunks \subseteq DOMAIN chunks'
  BY NextChunks
<1>2. \A c \in Sessions : AddsWell(c)
  BY NextAdds
<1>3. /\ \A c \in Sessions : call'[c].at \in {"parse", "store"} => call'[c].hash.pieceLength \in Presets
      /\ \A c \in Sessions : call'[c].at = "store" => call'[c].hash \in DOMAIN chunks'
  BY <1>1, <1>2 DEF AddsWell, Stored
<1>4. Made \subseteq Made' /\ \A c \in Made : session'[c].hash = session[c].hash
  BY NextSessions DEF Kept
<1>5. ASSUME NEW c \in Made'
      PROVE  session'[c].hash \in DOMAIN chunks' /\ session'[c].hash.pieceLength \in Presets
  <2>1. CASE c \in Made
    BY <1>1, <1>4, <2>1 DEF Stored
  <2>2. CASE c \notin Made
    <3>1. PICK d \in Sessions : AddInsert(d)
      <4>1. CASE \E s \in Seeds : Scans(s)
        BY <2>2, <4>1, StoreSteps DEF AtTheStore, SameSessions, Made
      <4>2. CASE ~(\E d \in Sessions : AddInsert(d)) /\ ~(\E s \in Seeds : Scans(s))
        BY <2>2, <4>2, NextGoing
      <4> QED BY <4>1, <4>2
    <3>2. PICK known, beside : session' = Set(session, d, NewSession(call[d].hash, known, beside, destroyed))
      BY <3>1 DEF AddInsert
    <3>3. c = d /\ session'[c].hash = call[d].hash
      BY <2>2, <3>2 DEF Set, Made, NewSession
    <3>4. call[d].at = "store"
      BY <3>1 DEF AddInsert
    <3> QED BY <1>1, <3>3, <3>4 DEF Stored
  <2> QED BY <2>1, <2>2
<1> QED BY <1>1, <1>3, <1>5 DEF Stored

-----------------------------------------------------------------------------
(***************************************************************************)
(* Every seed that ends has filled its store, and its scan finds all of it *)
(***************************************************************************)

\* A piece is in its directory; so are those before one, or all.
Holding(h, i) == i \in DOMAIN chunks[h] /\ chunks[h][i] = h.pieces[i]
Upto(h, n) == \A i \in 1..Len(h.pieces) : i < n => Holding(h, i)
Full(h) == h.pieces \in Seq(Seq(Nat)) /\ \A i \in 1..Len(h.pieces) : Holding(h, i)

\* Each piece is marked, or lies ahead of a scan.
Covered(c) ==
  LET pieces == 1..Len(session[c].hash.pieces) IN
  session[c].verified \subseteq pieces /\ \A i \in pieces : i \in session[c].verified \/ Ahead(c, i)

\* A live session nobody disputes, of which every seed is plain, has in its store the
\* pieces before the one that is put next, and all once a seed has put them; a scan finds
\* each, and once one has begun each is covered.
AllPlain(c) == \A t \in Seeds : call[t].result = c => Plain(t)
FilledBy(t, c) ==
  LET h == session[c].hash IN
  /\ call[t].at = "populate" => Upto(h, call[t].next)
  /\ call[t].at \in {"rescan", "scan", "mark", "done"} => Full(h)
  /\ call[t].at \in {"scan", "mark"} => call[t].next <= Len(h.pieces)
  /\ call[t].at = "mark" => call[t].found
  /\ call[t].at \in {"scan", "mark", "done"} => Covered(c)
Filled(c) ==
  Undisputed(c) /\ session[c].torrent /\ session[c].known /\ AllPlain(c) =>
    \A t \in Seeds : call[t].result = c => FilledBy(t, c)
AllFilled == \A c \in Made : Filled(c)

\* All that is known of the stores.
FillInv == SeedsOf /\ FilesOf /\ OneStore /\ Resulted /\ Stored /\ AllFilled

\* The steps of a scan, on the session it is of.
LEMMA ScanSteps ==
  ASSUME IInv, Resulted, NEW s \in Seeds, NEW c \in Made, c = call[s].result,
         NEW i \in Nat \ {0}, i = call[s].next
  PROVE  /\ RescanFiles(s) =>
              /\ call[s].at = "rescan" /\ session'[c].verified = {} /\ call'[s].next = 1
              /\ call'[s].at = IF LastPiece(c) = 0 THEN "done" ELSE "scan"
         /\ ScanRead(s) =>
              /\ call[s].at = "scan" /\ session'[c].verified = session[c].verified
              /\ call'[s].next = i /\ call'[s].at = "mark" /\ call'[s].found = Sound(c, i)
         /\ ScanMark(s) =>
              /\ call[s].at = "mark" /\ call'[s].next = i + 1
              /\ call'[s].at = IF i < LastPiece(c) THEN "scan" ELSE "done"
              /\ session'[c].verified =
                   IF call[s].found THEN session[c].verified \cup {i} ELSE session[c].verified
<1>1. /\ DOMAIN call = Calls /\ DOMAIN call[s] = CallFields /\ s \in Calls
      /\ DOMAIN session[c] = SessionFields
  BY CallSorts DEF IInv, Shape, CallShape, SessionShape
<1>2. PICK d : d = call[s].result
  OBVIOUS
<1>3. d = c
  BY <1>2
<1>4. ASSUME NEW v, session' = [session EXCEPT ![c].verified = v] PROVE session'[c].verified = v
  BY <1>1, <1>4 DEF Made, SessionFields
<1>5. ASSUME RescanFiles(s)
      PROVE  /\ call[s].at = "rescan" /\ session'[c].verified = {} /\ call'[s].next = 1
             /\ call'[s].at = IF LastPiece(c) = 0 THEN "done" ELSE "scan"
  <2>1. /\ session' = [session EXCEPT ![c].verified = {}] /\ call[s].at = "rescan"
        /\ call' = [call EXCEPT ![s].at = IF LastPiece(c) = 0 THEN "done" ELSE "scan", ![s].next = 1]
    BY <1>2, <1>3, <1>5 DEF RescanFiles
  <2> QED BY <1>1, <1>4, <2>1 DEF CallFields
<1>6. ASSUME ScanRead(s)
      PROVE  /\ call[s].at = "scan" /\ session'[c].verified = session[c].verified
             /\ call'[s].next = i /\ call'[s].at = "mark" /\ call'[s].found = Sound(c, i)
  <2>1. PICK f : f = Sound(c, i)
    OBVIOUS
  <2>2. /\ session' = session /\ call[s].at = "scan"
        /\ call' = [call EXCEPT ![s].at = "mark", ![s].found = f]
    BY <1>2, <1>3, <1>6, <2>1 DEF ScanRead
  <2> QED BY <1>1, <2>1, <2>2 DEF CallFields
<1>7. ASSUME ScanMark(s)
      PROVE  /\ call[s].at = "mark" /\ call'[s].next = i + 1
             /\ call'[s].at = IF i < LastPiece(c) THEN "scan" ELSE "done"
             /\ session'[c].verified =
                  IF call[s].found THEN session[c].verified \cup {i} ELSE session[c].verified
  <2>1. PICK v : v = session[c].verified \cup {i}
    OBVIOUS
  <2>2. /\ call[s].at = "mark"
        /\ session' = IF call[s].found THEN [session EXCEPT ![c].verified = v] ELSE session
        /\ call' = [call EXCEPT ![s].at = IF i < LastPiece(c) THEN "scan" ELSE "done",
                               ![s].next = i + 1]
    BY <1>2, <1>3, <1>7, <2>1 DEF ScanMark
  <2> QED BY <1>1, <1>4, <2>1, <2>2 DEF CallFields
<1> QED BY <1>5, <1>6, <1>7

\* A session that is dead stays so, and its bit field changes by scans of it only.
LEMMA NextLives ==
  ASSUME IInv, OneStore, [Next]_vars, NEW c \in Made
  PROVE  /\ session'[c].torrent => session[c].torrent
         /\ \/ session'[c].verified = session[c].verified
            \/ \E s \in Seeds : Scans(s) /\ call[s].result = c
<1>1. ASSUME NEW d \in Sessions, AddInsert(d) PROVE session'[c] = session[c]
  <2>1. PICK new : session' = Set(session, d, new)
    BY <1>1 DEF AddInsert
  <2>2. d \notin Made
    BY <1>1, IdleLemma DEF AddInsert, Early
  <2> QED BY <2>1, <2>2 DEF Made, Set
<1>2. ASSUME NEW s \in Seeds, Scans(s)
      PROVE  /\ session'[c].torrent = session[c].torrent
             /\ call[s].result # c => session'[c].verified = session[c].verified
  BY <1>2, StoreSteps DEF AtTheStore, SameSessions
<1>3. CASE ~(\E d \in Sessions : AddInsert(d)) /\ ~(\E s \in Seeds : Scans(s))
  <2>1. Going(c)
    BY <1>3, NextGoing
  <2> QED BY <2>1 DEF Going
<1> QED BY <1>1, <1>2, <1>3

\* The seeds of a session that are plain after a step were so before it.
LEMMA PlainLemma ==
  ASSUME IInv, Resulted, [Next]_vars, NEW c \in Made, AllPlain(c)'
  PROVE  AllPlain(c)
<1> SUFFICES ASSUME NEW t \in Seeds, call[t].result = c PROVE Plain(t)
  BY DEF AllPlain
<1>1. GoesOn(t) /\ call[t].at \notin Early
  <2>1. c # NoSession
    BY CallSorts DEF IInv, Shape, SessionShape
  <2> QED BY <2>1, NextCalls DEF Resulted, ResultOf
<1>2. CASE Stays(t)
  BY <1>2 DEF Stays, AllPlain, Plain
<1>3. CASE Works(t)
  BY <1>3 DEF Works, AtTheStore, AllPlain, Plain
<1> QED BY <1>1, <1>2, <1>3 DEF GoesOn, Begins, Arrives

\* Who puts a chunk into the store of an open session that is all plain puts the piece,
\* and who puts one into another store of the hash finds it closed.
LEMMA FillsLemma ==
  ASSUME OneStore, NEW c \in Made, Undisputed(c), session[c].torrent, session[c].known, AllPlain(c),
         NEW s \in Seeds, NEW d, NEW k, NEW j, NEW puts, Fills(s, d, k, j, puts),
         NEW h, h = session[c].hash
  PROVE  /\ \A i : Holding(h, i) => Holding(h, i)'
         /\ d = c =>
              /\ puts = h.pieces
              /\ \/ call'[s].at = "rescan" /\ j > Len(puts)
                 \/ call'[s].at = "populate" /\ Holding(h, j)'
<1>1. PICK p : p = h.pieces
  OBVIOUS
<1>2. /\ d \in Made /\ d = call[s].result /\ k \in DOMAIN chunks /\ k = session[d].hash
      /\ j \in Nat \ {0} /\ puts \in Seq(Seq(Nat))
      /\ \/ j > Len(puts) /\ chunks' = chunks /\ call'[s].at = "rescan"
         \/ /\ j <= Len(puts) /\ chunks' = chunks /\ call'[s].at = "failed"
            /\ ~(Plain(s) /\ session[d].known /\ ~session[d].closed)
         \/ /\ j <= Len(puts) /\ ~session[d].closed /\ call'[s].at = "populate"
            /\ chunks' = [chunks EXCEPT ![k] = Set(chunks[k], j, puts[j])]
      /\ Plain(s) /\ session[d].known => puts = k.pieces
  BY DEF Fills
<1>3. d = c => k = h /\ puts = p /\ Plain(s) /\ session[d].known /\ ~session[d].closed
  <2>1. ~session[c].closed
    BY DEF OneStore, Closing
  <2> QED BY <1>1, <1>2, <2>1 DEF AllPlain
<1>4. d # c /\ k = h => session[d].closed
  BY <1>2 DEF OneStore, OnlyStore
<1>5. CASE chunks' = chunks
  <2>1. \A i : Holding(h, i) => Holding(h, i)'
    BY <1>5 DEF Holding
  <2>2. CASE d = c
    <3>1. \/ call'[s].at = "rescan" /\ j > Len(puts)
          \/ chunks' = [chunks EXCEPT ![k] = Set(chunks[k], j, puts[j])] /\ call'[s].at = "populate"
      BY <1>2, <1>3, <2>2
    <3>2. ASSUME chunks' = [chunks EXCEPT ![k] = Set(chunks[k], j, puts[j])] PROVE Holding(h, j)'
      <4>1. chunks'[h] = Set(chunks[k], j, puts[j])
        BY <1>2, <1>3, <2>2, <3>2
      <4> QED BY <1>1, <1>3, <2>2, <4>1 DEF Holding, Set
    <3> QED BY <1>1, <1>3, <1>5, <2>1, <2>2, <3>1, <3>2
  <2> QED BY <2>1, <2>2
<1>6. CASE /\ ~session[d].closed /\ call'[s].at = "populate"
           /\ chunks' = [chunks EXCEPT ![k] = Set(chunks[k], j, puts[j])]
  <2>1. CASE d = c
    <3>1. chunks'[h] = Set(chunks[h], j, p[j])
      BY <1>2, <1>3, <1>6, <2>1
    <3>2. /\ DOMAIN chunks'[h] = DOMAIN chunks[h] \cup {j} /\ chunks'[h][j] = p[j]
          /\ \A i \in DOMAIN chunks[h] : i # j => chunks'[h][i] = chunks[h][i]
      BY <3>1 DEF Set
    <3>3. Holding(h, j)'
      BY <1>1, <3>2 DEF Holding
    <3>4. \A i : Holding(h, i) => Holding(h, i)'
      BY <1>1, <3>2 DEF Holding
    <3> QED BY <1>1, <1>3, <1>6, <2>1, <3>3, <3>4
  <2>2. CASE d # c
    <3>1. chunks'[h] = chunks[h]
      BY <1>4, <1>6, <2>2
    <3> QED BY <2>2, <3>1 DEF Holding
  <2> QED BY <2>1, <2>2
<1> QED BY <1>2, <1>5, <1>6

\* The pieces of a live session that is all plain stay in its directory, and each step
\* that fills it puts the next one, or finds that all are put.
LEMMA HoldingLemma ==
  ASSUME IInv, FillInv, [Next]_vars, NEW c \in Made, Undisputed(c), session[c].torrent,
         session[c].known, AllPlain(c), NEW h, h = session[c].hash
  PROVE  /\ \A i : Holding(h, i) => Holding(h, i)'
         /\ \A s \in Seeds : \A i : Populate(s) /\ call[s].result = c /\ i = call[s].next =>
              /\ h.pieces \in Seq(Seq(Nat)) /\ call'[s].next = i + 1
              /\ \/ call'[s].at = "rescan" /\ i > Len(h.pieces)
                 \/ call'[s].at = "populate" /\ Holding(h, i)'
<1>1. h \in DOMAIN chunks
  BY DEF FillInv, Stored
<1>2. ASSUME NEW s \in Seeds, Populate(s)
      PROVE  /\ \A i : Holding(h, i) => Holding(h, i)'
             /\ \A i : call[s].result = c /\ i = call[s].next =>
                  /\ h.pieces \in Seq(Seq(Nat)) /\ call'[s].next = i + 1
                  /\ \/ call'[s].at = "rescan" /\ i > Len(h.pieces)
                     \/ call'[s].at = "populate" /\ Holding(h, i)'
  <2>1. PICK d, k, j, puts : Fills(s, d, k, j, puts)
    BY <1>2, PopulateStep DEF FillInv
  <2>2. d = call[s].result /\ j = call[s].next /\ call'[s].next = j + 1 /\ puts \in Seq(Seq(Nat))
    BY <2>1 DEF Fills
  <2>3. OneStore
    BY DEF FillInv
  <2>4. \A i : Holding(h, i) => Holding(h, i)'
    BY <2>1, <2>3, FillsLemma
  <2>5. d = c =>
          /\ puts = h.pieces
          /\ \/ call'[s].at = "rescan" /\ j > Len(puts)
             \/ call'[s].at = "populate" /\ Holding(h, j)'
    BY <2>1, <2>3, FillsLemma
  <2>6. ASSUME d = c
        PROVE  /\ h.pieces \in Seq(Seq(Nat)) /\ call'[s].next = j + 1
               /\ \/ call'[s].at = "rescan" /\ j > Len(h.pieces)
                  \/ call'[s].at = "populate" /\ Holding(h, j)'
    <3>1. puts = h.pieces
      BY <2>5, <2>6
    <3> QED BY <2>2, <2>5, <2>6, <3>1
  <2> QED BY <2>2, <2>4, <2>6
<1>3. ASSUME chunks'[h] = chunks[h] PROVE \A i : Holding(h, i) => Holding(h, i)'
  BY <1>3 DEF Holding
<1>4. ASSUME NEW d \in Sessions, AddCheck(d) PROVE chunks'[h] = chunks[h]
  <2>1. chunks' = chunks \/ (call[d].hash \notin DOMAIN chunks /\ chunks' = Set(chunks, call[d].hash, <<>>))
    BY <1>4 DEF AddCheck
  <2> QED BY <1>1, <2>1 DEF Set
<1>5. ASSUME NEW r \in Removes, RemoveEnds(r) PROVE chunks'[h] = chunks[h]
  <2>1. chunks' = chunks \/ chunks' = [chunks EXCEPT ![call[r].hash] = <<>>]
    BY <1>5 DEF RemoveEnds
  <2>2. ~Removing(h)
    BY DEF IInv, Agree, LiveInMaps
  <2>3. call[r].hash # h
    BY <1>5, <2>2 DEF RemoveEnds, Removing
  <2> QED BY ONLY <1>1, <2>1, <2>3
<1>6. \/ chunks' = chunks
      \/ \E s \in Seeds : Populate(s)
      \/ \E d \in Sessions : AddCheck(d)
      \/ \E r \in Removes : RemoveEnds(r)
  BY DEF Next, vars, SeedCalled, WriteTemp, GenerateTorrent, RescanFiles, ScanRead, ScanMark, AddCalled,
         AddInsert, RemoveCalled, CreateServer, DestroyCalled, DestroyLoop
<1> QED BY <1>2, <1>3, <1>4, <1>5, <1>6

\* What is covered stays so, though a scan empties the bit field: its pieces then lie
\* ahead of it, and it marks each it passes.
LEMMA CoveredLemma ==
  ASSUME IInv, FillInv, [Next]_vars, NEW c \in Made, session[c].known,
         session'[c].hash = session[c].hash,
         \A s \in Seeds : call[s].result = c => FilledBy(s, c),
         Covered(c) \/ \E s \in Seeds : RescanFiles(s) /\ call[s].result = c
  PROVE  Covered(c)'
<1>1. PICK n : n = Len(session[c].hash.pieces)
  OBVIOUS
<1>2. LastPiece(c) = n
  BY <1>1 DEF LastPiece
<1>3. ASSUME session'[c].verified \subseteq 1..n,
             \A i \in 1..n : i \in session'[c].verified \/ Ahead(c, i)'
      PROVE  Covered(c)'
  BY <1>1, <1>3 DEF Covered
<1>4. \A s \in Seeds : call[s].next \in Nat \ {0}
  BY DEF FillInv, Resulted, ResultOf
<1>5. ASSUME NEW s \in Seeds, RescanFiles(s), call[s].result = c PROVE Covered(c)'
  <2>1. /\ call[s].at = "rescan" /\ session'[c].verified = {} /\ call'[s].next = 1
        /\ call'[s].at = IF n = 0 THEN "done" ELSE "scan"
    BY <1>2, <1>4, <1>5, ScanSteps DEF FillInv
  <2>2. n \in Nat
    BY <1>1, <1>5, <2>1 DEF FilledBy, Full
  <2>3. call'[s].result = c
    BY <1>5, StoreSteps DEF AtTheStore, Scans
  <2>4. ASSUME NEW i \in 1..n PROVE Ahead(c, i)'
    <3>1. n # 0 /\ 1 <= i
      BY <2>2
    <3> QED BY <2>1, <2>3, <3>1 DEF Ahead
  <2> QED BY <1>3, <2>1, <2>4
<1>6. ASSUME NEW s \in Seeds, ScanMark(s), call[s].result = c PROVE Covered(c)'
  <2>1. PICK i \in Nat \ {0} : i = call[s].next
    BY <1>4
  <2>2. /\ call[s].at = "mark" /\ call'[s].next = i + 1
        /\ call'[s].at = IF i < n THEN "scan" ELSE "done"
        /\ session'[c].verified = IF call[s].found THEN session[c].verified \cup {i} ELSE session[c].verified
    BY <1>2, <1>6, <2>1, ScanSteps DEF FillInv
  <2>3. Covered(c) /\ call[s].found /\ i <= n /\ n \in Nat
    BY <1>1, <1>6, <2>1, <2>2 DEF FilledBy, Full
  <2>4. session'[c].verified = session[c].verified \cup {i}
    BY <2>2, <2>3
  <2>5. session[c].verified \subseteq 1..n /\ \A j \in 1..n : j \in session[c].verified \/ Ahead(c, j)
    BY <1>1, <2>3 DEF Covered
  <2>6. AtTheStore(s)
    BY <1>6, StoreSteps DEF Scans
  <2>7. ASSUME NEW j \in 1..n, j # i, Ahead(c, j) PROVE Ahead(c, j)'
    <3>1. PICK u \in Seeds : call[u].at \in {"scan", "mark"} /\ call[u].result = c /\ call[u].next <= j
      BY <2>7 DEF Ahead
    <3>2. CASE u = s
      <4>1. i < j /\ i < n /\ i + 1 <= j
        BY <2>1, <2>3, <2>7, <3>1, <3>2
      <4>2. call'[s].at = "scan" /\ call'[s].next <= j /\ call'[s].result = c
        BY <1>6, <2>2, <2>6, <4>1 DEF AtTheStore
      <4> QED BY <4>2 DEF Ahead
    <3>3. CASE u # s
      <4>1. call'[u] = call[u]
        BY <2>6, <3>3, CallSorts DEF AtTheStore
      <4> QED BY <3>1, <4>1 DEF Ahead
    <3> QED BY <3>2, <3>3
  <2>8. \A j \in 1..n : j \in session'[c].verified \/ Ahead(c, j)'
    BY <2>4, <2>5, <2>7
  <2>9. session'[c].verified \subseteq 1..n
    BY <2>1, <2>3, <2>4, <2>5
  <2> QED BY <1>3, <2>8, <2>9
<1>7. ASSUME \A s \in Seeds : call[s].result = c => ~RescanFiles(s) /\ ~ScanMark(s) PROVE Covered(c)'
  <2>1. session[c].verified \subseteq 1..n /\ \A j \in 1..n : j \in session[c].verified \/ Ahead(c, j)
    BY <1>1, <1>7 DEF Covered
  <2>2. session'[c].verified = session[c].verified
    <3>1. \/ session'[c].verified = session[c].verified
          \/ \E s \in Seeds : Scans(s) /\ call[s].result = c
      BY NextLives DEF FillInv
    <3>2. ASSUME NEW s \in Seeds, ScanRead(s), call[s].result = c
          PROVE  session'[c].verified = session[c].verified
      BY <1>4, <3>2, ScanSteps DEF FillInv
    <3> QED BY <1>7, <3>1, <3>2 DEF Scans
  <2>3. ASSUME NEW j \in 1..n, Ahead(c, j) PROVE Ahead(c, j)'
    <3>1. PICK u \in Seeds : call[u].at \in {"scan", "mark"} /\ call[u].result = c /\ call[u].next <= j
      BY <2>3 DEF Ahead
    <3>2. GoesOn(u)
      BY NextCalls DEF FillInv
    <3>3. CASE Stays(u)
      BY <3>1, <3>3 DEF Stays, Ahead
    <3>4. CASE Works(u)
      <4>1. ScanRead(u)
        BY <1>7, <3>1, <3>4 DEF Works, Scans, Populate
      <4>2. call'[u].next = call[u].next /\ call'[u].at = "mark"
        BY <1>4, <3>1, <4>1, ScanSteps DEF FillInv
      <4>3. call'[u].result = c
        BY <3>1, <3>4 DEF Works, AtTheStore
      <4> QED BY <3>1, <4>2, <4>3 DEF Ahead
    <3> QED BY <3>1, <3>2, <3>3, <3>4 DEF GoesOn, Begins, Arrives, Early
  <2> QED BY <1>3, <2>1, <2>2, <2>3
<1> QED BY <1>5, <1>6, <1>7

\* Every step keeps what is filled.
LEMMA NextFilled == ASSUME IInv, FillInv, [Next]_vars PROVE AllFilled'
<1> SUFFICES ASSUME NEW c \in Made', Undisputed(c)', session'[c].torrent, session'[c].known, AllPlain(c)',
                    NEW t \in Seeds, call'[t].result = c
             PROVE  FilledBy(t, c)'
  BY DEF AllFilled, Filled
<1>0. GoesOn(t)
  BY NextCalls DEF FillInv
<1>1. CASE call'[t].at \notin AtStore
  BY <1>1 DEF FilledBy, AtStore
<1>2. CASE Arrives(t)
  <2>1. call'[t].at = "populate" /\ call'[t].next = 1
    BY <1>2 DEF Arrives, FillInv, Resulted, ResultOf
  <2>2. \A i \in 1..Len(session'[c].hash.pieces) : ~(i < 1)
    OBVIOUS
  <2> QED BY <2>1, <2>2 DEF FilledBy, Upto
<1>3. CASE (Stays(t) \/ Works(t)) /\ call'[t].at \in AtStore
  <2>1. call[t].result = c /\ call[t].at \in AtStore /\ c \in Made
    BY <1>3 DEF Stays, Works, AtTheStore, FillInv, Resulted, ResultOf
  <2>2. PICK h : h = session[c].hash
    OBVIOUS
  <2>3. Made \subseteq Made' /\ \A d \in Made : Kept(d)
    BY NextSessions DEF FillInv
  <2>4. session'[c].hash = h /\ session[c].known /\ Undisputed(c)
    BY <2>1, <2>2, <2>3, UndisputedLemma DEF Kept
  <2>5. session[c].torrent /\ AllPlain(c)
    BY <2>1, NextLives, PlainLemma DEF FillInv
  <2>6. \A s \in Seeds : call[s].result = c => FilledBy(s, c)
    BY <2>1, <2>4, <2>5 DEF FillInv, AllFilled, Filled
  <2>7. \A i : Holding(h, i) => Holding(h, i)'
    BY <2>1, <2>2, <2>4, <2>5, HoldingLemma
  <2>8. PICK i \in Nat \ {0} : i = call[t].next
    BY DEF FillInv, Resulted, ResultOf
  <2>9. Populate(t) =>
          /\ h.pieces \in Seq(Seq(Nat)) /\ call'[t].next = i + 1
          /\ \/ call'[t].at = "rescan" /\ i > Len(h.pieces)
             \/ call'[t].at = "populate" /\ Holding(h, i)'
    BY <2>1, <2>2, <2>4, <2>5, <2>8, HoldingLemma
  <2>10. /\ RescanFiles(t) =>
              /\ call[t].at = "rescan" /\ call'[t].next = 1
              /\ call'[t].at = IF LastPiece(c) = 0 THEN "done" ELSE "scan"
         /\ ScanRead(t) =>
              call[t].at = "scan" /\ call'[t].next = i /\ call'[t].at = "mark" /\ call'[t].found = Sound(c, i)
         /\ ScanMark(t) =>
              /\ call[t].at = "mark" /\ call'[t].next = i + 1
              /\ call'[t].at = IF i < LastPiece(c) THEN "scan" ELSE "done"
    BY <2>1, <2>8, ScanSteps DEF FillInv
  <2>11. PICK n : n = Len(h.pieces)
    OBVIOUS
  <2>12. LastPiece(c) = n
    BY <2>2, <2>4, <2>11 DEF LastPiece
  <2>13. Populate(t) => call[t].at = "populate"
    BY DEF Populate
  <2>14. /\ call[t].at = "populate" => Upto(h, i)
         /\ call[t].at \in {"rescan", "scan", "mark", "done"} => Full(h)
         /\ call[t].at \in {"scan", "mark"} => i <= n
         /\ call[t].at = "mark" => call[t].found
         /\ call[t].at \in {"scan", "mark", "done"} => Covered(c)
    BY <2>1, <2>2, <2>6, <2>8, <2>11 DEF FilledBy
  <2>15. Full(h) => n \in Nat
    BY <2>11 DEF Full
  <2>16. Full(h) => Full(h)'
    BY <2>7 DEF Full
  <2>17. Stays(t) => /\ call'[t].at = call[t].at /\ call'[t].next = i
                     /\ call'[t].found = call[t].found
    BY <2>8 DEF Stays
  <2>18. Stays(t) \/ Populate(t) \/ RescanFiles(t) \/ ScanRead(t) \/ ScanMark(t)
    BY <1>3 DEF Works, Scans
  <2>19. ASSUME call'[t].at = "populate" PROVE Upto(h, call[t].next)'
    <3>1. CASE Stays(t)
      BY <2>7, <2>14, <2>17, <2>19, <3>1 DEF Upto
    <3>2. CASE Populate(t)
      <4>1. Upto(h, i) /\ call'[t].next = i + 1 /\ Holding(h, i)' /\ h.pieces \in Seq(Seq(Nat))
        BY <2>9, <2>13, <2>14, <2>19, <3>2
      <4>2. \A j \in 1..Len(h.pieces) : j < i + 1 => j < i \/ j = i
        BY <4>1
      <4> QED BY <2>7, <4>1, <4>2 DEF Upto
    <3> QED BY <2>10, <2>18, <2>19, <3>1, <3>2
  <2>20. ASSUME call'[t].at \in {"rescan", "scan", "mark", "done"} PROVE Full(h)'
    <3>1. CASE Populate(t)
      <4>1. Upto(h, i) /\ i > Len(h.pieces) /\ h.pieces \in Seq(Seq(Nat))
        BY <2>9, <2>13, <2>14, <2>20, <3>1
      <4>2. \A j \in 1..Len(h.pieces) : j < i
        BY <4>1
      <4>3. Full(h)
        BY <4>1, <4>2 DEF Upto, Full
      <4> QED BY <2>16, <4>3
    <3>2. CASE ~Populate(t)
      BY <2>10, <2>14, <2>16, <2>17, <2>18, <2>20, <3>2
    <3> QED BY <3>1, <3>2
  <2>21. ASSUME call'[t].at \in {"scan", "mark"} PROVE call'[t].next <= n
    <3>1. ~Populate(t)
      BY <2>9, <2>21
    <3>2. CASE RescanFiles(t)
      BY <2>10, <2>12, <2>14, <2>15, <2>21, <3>2
    <3>3. CASE ScanMark(t)
      BY <2>10, <2>12, <2>14, <2>15, <2>21, <3>3
    <3> QED BY <2>10, <2>14, <2>17, <2>18, <2>21, <3>1, <3>2, <3>3
  <2>22. ASSUME call'[t].at = "mark" PROVE call'[t].found
    <3>1. CASE ScanRead(t)
      <4>1. Full(h) /\ i <= n /\ ~session[c].closed
        BY <2>1, <2>5, <2>10, <2>14, <3>1 DEF FillInv, OneStore, Closing
      <4>2. Holding(h, i)
        BY <2>11, <2>15, <4>1 DEF Full
      <4>3. Sound(c, i)
        BY <2>2, <4>1, <4>2 DEF Sound, Holding
      <4> QED BY <2>10, <3>1, <4>3
    <3> QED BY <2>9, <2>10, <2>14, <2>17, <2>18, <2>22, <3>1
  <2>23. ASSUME call'[t].at \in {"scan", "mark", "done"} PROVE Covered(c)'
    <3>1. Covered(c) \/ RescanFiles(t)
      BY <2>9, <2>10, <2>14, <2>17, <2>18, <2>23
    <3>2. session'[c].hash = session[c].hash
      BY <2>2, <2>4
    <3> QED BY <2>1, <2>4, <2>6, <3>1, <3>2, CoveredLemma
  <2>24. call'[t].next <= n => call'[t].next <= Len(h.pieces)
    BY <2>11
  <2>25. h = session'[c].hash
    BY <2>4
  <2>26. /\ call'[t].at = "populate" => Upto(session[c].hash, call[t].next)'
         /\ call'[t].at \in {"rescan", "scan", "mark", "done"} => Full(session[c].hash)'
    BY <2>19, <2>20, <2>25 DEF Upto, Full, Holding
  <2> QED BY <2>21, <2>22, <2>23, <2>24, <2>25, <2>26 DEF FilledBy
<1> QED BY <1>0, <1>1, <1>2, <1>3 DEF GoesOn, Begins, AtStore, Early

\* At the start there is nothing in the stores.
LEMMA InitFill == Init => FillInv
<1> SUFFICES ASSUME Init PROVE FillInv
  OBVIOUS
<1>1. \A c \in Sessions : call[c] = NewCall
  BY CallSorts DEF Init
<1>2. /\ NewCall.at = "idle" /\ NewCall.result = NoSession /\ NewCall.written = 0
      /\ NewCall.next = 1
  BY DEF NewCall
<1>3. Made = {} /\ DOMAIN chunks = {} /\ temp = {}
  BY DEF Init, Made
<1>4. SeedsOf /\ Resulted
  BY <1>1, <1>2, CallSorts DEF SeedsOf, SeedOf, Resulted, ResultOf, AtStore
<1>5. FilesOf
  <2>1. IsFiniteSet({})
    BY FS_EmptySet
  <2> QED BY <1>1, <1>2, <1>3, <2>1, CallSorts DEF FilesOf, Directory, StillThere
<1>6. OneStore /\ AllFilled
  BY <1>3 DEF OneStore, AllFilled
<1>7. Stored
  BY <1>1, <1>2, <1>3 DEF Stored
<1> QED BY <1>4, <1>5, <1>6, <1>7 DEF FillInv

\* Every step keeps all of it.
LEMMA NextFill == ASSUME IInv, FillInv, [Next]_vars PROVE FillInv'
<1>1. SeedsOf' /\ FilesOf' /\ OneStore' /\ Resulted' /\ Stored'
  BY NextOf, NextFiles, NextStore, NextResults, NextStored DEF FillInv
<1>2. AllFilled'
  BY NextFilled
<1> QED BY <1>1, <1>2 DEF FillInv
-----------------------------------------------------------------------------
(***************************************************************************)
(* The theorems                                                            *)
(***************************************************************************)

\* The invariant holds of every behaviour of the client, however its calls overlap.
THEOREM ClientInvariant == Spec => []IInv
<1>1. Init => IInv
  BY InitIInv
<1>2. IInv /\ [Next]_vars => IInv'
  BY NextIInv
<1> QED BY <1>1, <1>2, PTL DEF Spec

\* Between the calls the two maps and the list of torrents hold exactly the live
\* sessions, each once (add and remove write them in different steps).
THEOREM MapsAgreeHolds == Spec => []MapsAgree
<1>1. IInv => MapsAgree
  <2> SUFFICES ASSUME IInv, Quiet, ~destroyed, NEW c \in Made, Undisputed(c)
               PROVE  /\ session[c].torrent <=> Lookup(torrents, session[c].hash) = c
                      /\ session[c].torrent <=> Lookup(swarms, session[c].hash) = c
                      /\ session[c].torrent <=> session[c].swarm
                      /\ Cardinality({i \in 1..Len(torrentList) : torrentList[i] = c})
                           = (IF session[c].torrent THEN 1 ELSE 0)
    BY DEF MapsAgree
  <2>1. LiveInMaps(c) /\ MapsAlive(c)
    BY DEF IInv, Agree
  <2>2. ~Removing(session[c].hash) /\ ~Holds(c)
    BY CallSorts DEF Quiet, Removing, Holds
  <2>3. c # NoSession
    BY CallSorts DEF IInv, Shape, SessionShape
  <2>4. /\ Has(torrents, c) <=> Lookup(torrents, session[c].hash) = c
        /\ Has(swarms, c) <=> Lookup(swarms, session[c].hash) = c
    BY <2>3 DEF Has, Lookup
  <2>5. /\ session[c].torrent <=> Has(torrents, c)
        /\ session[c].torrent <=> Has(swarms, c)
        /\ session[c].torrent <=> session[c].swarm
        /\ session[c].torrent <=> c \in Range(torrentList)
    BY <2>1, <2>2 DEF LiveInMaps, MapsAlive
  <2>6. torrentList \in Seq(Made) /\ IsInjective(torrentList)
    BY DEF IInv, Shape, MapShape
  <2>7. Cardinality({i \in 1..Len(torrentList) : torrentList[i] = c})
          = IF c \in Range(torrentList) THEN 1 ELSE 0
    BY <2>6, OnceLemma
  <2> QED BY <2>4, <2>5, <2>7
<1> QED BY <1>1, ClientInvariant, PTL

\* Between the calls the registry of streamed files holds no session that is gone, and
\* each live one that had its metadata (add, remove and createServer register them).
THEOREM RegistryAgreesHolds == Spec => []RegistryAgrees
<1>1. IInv => RegistryAgrees
  <2> SUFFICES ASSUME IInv, Quiet, ~destroyed, server
               PROVE  /\ \A h \in DOMAIN registry :
                           Undisputed(registry[h]) => session[registry[h]].torrent
                      /\ \A c \in Made : session[c].torrent /\ Undisputed(c) /\ call[c].known =>
                           Lookup(registry, session[c].hash) = c
    BY DEF RegistryAgrees
  <2>1. \A h : ~Removing(h)
    BY CallSorts DEF Quiet, Removing
  <2>2. \A c \in Made : Undisputed(c) => MapsAlive(c)
    BY DEF IInv, Agree
  <2>3. ASSUME NEW h \in DOMAIN registry, Undisputed(registry[h])
        PROVE  session[registry[h]].torrent
    <3>1. registry[h] \in Made /\ Has(registry, registry[h])
      BY DEF IInv, Shape, MapShape, Leads, Has
    <3> QED BY <2>1, <2>2, <2>3, <3>1 DEF MapsAlive
  <2>4. ASSUME NEW c \in Made, session[c].torrent, Undisputed(c), call[c].known
        PROVE  Lookup(registry, session[c].hash) = c
    <3>1. session[c].known
      BY <2>4 DEF IInv, Shape, CallShape
    <3>2. Has(registry, c)
      BY <2>2, <2>4, <3>1 DEF MapsAlive
    <3> QED BY <3>2 DEF Has, Lookup
  <2> QED BY <2>3, <2>4
<1> QED BY <1>1, ClientInvariant, PTL

\* Once destroy has ended nothing lives that was inserted before it was called, though
\* its loop and the removes under way delete from the same map.
THEOREM DestroyLeavesNothingHolds == Spec => []DestroyLeavesNothing
<1>1. IInv => DestroyLeavesNothing
  <2> SUFFICES ASSUME IInv, destroying.at = "done", NEW c \in Made, Undisputed(c)
               PROVE  session[c].late \/ (~session[c].torrent /\ ~session[c].swarm)
    BY DEF DestroyLeavesNothing
  <2>1. Gone(c) /\ destroyed
    BY DEF IInv, Agree, Shape, DestroyShape
  <2> QED BY <2>1 DEF Gone
<1> QED BY <1>1, ClientInvariant, PTL
\* A seed of a file or of a directory is of that and of nothing else, unless another
\* seed wrote a file of its name, though all write into the same directory and leave
\* their files there (_prepareSeedInput).
THEOREM SeedsTheInputHolds == Spec => []SeedsTheInput
<1>1. Init => SeedsOf
  BY CallSorts DEF Init, SeedsOf, SeedOf, NewCall
<1>2. IInv /\ SeedsOf /\ [Next]_vars => SeedsOf'
  BY NextOf
<1>3. SeedsOf => SeedsTheInput
  BY DEF SeedsOf, SeedOf, SeedsTheInput
<1> QED BY <1>1, <1>2, <1>3, ClientInvariant, PTL DEF Spec

\* A seed that has ended has every piece marked, or ahead of the scan of a later one,
\* unless a seed was disturbed, padded or left out files: what fills the store cuts the
\* files as the generator did, no other call touches the store of a live session nobody
\* disputes, and who empties its bit field marks the pieces again
\* (_populateChunkStoreFromOPFSEntry, rescanFiles).
THEOREM SeedsAreCompleteHolds == Spec => []SeedsAreComplete
<1>1. Init => FillInv
  BY InitFill
<1>2. IInv /\ FillInv /\ [Next]_vars => FillInv'
  BY NextFill
<1>3. IInv /\ FillInv => SeedsAreComplete
  <2> SUFFICES ASSUME IInv, FillInv, NEW s \in Seeds, NEW c, c = call[s].result,
                      call[s].at = "done", \A t \in Seeds : call[t].result = c => Plain(t),
                      session[c].torrent, Undisputed(c), call[c].known
               PROVE  LET pieces == 1..Len(call[s].hash.pieces) IN
                      /\ session[c].verified \subseteq pieces
                      /\ \A i \in pieces : i \in session[c].verified \/ Ahead(c, i)
    BY DEF SeedsAreComplete
  <2>1. c \in Made /\ session[c].hash = call[s].hash
    BY DEF FillInv, Resulted, ResultOf, AtStore
  <2>2. session[c].known
    BY <2>1 DEF IInv, Shape, CallShape
  <2>3. Filled(c) /\ AllPlain(c)
    BY <2>1 DEF FillInv, AllFilled, AllPlain
  <2>4. Covered(c)
    BY <2>2, <2>3 DEF Filled, FilledBy
  <2> QED BY <2>1, <2>4 DEF Covered
<1> QED BY <1>1, <1>2, <1>3, ClientInvariant, PTL DEF Spec
=============================================================================

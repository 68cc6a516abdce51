------------------------ MODULE MaterializerCacheProofs ------------------------
(***************************************************************************)
(* Proofs about MaterializerCache, for every set of queries and all bounds:*)
(* the first layer and its expiration list agree, materializers are        *)
(* compiled once, fresh SQL is kept, what is evicted is the oldest, and a  *)
(* query is given a materializer for its own columns and joined entities.  *)
(***************************************************************************)
EXTENDS MaterializerCache, FiniteSetTheorems, TLAPS

NodeSet == [key : Sqls, timeStamp : Nat, live : BOOLEAN]

(* An entry of the first layer has a node that it refers to.               *)
Linked(list, cache) ==
  \A s \in Sqls : cache[s] # None <=> \E i \in 1 .. Len(list) : list[i].live /\ list[i].key = s

(* It has only one.                                                        *)
Unambiguous(list) ==
  \A i, j \in 1 .. Len(list) :
    list[i].live /\ list[j].live /\ list[i].key = list[j].key => i = j

(* That node expires when the SQL does.                                    *)
Timed(list, fresh) ==
  \A i \in 1 .. Len(list) : list[i].live => list[i].timeStamp = fresh[list[i].key]

(* Only a failed query leaves a node that no entry refers to.              *)
NoneLeft(list) ==
  \A i \in 1 .. Len(list) : list[i].key \in ReliableSqls => list[i].live

Kept(list, cache, fresh) ==
  /\ list \in Seq(NodeSet)
  /\ Linked(list, cache)
  /\ Unambiguous(list)
  /\ Timed(list, fresh)
  /\ NoneLeft(list)

(* What was compiled is in the second layer, where it stays.               *)
CompiledIsKept ==
  \A q \in Queries : compilations[q] \in {0, 1} /\ (compilations[q] = 1 => Compiled(q) \in secondary)

CacheInv ==
  /\ TypeOK
  /\ Kept(expirations, primary, freshUntil)
  /\ CompiledIsKept

-----------------------------------------------------------------------------
(* Lists of expirations.                                                   *)

(* LinkedList.Remove takes one node out and keeps the order of the others. *)
LEMMA RemovedNode ==
  ASSUME NEW list \in Seq(NodeSet), NEW k \in 1 .. Len(list)
  PROVE  /\ Without(list, k) \in Seq(NodeSet)
         /\ Len(Without(list, k)) = Len(list) - 1
         /\ \A i \in 1 .. Len(list) - 1 :
              Without(list, k)[i] = list[IF i < k THEN i ELSE i + 1]
<1>1. Len(list) - 1 \in Nat
  OBVIOUS
<1>2. \A i \in 1 .. Len(list) - 1 : (IF i < k THEN list[i] ELSE list[i + 1]) \in NodeSet
  OBVIOUS
<1> QED
  BY <1>1, <1>2 DEF Without

LEMMA NewNode ==
  ASSUME TypeOK, NEW s \in Sqls, NEW live \in BOOLEAN
  PROVE  /\ Node(s, live) \in NodeSet
         /\ Node(s, live).key = s
         /\ Node(s, live).timeStamp = now + expirationTime
         /\ Node(s, live).live = live
         /\ now + expirationTime \in Nat
         /\ now + expirationTime > now
<1>1. now \in Nat /\ expirationTime \in Nat \ {0}
  BY CacheAssumption DEF TypeOK
<1> QED
  BY <1>1 DEF Node, NodeSet

LEMMA AddedNode ==
  ASSUME TypeOK, expirations \in Seq(NodeSet), NEW s \in Sqls, NEW live \in BOOLEAN
  PROVE  /\ Added(s, live) \in Seq(NodeSet)
         /\ Len(Added(s, live)) = Len(expirations) + 1 /\ Len(expirations) \in Nat
         /\ \A i \in 1 .. Len(expirations) : Added(s, live)[i] = expirations[i]
         /\ Added(s, live)[Len(expirations) + 1].key = s
         /\ Added(s, live)[Len(expirations) + 1].live = live
         /\ Added(s, live)[Len(expirations) + 1].timeStamp = now + expirationTime
<1>1. PICK n \in NodeSet : /\ Node(s, live) = n
                           /\ n.key = s /\ n.live = live /\ n.timeStamp = now + expirationTime
  BY NewNode
<1>2. Added(s, live) = Append(expirations, n)
  BY <1>1 DEF Added
<1>3. /\ Append(expirations, n) \in Seq(NodeSet)
      /\ Len(Append(expirations, n)) = Len(expirations) + 1 /\ Len(expirations) \in Nat
      /\ \A i \in 1 .. Len(expirations) : Append(expirations, n)[i] = expirations[i]
      /\ Append(expirations, n)[Len(expirations) + 1] = n
  OBVIOUS
<1> QED
  BY <1>1, <1>2, <1>3

(* When a query is executed, its SQL stays fresh for the expiration time.  *)
Refreshed(s) == [freshUntil EXCEPT ![s] = now + expirationTime]

(* A miss: the entry that is made has the new node.                        *)
LEMMA AddedIsKept ==
  ASSUME TypeOK, Kept(expirations, primary, freshUntil),
         NEW s \in Sqls, primary[s] = None, NEW m \in Materializers
  PROVE  /\ Kept(Added(s, TRUE), [primary EXCEPT ![s] = m], Refreshed(s))
         /\ Len(Added(s, TRUE)) = Len(expirations) + 1
<1> DEFINE L == Added(s, TRUE)
           N == Len(expirations)
<1>1. /\ L \in Seq(NodeSet) /\ Len(L) = N + 1 /\ N \in Nat
      /\ \A i \in 1 .. N : L[i] = expirations[i]
      /\ L[N + 1].key = s /\ L[N + 1].live /\ L[N + 1].timeStamp = now + expirationTime
  BY AddedNode DEF Kept
<1>2. \A i \in 1 .. N : expirations[i].live => expirations[i].key # s
  BY DEF Kept, Linked
<1>3. \A i \in 1 .. N : expirations[i].key \in Sqls
  <2>1. \A i \in 1 .. N : expirations[i] \in NodeSet
    BY DEF Kept
  <2> QED
    BY <2>1 DEF NodeSet
<1>4. /\ primary \in [Sqls -> Materializers \cup {None}] /\ freshUntil \in [Sqls -> Nat]
      /\ m # None
  BY CacheAssumption DEF TypeOK
<1> HIDE DEF L, N
<1>5. Linked(L, [primary EXCEPT ![s] = m])
  <2> SUFFICES ASSUME NEW t \in Sqls
               PROVE  [primary EXCEPT ![s] = m][t] # None <=>
                        \E i \in 1 .. Len(L) : L[i].live /\ L[i].key = t
    BY DEF Linked
  <2>1. CASE t = s
    BY <1>1, <1>4, <2>1
  <2>2. CASE t # s
    <3>1. primary[t] # None <=> \E i \in 1 .. N : expirations[i].live /\ expirations[i].key = t
      BY DEF Kept, Linked, N
    <3> QED
      BY <1>1, <1>4, <2>2, <3>1
  <2> QED
    BY <2>1, <2>2
<1>6. Unambiguous(L)
  <2>1. \A i, j \in 1 .. N :
          expirations[i].live /\ expirations[j].live /\ expirations[i].key = expirations[j].key
            => i = j
    BY DEF Kept, Unambiguous, N
  <2> QED
    BY <1>1, <1>2, <2>1 DEF Unambiguous
<1>7. Timed(L, Refreshed(s))
  <2>1. \A i \in 1 .. N :
          expirations[i].live => expirations[i].timeStamp = freshUntil[expirations[i].key]
    BY DEF Kept, Timed, N
  <2> QED
    BY <1>1, <1>2, <1>3, <1>4, <2>1 DEF Timed, Refreshed
<1>8. NoneLeft(L)
  <2>1. \A i \in 1 .. N : expirations[i].key \in ReliableSqls => expirations[i].live
    BY DEF Kept, NoneLeft, N
  <2> QED
    BY <1>1, <2>1 DEF NoneLeft
<1> QED
  BY <1>1, <1>5, <1>6, <1>7, <1>8 DEF Kept, L, N

(* A query that fails leaves a node that no entry refers to.               *)
LEMMA FailureIsKept ==
  ASSUME TypeOK, Kept(expirations, primary, freshUntil),
         NEW s \in Sqls \ ReliableSqls, primary[s] = None
  PROVE  Kept(Added(s, FALSE), primary, Refreshed(s))
<1> DEFINE L == Added(s, FALSE)
           N == Len(expirations)
<1>1. /\ L \in Seq(NodeSet) /\ Len(L) = N + 1 /\ N \in Nat
      /\ \A i \in 1 .. N : L[i] = expirations[i]
      /\ L[N + 1].key = s /\ ~L[N + 1].live
  BY AddedNode DEF Kept
<1>2. \A i \in 1 .. N : expirations[i].live => expirations[i].key # s
  BY DEF Kept, Linked
<1>3. freshUntil \in [Sqls -> Nat]
  BY DEF TypeOK
<1>4. \A i \in 1 .. N : expirations[i].key \in Sqls
  <2>1. \A i \in 1 .. N : expirations[i] \in NodeSet
    BY DEF Kept
  <2> QED
    BY <2>1 DEF NodeSet
<1> HIDE DEF L, N
<1>5. Linked(L, primary)
  <2>1. \A t \in Sqls :
          primary[t] # None <=> \E i \in 1 .. N : expirations[i].live /\ expirations[i].key = t
    BY DEF Kept, Linked, N
  <2> QED
    BY <1>1, <2>1 DEF Linked
<1>6. Unambiguous(L)
  <2>1. \A i, j \in 1 .. N :
          expirations[i].live /\ expirations[j].live /\ expirations[i].key = expirations[j].key
            => i = j
    BY DEF Kept, Unambiguous, N
  <2> QED
    BY <1>1, <2>1 DEF Unambiguous
<1>7. Timed(L, Refreshed(s))
  <2>1. \A i \in 1 .. N :
          expirations[i].live => expirations[i].timeStamp = freshUntil[expirations[i].key]
    BY DEF Kept, Timed, N
  <2> QED
    BY <1>1, <1>2, <1>3, <1>4, <2>1 DEF Timed, Refreshed
<1>8. NoneLeft(L)
  <2>1. \A i \in 1 .. N : expirations[i].key \in ReliableSqls => expirations[i].live
    BY DEF Kept, NoneLeft, N
  <2> QED
    BY <1>1, <2>1 DEF NoneLeft
<1> QED
  BY <1>1, <1>5, <1>6, <1>7, <1>8 DEF Kept, L, N

(* A hit: the node of the entry is there to be removed, and the one at the *)
(* end takes its place.                                                    *)
LEMMA RenewedNodes ==
  ASSUME TypeOK, Kept(expirations, primary, freshUntil), NEW s \in Sqls, primary[s] # None
  PROVE  \E k \in 1 .. Len(expirations), n \in NodeSet :
           /\ expirations[k].live /\ expirations[k].key = s
           /\ n.key = s /\ n.live /\ n.timeStamp = now + expirationTime
           /\ Renewed(s) \in Seq(NodeSet) /\ Len(Renewed(s)) = Len(expirations)
           /\ Renewed(s)[Len(expirations)] = n
           /\ \A i \in 1 .. Len(expirations) - 1 :
                Renewed(s)[i] = expirations[IF i < k THEN i ELSE i + 1]
           /\ \A i \in 1 .. Len(expirations) :
                Renewed(s)[i].live /\ Renewed(s)[i].key = s => i = Len(expirations)
<1> DEFINE L == Renewed(s)
           N == Len(expirations)
<1>1. PICK k \in 1 .. N : /\ expirations[k].live /\ expirations[k].key = s
                          /\ L = Append(Without(expirations, k), Node(s, TRUE))
  <2>1. \E i \in 1 .. N : expirations[i].live /\ expirations[i].key = s
    BY DEF Kept, Linked
  <2>2. DOMAIN expirations = 1 .. N
    BY DEF Kept
  <2>3. LiveNodes(s) # {}
    BY <2>1, <2>2 DEF LiveNodes
  <2>4. (CHOOSE i \in LiveNodes(s) : TRUE) \in LiveNodes(s)
    BY <2>3
  <2>5. L = Append(Without(expirations, CHOOSE i \in LiveNodes(s) : TRUE), Node(s, TRUE))
    BY DEF Renewed
  <2> QED
    BY <2>2, <2>4, <2>5 DEF LiveNodes
<1>2. PICK n \in NodeSet : /\ Node(s, TRUE) = n
                           /\ n.key = s /\ n.live /\ n.timeStamp = now + expirationTime
  BY NewNode
<1>3. /\ expirations \in Seq(NodeSet) /\ N \in Nat
      /\ \A i \in 1 .. N : expirations[i] \in NodeSet
  BY DEF Kept
<1>4. PICK W \in Seq(NodeSet) : /\ W = Without(expirations, k) /\ Len(W) = N - 1
                                /\ \A i \in 1 .. N - 1 :
                                     W[i] = expirations[IF i < k THEN i ELSE i + 1]
  BY <1>3, RemovedNode
<1>5. L = Append(W, n)
  BY <1>1, <1>2, <1>4
<1> HIDE DEF L
<1>6. /\ L \in Seq(NodeSet) /\ Len(L) = N /\ L[N] = n
      /\ \A i \in 1 .. N - 1 : L[i] = expirations[IF i < k THEN i ELSE i + 1]
  <2>1. /\ L \in Seq(NodeSet) /\ Len(L) = Len(W) + 1 /\ L[Len(W) + 1] = n
        /\ \A i \in 1 .. Len(W) : L[i] = W[i]
    BY <1>5
  <2> QED
    BY <1>3, <1>4, <2>1
<1>7. \A i \in 1 .. N : L[i].live /\ L[i].key = s => i = N
  <2>1. \A i \in 1 .. N : expirations[i].live /\ expirations[i].key = s => i = k
    BY <1>1 DEF Kept, Unambiguous
  <2> QED
    BY <1>3, <1>6, <2>1
<1> QED
  BY <1>1, <1>2, <1>6, <1>7 DEF L, N

LEMMA RenewedIsKept ==
  ASSUME TypeOK, Kept(expirations, primary, freshUntil), NEW s \in Sqls, primary[s] # None
  PROVE  Kept(Renewed(s), primary, Refreshed(s))
<1> DEFINE L == Renewed(s)
           N == Len(expirations)
<1>1. PICK k \in 1 .. N, n \in NodeSet :
        /\ expirations[k].live /\ expirations[k].key = s
        /\ n.key = s /\ n.live /\ n.timeStamp = now + expirationTime
        /\ L \in Seq(NodeSet) /\ Len(L) = N /\ L[N] = n
        /\ \A i \in 1 .. N - 1 : L[i] = expirations[IF i < k THEN i ELSE i + 1]
        /\ \A i \in 1 .. N : L[i].live /\ L[i].key = s => i = N
  BY RenewedNodes
<1>2. n.key = s /\ n.live /\ n.timeStamp = now + expirationTime
  BY <1>1
<1>3. /\ expirations \in Seq(NodeSet) /\ N \in Nat
      /\ \A i \in 1 .. N : expirations[i] \in NodeSet
  BY DEF Kept
<1> HIDE DEF L
<1>6. /\ L \in Seq(NodeSet) /\ Len(L) = N /\ L[N] = n
      /\ \A i \in 1 .. N - 1 : L[i] = expirations[IF i < k THEN i ELSE i + 1]
  BY <1>1
<1>7. \A i \in 1 .. N : L[i].live /\ L[i].key = s => i = N
  BY <1>1
<1>8. freshUntil \in [Sqls -> Nat] /\ \A i \in 1 .. N : expirations[i].key \in Sqls
  BY <1>3 DEF TypeOK, NodeSet
<1> HIDE DEF N
<1>9. Linked(L, primary)
  <2> SUFFICES ASSUME NEW t \in Sqls
               PROVE  primary[t] # None <=> \E i \in 1 .. N : L[i].live /\ L[i].key = t
    BY <1>6 DEF Linked
  <2>1. primary[t] # None <=> \E i \in 1 .. N : expirations[i].live /\ expirations[i].key = t
    BY DEF Kept, Linked, N
  <2>2. CASE t = s
    <3>1. N \in 1 .. N
      BY <1>3
    <3> QED
      BY <1>2, <1>6, <2>2, <3>1
  <2>3. CASE t # s
    <3>1. ASSUME NEW i \in 1 .. N, expirations[i].live /\ expirations[i].key = t
          PROVE  \E j \in 1 .. N : L[j].live /\ L[j].key = t
      <4>1. i # k
        BY <1>1, <2>3, <3>1
      <4>2. CASE i < k
        BY <1>3, <1>6, <3>1, <4>2
      <4>3. CASE i > k
        <5>1. i - 1 \in 1 .. N - 1 /\ ~(i - 1 < k) /\ (i - 1) + 1 = i /\ i - 1 \in 1 .. N
          BY <1>3, <4>3
        <5> QED
          BY <1>6, <3>1, <5>1
      <4> QED
        BY <1>3, <4>1, <4>2, <4>3
    <3>2. ASSUME NEW j \in 1 .. N, L[j].live /\ L[j].key = t
          PROVE  \E i \in 1 .. N : expirations[i].live /\ expirations[i].key = t
      <4>1. j \in 1 .. N - 1
        BY <1>2, <1>3, <1>6, <2>3, <3>2
      <4>2. (IF j < k THEN j ELSE j + 1) \in 1 .. N
        BY <1>3, <4>1
      <4> QED
        BY <1>6, <3>2, <4>1, <4>2
    <3> QED
      BY <2>1, <3>1, <3>2
  <2> QED
    BY <2>2, <2>3
<1>10. ASSUME NEW i \in 1 .. N, i # N
       PROVE  /\ i \in 1 .. N - 1
              /\ (IF i < k THEN i ELSE i + 1) \in 1 .. N
              /\ L[i] = expirations[IF i < k THEN i ELSE i + 1]
  BY <1>3, <1>6, <1>10
<1>11. Unambiguous(L)
  <2> SUFFICES ASSUME NEW i \in 1 .. N, NEW j \in 1 .. N,
                      L[i].live, L[j].live, L[i].key = L[j].key
               PROVE  i = j
    BY <1>6 DEF Unambiguous
  <2>1. CASE i = N \/ j = N
    BY <1>2, <1>6, <1>7, <2>1
  <2>2. CASE i # N /\ j # N
    <3>1. \A a, b \in 1 .. N :
            expirations[a].live /\ expirations[b].live /\ expirations[a].key = expirations[b].key
              => a = b
      BY DEF Kept, Unambiguous, N
    <3>2. (IF i < k THEN i ELSE i + 1) = (IF j < k THEN j ELSE j + 1)
      BY <1>10, <2>2, <3>1
    <3> QED
      BY <1>3, <3>2
  <2> QED
    BY <2>1, <2>2
<1>12. Timed(L, Refreshed(s))
  <2> SUFFICES ASSUME NEW i \in 1 .. N, L[i].live
               PROVE  L[i].timeStamp = Refreshed(s)[L[i].key]
    BY <1>6 DEF Timed
  <2>1. CASE i = N
    BY <1>2, <1>6, <1>8, <2>1 DEF Refreshed
  <2>2. CASE i # N
    <3>1. PICK j \in 1 .. N : L[i] = expirations[j]
      BY <1>10, <2>2
    <3>2. expirations[j].timeStamp = freshUntil[expirations[j].key]
      BY <2>2, <3>1 DEF Kept, Timed, N
    <3>3. expirations[j].key # s
      BY <1>7, <2>2, <3>1
    <3> QED
      BY <1>8, <3>1, <3>2, <3>3 DEF Refreshed
  <2> QED
    BY <2>1, <2>2
<1>13. NoneLeft(L)
  <2> SUFFICES ASSUME NEW i \in 1 .. N, L[i].key \in ReliableSqls PROVE L[i].live
    BY <1>6 DEF NoneLeft
  <2>1. CASE i = N
    BY <1>2, <1>6, <2>1
  <2>2. CASE i # N
    BY <1>10, <2>2 DEF Kept, NoneLeft, N
  <2> QED
    BY <2>1, <2>2
<1> QED
  BY <1>3, <1>6, <1>9, <1>11, <1>12, <1>13 DEF Kept, L, N

(* Eviction: with the first node goes the entry of its key, and a younger  *)
(* node of that key is one that no entry refers to any more.               *)
LEMMA EvictedIsKept ==
  ASSUME NEW list, NEW cache \in [Sqls -> Materializers \cup {None}], NEW fresh,
         Kept(list, cache, fresh), list # <<>>
  PROVE  /\ Kept(ListEvicted(list), EntryEvicted(cache, list), fresh)
         /\ Len(ListEvicted(list)) = Len(list) - 1
         /\ \A i \in 1 .. Len(list) - 1 :
              /\ ListEvicted(list)[i].key = list[i + 1].key
              /\ ListEvicted(list)[i].live => list[i + 1].live
<1> DEFINE L == ListEvicted(list)
           N == Len(list)
           h == list[1]
<1>1. /\ N \in Nat \ {0} /\ N - 1 \in Nat
      /\ Head(list) = h /\ h \in NodeSet /\ h.key \in Sqls
      /\ \A i \in 1 .. N : list[i] \in NodeSet
      /\ DOMAIN Tail(list) = 1 .. N - 1
      /\ \A i \in 1 .. N - 1 : i + 1 \in 1 .. N /\ Tail(list)[i] = list[i + 1]
  <2>1. list \in Seq(NodeSet)
    BY DEF Kept
  <2>2. /\ N \in Nat \ {0} /\ N - 1 \in Nat
        /\ Head(list) = h /\ h \in NodeSet
        /\ \A i \in 1 .. N : list[i] \in NodeSet
        /\ DOMAIN Tail(list) = 1 .. N - 1
        /\ \A i \in 1 .. N - 1 : i + 1 \in 1 .. N /\ Tail(list)[i] = list[i + 1]
    BY <2>1
  <2> QED
    BY <2>2 DEF NodeSet
<1> HIDE DEF N, h
<1>2. \A i \in 1 .. N - 1 : [list[i + 1] EXCEPT !.live = @ /\ list[i + 1].key # h.key] \in NodeSet
  BY <1>1 DEF NodeSet
<1>3. L = [i \in 1 .. N - 1 |-> [list[i + 1] EXCEPT !.live = @ /\ list[i + 1].key # h.key]]
  BY <1>1 DEF ListEvicted
<1> HIDE DEF L
<1>4. L \in Seq(NodeSet) /\ Len(L) = N - 1
  <2>1. L \in [1 .. N - 1 -> NodeSet]
    BY <1>2, <1>3, Zenon
  <2>2. N - 1 \in Nat
    BY <1>1
  <2> QED
    BY <2>1, <2>2
<1>5. \A i \in 1 .. N - 1 : /\ L[i].key = list[i + 1].key
                            /\ L[i].timeStamp = list[i + 1].timeStamp
                            /\ L[i].live <=> list[i + 1].live /\ list[i + 1].key # h.key
  BY <1>1, <1>3 DEF NodeSet
<1>6. EntryEvicted(cache, list) = [cache EXCEPT ![h.key] = None]
  BY <1>1 DEF EntryEvicted
<1>7. Linked(L, EntryEvicted(cache, list))
  <2> SUFFICES ASSUME NEW t \in Sqls
               PROVE  [cache EXCEPT ![h.key] = None][t] # None <=>
                        \E i \in 1 .. N - 1 : L[i].live /\ L[i].key = t
    BY <1>4, <1>6 DEF Linked
  <2>1. cache[t] # None <=> \E i \in 1 .. N : list[i].live /\ list[i].key = t
    BY DEF Kept, Linked, N
  <2>2. CASE t = h.key
    BY <1>5, <2>2
  <2>3. CASE t # h.key
    <3>1. ASSUME NEW i \in 1 .. N, list[i].live /\ list[i].key = t
          PROVE  \E j \in 1 .. N - 1 : L[j].live /\ L[j].key = t
      <4>1. i # 1
        BY <2>3, <3>1 DEF h
      <4>2. i - 1 \in 1 .. N - 1 /\ (i - 1) + 1 = i
        BY <1>1, <4>1
      <4> QED
        BY <1>5, <2>3, <3>1, <4>2
    <3>2. ASSUME NEW j \in 1 .. N - 1, L[j].live /\ L[j].key = t
          PROVE  \E i \in 1 .. N : list[i].live /\ list[i].key = t
      BY <1>1, <1>5, <3>2
    <3> QED
      BY <2>1, <2>3, <3>1, <3>2
  <2> QED
    BY <2>2, <2>3
<1>8. Unambiguous(L)
  <2>1. \A a, b \in 1 .. N : list[a].live /\ list[b].live /\ list[a].key = list[b].key => a = b
    BY DEF Kept, Unambiguous, N
  <2> SUFFICES ASSUME NEW i \in 1 .. N - 1, NEW j \in 1 .. N - 1,
                      L[i].live, L[j].live, L[i].key = L[j].key
               PROVE  i = j
    BY <1>4 DEF Unambiguous
  <2>2. i + 1 = j + 1
    BY <1>1, <1>5, <2>1
  <2> QED
    BY <2>2
<1>9. Timed(L, fresh)
  <2>1. \A a \in 1 .. N : list[a].live => list[a].timeStamp = fresh[list[a].key]
    BY DEF Kept, Timed, N
  <2> QED
    BY <1>1, <1>4, <1>5, <2>1 DEF Timed
<1>10. NoneLeft(L)
  <2>1. /\ \A a \in 1 .. N : list[a].key \in ReliableSqls => list[a].live
        /\ \A a, b \in 1 .. N : list[a].live /\ list[b].live /\ list[a].key = list[b].key => a = b
    BY DEF Kept, NoneLeft, Unambiguous, N
  <2> SUFFICES ASSUME NEW i \in 1 .. N - 1, L[i].key \in ReliableSqls PROVE L[i].live
    BY <1>4 DEF NoneLeft
  <2>2. list[i + 1].live /\ i + 1 # 1 /\ 1 \in 1 .. N
    BY <1>1, <1>5, <2>1
  <2>3. list[i + 1].key # h.key
    BY <1>1, <1>5, <2>1, <2>2 DEF h
  <2> QED
    BY <1>5, <2>2, <2>3
<1> QED
  BY <1>4, <1>5, <1>7, <1>8, <1>9, <1>10 DEF Kept, L, N

(* What a call leaves behind.                                              *)
LEMMA AfterEviction ==
  ASSUME NEW list, NEW cache \in [Sqls -> Materializers \cup {None}],
         Kept(list, cache, freshUntil'), Evict(cache, list)
  PROVE  /\ Kept(expirations, primary, freshUntil)'
         /\ primary' \in [Sqls -> Materializers \cup {None}]
<1>1. /\ list \in Seq(NodeSet) /\ Len(list) \in Nat
      /\ expirations' = list /\ primary' = cache => Kept(expirations, primary, freshUntil)'
  BY DEF Kept, Linked, Unambiguous, Timed, NoneLeft
<1>2. CASE ~Expired(list)
  BY <1>1, <1>2 DEF Evict
<1>3. CASE Expired(list)
  <2>1. /\ list # <<>> /\ expirations' = ListEvicted(list) /\ primary' = EntryEvicted(cache, list)
    BY <1>3 DEF Expired, Evict
  <2>2. Kept(expirations', primary', freshUntil')
    BY <2>1, EvictedIsKept
  <2>3. primary' \in [Sqls -> Materializers \cup {None}]
    BY <2>1 DEF EntryEvicted
  <2>4. Kept(expirations, primary, freshUntil)'
    BY <2>2 DEF Kept, Linked, Unambiguous, Timed, NoneLeft
  <2> QED
    BY <1>1, <2>2, <2>3, <2>4
<1> QED
  BY <1>2, <1>3

-----------------------------------------------------------------------------
(* The steps.                                                              *)

(* The second layer gives a materializer that was compiled for some query. *)
LEMMA Resolved ==
  ASSUME TypeOK, NEW q \in Queries
  PROVE  /\ Resolve(q) \in Materializers /\ Resolve(q) # None
         /\ SameKey(q) # {} => Resolve(q) \in SameKey(q)
         /\ SameKey(q) = {} => Resolve(q) = Compiled(q)
         /\ SqlOf[q] \in Sqls
<1>1. Compiled(q) \in Materializers /\ SqlOf[q] \in Sqls /\ SameKey(q) \subseteq Materializers
  BY DEF Materializers, Sqls, SameKey, TypeOK
<1>2. CASE SameKey(q) = {}
  BY <1>1, <1>2, CacheAssumption DEF Resolve
<1>3. CASE SameKey(q) # {}
  <2>1. (CHOOSE m \in SameKey(q) : TRUE) \in SameKey(q)
    BY <1>3
  <2> QED
    BY <1>1, <1>3, <2>1, CacheAssumption DEF Resolve
<1> QED
  BY <1>2, <1>3

(* Each case of a call, before anything is evicted.                        *)
LEMMA HitKept ==
  ASSUME CacheInv, NEW q \in Queries, Hit(q), freshUntil' = Refreshed(SqlOf[q])
  PROVE  /\ Kept(expirations, primary, freshUntil)'
         /\ primary' \in [Sqls -> Materializers \cup {None}]
<1>1. /\ TypeOK /\ SqlOf[q] \in Sqls /\ primary[SqlOf[q]] # None
      /\ Evict(primary, Renewed(SqlOf[q])) /\ Kept(expirations, primary, freshUntil)
      /\ primary \in [Sqls -> Materializers \cup {None}]
  BY Resolved DEF CacheInv, TypeOK, Hit
<1>2. Kept(Renewed(SqlOf[q]), primary, freshUntil')
  BY <1>1, RenewedIsKept
<1> QED
  BY <1>1, <1>2, AfterEviction

LEMMA MissKept ==
  ASSUME CacheInv, NEW q \in Queries, Miss(q), freshUntil' = Refreshed(SqlOf[q])
  PROVE  /\ Kept(expirations, primary, freshUntil)'
         /\ primary' \in [Sqls -> Materializers \cup {None}]
<1> DEFINE cache == [primary EXCEPT ![SqlOf[q]] = Resolve(q)]
<1>1. /\ TypeOK /\ SqlOf[q] \in Sqls /\ primary[SqlOf[q]] = None
      /\ Evict(cache, Added(SqlOf[q], TRUE)) /\ Kept(expirations, primary, freshUntil)
      /\ Resolve(q) \in Materializers
      /\ cache \in [Sqls -> Materializers \cup {None}]
  BY Resolved DEF CacheInv, TypeOK, Miss
<1>2. Kept(Added(SqlOf[q], TRUE), cache, freshUntil')
  BY <1>1, AddedIsKept
<1> HIDE DEF cache
<1> QED
  BY <1>1, <1>2, AfterEviction

LEMMA MissThrowsKept ==
  ASSUME CacheInv, NEW q \in Queries, MissThrows(q), freshUntil' = Refreshed(SqlOf[q])
  PROVE  /\ Kept(expirations, primary, freshUntil)'
         /\ primary' \in [Sqls -> Materializers \cup {None}]
<1>1. /\ TypeOK /\ SqlOf[q] \in Sqls \ ReliableSqls /\ primary[SqlOf[q]] = None
      /\ expirations' = Added(SqlOf[q], FALSE) /\ primary' = primary
      /\ Kept(expirations, primary, freshUntil)
      /\ primary \in [Sqls -> Materializers \cup {None}]
  BY Resolved DEF CacheInv, TypeOK, MissThrows, ReliableSqls
<1>2. Kept(Added(SqlOf[q], FALSE), primary, Refreshed(SqlOf[q]))
  BY <1>1, FailureIsKept
<1> QED
  BY <1>1, <1>2 DEF Kept, Linked, Unambiguous, Timed, NoneLeft

LEMMA CallKept ==
  ASSUME CacheInv, NEW q \in Queries, GetOrCreateMaterializer(q)
  PROVE  CacheInv'
<1>1. /\ freshUntil' = Refreshed(SqlOf[q])
      /\ UNCHANGED <<now, expirationTime>>
      /\ TypeOK /\ now + expirationTime \in Nat /\ SqlOf[q] \in Sqls
  BY Resolved, NewNode DEF GetOrCreateMaterializer, Refreshed, CacheInv
<1>2. /\ Kept(expirations, primary, freshUntil)'
      /\ primary' \in [Sqls -> Materializers \cup {None}]
  BY <1>1, HitKept, MissKept, MissThrowsKept DEF GetOrCreateMaterializer
<1>3. /\ secondary' \subseteq Materializers
      /\ compilations' \in [Queries -> Nat]
      /\ CompiledIsKept'
  <2>1. CASE UNCHANGED <<secondary, compilations>>
    BY <2>1 DEF CacheInv, TypeOK, CompiledIsKept
  <2>2. CASE Miss(q)
    <3>1. /\ secondary' = secondary \cup {Resolve(q)} /\ Resolve(q) \in Materializers
          /\ secondary \subseteq Materializers
          /\ compilations \in [Queries -> Nat]
          /\ \A p \in Queries : compilations[p] \in {0, 1}
                                /\ (compilations[p] = 1 => Compiled(p) \in secondary)
      BY <1>1, <2>2, Resolved DEF Miss, CacheInv, TypeOK, CompiledIsKept
    <3>2. CASE SameKey(q) # {}
      <4>1. compilations' = compilations
        BY <2>2, <3>2 DEF Miss
      <4> QED
        BY <3>1, <4>1 DEF CompiledIsKept
    <3>3. CASE SameKey(q) = {}
      <4>1. /\ compilations' = [compilations EXCEPT ![q] = @ + 1]
            /\ Compiled(q) \in secondary'
            /\ Compiled(q) \notin secondary
        BY <1>1, <2>2, <3>1, <3>3, Resolved DEF Miss, SameKey
      <4>2. compilations[q] = 0
        BY <3>1, <4>1
      <4> QED
        BY <3>1, <4>1, <4>2 DEF CompiledIsKept
    <3> QED
      BY <3>2, <3>3
  <2> QED
    BY <2>1, <2>2 DEF GetOrCreateMaterializer, Hit, MissThrows
<1>4. returned' \in [query : Queries, materializer : Materializers \cup {None}]
  <2>1. primary[SqlOf[q]] \in Materializers \cup {None} /\ Resolve(q) \in Materializers
    BY <1>1, Resolved DEF TypeOK
  <2>2. returned' \in {[query |-> q, materializer |-> m] :
                        m \in {primary[SqlOf[q]], Resolve(q), None}}
    BY DEF GetOrCreateMaterializer, Hit, Miss, MissThrows
  <2> QED
    BY <2>1, <2>2
<1>5. /\ freshUntil' \in [Sqls -> Nat] /\ now' \in Nat /\ expirationTime' \in Spans
  BY <1>1 DEF Refreshed, TypeOK
<1>7. calledBefore' \subseteq Sqls \X Sqls
  <2>1. /\ calledBefore' \subseteq CalledNow(SqlOf[q])
        /\ calledBefore \subseteq Sqls \X Sqls
    BY <1>1 DEF GetOrCreateMaterializer, TypeOK
  <2> QED
    BY <1>1, <2>1 DEF CalledNow
<1>6. expirations' \in Seq([key : Sqls, timeStamp : Nat, live : BOOLEAN])
  BY <1>2 DEF Kept, NodeSet
<1> QED
  BY <1>2, <1>3, <1>4, <1>5, <1>6, <1>7 DEF CacheInv, TypeOK

LEMMA InitCacheInv == Init => CacheInv
<1> SUFFICES ASSUME Init PROVE CacheInv
  OBVIOUS
<1>1. /\ now = 0 /\ expirationTime \in Spans /\ primary = [s \in Sqls |-> None]
      /\ expirations = <<>> /\ secondary = {} /\ freshUntil = [s \in Sqls |-> 0]
      /\ calledBefore = {}
      /\ returned \in [query : Queries, materializer : {None}]
      /\ compilations = [q \in Queries |-> 0]
  BY DEF Init
<1>2. TypeOK
  BY <1>1 DEF TypeOK
<1>3. Kept(expirations, primary, freshUntil)
  BY <1>1 DEF Kept, Linked, Unambiguous, Timed, NoneLeft, NodeSet
<1>4. CompiledIsKept
  BY <1>1 DEF CompiledIsKept
<1> QED
  BY <1>2, <1>3, <1>4 DEF CacheInv

LEMMA CacheStep ==
  ASSUME CacheInv, [Next]_vars
  PROVE  CacheInv'
<1>1. ASSUME NEW q \in Queries, GetOrCreateMaterializer(q) PROVE CacheInv'
  BY <1>1, CallKept
<1>2. CASE ClockChanges \/ SetDynamicCacheExpirationTime \/ UNCHANGED vars
  <2>1. /\ UNCHANGED <<primary, expirations, secondary, returned, freshUntil, compilations>>
        /\ UNCHANGED calledBefore
        /\ now' \in Nat /\ expirationTime' \in Spans
    BY <1>2, CacheAssumption DEF ClockChanges, SetDynamicCacheExpirationTime, vars, CacheInv,
       TypeOK
  <2>2. TypeOK' /\ CompiledIsKept'
    BY <2>1 DEF CacheInv, TypeOK, CompiledIsKept
  <2>3. Kept(expirations, primary, freshUntil)'
    BY <2>1 DEF CacheInv, Kept, Linked, Unambiguous, Timed, NoneLeft
  <2> QED
    BY <2>2, <2>3 DEF CacheInv
<1> QED
  BY <1>1, <1>2 DEF Next

(* CacheInv holds in every reachable state.                                *)
THEOREM CacheInvariance == Spec => []CacheInv
<1>1. Init => CacheInv
  BY InitCacheInv
<1>2. CacheInv /\ [Next]_vars => CacheInv'
  BY CacheStep
<1> QED
  BY <1>1, <1>2, PTL DEF Spec

(* The first layer and the expiration list agree, so that removing a node  *)
(* on a hit never throws and every entry can expire; and no materializer is*)
(* compiled twice.                                                         *)
THEOREM LayersAgree == Spec => []CacheConsistent
<1>1. ASSUME CacheInv PROVE CacheConsistent
  <2>1. EntryHasNode
    <3> SUFFICES ASSUME NEW s \in Sqls
                 PROVE  Cardinality(LiveNodes(s)) = IF primary[s] = None THEN 0 ELSE 1
      BY DEF EntryHasNode
    <3>1. DOMAIN expirations = 1 .. Len(expirations)
      BY <1>1 DEF CacheInv, Kept
    <3>2. primary[s] # None <=> LiveNodes(s) # {}
      BY <1>1, <3>1 DEF CacheInv, Kept, Linked, LiveNodes
    <3>3. \A i, j \in LiveNodes(s) : i = j
      BY <1>1, <3>1 DEF CacheInv, Kept, Unambiguous, LiveNodes
    <3>4. CASE primary[s] = None
      BY <3>2, <3>4, FS_EmptySet
    <3>5. CASE primary[s] # None
      <4>1. PICK i : LiveNodes(s) = {i}
        BY <3>2, <3>3, <3>5
      <4> QED
        BY <3>5, <4>1, FS_Singleton
    <3> QED
      BY <3>4, <3>5
  <2>2. CompiledOnce
    BY <1>1 DEF CacheInv, CompiledIsKept, CompiledOnce
  <2> QED
    BY <1>1, <2>1, <2>2 DEF CacheInv, CacheConsistent
<1> QED
  BY <1>1, CacheInvariance, PTL

(* An entry that a call evicts has expired: its node was the first of the  *)
(* list, and the node of fresh SQL expires when the SQL does.              *)
LEMMA OnlyExpiredEvicted ==
  ASSUME NEW list, NEW cache \in [Sqls -> Materializers \cup {None}],
         Kept(list, cache, freshUntil'), Evict(cache, list),
         NEW s \in ReliableSqls, cache[s] # None, primary'[s] = None
  PROVE  now > freshUntil'[s]
<1>1. Expired(list) /\ primary' = EntryEvicted(cache, list)
  BY DEF Evict
<1>2. list \in Seq(NodeSet) /\ list # <<>> /\ now > Head(list).timeStamp
  BY <1>1 DEF Kept, Expired
<1>3. Head(list) = list[1] /\ 1 \in 1 .. Len(list) /\ s \in Sqls
  BY <1>2 DEF ReliableSqls
<1>4. list[1].key = s
  BY <1>1, <1>3 DEF EntryEvicted
<1>5. list[1].timeStamp = freshUntil'[s]
  BY <1>3, <1>4 DEF Kept, NoneLeft, Timed
<1> QED
  BY <1>2, <1>3, <1>5

(* SQL that was executed within the expiration time stays in the first     *)
(* layer, even when the clock is set back, the expiration time is changed  *)
(* or queries with other SQL fail.                                         *)
THEOREM FreshIsKept == Spec => KeptWhileFresh
<1>1. ASSUME CacheInv, [Next]_vars, NEW s \in ReliableSqls,
             primary[s] # None, primary'[s] = None
      PROVE  now > freshUntil[s]
  <2>1. PICK q \in Queries : GetOrCreateMaterializer(q)
    BY <1>1 DEF Next, ClockChanges, SetDynamicCacheExpirationTime, vars
  <2>2. /\ TypeOK /\ SqlOf[q] \in Sqls /\ s \in Sqls
        /\ freshUntil' = Refreshed(SqlOf[q]) /\ freshUntil \in [Sqls -> Nat]
        /\ primary \in [Sqls -> Materializers \cup {None}]
        /\ now + expirationTime > now /\ now \in Nat /\ now + expirationTime \in Nat
        /\ Kept(expirations, primary, freshUntil)
    BY <1>1, <2>1, Resolved, NewNode
       DEF CacheInv, TypeOK, GetOrCreateMaterializer, Refreshed, ReliableSqls
  <2>3. now > freshUntil'[s]
    <3>1. CASE Hit(q)
      <4>1. primary[SqlOf[q]] # None /\ Evict(primary, Renewed(SqlOf[q]))
        BY <3>1 DEF Hit
      <4>2. Kept(Renewed(SqlOf[q]), primary, freshUntil')
        BY <2>2, <4>1, RenewedIsKept
      <4> QED
        BY <1>1, <2>2, <4>1, <4>2, OnlyExpiredEvicted
    <3>2. CASE Miss(q)
      <4> DEFINE cache == [primary EXCEPT ![SqlOf[q]] = Resolve(q)]
      <4>1. /\ primary[SqlOf[q]] = None /\ Evict(cache, Added(SqlOf[q], TRUE))
            /\ Resolve(q) \in Materializers /\ Resolve(q) # None
        BY <2>2, <3>2, Resolved DEF Miss
      <4>2. cache \in [Sqls -> Materializers \cup {None}] /\ cache[s] # None
        BY <1>1, <2>2, <4>1
      <4>3. Kept(Added(SqlOf[q], TRUE), cache, freshUntil')
        BY <2>2, <4>1, AddedIsKept
      <4> HIDE DEF cache
      <4> QED
        BY <1>1, <4>1, <4>2, <4>3, OnlyExpiredEvicted
    <3>3. CASE MissThrows(q)
      BY <1>1, <3>3 DEF MissThrows
    <3> QED
      BY <2>1, <3>1, <3>2, <3>3 DEF GetOrCreateMaterializer
  <2>4. s # SqlOf[q]
    BY <2>2, <2>3 DEF Refreshed
  <2> QED
    BY <2>2, <2>3, <2>4 DEF Refreshed
<1>2. CacheInv /\ [Next]_vars =>
        [\A s \in ReliableSqls :
           primary[s] # None /\ primary'[s] = None => now > freshUntil[s]]_vars
  BY <1>1
<1> QED
  BY <1>2, CacheInvariance, PTL DEF Spec, KeptWhileFresh

-----------------------------------------------------------------------------
(* The order of the list.                                                  *)

(* The nodes of entries are in the order of the last calls.                *)
CallsInOrder(list, before) ==
  \A i, j \in 1 .. Len(list) :
    list[i].live /\ list[j].live /\ <<list[i].key, list[j].key>> \in before => i < j

(* The history speaks of cached SQL only.                                  *)
OrderInv ==
  /\ CallsInOrder(expirations, calledBefore)
  /\ \A s, t \in Sqls : <<s, t>> \in calledBefore => primary[s] # None /\ primary[t] # None

(* Whose call was before another's, when s is called.                      *)
LEMMA CallsBefore ==
  ASSUME NEW s, NEW a, NEW b, <<a, b>> \in CalledNow(s)
  PROVE  a # s /\ (<<a, b>> \in calledBefore \/ b = s)
<1>1. CASE <<a, b>> \in {p \in calledBefore : p[1] # s}
  BY <1>1
<1>2. CASE <<a, b>> \in {<<t, s>> : t \in Sqls \ {s}}
  BY <1>2
<1> QED
  BY <1>1, <1>2 DEF CalledNow

LEMMA AddedInOrder ==
  ASSUME TypeOK, Kept(expirations, primary, freshUntil), CallsInOrder(expirations, calledBefore),
         NEW s \in Sqls, primary[s] = None
  PROVE  CallsInOrder(Added(s, TRUE), CalledNow(s))
<1> DEFINE L == Added(s, TRUE)
           N == Len(expirations)
<1>1. /\ Len(L) = N + 1 /\ N \in Nat
      /\ \A i \in 1 .. N : L[i] = expirations[i]
      /\ L[N + 1].key = s
  BY AddedNode DEF Kept
<1>2. \A i \in 1 .. N : expirations[i].live => expirations[i].key # s
  BY DEF Kept, Linked
<1>3. \A i, j \in 1 .. N :
        expirations[i].live /\ expirations[j].live
          /\ <<expirations[i].key, expirations[j].key>> \in calledBefore => i < j
  BY DEF CallsInOrder
<1> HIDE DEF L, N
<1>4. ASSUME NEW i \in 1 .. Len(L), NEW j \in 1 .. Len(L), L[i].live, L[j].live,
             <<L[i].key, L[j].key>> \in CalledNow(s)
      PROVE  i < j
  <2>1. L[i].key # s /\ (<<L[i].key, L[j].key>> \in calledBefore \/ L[j].key = s)
    BY <1>4, CallsBefore
  <2>2. i \in 1 .. N
    BY <1>1, <2>1
  <2>3. CASE j = N + 1
    BY <1>1, <2>2, <2>3
  <2>4. CASE j # N + 1
    <3>1. j \in 1 .. N
      BY <1>1, <2>4
    <3> QED
      BY <1>1, <1>2, <1>3, <1>4, <2>1, <2>2, <3>1
  <2> QED
    BY <2>3, <2>4
<1> QED
  BY <1>4 DEF CallsInOrder, L

LEMMA RenewedInOrder ==
  ASSUME TypeOK, Kept(expirations, primary, freshUntil), CallsInOrder(expirations, calledBefore),
         NEW s \in Sqls, primary[s] # None
  PROVE  CallsInOrder(Renewed(s), CalledNow(s))
<1> DEFINE L == Renewed(s)
           N == Len(expirations)
<1>1. PICK k \in 1 .. N :
        /\ Len(L) = N
        /\ \A i \in 1 .. N - 1 : L[i] = expirations[IF i < k THEN i ELSE i + 1]
        /\ \A i \in 1 .. N : L[i].live /\ L[i].key = s => i = N
        /\ L[N].key = s
  <2>1. PICK k \in 1 .. N, n \in NodeSet :
          /\ expirations[k].live /\ expirations[k].key = s
          /\ n.key = s /\ n.live /\ n.timeStamp = now + expirationTime
          /\ L \in Seq(NodeSet) /\ Len(L) = N /\ L[N] = n
          /\ \A i \in 1 .. N - 1 : L[i] = expirations[IF i < k THEN i ELSE i + 1]
          /\ \A i \in 1 .. N : L[i].live /\ L[i].key = s => i = N
    BY RenewedNodes
  <2>2. L[N].key = s
    BY <2>1
  <2> QED
    BY <2>1, <2>2
<1>2. N \in Nat
  BY DEF Kept
<1>3. \A i, j \in 1 .. N :
        expirations[i].live /\ expirations[j].live
          /\ <<expirations[i].key, expirations[j].key>> \in calledBefore => i < j
  BY DEF CallsInOrder
<1> HIDE DEF L, N
<1>4. ASSUME NEW i \in 1 .. Len(L), NEW j \in 1 .. Len(L), L[i].live, L[j].live,
             <<L[i].key, L[j].key>> \in CalledNow(s)
      PROVE  i < j
  <2>1. L[i].key # s /\ (<<L[i].key, L[j].key>> \in calledBefore \/ L[j].key = s)
    BY <1>4, CallsBefore
  <2>2. i \in 1 .. N - 1
    BY <1>1, <1>2, <2>1
  <2>3. CASE j = N
    BY <1>2, <2>2, <2>3
  <2>4. CASE j # N
    <3>1. j \in 1 .. N - 1 /\ <<L[i].key, L[j].key>> \in calledBefore
      BY <1>1, <1>2, <1>4, <2>1, <2>4
    <3>2. /\ (IF i < k THEN i ELSE i + 1) \in 1 .. N
          /\ (IF j < k THEN j ELSE j + 1) \in 1 .. N
      BY <1>2, <2>2, <3>1
    <3>3. (IF i < k THEN i ELSE i + 1) < (IF j < k THEN j ELSE j + 1)
      BY <1>1, <1>3, <1>4, <2>2, <3>1, <3>2
    <3> QED
      BY <1>2, <2>2, <3>1, <3>3
  <2> QED
    BY <2>3, <2>4
<1> QED
  BY <1>4 DEF CallsInOrder, L

(* A call that returns a materializer: list and entries before eviction.   *)
LEMMA BeforeEviction ==
  ASSUME CacheInv, OrderInv, NEW q \in Queries, GetOrCreateMaterializer(q), Hit(q) \/ Miss(q)
  PROVE  \E list \in Seq(NodeSet), cache \in [Sqls -> Materializers \cup {None}] :
           /\ Kept(list, cache, freshUntil')
           /\ CallsInOrder(list, CalledNow(SqlOf[q]))
           /\ Evict(cache, list)
           /\ \A t \in Sqls : primary[t] # None => cache[t] # None
<1>1. /\ TypeOK /\ SqlOf[q] \in Sqls /\ freshUntil' = Refreshed(SqlOf[q])
      /\ primary \in [Sqls -> Materializers \cup {None}]
      /\ Kept(expirations, primary, freshUntil) /\ CallsInOrder(expirations, calledBefore)
  BY Resolved DEF CacheInv, OrderInv, TypeOK, GetOrCreateMaterializer, Refreshed
<1>2. CASE Hit(q)
  <2>1. primary[SqlOf[q]] # None /\ Evict(primary, Renewed(SqlOf[q]))
    BY <1>2 DEF Hit
  <2>2. /\ Kept(Renewed(SqlOf[q]), primary, freshUntil')
        /\ CallsInOrder(Renewed(SqlOf[q]), CalledNow(SqlOf[q]))
    BY <1>1, <2>1, RenewedIsKept, RenewedInOrder
  <2>3. Renewed(SqlOf[q]) \in Seq(NodeSet)
    BY <2>2 DEF Kept
  <2> QED
    BY <1>1, <2>1, <2>2, <2>3
<1>3. CASE Miss(q)
  <2> DEFINE cache == [primary EXCEPT ![SqlOf[q]] = Resolve(q)]
  <2>1. /\ primary[SqlOf[q]] = None /\ Evict(cache, Added(SqlOf[q], TRUE))
        /\ Resolve(q) \in Materializers /\ Resolve(q) # None
    BY <1>1, <1>3, Resolved DEF Miss
  <2>2. /\ cache \in [Sqls -> Materializers \cup {None}]
        /\ \A t \in Sqls : primary[t] # None => cache[t] # None
    BY <1>1, <2>1
  <2>3. /\ Kept(Added(SqlOf[q], TRUE), cache, freshUntil')
        /\ CallsInOrder(Added(SqlOf[q], TRUE), CalledNow(SqlOf[q]))
    BY <1>1, <2>1, AddedIsKept, AddedInOrder
  <2> HIDE DEF cache
  <2>4. Added(SqlOf[q], TRUE) \in Seq(NodeSet)
    BY <2>3 DEF Kept
  <2> QED
    BY <2>1, <2>2, <2>3, <2>4
<1> QED
  BY <1>2, <1>3

(* A call keeps the order.                                                 *)
LEMMA CallInOrder ==
  ASSUME CacheInv, OrderInv, NEW q \in Queries, GetOrCreateMaterializer(q)
  PROVE  OrderInv'
<1> DEFINE s == SqlOf[q]
<1>1. /\ calledBefore' = {p \in CalledNow(s) : primary'[p[1]] # None /\ primary'[p[2]] # None}
      /\ TypeOK /\ s \in Sqls
  BY Resolved DEF GetOrCreateMaterializer, CacheInv
<1>2. \A a, b \in Sqls : <<a, b>> \in calledBefore' => primary'[a] # None /\ primary'[b] # None
  BY <1>1
<1>3. CASE Hit(q) \/ Miss(q)
  <2>1. PICK list \in Seq(NodeSet), cache \in [Sqls -> Materializers \cup {None}] :
          /\ Kept(list, cache, freshUntil')
          /\ CallsInOrder(list, CalledNow(s))
          /\ Evict(cache, list)
    BY <1>3, BeforeEviction
  <2>2. CallsInOrder(list, calledBefore')
    BY <1>1, <2>1 DEF CallsInOrder
  <2>3. CallsInOrder(expirations', calledBefore')
    <3>1. CASE ~Expired(list)
      BY <2>1, <2>2, <3>1 DEF Evict
    <3>2. CASE Expired(list)
      <4>1. list # <<>> /\ expirations' = ListEvicted(list)
        BY <2>1, <3>2 DEF Evict, Expired
      <4>2. /\ Len(expirations') = Len(list) - 1 /\ Len(list) \in Nat
            /\ \A i \in 1 .. Len(list) - 1 : /\ expirations'[i].key = list[i + 1].key
                                             /\ expirations'[i].live => list[i + 1].live
        <5>1. /\ Len(ListEvicted(list)) = Len(list) - 1
              /\ \A i \in 1 .. Len(list) - 1 :
                   /\ ListEvicted(list)[i].key = list[i + 1].key
                   /\ ListEvicted(list)[i].live => list[i + 1].live
          BY <2>1, <4>1, EvictedIsKept
        <5>2. Len(list) \in Nat
          OBVIOUS
        <5> QED
          BY <4>1, <5>1, <5>2
      <4>3. \A i, j \in 1 .. Len(list) :
              list[i].live /\ list[j].live /\ <<list[i].key, list[j].key>> \in calledBefore'
                => i < j
        BY <2>2 DEF CallsInOrder
      <4>4. ASSUME NEW i \in 1 .. Len(list) - 1, NEW j \in 1 .. Len(list) - 1,
                   expirations'[i].live, expirations'[j].live,
                   <<expirations'[i].key, expirations'[j].key>> \in calledBefore'
            PROVE  i < j
        <5>1. i + 1 \in 1 .. Len(list) /\ j + 1 \in 1 .. Len(list)
          BY <4>2
        <5>2. i + 1 < j + 1
          BY <4>2, <4>3, <4>4, <5>1
        <5> QED
          BY <5>2
      <4> QED
        BY <4>2, <4>4 DEF CallsInOrder
    <3> QED
      BY <3>1, <3>2
  <2> QED
    BY <1>2, <2>3 DEF OrderInv, CallsInOrder
<1>4. CASE MissThrows(q)
  <2>1. /\ primary' = primary /\ primary[s] = None /\ expirations' = Added(s, FALSE)
        /\ expirations \in Seq(NodeSet)
    BY <1>4 DEF MissThrows, CacheInv, Kept
  <2>2. /\ Len(expirations') = Len(expirations) + 1 /\ Len(expirations) \in Nat
        /\ \A i \in 1 .. Len(expirations) : expirations'[i] = expirations[i]
        /\ ~expirations'[Len(expirations) + 1].live
    BY <1>1, <2>1, AddedNode
  <2>3. \A a, b \in Sqls : <<a, b>> \in calledBefore' => <<a, b>> \in calledBefore
    BY <1>1, <1>2, <2>1, CallsBefore
  <2>4. \A i, j \in 1 .. Len(expirations) :
          expirations[i].live /\ expirations[j].live
            /\ <<expirations[i].key, expirations[j].key>> \in calledBefore => i < j
    BY DEF OrderInv, CallsInOrder
  <2>5. \A i \in 1 .. Len(expirations) : expirations[i].key \in Sqls
    <3>1. \A i \in 1 .. Len(expirations) : expirations[i] \in NodeSet
      BY <2>1
    <3> QED
      BY <3>1 DEF NodeSet
  <2>6. CallsInOrder(expirations', calledBefore')
    BY <2>2, <2>3, <2>4, <2>5 DEF CallsInOrder
  <2> QED
    BY <1>2, <2>6 DEF OrderInv, CallsInOrder
<1> QED
  BY <1>3, <1>4 DEF GetOrCreateMaterializer

(* The entry that a call evicts is the one that was called least recently, *)
(* whatever the clock, the expiration time and failing queries did before. *)
THEOREM LeastRecentGoes == Spec => OldestIsEvicted
<1>1. Init => OrderInv
  BY DEF Init, OrderInv, CallsInOrder
<1>2. CacheInv /\ OrderInv /\ [Next]_vars => OrderInv'
  <2> SUFFICES ASSUME CacheInv, OrderInv, [Next]_vars PROVE OrderInv'
    OBVIOUS
  <2>1. CASE ClockChanges \/ SetDynamicCacheExpirationTime \/ UNCHANGED vars
    BY <2>1 DEF ClockChanges, SetDynamicCacheExpirationTime, vars, OrderInv, CallsInOrder
  <2> QED
    BY <2>1, CallInOrder DEF Next
<1>3. ASSUME CacheInv, OrderInv, [Next]_vars, NEW s \in ReliableSqls, NEW t \in Sqls,
             primary[s] # None, primary'[s] = None, <<t, s>> \in calledBefore
      PROVE  t = SqlOf[returned'.query]
  <2>1. PICK q \in Queries : GetOrCreateMaterializer(q)
    BY <1>3 DEF Next, ClockChanges, SetDynamicCacheExpirationTime, vars
  <2>2. Hit(q) \/ Miss(q)
    BY <1>3, <2>1 DEF GetOrCreateMaterializer, MissThrows
  <2>3. returned'.query = q
    <3>1. \E m : returned' = [query |-> q, materializer |-> m]
      <4>1. CASE Hit(q)
        BY <4>1 DEF Hit
      <4>2. CASE Miss(q)
        BY <4>2 DEF Miss
      <4> QED
        BY <2>2, <4>1, <4>2
    <3> QED
      BY <3>1
  <2>4. PICK list \in Seq(NodeSet), cache \in [Sqls -> Materializers \cup {None}] :
          /\ Kept(list, cache, freshUntil')
          /\ CallsInOrder(list, CalledNow(SqlOf[q]))
          /\ Evict(cache, list)
          /\ \A r \in Sqls : primary[r] # None => cache[r] # None
    BY <1>3, <2>1, <2>2, BeforeEviction
  <2>5. s \in Sqls /\ cache[s] # None /\ cache[t] # None
    BY <1>3, <2>4 DEF OrderInv, ReliableSqls
  <2>6. list # <<>> /\ primary' = EntryEvicted(cache, list)
    BY <1>3, <2>4, <2>5 DEF Evict, Expired
  <2>7. 1 \in 1 .. Len(list) /\ list[1].key = s /\ list[1].live
    <3>1. 1 \in 1 .. Len(list) /\ Head(list) = list[1]
      BY <2>6
    <3>2. list[1].key = s
      BY <1>3, <2>5, <2>6, <3>1 DEF EntryEvicted
    <3> QED
      BY <2>4, <3>1, <3>2 DEF Kept, NoneLeft
  <2>8. PICK j \in 1 .. Len(list) : list[j].live /\ list[j].key = t
    BY <2>4, <2>5 DEF Kept, Linked
  <2>9. ASSUME t # SqlOf[q] PROVE FALSE
    <3>1. <<t, s>> \in CalledNow(SqlOf[q])
      BY <1>3, <2>9 DEF CalledNow
    <3>2. j < 1
      BY <2>4, <2>7, <2>8, <3>1 DEF CallsInOrder
    <3> QED
      BY <2>8, <3>2
  <2> QED
    BY <2>3, <2>9
<1>4. CacheInv /\ OrderInv /\ [Next]_vars =>
        [\A s \in ReliableSqls, t \in Sqls :
           /\ primary[s] # None /\ primary'[s] = None
           /\ <<t, s>> \in calledBefore
           => t = SqlOf[returned'.query]]_vars
  BY <1>3
<1> QED
  BY <1>1, <1>2, <1>4, CacheInvariance, PTL DEF Spec, OldestIsEvicted

-----------------------------------------------------------------------------
(* Which materializer a query is given.                                    *)

(* Materializers whose keys are those of a query with SQL s.               *)
MadeFor(s) ==
  {Compiled(r) : r \in {r \in Matching : \E p \in Matching :
     SqlOf[p] = s /\ SecondLayerKey(Compiled(p)) = SecondLayerKey(Compiled(r))}}

FitInv ==
  /\ secondary \subseteq {Compiled(q) : q \in Matching}
  /\ \A s \in Sqls : primary[s] \in {None} \cup MadeFor(s)
  /\ MaterializerFits

LEMMA MadeForIsAlike ==
  ASSUME NEW q PROVE MadeFor(SqlOf[q]) = {Compiled(r) : r \in Alike(q)}
  BY DEF MadeFor, Alike

LEMMA ResolvedFits ==
  ASSUME TypeOK, FitInv, NEW q \in Matching
  PROVE  Resolve(q) \in MadeFor(SqlOf[q]) /\ Resolve(q) \in {Compiled(r) : r \in Matching}
<1>1. q \in Queries
  BY CacheAssumption
<1>2. PICK r \in Matching : /\ Resolve(q) = Compiled(r)
                            /\ SecondLayerKey(Compiled(q)) = SecondLayerKey(Compiled(r))
  <2>1. CASE SameKey(q) = {}
    BY <1>1, <2>1, Resolved
  <2>2. CASE SameKey(q) # {}
    BY <1>1, <2>2, Resolved DEF SameKey, FitInv
  <2> QED
    BY <2>1, <2>2
<1> QED
  BY <1>2 DEF MadeFor

(* Whatever the caches kept or forgot, a query is given a materializer for *)
(* the columns and the joined entities of a query with its SQL: its own,   *)
(* unless another query shares the SQL, or reaches the same entities by    *)
(* other relations.                                                        *)
THEOREM OwnMaterializer == Spec => []MaterializerFits
<1>1. Init => FitInv
  <2>1. Init => returned.materializer = None
    BY DEF Init
  <2> QED
    BY <2>1 DEF Init, FitInv, MaterializerFits
<1>2. CacheInv /\ FitInv /\ [Next]_vars => FitInv'
  <2> SUFFICES ASSUME CacheInv, FitInv, [Next]_vars PROVE FitInv'
    OBVIOUS
  <2>1. /\ TypeOK /\ primary \in [Sqls -> Materializers \cup {None}]
        /\ \A q \in Queries : SqlOf[q] \in Sqls
        /\ Matching \subseteq Queries
        /\ \A s \in Sqls : primary[s] \in {None} \cup MadeFor(s)
    BY CacheAssumption DEF CacheInv, FitInv, TypeOK, Sqls
  <2>2. ASSUME NEW cache \in [Sqls -> Materializers \cup {None}], NEW list, Evict(cache, list)
        PROVE  \A s \in Sqls : primary'[s] \in {None, cache[s]}
    BY <2>2 DEF Evict, EntryEvicted
  <2>3. ASSUME NEW q \in Queries, Hit(q) PROVE FitInv'
    <3>1. /\ returned' = [query |-> q, materializer |-> primary[SqlOf[q]]]
          /\ secondary' = secondary
          /\ \A s \in Sqls : primary'[s] \in {None, primary[s]}
      BY <2>1, <2>2, <2>3 DEF Hit
    <3>2. MaterializerFits'
      BY <2>1, <3>1, MadeForIsAlike DEF MaterializerFits
    <3>3. \A s \in Sqls : primary'[s] \in {None} \cup MadeFor(s)
      BY <2>1, <3>1
    <3> QED
      BY <3>1, <3>2, <3>3 DEF FitInv
  <2>4. ASSUME NEW q \in Queries, Miss(q) PROVE FitInv'
    <3> DEFINE cache == [primary EXCEPT ![SqlOf[q]] = Resolve(q)]
    <3>1. /\ q \in Matching /\ Resolve(q) \in Materializers /\ SqlOf[q] \in Sqls
          /\ Resolve(q) \in MadeFor(SqlOf[q]) /\ Resolve(q) \in {Compiled(r) : r \in Matching}
          /\ returned' = [query |-> q, materializer |-> Resolve(q)]
          /\ secondary' = secondary \cup {Resolve(q)}
          /\ Evict(cache, Added(SqlOf[q], TRUE))
      BY <2>1, <2>4, Resolved, ResolvedFits DEF Miss
    <3>2. /\ cache \in [Sqls -> Materializers \cup {None}]
          /\ \A s \in Sqls : cache[s] \in {None} \cup MadeFor(s)
      BY <2>1, <3>1
    <3> HIDE DEF cache
    <3>3. \A s \in Sqls : primary'[s] \in {None} \cup MadeFor(s)
      BY <2>2, <3>1, <3>2
    <3>4. MaterializerFits'
      BY <3>1, MadeForIsAlike DEF MaterializerFits
    <3> QED
      BY <3>1, <3>3, <3>4 DEF FitInv
  <2>5. ASSUME NEW q \in Queries, MissThrows(q) PROVE FitInv'
    BY <2>5 DEF MissThrows, FitInv, MaterializerFits
  <2>6. CASE ClockChanges \/ SetDynamicCacheExpirationTime \/ UNCHANGED vars
    BY <2>6 DEF ClockChanges, SetDynamicCacheExpirationTime, vars, FitInv, MaterializerFits
  <2> QED
    BY <2>3, <2>4, <2>5, <2>6 DEF Next, GetOrCreateMaterializer
<1>3. FitInv => MaterializerFits
  BY DEF FitInv
<1> QED
  BY <1>1, <1>2, <1>3, CacheInvariance, PTL DEF Spec

=============================================================================

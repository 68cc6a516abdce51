---------------------------- MODULE JoinPathsProofs ----------------------------
(***************************************************************************)
(* Proofs about JoinPaths, for any relations between any entities and any  *)
(* number of joins: the joins form a tree that the SQL can be generated    *)
(* from, each configured join is in it once, the SQL and the materializer  *)
(* agree on the order of the tables as long as none is configured twice,   *)
(* and a row is cut into the tables that it was selected from.             *)
(***************************************************************************)
EXTENDS JoinPaths, FiniteSetTheorems, SequenceTheorems, WellFoundedInduction, TLAPS

Joins == [relation : Relations, parent : Nat]

(* A tree of joins: each starts from one that came before it, and no two   *)
(* of one relation start from the same one.                                *)
Reachable(path) ==
  \A i \in 1 .. Len(path) :
    /\ path[i].parent \in 0 .. i - 1
    /\ EntityAt(path, path[i].parent) = LeftOf[path[i].relation]
SiblingsDiffer(path) == \A i, j \in 1 .. Len(path) : path[i] = path[j] => i = j
Tree(path) == path \in Seq(Joins) /\ Reachable(path) /\ SiblingsDiffer(path)

Routes(path) == [i \in 1 .. Len(path) |-> PathOf(path)[i]]

(* As long as no option is set between two joins, the joins in the tree    *)
(* are those configured, in their order.                                   *)
AllBuilt ==
  "configure" \notin used =>
    /\ receiver = "command" => flattenedPath = <<>>
    /\ configured = Routes(flattenedPath)

TreeInv ==
  /\ Tree(flattenedPath)
  /\ currentPath \in 0 .. Len(flattenedPath)
  /\ AllBuilt

-----------------------------------------------------------------------------
(* Routes: the relations from the root to a join.                          *)

(* A nonempty set of numbers has a least element.                          *)
LEMMA LeastNumber ==
  ASSUME NEW N \in SUBSET Nat, N # {}
  PROVE  \E x \in N : \A y \in N : x <= y
<1> DEFINE T == {0 .. x : x \in N}
<1>1. T \subseteq FiniteSubsetsOf(Nat)
  <2> SUFFICES ASSUME NEW x \in N
               PROVE  0 .. x \in FiniteSubsetsOf(Nat)
    OBVIOUS
  <2>1. 0 \in Int /\ x \in Int
    OBVIOUS
  <2>2. IsFiniteSet(0 .. x)
    BY <2>1, FS_Interval
  <2>3. 0 .. x \in SUBSET Nat
    OBVIOUS
  <2> QED
    BY <2>2, <2>3 DEF FiniteSubsetsOf
<1>2. IsWellFoundedOn(StrictSubsetOrdering(Nat), FiniteSubsetsOf(Nat))
  BY FS_StrictSubsetOrderingWellFounded
<1>3. T # {}
  OBVIOUS
<1> HIDE DEF T
<1>4. PICK U \in T : \A V \in T : ~(<<V, U>> \in StrictSubsetOrdering(Nat))
  BY <1>1, <1>2, <1>3, WFMin, Zenon
<1> USE DEF T
<1>5. PICK x \in N : U = 0 .. x
  BY <1>4
<1>6. ASSUME NEW y \in N
      PROVE  x <= y
  <2> SUFFICES ASSUME y < x
               PROVE  FALSE
    OBVIOUS
  <2>1. (0 .. y) \in T /\ 0 .. y \subseteq 0 .. x /\ x \in 0 .. x /\ x \notin 0 .. y
    OBVIOUS
  <2>2. <<0 .. y, U>> \in StrictSubsetOrdering(Nat)
    BY <2>1, <1>5 DEF StrictSubsetOrdering
  <2> QED
    BY <2>1, <2>2, <1>4
<1> QED
  BY <1>6

(* The recursion in PathOf, up to the join n.                              *)
IsRoute(f, path, n) ==
  f = [p \in 0 .. n |-> IF p = 0 THEN <<>> ELSE Append(f[path[p].parent], path[p].relation)]

LEMMA RoutesExist ==
  ASSUME NEW path, Tree(path), NEW n \in 0 .. Len(path)
  PROVE  \E f : IsRoute(f, path, n)
<1> DEFINE without == {k \in Nat : k <= Len(path) /\ ~\E f : IsRoute(f, path, k)}
<1>0. Len(path) \in Nat
  BY LenProperties DEF Tree
<1>1. SUFFICES ASSUME without # {}
               PROVE  FALSE
  BY <1>0
<1>2. PICK k \in without : \A j \in without : k <= j
  BY <1>1, LeastNumber
<1>3. k # 0
  <2> SUFFICES ASSUME k = 0
               PROVE  FALSE
    OBVIOUS
  <2>1. PICK f : f = [p \in 0 .. 0 |-> <<>>]
    OBVIOUS
  <2>2. f = [p \in 0 .. 0 |-> IF p = 0 THEN <<>> ELSE Append(f[path[p].parent], path[p].relation)]
    BY <2>1
  <2> QED
    BY <2>2 DEF IsRoute
<1>4. k \in Nat /\ k - 1 \in Nat /\ k <= Len(path) /\ k - 1 \notin without
  BY <1>2, <1>3
<1>5. PICK g : IsRoute(g, path, k - 1)
  BY <1>0, <1>4
<1>6. path[k].parent \in 0 .. k - 1
  BY <1>0, <1>3, <1>4 DEF Tree, Reachable
<1>7. PICK last : last = Append(g[path[k].parent], path[k].relation)
  OBVIOUS
<1>8. PICK h : h = [p \in 0 .. k |-> IF p = k THEN last ELSE g[p]]
  OBVIOUS
<1>9. \A p \in 0 .. k - 1 : h[p] = g[p]
  BY <1>4, <1>8
<1>10. \A p \in 1 .. k - 1 : path[p].parent \in 0 .. k - 1
  BY <1>0, <1>4 DEF Tree, Reachable
<1>11. ASSUME NEW p \in 0 .. k
       PROVE  h[p] = IF p = 0 THEN <<>> ELSE Append(h[path[p].parent], path[p].relation)
  <2>1. CASE p = k
    <3>1. h[p] = last
      BY <1>4, <1>8, <2>1
    <3>2. h[path[k].parent] = g[path[k].parent]
      BY <1>6, <1>9
    <3> QED
      BY <1>3, <1>7, <2>1, <3>1, <3>2
  <2>2. CASE p # k
    <3>1. p \in 0 .. k - 1
      BY <1>4, <2>2
    <3>2. g[p] = IF p = 0 THEN <<>> ELSE Append(g[path[p].parent], path[p].relation)
      BY <1>5, <3>1 DEF IsRoute
    <3>3. p # 0 => h[path[p].parent] = g[path[p].parent]
      BY <1>9, <1>10, <3>1
    <3> QED
      BY <1>9, <3>1, <3>2, <3>3
  <2> QED
    BY <2>1, <2>2
<1>12. h = [p \in 0 .. k |-> h[p]]
  BY <1>8
<1>13. IsRoute(h, path, k)
  BY <1>11, <1>12 DEF IsRoute
<1> QED
  BY <1>2, <1>13

LEMMA RouteSteps ==
  ASSUME NEW path, Tree(path)
  PROVE  /\ Len(path) \in Nat
         /\ PathOf(path)[0] = <<>>
         /\ \A p \in 1 .. Len(path) :
              PathOf(path)[p] = Append(PathOf(path)[path[p].parent], path[p].relation)
<1>1. Len(path) \in Nat
  BY LenProperties DEF Tree
<1>2. \E f : IsRoute(f, path, Len(path))
  BY <1>1, RoutesExist
<1>3. PICK f : f = PathOf(path)
  OBVIOUS
<1>4. f = CHOOSE g : IsRoute(g, path, Len(path))
  BY <1>3 DEF PathOf, IsRoute
<1>5. IsRoute(f, path, Len(path))
  BY <1>2, <1>4
<1>6. \A p \in 0 .. Len(path) :
        f[p] = IF p = 0 THEN <<>> ELSE Append(f[path[p].parent], path[p].relation)
  BY <1>5 DEF IsRoute
<1>7. f[0] = <<>>
  BY <1>1, <1>6
<1>8. ASSUME NEW p \in 1 .. Len(path)
      PROVE  f[p] = Append(f[path[p].parent], path[p].relation)
  <2>1. p \in 0 .. Len(path) /\ p # 0
    BY <1>1
  <2> QED
    BY <1>6, <2>1
<1> QED
  BY <1>1, <1>3, <1>7, <1>8

(* Routes are sequences of relations.                                      *)
LEMMA RouteTypes ==
  ASSUME NEW path, Tree(path)
  PROVE  \A p \in 0 .. Len(path) : PathOf(path)[p] \in Seq(Relations)
<1> DEFINE wrong == {k \in Nat : k <= Len(path) /\ PathOf(path)[k] \notin Seq(Relations)}
<1>1. PICK f : f = PathOf(path)
  OBVIOUS
<1>2. /\ Len(path) \in Nat /\ f[0] = <<>>
      /\ \A p \in 1 .. Len(path) : f[p] = Append(f[path[p].parent], path[p].relation)
  BY <1>1, RouteSteps
<1>3. SUFFICES ASSUME wrong # {}
               PROVE  FALSE
  BY <1>2
<1>4. PICK k \in wrong : \A j \in wrong : k <= j
  BY <1>3, LeastNumber
<1>5. k # 0
  <2>1. f[0] \in Seq(Relations)
    BY <1>2, EmptySeq
  <2> QED
    BY <1>1, <1>4, <2>1
<1>6. k \in 1 .. Len(path) /\ path[k].parent \in 0 .. k - 1 /\ path[k].relation \in Relations
  <2>1. k \in 1 .. Len(path)
    BY <1>2, <1>4, <1>5
  <2>2. path[k] \in Joins
    BY <2>1, ElementOfSeq DEF Tree
  <2> QED
    BY <2>1, <2>2 DEF Tree, Reachable, Joins
<1>7. path[k].parent \in Nat /\ path[k].parent <= Len(path) /\ path[k].parent < k
  BY <1>2, <1>6
<1>8. f[path[k].parent] \in Seq(Relations)
  BY <1>1, <1>4, <1>7
<1>9. f[k] \in Seq(Relations)
  <2>1. PICK t : t = f[path[k].parent]
    OBVIOUS
  <2>2. PICK a : a = path[k].relation
    OBVIOUS
  <2>3. t \in Seq(Relations) /\ a \in Relations /\ f[k] = Append(t, a)
    BY <1>2, <1>6, <1>8, <2>1, <2>2
  <2>4. Append(t, a) \in Seq(Relations)
    BY <2>3, AppendProperties
  <2> QED
    BY <2>3, <2>4
<1> QED
  BY <1>1, <1>4, <1>9

(* Siblings have different relations, so routes lead to one join each.     *)
LEMMA RoutesDiffer ==
  ASSUME NEW path, Tree(path)
  PROVE  \A p, q \in 0 .. Len(path) : PathOf(path)[p] = PathOf(path)[q] => p = q
<1> DEFINE double == {k \in Nat : k <= Len(path) /\
                        \E q \in 0 .. Len(path) : q # k /\ PathOf(path)[k] = PathOf(path)[q]}
<1>1. PICK f : f = PathOf(path)
  OBVIOUS
<1>2. /\ Len(path) \in Nat /\ f[0] = <<>>
      /\ \A p \in 1 .. Len(path) : f[p] = Append(f[path[p].parent], path[p].relation)
  BY <1>1, RouteSteps
<1>3. \A p \in 0 .. Len(path) : f[p] \in Seq(Relations)
  BY <1>1, RouteTypes
<1>4. SUFFICES ASSUME double # {}
               PROVE  FALSE
  BY <1>2
<1>5. PICK k \in double : \A j \in double : k <= j
  BY <1>4, LeastNumber
<1>6. PICK q \in 0 .. Len(path) : q # k /\ f[k] = f[q]
  BY <1>1, <1>5
<1>7. k \in 0 .. Len(path)
  BY <1>2, <1>5
<1>8. ASSUME NEW p \in 1 .. Len(path)
      PROVE  /\ path[p].parent \in 0 .. p - 1 /\ path[p] \in Joins
             /\ f[path[p].parent] \in Seq(Relations) /\ path[p].relation \in Relations
             /\ f[p] = Append(f[path[p].parent], path[p].relation)
  <2>1. path[p].parent \in 0 .. p - 1
    BY <1>8 DEF Tree, Reachable
  <2>2. path[p] \in Joins
    BY <1>8, ElementOfSeq DEF Tree
  <2>3. path[p].parent \in 0 .. Len(path)
    BY <1>2, <1>8, <2>1
  <2> QED
    BY <1>2, <1>3, <2>1, <2>2, <2>3 DEF Joins
<1>9. \A p \in 1 .. Len(path) : f[p] # <<>>
  <2> SUFFICES ASSUME NEW p \in 1 .. Len(path)
               PROVE  f[p] # <<>>
    OBVIOUS
  <2>1. PICK s : s = f[path[p].parent]
    OBVIOUS
  <2>2. PICK a : a = path[p].relation
    OBVIOUS
  <2>3. s \in Seq(Relations) /\ a \in Relations /\ f[p] = Append(s, a)
    BY <1>8, <2>1, <2>2
  <2>4. Append(s, a) # <<>>
    BY <2>3, AppendProperties
  <2> QED
    BY <2>3, <2>4
<1>10. k # 0 /\ q # 0
  BY <1>2, <1>6, <1>7, <1>9
<1>11. k \in 1 .. Len(path) /\ q \in 1 .. Len(path)
  BY <1>2, <1>6, <1>7, <1>10
<1>12. f[path[k].parent] = f[path[q].parent] /\ path[k].relation = path[q].relation
  <2>1. PICK s : s = f[path[k].parent]
    OBVIOUS
  <2>2. PICK t : t = f[path[q].parent]
    OBVIOUS
  <2>3. PICK a : a = path[k].relation
    OBVIOUS
  <2>4. PICK b : b = path[q].relation
    OBVIOUS
  <2>5. /\ s \in Seq(Relations) /\ t \in Seq(Relations) /\ a \in Relations /\ b \in Relations
        /\ Append(s, a) = Append(t, b)
    BY <1>6, <1>8, <1>11, <2>1, <2>2, <2>3, <2>4
  <2>6. s = t /\ a = b
    BY <2>5, AppendInjective
  <2> QED
    BY <2>1, <2>2, <2>3, <2>4, <2>6
<1>13. path[k].parent = path[q].parent
  <2>1. /\ path[k].parent \in Nat /\ path[k].parent < k /\ path[k].parent <= Len(path)
        /\ path[q].parent \in 0 .. Len(path)
    BY <1>2, <1>8, <1>11
  <2> QED
    BY <1>1, <1>5, <1>12, <2>1
<1>14. path[k] = path[q]
  <2>1. path[k] \in Joins /\ path[q] \in Joins
    BY <1>8, <1>11
  <2>2. \A x, y \in Joins : x.relation = y.relation /\ x.parent = y.parent => x = y
    BY DEF Joins
  <2> QED
    BY <1>12, <1>13, <2>1, <2>2
<1> QED
  BY <1>6, <1>11, <1>14 DEF Tree, SiblingsDiffer

(* The routes of the joins that are there stay when another is added.      *)
LEMMA RoutesStay ==
  ASSUME NEW path, NEW longer, Tree(path), Tree(longer), Len(longer) = Len(path) + 1,
         \A i \in 1 .. Len(path) : longer[i] = path[i]
  PROVE  \A p \in 0 .. Len(path) : PathOf(longer)[p] = PathOf(path)[p]
<1> DEFINE moved == {k \in Nat : k <= Len(path) /\ PathOf(longer)[k] # PathOf(path)[k]}
<1>1. PICK f : f = PathOf(path)
  OBVIOUS
<1>2. PICK g : g = PathOf(longer)
  OBVIOUS
<1>3. /\ Len(path) \in Nat /\ f[0] = <<>>
      /\ \A p \in 1 .. Len(path) : f[p] = Append(f[path[p].parent], path[p].relation)
  BY <1>1, RouteSteps
<1>4. /\ g[0] = <<>>
      /\ \A p \in 1 .. Len(longer) : g[p] = Append(g[longer[p].parent], longer[p].relation)
  BY <1>2, RouteSteps
<1>5. SUFFICES ASSUME moved # {}
               PROVE  FALSE
  BY <1>3
<1>6. PICK k \in moved : \A j \in moved : k <= j
  BY <1>5, LeastNumber
<1>7. k # 0
  BY <1>1, <1>2, <1>3, <1>4, <1>6
<1>8. k \in 1 .. Len(path) /\ k \in 1 .. Len(longer) /\ longer[k] = path[k]
  BY <1>3, <1>6, <1>7
<1>9. path[k].parent \in Nat /\ path[k].parent < k /\ path[k].parent <= Len(path)
  BY <1>3, <1>8 DEF Tree, Reachable
<1>10. g[path[k].parent] = f[path[k].parent]
  BY <1>1, <1>2, <1>6, <1>9
<1>11. g[k] = f[k]
  BY <1>3, <1>4, <1>8, <1>10
<1> QED
  BY <1>1, <1>2, <1>6, <1>11

-----------------------------------------------------------------------------
(* Adding a join.                                                          *)

LEMMA Added ==
  ASSUME NEW path, Tree(path), NEW p \in 0 .. Len(path), NEW r \in Relations,
         LeftOf[r] = EntityAt(path, p), AddToPath(path, p, r)
  PROVE  /\ Tree(flattenedPath') /\ currentPath' \in 0 .. Len(flattenedPath')
         /\ \/ /\ \E i \in 1 .. Len(path) : path[i] = [relation |-> r, parent |-> p]
               /\ flattenedPath' = path
            \/ /\ \A i \in 1 .. Len(path) : path[i] # [relation |-> r, parent |-> p]
               /\ flattenedPath' = Append(path, [relation |-> r, parent |-> p])
<1> DEFINE join == [relation |-> r, parent |-> p]
<1>1. path \in Seq(Joins) /\ Len(path) \in Nat /\ DOMAIN path = 1 .. Len(path)
  BY LenProperties DEF Tree
<1>2. \A i \in 1 .. Len(path) : path[i] \in Joins
  BY <1>1, ElementOfSeq
<1>3. join \in Joins
  BY <1>1 DEF Joins
<1>4. \A i \in 1 .. Len(path) : path[i] = join <=> path[i].parent = p /\ path[i].relation = r
  <2>1. \A x, y \in Joins : x = y <=> x.relation = y.relation /\ x.parent = y.parent
    BY DEF Joins
  <2>2. join.relation = r /\ join.parent = p
    OBVIOUS
  <2> QED
    BY <1>2, <1>3, <2>1, <2>2
<1>5. CASE \E i \in Trailing(path, p) : path[i].relation = r
  <2>1. flattenedPath' = path /\ currentPath' \in Trailing(path, p)
    BY <1>5 DEF AddToPath
  <2>2. currentPath' \in 0 .. Len(flattenedPath')
    BY <1>1, <2>1 DEF Trailing
  <2>3. \E i \in 1 .. Len(path) : path[i] = join
    BY <1>1, <1>4, <1>5 DEF Trailing
  <2> QED
    BY <2>1, <2>2, <2>3
<1>6. CASE ~\E i \in Trailing(path, p) : path[i].relation = r
  <2>1. PICK j : j = join
    OBVIOUS
  <2>2. PICK longer : longer = Append(path, j)
    OBVIOUS
  <2>3. flattenedPath' = longer /\ currentPath' = Len(path) + 1
    BY <1>6, <2>1, <2>2 DEF AddToPath
  <2>4. j \in Joins /\ j.relation = r /\ j.parent = p
    BY <1>3, <2>1
  <2>5. /\ longer \in Seq(Joins) /\ Len(longer) = Len(path) + 1
        /\ \A i \in 1 .. Len(path) : longer[i] = path[i]
        /\ longer[Len(path) + 1] = j
    BY <1>1, <2>2, <2>4, AppendProperties
  <2>6. \A q \in 0 .. Len(path) : EntityAt(longer, q) = EntityAt(path, q)
    BY <1>1, <2>5 DEF EntityAt
  <2>7. \A i \in 1 .. Len(path) : path[i] # j
    BY <1>1, <1>4, <1>6, <2>1 DEF Trailing
  <2>8. Reachable(longer)
    <3> SUFFICES ASSUME NEW i \in 1 .. Len(path) + 1
                 PROVE  /\ longer[i].parent \in 0 .. i - 1
                        /\ EntityAt(longer, longer[i].parent) = LeftOf[longer[i].relation]
      BY <2>5 DEF Reachable
    <3>1. CASE i = Len(path) + 1
      <4>1. longer[i] = j /\ p \in 0 .. i - 1
        BY <1>1, <2>5, <3>1
      <4> QED
        BY <2>4, <2>6, <4>1
    <3>2. CASE i # Len(path) + 1
      <4>1. i \in 1 .. Len(path) /\ longer[i] = path[i]
        BY <1>1, <2>5, <3>2
      <4>2. path[i].parent \in 0 .. i - 1 /\ EntityAt(path, path[i].parent) = LeftOf[path[i].relation]
        BY <4>1 DEF Tree, Reachable
      <4>3. path[i].parent \in 0 .. Len(path)
        BY <1>1, <4>1, <4>2
      <4> QED
        BY <2>6, <4>1, <4>2, <4>3
    <3> QED
      BY <3>1, <3>2
  <2>9. SiblingsDiffer(longer)
    <3> SUFFICES ASSUME NEW i \in 1 .. Len(path) + 1, NEW k \in 1 .. Len(path) + 1,
                        longer[i] = longer[k], i # k
                 PROVE  FALSE
      BY <2>5 DEF SiblingsDiffer
    <3>1. i = Len(path) + 1 \/ i \in 1 .. Len(path)
      BY <1>1
    <3>2. k = Len(path) + 1 \/ k \in 1 .. Len(path)
      BY <1>1
    <3>3. CASE i \in 1 .. Len(path) /\ k \in 1 .. Len(path)
      BY <2>5, <3>3 DEF Tree, SiblingsDiffer
    <3> QED
      BY <2>5, <2>7, <3>1, <3>2, <3>3
  <2>10. currentPath' \in 0 .. Len(flattenedPath')
    BY <1>1, <2>3, <2>5
  <2> QED
    BY <2>1, <2>2, <2>3, <2>5, <2>7, <2>8, <2>9, <2>10 DEF Tree
<1> QED
  BY <1>5, <1>6

(* A join is in the tree already exactly if its route was configured.      *)
LEMMA Remembered ==
  ASSUME NEW path, Tree(path), NEW p \in 0 .. Len(path), NEW r \in Relations,
         LeftOf[r] = EntityAt(path, p), AddToPath(path, p, r),
         configured = Routes(path), Remember(Append(PathOf(path)[p], r))
  PROVE  configured' = Routes(flattenedPath')
<1>1. PICK route : route = Append(PathOf(path)[p], r)
  OBVIOUS
<1>2. PICK f : f = PathOf(path)
  OBVIOUS
<1>3. /\ Len(path) \in Nat /\ path \in Seq(Joins)
      /\ \A i \in 1 .. Len(path) : f[i] = Append(f[path[i].parent], path[i].relation)
  BY <1>2, RouteSteps DEF Tree
<1>4. \A i \in 0 .. Len(path) : f[i] \in Seq(Relations)
  BY <1>2, RouteTypes
<1>5. \A i \in 1 .. Len(path) :
        /\ path[i].parent \in 0 .. Len(path) /\ path[i].relation \in Relations
        /\ path[i] = [relation |-> path[i].relation, parent |-> path[i].parent]
  <2> SUFFICES ASSUME NEW i \in 1 .. Len(path)
               PROVE  /\ path[i].parent \in 0 .. Len(path) /\ path[i].relation \in Relations
                      /\ path[i] = [relation |-> path[i].relation, parent |-> path[i].parent]
    OBVIOUS
  <2>1. path[i] \in Joins
    BY <1>3, ElementOfSeq
  <2>2. path[i].parent \in 0 .. Len(path)
    BY <1>3 DEF Tree, Reachable
  <2> QED
    BY <2>1, <2>2 DEF Joins
<1>6. configured = [i \in 1 .. Len(path) |-> f[i]]
  BY <1>2 DEF Routes
<1>7. /\ configured \in Seq(Seq(Relations)) /\ Len(configured) = Len(path)
  <2>1. \A i \in 1 .. Len(path) : f[i] \in Seq(Relations)
    BY <1>3, <1>4
  <2>2. configured \in [1 .. Len(path) -> Seq(Relations)]
    BY <1>6, <2>1
  <2>3. configured \in Seq(Seq(Relations))
    <3>1. PICK S : S = Seq(Relations)
      OBVIOUS
    <3>2. PICK n \in Nat : n = Len(path)
      BY <1>3
    <3>3. configured \in [1 .. n -> S]
      BY <2>2, <3>1, <3>2
    <3>4. configured \in Seq(S)
      BY <3>3, SeqDef
    <3> QED
      BY <3>1, <3>4
  <2> QED
    BY <1>3, <2>2, <2>3, LenProperties
<1>8. CASE /\ \E i \in 1 .. Len(path) : path[i] = [relation |-> r, parent |-> p]
           /\ flattenedPath' = path
  <2>1. PICK i \in 1 .. Len(path) : path[i] = [relation |-> r, parent |-> p]
    BY <1>8
  <2>2. path[i].relation = r /\ path[i].parent = p
    BY <2>1
  <2>3. f[i] = route
    BY <1>1, <1>2, <1>3, <2>2
  <2>4. Contains(configured, route)
    BY <1>6, <1>7, <2>3 DEF Contains
  <2>5. configured' = configured
    BY <1>1, <2>4 DEF Remember
  <2> QED
    BY <1>8, <2>5 DEF Routes
<1>9. CASE /\ \A i \in 1 .. Len(path) : path[i] # [relation |-> r, parent |-> p]
           /\ flattenedPath' = Append(path, [relation |-> r, parent |-> p])
  <2>1. PICK j : j = [relation |-> r, parent |-> p]
    OBVIOUS
  <2>2. PICK longer : longer = Append(path, j)
    OBVIOUS
  <2>3. flattenedPath' = longer /\ Tree(longer)
    BY <1>9, <2>1, <2>2, Added
  <2>4. j \in Joins /\ j.relation = r /\ j.parent = p
    BY <1>3, <2>1 DEF Joins
  <2>5. /\ Len(longer) = Len(path) + 1
        /\ \A i \in 1 .. Len(path) : longer[i] = path[i]
        /\ longer[Len(path) + 1] = j
    BY <1>3, <2>2, <2>4, AppendProperties
  <2>6. PICK g : g = PathOf(longer)
    OBVIOUS
  <2>7. \A i \in 0 .. Len(path) : g[i] = f[i]
    BY <1>2, <2>3, <2>5, <2>6, RoutesStay
  <2>8. \A i \in 1 .. Len(longer) : g[i] = Append(g[longer[i].parent], longer[i].relation)
    BY <2>3, <2>6, RouteSteps
  <2>9. g[Len(path) + 1] = route
    <3>1. Len(path) + 1 \in 1 .. Len(longer)
      BY <1>3, <2>5
    <3>2. g[Len(path) + 1] = Append(g[p], r)
      BY <2>4, <2>5, <2>8, <3>1
    <3> QED
      BY <1>1, <1>2, <2>7, <3>2
  <2>10. \A i \in 1 .. Len(path) : f[i] # route
    <3> SUFFICES ASSUME NEW i \in 1 .. Len(path), f[i] = route
                 PROVE  FALSE
      OBVIOUS
    <3>1. i \in 0 .. Len(longer) /\ Len(path) + 1 \in 0 .. Len(longer) /\ i # Len(path) + 1
      BY <1>3, <2>5
    <3>2. g[i] = g[Len(path) + 1]
      BY <1>3, <2>7, <2>9
    <3> QED
      BY <2>3, <2>6, <3>1, <3>2, RoutesDiffer
  <2>11. ~Contains(configured, route)
    BY <1>6, <1>7, <2>10 DEF Contains
  <2>12. configured' = Append(configured, route)
    BY <1>1, <2>11 DEF Remember
  <2>13. route \in Seq(Relations)
    <3>1. f[p] \in Seq(Relations)
      BY <1>4
    <3>2. PICK t : t = f[p]
      OBVIOUS
    <3>3. t \in Seq(Relations)
      BY <3>1, <3>2
    <3>4. Append(t, r) \in Seq(Relations)
      BY <3>3, AppendProperties
    <3> QED
      BY <1>1, <1>2, <3>2, <3>4
  <2>14. Append(configured, route) = [i \in 1 .. Len(path) + 1 |-> g[i]]
    <3>1. PICK c : c = configured
      OBVIOUS
    <3>2. c \in Seq(Seq(Relations)) /\ Len(c) = Len(path) /\ \A i \in 1 .. Len(path) : c[i] = f[i]
      BY <1>6, <1>7, <3>1
    <3>3. PICK d : d = Append(c, route)
      OBVIOUS
    <3>4. /\ d \in Seq(Seq(Relations)) /\ Len(d) = Len(path) + 1
          /\ \A i \in 1 .. Len(path) : d[i] = c[i]
          /\ d[Len(path) + 1] = route
      BY <2>13, <3>2, <3>3, AppendProperties
    <3>5. \A i \in 1 .. Len(path) + 1 : d[i] = g[i]
      <4> SUFFICES ASSUME NEW i \in 1 .. Len(path) + 1
                   PROVE  d[i] = g[i]
        OBVIOUS
      <4>1. CASE i = Len(path) + 1
        BY <2>9, <3>4, <4>1
      <4>2. CASE i # Len(path) + 1
        <5>1. i \in 1 .. Len(path) /\ i \in 0 .. Len(path)
          BY <1>3, <4>2
        <5> QED
          BY <2>7, <3>2, <3>4, <5>1
      <4> QED
        BY <4>1, <4>2
    <3>6. d = [i \in 1 .. Len(path) + 1 |-> d[i]]
      BY <3>4, LenProperties
    <3> QED
      BY <3>1, <3>3, <3>5, <3>6
  <2>15. Routes(longer) = [i \in 1 .. Len(path) + 1 |-> g[i]]
    BY <2>5, <2>6 DEF Routes
  <2> QED
    BY <2>3, <2>12, <2>14, <2>15
<1> QED
  BY <1>8, <1>9, Added

-----------------------------------------------------------------------------
(* The invariant is inductive.                                             *)

LEMMA EmptyTree == Tree(<<>>) /\ Len(<<>>) = 0 /\ Routes(<<>>) = <<>> /\ PathOf(<<>>)[0] = <<>>
<1>1. <<>> \in Seq(Joins) /\ Len(<<>>) = 0
  BY EmptySeq
<1>2. Tree(<<>>)
  BY <1>1 DEF Tree, Reachable, SiblingsDiffer
<1>3. Routes(<<>>) = <<>>
  BY <1>1 DEF Routes
<1> QED
  BY <1>1, <1>2, <1>3, RouteSteps

LEMMA Start == Init => TreeInv
BY EmptyTree DEF Init, TreeInv, AllBuilt

LEMMA RemembersUse ==
  ASSUME NEW route, Remember(route)
  PROVE  "configure" \notin used' => "configure" \notin used
BY DEF Remember

LEMMA KeepsJoinWith ==
  ASSUME TreeInv, NEW r \in Relations, JoinWith(r)
  PROVE  TreeInv'
<1>1. PICK path : path = IF receiver = "command" THEN <<>> ELSE flattenedPath
  OBVIOUS
<1>2. /\ LeftOf[r] = Root /\ AddToPath(path, 0, r) /\ Remember(<<r>>) /\ receiver' = "relation"
  BY <1>1 DEF JoinWith
<1>3. Tree(path)
  BY <1>1, EmptyTree DEF TreeInv
<1>4. 0 \in 0 .. Len(path) /\ LeftOf[r] = EntityAt(path, 0) /\ PathOf(path)[0] = <<>>
  BY <1>2, <1>3, RouteSteps DEF EntityAt
<1>5. Tree(flattenedPath') /\ currentPath' \in 0 .. Len(flattenedPath')
  BY <1>2, <1>3, <1>4, Added
<1>6. ASSUME "configure" \notin used'
      PROVE  configured' = Routes(flattenedPath')
  <2>1. path = flattenedPath /\ configured = Routes(path)
    BY <1>1, <1>2, <1>6, RemembersUse DEF TreeInv, AllBuilt
  <2>2. Remember(Append(PathOf(path)[0], r))
    BY <1>2, <1>4
  <2> QED
    BY <1>2, <1>3, <1>4, <2>1, <2>2, Remembered
<1> QED
  BY <1>2, <1>5, <1>6 DEF TreeInv, AllBuilt

LEMMA KeepsThenWith ==
  ASSUME TreeInv, NEW r \in Relations, ThenWith(r)
  PROVE  TreeInv'
<1>1. /\ receiver = "relation" /\ receiver' = receiver
      /\ LeftOf[r] = EntityAt(flattenedPath, currentPath)
      /\ AddToPath(flattenedPath, currentPath, r)
      /\ Remember(Append(PathOf(flattenedPath)[currentPath], r))
  BY DEF ThenWith
<1>2. Tree(flattenedPath) /\ currentPath \in 0 .. Len(flattenedPath)
  BY DEF TreeInv
<1>3. Tree(flattenedPath') /\ currentPath' \in 0 .. Len(flattenedPath')
  BY <1>1, <1>2, Added
<1>4. ASSUME "configure" \notin used'
      PROVE  configured' = Routes(flattenedPath')
  <2>1. configured = Routes(flattenedPath)
    BY <1>1, <1>4, RemembersUse DEF TreeInv, AllBuilt
  <2> QED
    BY <1>1, <1>2, <2>1, Remembered
<1> QED
  BY <1>1, <1>3, <1>4 DEF TreeInv, AllBuilt

(* After an option the tree is what it was, but no longer counts.          *)
LEMMA KeepsOthers ==
  ASSUME TreeInv, Configure \/ QueryAsync \/ UNCHANGED vars
  PROVE  TreeInv'
<1>1. UNCHANGED <<flattenedPath, currentPath, configured>>
  BY DEF Configure, QueryAsync, vars
<1>2. "configure" \in used' \/ UNCHANGED <<used, receiver>>
  BY DEF Configure, QueryAsync, vars
<1> QED
  BY <1>1, <1>2 DEF TreeInv, AllBuilt

(* The inductive invariant of a builder: the joins form a tree in which    *)
(* each comes after the one it continues, and unless an option was set in  *)
(* between, their routes are the configured ones, in the same order.       *)
THEOREM TreeInvariance == Spec => []TreeInv
<1>1. TreeInv /\ [Next]_vars => TreeInv'
  BY KeepsJoinWith, KeepsThenWith, KeepsOthers DEF Next
<1> QED
  BY <1>1, Start, PTL DEF Spec

(* The SQL that is generated from FlattenedPath never joins a table to one *)
(* that comes after it, nor to one of another entity than its relation's.  *)
THEOREM JoinsAreReachable == Spec => []JoinsReachable
<1>1. TreeInv => JoinsReachable
  <2> SUFFICES ASSUME TreeInv
               PROVE  JoinsReachable
    OBVIOUS
  <2>1. DOMAIN flattenedPath = 1 .. Len(flattenedPath)
    BY LenProperties DEF TreeInv, Tree
  <2> QED
    BY <2>1 DEF TreeInv, Tree, Reachable, JoinsReachable
<1> QED
  BY <1>1, TreeInvariance, PTL

(* AddToPath finds the join that is configured again, and only that: none  *)
(* is lost, none is there twice, whatever the relations are.               *)
THEOREM ReopenedJoinsStay == Spec => []ReopeningKeepsJoins
<1>1. TreeInv => ReopeningKeepsJoins
  <2> SUFFICES ASSUME TreeInv, "configure" \notin used
               PROVE  EveryJoinBuilt
    BY DEF ReopeningKeepsJoins
  <2>1. DOMAIN flattenedPath = 1 .. Len(flattenedPath)
    BY LenProperties DEF TreeInv, Tree
  <2>2. [i \in DOMAIN flattenedPath |-> PathOf(flattenedPath)[i]] = configured
    BY <2>1 DEF TreeInv, AllBuilt, Routes
  <2> QED
    BY <2>2 DEF EveryJoinBuilt
<1> QED
  BY <1>1, TreeInvariance, PTL

-----------------------------------------------------------------------------
(* Loops.                                                                  *)

(* Counting up to a number.                                                *)
LEMMA CountUp ==
  ASSUME NEW N \in Nat, NEW S, 0 \in S, \A k \in 1 .. N : k - 1 \in S => k \in S
  PROVE  \A k \in 0 .. N : k \in S
<1> DEFINE T == {k \in 0 .. N : k \notin S}
<1>1. T \in SUBSET Nat
  OBVIOUS
<1>2. ASSUME T # {}
      PROVE  FALSE
  <2>1. PICK k \in T : \A m \in T : k <= m
    <3> HIDE DEF T
    <3> QED
      BY <1>1, <1>2, LeastNumber, Zenon
  <2>2. k \in 0 .. N /\ k \notin S /\ k # 0
    BY <2>1
  <2>3. k \in 1 .. N /\ k - 1 \in 0 .. N /\ ~(k <= k - 1)
    BY <2>2
  <2>4. k - 1 \notin T
    BY <2>1, <2>3
  <2> QED
    BY <2>2, <2>3, <2>4
<1> QED
  BY <1>2

(* A loop has a history of its states, if its body is a function of them.  *)
IsHistory(h, N, V, base, F) ==
  /\ h \in [0 .. N -> V] /\ h[0] = base
  /\ \A n \in 1 .. N : h[n] = F[<<h[n - 1], n>>]

LEMMA Recursion ==
  ASSUME NEW N \in Nat, NEW V, NEW base \in V, NEW F \in [V \X (1 .. N) -> V]
  PROVE  \E h : IsHistory(h, N, V, base, F)
<1> DEFINE Fits(h, k) == IsHistory(h, k, V, base, F)
           S == {k \in 0 .. N : \E h : Fits(h, k)}
<1>1. 0 \in S
  <2>1. Fits([n \in 0 .. 0 |-> base], 0)
    BY DEF IsHistory
  <2> HIDE DEF Fits
  <2> QED
    BY <2>1
<1>2. ASSUME NEW k \in 1 .. N, k - 1 \in S
      PROVE  k \in S
  <2>1. PICK f : Fits(f, k - 1)
    BY <1>2
  <2>2. PICK last : last = F[<<f[k - 1], k>>]
    OBVIOUS
  <2>3. last \in V
    <3>1. k - 1 \in 0 .. k - 1
      OBVIOUS
    <3> QED
      BY <2>1, <2>2, <3>1 DEF IsHistory
  <2> DEFINE g == [n \in 0 .. k |-> IF n = k THEN last ELSE f[n]]
  <2>4. \A n \in 0 .. k : n = k \/ n \in 0 .. k - 1
    OBVIOUS
  <2>5. g \in [0 .. k -> V] /\ g[0] = base
    BY <2>1, <2>3, <2>4 DEF IsHistory
  <2>6. ASSUME NEW n \in 1 .. k
        PROVE  g[n] = F[<<g[n - 1], n>>]
    <3>1. n - 1 \in 0 .. k /\ n - 1 # k /\ n \in 0 .. k
      OBVIOUS
    <3>2. g[n - 1] = f[n - 1]
      BY <3>1, Zenon
    <3>3. CASE n = k
      <4>1. g[n] = last
        BY <3>1, <3>3, Zenon
      <4> QED
        BY <2>2, <3>2, <3>3, <4>1, Zenon
    <3>4. CASE n # k
      <4>1. n \in 1 .. k - 1
        BY <3>4
      <4>2. g[n] = f[n]
        BY <3>1, <3>4, Zenon
      <4> QED
        BY <2>1, <3>2, <4>1, <4>2, Zenon DEF IsHistory
    <3> QED
      BY <3>3, <3>4
  <2> HIDE DEF g
  <2>7. Fits(g, k)
    BY <2>5, <2>6 DEF IsHistory
  <2> HIDE DEF Fits
  <2> QED
    BY <2>7
<1>3. \A k \in 1 .. N : k - 1 \in S => k \in S
  BY <1>2
<1> HIDE DEF S
<1>4. N \in S
  <2>1. \A k \in 0 .. N : k \in S
    BY <1>1, <1>3, CountUp, Zenon
  <2> QED
    BY <2>1
<1> USE DEF S
<1> QED
  BY <1>4

(* The row of a query: the columns of its tables, one after another.       *)
IsRow(f, m, s, R) ==
  /\ f \in [0 .. m -> Seq(R)] /\ f[0] = <<>>
  /\ \A k \in 1 .. m : f[k] = f[k - 1] \o s[k]
  /\ FlattenSeq(s) = f[m]

LEMMA RowOfTables ==
  ASSUME NEW R, NEW m \in Nat \ {0}, NEW s \in [1 .. m -> Seq(R)]
  PROVE  \E f : IsRow(f, m, s, R)
<1> DEFINE V == Seq(R)
           F == [x \in V \X (1 .. m) |-> x[1] \o s[x[2]]]
           Fits(g) == g = [i \in 1 .. m |-> IF i = 1 THEN s[i] ELSE g[i - 1] \o s[i]]
<1>1. F \in [V \X (1 .. m) -> V]
  <2>1. ASSUME NEW x \in V \X (1 .. m)
        PROVE  x[1] \o s[x[2]] \in V
    <3>1. PICK a \in V : a = x[1]
      BY <2>1
    <3>2. PICK b \in V : b = s[x[2]]
      BY <2>1
    <3>3. a \o b \in V
      BY ConcatProperties
    <3> QED
      BY <3>1, <3>2, <3>3
  <2> QED
    BY <2>1
<1>2. <<>> \in V
  BY EmptySeq
<1>3. PICK h : IsHistory(h, m, V, <<>>, F)
  <2> HIDE DEF V, F
  <2> QED
    BY <1>1, <1>2, Recursion, Zenon
<1>4. \A k \in 1 .. m : h[k] = h[k - 1] \o s[k]
  <2> TAKE k \in 1 .. m
  <2>1. k - 1 \in 0 .. m
    OBVIOUS
  <2>2. h[k - 1] \in V
    BY <1>3, <2>1 DEF IsHistory
  <2>3. <<h[k - 1], k>> \in V \X (1 .. m)
    BY <2>2
  <2>4. F[<<h[k - 1], k>>] = h[k - 1] \o s[k]
    <3> HIDE DEF V
    <3> QED
      BY <2>3
  <2> QED
    BY <1>3, <2>4 DEF IsHistory
<1>5. h[1] = s[1]
  <2>1. s[1] \in Seq(R) /\ 1 \in 1 .. m
    OBVIOUS
  <2>2. <<>> \o s[1] = s[1]
    BY <2>1, ConcatEmptySeq
  <2>3. h[1] = h[1 - 1] \o s[1]
    BY <1>4, <2>1
  <2>4. 1 - 1 = 0
    OBVIOUS
  <2> QED
    BY <1>3, <2>2, <2>3, <2>4, Zenon DEF IsHistory
<1>6. Fits([i \in 1 .. m |-> h[i]])
  <2> DEFINE g == [i \in 1 .. m |-> h[i]]
  <2>1. ASSUME NEW i \in 1 .. m
        PROVE  g[i] = IF i = 1 THEN s[i] ELSE g[i - 1] \o s[i]
    <3>1. CASE i = 1
      BY <1>5, <3>1
    <3>2. CASE i # 1
      <4>1. i - 1 \in 1 .. m
        BY <3>2
      <4>2. g[i - 1] = h[i - 1] /\ g[i] = h[i]
        BY <4>1, Zenon
      <4>3. h[i] = h[i - 1] \o s[i]
        BY <1>4
      <4> HIDE DEF g
      <4> QED
        BY <3>2, <4>2, <4>3, Zenon
    <3> QED
      BY <3>1, <3>2
  <2>2. g = [i \in 1 .. m |-> g[i]]
    BY Zenon
  <2> HIDE DEF g
  <2>3. Fits(g)
    BY <2>1, <2>2, Zenon
  <2> QED
    BY <2>3 DEF g
<1>7. PICK flat : flat = CHOOSE g : Fits(g)
  OBVIOUS
<1>8. Fits(flat)
  <2> HIDE DEF Fits
  <2> QED
    BY <1>6, <1>7, Zenon
<1>9. Len(s) = m
  OBVIOUS
<1>10. FlattenSeq(s) = flat[m]
  BY <1>7, <1>9 DEF FlattenSeq
<1>11. \A i \in 1 .. m : flat[i] = IF i = 1 THEN s[i] ELSE flat[i - 1] \o s[i]
  BY <1>8, Zenon
<1> DEFINE S == {k \in 0 .. m : k = 0 \/ flat[k] = h[k]}
<1>12. 0 \in S
  OBVIOUS
<1>13. ASSUME NEW k \in 1 .. m, k - 1 \in S
       PROVE  k \in S
  <2>1. CASE k = 1
    BY <1>5, <1>11, <2>1
  <2>2. CASE k # 1
    <3>1. k - 1 # 0 /\ flat[k - 1] = h[k - 1]
      BY <1>13, <2>2
    <3>2. flat[k] = flat[k - 1] \o s[k] /\ h[k] = h[k - 1] \o s[k]
      BY <1>4, <1>11, <2>2
    <3>3. flat[k] = h[k]
      BY <3>1, <3>2, Zenon
    <3> QED
      BY <3>3
  <2> QED
    BY <2>1, <2>2
<1>14. \A k \in 1 .. m : k - 1 \in S => k \in S
  BY <1>13
<1> HIDE DEF S
<1>15. m \in S
  <2>1. \A k \in 0 .. m : k \in S
    BY <1>12, <1>14, CountUp, Zenon
  <2> QED
    BY <2>1
<1>16. flat[m] = h[m]
  BY <1>15 DEF S
<1> QED
  BY <1>3, <1>4, <1>10, <1>16 DEF IsHistory, IsRow

-----------------------------------------------------------------------------
(* The order of the materializer.                                          *)

(* The joins that continue p, visited up to the join n.                    *)
IsVisited(h, path, p, visit, V) ==
  /\ h \in [0 .. Len(path) -> Seq(V)] /\ h[0] = <<>>
  /\ \A n \in 1 .. Len(path) :
       h[n] = IF path[n].parent = p THEN h[n - 1] \o visit[n] ELSE h[n - 1]
  /\ VisitTrailing(path, p, visit) = h[Len(path)]

LEMMA Visiting ==
  ASSUME NEW path, Len(path) \in Nat, NEW p, NEW V, NEW visit,
         \A n \in 1 .. Len(path) : path[n].parent = p => visit[n] \in Seq(V)
  PROVE  \E h : IsVisited(h, path, p, visit, V)
<1>1. PICK N \in Nat : N = Len(path)
  OBVIOUS
<1> DEFINE S == Seq(V)
           Body(x) == IF path[x[2]].parent = p THEN x[1] \o visit[x[2]] ELSE x[1]
           F == [x \in S \X (1 .. N) |-> Body(x)]
           Fits(g) == g = [n \in 0 .. N |-> IF n = 0 THEN <<>>
                                           ELSE IF path[n].parent = p THEN g[n - 1] \o visit[n]
                                           ELSE g[n - 1]]
<1>2. F \in [S \X (1 .. N) -> S]
  <2>1. ASSUME NEW x \in S \X (1 .. N)
        PROVE  Body(x) \in S
    <3>1. PICK a \in S : a = x[1]
      BY <2>1
    <3>2. PICK n \in 1 .. N : n = x[2]
      BY <2>1
    <3>3. CASE path[n].parent = p
      <4>1. PICK b : b = visit[n]
        OBVIOUS
      <4>2. b \in Seq(V)
        BY <1>1, <3>2, <3>3, <4>1
      <4>3. a \o b \in S
        BY <3>1, <4>2, ConcatProperties
      <4> QED
        BY <3>1, <3>2, <3>3, <4>1, <4>3
    <3>4. CASE path[n].parent # p
      BY <3>1, <3>2, <3>4
    <3> QED
      BY <3>3, <3>4
  <2> HIDE DEF S, Body
  <2> QED
    BY <2>1
<1>3. <<>> \in S
  BY EmptySeq
<1>4. PICK h : IsHistory(h, N, S, <<>>, F)
  <2> HIDE DEF S, F
  <2> QED
    BY <1>1, <1>2, <1>3, Recursion, Zenon
<1>5. h \in [0 .. N -> S] /\ h[0] = <<>>
  BY <1>4 DEF IsHistory
<1>6. \A n \in 1 .. N : h[n] = IF path[n].parent = p THEN h[n - 1] \o visit[n] ELSE h[n - 1]
  <2> TAKE n \in 1 .. N
  <2>1. n - 1 \in 0 .. N
    BY <1>1
  <2>2. PICK x : x = <<h[n - 1], n>>
    OBVIOUS
  <2>3. x \in S \X (1 .. N) /\ x[1] = h[n - 1] /\ x[2] = n
    BY <1>5, <2>1, <2>2
  <2>4. h[n] = F[x]
    BY <1>4, <2>2 DEF IsHistory
  <2>5. F[x] = Body(x)
    <3> HIDE DEF S, Body
    <3> QED
      BY <2>3
  <2> QED
    BY <2>3, <2>4, <2>5
<1>7. Fits(h)
  <2>1. \A n \in 0 .. N : n # 0 => n \in 1 .. N
    BY <1>1
  <2>2. h = [n \in 0 .. N |-> h[n]]
    BY <1>5
  <2>3. \A n \in 0 .. N : h[n] = IF n = 0 THEN <<>>
                                 ELSE IF path[n].parent = p THEN h[n - 1] \o visit[n]
                                 ELSE h[n - 1]
    BY <1>5, <1>6, <2>1
  <2> QED
    BY <2>2, <2>3, Zenon
<1>8. PICK g : g = CHOOSE f : Fits(f)
  OBVIOUS
<1>9. Fits(g)
  <2> HIDE DEF Fits
  <2> QED
    BY <1>7, <1>8, Zenon
<1>10. VisitTrailing(path, p, visit) = g[N]
  BY <1>1, <1>8 DEF VisitTrailing
<1>11. \A n \in 0 .. N : g[n] = IF n = 0 THEN <<>>
                                ELSE IF path[n].parent = p THEN g[n - 1] \o visit[n]
                                ELSE g[n - 1]
  BY <1>9, Zenon
<1> DEFINE T == {n \in 0 .. N : g[n] = h[n]}
<1>12. 0 \in T
  BY <1>1, <1>5, <1>11
<1>13. ASSUME NEW n \in 1 .. N, n - 1 \in T
       PROVE  n \in T
  <2>1. n \in 0 .. N /\ n # 0 /\ g[n - 1] = h[n - 1]
    BY <1>1, <1>13
  <2>2. g[n] = IF path[n].parent = p THEN g[n - 1] \o visit[n] ELSE g[n - 1]
    BY <1>11, <2>1, Zenon
  <2>3. g[n] = h[n]
    BY <1>6, <2>1, <2>2, Zenon
  <2> QED
    BY <2>1, <2>3
<1>14. \A n \in 1 .. N : n - 1 \in T => n \in T
  BY <1>13
<1> HIDE DEF T
<1>15. N \in T
  <2>1. \A n \in 0 .. N : n \in T
    BY <1>1, <1>12, <1>14, CountUp, Zenon
  <2> QED
    BY <1>1, <2>1
<1>16. g[N] = h[N]
  BY <1>15 DEF T
<1> QED
  BY <1>1, <1>5, <1>6, <1>10, <1>16 DEF IsVisited

(* What continues p depends only on what its joins are continued with.     *)
LEMMA SameVisits ==
  ASSUME NEW path, Len(path) \in Nat, NEW p, NEW V, NEW f, NEW g,
         \A n \in 1 .. Len(path) : path[n].parent = p => f[n] = g[n] /\ g[n] \in Seq(V)
  PROVE  VisitTrailing(path, p, f) = VisitTrailing(path, p, g)
<1>1. PICK N \in Nat : N = Len(path)
  OBVIOUS
<1>2. PICK h : IsVisited(h, path, p, f, V)
  BY Visiting
<1>3. PICK i : IsVisited(i, path, p, g, V)
  BY Visiting
<1> DEFINE T == {n \in 0 .. N : h[n] = i[n]}
<1>4. 0 \in T
  BY <1>1, <1>2, <1>3 DEF IsVisited
<1>5. ASSUME NEW n \in 1 .. N, n - 1 \in T
      PROVE  n \in T
  <2>1. n \in 0 .. N /\ h[n - 1] = i[n - 1]
    BY <1>1, <1>5
  <2>2. h[n] = IF path[n].parent = p THEN h[n - 1] \o f[n] ELSE h[n - 1]
    BY <1>1, <1>2 DEF IsVisited
  <2>3. i[n] = IF path[n].parent = p THEN i[n - 1] \o g[n] ELSE i[n - 1]
    BY <1>1, <1>3 DEF IsVisited
  <2>4. h[n] = i[n]
    BY <1>1, <2>1, <2>2, <2>3
  <2> QED
    BY <2>1, <2>4
<1>6. \A n \in 1 .. N : n - 1 \in T => n \in T
  BY <1>5
<1> HIDE DEF T
<1>7. N \in T
  <2>1. \A n \in 0 .. N : n \in T
    BY <1>1, <1>4, <1>6, CountUp, Zenon
  <2> QED
    BY <1>1, <2>1
<1>8. h[N] = i[N]
  BY <1>7 DEF T
<1> QED
  BY <1>1, <1>2, <1>3, <1>8 DEF IsVisited

(* The visits of the joins from low on.                                    *)
Visits(f, path, low) ==
  /\ f \in [low .. Len(path) -> Seq(0 .. Len(path))]
  /\ \A p \in low .. Len(path) : f[p] = <<p>> \o VisitTrailing(path, p, f)

LEMMA VisitTypes ==
  ASSUME NEW path, Len(path) \in Nat, NEW p \in 0 .. Len(path), NEW f,
         \A n \in 1 .. Len(path) : path[n].parent = p => f[n] \in Seq(0 .. Len(path))
  PROVE  <<p>> \o VisitTrailing(path, p, f) \in Seq(0 .. Len(path))
<1>1. PICK V : V = 0 .. Len(path)
  OBVIOUS
<1>2. PICK h : IsVisited(h, path, p, f, V)
  BY <1>1, Visiting
<1>3. PICK t : t = VisitTrailing(path, p, f)
  OBVIOUS
<1>4. t \in Seq(V)
  BY <1>2, <1>3 DEF IsVisited
<1>5. <<p>> \in Seq(V)
  BY <1>1
<1>6. <<p>> \o t \in Seq(V)
  <2>1. PICK a : a = <<p>>
    OBVIOUS
  <2>2. a \o t \in Seq(V)
    BY <1>4, <1>5, <2>1, ConcatProperties
  <2> QED
    BY <2>1, <2>2
<1> QED
  BY <1>1, <1>3, <1>6

(* Joins that continue p come after it.                                    *)
LEMMA Later ==
  ASSUME NEW path, Tree(path), NEW p, NEW n \in 1 .. Len(path), path[n].parent = p
  PROVE  Len(path) \in Nat /\ p \in Nat /\ p < n
<1>1. Len(path) \in Nat
  BY LenProperties DEF Tree
<1>2. p \in 0 .. n - 1
  BY DEF Tree, Reachable
<1> QED
  BY <1>1, <1>2

LEMMA VisitsOneMore ==
  ASSUME NEW path, Tree(path), NEW low \in 0 .. Len(path), NEW g, Visits(g, path, low + 1)
  PROVE  \E f : Visits(f, path, low)
<1>1. PICK N \in Nat : N = Len(path)
  BY LenProperties DEF Tree
<1>2. PICK first : first = <<low>> \o VisitTrailing(path, low, g)
  OBVIOUS
<1>3. PICK f : f = [p \in low .. N |-> IF p = low THEN first ELSE g[p]]
  OBVIOUS
<1>4. ASSUME NEW p \in low .. N, NEW n \in 1 .. N, path[n].parent = p
      PROVE  f[n] = g[n] /\ g[n] \in Seq(0 .. N)
  <2>1. p < n /\ p \in Nat
    BY <1>1, <1>4, Later
  <2>2. n \in low + 1 .. N /\ n \in low .. N /\ n # low
    BY <1>1, <2>1
  <2> QED
    BY <1>1, <1>3, <2>2 DEF Visits
<1>5. ASSUME NEW p \in low .. N
      PROVE  VisitTrailing(path, p, f) = VisitTrailing(path, p, g)
  <2>1. PICK V : V = 0 .. N
    OBVIOUS
  <2>2. \A n \in 1 .. Len(path) : path[n].parent = p => f[n] = g[n] /\ g[n] \in Seq(V)
    BY <1>1, <1>4, <2>1
  <2> QED
    BY <1>1, <2>2, SameVisits
<1>6. ASSUME NEW p \in low .. N
      PROVE  f[p] = <<p>> \o VisitTrailing(path, p, f) /\ f[p] \in Seq(0 .. N)
  <2>1. p = low \/ p \in low + 1 .. N
    BY <1>1
  <2>2. f[p] = <<p>> \o VisitTrailing(path, p, g)
    <3>1. CASE p = low
      BY <1>2, <1>3, <3>1
    <3>2. CASE p \in low + 1 .. N
      <4>1. p # low
        BY <1>1, <3>2
      <4>2. f[p] = g[p]
        BY <1>3, <4>1
      <4> QED
        BY <1>1, <3>2, <4>2 DEF Visits
    <3> QED
      BY <2>1, <3>1, <3>2
  <2>3. p \in 0 .. N
    BY <1>1
  <2>4. \A n \in 1 .. Len(path) : path[n].parent = p => g[n] \in Seq(0 .. Len(path))
    BY <1>1, <1>4
  <2>5. <<p>> \o VisitTrailing(path, p, g) \in Seq(0 .. Len(path))
    BY <1>1, <2>3, <2>4, VisitTypes
  <2> QED
    BY <1>1, <1>5, <2>2, <2>5
<1>7. f \in [low .. N -> Seq(0 .. N)]
  BY <1>3, <1>6
<1> QED
  BY <1>1, <1>6, <1>7 DEF Visits

LEMMA VisitsExist ==
  ASSUME NEW path, Tree(path)
  PROVE  \E f : Visits(f, path, 0)
<1>1. PICK N \in Nat : N = Len(path)
  BY LenProperties DEF Tree
<1> DEFINE S == {k \in 0 .. N + 1 : \E f : Visits(f, path, N + 1 - k)}
<1>2. 0 \in S
  <2>1. PICK f : f = [p \in N + 1 .. N |-> <<>>]
    OBVIOUS
  <2>2. Visits(f, path, N + 1)
    BY <1>1, <2>1 DEF Visits
  <2> QED
    BY <2>2
<1>3. ASSUME NEW k \in 1 .. N + 1, k - 1 \in S
      PROVE  k \in S
  <2>1. PICK low \in Nat : low = N + 1 - k
    OBVIOUS
  <2>2. low \in 0 .. N /\ N + 1 - (k - 1) = low + 1
    BY <2>1
  <2>3. PICK g : Visits(g, path, low + 1)
    BY <1>3, <2>2
  <2>4. \E f : Visits(f, path, low)
    BY <1>1, <2>2, <2>3, VisitsOneMore
  <2> QED
    BY <2>1, <2>4
<1>4. \A k \in 1 .. N + 1 : k - 1 \in S => k \in S
  BY <1>3
<1> HIDE DEF S
<1>5. N + 1 \in S
  <2>1. \A k \in 0 .. N + 1 : k \in S
    BY <1>2, <1>4, CountUp
  <2> QED
    BY <2>1
<1>6. N + 1 - (N + 1) = 0
  OBVIOUS
<1> QED
  BY <1>5, <1>6 DEF S

(* The walk over the tree visits each join and what continues it, from the *)
(* root on.                                                                *)
LEMMA Walk ==
  ASSUME NEW path, Tree(path)
  PROVE  \E v : Visits(v, path, 0) /\ GenerateSortedEntities(path) = v[0]
<1>1. PICK N \in Nat : N = Len(path)
  BY LenProperties DEF Tree
<1> DEFINE Fits(v) == v = [p \in 0 .. N |-> <<p>> \o VisitTrailing(path, p, v)]
<1>2. PICK f : Visits(f, path, 0)
  BY VisitsExist
<1>3. Fits(f)
  BY <1>1, <1>2 DEF Visits
<1>4. PICK v : v = CHOOSE g : Fits(g)
  OBVIOUS
<1>5. Fits(v)
  <2> HIDE DEF Fits
  <2> QED
    BY <1>3, <1>4, Zenon
<1>6. GenerateSortedEntities(path) = v[0]
  BY <1>1, <1>4 DEF GenerateSortedEntities
<1>7. \A p \in 0 .. N : v[p] = <<p>> \o VisitTrailing(path, p, v)
  BY <1>5, Zenon
<1> DEFINE S == {k \in 0 .. N + 1 : \A p \in (N + 1 - k) .. N : v[p] \in Seq(0 .. N)}
<1>8. 0 \in S
  OBVIOUS
<1>9. ASSUME NEW k \in 1 .. N + 1, k - 1 \in S
      PROVE  k \in S
  <2>1. PICK low \in Nat : low = N + 1 - k
    OBVIOUS
  <2>2. low \in 0 .. N /\ N + 1 - (k - 1) = low + 1
    BY <2>1
  <2>3. \A p \in low + 1 .. N : v[p] \in Seq(0 .. N)
    BY <1>9, <2>2
  <2>4. v[low] \in Seq(0 .. N)
    <3>1. ASSUME NEW n \in 1 .. N, path[n].parent = low
          PROVE  v[n] \in Seq(0 .. N)
      <4>1. low < n
        BY <1>1, <3>1, Later
      <4>2. n \in low + 1 .. N
        BY <4>1
      <4> QED
        BY <2>3, <4>2
    <3>2. <<low>> \o VisitTrailing(path, low, v) \in Seq(0 .. N)
      BY <1>1, <2>2, <3>1, VisitTypes
    <3> QED
      BY <1>7, <2>2, <3>2
  <2>5. ASSUME NEW p \in low .. N
        PROVE  v[p] \in Seq(0 .. N)
    <3>1. p = low \/ p \in low + 1 .. N
      BY <2>2
    <3> QED
      BY <2>3, <2>4, <3>1
  <2> QED
    BY <2>1, <2>5
<1>10. \A k \in 1 .. N + 1 : k - 1 \in S => k \in S
  BY <1>9
<1> HIDE DEF S
<1>11. N + 1 \in S
  <2>1. \A k \in 0 .. N + 1 : k \in S
    BY <1>8, <1>10, CountUp
  <2> QED
    BY <2>1
<1>12. \A p \in 0 .. N : v[p] \in Seq(0 .. N)
  <2>1. N + 1 - (N + 1) = 0
    OBVIOUS
  <2> QED
    BY <1>11, <2>1 DEF S
<1>13. v \in [0 .. N -> Seq(0 .. N)]
  <2>1. v = [p \in 0 .. N |-> v[p]]
    BY <1>5
  <2> QED
    BY <1>12, <2>1
<1>14. Visits(v, path, 0)
  <2> HIDE DEF Fits
  <2> QED
    BY <1>1, <1>7, <1>13 DEF Visits
<1> QED
  BY <1>6, <1>14

(* Each join continues the one before it or the root.                      *)
Chained(path) == \A i \in 1 .. Len(path) : path[i].parent \in {0, i - 1}

(* The numbers from a to b.                                                *)
Span(a, b) == [i \in 1 .. (b + 1) - a |-> (a + i) - 1]

LEMMA Spans ==
  ASSUME NEW a \in Nat, NEW b \in Nat, NEW c \in Nat, a <= b + 1, b <= c
  PROVE  Span(a, b) \o Span(b + 1, c) = Span(a, c)
<1>1. PICK s : s = Span(a, b)
  OBVIOUS
<1>2. PICK t : t = Span(b + 1, c)
  OBVIOUS
<1>3. PICK m \in Nat : m = (b + 1) - a
  OBVIOUS
<1>4. PICK n \in Nat : n = (c + 1) - (b + 1)
  OBVIOUS
<1>5. s \in Seq(Nat) /\ Len(s) = m /\ \A i \in 1 .. m : s[i] = (a + i) - 1
  BY <1>1, <1>3 DEF Span
<1>6. t \in Seq(Nat) /\ Len(t) = n /\ \A i \in 1 .. n : t[i] = b + i
  BY <1>2, <1>4 DEF Span
<1>7. PICK u : u = s \o t
  OBVIOUS
<1>8. /\ u \in Seq(Nat) /\ Len(u) = m + n
      /\ \A i \in 1 .. m + n : u[i] = IF i <= m THEN s[i] ELSE t[i - m]
  BY <1>5, <1>6, <1>7, ConcatProperties
<1>9. ASSUME NEW i \in 1 .. m + n
      PROVE  u[i] = (a + i) - 1
  <2>1. CASE i <= m
    BY <1>5, <1>8, <2>1
  <2>2. CASE ~(i <= m)
    <3>1. i - m \in 1 .. n
      BY <1>3, <1>4, <2>2
    <3>2. u[i] = b + (i - m)
      BY <1>6, <1>8, <2>2, <3>1
    <3> QED
      BY <1>3, <3>2
  <2> QED
    BY <2>1, <2>2
<1>10. m + n = (c + 1) - a
  BY <1>3, <1>4
<1>11. u = [i \in 1 .. m + n |-> u[i]]
  BY <1>8, LenProperties
<1>12. u = Span(a, c)
  BY <1>9, <1>10, <1>11 DEF Span
<1> QED
  BY <1>1, <1>2, <1>7, <1>12

LEMMA SpanOfOne == ASSUME NEW p \in Nat PROVE Span(p, p) = <<p>>
<1>1. PICK s : s = Span(p, p)
  OBVIOUS
<1>2. (p + 1) - p = 1
  OBVIOUS
<1>3. s = [i \in 1 .. 1 |-> (p + i) - 1]
  BY <1>1, <1>2 DEF Span
<1>4. s = <<p>>
  BY <1>3
<1> QED
  BY <1>1, <1>4

(* The chain of n ends at e.                                               *)
Ends(path, n, e) ==
  /\ e \in n .. Len(path)
  /\ e < Len(path) => path[e + 1].parent = 0
  /\ \A j \in n + 1 .. e : path[j].parent # 0

LEMMA OneContinues ==
  ASSUME NEW path, Tree(path), Chained(path), NEW v, Visits(v, path, 0),
         NEW p \in 1 .. Len(path)
  PROVE  IF p < Len(path) /\ path[p + 1].parent = p THEN v[p] = <<p>> \o v[p + 1]
                                                    ELSE v[p] = <<p>>
<1>1. PICK N \in Nat : N = Len(path)
  BY LenProperties DEF Tree
<1>2. PICK V : V = 0 .. N
  OBVIOUS
<1>3. v \in [0 .. N -> Seq(V)] /\ v[p] = <<p>> \o VisitTrailing(path, p, v)
  BY <1>1, <1>2 DEF Visits
<1>4. PICK h : IsVisited(h, path, p, v, V)
  <2>1. Len(path) \in Nat /\ \A n \in 1 .. Len(path) : v[n] \in Seq(V)
    BY <1>1, <1>3
  <2> QED
    BY <2>1, Visiting
<1>5. ASSUME NEW n \in 1 .. N
      PROVE  path[n].parent = p <=> n = p + 1 /\ path[p + 1].parent = p
  BY <1>1 DEF Chained
<1> DEFINE T == {n \in 0 .. N : IF p < n /\ path[p + 1].parent = p THEN h[n] = v[p + 1]
                                                                 ELSE h[n] = <<>>}
<1>6. 0 \in T
  BY <1>1, <1>4 DEF IsVisited
<1>7. ASSUME NEW n \in 1 .. N, n - 1 \in T
      PROVE  n \in T
  <2>1. h[n] = IF path[n].parent = p THEN h[n - 1] \o v[n] ELSE h[n - 1]
    BY <1>1, <1>4 DEF IsVisited
  <2>2. CASE n = p + 1 /\ path[p + 1].parent = p
    <3>1. h[n - 1] = <<>>
      BY <1>1, <1>7, <2>2
    <3>2. v[n] \in Seq(V)
      <4>1. n \in 0 .. N
        OBVIOUS
      <4> QED
        BY <1>3, <4>1
    <3>3. <<>> \o v[n] = v[n]
      BY <3>2, ConcatEmptySeq
    <3>4. h[n] = v[n]
      BY <1>5, <2>1, <2>2, <3>1, <3>3
    <3> QED
      BY <1>1, <2>2, <3>4
  <2>3. CASE ~(n = p + 1 /\ path[p + 1].parent = p)
    <3>1. h[n] = h[n - 1]
      BY <1>5, <2>1, <2>3
    <3>2. path[p + 1].parent = p => (p < n <=> p < n - 1)
      BY <1>1, <2>3
    <3> QED
      BY <1>7, <3>1, <3>2
  <2> QED
    BY <2>2, <2>3
<1>8. \A n \in 1 .. N : n - 1 \in T => n \in T
  BY <1>7
<1> HIDE DEF T
<1>9. N \in T
  <2>1. \A n \in 0 .. N : n \in T
    BY <1>1, <1>6, <1>8, CountUp
  <2> QED
    BY <1>1, <2>1
<1>10. IF p < N /\ path[p + 1].parent = p THEN h[N] = v[p + 1] ELSE h[N] = <<>>
  BY <1>9 DEF T
<1>11. v[p] = <<p>> \o h[N]
  BY <1>1, <1>3, <1>4 DEF IsVisited
<1>12. <<p>> \o <<>> = <<p>>
  <2>1. PICK s : s = <<p>>
    OBVIOUS
  <2>2. s \in Seq(Nat)
    BY <1>1, <2>1
  <2>3. s \o <<>> = s
    BY <2>2, ConcatEmptySeq
  <2> QED
    BY <2>1, <2>3
<1> QED
  BY <1>1, <1>10, <1>11, <1>12

(* A chain is visited in the order in which it was configured.             *)
LEMMA ChainOf ==
  ASSUME NEW path, Tree(path), Chained(path), NEW v, Visits(v, path, 0)
  PROVE  \A p \in 1 .. Len(path) : \E e : Ends(path, p, e) /\ v[p] = Span(p, e)
<1>1. PICK N \in Nat : N = Len(path)
  BY LenProperties DEF Tree
<1> DEFINE Good(p) == \E e : Ends(path, p, e) /\ v[p] = Span(p, e)
           S == {k \in 0 .. N : \A p \in (N + 1 - k) .. N : Good(p)}
<1>2. 0 \in S
  OBVIOUS
<1>3. ASSUME NEW k \in 1 .. N, k - 1 \in S
      PROVE  k \in S
  <2>1. PICK p \in 1 .. N : p = N + 1 - k
    OBVIOUS
  <2>2. \A q \in p + 1 .. N : Good(q)
    <3>1. N + 1 - (k - 1) = p + 1
      BY <2>1
    <3> QED
      BY <1>3, <3>1
  <2>3. Good(p)
    <3>1. CASE p < N /\ path[p + 1].parent = p
      <4>1. p + 1 \in p + 1 .. N
        BY <3>1
      <4>2. PICK e : Ends(path, p + 1, e) /\ v[p + 1] = Span(p + 1, e)
        BY <2>2, <4>1
      <4>3. e \in p + 1 .. N /\ e \in Nat
        BY <1>1, <4>2 DEF Ends
      <4>4. v[p] = <<p>> \o v[p + 1]
        BY <1>1, <3>1, OneContinues
      <4>5. v[p] = Span(p, e)
        <5>1. Span(p, p) \o Span(p + 1, e) = Span(p, e)
          <6>1. p \in Nat /\ e \in Nat /\ p <= p + 1 /\ p <= e
            BY <1>1, <4>3
          <6> QED
            BY <6>1, Spans
        <5>2. Span(p, p) = <<p>>
          BY <1>1, SpanOfOne
        <5> QED
          BY <4>2, <4>4, <5>1, <5>2
      <4>6. \A j \in p + 1 .. e : j = p + 1 \/ j \in p + 1 + 1 .. e
        BY <4>3
      <4>7. Ends(path, p, e)
        BY <1>1, <3>1, <4>2, <4>3, <4>6 DEF Ends
      <4> QED
        BY <4>5, <4>7
    <3>2. CASE ~(p < N /\ path[p + 1].parent = p)
      <4>1. v[p] = Span(p, p)
        <5>1. Span(p, p) = <<p>>
          BY <1>1, SpanOfOne
        <5>2. v[p] = <<p>>
          BY <1>1, <3>2, OneContinues
        <5> QED
          BY <5>1, <5>2
      <4>2. p < N => path[p + 1].parent = 0
        BY <1>1, <3>2 DEF Chained
      <4>3. Ends(path, p, p)
        BY <1>1, <4>2 DEF Ends
      <4> QED
        BY <4>1, <4>3
    <3> QED
      BY <3>1, <3>2
  <2>4. \A q \in p .. N : q = p \/ q \in p + 1 .. N
    OBVIOUS
  <2> HIDE DEF Good
  <2>5. \A q \in p .. N : Good(q)
    BY <2>2, <2>3, <2>4
  <2> QED
    BY <2>1, <2>5
<1>4. \A k \in 1 .. N : k - 1 \in S => k \in S
  BY <1>3
<1> HIDE DEF S
<1>5. N \in S
  <2>1. \A k \in 0 .. N : k \in S
    BY <1>2, <1>4, CountUp
  <2> QED
    BY <2>1
<1>6. N + 1 - N = 1
  OBVIOUS
<1> QED
  BY <1>1, <1>5, <1>6 DEF S

(* Chains are visited one after the other, so the orders agree.            *)
LEMMA ChainedOrder ==
  ASSUME NEW path, Tree(path), Chained(path)
  PROVE  GenerateSortedEntities(path) = SqlOrder(path)
<1>1. PICK N \in Nat : N = Len(path)
  BY LenProperties DEF Tree
<1>2. PICK V : V = 0 .. N
  OBVIOUS
<1>3. PICK v : Visits(v, path, 0) /\ GenerateSortedEntities(path) = v[0]
  BY Walk
<1>4. v \in [0 .. N -> Seq(V)] /\ v[0] = <<0>> \o VisitTrailing(path, 0, v)
  BY <1>1, <1>2, <1>3 DEF Visits
<1>5. PICK h : IsVisited(h, path, 0, v, V)
  <2>1. Len(path) \in Nat /\ \A n \in 1 .. Len(path) : v[n] \in Seq(V)
    BY <1>1, <1>4
  <2> QED
    BY <2>1, Visiting
<1> DEFINE Good(n) == \E e : Ends(path, n, e) /\ h[n] = Span(1, e)
           T == {n \in 0 .. N : Good(n)}
<1>6. 0 \in T
  <2>1. Span(1, 0) = <<>>
    <3>1. (0 + 1) - 1 = 0
      OBVIOUS
    <3> QED
      BY <3>1 DEF Span
  <2>2. 0 < N => path[0 + 1].parent = 0
    <3>1. 0 < N => 1 \in 1 .. N
      BY <1>1
    <3>2. 1 - 1 = 0 /\ 0 + 1 = 1
      OBVIOUS
    <3> QED
      BY <1>1, <3>1, <3>2 DEF Chained
  <2>3. Ends(path, 0, 0)
    BY <1>1, <2>2 DEF Ends
  <2> QED
    BY <1>1, <1>5, <2>1, <2>3 DEF IsVisited
<1>7. ASSUME NEW n \in 1 .. N, n - 1 \in T
      PROVE  n \in T
  <2>1. PICK e : Ends(path, n - 1, e) /\ h[n - 1] = Span(1, e)
    BY <1>7
  <2>2. e \in n - 1 .. N /\ e \in Nat
    BY <1>1, <2>1 DEF Ends
  <2>3. h[n] = IF path[n].parent = 0 THEN h[n - 1] \o v[n] ELSE h[n - 1]
    BY <1>1, <1>5 DEF IsVisited
  <2>4. CASE path[n].parent = 0
    <3>1. e = n - 1
      <4>1. n \in n - 1 + 1 .. e \/ e = n - 1
        BY <2>2
      <4> QED
        BY <2>1, <2>4, <4>1 DEF Ends
    <3>2. PICK d : Ends(path, n, d) /\ v[n] = Span(n, d)
      BY <1>1, <1>3, ChainOf
    <3>3. d \in n .. N /\ d \in Nat
      BY <1>1, <3>2 DEF Ends
    <3>4. Span(1, n - 1) \o Span(n, d) = Span(1, d)
      <4>1. PICK b \in Nat : b = n - 1
        OBVIOUS
      <4>2. Span(1, b) \o Span(b + 1, d) = Span(1, d)
        <5>1. 1 \in Nat /\ d \in Nat /\ 1 <= b + 1 /\ b <= d
          BY <3>3, <4>1
        <5> QED
          BY <4>1, <5>1, Spans
      <4>3. b + 1 = n
        BY <4>1
      <4> QED
        BY <4>1, <4>2, <4>3
    <3>5. h[n] = Span(1, d)
      BY <2>1, <2>3, <2>4, <3>1, <3>2, <3>4
    <3> QED
      BY <3>2, <3>5
  <2>5. CASE path[n].parent # 0
    <3>1. e \in n .. N
      <4>1. e = n - 1 \/ e \in n .. N
        BY <2>2
      <4>2. e # n - 1
        <5> SUFFICES ASSUME e = n - 1
                     PROVE  FALSE
          OBVIOUS
        <5>1. e < Len(path) /\ e + 1 = n
          BY <1>1
        <5> QED
          BY <2>1, <2>5, <5>1 DEF Ends
      <4> QED
        BY <4>1, <4>2
    <3>2. \A j \in n + 1 .. e : j \in n - 1 + 1 .. e
      BY <3>1
    <3>3. Ends(path, n, e)
      BY <1>1, <2>1, <3>1, <3>2 DEF Ends
    <3> QED
      BY <2>1, <2>3, <2>5, <3>3
  <2> QED
    BY <2>4, <2>5
<1>8. \A n \in 1 .. N : n - 1 \in T => n \in T
  BY <1>7
<1> HIDE DEF T
<1>9. N \in T
  <2>1. \A n \in 0 .. N : n \in T
    BY <1>1, <1>6, <1>8, CountUp
  <2> QED
    BY <1>1, <2>1
<1>10. h[N] = Span(1, N)
  <2>1. PICK e : Ends(path, N, e) /\ h[N] = Span(1, e)
    BY <1>9 DEF T
  <2>2. e = N
    BY <1>1, <2>1 DEF Ends
  <2> QED
    BY <2>1, <2>2
<1>11. v[0] = Span(0, N)
  <2>1. 0 + 1 = 1
    OBVIOUS
  <2>2. Span(0, 0) \o Span(1, N) = Span(0, N)
    <3>1. 0 \in Nat /\ N \in Nat /\ 0 <= 0 + 1 /\ 0 <= N
      BY <1>1
    <3> QED
      BY <2>1, <3>1, Spans
  <2>3. Span(0, 0) = <<0>>
    BY SpanOfOne
  <2> QED
    BY <1>1, <1>4, <1>5, <1>10, <2>2, <2>3 DEF IsVisited
<1>12. Span(0, N) = SqlOrder(path)
  <2>1. (N + 1) - 0 = N + 1
    OBVIOUS
  <2>2. \A i \in 1 .. N + 1 : (0 + i) - 1 = i - 1
    OBVIOUS
  <2> QED
    BY <1>1, <2>1, <2>2 DEF Span, SqlOrder
<1> QED
  BY <1>3, <1>11, <1>12

-----------------------------------------------------------------------------
(* What the caller configured.                                             *)

RoutesIn(path, list) == \A i \in 1 .. Len(path) : Contains(list, PathOf(path)[i])

(* Unless a join is configured twice, every call adds one at the end, to   *)
(* the join before it or to the root.                                      *)
OrderInv ==
  /\ configured \in Seq(Seq(Relations)) /\ Len(configured) <= MaxJoins
  /\ RoutesIn(flattenedPath, configured)
  /\ used \subseteq Styles /\ receiver \in {"command", "relation"}
  /\ "reopen" \notin used =>
       /\ Chained(flattenedPath)
       /\ receiver = "relation" => currentPath = Len(flattenedPath)

LEMMA Remembers ==
  ASSUME NEW route \in Seq(Relations), MayConfigure(route), Remember(route),
         configured \in Seq(Seq(Relations)), Len(configured) <= MaxJoins, used \subseteq Styles
  PROVE  /\ configured' \in Seq(Seq(Relations)) /\ Len(configured') <= MaxJoins
         /\ used' \subseteq Styles
         /\ \A other : Contains(configured, other) => Contains(configured', other)
         /\ Contains(configured', route)
         /\ "reopen" \notin used' => "reopen" \notin used /\ ~Contains(configured, route)
<1>1. PICK c : c = configured
  OBVIOUS
<1>2. c \in Seq(Seq(Relations)) /\ Len(c) \in Nat /\ Len(c) < MaxJoins /\ MaxJoins \in Nat
  BY <1>1, LenProperties, JoinAssumption DEF MayConfigure
<1>3. CASE Contains(configured, route)
  <2>1. configured' = configured /\ used' = used \cup {"reopen"} /\ "reopen" \in Styles
    BY <1>3 DEF Remember, MayConfigure
  <2> QED
    BY <1>3, <2>1
<1>4. CASE ~Contains(configured, route)
  <2>1. PICK d : d = Append(c, route)
    OBVIOUS
  <2>2. configured' = d /\ used' = used
    BY <1>1, <1>4, <2>1 DEF Remember
  <2>3. /\ d \in Seq(Seq(Relations)) /\ Len(d) = Len(c) + 1
        /\ \A i \in 1 .. Len(c) : d[i] = c[i]
        /\ d[Len(c) + 1] = route
    BY <1>2, <2>1, AppendProperties
  <2>4. Contains(d, route)
    BY <1>2, <2>3 DEF Contains
  <2>5. \A other : Contains(c, other) => Contains(d, other)
    BY <1>2, <2>3 DEF Contains
  <2>6. Len(d) <= MaxJoins
    BY <1>2, <2>3
  <2> QED
    BY <1>1, <1>4, <2>2, <2>3, <2>4, <2>5, <2>6
<1> QED
  BY <1>3, <1>4

LEMMA RouteOfNext ==
  ASSUME NEW path, Tree(path), NEW p \in 0 .. Len(path), NEW r \in Relations
  PROVE  Append(PathOf(path)[p], r) \in Seq(Relations)
<1>1. PICK t : t = PathOf(path)[p]
  OBVIOUS
<1>2. t \in Seq(Relations)
  BY <1>1, RouteTypes
<1>3. Append(t, r) \in Seq(Relations)
  BY <1>2, AppendProperties
<1> QED
  BY <1>1, <1>3

LEMMA AddsOne ==
  ASSUME NEW path, Tree(path), NEW p \in 0 .. Len(path), NEW r \in Relations,
         LeftOf[r] = EntityAt(path, p), AddToPath(path, p, r),
         RoutesIn(path, configured),
         NEW route, route = Append(PathOf(path)[p], r),
         \A other : Contains(configured, other) => Contains(configured', other),
         Contains(configured', route)
  PROVE  /\ RoutesIn(flattenedPath', configured')
         /\ ~Contains(configured, route) /\ Chained(path) /\ p \in {0, Len(path)} =>
              Chained(flattenedPath') /\ currentPath' = Len(flattenedPath')
<1>1. PICK join : join = [relation |-> r, parent |-> p]
  OBVIOUS
<1>2. /\ Len(path) \in Nat /\ path \in Seq(Joins) /\ DOMAIN path = 1 .. Len(path)
      /\ \A i \in 1 .. Len(path) :
           PathOf(path)[i] = Append(PathOf(path)[path[i].parent], path[i].relation)
  BY RouteSteps, LenProperties DEF Tree
<1>3. join \in Joins /\ join.relation = r /\ join.parent = p
  BY <1>1, <1>2 DEF Joins
<1>4. CASE \E i \in Trailing(path, p) : path[i].relation = r
  <2>1. flattenedPath' = path
    BY <1>4 DEF AddToPath
  <2>2. PICK i \in 1 .. Len(path) : path[i].parent = p /\ path[i].relation = r
    BY <1>2, <1>4 DEF Trailing
  <2>3. Contains(configured, route)
    BY <1>2, <2>2 DEF RoutesIn
  <2> QED
    BY <2>1, <2>3 DEF RoutesIn
<1>5. CASE ~\E i \in Trailing(path, p) : path[i].relation = r
  <2>1. PICK longer : longer = Append(path, join)
    OBVIOUS
  <2>2. flattenedPath' = longer /\ currentPath' = Len(path) + 1
    BY <1>1, <1>5, <2>1 DEF AddToPath
  <2>3. Tree(longer)
    BY <2>2, Added
  <2>4. /\ Len(longer) = Len(path) + 1
        /\ \A i \in 1 .. Len(path) : longer[i] = path[i]
        /\ longer[Len(path) + 1] = join
    BY <1>2, <1>3, <2>1, AppendProperties
  <2>5. \A i \in 0 .. Len(path) : PathOf(longer)[i] = PathOf(path)[i]
    BY <2>3, <2>4, RoutesStay
  <2>6. PathOf(longer)[Len(path) + 1] = route
    <3>1. Len(path) + 1 \in 1 .. Len(longer)
      BY <1>2, <2>4
    <3>2. PathOf(longer)[Len(path) + 1] = Append(PathOf(longer)[p], r)
      BY <1>3, <2>3, <2>4, <3>1, RouteSteps
    <3> QED
      BY <2>5, <3>2
  <2>7. RoutesIn(longer, configured')
    <3> SUFFICES ASSUME NEW i \in 1 .. Len(longer)
                 PROVE  Contains(configured', PathOf(longer)[i])
      BY DEF RoutesIn
    <3>1. CASE i = Len(path) + 1
      BY <2>6, <3>1
    <3>2. CASE i # Len(path) + 1
      <4>1. i \in 1 .. Len(path) /\ i \in 0 .. Len(path)
        BY <1>2, <2>4, <3>2
      <4> QED
        BY <2>5, <4>1 DEF RoutesIn
    <3> QED
      BY <3>1, <3>2
  <2>8. ASSUME Chained(path), p \in {0, Len(path)}
        PROVE  Chained(longer)
    <3> SUFFICES ASSUME NEW i \in 1 .. Len(path) + 1
                 PROVE  longer[i].parent \in {0, i - 1}
      BY <2>4 DEF Chained
    <3>1. CASE i = Len(path) + 1
      <4>1. longer[i].parent = p /\ i - 1 = Len(path)
        BY <1>2, <1>3, <2>4, <3>1
      <4> QED
        BY <2>8, <4>1
    <3>2. CASE i # Len(path) + 1
      <4>1. i \in 1 .. Len(path)
        BY <1>2, <3>2
      <4> QED
        BY <2>4, <2>8, <4>1 DEF Chained
    <3> QED
      BY <3>1, <3>2
  <2> QED
    BY <2>2, <2>4, <2>7, <2>8
<1> QED
  BY <1>4, <1>5

LEMMA OrderAtStart == Init => OrderInv
<1>1. <<>> \in Seq(Seq(Relations)) /\ Len(<<>>) = 0
  BY EmptySeq
<1>2. 0 <= MaxJoins
  BY JoinAssumption
<1> QED
  BY <1>1, <1>2 DEF Init, OrderInv, RoutesIn, Chained

LEMMA OrderAfterJoinWith ==
  ASSUME TreeInv, OrderInv, NEW r \in Relations, JoinWith(r)
  PROVE  OrderInv'
<1>1. PICK path : path = IF receiver = "command" THEN <<>> ELSE flattenedPath
  OBVIOUS
<1>2. /\ LeftOf[r] = Root /\ AddToPath(path, 0, r) /\ receiver' = "relation"
      /\ Remember(<<r>>) /\ MayConfigure(<<r>>)
  BY <1>1 DEF JoinWith
<1>3. Tree(path) /\ RoutesIn(path, configured)
  <2>1. RoutesIn(<<>>, configured)
    BY EmptyTree DEF RoutesIn
  <2> QED
    BY <1>1, <2>1, EmptyTree DEF TreeInv, OrderInv
<1>4. 0 \in 0 .. Len(path) /\ LeftOf[r] = EntityAt(path, 0) /\ PathOf(path)[0] = <<>>
  BY <1>2, <1>3, RouteSteps DEF EntityAt
<1>5. Append(PathOf(path)[0], r) = <<r>>
  BY <1>4
<1>6. PICK route : route = <<r>>
  OBVIOUS
<1>7. route \in Seq(Relations)
  BY <1>3, <1>4, <1>5, <1>6, RouteOfNext
<1>8. /\ configured' \in Seq(Seq(Relations)) /\ Len(configured') <= MaxJoins
      /\ used' \subseteq Styles
      /\ \A other : Contains(configured, other) => Contains(configured', other)
      /\ Contains(configured', route)
      /\ "reopen" \notin used' => "reopen" \notin used /\ ~Contains(configured, route)
  BY <1>2, <1>6, <1>7, Remembers DEF OrderInv
<1>9. /\ RoutesIn(flattenedPath', configured')
      /\ ~Contains(configured, route) /\ Chained(path) =>
           Chained(flattenedPath') /\ currentPath' = Len(flattenedPath')
  BY <1>2, <1>3, <1>4, <1>5, <1>6, <1>8, AddsOne
<1>10. "reopen" \notin used => Chained(path)
  <2>1. Chained(<<>>)
    BY EmptyTree DEF Chained
  <2> QED
    BY <1>1, <2>1 DEF OrderInv
<1> QED
  BY <1>2, <1>8, <1>9, <1>10 DEF OrderInv

LEMMA OrderAfterThenWith ==
  ASSUME TreeInv, OrderInv, NEW r \in Relations, ThenWith(r)
  PROVE  OrderInv'
<1>1. PICK route : route = Append(PathOf(flattenedPath)[currentPath], r)
  OBVIOUS
<1>2. /\ receiver = "relation" /\ receiver' = receiver
      /\ LeftOf[r] = EntityAt(flattenedPath, currentPath)
      /\ AddToPath(flattenedPath, currentPath, r)
      /\ Remember(route) /\ MayConfigure(route)
  BY <1>1 DEF ThenWith
<1>3. Tree(flattenedPath) /\ currentPath \in 0 .. Len(flattenedPath)
  BY DEF TreeInv
<1>4. route \in Seq(Relations)
  BY <1>1, <1>3, RouteOfNext
<1>5. /\ configured' \in Seq(Seq(Relations)) /\ Len(configured') <= MaxJoins
      /\ used' \subseteq Styles
      /\ \A other : Contains(configured, other) => Contains(configured', other)
      /\ Contains(configured', route)
      /\ "reopen" \notin used' => "reopen" \notin used /\ ~Contains(configured, route)
  BY <1>2, <1>4, Remembers DEF OrderInv
<1>6. RoutesIn(flattenedPath, configured)
  BY DEF OrderInv
<1>7. /\ RoutesIn(flattenedPath', configured')
      /\ ~Contains(configured, route) /\ Chained(flattenedPath)
         /\ currentPath \in {0, Len(flattenedPath)} =>
           Chained(flattenedPath') /\ currentPath' = Len(flattenedPath')
  BY <1>1, <1>2, <1>3, <1>5, <1>6, AddsOne
<1> QED
  BY <1>2, <1>5, <1>7 DEF OrderInv

LEMMA OrderAfterOthers ==
  ASSUME OrderInv, Configure \/ QueryAsync \/ UNCHANGED vars
  PROVE  OrderInv'
<1>1. CASE Configure
  BY <1>1 DEF Configure, OrderInv
<1>2. CASE QueryAsync \/ UNCHANGED vars
  BY <1>2 DEF QueryAsync, vars, OrderInv
<1> QED
  BY <1>1, <1>2

LEMMA OrderInvariance == Spec => []OrderInv
<1>1. TreeInv /\ OrderInv /\ [Next]_vars => OrderInv'
  BY OrderAfterJoinWith, OrderAfterThenWith, OrderAfterOthers DEF Next
<1> QED
  BY <1>1, OrderAtStart, TreeInvariance, PTL DEF Spec

(* A query whose joins are each configured once has its tables in the      *)
(* order in which the materializer visits them.                            *)
THEOREM ChainsAreOrdered == Spec => []ChainsKeepOrder
<1>1. TreeInv /\ OrderInv => ChainsKeepOrder
  BY ChainedOrder DEF TreeInv, OrderInv, ChainsKeepOrder, OrdersAgree
<1> QED
  BY <1>1, OrderInvariance, TreeInvariance, PTL

-----------------------------------------------------------------------------
(* The columns of a row.                                                   *)

CutTables(path) == [join : 0 .. Len(path), columns : Seq(STRING)]
Cuts(path, generated) ==
  [threw : BOOLEAN, tables : Seq(CutTables(path)),
   current : 1 .. Len(generated), next : 1 .. Len(generated)]

(* The last table gets the column.                                         *)
LastGets(tables, name) ==
  IF tables = <<>> THEN tables ELSE [tables EXCEPT ![Len(tables)].columns = Append(@, name)]

LEMMA LastHasIt ==
  ASSUME NEW path, NEW tables \in Seq(CutTables(path)), tables # <<>>, NEW name \in STRING
  PROVE  LET grown == LastGets(tables, name) IN
         /\ grown \in Seq(CutTables(path)) /\ Len(grown) = Len(tables)
         /\ \A i \in 1 .. Len(tables) : i # Len(tables) => grown[i] = tables[i]
         /\ grown[Len(tables)] = [join    |-> tables[Len(tables)].join,
                                  columns |-> Append(tables[Len(tables)].columns, name)]
<1>1. PICK T : T = CutTables(path)
  OBVIOUS
<1>2. PICK n : n = Len(tables)
  OBVIOUS
<1>3. tables \in [1 .. n -> T] /\ n \in Nat \ {0}
  BY <1>1, <1>2, LenProperties, EmptySeq
<1>4. PICK last : last = tables[n]
  OBVIOUS
<1>5. last \in [join : 0 .. Len(path), columns : Seq(STRING)]
  BY <1>1, <1>3, <1>4 DEF CutTables
<1>6. PICK cols : cols = Append(last.columns, name)
  OBVIOUS
<1>7. cols \in Seq(STRING)
  <2>1. PICK c : c = last.columns
    OBVIOUS
  <2>2. c \in Seq(STRING)
    BY <1>5, <2>1
  <2>3. Append(c, name) \in Seq(STRING)
    BY <2>2, AppendProperties
  <2> QED
    BY <1>6, <2>1, <2>3
<1>8. PICK new : new = [last EXCEPT !.columns = cols]
  OBVIOUS
<1>9. new = [join |-> last.join, columns |-> cols] /\ new \in T
  BY <1>1, <1>5, <1>7, <1>8 DEF CutTables
<1>10. PICK grown : grown = [tables EXCEPT ![n] = new]
  OBVIOUS
<1>11. /\ grown \in [1 .. n -> T] /\ grown[n] = new
       /\ \A i \in 1 .. n : i # n => grown[i] = tables[i]
  BY <1>3, <1>9, <1>10
<1>12. LastGets(tables, name) = grown
  BY <1>2, <1>4, <1>6, <1>8, <1>10 DEF LastGets
<1>13. grown \in Seq(T) /\ Len(grown) = n
  BY <1>3, <1>11
<1> QED
  BY <1>1, <1>2, <1>4, <1>6, <1>9, <1>11, <1>12, <1>13

(* A column that is the awaited key, and one that is not.                  *)
Awaited(path, generated, c) == EntityAt(path, generated[c.next])
Opened(generated, c) == Append(c.tables, [join |-> generated[c.next], columns |-> <<>>])
Following(path, generated, c) ==
  IF path # <<>> /\ c.next < Len(generated) THEN c.next + 1 ELSE c.next

LEMMA TakesKey ==
  ASSUME NEW path, NEW generated, NEW c, NEW name, name = PrimaryKey(Awaited(path, generated, c))
  PROVE  \E threw \in BOOLEAN :
           /\ TakeColumn(path, generated, c, name) =
                [threw |-> threw, tables |-> LastGets(Opened(generated, c), name),
                 current |-> c.next, next |-> Following(path, generated, c)]
           /\ threw =>
                \/ c.threw
                \/ /\ c.next < Len(generated)
                   /\ PrimaryKey(EntityAt(path, generated[c.next + 1]))
                        \in RegularColumns(Awaited(path, generated, c))
                \/ name \notin ToSet(ColumnsOf[Awaited(path, generated, c)])
                \/ Opened(generated, c) = <<>>
BY DEF TakeColumn, LastGets, Awaited, Opened, Following

LEMMA TakesOther ==
  ASSUME NEW path, NEW generated, NEW c, NEW name, NEW e, e = EntityAt(path, generated[c.current]),
         name # PrimaryKey(Awaited(path, generated, c))
  PROVE  \E threw \in BOOLEAN :
           /\ TakeColumn(path, generated, c, name) =
                [threw |-> threw, tables |-> LastGets(c.tables, name),
                 current |-> c.current, next |-> c.next]
           /\ threw => c.threw \/ name \notin ToSet(ColumnsOf[e]) \/ c.tables = <<>>
BY DEF TakeColumn, LastGets, Awaited

LEMMA TakeColumnType ==
  ASSUME NEW path, Len(path) \in Nat, NEW generated \in Seq(0 .. Len(path)),
         NEW c \in Cuts(path, generated), NEW name \in STRING
  PROVE  TakeColumn(path, generated, c, name) \in Cuts(path, generated)
<1>1. PICK T : T = CutTables(path)
  OBVIOUS
<1>2. PICK G \in Nat : G = Len(generated)
  BY LenProperties
<1>3. /\ c.threw \in BOOLEAN /\ c.tables \in Seq(T)
      /\ c.current \in 1 .. G /\ c.next \in 1 .. G
  BY <1>1, <1>2 DEF Cuts
<1>4. ASSUME NEW tables \in Seq(T)
      PROVE  LastGets(tables, name) \in Seq(T)
  <2>1. CASE tables = <<>>
    BY <1>4, <2>1 DEF LastGets
  <2>2. CASE tables # <<>>
    BY <1>1, <1>4, <2>2, LastHasIt
  <2> QED
    BY <2>1, <2>2
<1>5. ASSUME NEW threw \in BOOLEAN, NEW tables \in Seq(T),
             NEW current \in 1 .. G, NEW next \in 1 .. G
      PROVE  [threw |-> threw, tables |-> tables, current |-> current, next |-> next]
                \in Cuts(path, generated)
  BY <1>1, <1>2, <1>5 DEF Cuts
<1>6. CASE name = PrimaryKey(Awaited(path, generated, c))
  <2>1. Opened(generated, c) \in Seq(T)
    <3>1. PICK table : table = [join |-> generated[c.next], columns |-> <<>>]
      OBVIOUS
    <3>2. table \in T
      <4>1. generated[c.next] \in 0 .. Len(path)
        BY <1>2, <1>3, ElementOfSeq
      <4>2. <<>> \in Seq(STRING)
        BY EmptySeq
      <4> QED
        BY <1>1, <3>1, <4>1, <4>2 DEF CutTables
    <3>3. PICK old : old = c.tables
      OBVIOUS
    <3>4. Append(old, table) \in Seq(T)
      BY <1>3, <3>2, <3>3, AppendProperties
    <3> QED
      BY <3>1, <3>3, <3>4 DEF Opened
  <2>2. Following(path, generated, c) \in 1 .. G
    BY <1>2, <1>3 DEF Following
  <2>3. PICK threw \in BOOLEAN :
          TakeColumn(path, generated, c, name) =
            [threw |-> threw, tables |-> LastGets(Opened(generated, c), name),
             current |-> c.next, next |-> Following(path, generated, c)]
    BY <1>6, TakesKey
  <2> QED
    BY <1>3, <1>4, <1>5, <2>1, <2>2, <2>3
<1>7. CASE name # PrimaryKey(Awaited(path, generated, c))
  <2>1. PICK threw \in BOOLEAN :
          TakeColumn(path, generated, c, name) =
            [threw |-> threw, tables |-> LastGets(c.tables, name),
             current |-> c.current, next |-> c.next]
    BY <1>7, TakesOther
  <2> QED
    BY <1>3, <1>4, <1>5, <2>1
<1> QED
  BY <1>6, <1>7

StartOfCut == [threw |-> FALSE, tables |-> <<>>, current |-> 1, next |-> 1]

(* The states of the loop over the columns.                                *)
IsCut(h, path, generated, row) ==
  /\ h \in [0 .. Len(row) -> Cuts(path, generated)] /\ h[0] = StartOfCut
  /\ \A n \in 1 .. Len(row) : h[n] = TakeColumn(path, generated, h[n - 1], row[n])
  /\ Cut(path, row)[Len(row)] = h[Len(row)]

LEMMA Cutting ==
  ASSUME NEW path, Len(path) \in Nat, NEW generated \in Seq(0 .. Len(path)),
         generated = GenerateSortedEntities(path), generated # <<>>, NEW row \in Seq(STRING)
  PROVE  \E h : IsCut(h, path, generated, row)
<1>1. PICK N \in Nat : N = Len(row)
  BY LenProperties
<1>2. PICK V : V = Cuts(path, generated)
  OBVIOUS
<1> DEFINE F == [x \in V \X (1 .. N) |-> TakeColumn(path, generated, x[1], row[x[2]])]
           Fits(g) == g = [n \in 0 .. N |-> IF n = 0 THEN StartOfCut
                                           ELSE TakeColumn(path, generated, g[n - 1], row[n])]
<1>3. F \in [V \X (1 .. N) -> V]
  <2>1. ASSUME NEW x \in V \X (1 .. N)
        PROVE  TakeColumn(path, generated, x[1], row[x[2]]) \in V
    <3>1. x[1] \in V /\ x[2] \in 1 .. N
      BY <2>1
    <3>2. row[x[2]] \in STRING
      BY <1>1, <3>1, ElementOfSeq
    <3> QED
      BY <1>2, <3>1, <3>2, TakeColumnType
  <2> QED
    BY <2>1
<1>4. StartOfCut \in V
  <2>1. <<>> \in Seq(CutTables(path))
    BY EmptySeq
  <2>2. 1 \in 1 .. Len(generated)
    BY LenProperties, EmptySeq
  <2> QED
    BY <1>2, <2>1, <2>2 DEF Cuts, StartOfCut
<1>5. PICK h : IsHistory(h, N, V, StartOfCut, F)
  <2> HIDE DEF F
  <2> QED
    BY <1>1, <1>3, <1>4, Recursion, Zenon
<1>6. h \in [0 .. N -> V] /\ h[0] = StartOfCut
  BY <1>5 DEF IsHistory
<1>7. \A n \in 1 .. N : h[n] = TakeColumn(path, generated, h[n - 1], row[n])
  <2> TAKE n \in 1 .. N
  <2>1. n - 1 \in 0 .. N
    BY <1>1
  <2>2. PICK x : x = <<h[n - 1], n>>
    OBVIOUS
  <2>3. x \in V \X (1 .. N) /\ x[1] = h[n - 1] /\ x[2] = n
    BY <1>6, <2>1, <2>2
  <2>4. h[n] = F[x]
    BY <1>5, <2>2 DEF IsHistory
  <2>5. F[x] = TakeColumn(path, generated, x[1], row[x[2]])
    BY <2>3
  <2> HIDE DEF F
  <2> QED
    BY <2>3, <2>4, <2>5
<1>8. Fits(h)
  <2>1. \A n \in 0 .. N : n # 0 => n \in 1 .. N
    BY <1>1
  <2>2. h = [n \in 0 .. N |-> h[n]]
    BY <1>6
  <2>3. \A n \in 0 .. N : h[n] = IF n = 0 THEN StartOfCut
                                 ELSE TakeColumn(path, generated, h[n - 1], row[n])
    BY <1>6, <1>7, <2>1, Zenon
  <2> QED
    BY <2>2, <2>3, Zenon
<1>9. PICK g : g = CHOOSE f : Fits(f)
  OBVIOUS
<1>10. Fits(g)
  <2> HIDE DEF Fits
  <2> QED
    BY <1>8, <1>9, Zenon
<1>11. Cut(path, row)[N] = g[N]
  BY <1>1, <1>9 DEF Cut, StartOfCut
<1>12. \A n \in 0 .. N : g[n] = IF n = 0 THEN StartOfCut
                                ELSE TakeColumn(path, generated, g[n - 1], row[n])
  BY <1>10, Zenon
<1> DEFINE T == {n \in 0 .. N : g[n] = h[n]}
<1>13. 0 \in T
  BY <1>1, <1>6, <1>12
<1>14. ASSUME NEW n \in 1 .. N, n - 1 \in T
       PROVE  n \in T
  <2>1. n \in 0 .. N /\ n # 0 /\ g[n - 1] = h[n - 1]
    BY <1>1, <1>14
  <2>2. g[n] = TakeColumn(path, generated, g[n - 1], row[n])
    BY <1>12, <2>1, Zenon
  <2>3. g[n] = h[n]
    BY <1>7, <2>1, <2>2, Zenon
  <2> QED
    BY <2>1, <2>3
<1>15. \A n \in 1 .. N : n - 1 \in T => n \in T
  BY <1>14
<1> HIDE DEF T
<1>16. N \in T
  <2>1. \A n \in 0 .. N : n \in T
    BY <1>1, <1>13, <1>15, CountUp, Zenon
  <2> QED
    BY <1>1, <2>1
<1>17. g[N] = h[N]
  BY <1>16 DEF T
<1> QED
  BY <1>1, <1>2, <1>6, <1>7, <1>11, <1>17 DEF IsCut

-----------------------------------------------------------------------------
(* Cutting a row within the documented limits.                             *)

TableAt(path, k) == EntityAt(path, k - 1)

(* What is selected of each table starts with its key, the key is not      *)
(* selected twice, and a table has no column like the next one's key.      *)
Cuttable(path, s) ==
  /\ Tree(path) /\ s \in [1 .. Len(path) + 1 -> Seq(STRING)]
  /\ \A k \in 1 .. Len(path) + 1 :
       /\ s[k] # <<>> /\ s[k][1] = PrimaryKey(TableAt(path, k))
       /\ PrimaryKey(TableAt(path, k)) \in ToSet(ColumnsOf[TableAt(path, k)])
       /\ \A j \in 2 .. Len(s[k]) : /\ s[k][j] # PrimaryKey(TableAt(path, k))
                                    /\ s[k][j] \in RegularColumns(TableAt(path, k))
                                    /\ s[k][j] \in ToSet(ColumnsOf[TableAt(path, k)])
       /\ k <= Len(path) =>
            PrimaryKey(TableAt(path, k + 1)) \notin RegularColumns(TableAt(path, k))

Prefix(t, j) == [i \in 1 .. j |-> t[i]]

LEMMA PrefixGrows ==
  ASSUME NEW R, NEW t \in Seq(R)
  PROVE  /\ Len(t) \in Nat
         /\ t # <<>> => Prefix(t, 1) = <<t[1]>>
         /\ \A j \in 2 .. Len(t) : Prefix(t, j) = Append(Prefix(t, j - 1), t[j])
         /\ Prefix(t, Len(t)) = t
<1>1. Len(t) \in Nat /\ t = [i \in 1 .. Len(t) |-> t[i]]
  BY LenProperties
<1>2. t # <<>> => 1 \in 1 .. Len(t)
  BY <1>1, EmptySeq
<1>3. t # <<>> => Prefix(t, 1) = <<t[1]>>
  BY <1>1, <1>2 DEF Prefix
<1>4. ASSUME NEW j \in 2 .. Len(t)
      PROVE  Prefix(t, j) = Append(Prefix(t, j - 1), t[j])
  <2>1. PICK p : p = Prefix(t, j - 1)
    OBVIOUS
  <2>2. PICK q : q = Prefix(t, j)
    OBVIOUS
  <2>3. \A i \in 1 .. j : t[i] \in R
    BY <1>1, ElementOfSeq
  <2>4. p \in Seq(R) /\ Len(p) = j - 1 /\ \A i \in 1 .. j - 1 : p[i] = t[i]
    <3>1. p \in [1 .. j - 1 -> R] /\ j - 1 \in Nat
      BY <1>1, <2>1, <2>3 DEF Prefix
    <3> QED
      BY <2>1, <3>1 DEF Prefix
  <2>5. q \in [1 .. j -> R] /\ \A i \in 1 .. j : q[i] = t[i]
    BY <1>1, <2>2, <2>3 DEF Prefix
  <2>6. PICK a : a = Append(p, t[j])
    OBVIOUS
  <2>7. t[j] \in R
    BY <1>1, <2>3
  <2>8. /\ a \in Seq(R) /\ Len(a) = Len(p) + 1
        /\ \A i \in 1 .. Len(p) : a[i] = p[i]
        /\ a[Len(p) + 1] = t[j]
    <3>1. PICK u : u = t[j]
      OBVIOUS
    <3> QED
      BY <2>4, <2>6, <2>7, <3>1, AppendProperties
  <2>9. Len(a) = j /\ a = [i \in 1 .. j |-> a[i]]
    <3>1. Len(a) = j
      BY <1>1, <2>4, <2>8
    <3> QED
      BY <2>8, <3>1, LenProperties
  <2>10. \A i \in 1 .. j : a[i] = q[i]
    <3> SUFFICES ASSUME NEW i \in 1 .. j
                 PROVE  a[i] = q[i]
      OBVIOUS
    <3>1. Len(p) + 1 = j
      BY <1>1, <2>4
    <3>2. CASE i = j
      BY <2>5, <2>8, <3>1, <3>2
    <3>3. CASE i # j
      <4>1. i \in 1 .. j - 1 /\ i \in 1 .. Len(p)
        BY <1>1, <2>4, <3>3
      <4> QED
        BY <2>4, <2>5, <2>8, <4>1
    <3> QED
      BY <3>2, <3>3
  <2>11. q = [i \in 1 .. j |-> q[i]]
    BY <2>5
  <2>12. a = q
    BY <2>9, <2>10, <2>11
  <2> QED
    BY <2>1, <2>2, <2>6, <2>12
<1>5. Prefix(t, Len(t)) = t
  BY <1>1 DEF Prefix
<1> QED
  BY <1>1, <1>3, <1>4, <1>5

NextAfter(path, k) == IF k <= Len(path) THEN k + 1 ELSE Len(path) + 1

(* After the first k tables of the row.                                    *)
Complete(c, path, s, k) ==
  /\ c.threw = FALSE /\ c.next = NextAfter(path, k) /\ Len(c.tables) = k
  /\ \A i \in 1 .. k : c.tables[i] = [join |-> i - 1, columns |-> s[i]]

(* After j columns of the table k.                                         *)
Within(c, path, s, k, j) ==
  /\ c.threw = FALSE /\ c.next = NextAfter(path, k) /\ Len(c.tables) = k /\ c.current = k
  /\ \A i \in 1 .. k - 1 : c.tables[i] = [join |-> i - 1, columns |-> s[i]]
  /\ c.tables[k] = [join |-> k - 1, columns |-> Prefix(s[k], j)]

LEMMA FirstColumn ==
  ASSUME NEW path, NEW s, Cuttable(path, s), NEW k \in 1 .. Len(path) + 1,
         NEW c \in Cuts(path, SqlOrder(path)), Complete(c, path, s, k - 1)
  PROVE  Within(TakeColumn(path, SqlOrder(path), c, s[k][1]), path, s, k, 1)
<1>1. PICK N \in Nat : N = Len(path)
  BY LenProperties DEF Cuttable, Tree
<1>2. PICK generated : generated = SqlOrder(path)
  OBVIOUS
<1>3. /\ \A i \in 1 .. N + 1 : generated[i] = i - 1
      /\ Len(generated) = N + 1
  BY <1>1, <1>2 DEF SqlOrder
<1>4. c.threw = FALSE /\ c.tables \in Seq(CutTables(path)) /\ Len(c.tables) = k - 1
  BY DEF Cuts, Complete
<1>5. c.next = k
  <2>1. k - 1 <= N /\ k - 1 + 1 = k
    BY <1>1
  <2> QED
    BY <1>1, <2>1 DEF Complete, NextAfter
<1>6. Awaited(path, generated, c) = TableAt(path, k)
  BY <1>1, <1>3, <1>5 DEF Awaited, TableAt
<1>7. PICK name : name = s[k][1]
  OBVIOUS
<1>8. name = PrimaryKey(TableAt(path, k)) /\ name \in ToSet(ColumnsOf[TableAt(path, k)])
  BY <1>7 DEF Cuttable
<1>9. name \in STRING
  <2>1. s[k] \in Seq(STRING) /\ s[k] # <<>>
    BY DEF Cuttable
  <2>2. PICK t : t = s[k]
    OBVIOUS
  <2>3. t[1] \in STRING
    BY <2>1, <2>2, EmptySeq, LenProperties, ElementOfSeq
  <2> QED
    BY <1>7, <2>2, <2>3
<1>10. PICK tables : tables = Opened(generated, c)
  OBVIOUS
<1>11. /\ tables \in Seq(CutTables(path)) /\ Len(tables) = k /\ tables # <<>>
       /\ \A i \in 1 .. k - 1 : tables[i] = c.tables[i]
       /\ tables[k] = [join |-> k - 1, columns |-> <<>>]
  <2>1. PICK table : table = [join |-> generated[c.next], columns |-> <<>>]
    OBVIOUS
  <2>2. PICK old : old = c.tables
    OBVIOUS
  <2>3. table = [join |-> k - 1, columns |-> <<>>] /\ table \in CutTables(path)
    <3>1. generated[c.next] = k - 1 /\ k - 1 \in 0 .. Len(path)
      BY <1>1, <1>3, <1>5
    <3>2. <<>> \in Seq(STRING)
      BY EmptySeq
    <3> QED
      BY <2>1, <3>1, <3>2 DEF CutTables
  <2>4. tables = Append(old, table)
    BY <1>10, <2>1, <2>2 DEF Opened
  <2>5. /\ tables \in Seq(CutTables(path)) /\ Len(tables) = Len(old) + 1
        /\ \A i \in 1 .. Len(old) : tables[i] = old[i]
        /\ tables[Len(old) + 1] = table
    BY <1>4, <2>2, <2>3, <2>4, AppendProperties
  <2>6. Len(old) + 1 = k /\ Len(old) = k - 1
    BY <1>1, <1>4, <2>2
  <2>7. tables # <<>>
    BY <1>1, <2>5, <2>6, EmptySeq
  <2> QED
    BY <2>2, <2>3, <2>5, <2>6, <2>7
<1>12. PICK grown : grown = LastGets(tables, name)
  OBVIOUS
<1>13. /\ Len(grown) = k
       /\ \A i \in 1 .. k - 1 : grown[i] = c.tables[i]
       /\ grown[k] = [join |-> k - 1, columns |-> <<name>>]
  <2>1. /\ Len(grown) = k
        /\ \A i \in 1 .. k : i # k => grown[i] = tables[i]
        /\ grown[k] = [join |-> tables[k].join, columns |-> Append(tables[k].columns, name)]
    BY <1>9, <1>11, <1>12, LastHasIt
  <2>2. \A i \in 1 .. k - 1 : i \in 1 .. k /\ i # k
    BY <1>1
  <2>3. tables[k].join = k - 1 /\ Append(tables[k].columns, name) = <<name>>
    BY <1>11
  <2> QED
    BY <1>11, <2>1, <2>2, <2>3
<1>14. PICK threw \in BOOLEAN :
         /\ TakeColumn(path, generated, c, name) =
              [threw |-> threw, tables |-> LastGets(Opened(generated, c), name),
               current |-> c.next, next |-> Following(path, generated, c)]
         /\ threw =>
              \/ c.threw
              \/ /\ c.next < Len(generated)
                 /\ PrimaryKey(EntityAt(path, generated[c.next + 1]))
                      \in RegularColumns(Awaited(path, generated, c))
              \/ name \notin ToSet(ColumnsOf[Awaited(path, generated, c)])
              \/ Opened(generated, c) = <<>>
  BY <1>6, <1>8, TakesKey
<1>15. threw = FALSE
  <2>1. ~(/\ c.next < Len(generated)
          /\ PrimaryKey(EntityAt(path, generated[c.next + 1]))
               \in RegularColumns(Awaited(path, generated, c)))
    <3> SUFFICES ASSUME k < N + 1
                 PROVE  PrimaryKey(EntityAt(path, generated[k + 1]))
                          \notin RegularColumns(TableAt(path, k))
      BY <1>3, <1>5, <1>6
    <3>1. k <= Len(path) /\ generated[k + 1] = (k + 1) - 1
      BY <1>1, <1>3
    <3> QED
      BY <3>1 DEF Cuttable, TableAt
  <2> QED
    BY <1>4, <1>6, <1>8, <1>10, <1>11, <1>14, <2>1
<1>16. Following(path, generated, c) = NextAfter(path, k)
  <2>1. path = <<>> => N = 0
    BY <1>1, EmptySeq
  <2> QED
    BY <1>1, <1>3, <1>5, <2>1 DEF Following, NextAfter
<1>17. Prefix(s[k], 1) = <<name>>
  <2>1. PICK t : t = s[k]
    OBVIOUS
  <2>2. t \in Seq(STRING) /\ t # <<>>
    BY <2>1 DEF Cuttable
  <2> QED
    BY <1>7, <2>1, <2>2, PrefixGrows
<1>18. \A i \in 1 .. k - 1 : c.tables[i] = [join |-> i - 1, columns |-> s[i]]
  BY DEF Complete
<1>19. PICK d : d = TakeColumn(path, generated, c, name)
  OBVIOUS
<1>20. d.threw = FALSE /\ d.tables = grown /\ d.current = k /\ d.next = NextAfter(path, k)
  BY <1>5, <1>10, <1>12, <1>14, <1>15, <1>16, <1>19
<1>21. Within(d, path, s, k, 1)
  BY <1>13, <1>17, <1>18, <1>20 DEF Within
<1> QED
  BY <1>2, <1>7, <1>19, <1>21

LEMMA NextColumn ==
  ASSUME NEW path, NEW s, Cuttable(path, s), NEW k \in 1 .. Len(path) + 1,
         NEW j \in 2 .. Len(s[k]),
         NEW c \in Cuts(path, SqlOrder(path)), Within(c, path, s, k, j - 1)
  PROVE  Within(TakeColumn(path, SqlOrder(path), c, s[k][j]), path, s, k, j)
<1>1. PICK N \in Nat : N = Len(path)
  BY LenProperties DEF Cuttable, Tree
<1>2. PICK generated : generated = SqlOrder(path)
  OBVIOUS
<1>3. \A i \in 1 .. N + 1 : generated[i] = i - 1
  BY <1>1, <1>2 DEF SqlOrder
<1>4. /\ c.threw = FALSE /\ c.tables \in Seq(CutTables(path)) /\ Len(c.tables) = k
      /\ c.current = k /\ c.next = NextAfter(path, k)
      /\ \A i \in 1 .. k - 1 : c.tables[i] = [join |-> i - 1, columns |-> s[i]]
      /\ c.tables[k] = [join |-> k - 1, columns |-> Prefix(s[k], j - 1)]
  BY DEF Cuts, Within
<1>5. PICK name : name = s[k][j]
  OBVIOUS
<1>6. /\ name # PrimaryKey(TableAt(path, k)) /\ name \in RegularColumns(TableAt(path, k))
      /\ name \in ToSet(ColumnsOf[TableAt(path, k)])
  BY <1>5 DEF Cuttable
<1>7. name \in STRING
  <2>1. PICK t : t = s[k]
    OBVIOUS
  <2>2. t \in Seq(STRING)
    BY <2>1 DEF Cuttable
  <2>3. j \in 1 .. Len(t)
    BY <2>1, <2>2, LenProperties
  <2> QED
    BY <1>5, <2>1, <2>2, <2>3, ElementOfSeq
<1>8. name # PrimaryKey(Awaited(path, generated, c))
  <2>1. CASE k <= N
    <3>1. c.next = k + 1 /\ generated[k + 1] = (k + 1) - 1
      BY <1>1, <1>3, <1>4, <2>1 DEF NextAfter
    <3>2. PrimaryKey(TableAt(path, k + 1)) \notin RegularColumns(TableAt(path, k))
      BY <1>1, <2>1 DEF Cuttable
    <3> QED
      BY <1>6, <3>1, <3>2 DEF Awaited, TableAt
  <2>2. CASE ~(k <= N)
    <3>1. c.next = k /\ generated[k] = k - 1
      BY <1>1, <1>3, <1>4, <2>2 DEF NextAfter
    <3> QED
      BY <1>6, <3>1 DEF Awaited, TableAt
  <2> QED
    BY <2>1, <2>2
<1>9. EntityAt(path, generated[c.current]) = TableAt(path, k)
  BY <1>1, <1>3, <1>4 DEF TableAt
<1>10. PICK threw \in BOOLEAN :
         /\ TakeColumn(path, generated, c, name) =
              [threw |-> threw, tables |-> LastGets(c.tables, name),
               current |-> c.current, next |-> c.next]
         /\ threw => c.threw \/ name \notin ToSet(ColumnsOf[TableAt(path, k)]) \/ c.tables = <<>>
  BY <1>8, <1>9, TakesOther
<1>11. PICK tables : tables = c.tables
  OBVIOUS
<1>12. tables \in Seq(CutTables(path)) /\ Len(tables) = k /\ tables # <<>>
  BY <1>1, <1>4, <1>11, EmptySeq
<1>13. threw = FALSE
  BY <1>4, <1>6, <1>10, <1>11, <1>12
<1>14. PICK grown : grown = LastGets(tables, name)
  OBVIOUS
<1>15. /\ Len(grown) = k
       /\ \A i \in 1 .. k : i # k => grown[i] = tables[i]
       /\ grown[k] = [join |-> tables[k].join, columns |-> Append(tables[k].columns, name)]
  BY <1>7, <1>12, <1>14, LastHasIt
<1>16. \A i \in 1 .. k - 1 : grown[i] = [join |-> i - 1, columns |-> s[i]]
  <2>1. \A i \in 1 .. k - 1 : i \in 1 .. k /\ i # k
    BY <1>1
  <2> QED
    BY <1>4, <1>11, <1>15, <2>1
<1>17. Prefix(s[k], j) = Append(Prefix(s[k], j - 1), name)
  <2>1. PICK t : t = s[k]
    OBVIOUS
  <2>2. t \in Seq(STRING)
    BY <2>1 DEF Cuttable
  <2> QED
    BY <1>5, <2>1, <2>2, PrefixGrows
<1>18. grown[k] = [join |-> k - 1, columns |-> Prefix(s[k], j)]
  BY <1>4, <1>11, <1>15, <1>17
<1>19. PICK d : d = TakeColumn(path, generated, c, name)
  OBVIOUS
<1>20. d.threw = FALSE /\ d.tables = grown /\ d.current = k /\ d.next = NextAfter(path, k)
  BY <1>4, <1>10, <1>11, <1>13, <1>14, <1>19
<1>21. Within(d, path, s, k, j)
  BY <1>15, <1>16, <1>18, <1>20 DEF Within
<1> QED
  BY <1>2, <1>5, <1>19, <1>21

LEMMA LastColumn ==
  ASSUME NEW path, NEW s, Cuttable(path, s), NEW k \in 1 .. Len(path) + 1,
         NEW c, Within(c, path, s, k, Len(s[k]))
  PROVE  Complete(c, path, s, k)
<1>1. PICK N \in Nat : N = Len(path)
  BY LenProperties DEF Cuttable, Tree
<1>2. Prefix(s[k], Len(s[k])) = s[k]
  <2>1. PICK t : t = s[k]
    OBVIOUS
  <2>2. t \in Seq(STRING)
    BY <2>1 DEF Cuttable
  <2> QED
    BY <2>1, <2>2, PrefixGrows
<1>3. \A i \in 1 .. k : i = k \/ i \in 1 .. k - 1
  BY <1>1
<1> QED
  BY <1>2, <1>3 DEF Within, Complete

(* Where the columns of the tables are in the row.                         *)
Places(at, m, s, row) ==
  /\ at \in [0 .. m -> Nat] /\ at[0] = 0 /\ at[m] = Len(row)
  /\ \A k \in 1 .. m : /\ at[k] = at[k - 1] + Len(s[k]) /\ at[k] <= Len(row)
                       /\ \A j \in 1 .. Len(s[k]) : row[at[k - 1] + j] = s[k][j]

LEMMA RowColumns ==
  ASSUME NEW R, NEW m \in Nat \ {0}, NEW s \in [1 .. m -> Seq(R)]
  PROVE  FlattenSeq(s) \in Seq(R) /\ \E at : Places(at, m, s, FlattenSeq(s))
<1>1. PICK row : row = FlattenSeq(s)
  OBVIOUS
<1>0. PICK f : IsRow(f, m, s, R)
  BY RowOfTables
<1>2. /\ f \in [0 .. m -> Seq(R)] /\ f[0] = <<>> /\ row = f[m]
      /\ \A k \in 1 .. m : f[k] = f[k - 1] \o s[k]
  BY <1>0, <1>1 DEF IsRow
<1>3. ASSUME NEW k \in 1 .. m
      PROVE  /\ k - 1 \in 0 .. m /\ k \in 0 .. m
             /\ Len(f[k - 1]) \in Nat /\ Len(s[k]) \in Nat /\ Len(f[k]) = Len(f[k - 1]) + Len(s[k])
             /\ \A n \in 1 .. Len(f[k - 1]) : f[k][n] = f[k - 1][n]
             /\ \A j \in 1 .. Len(s[k]) : f[k][Len(f[k - 1]) + j] = s[k][j]
  <2>1. k - 1 \in 0 .. m /\ k \in 0 .. m
    OBVIOUS
  <2>2. PICK a : a = f[k - 1]
    OBVIOUS
  <2>3. PICK b : b = s[k]
    OBVIOUS
  <2>4. a \in Seq(R) /\ b \in Seq(R)
    BY <1>2, <2>1, <2>2, <2>3
  <2>5. PICK c : c = a \o b
    OBVIOUS
  <2>6. Len(a) \in Nat /\ Len(b) \in Nat
    BY <2>4, LenProperties
  <2>7. /\ Len(c) = Len(a) + Len(b)
        /\ \A i \in 1 .. Len(a) + Len(b) : c[i] = IF i <= Len(a) THEN a[i] ELSE b[i - Len(a)]
    BY <2>4, <2>5, ConcatProperties
  <2>8. f[k] = c
    BY <1>2, <2>2, <2>3, <2>5
  <2>9. \A n \in 1 .. Len(a) : c[n] = a[n]
    BY <2>6, <2>7
  <2>10. ASSUME NEW j \in 1 .. Len(b)
         PROVE  c[Len(a) + j] = b[j]
    <3>1. Len(a) + j \in 1 .. Len(a) + Len(b) /\ ~(Len(a) + j <= Len(a))
      BY <2>6
    <3>2. (Len(a) + j) - Len(a) = j
      BY <2>6
    <3> QED
      BY <2>7, <3>1, <3>2
  <2> QED
    BY <2>1, <2>2, <2>3, <2>6, <2>7, <2>8, <2>9, <2>10
<1>4. PICK at : at = [k \in 0 .. m |-> Len(f[k])]
  OBVIOUS
<1>5. at \in [0 .. m -> Nat] /\ at[0] = 0 /\ \A k \in 0 .. m : at[k] = Len(f[k])
  <2>1. \A k \in 0 .. m : Len(f[k]) \in Nat
    BY <1>2, LenProperties
  <2> QED
    BY <1>2, <1>4, <2>1
<1> DEFINE Fits(k) == at[k] <= Len(row) /\ \A n \in 1 .. at[k] : row[n] = f[k][n]
           S == {d \in 0 .. m : Fits(m - d)}
<1>6. 0 \in S
  BY <1>2, <1>5
<1>7. ASSUME NEW d \in 1 .. m, d - 1 \in S
      PROVE  d \in S
  <2>1. PICK k \in 1 .. m : k = m - (d - 1)
    OBVIOUS
  <2>2. Fits(k)
    BY <1>7, <2>1
  <2>3. k \in 1 .. m /\ k - 1 \in 0 .. m /\ k \in 0 .. m
    BY <2>1
  <2>4. /\ Len(f[k - 1]) \in Nat /\ Len(s[k]) \in Nat /\ Len(f[k]) = Len(f[k - 1]) + Len(s[k])
        /\ \A n \in 1 .. Len(f[k - 1]) : f[k][n] = f[k - 1][n]
    BY <1>3, <2>3
  <2>5. at[k - 1] = Len(f[k - 1]) /\ at[k] = Len(f[k])
    BY <1>5, <2>3
  <2>6. Len(row) \in Nat
    BY <1>2, LenProperties
  <2>7. \A n \in 1 .. at[k - 1] : n \in 1 .. at[k]
    BY <2>4, <2>5
  <2>8. Fits(k - 1)
    <3>1. at[k - 1] <= Len(row)
      BY <2>2, <2>4, <2>5, <2>6
    <3>2. \A n \in 1 .. at[k - 1] : row[n] = f[k - 1][n]
      BY <2>2, <2>4, <2>5, <2>7
    <3> QED
      BY <3>1, <3>2
  <2>9. m - d = k - 1 /\ d \in 0 .. m
    BY <2>1
  <2> HIDE DEF Fits
  <2> QED
    BY <2>8, <2>9
<1>8. \A d \in 1 .. m : d - 1 \in S => d \in S
  BY <1>7
<1> HIDE DEF S
<1>9. \A d \in 0 .. m : d \in S
  BY <1>6, <1>8, CountUp
<1>10. ASSUME NEW k \in 1 .. m
       PROVE  /\ at[k] = at[k - 1] + Len(s[k]) /\ at[k] <= Len(row)
              /\ \A j \in 1 .. Len(s[k]) : row[at[k - 1] + j] = s[k][j]
  <2>1. at[k - 1] = Len(f[k - 1]) /\ at[k] = Len(f[k])
    BY <1>3, <1>5
  <2>2. Fits(k)
    <3>1. m - k \in 0 .. m /\ m - (m - k) = k
      OBVIOUS
    <3> HIDE DEF Fits
    <3> QED
      BY <1>9, <3>1 DEF S
  <2>3. ASSUME NEW j \in 1 .. Len(s[k])
        PROVE  row[at[k - 1] + j] = s[k][j]
    <3>1. at[k - 1] + j \in 1 .. at[k]
      BY <1>3, <2>1
    <3> QED
      BY <1>3, <2>1, <2>2, <3>1
  <2> QED
    BY <1>3, <2>1, <2>2, <2>3
<1>11. row \in Seq(R) /\ at[m] = Len(row)
  BY <1>2, <1>5
<1>12. Places(at, m, s, row)
  <2> HIDE DEF Fits
  <2> QED
    BY <1>5, <1>10, <1>11 DEF Places
<1> QED
  BY <1>1, <1>11, <1>12

LEMMA CutsRight ==
  ASSUME NEW path, NEW s, Cuttable(path, s), GenerateSortedEntities(path) = SqlOrder(path)
  PROVE  CutRow(path, FlattenSeq(s)) =
           [threw  |-> FALSE,
            tables |-> [i \in 1 .. Len(path) + 1 |-> [join |-> i - 1, columns |-> s[i]]]]
<1>1. PICK N \in Nat : N = Len(path)
  BY LenProperties DEF Cuttable, Tree
<1>2. PICK m \in Nat \ {0} : m = N + 1
  OBVIOUS
<1>3. PICK row : row = FlattenSeq(s)
  OBVIOUS
<1>4. s \in [1 .. m -> Seq(STRING)]
  BY <1>1, <1>2 DEF Cuttable
<1>5. PICK at : Places(at, m, s, row)
  BY <1>3, <1>4, RowColumns
<1>6. row \in Seq(STRING) /\ Len(row) \in Nat
  BY <1>3, <1>4, RowColumns, LenProperties
<1>7. PICK generated : generated = SqlOrder(path)
  OBVIOUS
<1>8. generated \in Seq(0 .. Len(path)) /\ generated # <<>>
  <2>1. generated \in [1 .. m -> 0 .. Len(path)]
    BY <1>1, <1>2, <1>7 DEF SqlOrder
  <2>2. generated \in Seq(0 .. Len(path)) /\ Len(generated) = m
    BY <2>1
  <2> QED
    BY <2>2, EmptySeq
<1>9. PICK h : IsCut(h, path, generated, row)
  BY <1>1, <1>6, <1>7, <1>8, Cutting
<1>10. /\ h \in [0 .. Len(row) -> Cuts(path, generated)] /\ h[0] = StartOfCut
       /\ \A n \in 1 .. Len(row) : h[n] = TakeColumn(path, generated, h[n - 1], row[n])
       /\ Cut(path, row)[Len(row)] = h[Len(row)]
  BY <1>9 DEF IsCut
<1> DEFINE S == {k \in 0 .. m : Complete(h[at[k]], path, s, k)}
<1>11. 0 \in S
  <2>1. NextAfter(path, 0) = 1
    BY <1>1 DEF NextAfter
  <2>2. Complete(StartOfCut, path, s, 0)
    BY <2>1, EmptySeq DEF Complete, StartOfCut
  <2> QED
    BY <1>2, <1>5, <1>10, <2>2 DEF Places
<1>12. ASSUME NEW k \in 1 .. m, k - 1 \in S
       PROVE  k \in S
  <2>1. k \in 1 .. Len(path) + 1 /\ k - 1 \in 0 .. m /\ k \in 0 .. m
    BY <1>1, <1>2
  <2>2. PICK o \in Nat : o = at[k - 1]
    BY <1>5, <2>1 DEF Places
  <2>3. PICK n : n = Len(s[k])
    OBVIOUS
  <2>4. n \in Nat \ {0}
    <3>1. PICK t : t = s[k]
      OBVIOUS
    <3>2. t \in Seq(STRING) /\ t # <<>>
      BY <2>1, <3>1 DEF Cuttable
    <3> QED
      BY <2>3, <3>1, <3>2, EmptySeq, LenProperties
  <2>5. at[k] = o + n /\ o + n <= Len(row) /\ \A j \in 1 .. n : row[o + j] = s[k][j]
    BY <1>5, <2>2, <2>3 DEF Places
  <2>6. Complete(h[o], path, s, k - 1)
    BY <1>12, <2>2
  <2>7. ASSUME NEW j \in 1 .. n
        PROVE  /\ h[o + j] = TakeColumn(path, generated, h[o + (j - 1)], s[k][j])
               /\ h[o + (j - 1)] \in Cuts(path, generated)
    <3>1. o + j \in 1 .. Len(row) /\ (o + j) - 1 = o + (j - 1) /\ o + (j - 1) \in 0 .. Len(row)
      BY <1>6, <2>4, <2>5
    <3>2. h[o + j] = TakeColumn(path, generated, h[(o + j) - 1], row[o + j])
      BY <1>10, <3>1
    <3>3. row[o + j] = s[k][j]
      BY <2>5
    <3> QED
      BY <1>10, <3>1, <3>2, <3>3
  <2> DEFINE T == {i \in 0 .. n - 1 : Within(h[o + (i + 1)], path, s, k, i + 1)}
  <2>8. 0 \in T
    <3>1. 1 \in 1 .. n /\ o + (1 - 1) = o /\ 0 + 1 = 1 /\ 0 \in 0 .. n - 1
      BY <2>4
    <3>2. h[o + 1] = TakeColumn(path, generated, h[o], s[k][1]) /\ h[o] \in Cuts(path, generated)
      BY <2>7, <3>1
    <3>3. Within(h[o + 1], path, s, k, 1)
      BY <1>7, <2>1, <2>6, <3>2, FirstColumn
    <3> QED
      BY <3>1, <3>3
  <2>9. ASSUME NEW i \in 1 .. n - 1, i - 1 \in T
        PROVE  i \in T
    <3>1. PICK j : j = i + 1
      OBVIOUS
    <3>2. j \in 2 .. n /\ j \in 1 .. n /\ (i - 1) + 1 = j - 1 /\ i \in 0 .. n - 1
      BY <2>4, <3>1
    <3>3. Within(h[o + (j - 1)], path, s, k, j - 1)
      BY <2>9, <3>2
    <3>4. Within(h[o + j], path, s, k, j)
      <4>1. h[o + j] = TakeColumn(path, generated, h[o + (j - 1)], s[k][j])
        BY <2>7, <3>2
      <4>2. PICK c : c = h[o + (j - 1)]
        OBVIOUS
      <4>3. c \in Cuts(path, SqlOrder(path)) /\ Within(c, path, s, k, j - 1)
        BY <1>7, <2>7, <3>2, <3>3, <4>2
      <4>4. j \in 2 .. Len(s[k])
        BY <2>3, <3>2
      <4>5. Within(TakeColumn(path, SqlOrder(path), c, s[k][j]), path, s, k, j)
        BY <2>1, <4>3, <4>4, NextColumn
      <4> QED
        BY <1>7, <4>1, <4>2, <4>5
    <3> QED
      BY <3>1, <3>2, <3>4
  <2>10. \A i \in 1 .. n - 1 : i - 1 \in T => i \in T
    BY <2>9
  <2> HIDE DEF T
  <2>11. n - 1 \in T
    <3>1. n - 1 \in Nat
      BY <2>4
    <3>2. \A i \in 0 .. n - 1 : i \in T
      BY <2>8, <2>10, <3>1, CountUp
    <3> QED
      BY <3>1, <3>2
  <2>12. Within(h[o + n], path, s, k, Len(s[k]))
    <3>1. (n - 1) + 1 = n
      BY <2>4
    <3> QED
      BY <2>3, <2>11, <3>1 DEF T
  <2>13. Complete(h[o + n], path, s, k)
    BY <2>1, <2>12, LastColumn
  <2> QED
    BY <2>1, <2>5, <2>13
<1>13. \A k \in 1 .. m : k - 1 \in S => k \in S
  BY <1>12
<1> HIDE DEF S
<1>14. m \in S
  <2>1. m \in Nat
    OBVIOUS
  <2>2. \A k \in 0 .. m : k \in S
    BY <1>11, <1>13, <2>1, CountUp
  <2> QED
    BY <2>2
<1>15. PICK c : c = h[Len(row)]
  OBVIOUS
<1>16. /\ c.threw = FALSE /\ Len(c.tables) = m /\ c.tables \in Seq(CutTables(path))
       /\ \A i \in 1 .. m : c.tables[i] = [join |-> i - 1, columns |-> s[i]]
  <2>1. Complete(c, path, s, m)
    BY <1>5, <1>14, <1>15 DEF S, Places
  <2>2. c \in Cuts(path, generated)
    BY <1>6, <1>10, <1>15
  <2> QED
    BY <2>1, <2>2 DEF Complete, Cuts
<1>17. c.tables = [i \in 1 .. m |-> [join |-> i - 1, columns |-> s[i]]]
  <2>1. PICK tables : tables = c.tables
    OBVIOUS
  <2>2. tables = [i \in 1 .. m |-> tables[i]]
    BY <1>16, <2>1, LenProperties
  <2> QED
    BY <1>16, <2>1, <2>2
<1>18. CutRow(path, row) = [threw |-> FALSE, tables |-> c.tables]
  BY <1>1, <1>2, <1>10, <1>15, <1>16 DEF CutRow
<1> QED
  BY <1>1, <1>2, <1>3, <1>17, <1>18

-----------------------------------------------------------------------------
(* Running the query.                                                      *)

(* What was asked is a selection of each table, and the row was cut.       *)
Selected(path, s) ==
  /\ s \in [1 .. Len(path) + 1 -> UNION {Selections[e] : e \in Entities}]
  /\ \A i \in 1 .. Len(path) + 1 : s[i] \in Selections[EntityAt(path, i - 1)]
RunInv ==
  \/ asked = <<>> /\ answer = NoAnswer
  \/ /\ Selected(flattenedPath, asked)
     /\ answer = CutRow(flattenedPath, FlattenSeq(asked))

LEMMA RunAtStart == Init => RunInv
BY DEF Init, RunInv

LEMMA RunAfterQuery ==
  ASSUME TreeInv, QueryAsync
  PROVE  RunInv'
<1>1. PICK path : path = flattenedPath
  OBVIOUS
<1>2. flattenedPath' = path /\ Len(path) \in Nat
  BY <1>1, LenProperties DEF QueryAsync, TreeInv, Tree
<1>3. PICK select \in [1 .. Len(path) + 1 -> UNION {Selections[e] : e \in Entities}] :
        /\ \A i \in DOMAIN select : select[i] \in Selections[EntityAt(path, i - 1)]
        /\ asked' = select
        /\ answer' = CutRow(path, FlattenSeq(select))
  BY <1>1 DEF QueryAsync
<1>4. Selected(path, select)
  BY <1>3 DEF Selected
<1> QED
  BY <1>2, <1>3, <1>4 DEF RunInv

LEMMA AskedIsNotEmpty ==
  ASSUME NEW path, Len(path) \in Nat, NEW s, Selected(path, s)
  PROVE  s # <<>> /\ DOMAIN s = 1 .. Len(path) + 1
<1>1. DOMAIN s = 1 .. Len(path) + 1
  BY DEF Selected
<1>2. 1 \in DOMAIN s
  BY <1>1
<1>3. DOMAIN <<>> = {}
  OBVIOUS
<1> QED
  BY <1>1, <1>2, <1>3

LEMMA RunAfterOthers ==
  ASSUME TreeInv, RunInv,
         (\E r \in Relations : JoinWith(r) \/ ThenWith(r)) \/ Configure \/ UNCHANGED vars
  PROVE  RunInv'
<1>1. Len(flattenedPath) \in Nat
  BY LenProperties DEF TreeInv, Tree
<1>2. CASE UNCHANGED vars
  BY <1>2 DEF vars, RunInv
<1>3. CASE (\E r \in Relations : JoinWith(r) \/ ThenWith(r)) \/ Configure
  <2>1. asked = <<>> /\ UNCHANGED <<asked, answer>>
    BY <1>3 DEF JoinWith, ThenWith, Configure, MayConfigure, Building
  <2>2. answer = NoAnswer
    BY <1>1, <2>1, AskedIsNotEmpty DEF RunInv
  <2> QED
    BY <2>1, <2>2 DEF RunInv
<1> QED
  BY <1>2, <1>3

LEMMA RunInvariance == Spec => []RunInv
<1>1. TreeInv /\ RunInv /\ [Next]_vars => RunInv'
  BY RunAfterQuery, RunAfterOthers DEF Next
<1> QED
  BY <1>1, RunAtStart, TreeInvariance, PTL DEF Spec

(* There are no more joins in the tree than the caller configured.         *)
LEMMA NoMoreThanConfigured ==
  ASSUME TreeInv, OrderInv
  PROVE  Len(flattenedPath) \in Nat /\ Len(flattenedPath) <= MaxJoins
<1>1. PICK N \in Nat : N = Len(flattenedPath)
  BY LenProperties DEF TreeInv, Tree
<1>2. PICK n \in Nat : n = Len(configured)
  BY LenProperties DEF OrderInv
<1>3. PICK f : f = PathOf(flattenedPath)
  OBVIOUS
<1>4. \A i \in 1 .. N : \E k \in 1 .. n : configured[k] = f[i]
  BY <1>1, <1>2, <1>3 DEF OrderInv, RoutesIn, Contains
<1>5. PICK place : place = [i \in 1 .. N |-> CHOOSE k \in 1 .. n : configured[k] = f[i]]
  OBVIOUS
<1>6. \A i \in 1 .. N : place[i] \in 1 .. n /\ configured[place[i]] = f[i]
  BY <1>4, <1>5
<1>7. place \in [1 .. N -> 1 .. n]
  BY <1>5, <1>6
<1>8. \A i, j \in 1 .. N : place[i] = place[j] => i = j
  <2> SUFFICES ASSUME NEW i \in 1 .. N, NEW j \in 1 .. N, place[i] = place[j]
               PROVE  i = j
    OBVIOUS
  <2>1. f[i] = f[j] /\ i \in 0 .. N /\ j \in 0 .. N
    BY <1>6
  <2> QED
    BY <1>1, <1>3, <2>1, RoutesDiffer DEF TreeInv
<1>9. place \in Injection(1 .. N, 1 .. n)
  BY <1>7, <1>8 DEF Injection, IsInjective
<1>10. /\ IsFiniteSet(1 .. n) /\ Cardinality(1 .. n) = n /\ Cardinality(1 .. N) = N
  BY FS_Interval
<1>11. Cardinality(1 .. N) <= Cardinality(1 .. n)
  BY <1>9, <1>10, FS_Injection
<1>12. N <= n
  BY <1>10, <1>11
<1> QED
  BY <1>1, <1>2, <1>12, JoinAssumption DEF OrderInv

LEMMA RowIsTyped ==
  ASSUME NEW path, Tree(path), NEW s, Selected(path, s)
  PROVE  s \in [1 .. Len(path) + 1 -> Seq(STRING)] /\ FlattenSeq(s) \in Seq(STRING)
<1>1. PICK N \in Nat : N = Len(path)
  BY LenProperties DEF Tree
<1>2. \A e \in Entities : Selections[e] \subseteq Seq(STRING)
  <2> SUFFICES ASSUME NEW e \in Entities
               PROVE  Selections[e] \subseteq Seq(STRING)
    OBVIOUS
  <2>1. PICK cols : cols = ColumnsOf[e]
    OBVIOUS
  <2>2. cols \in Seq(STRING) /\ Selections[e] \subseteq Seq(ToSet(cols))
    BY <2>1, JoinAssumption
  <2>3. ToSet(cols) \subseteq STRING
    BY <2>2 DEF ToSet
  <2>4. Seq(ToSet(cols)) \subseteq Seq(STRING)
    <3>1. PICK A : A = ToSet(cols)
      OBVIOUS
    <3>2. \A t \in Seq(A) : t \in Seq(STRING)
      BY <2>3, <3>1
    <3> QED
      BY <3>1, <3>2
  <2> QED
    BY <2>2, <2>4
<1>3. s \in [1 .. Len(path) + 1 -> Seq(STRING)]
  BY <1>2 DEF Selected
<1>4. N + 1 \in Nat \ {0} /\ s \in [1 .. N + 1 -> Seq(STRING)]
  BY <1>1, <1>3
<1>5. FlattenSeq(s) \in Seq(STRING)
  BY <1>4, RowColumns
<1> QED
  BY <1>3, <1>5

(* Whatever was selected, a table of the result is one of the query's.     *)
LEMMA AnswerIsTyped ==
  ASSUME NEW path, Tree(path), NEW row \in Seq(STRING)
  PROVE  /\ CutRow(path, row).threw \in BOOLEAN
         /\ \A i \in DOMAIN CutRow(path, row).tables :
              CutRow(path, row).tables[i].join \in 0 .. Len(path)
<1>1. PICK N \in Nat : N = Len(path)
  BY LenProperties DEF Tree
<1>2. PICK generated : generated = GenerateSortedEntities(path)
  OBVIOUS
<1>3. generated \in Seq(0 .. Len(path)) /\ generated # <<>>
  <2>1. PICK v : Visits(v, path, 0) /\ generated = v[0]
    BY <1>2, Walk
  <2>2. generated \in Seq(0 .. Len(path)) /\ generated = <<0>> \o VisitTrailing(path, 0, v)
    <3>1. 0 \in 0 .. Len(path)
      BY <1>1
    <3>2. v[0] \in Seq(0 .. Len(path))
      BY <2>1, <3>1 DEF Visits
    <3>3. v[0] = <<0>> \o VisitTrailing(path, 0, v)
      BY <2>1, <3>1 DEF Visits
    <3> QED
      BY <2>1, <3>2, <3>3
  <2>3. \A n \in 1 .. Len(path) : v[n] \in Seq(0 .. Len(path))
    BY <1>1, <2>1 DEF Visits
  <2>4. PICK V : V = 0 .. Len(path)
    OBVIOUS
  <2>5. PICK h : IsVisited(h, path, 0, v, V)
    BY <1>1, <2>3, <2>4, Visiting
  <2>6. PICK t : t = VisitTrailing(path, 0, v)
    OBVIOUS
  <2>7. t \in Seq(V)
    BY <1>1, <2>5, <2>6 DEF IsVisited
  <2>8. <<0>> \in Seq(V) /\ Len(<<0>>) = 1
    BY <1>1, <2>4
  <2>9. Len(<<0>> \o t) = 1 + Len(t) /\ Len(t) \in Nat
    <3>1. PICK a : a = <<0>>
      OBVIOUS
    <3>2. Len(a \o t) = Len(a) + Len(t) /\ Len(t) \in Nat
      BY <2>7, <2>8, <3>1, ConcatProperties, LenProperties
    <3> QED
      BY <2>8, <3>1, <3>2
  <2> QED
    BY <2>2, <2>6, <2>9, EmptySeq
<1>4. PICK h : IsCut(h, path, generated, row)
  BY <1>1, <1>2, <1>3, Cutting
<1>5. PICK c : c = Cut(path, row)[Len(row)]
  OBVIOUS
<1>6. c \in Cuts(path, generated)
  <2>1. Len(row) \in 0 .. Len(row)
    BY LenProperties
  <2> QED
    BY <1>4, <1>5, <2>1 DEF IsCut
<1>7. PICK tables : tables = c.tables
  OBVIOUS
<1>8. \A i \in DOMAIN tables : tables[i].join \in 0 .. Len(path)
  <2>1. tables \in Seq(CutTables(path))
    BY <1>6, <1>7 DEF Cuts
  <2> SUFFICES ASSUME NEW i \in DOMAIN tables
               PROVE  tables[i].join \in 0 .. Len(path)
    OBVIOUS
  <2>2. PICK table : table = tables[i]
    OBVIOUS
  <2>3. table \in CutTables(path)
    BY <2>1, <2>2, LenProperties, ElementOfSeq
  <2> QED
    BY <2>2, <2>3 DEF CutTables
<1>9. PICK result : result = CutRow(path, row)
  OBVIOUS
<1>10. result = Throws \/ result = [threw |-> FALSE, tables |-> tables]
  BY <1>5, <1>7, <1>9 DEF CutRow
<1>11. CASE result = Throws
  BY <1>9, <1>11 DEF Throws
<1>12. CASE result = [threw |-> FALSE, tables |-> tables]
  BY <1>8, <1>9, <1>12
<1> QED
  BY <1>10, <1>11, <1>12

LEMMA TypesHold ==
  ASSUME TreeInv, OrderInv, RunInv
  PROVE  TypeOK
<1>1. PICK path : path = flattenedPath
  OBVIOUS
<1>2. PICK N \in Nat : N = Len(path)
  BY <1>1, NoMoreThanConfigured
<1>3. Tree(path) /\ N <= MaxJoins /\ MaxJoins \in Nat
  BY <1>1, <1>2, NoMoreThanConfigured, JoinAssumption DEF TreeInv
<1>4. path \in Seq([relation : Relations, parent : 0 .. MaxJoins])
  <2>1. ASSUME NEW i \in 1 .. N
        PROVE  path[i] \in [relation : Relations, parent : 0 .. MaxJoins]
    <3>1. path[i] \in Joins /\ path[i].parent \in 0 .. i - 1
      BY <1>2, <1>3, ElementOfSeq DEF Tree, Reachable
    <3>2. path[i].parent \in 0 .. MaxJoins
      BY <1>3, <3>1
    <3> QED
      BY <3>1, <3>2 DEF Joins
  <2>2. PICK R : R = [relation : Relations, parent : 0 .. MaxJoins]
    OBVIOUS
  <2>3. path = [i \in 1 .. N |-> path[i]]
    BY <1>2, <1>3, LenProperties DEF Tree
  <2>4. path \in [1 .. N -> R]
    BY <2>1, <2>2, <2>3
  <2>5. path \in Seq(R)
    BY <2>4
  <2> QED
    BY <2>2, <2>5
<1>5. asked \in Seq(UNION {Selections[e] : e \in Entities})
  <2>1. PICK R : R = UNION {Selections[e] : e \in Entities}
    OBVIOUS
  <2>2. CASE asked = <<>>
    BY <2>1, <2>2, EmptySeq
  <2>3. CASE Selected(path, asked)
    <3>1. asked \in [1 .. N + 1 -> R] /\ N + 1 \in Nat
      BY <1>2, <2>1, <2>3 DEF Selected
    <3>2. asked \in Seq(R)
      BY <3>1
    <3> QED
      BY <2>1, <3>2
  <2> QED
    BY <1>1, <2>2, <2>3 DEF RunInv
<1>6. /\ answer.threw \in BOOLEAN
      /\ \A i \in DOMAIN answer.tables : answer.tables[i].join \in 0 .. Len(path)
  <2>1. CASE answer = NoAnswer
    BY <2>1 DEF NoAnswer
  <2>2. CASE Selected(path, asked) /\ answer = CutRow(path, FlattenSeq(asked))
    <3>1. PICK row : row = FlattenSeq(asked)
      OBVIOUS
    <3>2. row \in Seq(STRING)
      BY <1>3, <2>2, <3>1, RowIsTyped
    <3> QED
      BY <1>3, <2>2, <3>1, <3>2, AnswerIsTyped
  <2> QED
    BY <1>1, <2>1, <2>2 DEF RunInv
<1> QED
  BY <1>1, <1>4, <1>5, <1>6 DEF TypeOK, TreeInv, OrderInv

(* A query selects of each table its key, as the first column and once.    *)
KeysComeFirst ==
  \A e \in Entities : \A s \in Selections[e] :
    /\ s # <<>> /\ s[1] = PrimaryKey(e)
    /\ \A j \in 2 .. Len(s) : s[j] # PrimaryKey(e)

LEMMA TreeEntities ==
  ASSUME NEW path, Tree(path)
  PROVE  Len(path) \in Nat /\ \A p \in 0 .. Len(path) : EntityAt(path, p) \in Entities
<1>1. Len(path) \in Nat
  BY LenProperties DEF Tree
<1>2. ASSUME NEW p \in 1 .. Len(path)
      PROVE  path[p].relation \in Relations
  <2>1. path[p] \in Joins
    BY ElementOfSeq DEF Tree
  <2> QED
    BY <2>1 DEF Joins
<1>3. ASSUME NEW p \in 0 .. Len(path)
      PROVE  EntityAt(path, p) \in Entities
  <2>1. p = 0 \/ p \in 1 .. Len(path)
    BY <1>1
  <2> QED
    BY <1>2, <2>1, JoinAssumption DEF EntityAt
<1> QED
  BY <1>1, <1>3

LEMMA SelectionIsCuttable ==
  ASSUME KeysComeFirst, NEW path, Tree(path), NEW s, Selected(path, s),
         \A i \in 1 .. Len(path) :
           PrimaryKey(EntityAt(path, i)) \notin RegularColumns(EntityAt(path, i - 1))
  PROVE  Cuttable(path, s)
<1>1. PICK N \in Nat : N = Len(path)
  BY TreeEntities
<1>2. s \in [1 .. N + 1 -> Seq(STRING)]
  BY <1>1, RowIsTyped
<1>3. ASSUME NEW k \in 1 .. N + 1
      PROVE  LET e == TableAt(path, k) IN
             /\ s[k] # <<>> /\ s[k][1] = PrimaryKey(e) /\ PrimaryKey(e) \in ToSet(ColumnsOf[e])
             /\ \A j \in 2 .. Len(s[k]) : /\ s[k][j] # PrimaryKey(e)
                                          /\ s[k][j] \in RegularColumns(e)
                                          /\ s[k][j] \in ToSet(ColumnsOf[e])
  <2>1. PICK e : e = TableAt(path, k)
    OBVIOUS
  <2>2. PICK t : t = s[k]
    OBVIOUS
  <2>3. e \in Entities
    <3>1. k - 1 \in 0 .. N
      BY <1>1
    <3> QED
      BY <1>1, <2>1, <3>1, TreeEntities DEF TableAt
  <2>4. t \in Selections[e]
    BY <1>1, <2>1, <2>2 DEF Selected, TableAt
  <2>5. PICK cols : cols = ColumnsOf[e]
    OBVIOUS
  <2>6. cols \in Seq(STRING) /\ cols # <<>> /\ t \in Seq(ToSet(cols))
    BY <2>3, <2>4, <2>5, JoinAssumption
  <2>7. t # <<>> /\ t[1] = cols[1] /\ \A j \in 2 .. Len(t) : t[j] # cols[1]
    BY <2>3, <2>4, <2>5 DEF KeysComeFirst, PrimaryKey
  <2>8. Len(cols) \in Nat \ {0} /\ DOMAIN cols = 1 .. Len(cols)
    BY <2>6, LenProperties, EmptySeq
  <2>9. cols[1] \in ToSet(cols)
    BY <2>8 DEF ToSet
  <2>10. ASSUME NEW x \in ToSet(cols), x # cols[1]
         PROVE  x \in ToSet(Tail(cols))
    <3>1. PICK i \in 1 .. Len(cols) : x = cols[i]
      BY <2>8 DEF ToSet
    <3>2. i # 1 /\ i - 1 \in 1 .. Len(cols) - 1 /\ (i - 1) + 1 = i
      BY <2>8, <2>10, <3>1
    <3>3. PICK u : u = Tail(cols)
      OBVIOUS
    <3>4. /\ u \in Seq(STRING) /\ Len(u) = Len(cols) - 1
          /\ \A n \in 1 .. Len(cols) - 1 : u[n] = cols[n + 1]
      BY <2>6, <3>3, HeadTailProperties
    <3>5. u[i - 1] = x /\ i - 1 \in DOMAIN u
      BY <3>1, <3>2, <3>4, LenProperties
    <3> QED
      BY <3>3, <3>5 DEF ToSet
  <2>11. ASSUME NEW j \in 2 .. Len(t)
         PROVE  t[j] \in ToSet(cols) /\ t[j] \in ToSet(Tail(cols))
    <3>1. j \in 1 .. Len(t)
      BY <2>6, LenProperties
    <3>2. PICK A : A = ToSet(cols)
      OBVIOUS
    <3>3. t[j] \in A
      BY <2>6, <3>1, <3>2, ElementOfSeq
    <3> QED
      BY <2>7, <2>10, <3>2, <3>3
  <2> QED
    BY <2>1, <2>2, <2>5, <2>7, <2>9, <2>11 DEF PrimaryKey, RegularColumns
<1>4. ASSUME NEW k \in 1 .. N + 1, k <= N
      PROVE  PrimaryKey(TableAt(path, k + 1)) \notin RegularColumns(TableAt(path, k))
  <2>1. k \in 1 .. N /\ (k + 1) - 1 = k
    BY <1>4
  <2> QED
    BY <1>1, <2>1 DEF TableAt
<1> QED
  BY <1>1, <1>2, <1>3, <1>4 DEF Cuttable

(* Within the limits that the guide states, the loop over the columns      *)
(* gives each column to the table it was selected from, for any selection. *)
THEOREM ColumnsAreSplit == KeysComeFirst /\ Spec => []ColumnsSplitRight
<1>1. KeysComeFirst /\ TreeInv /\ OrderInv /\ RunInv => ColumnsSplitRight
  <2> SUFFICES ASSUME KeysComeFirst, TreeInv, OrderInv, RunInv
               PROVE  ColumnsSplitRight
    OBVIOUS
  <2>1. PICK path : path = flattenedPath
    OBVIOUS
  <2>2. PICK N \in Nat : N = Len(path)
    BY <2>1, NoMoreThanConfigured
  <2>3. Tree(path) /\ DOMAIN path = 1 .. N
    BY <2>1, <2>2, LenProperties DEF TreeInv, Tree
  <2>4. ASSUME asked # <<>>, Separable
        PROVE  answer = [threw  |-> FALSE,
                         tables |-> [i \in DOMAIN asked |-> [join |-> i - 1, columns |-> asked[i]]]]
    <3>1. Selected(path, asked) /\ answer = CutRow(path, FlattenSeq(asked))
      BY <2>1, <2>4 DEF RunInv
    <3>2. GenerateSortedEntities(path) = SqlOrder(path)
      BY <2>1, <2>4 DEF Separable, OrdersAgree
    <3>3. Cuttable(path, asked)
      <4>1. \A i \in 1 .. Len(path) :
              PrimaryKey(EntityAt(path, i)) \notin RegularColumns(EntityAt(path, i - 1))
        BY <2>1, <2>2, <2>3, <2>4 DEF Separable
      <4> QED
        BY <2>3, <3>1, <4>1, SelectionIsCuttable
    <3>4. CutRow(path, FlattenSeq(asked)) =
            [threw  |-> FALSE,
             tables |-> [i \in 1 .. Len(path) + 1 |-> [join |-> i - 1, columns |-> asked[i]]]]
      BY <3>2, <3>3, CutsRight
    <3>5. DOMAIN asked = 1 .. Len(path) + 1
      BY <2>2, <3>1, AskedIsNotEmpty
    <3> QED
      BY <3>1, <3>4, <3>5
  <2> QED
    BY <2>4, TypesHold DEF ColumnsSplitRight
<1>2. KeysComeFirst /\ [Next]_vars => KeysComeFirst'
  OBVIOUS
<1> QED
  BY <1>1, <1>2, OrderInvariance, RunInvariance, TreeInvariance, PTL DEF Spec

=============================================================================

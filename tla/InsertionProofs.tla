---------------------------- MODULE InsertionProofs ----------------------------
(***************************************************************************)
(* Proofs about InsertionOrder and InsertExecution.  The first part is the *)
(* plan, for every schema and insert: entities are planned after those     *)
(* they refer to, and loops are reported only if they are real.  The       *)
(* second is the insert, for any number of objects however they are        *)
(* linked, and any parameter limit: the keys that the server returns reach *)
(* the objects whose rows they belong to, no object is inserted twice, and *)
(* the plan's properties outlast the plan.  The third is that the plan and *)
(* the walk agree on the entities and on the relation that leads to each,  *)
(* the fourth that no row is sent before the rows it refers to, and the    *)
(* last that the rows are those of exactly the objects the walk leads to.  *)
(***************************************************************************)
EXTENDS InsertExecution, SequenceTheorems, TLAPS, FiniteSetTheorems, WellFoundedInduction

Planned(e) == \E i \in DOMAIN entities : entities[i].entity = e
Remaining(e) == \E i \in DOMAIN reachableEntities : reachableEntities[i].entity = e

Typed == PlanTypeOK /\ insert \in Inserts /\ phase \in PlanPhases

(* Nothing is planned before everything is collected.                      *)
NotYetPlanned ==
  /\ phase \in {"start", "collect"} => entities = <<>> /\ processedEntities = {}
  /\ phase = "start" => reachableEntities = <<>> /\ visitedEntities = {} /\ entityIndex = 1
  /\ phase = "collect" => reachableEntities # <<>> /\ entityIndex = 1

(* Every visited entity is still to be planned or is planned.              *)
Collected ==
  phase \in {"collect", "order", "loop"} =>
    /\ \A e \in visitedEntities : Remaining(e) \/ Planned(e)
    /\ \A i \in DOMAIN reachableEntities : reachableEntities[i].entity \in visitedEntities

(* _processedEntities are those planned that another entity may wait for.  *)
Processed ==
  /\ \A e \in processedEntities : Planned(e)
  /\ phase \in {"order", "loop"} =>
       \A i \in DOMAIN entities :
         Reachable(entities[i].entity) # {} => entities[i].entity \in processedEntities

(* As long as a pass has planned nothing, all it has passed have to wait.  *)
Waiting ==
  phase \in {"order", "loop"} =>
    /\ 0 < startReachableCount /\ Len(reachableEntities) <= startReachableCount
    /\ Len(reachableEntities) = startReachableCount =>
         \A i \in 1 .. entityIndex - 1 : HasDirectDependencies(reachableEntities[i].entity)

GaveUp ==
  phase = "loop" =>
    Len(reachableEntities) = startReachableCount /\ entityIndex = startReachableCount + 1

PlanInv ==
  Typed /\ NotYetPlanned /\ Collected /\ Processed /\ Waiting /\ GaveUp /\ PrincipalsFirst

-----------------------------------------------------------------------------
(* Facts about sequences, relations and holders.                           *)

LEMMA Removing ==
  ASSUME NEW S, NEW s \in Seq(S), NEW i \in 1 .. Len(s)
  PROVE  /\ RemoveAt(s, i) \in Seq(S)
         /\ Len(RemoveAt(s, i)) = Len(s) - 1
         /\ \A j \in 1 .. Len(s) - 1 : RemoveAt(s, i)[j] = IF j < i THEN s[j] ELSE s[j + 1]
<1> DEFINE before == SubSeq(s, 1, i - 1)
           after == SubSeq(s, i + 1, Len(s))
<1>1. before \in Seq(S) /\ Len(before) = i - 1 /\ \A j \in 1 .. i - 1 : before[j] = s[j]
  BY SubSeqProperties
<1>2. after \in Seq(S) /\ Len(after) = Len(s) - i /\ \A j \in 1 .. Len(s) - i : after[j] = s[i + j]
  BY SubSeqProperties
<1> HIDE DEF before, after
<1>3. /\ before \o after \in Seq(S)
      /\ Len(before \o after) = Len(s) - 1
      /\ \A j \in 1 .. Len(s) - 1 :
           (before \o after)[j] = IF j < i THEN before[j] ELSE after[j - (i - 1)]
  <2>1. Len(s) \in Nat /\ i \in Nat /\ 1 <= i /\ i <= Len(s)
    BY LenProperties
  <2>2. before \o after \in Seq(S) /\ Len(before \o after) = Len(before) + Len(after)
    BY <1>1, <1>2, ConcatProperties
  <2>3. \A j \in 1 .. Len(before) + Len(after) :
          (before \o after)[j] = IF j <= Len(before) THEN before[j] ELSE after[j - Len(before)]
    BY <1>1, <1>2, ConcatProperties
  <2>4. Len(before) + Len(after) = Len(s) - 1
    BY <1>1, <1>2, <2>1
  <2> QED
    BY <1>1, <2>1, <2>2, <2>3, <2>4
<1>4. RemoveAt(s, i) = before \o after
  BY DEF RemoveAt, before, after
<1>5. ASSUME NEW j \in 1 .. Len(s) - 1
      PROVE  (before \o after)[j] = IF j < i THEN s[j] ELSE s[j + 1]
  <2>1. CASE j < i
    <3>1. j \in 1 .. i - 1
      BY <2>1
    <3> QED
      BY <1>1, <1>3, <2>1, <3>1
  <2>2. CASE ~(j < i)
    <3>1. j - (i - 1) \in 1 .. Len(s) - i /\ i + (j - (i - 1)) = j + 1
      BY <2>2, LenProperties
    <3> QED
      BY <1>2, <1>3, <2>2, <3>1
  <2> QED
    BY <2>1, <2>2
<1> QED
  BY <1>3, <1>4, <1>5

LEMMA RelationTypes ==
  ASSUME insert \in Inserts, NEW e \in Entities
  PROVE  /\ RelationsOf(e) \subseteq Relations
         /\ \A r \in Relations : RightOf(r, e) \in Entities
<1>1. insert.relationsOf[e] \in Seq(Relations)
  BY InsertsAssumption
<1>2. RelationsOf(e) \subseteq Relations
  BY <1>1 DEF RelationsOf, ToSet
<1>3. insert.dependent \in [Relations -> Entities] /\ insert.principal \in [Relations -> Entities]
  BY InsertsAssumption
<1> QED
  BY <1>2, <1>3 DEF RightOf

(* The two sides of a relation.                                            *)
LEMMA Siblings ==
  ASSUME insert \in Inserts, NEW e \in Entities, NEW r \in RelationsOf(e)
  PROVE  /\ r \in RelationsOf(RightOf(r, e))
         /\ RightOf(r, RightOf(r, e)) = e
BY SiblingsAssumption DEF RelationsOf, RightOf

LEMMA HolderTypes ==
  ASSUME NEW e \in Entities, NEW assigned \in SUBSET Relations, NEW direct \in SUBSET Relations
  PROVE  /\ Holder(e, assigned, direct) \in Holders /\ Holder(e, assigned, direct).entity = e
         /\ Holder(e, assigned, direct).direct = direct
BY DEF Holder, Holders

LEMMA SidesTypes ==
  ASSUME insert \in Inserts, NEW e \in Entities
  PROVE  SidesOf(e) \in Seq(PendingSides)
<1>1. insert.relationsOf[e] \in Seq(Relations)
  BY InsertsAssumption
<1>2. \A n \in 1 .. Len(insert.relationsOf[e]) :
        [relation |-> insert.relationsOf[e][n], left |-> e, path |-> 0] \in PendingSides
  <2>1. Len(insert.paths) \in Nat
    BY InsertsAssumption
  <2> QED
    BY <1>1, <2>1 DEF PendingSides
<1> QED
  BY <1>1, <1>2, IsASeq DEF SidesOf

LEMMA PathsTypes ==
  ASSUME insert \in Inserts, NEW e \in Entities, NEW p \in 0 .. Len(insert.paths)
  PROVE  /\ TrailingPath(p) \in Seq(DOMAIN insert.paths)
         /\ PathsFrom(e, p) \in Seq(PendingSides)
         /\ {insert.paths[n].relation : n \in ToSet(TrailingPath(p))} \subseteq Relations
<1>1. /\ insert.paths \in Seq([relation : Relations, trailingPath : Seq(Nat)])
      /\ TrailingPath(p) \in Seq(DOMAIN insert.paths)
  <2>1. CASE p = 0
    BY <2>1, InsertsAssumption DEF TrailingPath
  <2>2. CASE p # 0
    <3>1. insert.paths \in Seq([relation : Relations, trailingPath : Seq(Nat)])
      BY InsertsAssumption
    <3>2. p \in DOMAIN insert.paths
      BY <2>2, <3>1
    <3> QED
      BY <2>2, <3>1, <3>2, InsertsAssumption DEF TrailingPath
  <2> QED
    BY <2>1, <2>2
<1>2. \A n \in DOMAIN insert.paths :
        insert.paths[n].relation \in Relations /\ n \in 0 .. Len(insert.paths)
  <2>1. DOMAIN insert.paths = 1 .. Len(insert.paths) /\ Len(insert.paths) \in Nat
    BY <1>1, LenProperties
  <2>2. \A n \in 1 .. Len(insert.paths) :
          insert.paths[n] \in [relation : Relations, trailingPath : Seq(Nat)]
    BY <1>1, ElementOfSeq
  <2> QED
    BY <2>1, <2>2
<1>3. {insert.paths[n].relation : n \in ToSet(TrailingPath(p))} \subseteq Relations
  BY <1>1, <1>2 DEF ToSet
<1>4. \A n \in 1 .. Len(TrailingPath(p)) :
        [relation |-> insert.paths[TrailingPath(p)[n]].relation,
         left |-> e, path |-> TrailingPath(p)[n]] \in PendingSides
  <2> SUFFICES ASSUME NEW n \in 1 .. Len(TrailingPath(p))
               PROVE  [relation |-> insert.paths[TrailingPath(p)[n]].relation,
                       left |-> e, path |-> TrailingPath(p)[n]] \in PendingSides
    OBVIOUS
  <2>1. TrailingPath(p)[n] \in DOMAIN insert.paths
    BY <1>1
  <2>2. /\ insert.paths[TrailingPath(p)[n]].relation \in Relations
        /\ TrailingPath(p)[n] \in 0 .. Len(insert.paths)
    BY <1>2, <2>1
  <2> QED
    BY <2>2 DEF PendingSides
<1>5. PathsFrom(e, p) \in Seq(PendingSides)
  <2>1. Len(TrailingPath(p)) \in Nat /\ DOMAIN TrailingPath(p) = 1 .. Len(TrailingPath(p))
    BY <1>1, LenProperties
  <2>2. PathsFrom(e, p) \in [1 .. Len(TrailingPath(p)) -> PendingSides]
    BY <1>4, <2>1 DEF PathsFrom
  <2> QED
    BY <2>1, <2>2, SeqDef
<1> QED
  BY <1>1, <1>3, <1>5

-----------------------------------------------------------------------------
(* Collecting an entity.                                                   *)

LEMMA Collects ==
  ASSUME Typed, NEW e \in Entities, NEW direct \in SUBSET Relations, Collect(e, direct)
  PROVE  /\ visitedEntities' = visitedEntities \cup {e}
         /\ reachableRelations' \subseteq Relations
         /\ \E h \in Holders : /\ h.entity = e /\ h.direct = direct
                                /\ reachableEntities' = Append(reachableEntities, h)
<1> DEFINE assigned == {r \in ToGenerated(RelationsOf(e), e) :
                          HasNavigation(r, e) /\ r \notin reachableRelations}
<1>1. RelationsOf(e) \subseteq Relations
  BY RelationTypes DEF Typed
<1>2. assigned \in SUBSET Relations
  BY <1>1 DEF ToGenerated
<1>3. reachableRelations' \subseteq Relations
  BY <1>1, <1>2 DEF Collect, Typed, PlanTypeOK
<1>4. /\ Holder(e, assigned, direct) \in Holders /\ Holder(e, assigned, direct).entity = e
      /\ Holder(e, assigned, direct).direct = direct
  BY <1>2, HolderTypes
<1>5. /\ visitedEntities' = visitedEntities \cup {e}
      /\ reachableEntities' = Append(reachableEntities, Holder(e, assigned, direct))
  BY DEF Collect
<1> QED
  BY <1>3, <1>4, <1>5

LEMMA CollectsPath ==
  ASSUME Typed, NEW e \in Entities, NEW p \in 0 .. Len(insert.paths),
         NEW direct \in SUBSET Relations, CollectPath(e, p, direct)
  PROVE  /\ visitedEntities' = visitedEntities \cup {e}
         /\ reachableRelations' \subseteq Relations
         /\ \E h \in Holders : /\ h.entity = e /\ h.direct = direct
                                /\ reachableEntities' = Append(reachableEntities, h)
<1> DEFINE relations == {insert.paths[n].relation : n \in ToSet(TrailingPath(p))}
<1>1. relations \subseteq Relations
  BY PathsTypes DEF Typed
<1>2. ToGenerated(relations, e) \in SUBSET Relations
  BY <1>1 DEF ToGenerated
<1>3. reachableRelations' \subseteq Relations
  BY <1>1 DEF CollectPath, Typed, PlanTypeOK
<1>4. /\ Holder(e, ToGenerated(relations, e), direct) \in Holders
      /\ Holder(e, ToGenerated(relations, e), direct).entity = e
      /\ Holder(e, ToGenerated(relations, e), direct).direct = direct
  BY <1>2, HolderTypes
<1>5. /\ visitedEntities' = visitedEntities \cup {e}
      /\ reachableEntities' = Append(reachableEntities, Holder(e, ToGenerated(relations, e), direct))
  BY DEF CollectPath
<1> QED
  BY <1>3, <1>4, <1>5

LEMMA CollectsOne ==
  ASSUME PlanInv, phase \in {"start", "collect"}, phase' = "collect",
         NEW e \in Entities,
         visitedEntities' = visitedEntities \cup {e},
         reachableRelations' \subseteq Relations,
         NEW h \in Holders, h.entity = e, reachableEntities' = Append(reachableEntities, h),
         NEW sides \in Seq(PendingSides), pending' = sides,
         UNCHANGED <<insert, orderVars>>
  PROVE  PlanInv'
<1>1. /\ entities = <<>> /\ processedEntities = {} /\ entityIndex = 1
      /\ reachableEntities \in Seq(Holders) /\ visitedEntities \subseteq Entities
  BY DEF PlanInv, NotYetPlanned, Typed, PlanTypeOK
<1>2. /\ insert' = insert /\ entities' = <<>> /\ processedEntities' = {} /\ entityIndex' = 1
      /\ startReachableCount' = startReachableCount
  BY <1>1 DEF orderVars
<1>3. /\ \A f \in visitedEntities : Remaining(f)
      /\ \A i \in DOMAIN reachableEntities : reachableEntities[i].entity \in visitedEntities
  BY <1>1 DEF PlanInv, NotYetPlanned, Collected, Planned
<1>4. /\ reachableEntities' \in Seq(Holders)
      /\ Len(reachableEntities') = Len(reachableEntities) + 1
      /\ \A i \in 1 .. Len(reachableEntities) : reachableEntities'[i] = reachableEntities[i]
      /\ reachableEntities'[Len(reachableEntities) + 1] = h
  BY <1>1, AppendProperties
<1>5. Len(reachableEntities) \in Nat
  BY <1>1, LenProperties
<1>6. DOMAIN reachableEntities' = 1 .. Len(reachableEntities) + 1
      /\ DOMAIN reachableEntities = 1 .. Len(reachableEntities)
  BY <1>1, <1>4, LenProperties
<1>7. Typed'
  <2>1. PendingSides' = PendingSides
    BY <1>2 DEF PendingSides
  <2> QED
    BY <1>1, <1>2, <1>4, <1>5, <2>1 DEF PlanInv, Typed, PlanTypeOK, PlanPhases
<1>8. NotYetPlanned'
  BY <1>2, <1>4, <1>5 DEF NotYetPlanned
<1>9. Collected'
  <2>1. \A f \in visitedEntities' : Remaining(f)'
    <3>1. ASSUME NEW f \in visitedEntities
          PROVE  Remaining(f)'
      <4>1. PICK i \in 1 .. Len(reachableEntities) : reachableEntities[i].entity = f
        BY <1>3, <1>6 DEF Remaining
      <4> QED
        BY <1>4, <1>5, <1>6, <4>1 DEF Remaining
    <3>2. Remaining(e)'
      BY <1>4, <1>5, <1>6 DEF Remaining
    <3> QED
      BY <3>1, <3>2
  <2>2. \A i \in DOMAIN reachableEntities' : reachableEntities'[i].entity \in visitedEntities'
    BY <1>3, <1>4, <1>5, <1>6
  <2> QED
    BY <2>1, <2>2 DEF Collected
<1>10. Processed' /\ Waiting' /\ GaveUp' /\ PrincipalsFirst'
  BY <1>2 DEF Processed, Waiting, GaveUp, PrincipalsFirst
<1> QED
  BY <1>7, <1>8, <1>9, <1>10 DEF PlanInv

LEMMA NextSideTypes ==
  ASSUME Typed, pending # <<>>
  PROVE  /\ NextSide \in PendingSides
         /\ Leads(NextSide) \in Entities
         /\ Front(pending) \in Seq(PendingSides)
<1>1. pending \in Seq(PendingSides) /\ Len(pending) \in Nat /\ Len(pending) # 0
  BY LenProperties, EmptySeq DEF Typed, PlanTypeOK
<1>2. NextSide \in PendingSides
  BY <1>1, ElementOfSeq DEF NextSide, Last
<1>3. Leads(NextSide) \in Entities
  BY <1>2, RelationTypes DEF Typed, Leads, PendingSides
<1>4. Front(pending) \in Seq(PendingSides)
  BY <1>1, SubSeqProperties DEF Front
<1> QED
  BY <1>2, <1>3, <1>4

(* A step that leaves the collected and the planned entities alone.        *)
LEMMA SameEntities ==
  ASSUME UNCHANGED <<insert, visitedEntities, reachableRelations, reachableEntities,
                     entities, processedEntities>>
  PROVE  /\ \A e : Remaining(e)' = Remaining(e) /\ Planned(e)' = Planned(e)
         /\ \A e : Reachable(e)' = Reachable(e)
         /\ \A e : HasDirectDependencies(e)' = HasDirectDependencies(e)
         /\ PrincipalsFirst' = PrincipalsFirst
BY DEF Remaining, Planned, Reachable, RelationsOf, RightOf, ForeignKeyLeft,
       HasDirectDependencies, PrincipalsFirst

-----------------------------------------------------------------------------
(* The invariant holds at the start and every action keeps it.             *)

LEMMA InvInit == PlanInit => PlanInv
<1> SUFFICES ASSUME PlanInit
             PROVE  PlanInv
  OBVIOUS
<1>1. pending \in Seq(PendingSides) /\ reachableEntities \in Seq(Holders) /\ entities \in Seq(Holders)
  BY EmptySeq DEF PlanInit
<1>2. Typed
  BY <1>1, EmptySeq DEF PlanInit, Typed, PlanTypeOK, PlanPhases
<1> QED
  BY <1>2 DEF PlanInit, PlanInv, NotYetPlanned, Collected, Processed, Waiting, GaveUp,
              PrincipalsFirst, Planned

LEMMA InvCompileFromRoot == PlanInv /\ CompileFromRoot => PlanInv'
<1> SUFFICES ASSUME PlanInv, CompileFromRoot
             PROVE  PlanInv'
  OBVIOUS
<1>1. /\ Typed /\ phase = "start" /\ entities = <<>> /\ processedEntities = {}
      /\ reachableEntities = <<>> /\ visitedEntities = {} /\ insert.root \in Entities
  BY InsertsAssumption DEF CompileFromRoot, PlanInv, NotYetPlanned, Typed
<1>2. CASE insert.relationsOf[insert.root] = <<>>
  <2> DEFINE h == Holder(insert.root, {}, {})
  <2>1. /\ entities' = <<h>> /\ phase' = "ordered"
        /\ UNCHANGED <<collectVars, reachableEntities>>
        /\ UNCHANGED <<insert, processedEntities, entityIndex, startReachableCount>>
    BY <1>2 DEF CompileFromRoot
  <2>2. h \in Holders /\ h.entity = insert.root
    BY <1>1, HolderTypes
  <2> HIDE DEF h
  <2>3. Typed'
    <3>1. <<h>> \in Seq(Holders)
      BY <2>2
    <3>2. PendingSides' = PendingSides
      BY <2>1 DEF PendingSides
    <3> QED
      BY <1>1, <2>1, <3>1, <3>2 DEF Typed, PlanTypeOK, PlanPhases, collectVars
  <2>4. PrincipalsFirst'
    <3>1. RelationsOf(insert.root)' = {}
      <4>1. DOMAIN insert.relationsOf[insert.root] = {}
        BY <1>2
      <4> QED
        BY <1>2, <2>1, <4>1 DEF RelationsOf, ToSet
    <3>2. Reachable(insert.root)' = {}
      BY <2>1, <3>1 DEF Reachable, RelationsOf
    <3> QED
      BY <2>1, <2>2, <3>2 DEF PrincipalsFirst, Reachable, RelationsOf, RightOf
  <2> QED
    BY <1>1, <2>1, <2>3, <2>4
       DEF PlanInv, NotYetPlanned, Collected, Processed, Waiting, GaveUp
<1>3. CASE insert.relationsOf[insert.root] # <<>>
  <2>1. /\ Collect(insert.root, {}) /\ phase' = "collect"
        /\ pending' = SidesOf(insert.root)
        /\ UNCHANGED <<insert, orderVars>>
    BY <1>3 DEF CompileFromRoot, orderVars
  <2>2. PICK h \in Holders :
          h.entity = insert.root /\ reachableEntities' = Append(reachableEntities, h)
    BY <1>1, <2>1, Collects
  <2>3. visitedEntities' = visitedEntities \cup {insert.root} /\ reachableRelations' \subseteq Relations
    BY <1>1, <2>1, Collects
  <2>4. SidesOf(insert.root) \in Seq(PendingSides)
    BY <1>1, SidesTypes DEF Typed
  <2> QED
    BY <1>1, <2>1, <2>2, <2>3, <2>4, CollectsOne
<1> QED
  BY <1>2, <1>3

LEMMA InvCompileFromRelations == PlanInv /\ CompileFromRelations => PlanInv'
<1> SUFFICES ASSUME PlanInv, CompileFromRelations
             PROVE  PlanInv'
  OBVIOUS
<1>1. Typed /\ phase = "start" /\ insert.root \in Entities /\ 0 \in 0 .. Len(insert.paths)
  BY InsertsAssumption, LenProperties DEF CompileFromRelations, PlanInv, Typed
<1>2. /\ CollectPath(insert.root, 0, {}) /\ phase' = "collect"
      /\ pending' = PathsFrom(insert.root, 0)
      /\ UNCHANGED <<insert, orderVars>>
  BY DEF CompileFromRelations
<1>3. PICK h \in Holders :
        h.entity = insert.root /\ reachableEntities' = Append(reachableEntities, h)
  BY <1>1, <1>2, CollectsPath
<1>4. visitedEntities' = visitedEntities \cup {insert.root} /\ reachableRelations' \subseteq Relations
  BY <1>1, <1>2, CollectsPath
<1>5. PathsFrom(insert.root, 0) \in Seq(PendingSides)
  BY <1>1, PathsTypes DEF Typed
<1> QED
  BY <1>1, <1>2, <1>3, <1>4, <1>5, CollectsOne

LEMMA InvSkipSide == PlanInv /\ SkipSide => PlanInv'
<1> SUFFICES ASSUME PlanInv, SkipSide
             PROVE  PlanInv'
  OBVIOUS
<1>1. /\ phase = "collect" /\ pending # <<>> /\ pending' = Front(pending)
      /\ UNCHANGED <<insert, phase, visitedEntities, reachableRelations, reachableEntities, orderVars>>
  BY DEF SkipSide
<1>2. Typed'
  <2>1. Front(pending) \in Seq(PendingSides)
    BY <1>1, NextSideTypes DEF PlanInv
  <2>2. PendingSides' = PendingSides
    BY <1>1 DEF PendingSides
  <2> QED
    BY <1>1, <2>1, <2>2 DEF PlanInv, Typed, PlanTypeOK, orderVars
<1> QED
  BY <1>1, <1>2, SameEntities
     DEF PlanInv, NotYetPlanned, Collected, Processed, Waiting, GaveUp, orderVars

LEMMA InvCollectReachable == PlanInv /\ CollectReachable => PlanInv'
<1> SUFFICES ASSUME PlanInv, CollectReachable
             PROVE  PlanInv'
  OBVIOUS
<1> DEFINE e == Leads(NextSide)
<1>1. /\ phase = "collect" /\ pending # <<>>
      /\ Collect(e, {NextSide.relation})
      /\ pending' = Front(pending) \o SidesOf(e)
      /\ UNCHANGED <<insert, phase, orderVars>>
  BY DEF CollectReachable
<1>2. Typed /\ NextSide \in PendingSides /\ e \in Entities /\ Front(pending) \in Seq(PendingSides)
  BY <1>1, NextSideTypes DEF PlanInv
<1>3. {NextSide.relation} \in SUBSET Relations
  BY <1>2 DEF PendingSides
<1>4. PICK h \in Holders : h.entity = e /\ reachableEntities' = Append(reachableEntities, h)
  BY <1>1, <1>2, <1>3, Collects
<1>5. visitedEntities' = visitedEntities \cup {e} /\ reachableRelations' \subseteq Relations
  BY <1>1, <1>2, <1>3, Collects
<1>6. Front(pending) \o SidesOf(e) \in Seq(PendingSides)
  BY <1>2, SidesTypes, ConcatProperties DEF Typed
<1> QED
  BY <1>1, <1>2, <1>4, <1>5, <1>6, CollectsOne

LEMMA InvCollectRelationPath == PlanInv /\ CollectRelationPath => PlanInv'
<1> SUFFICES ASSUME PlanInv, CollectRelationPath
             PROVE  PlanInv'
  OBVIOUS
<1> DEFINE e == Leads(NextSide)
           direct == IF HasGeneratedKey(e) THEN {} ELSE {NextSide.relation}
<1>1. /\ phase = "collect" /\ pending # <<>>
      /\ CollectPath(e, NextSide.path, direct)
      /\ pending' = Front(pending) \o PathsFrom(e, NextSide.path)
      /\ UNCHANGED <<insert, phase, orderVars>>
  BY DEF CollectRelationPath
<1>2. Typed /\ NextSide \in PendingSides /\ e \in Entities /\ Front(pending) \in Seq(PendingSides)
  BY <1>1, NextSideTypes DEF PlanInv
<1>3. direct \in SUBSET Relations /\ NextSide.path \in 0 .. Len(insert.paths)
  BY <1>2 DEF PendingSides
<1>4. PICK h \in Holders : h.entity = e /\ reachableEntities' = Append(reachableEntities, h)
  BY <1>1, <1>2, <1>3, CollectsPath
<1>5. visitedEntities' = visitedEntities \cup {e} /\ reachableRelations' \subseteq Relations
  BY <1>1, <1>2, <1>3, CollectsPath
<1>6. Front(pending) \o PathsFrom(e, NextSide.path) \in Seq(PendingSides)
  BY <1>2, <1>3, PathsTypes, ConcatProperties DEF Typed
<1> QED
  BY <1>1, <1>2, <1>4, <1>5, <1>6, CollectsOne

LEMMA InvBaseCompile == PlanInv /\ BaseCompile => PlanInv'
<1> SUFFICES ASSUME PlanInv, BaseCompile
             PROVE  PlanInv'
  OBVIOUS
<1>1. /\ phase = "collect" /\ phase' = "order"
      /\ entityIndex' = 1 /\ startReachableCount' = Len(reachableEntities)
      /\ UNCHANGED <<insert, collectVars, reachableEntities, entities, processedEntities>>
  BY DEF BaseCompile, StartPass
<1>2. reachableEntities \in Seq(Holders) /\ reachableEntities # <<>> /\ entities = <<>>
  BY <1>1 DEF PlanInv, Typed, PlanTypeOK, NotYetPlanned
<1>3. Len(reachableEntities) \in Nat /\ 0 < Len(reachableEntities)
  BY <1>2, LenProperties, EmptySeq
<1>4. Typed'
  <2>1. PendingSides' = PendingSides
    BY <1>1 DEF PendingSides
  <2> QED
    BY <1>1, <1>3, <2>1 DEF PlanInv, Typed, PlanTypeOK, PlanPhases, collectVars
<1>5. NotYetPlanned' /\ GaveUp' /\ PrincipalsFirst'
  BY <1>1, <1>2 DEF NotYetPlanned, GaveUp, PrincipalsFirst
<1>6. Collected'
  BY <1>1, SameEntities DEF PlanInv, Collected, collectVars
<1>7. Processed'
  BY <1>1, <1>2, SameEntities DEF PlanInv, Processed, collectVars
<1>8. Waiting'
  BY <1>1, <1>3 DEF Waiting
<1> QED
  BY <1>4, <1>5, <1>6, <1>7, <1>8 DEF PlanInv

LEMMA InvPostpone == PlanInv /\ Postpone => PlanInv'
<1> SUFFICES ASSUME PlanInv, Postpone
             PROVE  PlanInv'
  OBVIOUS
<1>1. /\ phase = "order" /\ entityIndex <= Len(reachableEntities)
      /\ HasDirectDependencies(reachableEntities[entityIndex].entity)
      /\ entityIndex' = entityIndex + 1
      /\ UNCHANGED <<insert, phase, collectVars, reachableEntities,
                     entities, processedEntities, startReachableCount>>
  BY DEF Postpone, NextHolder
<1>2. entityIndex \in Nat /\ 1 <= entityIndex /\ Len(reachableEntities) \in Nat
  BY LenProperties DEF PlanInv, Typed, PlanTypeOK
<1>3. Typed'
  <2>1. PendingSides' = PendingSides
    BY <1>1 DEF PendingSides
  <2> QED
    BY <1>1, <1>2, <2>1 DEF PlanInv, Typed, PlanTypeOK, PlanPhases, collectVars
<1>4. Waiting'
  <2>1. /\ 0 < startReachableCount /\ Len(reachableEntities) <= startReachableCount
        /\ Len(reachableEntities) = startReachableCount =>
             \A i \in 1 .. entityIndex - 1 : HasDirectDependencies(reachableEntities[i].entity)
    BY <1>1 DEF PlanInv, Waiting
  <2>2. Len(reachableEntities) = startReachableCount =>
          \A i \in 1 .. entityIndex : HasDirectDependencies(reachableEntities[i].entity)
    BY <1>1, <1>2, <2>1
  <2>3. \A e : HasDirectDependencies(e)' = HasDirectDependencies(e)
    BY <1>1, SameEntities DEF collectVars
  <2> QED
    BY <1>1, <1>2, <2>1, <2>2, <2>3 DEF Waiting
<1>5. NotYetPlanned' /\ GaveUp'
  BY <1>1 DEF NotYetPlanned, GaveUp
<1>6. Collected' /\ Processed' /\ PrincipalsFirst'
  BY <1>1, SameEntities DEF PlanInv, Collected, Processed, collectVars
<1> QED
  BY <1>3, <1>4, <1>5, <1>6 DEF PlanInv

LEMMA InvAddEntity == PlanInv /\ AddEntity => PlanInv'
<1> SUFFICES ASSUME PlanInv, AddEntity
             PROVE  PlanInv'
  OBVIOUS
<1> DEFINE k == entityIndex
           n == Len(entities)
<1>0. PICK added : added = NextHolder
  OBVIOUS
<1>1. /\ phase = "order" /\ k <= Len(reachableEntities)
      /\ ~HasDirectDependencies(added.entity)
      /\ entities' = Append(entities, added)
      /\ processedEntities' = processedEntities \cup {e \in {added.entity} : Reachable(e) # {}}
      /\ reachableEntities' = RemoveAt(reachableEntities, k)
      /\ UNCHANGED <<insert, phase, collectVars, entityIndex, startReachableCount>>
  BY <1>0 DEF AddEntity
<1>2. /\ Typed /\ reachableEntities \in Seq(Holders) /\ entities \in Seq(Holders)
      /\ Len(reachableEntities) \in Nat /\ n \in Nat /\ DOMAIN entities = 1 .. n
      /\ DOMAIN reachableEntities = 1 .. Len(reachableEntities)
      /\ k \in 1 .. Len(reachableEntities)
  BY <1>1, LenProperties DEF PlanInv, Typed, PlanTypeOK
<1>3. added = reachableEntities[k] /\ added \in Holders /\ added.entity \in Entities
  <2>1. added = reachableEntities[k]
    BY <1>0 DEF NextHolder
  <2>2. added \in Holders
    BY <1>2, <2>1, ElementOfSeq
  <2> QED
    BY <2>1, <2>2 DEF Holders
<1>4. /\ reachableEntities' \in Seq(Holders)
      /\ Len(reachableEntities') = Len(reachableEntities) - 1
      /\ \A j \in 1 .. Len(reachableEntities) - 1 :
           reachableEntities'[j] =
             IF j < k THEN reachableEntities[j] ELSE reachableEntities[j + 1]
  BY <1>1, <1>2, Removing
<1>5. DOMAIN reachableEntities' = 1 .. Len(reachableEntities) - 1
  BY <1>4, LenProperties
<1>6. /\ entities' \in Seq(Holders) /\ DOMAIN entities' = 1 .. n + 1
      /\ \A i \in 1 .. n : entities'[i] = entities[i]
      /\ entities'[n + 1] = added
  BY <1>1, <1>2, <1>3, AppendProperties, LenProperties
<1>7. \A e : Reachable(e)' = Reachable(e)
  BY <1>1 DEF Reachable, RelationsOf, RightOf, collectVars
<1>8. \A e : Planned(e) => Planned(e)'
  BY <1>2, <1>6 DEF Planned
<1>9. Planned(added.entity)'
  <2>1. n + 1 \in DOMAIN entities' /\ entities'[n + 1].entity = added.entity
    BY <1>2, <1>6
  <2> QED
    BY <2>1 DEF Planned
<1> HIDE DEF k, n
<1>10. Typed'
  <2>1. PendingSides' = PendingSides
    BY <1>1 DEF PendingSides
  <2>2. processedEntities' \subseteq Entities
    BY <1>1, <1>2, <1>3 DEF Typed, PlanTypeOK
  <2>3. entityIndex' \in 1 .. Len(reachableEntities') + 1
    BY <1>1, <1>2, <1>4 DEF k
  <2> QED
    BY <1>1, <1>2, <1>4, <1>6, <2>1, <2>2, <2>3 DEF Typed, PlanTypeOK, collectVars
<1>11. NotYetPlanned' /\ GaveUp'
  BY <1>1 DEF NotYetPlanned, GaveUp
<1>12. Collected'
  <2>1. /\ \A e \in visitedEntities : Remaining(e) \/ Planned(e)
        /\ \A i \in DOMAIN reachableEntities : reachableEntities[i].entity \in visitedEntities
    BY <1>1 DEF PlanInv, Collected
  <2>2. ASSUME NEW e, Remaining(e)
        PROVE  Remaining(e)' \/ Planned(e)'
    <3>1. PICK i \in 1 .. Len(reachableEntities) : reachableEntities[i].entity = e
      BY <1>2, <2>2 DEF Remaining
    <3>2. CASE i < k
      <4>1. i \in 1 .. Len(reachableEntities) - 1
        BY <1>2, <3>2
      <4> QED
        BY <1>4, <1>5, <3>1, <3>2, <4>1 DEF Remaining
    <3>3. CASE i = k
      BY <1>3, <1>9, <3>1, <3>3
    <3>4. CASE i > k
      <4>1. i - 1 \in 1 .. Len(reachableEntities) - 1 /\ ~(i - 1 < k) /\ (i - 1) + 1 = i
        BY <1>2, <3>4
      <4> QED
        BY <1>4, <1>5, <3>1, <4>1 DEF Remaining
    <3> QED
      BY <1>2, <3>2, <3>3, <3>4
  <2>3. \A i \in DOMAIN reachableEntities' : reachableEntities'[i].entity \in visitedEntities
    BY <1>2, <1>4, <1>5, <2>1
  <2>4. visitedEntities' = visitedEntities
    BY <1>1 DEF collectVars
  <2> QED
    BY <1>8, <2>1, <2>2, <2>3, <2>4 DEF Collected
<1>13. Processed'
  <2>1. /\ \A e \in processedEntities : Planned(e)
        /\ \A i \in 1 .. n :
             Reachable(entities[i].entity) # {} => entities[i].entity \in processedEntities
    BY <1>1, <1>2 DEF PlanInv, Processed
  <2>2. \A e \in processedEntities' : Planned(e)'
    BY <1>1, <1>8, <1>9, <2>1
  <2>3. ASSUME NEW i \in 1 .. n + 1, Reachable(entities'[i].entity) # {}
        PROVE  entities'[i].entity \in processedEntities'
    <3>1. CASE i = n + 1
      <4>1. entities'[i].entity = added.entity
        BY <1>6, <3>1
      <4> QED
        BY <1>1, <2>3, <4>1
    <3>2. CASE i # n + 1
      <4>1. i \in 1 .. n
        BY <1>2, <3>2 DEF n
      <4>2. entities'[i] = entities[i]
        BY <1>6, <4>1
      <4> QED
        BY <1>1, <2>1, <2>3, <4>1, <4>2
    <3> QED
      BY <3>1, <3>2
  <2> QED
    BY <1>6, <1>7, <2>2, <2>3 DEF Processed
<1>14. Waiting'
  <2>1. 0 < startReachableCount /\ Len(reachableEntities) <= startReachableCount
    BY <1>1 DEF PlanInv, Waiting
  <2>2. Len(reachableEntities') < startReachableCount /\ startReachableCount' = startReachableCount
    BY <1>1, <1>2, <1>4, <2>1 DEF Typed, PlanTypeOK
  <2>3. Len(reachableEntities)' = Len(reachableEntities') /\ Len(reachableEntities') \in Nat
    BY <1>4, LenProperties
  <2> QED
    <3>1. startReachableCount \in Nat
      BY <1>2 DEF Typed, PlanTypeOK
    <3>2. /\ 0 < startReachableCount' /\ Len(reachableEntities)' <= startReachableCount'
          /\ Len(reachableEntities)' # startReachableCount'
      BY <2>1, <2>2, <2>3, <3>1
    <3> QED
      BY <3>2 DEF Waiting
<1>15. PrincipalsFirst'
  <2>1. ASSUME NEW i \in 1 .. n + 1, NEW r \in Reachable(entities'[i].entity),
               ForeignKeyLeft(r, entities'[i].entity)
        PROVE  \E j \in 1 .. i - 1 : entities'[j].entity = RightOf(r, entities'[i].entity)
    <3>1. CASE i = n + 1
      <4>1. RightOf(r, added.entity) \in processedEntities
        BY <1>1, <1>6, <2>1, <3>1 DEF HasDirectDependencies
      <4>2. PICK j \in 1 .. n : entities[j].entity = RightOf(r, added.entity)
        BY <1>2, <4>1 DEF PlanInv, Processed, Planned
      <4> QED
        BY <1>2, <1>6, <3>1, <4>2
    <3>2. CASE i # n + 1
      <4>1. i \in 1 .. n
        BY <1>2, <3>2
      <4>2. PICK j \in 1 .. i - 1 : entities[j].entity = RightOf(r, entities[i].entity)
        BY <1>2, <1>6, <2>1, <4>1 DEF PlanInv, PrincipalsFirst
      <4>3. j \in 1 .. n
        BY <1>2, <4>1, <4>2
      <4> QED
        BY <1>6, <4>1, <4>2, <4>3
    <3> QED
      BY <3>1, <3>2
  <2>2. /\ \A r, e : RightOf(r, e)' = RightOf(r, e)
        /\ \A r, e : ForeignKeyLeft(r, e)' = ForeignKeyLeft(r, e)
    BY <1>1 DEF RightOf, ForeignKeyLeft
  <2> QED
    BY <1>6, <1>7, <2>1, <2>2 DEF PrincipalsFirst
<1> QED
  BY <1>10, <1>11, <1>12, <1>13, <1>14, <1>15 DEF PlanInv

LEMMA InvEndPass == PlanInv /\ EndPass => PlanInv'
<1> SUFFICES ASSUME PlanInv, EndPass
             PROVE  PlanInv'
  OBVIOUS
<1>1. /\ phase = "order" /\ entityIndex > Len(reachableEntities)
      /\ UNCHANGED <<insert, collectVars, reachableEntities, entities, processedEntities>>
  BY DEF EndPass
<1>2. /\ Typed /\ reachableEntities \in Seq(Holders) /\ Len(reachableEntities) \in Nat
      /\ entityIndex = Len(reachableEntities) + 1
  BY <1>1, LenProperties DEF PlanInv, Typed, PlanTypeOK
<1>3. PendingSides' = PendingSides
  BY <1>1 DEF PendingSides
<1>4. Collected /\ Processed /\ Waiting /\ PrincipalsFirst
  BY DEF PlanInv
<1>5. CASE Len(reachableEntities) = startReachableCount
  <2>1. phase' = "loop" /\ UNCHANGED <<entityIndex, startReachableCount>>
    BY <1>5 DEF EndPass
  <2>2. Typed'
    BY <1>1, <1>2, <1>3, <2>1 DEF Typed, PlanTypeOK, PlanPhases, collectVars
  <2>3. NotYetPlanned' /\ GaveUp'
    BY <1>1, <1>2, <1>5, <2>1 DEF NotYetPlanned, GaveUp
  <2>4. Collected' /\ Processed' /\ Waiting' /\ PrincipalsFirst'
    BY <1>1, <1>4, <2>1, SameEntities DEF Collected, Processed, Waiting, collectVars
  <2> QED
    BY <2>2, <2>3, <2>4 DEF PlanInv
<1>6. CASE Len(reachableEntities) # startReachableCount /\ reachableEntities = <<>>
  <2>1. phase' = "ordered" /\ UNCHANGED <<entityIndex, startReachableCount>>
    BY <1>6 DEF EndPass
  <2>2. Typed'
    BY <1>1, <1>2, <1>3, <2>1 DEF Typed, PlanTypeOK, PlanPhases, collectVars
  <2>3. NotYetPlanned' /\ GaveUp' /\ Collected' /\ Waiting'
    BY <2>1 DEF NotYetPlanned, GaveUp, Collected, Waiting
  <2>4. Processed' /\ PrincipalsFirst'
    BY <1>1, <1>4, <2>1, SameEntities DEF Processed, collectVars
  <2> QED
    BY <2>2, <2>3, <2>4 DEF PlanInv
<1>7. CASE Len(reachableEntities) # startReachableCount /\ reachableEntities # <<>>
  <2>1. phase' = phase /\ entityIndex' = 1 /\ startReachableCount' = Len(reachableEntities)
    BY <1>7 DEF EndPass, StartPass
  <2>2. 0 < Len(reachableEntities)
    BY <1>2, <1>7, EmptySeq
  <2>3. Typed'
    BY <1>1, <1>2, <1>3, <2>1 DEF Typed, PlanTypeOK, PlanPhases, collectVars
  <2>4. NotYetPlanned' /\ GaveUp' /\ Waiting'
    BY <1>1, <1>2, <2>1, <2>2 DEF NotYetPlanned, GaveUp, Waiting
  <2>5. Collected' /\ Processed' /\ PrincipalsFirst'
    BY <1>1, <1>4, <2>1, SameEntities DEF Collected, Processed, collectVars
  <2> QED
    BY <2>3, <2>4, <2>5 DEF PlanInv
<1> QED
  BY <1>5, <1>6, <1>7

-----------------------------------------------------------------------------
(* The theorems.                                                           *)

LEMMA InvNext == PlanInv /\ [Plan]_planVars => PlanInv'
<1> SUFFICES ASSUME PlanInv, [Plan]_planVars
             PROVE  PlanInv'
  OBVIOUS
<1>1. CASE UNCHANGED planVars
  <2>1. PendingSides' = PendingSides
    BY <1>1 DEF PendingSides, planVars
  <2>2. Typed'
    BY <1>1, <2>1 DEF PlanInv, Typed, PlanTypeOK, planVars, collectVars, orderVars
  <2> QED
    BY <1>1, <2>2, SameEntities
       DEF PlanInv, NotYetPlanned, Collected, Processed, Waiting, GaveUp,
           planVars, collectVars, orderVars
<1> QED
  BY <1>1, InvCompileFromRoot, InvCompileFromRelations, InvSkipSide, InvCollectReachable,
     InvCollectRelationPath, InvBaseCompile, InvPostpone, InvAddEntity, InvEndPass DEF Plan

(* The inductive invariant of the plan: what is collected is to be planned *)
(* or planned, and what a fruitless pass has passed has to wait.           *)
THEOREM PlanInvariance == PlanSpec => []PlanInv
BY InvInit, InvNext, PTL DEF PlanSpec

(* The plan's variables keep their types.                                  *)
THEOREM PlanTypeCorrect == PlanSpec => []PlanTypeOK
BY PlanInvariance, PTL DEF PlanInv, Typed

(* An entity is planned after every entity one of its foreign keys refers  *)
(* to, whatever the schema and whichever entities the insert includes.     *)
THEOREM PrincipalsComeFirst == PlanSpec => []PrincipalsFirst
BY PlanInvariance, PTL DEF PlanInv

LEMMA LoopWaits == PlanInv => LoopIsReal
<1> SUFFICES ASSUME PlanInv, phase = "loop"
             PROVE  /\ reachableEntities # <<>>
                    /\ \A i \in DOMAIN reachableEntities : \E j \in DOMAIN reachableEntities :
                         DependsOn(reachableEntities[i].entity, reachableEntities[j].entity)
  BY DEF LoopIsReal
<1>1. /\ insert \in Inserts /\ reachableEntities \in Seq(Holders)
      /\ DOMAIN reachableEntities = 1 .. Len(reachableEntities)
      /\ Len(reachableEntities) \in Nat
  BY LenProperties DEF PlanInv, Typed, PlanTypeOK
<1>2. /\ 0 < Len(reachableEntities)
      /\ \A i \in 1 .. Len(reachableEntities) : HasDirectDependencies(reachableEntities[i].entity)
  BY <1>1 DEF PlanInv, GaveUp, Waiting
<1>3. ASSUME NEW i \in 1 .. Len(reachableEntities)
      PROVE  \E j \in DOMAIN reachableEntities :
               DependsOn(reachableEntities[i].entity, reachableEntities[j].entity)
  <2> DEFINE e == reachableEntities[i].entity
  <2>1. e \in Entities /\ e \in visitedEntities
    <3>1. reachableEntities[i] \in Holders
      BY <1>1, ElementOfSeq
    <3>2. e \in visitedEntities
      BY <1>1 DEF PlanInv, Collected
    <3> QED
      BY <3>1, <3>2 DEF Holders
  <2>2. PICK r \in Reachable(e) : ForeignKeyLeft(r, e) /\ RightOf(r, e) \notin processedEntities
    BY <1>2 DEF HasDirectDependencies
  <2> DEFINE f == RightOf(r, e)
  <2>3. r \in RelationsOf(e) /\ r \in reachableRelations /\ f \in visitedEntities
    BY DEF Reachable
  <2>4. r \in RelationsOf(f) /\ RightOf(r, f) = e
    BY <1>1, <2>1, <2>3, Siblings
  <2>5. Reachable(f) # {}
    BY <2>1, <2>3, <2>4 DEF Reachable
  <2> HIDE DEF e, f
  <2>6. ~Planned(f)
    BY <2>2, <2>5 DEF PlanInv, Processed, Planned, f
  <2>7. Remaining(f)
    BY <2>3, <2>6 DEF PlanInv, Collected
  <2> QED
    BY <2>2, <2>7 DEF Remaining, DependsOn, e, f
<1> QED
  BY <1>1, <1>2, <1>3, EmptySeq

(* BaseCompile reports a relation loop only where every entity it names    *)
(* waits for another one it names.                                         *)
THEOREM LoopsAreReal == PlanSpec => []LoopIsReal
BY PlanInvariance, LoopWaits, PTL

-----------------------------------------------------------------------------
(* The insert.                                                             *)

Planning == phase \in PlanPhases
Executing == phase \in {"emit", "split", "insert", "read", "done"}

(* Something is planned whenever a plan is finished.                       *)
SomethingPlanned ==
  /\ phase = "order" => reachableEntities # <<>> \/ entities # <<>>
  /\ phase = "ordered" \/ Executing => entities # <<>>

PlanKept ==
  /\ insert \in Inserts
  /\ Planning => PlanInv
  /\ SomethingPlanned
  /\ PrincipalsFirst
  /\ Executing => ~PlannedTwice

(* Nothing is stored before the objects are sorted, and the walk goes on   *)
(* as long as there are objects to look at.                                *)
NotYetInserted ==
  /\ Planning \/ phase \in {"emit", "split", "undefined"} => rows = <<>> /\ current = 1
  /\ Planning \/ phase = "emit" => seen = {} /\ collections = [e \in Entities |-> <<>>]
  /\ phase = "split" => walk # <<>>

(* A collection holds objects of its entity, none of them twice.           *)
Sorted(e) ==
  /\ collections[e] \in Seq(seen)
  /\ \A n \in DOMAIN collections[e] : collections[e][n][1] = e
  /\ IsInjective(collections[e])

(* The keys of the client are known from the beginning, and no object has  *)
(* a key that is not its own, unless the reader has skipped some.          *)
OwnKeys ==
  \A o \in Objects :
    /\ Overrun \/ primaryKey[o] \in {NoKey, o}
    /\ ~HasGeneratedKey(o[1]) => primaryKey[o] = o

(* The rows are those of the entities up to the current one.               *)
Begun == IF phase \in {"read", "noRow"} THEN current ELSE current - 1
RowsFollowPlan ==
  /\ phase \in {"split", "insert", "read"} => current \in DOMAIN entities
  /\ \A i \in DOMAIN rows : \E j \in 1 .. Begun : entities[j].entity = rows[i].object[1]

(* Whatever is stored has its key or will be read next.                    *)
Unread(o) ==
  /\ phase = "read"
  /\ \E n \in iterator .. Len(Batch(entities[current].entity)) :
       Batch(entities[current].entity)[n] = o
StoredHaveKeys == Overrun \/ \A o \in Stored : primaryKey[o] = o \/ Unread(o)
NoneMissing == phase = "noRow" => Overrun

(* How the objects s are cut into results rs when the i-th is read next,   *)
(* after c of the first result: up to which object the m-th result goes.   *)
CutEnd(i, c, limit, m) == i - 1 - c + m * limit
Cuts(rs, s, i, c, limit) ==
  /\ i \in 1 .. Len(s) + 1 /\ c \in 0 .. limit /\ c < i
  /\ rs # <<>>
  /\ Len(s) <= CutEnd(i, c, limit, Len(rs))
  /\ \A m \in 1 .. Len(rs) - 1 : CutEnd(i, c, limit, m) < Len(s)
  /\ \A m \in 1 .. Len(rs) :
       rs[m] = SubSeq(s, IF m = 1 THEN i ELSE CutEnd(i, c, limit, m - 1) + 1,
                      IF CutEnd(i, c, limit, m) < Len(s) THEN CutEnd(i, c, limit, m) ELSE Len(s))

(* The p-th key of the batch s is read next.  That is the one of the next  *)
(* object, unless the counters disagree: then the reader may have skipped  *)
(* some, and there are too few left for the other objects.                 *)
NextRow(s, p) ==
  /\ Cuts(results, s, p, counter, insert.rowLimit)
  /\ counter <= ReadLimit
  /\ \/ p = iterator /\ (ReadLimit = insert.rowLimit \/ counter + 1 = iterator)
     \/ p > iterator /\ ReadLimit < insert.rowLimit /\ ReadLimit < Len(s)

ResultsFit ==
  phase = "read" =>
    /\ HasGeneratedKey(entities[current].entity) /\ iterator >= 1
    /\ \E p \in Nat : NextRow(Batch(entities[current].entity), p)

ExecutionInv ==
  /\ TypeOK /\ PlanKept /\ NotYetInserted
  /\ \A e \in Entities : Sorted(e)
  /\ OwnKeys /\ RowsFollowPlan /\ StoredHaveKeys /\ ResultsFit
  /\ NoneMissing /\ InsertedOnce

-----------------------------------------------------------------------------
(* Facts about the operators.                                              *)

LEMMA FirstCut ==
  ASSUME NEW i \in Nat, NEW c \in Nat, NEW limit \in Nat
  PROVE  CutEnd(i, c, limit, 0) = i - 1 - c /\ CutEnd(i, c, limit, 1) = i - 1 - c + limit
BY DEF CutEnd

(* What is left of a batch without the rest of the result that is read:    *)
(* after all keys of that result, the one of the next object comes first.  *)
LEMMA NextResult ==
  ASSUME NEW S, NEW s \in Seq(S), NEW limit \in Nat \ {0}, NEW c \in 0 .. limit,
         NEW i, NEW rs \in Seq(Seq(S)), Cuts(rs, s, i, c, limit)
  PROVE  /\ Tail(rs) \in Seq(Seq(S))
         /\ Tail(rs) # <<>> => Cuts(Tail(rs), s, i - c + limit, 0, limit)
         /\ c = limit /\ i <= Len(s) => Tail(rs) # <<>>
<1> DEFINE n == Len(rs)
           k == i - c + limit
           to(m) == CutEnd(i, c, limit, m)
           to0(m) == CutEnd(k, 0, limit, m)
<1>1. n \in Nat /\ Len(s) \in Nat /\ i \in Nat /\ limit \in Nat /\ c \in Nat /\ i \in 1 .. Len(s) + 1
      /\ c <= limit /\ c < i /\ k \in Nat /\ rs # <<>>
  BY LenProperties DEF Cuts
<1>2. n >= 1
  BY <1>1, EmptySeq
<1>3. \A m \in Nat : to(m) \in Int /\ to(m + 1) = to(m) + limit /\ to0(m) = to(m + 1)
  <2> TAKE m \in Nat
  <2>1. i \in Nat /\ limit \in Nat /\ c \in Nat
    BY <1>1
  <2>2. /\ CutEnd(i, c, limit, m) \in Int
        /\ CutEnd(i, c, limit, m + 1) = CutEnd(i, c, limit, m) + limit
        /\ CutEnd(i - c + limit, 0, limit, m) = CutEnd(i, c, limit, m + 1)
    <3>1. (m + 1) * limit = m * limit + limit /\ m * limit \in Nat
      BY <2>1
    <3> QED
      BY <2>1, <3>1 DEF CutEnd
  <2> QED
    BY <2>2
<1>4. to(1) = k - 1
  <2>1. CutEnd(i, c, limit, 1) = i - 1 - c + limit
    BY <1>1, FirstCut
  <2> QED
    BY <1>1, <2>1
<1>5. /\ Len(s) <= to(n)
      /\ \A m \in 1 .. n - 1 : to(m) < Len(s)
      /\ \A m \in 1 .. n :
           rs[m] = SubSeq(s, IF m = 1 THEN i ELSE to(m - 1) + 1, IF to(m) < Len(s) THEN to(m) ELSE Len(s))
  BY DEF Cuts
<1>6. /\ Tail(rs) \in Seq(Seq(S)) /\ Len(Tail(rs)) = n - 1
      /\ \A m \in 1 .. n - 1 : Tail(rs)[m] = rs[m + 1]
  BY <1>1, HeadTailProperties
<1> HIDE DEF n, k, to, to0
<1>7. Tail(rs) # <<>> <=> n >= 2
  <2>1. PICK rest : rest = Tail(rs)
    OBVIOUS
  <2>2. Len(rest) = n - 1 /\ rest \in Seq(Seq(S))
    BY <1>6, <2>1
  <2>3. rest # <<>> <=> Len(rest) # 0
    BY <2>2, EmptySeq
  <2>4. Len(rest) # 0 <=> n >= 2
    BY <1>1, <1>2, <2>2
  <2>5. rest # <<>> <=> n >= 2
    BY <2>3, <2>4, Zenon
  <2> QED
    BY <2>1, <2>5, Zenon
<1>8. c = limit /\ i <= Len(s) => Tail(rs) # <<>>
  <2> SUFFICES ASSUME c = limit, i <= Len(s), n = 1
               PROVE  FALSE
    BY <1>1, <1>2, <1>7
  <2>1. k = i
    BY <1>1 DEF k
  <2> QED
    BY <1>1, <1>4, <1>5, <2>1
<1>9. Tail(rs) # <<>> => Cuts(Tail(rs), s, k, 0, limit)
  <2> SUFFICES ASSUME n >= 2, Tail(rs) # <<>>
               PROVE  Cuts(Tail(rs), s, k, 0, limit)
    BY <1>7
  <2>1. Len(s) <= to0(n - 1)
    <3>1. n - 1 \in Nat /\ (n - 1) + 1 = n
      BY <1>1
    <3> QED
      BY <1>3, <1>5, <3>1
  <2>2. ASSUME NEW m \in 1 .. n - 2
        PROVE  to0(m) < Len(s)
    <3>1. m \in Nat /\ m + 1 \in 1 .. n - 1
      BY <1>1
    <3> QED
      BY <1>3, <1>5, <3>1
  <2>3. ASSUME NEW m \in 1 .. n - 1
        PROVE  Tail(rs)[m] = SubSeq(s, IF m = 1 THEN k ELSE to0(m - 1) + 1,
                                   IF to0(m) < Len(s) THEN to0(m) ELSE Len(s))
    <3>1. m \in Nat /\ m - 1 \in Nat /\ m + 1 \in 1 .. n /\ m + 1 # 1 /\ (m + 1) - 1 = m /\ (m - 1) + 1 = m
      BY <1>1
    <3>2. rs[m + 1] = SubSeq(s, to(m) + 1, IF to(m + 1) < Len(s) THEN to(m + 1) ELSE Len(s))
      BY <1>5, <3>1
    <3>3. to0(m) = to(m + 1) /\ to0(m - 1) = to(m)
      BY <1>3, <3>1
    <3>4. m = 1 => to(m) + 1 = k
      BY <1>1, <1>4
    <3> QED
      BY <1>6, <3>2, <3>3, <3>4
  <2>4. k \in 1 .. Len(s) + 1 /\ 0 \in 0 .. limit /\ 0 < k
    <3>1. to(1) < Len(s)
      BY <1>1, <1>5
    <3>2. k >= 1
      BY <1>1 DEF k
    <3> QED
      BY <1>1, <1>4, <3>1, <3>2
  <2> USE DEF n, to0
  <2>5. (n - 1) - 1 = n - 2
    BY <1>1
  <2> QED
    BY <1>6, <2>1, <2>2, <2>3, <2>4, <2>5 DEF Cuts
<1> QED
  BY <1>6, <1>8, <1>9 DEF k

(* There is no key left of a batch whose keys were all read.               *)
LEMMA NoKeyLeft ==
  ASSUME NEW S, NEW s \in Seq(S), NEW limit \in Nat \ {0},
         NEW c \in 0 .. limit - 1, NEW rs \in Seq(Seq(S)), Cuts(rs, s, Len(s) + 1, c, limit)
  PROVE  Head(rs) = <<>>
<1>1. PICK n : n = Len(s)
  OBVIOUS
<1>2. n \in Nat /\ Len(rs) \in Nat /\ rs # <<>>
  BY <1>1, LenProperties DEF Cuts
<1>3. Len(rs) >= 1
  BY <1>2, EmptySeq
<1>4. CutEnd(n + 1, c, limit, 1) = n + 1 - 1 - c + limit
  BY <1>2, FirstCut
<1>5. ~(CutEnd(n + 1, c, limit, 1) < n)
  BY <1>2, <1>4
<1>6. rs[1] = SubSeq(s, n + 1, n)
  BY <1>1, <1>3, <1>5 DEF Cuts
<1>7. Head(rs) = rs[1]
  BY <1>2
<1>8. SubSeq(s, n + 1, n) = <<>>
  BY <1>2
<1> QED
  BY <1>6, <1>7, <1>8

(* One key is read: it is the key of the next object.                      *)
LEMMA NextKey ==
  ASSUME NEW S, NEW s \in Seq(S), NEW limit \in Nat \ {0},
         NEW i, NEW c, NEW rs \in Seq(Seq(S)), Cuts(rs, s, i, c, limit), i <= Len(s), c < limit
  PROVE  /\ rs # <<>> /\ Head(rs) # <<>> /\ Head(Head(rs)) = s[i]
         /\ <<Tail(Head(rs))>> \o Tail(rs) \in Seq(Seq(S))
         /\ Cuts(<<Tail(Head(rs))>> \o Tail(rs), s, i + 1, c + 1, limit)
<1> DEFINE n == Len(rs)
           to(m) == CutEnd(i, c, limit, m)
           to1(m) == CutEnd(i + 1, c + 1, limit, m)
           end == IF to(1) < Len(s) THEN to(1) ELSE Len(s)
           left == <<Tail(Head(rs))>> \o Tail(rs)
<1>1. /\ n \in Nat /\ Len(s) \in Nat /\ i \in Nat /\ c \in Nat /\ limit \in Nat
      /\ i \in 1 .. Len(s) /\ rs # <<>> /\ c < i
  BY LenProperties DEF Cuts
<1>2. n >= 1
  BY <1>1, EmptySeq
<1>3. \A m \in Nat : to(m) \in Int /\ to1(m) = to(m)
  <2> TAKE m \in Nat
  <2>1. i \in Nat /\ c \in Nat /\ limit \in Nat
    BY <1>1
  <2>2. CutEnd(i, c, limit, m) \in Int /\ CutEnd(i + 1, c + 1, limit, m) = CutEnd(i, c, limit, m)
    <3>1. m * limit \in Nat
      BY <2>1
    <3> QED
      BY <2>1, <3>1 DEF CutEnd
  <2> QED
    BY <2>2
<1>4. to(1) = i - 1 - c + limit
  BY <1>1, FirstCut
<1>5. /\ Len(s) <= to(n)
      /\ \A m \in 1 .. n - 1 : to(m) < Len(s)
      /\ \A m \in 1 .. n :
           rs[m] = SubSeq(s, IF m = 1 THEN i ELSE to(m - 1) + 1, IF to(m) < Len(s) THEN to(m) ELSE Len(s))
  BY DEF Cuts
<1> HIDE DEF n, to, to1
<1>6. end \in i .. Len(s)
  <2>1. to(1) \in Int /\ i <= to(1)
    BY <1>1, <1>4
  <2>2. CASE to(1) < Len(s)
    BY <1>1, <2>1, <2>2
  <2>3. CASE ~(to(1) < Len(s))
    BY <1>1, <2>3
  <2> QED
    BY <2>2, <2>3
<1> HIDE DEF end
<1>7. Head(rs) = SubSeq(s, i, end)
  <2>1. Head(rs) = rs[1]
    BY <1>1
  <2>2. 1 \in 1 .. n
    BY <1>1, <1>2
  <2> QED
    BY <1>5, <2>1, <2>2 DEF end
<1>8. Head(Head(rs)) = s[i] /\ Tail(Head(rs)) = SubSeq(s, i + 1, end)
  BY <1>1, <1>6, <1>7, HeadTailOfSubSeq
<1>9. Head(rs) \in Seq(S) /\ Head(rs) # <<>>
  <2>1. Len(SubSeq(s, i, end)) = end - i + 1
    <3>1. \A k \in i .. end : s[k] \in S
      <4>1. \A k \in i .. end : k \in 1 .. Len(s)
        BY <1>1, <1>6
      <4> QED
        BY <4>1, ElementOfSeq
    <3>2. i \in Int /\ end \in Int /\ i <= end
      BY <1>1, <1>6
    <3> QED
      BY <3>1, <3>2, SubSeqProperties
  <2>2. Len(Head(rs)) # 0
    BY <1>1, <1>6, <1>7, <2>1
  <2> QED
    BY <1>1, <2>2, HeadTailProperties, EmptySeq
<1>10. /\ Tail(rs) \in Seq(Seq(S)) /\ Len(Tail(rs)) = n - 1
       /\ \A m \in 1 .. n - 1 : Tail(rs)[m] = rs[m + 1]
  BY <1>1, HeadTailProperties DEF n
<1>11. Tail(Head(rs)) \in Seq(S)
  BY <1>9, HeadTailProperties
<1>12. /\ left \in Seq(Seq(S)) /\ Len(left) = n
       /\ left[1] = SubSeq(s, i + 1, end)
       /\ \A m \in 2 .. n : left[m] = rs[m]
  <2>1. <<Tail(Head(rs))>> \in Seq(Seq(S)) /\ Len(<<Tail(Head(rs))>>) = 1
    BY <1>11
  <2>2. /\ left \in Seq(Seq(S)) /\ Len(left) = 1 + (n - 1)
        /\ \A m \in 1 .. 1 + (n - 1) :
             left[m] = IF m <= 1 THEN <<Tail(Head(rs))>>[m] ELSE Tail(rs)[m - 1]
    BY <1>10, <2>1, ConcatProperties
  <2>3. 1 \in 1 .. 1 + (n - 1) /\ 1 + (n - 1) = n
    BY <1>1, <1>2
  <2>4. left[1] = Tail(Head(rs))
    BY <2>2, <2>3
  <2>5. ASSUME NEW m \in 2 .. n
        PROVE  left[m] = rs[m]
    <3>1. m \in 1 .. 1 + (n - 1) /\ ~(m <= 1) /\ m - 1 \in 1 .. n - 1 /\ (m - 1) + 1 = m
      BY <1>1
    <3> QED
      BY <1>10, <2>2, <3>1
  <2> QED
    BY <1>8, <2>2, <2>3, <2>4, <2>5
<1> HIDE DEF left
<1>13. left # <<>>
  BY <1>2, <1>12, EmptySeq
<1>14. /\ Len(s) <= to1(n)
       /\ \A m \in 1 .. n - 1 : to1(m) < Len(s)
  BY <1>1, <1>3, <1>5
<1>15. ASSUME NEW m \in 1 .. n
       PROVE  left[m] = SubSeq(s, IF m = 1 THEN i + 1 ELSE to1(m - 1) + 1,
                              IF to1(m) < Len(s) THEN to1(m) ELSE Len(s))
  <2>1. CASE m = 1
    BY <1>3, <1>12, <2>1 DEF end
  <2>2. CASE m # 1
    <3>1. m \in 2 .. n /\ m \in Nat /\ m - 1 \in Nat
      BY <1>1, <2>2
    <3>2. left[m] = rs[m] /\ to1(m) = to(m) /\ to1(m - 1) = to(m - 1)
      BY <1>3, <1>12, <3>1
    <3> QED
      BY <1>5, <2>2, <3>2
  <2> QED
    BY <2>1, <2>2
<1>16. i + 1 \in 1 .. Len(s) + 1 /\ c + 1 \in 0 .. limit /\ c + 1 < i + 1
  BY <1>1
<1>17. Cuts(left, s, i + 1, c + 1, limit)
  BY <1>12, <1>13, <1>14, <1>15, <1>16 DEF Cuts, to1
<1> QED
  BY <1>1, <1>8, <1>9, <1>12, <1>17 DEF left

(* A batch of n rows is cut into q statements of at most limit rows: the   *)
(* quotient rounded up reaches the batch's end, and one less does not.     *)
RoundedUp(n, limit, q) == q = (n + limit - 1) \div limit
Covers(n, limit, q) == q \in Nat /\ n <= q * limit /\ q >= 1 /\ (q - 1) * limit < n

LEMMA Divided ==
  \A n \in Nat \ {0} : \A limit \in Nat \ {0} : \A q :
    RoundedUp(n, limit, q) => Covers(n, limit, q)
<1> SUFFICES ASSUME NEW n \in Nat \ {0}, NEW limit \in Nat \ {0}, NEW q,
                    q = (n + limit - 1) \div limit
             PROVE  q \in Nat /\ n <= q * limit /\ q >= 1 /\ (q - 1) * limit < n
  BY DEF RoundedUp, Covers
<1>1. q \in Nat /\ n <= q * limit
  OBVIOUS
<1>2. q >= 1
  OBVIOUS
<1>3. (q - 1) * limit < n
  OBVIOUS
<1> QED
  BY <1>1, <1>2, <1>3

(* The statements of a batch fit it, before the first key is read.         *)
LEMMA StatementsFit ==
  ASSUME insert \in Inserts, NEW S, NEW s \in Seq(S), s # <<>>
  PROVE  Statements(s) \in Seq(Seq(S)) /\ Cuts(Statements(s), s, 1, 0, insert.rowLimit)
<1>0. PICK limit : limit = insert.rowLimit
  OBVIOUS
<1>00. PICK q : q = (Len(s) + limit - 1) \div limit
  OBVIOUS
<1> DEFINE cut(n) == SubSeq(s, (n - 1) * limit + 1,
                            IF n * limit < Len(s) THEN n * limit ELSE Len(s))
<1>1. limit \in Nat \ {0} /\ Len(s) \in Nat /\ Len(s) >= 1
  <2>1. limit \in Nat \ {0}
    BY <1>0, ObjectsAssumption
  <2>2. Len(s) \in Nat \ {0}
    BY EmptySeq
  <2> QED
    BY <2>1, <2>2
<1>2. q \in Nat /\ q >= 1 /\ Len(s) <= q * limit /\ (q - 1) * limit < Len(s)
  <2>1. PICK n : n = Len(s)
    OBVIOUS
  <2>2. n \in Nat \ {0} /\ limit \in Nat \ {0}
    BY <1>1, <2>1
  <2>3. RoundedUp(n, limit, q)
    BY <1>00, <2>1 DEF RoundedUp
  <2>4. Covers(n, limit, q)
    BY ONLY <2>2, <2>3, Divided, Zenon
  <2> QED
    BY <2>1, <2>4 DEF Covers
<1>3. Statements(s) = [n \in 1 .. q |-> cut(n)]
  BY <1>0, <1>00 DEF Statements
<1>4. ASSUME NEW n \in 1 .. q
      PROVE  cut(n) \in Seq(S)
  <2>1. PICK from : from = (n - 1) * limit + 1
    OBVIOUS
  <2>2. PICK to : to = IF n * limit < Len(s) THEN n * limit ELSE Len(s)
    OBVIOUS
  <2>3. (n - 1) * limit \in Nat /\ n * limit \in Nat
    BY <1>1, <1>2
  <2>4. from \in Int /\ 1 <= from /\ to \in Int /\ to <= Len(s)
    BY <1>1, <2>1, <2>2, <2>3
  <2>5. \A k \in from .. to : s[k] \in S
    <3>1. \A k \in from .. to : k \in 1 .. Len(s)
      BY <1>1, <2>4
    <3> QED
      BY <3>1, ElementOfSeq
  <2>6. SubSeq(s, from, to) \in Seq(S)
    BY <2>4, <2>5, SubSeqProperties
  <2> QED
    BY <2>1, <2>2, <2>6
<1> HIDE DEF cut
<1>5. [n \in 1 .. q |-> cut(n)] \in Seq(Seq(S))
  BY <1>2, <1>4, IsASeq
<1>6. PICK rs : rs = Statements(s)
  OBVIOUS
<1>7. rs \in Seq(Seq(S)) /\ Len(rs) = q /\ \A n \in 1 .. q : rs[n] = cut(n)
  BY <1>2, <1>3, <1>5, <1>6
<1>8. rs # <<>>
  BY <1>2, <1>7
<1>9. \A n \in Nat : CutEnd(1, 0, limit, n) = n * limit
  <2> TAKE n \in Nat
  <2>1. PICK all : all = n * limit
    OBVIOUS
  <2>2. all \in Nat
    BY <1>1, <2>1
  <2>3. 1 - 1 - 0 + all = all
    BY <2>2
  <2> QED
    BY <2>1, <2>3 DEF CutEnd
<1>10. Len(s) <= CutEnd(1, 0, limit, Len(rs))
  BY <1>2, <1>7, <1>9
<1>11. ASSUME NEW m \in 1 .. Len(rs) - 1
       PROVE  CutEnd(1, 0, limit, m) < Len(s)
  <2>1. m \in Nat /\ m <= q - 1
    BY <1>2, <1>7
  <2>2. PICK all : all = m * limit
    OBVIOUS
  <2>3. PICK most : most = (q - 1) * limit
    OBVIOUS
  <2>4. all <= most /\ all \in Nat /\ most \in Nat
    BY <1>1, <1>2, <2>1, <2>2, <2>3
  <2>5. CutEnd(1, 0, limit, m) = all
    BY <1>9, <2>1, <2>2
  <2>6. most < Len(s)
    BY <1>2, <2>3
  <2> QED
    BY <1>1, <2>4, <2>5, <2>6
<1>12. ASSUME NEW m \in 1 .. Len(rs)
       PROVE  rs[m] = SubSeq(s, IF m = 1 THEN 1 ELSE CutEnd(1, 0, limit, m - 1) + 1,
                             IF CutEnd(1, 0, limit, m) < Len(s)
                               THEN CutEnd(1, 0, limit, m) ELSE Len(s))
  <2>1. m \in 1 .. q /\ m \in Nat /\ m - 1 \in Nat
    BY <1>2, <1>7
  <2>2. rs[m] = cut(m)
    BY <1>7, <2>1
  <2>3. CutEnd(1, 0, limit, m) = m * limit /\ CutEnd(1, 0, limit, m - 1) = (m - 1) * limit
    BY <1>9, <2>1
  <2>4. m = 1 => (m - 1) * limit + 1 = 1
    BY <1>1
  <2> QED
    BY <2>2, <2>3, <2>4 DEF cut
<1>13. Cuts(rs, s, 1, 0, limit)
  <2>1. 1 \in 1 .. Len(s) + 1 /\ 0 \in 0 .. limit /\ 0 < 1
    BY <1>1
  <2> QED
    BY <1>8, <1>10, <1>11, <1>12, <2>1 DEF Cuts
<1> QED
  BY <1>0, <1>6, <1>7, <1>13

(* A nonempty set of numbers has a least element.                          *)
LEMMA LeastNumber ==
  ASSUME NEW N \in SUBSET Nat, N # {}
  PROVE  \E x \in N : \A y \in N : x <= y
<1> DEFINE T == {0 .. x : x \in N}
<1>1. T \subseteq FiniteSubsetsOf(Nat)
  <2> SUFFICES ASSUME NEW x \in N
               PROVE  0 .. x \in FiniteSubsetsOf(Nat)
    OBVIOUS
  <2>1. 0 \in Int /\ x \in Int
    OBVIOUS
  <2>2. IsFiniteSet(0 .. x)
    BY <2>1, FS_Interval
  <2>3. 0 .. x \in SUBSET Nat
    OBVIOUS
  <2> QED
    BY <2>2, <2>3 DEF FiniteSubsetsOf
<1>2. IsWellFoundedOn(StrictSubsetOrdering(Nat), FiniteSubsetsOf(Nat))
  BY FS_StrictSubsetOrderingWellFounded
<1>3. T # {}
  OBVIOUS
<1> HIDE DEF T
<1>4. PICK U \in T : \A V \in T : ~(<<V, U>> \in StrictSubsetOrdering(Nat))
  BY <1>1, <1>2, <1>3, WFMin, Zenon
<1> USE DEF T
<1>5. PICK x \in N : U = 0 .. x
  BY <1>4
<1>6. ASSUME NEW y \in N
      PROVE  x <= y
  <2> SUFFICES ASSUME y < x
               PROVE  FALSE
    OBVIOUS
  <2>1. (0 .. y) \in T /\ 0 .. y \subseteq 0 .. x /\ x \in 0 .. x /\ x \notin 0 .. y
    OBVIOUS
  <2>2. <<0 .. y, U>> \in StrictSubsetOrdering(Nat)
    BY <2>1, <1>5 DEF StrictSubsetOrdering
  <2> QED
    BY <2>1, <2>2, <1>4
<1> QED
  BY <1>6

(* What FlattenSeq joins.                                                  *)
Joined(ss, f, n) ==
  f = [i \in 1 .. n |-> IF i = 1 THEN ss[i] ELSE f[i - 1] \o ss[i]]

LEMMA JoinedTypes ==
  ASSUME NEW S, NEW n \in Nat, NEW ss \in [1 .. n -> Seq(S)], NEW f, Joined(ss, f, n)
  PROVE  f \in [1 .. n -> Seq(S)]
<1> DEFINE wrong == {i \in 1 .. n : f[i] \notin Seq(S)}
<1>1. /\ DOMAIN f = 1 .. n
      /\ \A i \in 1 .. n : f[i] = IF i = 1 THEN ss[i] ELSE f[i - 1] \o ss[i]
  BY DEF Joined
<1>2. SUFFICES ASSUME wrong # {}
               PROVE  FALSE
  BY <1>1 DEF Joined
<1>3. wrong \in SUBSET Nat
  OBVIOUS
<1> HIDE DEF wrong
<1>4. PICK k \in wrong : \A y \in wrong : k <= y
  BY <1>2, <1>3, LeastNumber
<1> USE DEF wrong
<1>5. CASE k = 1
  BY <1>1, <1>4, <1>5
<1>6. CASE k # 1
  <2>1. k - 1 \in 1 .. n /\ ~(k <= k - 1)
    BY <1>4, <1>6
  <2>2. f[k - 1] \in Seq(S) /\ ss[k] \in Seq(S)
    BY <1>4, <2>1
  <2>3. f[k - 1] \o ss[k] \in Seq(S)
    BY <2>2, ConcatProperties
  <2> QED
    BY <1>1, <1>4, <1>6, <2>3
<1> QED
  BY <1>5, <1>6

LEMMA JoinedExists ==
  ASSUME NEW n \in Nat, NEW ss
  PROVE  \E f : Joined(ss, f, n)
<1> DEFINE without == {i \in 0 .. n : ~\E f : Joined(ss, f, i)}
<1>1. SUFFICES ASSUME without # {}
               PROVE  FALSE
  OBVIOUS
<1>2. without \in SUBSET Nat
  OBVIOUS
<1> HIDE DEF without
<1>3. PICK k \in without : \A y \in without : k <= y
  BY <1>1, <1>2, LeastNumber
<1>4. k \in 0 .. n /\ ~\E f : Joined(ss, f, k)
  BY <1>3 DEF without
<1>5. k # 0
  <2> SUFFICES ASSUME k = 0
               PROVE  FALSE
    OBVIOUS
  <2> DEFINE none == [i \in 1 .. 0 |-> {}]
  <2>1. none = [i \in 1 .. 0 |-> IF i = 1 THEN ss[i] ELSE none[i - 1] \o ss[i]]
    OBVIOUS
  <2> HIDE DEF none
  <2>2. Joined(ss, none, 0)
    BY <2>1 DEF Joined
  <2> QED
    BY <1>4, <2>2
<1>6. k - 1 \in 0 .. n /\ ~(k <= k - 1)
  BY <1>4, <1>5
<1>7. PICK f : Joined(ss, f, k - 1)
  BY <1>3, <1>6 DEF without
<1>8. /\ DOMAIN f = 1 .. k - 1
      /\ \A i \in 1 .. k - 1 : f[i] = IF i = 1 THEN ss[i] ELSE f[i - 1] \o ss[i]
  BY <1>7 DEF Joined
<1> DEFINE next == IF k = 1 THEN ss[k] ELSE f[k - 1] \o ss[k]
           g == [i \in 1 .. k |-> IF i = k THEN next ELSE f[i]]
<1>9. ASSUME NEW i \in 1 .. k
      PROVE  g[i] = IF i = 1 THEN ss[i] ELSE g[i - 1] \o ss[i]
  <2>1. k \in Nat /\ i \in Nat
    BY <1>4
  <2>2. i # 1 => i - 1 \in 1 .. k /\ i - 1 # k
    BY <2>1
  <2>3. i # 1 => g[i - 1] = f[i - 1]
    BY <2>2
  <2>4. CASE i = k
    BY <2>3, <2>4
  <2>5. CASE i # k
    <3>1. i \in 1 .. k - 1
      BY <2>1, <2>5
    <3> QED
      BY <1>8, <2>3, <2>5, <3>1
  <2> QED
    BY <2>4, <2>5
<1>10. g = [i \in 1 .. k |-> g[i]]
  OBVIOUS
<1> HIDE DEF g
<1>11. g = [i \in 1 .. k |-> IF i = 1 THEN ss[i] ELSE g[i - 1] \o ss[i]]
  BY <1>9, <1>10
<1> QED
  BY <1>4, <1>11 DEF Joined

LEMMA Flattened ==
  ASSUME NEW S, NEW ss \in Seq(Seq(S))
  PROVE  FlattenSeq(ss) \in Seq(S)
<1> DEFINE n == Len(ss)
           f == CHOOSE g : Joined(ss, g, n)
<1>1. n \in Nat /\ ss \in [1 .. n -> Seq(S)]
  BY LenProperties
<1>2. CASE n = 0
  <2>1. FlattenSeq(ss) = ss
    BY <1>2 DEF FlattenSeq
  <2>2. ss = <<>>
    BY <1>2, EmptySeq
  <2> QED
    BY <2>1, <2>2, EmptySeq
<1>3. CASE n # 0
  <2>1. FlattenSeq(ss) = f[n]
    BY <1>3 DEF FlattenSeq, Joined
  <2> HIDE DEF n
  <2>2. Joined(ss, f, n)
    BY <1>1, JoinedExists
  <2> HIDE DEF f
  <2>3. f \in [1 .. n -> Seq(S)]
    BY <1>1, <2>2, JoinedTypes
  <2> QED
    BY <1>1, <1>3, <2>1, <2>3
<1> QED
  BY <1>2, <1>3

(* Nothing is lost when sequences are joined.                              *)
LEMMA JoinedKeeps ==
  ASSUME NEW S, NEW s \in Seq(S), NEW t \in Seq(S)
  PROVE  ToSet(s) \cup ToSet(t) \subseteq ToSet(s \o t)
<1>1. PICK all, m, n : all = s \o t /\ m = Len(s) /\ n = Len(t)
  OBVIOUS
<1>2. /\ m \in Nat /\ DOMAIN s = 1 .. m /\ n \in Nat /\ DOMAIN t = 1 .. n
      /\ all \in Seq(S) /\ Len(all) = m + n
      /\ \A i \in 1 .. m + n : all[i] = IF i <= m THEN s[i] ELSE t[i - m]
  BY <1>1, ConcatProperties, LenProperties
<1>3. DOMAIN all = 1 .. m + n
  BY <1>2, LenProperties
<1>4. \A i \in 1 .. m : i \in DOMAIN all /\ all[i] = s[i]
  BY <1>2, <1>3
<1>5. ASSUME NEW i \in 1 .. n
      PROVE  \E j \in DOMAIN all : all[j] = t[i]
  <2>1. i + m \in DOMAIN all /\ all[i + m] = t[i]
    BY <1>2, <1>3
  <2> QED
    BY <2>1
<1>6. ToSet(s) \subseteq ToSet(all)
  BY <1>2, <1>4 DEF ToSet
<1>7. ToSet(t) \subseteq ToSet(all)
  BY <1>2, <1>5 DEF ToSet
<1> QED
  BY <1>1, <1>6, <1>7

LEMMA JoinedHolds ==
  ASSUME NEW S, NEW n \in Nat, NEW ss \in [1 .. n -> Seq(S)], NEW f, Joined(ss, f, n),
         NEW i \in 1 .. n, NEW k \in i .. n
  PROVE  ToSet(ss[i]) \subseteq ToSet(f[k])
<1> DEFINE wrong == {m \in i .. n : ~(ToSet(ss[i]) \subseteq ToSet(f[m]))}
<1>1. /\ \A m \in 1 .. n : f[m] = IF m = 1 THEN ss[m] ELSE f[m - 1] \o ss[m]
      /\ f \in [1 .. n -> Seq(S)]
  BY JoinedTypes DEF Joined
<1>2. SUFFICES ASSUME wrong # {}
               PROVE  FALSE
  OBVIOUS
<1>3. wrong \in SUBSET Nat
  OBVIOUS
<1> HIDE DEF wrong
<1>4. PICK m \in wrong : \A y \in wrong : m <= y
  BY <1>2, <1>3, LeastNumber
<1>5. m \in i .. n /\ ~(ToSet(ss[i]) \subseteq ToSet(f[m]))
  BY <1>4 DEF wrong
<1>6. m # 1
  BY <1>1, <1>5
<1>7. PICK s, t : s = f[m - 1] /\ t = ss[m]
  OBVIOUS
<1>8. s \in Seq(S) /\ t \in Seq(S) /\ f[m] = s \o t
  <2>1. m - 1 \in 1 .. n /\ m \in 1 .. n
    BY <1>5, <1>6
  <2> QED
    BY <1>1, <1>6, <1>7, <2>1
<1>9. ToSet(s) \cup ToSet(t) \subseteq ToSet(f[m])
  BY <1>8, JoinedKeeps
<1>10. CASE m = i
  BY <1>5, <1>7, <1>9, <1>10
<1>11. CASE m # i
  <2>1. m - 1 \in i .. n /\ ~(m <= m - 1)
    BY <1>5, <1>11
  <2>2. ToSet(ss[i]) \subseteq ToSet(s)
    BY <1>4, <1>7, <2>1 DEF wrong
  <2> QED
    BY <1>5, <1>9, <2>2
<1> QED
  BY <1>10, <1>11

LEMMA FlattenedHolds ==
  ASSUME NEW S, NEW ss \in Seq(Seq(S)), NEW i \in DOMAIN ss
  PROVE  ToSet(ss[i]) \subseteq ToSet(FlattenSeq(ss))
<1> DEFINE n == Len(ss)
           f == CHOOSE g : Joined(ss, g, n)
<1>1. n \in Nat /\ ss \in [1 .. n -> Seq(S)] /\ i \in 1 .. n
  BY LenProperties
<1>2. FlattenSeq(ss) = f[n]
  <2>1. n # 0
    BY <1>1
  <2> QED
    BY <2>1 DEF FlattenSeq, Joined
<1> HIDE DEF n
<1>3. Joined(ss, f, n)
  BY <1>1, JoinedExists
<1> HIDE DEF f
<1>4. n \in i .. n
  BY <1>1
<1> QED
  BY <1>1, <1>2, <1>3, <1>4, JoinedHolds

LEMMA AsSequence ==
  ASSUME NEW S, IsFiniteSet(S)
  PROVE  SetToSeq(S) \in Seq(S)
<1> DEFINE n == Cardinality(S)
<1>1. n \in Nat /\ ExistsBijection(1 .. n, S)
  BY FS_CardinalityType
<1> HIDE DEF n
<1>2. PICK b \in Bijection(1 .. n, S) : TRUE
  BY <1>1 DEF ExistsBijection
<1>3. b \in [1 .. n -> S] /\ IsInjective(b)
  BY <1>2 DEF Bijection, Injection
<1>4. (CHOOSE f \in [1 .. n -> S] : IsInjective(f)) \in [1 .. n -> S]
  BY <1>3
<1>5. SetToSeq(S) \in [1 .. n -> S]
  BY <1>4 DEF SetToSeq, n
<1> QED
  BY <1>1, <1>5, SeqDef

LEMMA FiniteObjects == IsFiniteSet(Objects)
<1>1. IsFiniteSet(1 .. MaxObjects)
  BY ObjectsAssumption, FS_Interval
<1> QED
  BY <1>1, ObjectsAssumption, FS_Product DEF Objects

LEMMA LinkedTypes ==
  ASSUME NEW r, NEW e, NEW o
  PROVE  Linked(r, e, o) \in Seq(Objects)
<1> DEFINE linked == IF ForeignKeyLeft(r, e)
                       THEN {p \in Objects : <<o, p>> \in insert.links[r]}
                       ELSE {d \in Objects : <<d, o>> \in insert.links[r]}
<1>1. linked \in SUBSET Objects
  OBVIOUS
<1> HIDE DEF linked
<1>2. SetToSeq(linked) \in Seq(linked)
  BY <1>1, FiniteObjects, FS_Subset, AsSequence
<1>3. SetToSeq(linked) \in Seq(Objects)
  BY <1>1, <1>2, SeqMonotonic
<1> QED
  BY <1>3 DEF Linked, linked

Looks == [object : Objects, left : Objects]

(* What the walk looks at after o, if what o is linked to is in S.         *)
LEMMA NextObjectsAre ==
  ASSUME insert \in Inserts, NEW o \in Objects, NEW S,
         \A r \in Followed(o) : Linked(r, o[1], o) \in Seq(S)
  PROVE  /\ NextObjects(o) \in Seq([object : S, left : {o}])
         /\ \A r \in Followed(o) : \A p \in ToSet(Linked(r, o[1], o)) :
              \E x \in ToSet(NextObjects(o)) : x.object = p
<1> DEFINE found(r) == [n \in DOMAIN Linked(r, o[1], o) |->
                          [object |-> Linked(r, o[1], o)[n], left |-> o]]
           relations == Reverse(insert.relationsOf[o[1]])
           groups == [n \in DOMAIN relations |->
                        IF relations[n] \in Followed(o) THEN found(relations[n]) ELSE <<>>]
<1>0. PICK looks : looks = [object : S, left : {o}]
  OBVIOUS
<1>1. NextObjects(o) = FlattenSeq(groups)
  BY DEF NextObjects
<1>2. PICK k \in Nat : /\ DOMAIN relations = 1 .. k
                       /\ \A r \in RelationsOf(o[1]) : \E n \in 1 .. k : relations[n] = r
  <2>1. PICK s : s = insert.relationsOf[o[1]]
    OBVIOUS
  <2>2. s \in Seq(Relations)
    BY <2>1, InsertsAssumption DEF Objects
  <2>3. Len(s) \in Nat /\ DOMAIN s = 1 .. Len(s)
    BY <2>2, LenProperties
  <2>4. \A n \in 1 .. Len(s) : Len(s) - n + 1 \in 1 .. Len(s) /\ relations[Len(s) - n + 1] = s[n]
    <3>1. PICK last \in Nat : last = Len(s)
      BY <2>3
    <3>2. relations = [n \in 1 .. last |-> s[(last - n) + 1]]
      BY <2>1, <3>1 DEF Reverse
    <3>3. \A n \in 1 .. last : last - n + 1 \in 1 .. last /\ (last - (last - n + 1)) + 1 = n
      BY <3>1
    <3> QED
      BY <3>1, <3>2, <3>3
  <2>5. \A r \in RelationsOf(o[1]) : \E n \in 1 .. Len(s) : s[n] = r
    BY <2>1, <2>3 DEF RelationsOf, ToSet
  <2>6. DOMAIN relations = 1 .. Len(s)
    BY <2>1 DEF Reverse
  <2>7. ASSUME NEW r \in RelationsOf(o[1])
        PROVE  \E n \in 1 .. Len(s) : relations[n] = r
    <3>1. PICK n \in 1 .. Len(s) : s[n] = r
      BY <2>5
    <3>2. PICK m \in 1 .. Len(s) : m = Len(s) - n + 1
      BY <2>4
    <3> QED
      BY <2>4, <3>1, <3>2
  <2> HIDE DEF relations
  <2> QED
    BY <2>3, <2>6, <2>7
<1> HIDE DEF relations
<1>3. ASSUME NEW r \in Followed(o)
      PROVE  /\ found(r) \in Seq(looks)
             /\ \A p \in ToSet(Linked(r, o[1], o)) : \E x \in ToSet(found(r)) : x.object = p
  <2>1. PICK s : s = Linked(r, o[1], o)
    OBVIOUS
  <2>2. s \in Seq(S) /\ Len(s) \in Nat /\ DOMAIN s = 1 .. Len(s)
    BY <2>1, LenProperties
  <2>3. \A n \in 1 .. Len(s) : s[n] \in S
    BY <2>2, ElementOfSeq
  <2>4. PICK t : t = [n \in 1 .. Len(s) |-> [object |-> s[n], left |-> o]]
    OBVIOUS
  <2>5. \A n \in 1 .. Len(s) : [object |-> s[n], left |-> o] \in looks
    BY <1>0, <2>3
  <2>6. t \in Seq(looks)
    BY <2>2, <2>4, <2>5, IsASeq
  <2>7. \A p \in ToSet(s) : \E x \in ToSet(t) : x.object = p
    BY <2>2, <2>4 DEF ToSet
  <2>8. found(r) = t
    BY <2>1, <2>2, <2>4
  <2> HIDE DEF found
  <2> QED
    BY <2>1, <2>6, <2>7, <2>8
<1> HIDE DEF found
<1>4. groups \in Seq(Seq(looks))
  <2>1. \A n \in 1 .. k :
          (IF relations[n] \in Followed(o) THEN found(relations[n]) ELSE <<>>) \in Seq(looks)
    BY <1>3, EmptySeq
  <2>2. [n \in 1 .. k |-> IF relations[n] \in Followed(o) THEN found(relations[n]) ELSE <<>>]
          \in Seq(Seq(looks))
    BY <1>2, <2>1, IsASeq
  <2> QED
    BY <1>2, <2>2
<1>5. \A n \in 1 .. k : n \in DOMAIN groups /\ (relations[n] \in Followed(o) => groups[n] = found(relations[n]))
  BY <1>2
<1> HIDE DEF groups
<1>6. NextObjects(o) \in Seq(looks)
  BY <1>1, <1>4, Flattened
<1>7. ASSUME NEW r \in Followed(o), NEW p \in ToSet(Linked(r, o[1], o))
      PROVE  \E x \in ToSet(NextObjects(o)) : x.object = p
  <2>1. PICK n \in 1 .. k : relations[n] = r
    BY <1>2 DEF Followed
  <2>2. PICK x \in ToSet(found(r)) : x.object = p
    BY <1>3
  <2>3. n \in DOMAIN groups /\ groups[n] = found(r)
    BY <1>5, <2>1
  <2>4. ToSet(groups[n]) \subseteq ToSet(FlattenSeq(groups))
    BY <1>4, <2>3, FlattenedHolds
  <2>5. x \in ToSet(NextObjects(o))
    BY <1>1, <2>2, <2>3, <2>4
  <2> QED
    BY <2>2, <2>5
<1> QED
  BY <1>0, <1>6, <1>7

LEMMA NextObjectsTypes ==
  ASSUME insert \in Inserts, NEW o \in Objects
  PROVE  NextObjects(o) \in Seq(Looks)
<1>1. NextObjects(o) \in Seq([object : Objects, left : {o}])
  BY LinkedTypes, NextObjectsAre
<1>2. [object : Objects, left : {o}] \subseteq Looks
  BY DEF Looks
<1> QED
  BY <1>1, <1>2, SeqMonotonic

-----------------------------------------------------------------------------
(* What the steps have in common.                                          *)

LEMMA Start == Init => ExecutionInv
<1> SUFFICES ASSUME Init
             PROVE  ExecutionInv
  OBVIOUS
<1>1. PlanInv /\ phase = "start" /\ insert \in Inserts /\ entities = <<>>
  BY InvInit DEF Init, PlanInit
<1>2. TypeOK
  <2>1. PlanTypeOK
    BY <1>1 DEF PlanInv, Typed
  <2>2. \A S : <<>> \in Seq(S)
    BY EmptySeq
  <2>3. current = 1 /\ Len(entities) = 0
    BY <1>1 DEF Init
  <2>4. /\ primaryKey \in [Objects -> Keys] /\ foreignKey \in [Objects -> [Relations -> Keys]]
    BY DEF Init, Keys
  <2>5. collections \in [Entities -> Seq(Objects)]
    BY <2>2 DEF Init
  <2> QED
    BY <1>1, <2>1, <2>2, <2>3, <2>4, <2>5 DEF Init, TypeOK, Phases, PlanPhases
<1>3. PlanKept
  BY <1>1 DEF PlanKept, SomethingPlanned, Executing, PlanInv
<1>4. NotYetInserted
  BY <1>1 DEF Init, NotYetInserted
<1>5. ASSUME NEW e \in Entities
      PROVE  Sorted(e)
  <2>1. collections[e] = <<>> /\ <<>> \in Seq(seen) /\ DOMAIN <<>> = {}
    BY EmptySeq DEF Init
  <2> QED
    BY <2>1 DEF Sorted, IsInjective
<1>6. OwnKeys
  BY DEF Init, OwnKeys, HasGeneratedKey
<1>7. rows = <<>> /\ DOMAIN rows = {}
  BY DEF Init
<1>8. RowsFollowPlan /\ InsertedOnce /\ StoredHaveKeys /\ NoneMissing /\ ResultsFit
  BY <1>1, <1>7 DEF RowsFollowPlan, InsertedOnce, StoredHaveKeys, NoneMissing, ResultsFit, Stored, ToSet
<1> QED
  BY <1>1, <1>2, <1>3, <1>4, <1>5, <1>6, <1>8 DEF ExecutionInv

(* The plan's invariant without its phase.                                 *)
LEMMA PlanStays ==
  ASSUME PlanKept, PlanTypeOK,
         UNCHANGED <<insert, visitedEntities, reachableRelations, reachableEntities, orderVars>>,
         pending' \in Seq(PendingSides), phase' \notin PlanPhases, Executing' => Executing
  PROVE  PlanKept' /\ PlanTypeOK'
<1>1. PlanTypeOK'
  <2>1. PendingSides' = PendingSides
    BY DEF PendingSides
  <2> QED
    BY <2>1 DEF PlanTypeOK, orderVars
<1>2. PrincipalsFirst'
  BY SameEntities DEF PlanKept, orderVars
<1>3. SomethingPlanned' /\ (Executing' => ~PlannedTwice')
  BY DEF PlanKept, SomethingPlanned, PlanPhases, PlannedTwice, orderVars
<1> QED
  BY <1>1, <1>2, <1>3 DEF PlanKept, Planning

LEMMA PlanUnchanged ==
  ASSUME PlanKept, PlanTypeOK, UNCHANGED plan, phase' \notin PlanPhases, Executing' => Executing
  PROVE  PlanKept' /\ PlanTypeOK'
BY PlanStays DEF plan, collectVars, PlanTypeOK

LEMMA SortedStays ==
  ASSUME UNCHANGED collections, seen \subseteq seen', NEW e, Sorted(e)
  PROVE  Sorted(e)'
<1>1. collections[e] \in Seq(seen')
  BY SeqMonotonic DEF Sorted
<1> QED
  BY <1>1 DEF Sorted

LEMMA BatchTypes ==
  ASSUME ExecutionInv, NEW e \in Entities
  PROVE  /\ Batch(e) \in Seq(Objects)
         /\ \A n \in DOMAIN Batch(e) : Batch(e)[n][1] = e
         /\ IsInjective(insert.roots) => IsInjective(Batch(e))
<1>1. insert \in Inserts /\ Sorted(e) /\ collections[e] \in Seq(Objects)
  BY DEF ExecutionInv, PlanKept, TypeOK
<1>2. CASE e = insert.root
  <2>1. insert.roots \in Seq({e} \X (1 .. MaxObjects))
    BY <1>1, <1>2, ObjectsAssumption
  <2>2. insert.roots \in Seq(Objects)
    <3>1. {e} \X (1 .. MaxObjects) \subseteq Objects
      BY DEF Objects
    <3> QED
      BY <2>1, <3>1, SeqMonotonic
  <2>3. \A n \in DOMAIN insert.roots : insert.roots[n][1] = e
    <3>1. \A n \in 1 .. Len(insert.roots) : insert.roots[n] \in {e} \X (1 .. MaxObjects)
      BY <2>1, ElementOfSeq
    <3> QED
      BY <2>1, <3>1, LenProperties
  <2> QED
    BY <1>2, <2>2, <2>3 DEF Batch
<1>3. CASE e # insert.root
  BY <1>1, <1>3 DEF Batch, Sorted
<1> QED
  BY <1>2, <1>3

(* The entity whose turn it is.                                            *)
LEMMA CurrentHolder ==
  ASSUME ExecutionInv, phase \in {"insert", "read"}, NEW h, h = entities[current]
  PROVE  /\ h \in Holders /\ h.entity \in Entities
         /\ current \in 1 .. Len(entities) /\ Len(entities) \in Nat
         /\ DOMAIN entities = 1 .. Len(entities)
<1>1. entities \in Seq(Holders)
  BY DEF ExecutionInv, TypeOK, PlanTypeOK
<1>2. Len(entities) \in Nat /\ DOMAIN entities = 1 .. Len(entities)
  BY <1>1, LenProperties
<1>3. current \in 1 .. Len(entities)
  BY <1>2 DEF ExecutionInv, RowsFollowPlan
<1>4. h \in Holders
  BY <1>1, <1>3, ElementOfSeq
<1> QED
  BY <1>2, <1>3, <1>4 DEF Holders

LEMMA SelfAssignedTypes ==
  ASSUME TypeOK, NEW h
  PROVE  SelfAssigned(h) \in [Objects -> [Relations -> Keys]]
<1>1. primaryKey \in [Objects -> Keys] /\ foreignKey \in [Objects -> [Relations -> Keys]]
  BY DEF TypeOK
<1>2. \A r, o : Linked(r, h.entity, o) # <<>> => Head(Linked(r, h.entity, o)) \in Objects
  <2> TAKE r, o
  <2>1. Linked(r, h.entity, o) \in Seq(Objects)
    BY LinkedTypes
  <2> QED
    BY <2>1, HeadTailProperties
<1> QED
  BY <1>1, <1>2 DEF SelfAssigned

LEMMA ForeignAssignedTypes ==
  ASSUME NEW h, NEW o, NEW key \in Keys, NEW keys \in [Objects -> [Relations -> Keys]]
  PROVE  ForeignAssigned(h, o, key, keys) \in [Objects -> [Relations -> Keys]]
BY DEF ForeignAssigned

-----------------------------------------------------------------------------
(* Planning, emitting the walk and sorting the objects keep the invariant. *)

LEMMA PlanningPhases == Plan => phase \in {"start", "collect", "order"} /\ phase' \in PlanPhases
BY DEF Plan, CompileFromRoot, CompileFromRelations, SkipSide, CollectReachable,
       CollectRelationPath, BaseCompile, Postpone, AddEntity, EndPass, PlanPhases

(* Entities are only ever added to the plan, and a plan is not finished    *)
(* before something is.                                                    *)
LEMMA PlansSomething == PlanInv /\ SomethingPlanned /\ Plan => SomethingPlanned'
<1> SUFFICES ASSUME PlanInv, SomethingPlanned, Plan
             PROVE  /\ phase' = "order" => reachableEntities' # <<>> \/ entities' # <<>>
                    /\ phase' = "ordered" => entities' # <<>>
  BY PlanningPhases DEF SomethingPlanned, Executing, PlanPhases
<1>1. CASE CompileFromRoot
  <2>1. \A h : <<h>> # <<>>
    OBVIOUS
  <2> QED
    BY <1>1, <2>1 DEF CompileFromRoot
<1>2. CASE CompileFromRelations \/ SkipSide \/ CollectReachable \/ CollectRelationPath
  BY <1>2 DEF CompileFromRelations, SkipSide, CollectReachable, CollectRelationPath
<1>3. CASE BaseCompile
  BY <1>3 DEF BaseCompile, PlanInv, NotYetPlanned
<1>4. CASE Postpone
  BY <1>4 DEF Postpone, SomethingPlanned
<1>5. CASE AddEntity
  <2>0. PICK added : added = NextHolder
    OBVIOUS
  <2>1. entities' = Append(entities, added) /\ phase' = "order"
    BY <1>5, <2>0 DEF AddEntity
  <2>2. entities \in Seq(Holders)
    BY DEF PlanInv, Typed, PlanTypeOK
  <2>3. Append(entities, added) # <<>>
    <3>1. Len(Append(entities, added)) = Len(entities) + 1 /\ Len(entities) \in Nat
      BY <2>2, LenProperties
    <3>2. Len(Append(entities, added)) # 0
      BY <3>1
    <3> QED
      BY <3>2, EmptySeq
  <2> QED
    BY <2>1, <2>3
<1>6. CASE EndPass
  BY <1>6 DEF EndPass, StartPass, SomethingPlanned
<1> QED
  BY <1>1, <1>2, <1>3, <1>4, <1>5, <1>6 DEF Plan

LEMMA KeepsPlan == ExecutionInv /\ Plan /\ UNCHANGED executionVars => ExecutionInv'
<1> SUFFICES ASSUME ExecutionInv, Plan, UNCHANGED executionVars
             PROVE  ExecutionInv'
  OBVIOUS
<1>1. phase \in {"start", "collect", "order"} /\ phase' \in PlanPhases /\ Planning
  BY PlanningPhases DEF Planning, PlanPhases
<1>2. PlanInv' /\ SomethingPlanned'
  BY <1>1, InvNext, PlansSomething DEF ExecutionInv, PlanKept
<1>3. insert' = insert
  BY DEF Plan, CompileFromRoot, CompileFromRelations, SkipSide, CollectReachable,
         CollectRelationPath, BaseCompile, Postpone, AddEntity, EndPass
<1>4. UNCHANGED <<walk, seen, collections, primaryKey, foreignKey, current, results,
                  iterator, counter, rows, emittedEntities, walks>>
  BY DEF executionVars, emitVars, splitVars, keyVars, readVars
<1>5. rows = <<>> /\ current = 1
  BY <1>1 DEF ExecutionInv, NotYetInserted
<1>6. PlanKept'
  BY <1>1, <1>2 DEF PlanKept, Planning, PlanPhases, PlanInv, Executing, Typed
<1>7. TypeOK'
  <2>1. PlanTypeOK' /\ phase' \in Phases
    BY <1>1, <1>2 DEF PlanInv, Typed, Phases
  <2>2. current' \in 1 .. Len(entities') + 1
    <3>1. Len(entities') \in Nat
      BY <2>1, LenProperties DEF PlanTypeOK
    <3> QED
      BY <1>4, <1>5, <3>1
  <2> QED
    BY <1>4, <2>1, <2>2 DEF ExecutionInv, TypeOK
<1>8. \A e \in Entities : Sorted(e)'
  BY <1>4 DEF ExecutionInv, Sorted
<1>9. NotYetInserted'
  BY <1>1, <1>4, <1>5 DEF ExecutionInv, NotYetInserted, Planning, PlanPhases
<1>10. OwnKeys'
  BY <1>1, <1>3, <1>4 DEF ExecutionInv, OwnKeys, Overrun, HasGeneratedKey
<1>11. rows' = <<>> /\ DOMAIN rows' = {} /\ phase' \notin {"split", "insert", "read", "noRow"}
  BY <1>1, <1>4, <1>5 DEF PlanPhases
<1>12. RowsFollowPlan' /\ StoredHaveKeys' /\ ResultsFit' /\ InsertedOnce' /\ NoneMissing'
  BY <1>11 DEF RowsFollowPlan, StoredHaveKeys, ResultsFit, InsertedOnce, NoneMissing, Stored, ToSet
<1> QED
  BY <1>6, <1>7, <1>8, <1>9, <1>10, <1>12 DEF ExecutionInv

(* A step before anything is stored.                                       *)
LEMMA NothingStored ==
  ASSUME ExecutionInv, phase \notin {"read", "noRow"}, rows = <<>>,
         UNCHANGED <<insert, keyVars, current, readVars, rows>>, phase' \notin {"read", "noRow"},
         phase' \in {"split", "insert"} => current' \in DOMAIN entities'
  PROVE  /\ OwnKeys' /\ RowsFollowPlan' /\ StoredHaveKeys' /\ ResultsFit' /\ InsertedOnce'
         /\ NoneMissing'
<1>1. rows' = <<>> /\ DOMAIN rows' = {}
  OBVIOUS
<1>2. OwnKeys'
  BY DEF ExecutionInv, OwnKeys, Overrun, HasGeneratedKey, keyVars
<1> QED
  BY <1>1, <1>2 DEF RowsFollowPlan, StoredHaveKeys, ResultsFit, InsertedOnce, NoneMissing, Stored, ToSet

LEMMA KeepsCreateInserter == ExecutionInv /\ CreateInserter => ExecutionInv'
<1> SUFFICES ASSUME ExecutionInv, CreateInserter
             PROVE  ExecutionInv'
  OBVIOUS
<1>1. /\ phase = "ordered" /\ Planning
      /\ UNCHANGED <<insert, visitedEntities, reachableRelations, reachableEntities,
                     orderVars, splitVars, keyVars, current, readVars, rows>>
      /\ phase' \in {"threw", "emit"} /\ (phase' = "emit" <=> ~PlannedTwice)
      /\ (phase' = "threw" => UNCHANGED <<pending, emitVars>>)
      /\ (phase' = "emit" => pending' = SidesOf(insert.root) /\ emittedEntities' = {insert.root}
                             /\ walks' = walks)
  BY DEF CreateInserter, Planning, PlanPhases
<1>2. insert \in Inserts /\ TypeOK /\ PlanTypeOK /\ insert.root \in Entities
  BY InsertsAssumption DEF ExecutionInv, PlanKept, TypeOK
<1>3. /\ UNCHANGED <<walk, seen, collections, primaryKey, foreignKey, results, iterator, counter>>
      /\ UNCHANGED <<entities, processedEntities, entityIndex, startReachableCount>>
  BY <1>1 DEF splitVars, keyVars, readVars, orderVars
<1>4. pending' \in Seq(PendingSides)
  BY <1>1, <1>2, SidesTypes DEF PlanTypeOK
<1>5. PlanTypeOK'
  <2>1. PendingSides' = PendingSides
    BY <1>1 DEF PendingSides
  <2> QED
    BY <1>1, <1>2, <1>3, <1>4, <2>1 DEF PlanTypeOK
<1>6. PlanKept'
  <2>1. PrincipalsFirst' /\ entities # <<>>
    BY <1>1, <1>3, SameEntities DEF ExecutionInv, PlanKept, SomethingPlanned
  <2>2. Executing' => ~PlannedTwice'
    BY <1>1, <1>3 DEF Executing, PlannedTwice
  <2> QED
    BY <1>1, <1>2, <1>3, <2>1, <2>2 DEF PlanKept, SomethingPlanned, Planning, PlanPhases
<1>7. TypeOK'
  <2>1. emittedEntities' \subseteq Entities /\ walks' \subseteq Relations \X Entities
    BY <1>1, <1>2 DEF TypeOK, emitVars
  <2> QED
    BY <1>1, <1>2, <1>3, <1>5, <2>1 DEF TypeOK, Phases
<1>8. rows = <<>> /\ NotYetInserted'
  BY <1>1, <1>3 DEF ExecutionInv, NotYetInserted, Planning, PlanPhases
<1>9. \A e \in Entities : Sorted(e)'
  BY <1>3 DEF ExecutionInv, Sorted
<1>10. OwnKeys' /\ RowsFollowPlan' /\ StoredHaveKeys' /\ ResultsFit' /\ InsertedOnce' /\ NoneMissing'
  BY <1>1, <1>8, NothingStored
<1> QED
  BY <1>6, <1>7, <1>8, <1>9, <1>10 DEF ExecutionInv

LEMMA KeepsEmitWalk == ExecutionInv /\ EmitWalk => ExecutionInv'
<1> SUFFICES ASSUME ExecutionInv, EmitWalk
             PROVE  ExecutionInv'
  OBVIOUS
<1>0. PICK side : side = NextSide
  OBVIOUS
<1>1. /\ phase = "emit" /\ pending # <<>>
      /\ UNCHANGED <<insert, phase, visitedEntities, reachableRelations, reachableEntities,
                     orderVars, splitVars, keyVars, current, readVars, rows>>
      /\ \/ /\ walks' = walks \cup {<<side.relation, side.left>>}
            /\ emittedEntities' = emittedEntities \cup {Leads(side)}
            /\ pending' = Front(pending) \o SidesOf(Leads(side))
         \/ pending' = Front(pending) /\ UNCHANGED emitVars
  BY <1>0 DEF EmitWalk
<1>2. insert \in Inserts /\ TypeOK /\ PlanTypeOK
  BY DEF ExecutionInv, PlanKept, TypeOK
<1>3. /\ UNCHANGED <<walk, seen, collections, primaryKey, foreignKey, results, iterator, counter>>
      /\ UNCHANGED entities
  BY <1>1 DEF splitVars, keyVars, readVars, orderVars
<1>4. side \in PendingSides /\ Leads(side) \in Entities /\ Front(pending) \in Seq(PendingSides)
  <2>1. pending \in Seq(PendingSides) /\ Len(pending) \in Nat /\ Len(pending) # 0
    BY <1>1, <1>2, LenProperties, EmptySeq DEF PlanTypeOK
  <2>2. side \in PendingSides
    BY <1>0, <2>1, ElementOfSeq DEF NextSide, Last
  <2>3. Leads(side) \in Entities
    BY <1>2, <2>2, RelationTypes DEF Leads, PendingSides
  <2>4. Front(pending) \in Seq(PendingSides)
    BY <2>1, SubSeqProperties DEF Front
  <2> QED
    BY <2>2, <2>3, <2>4
<1>5. pending' \in Seq(PendingSides)
  <2>1. PICK sides : sides = SidesOf(Leads(side))
    OBVIOUS
  <2>2. sides \in Seq(PendingSides)
    BY <1>2, <1>4, <2>1, SidesTypes
  <2>3. Front(pending) \o sides \in Seq(PendingSides)
    BY <1>4, <2>2, ConcatProperties
  <2> QED
    BY <1>1, <1>4, <2>1, <2>3
<1>6. PlanKept' /\ PlanTypeOK'
  BY <1>1, <1>2, <1>5, PlanStays DEF ExecutionInv, Executing, PlanPhases
<1>7. TypeOK'
  <2>1. emittedEntities' \subseteq Entities /\ walks' \subseteq Relations \X Entities
    BY <1>1, <1>2, <1>4 DEF TypeOK, emitVars, PendingSides
  <2> QED
    BY <1>1, <1>2, <1>3, <1>6, <2>1 DEF TypeOK
<1>8. rows = <<>> /\ NotYetInserted'
  BY <1>1, <1>3 DEF ExecutionInv, NotYetInserted, Planning
<1>9. \A e \in Entities : Sorted(e)'
  BY <1>3 DEF ExecutionInv, Sorted
<1>10. OwnKeys' /\ RowsFollowPlan' /\ StoredHaveKeys' /\ ResultsFit' /\ InsertedOnce' /\ NoneMissing'
  BY <1>1, <1>8, NothingStored
<1> QED
  BY <1>6, <1>7, <1>8, <1>9, <1>10 DEF ExecutionInv

LEMMA KeepsStartInsert == ExecutionInv /\ StartInsert => ExecutionInv'
<1> SUFFICES ASSUME ExecutionInv, StartInsert
             PROVE  ExecutionInv'
  OBVIOUS
<1> DEFINE given == [n \in DOMAIN insert.roots |-> [object |-> insert.roots[n], left |-> insert.roots[n]]]
<1>1. /\ phase = "emit" /\ walk' = given
      /\ phase' = IF insert.roots = <<>> THEN "done" ELSE "split"
      /\ UNCHANGED <<plan, emitVars, seen, collections, keyVars, current, readVars, rows>>
  BY DEF StartInsert
<1>2. insert \in Inserts /\ TypeOK /\ PlanTypeOK /\ entities # <<>>
  BY <1>1 DEF ExecutionInv, PlanKept, TypeOK, SomethingPlanned, Executing
<1>3. UNCHANGED <<insert, entities, emittedEntities, walks, seen, collections, primaryKey,
                  foreignKey, results, iterator, counter, current, rows>>
  BY <1>1 DEF emitVars, keyVars, readVars, plan, orderVars
<1>4. insert.roots \in Seq(Objects)
  <2>1. insert.roots \in Seq({insert.root} \X (1 .. MaxObjects)) /\ insert.root \in Entities
    BY <1>2, ObjectsAssumption, InsertsAssumption
  <2>2. {insert.root} \X (1 .. MaxObjects) \subseteq Objects
    BY <2>1 DEF Objects
  <2> QED
    BY <2>1, <2>2, SeqMonotonic
<1>5. given \in Seq(Looks) /\ (insert.roots # <<>> => given # <<>>)
  <2>1. Len(insert.roots) \in Nat /\ DOMAIN insert.roots = 1 .. Len(insert.roots)
    BY <1>4, LenProperties
  <2>2. \A n \in 1 .. Len(insert.roots) :
          [object |-> insert.roots[n], left |-> insert.roots[n]] \in Looks
    BY <1>4 DEF Looks
  <2>3. given \in Seq(Looks)
    BY <2>1, <2>2, IsASeq
  <2>4. insert.roots # <<>> => Len(insert.roots) # 0
    BY <1>4, EmptySeq
  <2>5. Len(given) = Len(insert.roots)
    BY <2>1
  <2> HIDE DEF given
  <2> QED
    BY <2>3, <2>4, <2>5, EmptySeq
<1> HIDE DEF given
<1>6. PlanKept' /\ PlanTypeOK'
  BY <1>1, <1>2, PlanUnchanged DEF ExecutionInv, Executing, PlanPhases
<1>7. TypeOK'
  BY <1>1, <1>2, <1>3, <1>5, <1>6 DEF TypeOK, Phases, Looks
<1>8. rows = <<>> /\ current = 1 /\ NotYetInserted'
  BY <1>1, <1>3, <1>5 DEF ExecutionInv, NotYetInserted, Planning, PlanPhases
<1>9. \A e \in Entities : Sorted(e)'
  BY <1>3 DEF ExecutionInv, Sorted
<1>10. current' \in DOMAIN entities'
  <2>1. Len(entities) \in Nat \ {0} /\ DOMAIN entities = 1 .. Len(entities)
    BY <1>2, EmptySeq, LenProperties DEF PlanTypeOK
  <2> QED
    BY <1>3, <1>8, <2>1
<1>11. OwnKeys' /\ RowsFollowPlan' /\ StoredHaveKeys' /\ ResultsFit' /\ InsertedOnce' /\ NoneMissing'
  BY <1>1, <1>3, <1>8, <1>10, NothingStored
<1> QED
  BY <1>6, <1>7, <1>8, <1>9, <1>11 DEF ExecutionInv

(* The object that the walk looks at.                                      *)
LEMMA NextLook ==
  ASSUME ExecutionInv, phase = "split"
  PROVE  /\ Head(walk).object \in Objects /\ Head(walk).left \in Objects
         /\ Tail(walk) \in Seq(Looks)
<1>1. walk \in Seq(Looks) /\ walk # <<>>
  BY DEF ExecutionInv, TypeOK, NotYetInserted, Looks
<1>2. Head(walk) \in Looks /\ Tail(walk) \in Seq(Looks)
  BY <1>1, HeadTailProperties
<1> QED
  BY <1>2 DEF Looks

(* A step of the walk that goes on with the given objects.                 *)
LEMMA WalkGoesOn ==
  ASSUME ExecutionInv, phase = "split", NEW objects \in Seq(Looks), AfterWalk(objects),
         UNCHANGED <<plan, emitVars, primaryKey, current, readVars, rows>>,
         seen' \subseteq Objects, seen \subseteq seen',
         collections' \in [Entities -> Seq(Objects)], \A e \in Entities : Sorted(e)',
         foreignKey' \in [Objects -> [Relations -> Keys]]
  PROVE  ExecutionInv'
<1>1. /\ walk' = objects /\ phase' = IF objects = <<>> THEN "insert" ELSE "split"
      /\ UNCHANGED <<insert, entities, emittedEntities, walks, primaryKey, results, iterator,
                     counter, current, rows>>
  BY DEF AfterWalk, emitVars, readVars, plan, orderVars
<1>2. TypeOK /\ PlanTypeOK
  BY DEF ExecutionInv, TypeOK
<1>3. PlanKept' /\ PlanTypeOK'
  BY <1>1, <1>2, PlanUnchanged DEF ExecutionInv, Executing, PlanPhases
<1>4. TypeOK'
  BY <1>1, <1>2, <1>3 DEF TypeOK, Phases, Looks
<1>5. rows = <<>> /\ NotYetInserted'
  BY <1>1 DEF ExecutionInv, NotYetInserted, Planning, PlanPhases
<1>6. current' \in DOMAIN entities'
  BY <1>1 DEF ExecutionInv, RowsFollowPlan
<1>7. rows' = <<>> /\ DOMAIN rows' = {}
  BY <1>1, <1>5
<1>8. RowsFollowPlan' /\ StoredHaveKeys' /\ ResultsFit' /\ InsertedOnce' /\ NoneMissing'
  BY <1>1, <1>6, <1>7 DEF RowsFollowPlan, StoredHaveKeys, ResultsFit, InsertedOnce, NoneMissing, Stored, ToSet
<1>9. OwnKeys'
  BY <1>1 DEF ExecutionInv, OwnKeys, Overrun, HasGeneratedKey
<1> QED
  BY <1>3, <1>4, <1>5, <1>8, <1>9 DEF ExecutionInv

LEMMA KeepsSkipSeenObject == ExecutionInv /\ SkipSeenObject => ExecutionInv'
<1> SUFFICES ASSUME ExecutionInv, SkipSeenObject
             PROVE  ExecutionInv'
  OBVIOUS
<1>1. /\ phase = "split" /\ AfterWalk(Tail(walk))
      /\ UNCHANGED <<plan, emitVars, seen, collections, keyVars, current, readVars, rows>>
  BY DEF SkipSeenObject
<1>2. Tail(walk) \in Seq(Looks)
  BY <1>1, NextLook
<1>3. \A e \in Entities : Sorted(e)'
  BY <1>1 DEF ExecutionInv, Sorted
<1>4. /\ seen' \subseteq Objects /\ collections' \in [Entities -> Seq(Objects)]
      /\ foreignKey' \in [Objects -> [Relations -> Keys]]
  BY <1>1 DEF ExecutionInv, TypeOK, keyVars
<1> QED
  BY <1>1, <1>2, <1>3, <1>4, WalkGoesOn DEF keyVars

LEMMA DirectlyAssignedTypes ==
  ASSUME TypeOK, NEW o \in Objects, NEW left \in Objects, NEW r
  PROVE  DirectlyAssigned(o, left, r) \in [Objects -> [Relations -> Keys]]
<1>1. primaryKey[left] \in Keys /\ primaryKey[o] \in Keys
  BY DEF TypeOK
<1>2. foreignKey \in [Objects -> [Relations -> Keys]]
  BY DEF TypeOK
<1>3. \A x \in Objects, key \in Keys :
        [foreignKey EXCEPT ![x][r] = key] \in [Objects -> [Relations -> Keys]]
  BY <1>2
<1> QED
  BY <1>1, <1>2, <1>3 DEF DirectlyAssigned

(* An object seen for the first time is put into its collection.           *)
LEMMA SortedOnce ==
  ASSUME ExecutionInv, NEW o \in Objects, o \notin seen, seen' = seen \cup {o},
         collections' = [collections EXCEPT ![o[1]] = Append(@, o)],
         NEW e \in Entities
  PROVE  Sorted(e)'
<1>1. Sorted(e) /\ collections \in [Entities -> Seq(Objects)]
  BY DEF ExecutionInv, TypeOK
<1>2. CASE e # o[1]
  <2>1. collections'[e] = collections[e] /\ collections[e] \in Seq(seen')
    <3>1. collections[e] \in Seq(seen')
      BY <1>1, SeqMonotonic DEF Sorted
    <3> QED
      BY <1>1, <1>2, <3>1
  <2> QED
    BY <1>1, <2>1 DEF Sorted
<1>3. CASE e = o[1]
  <2>1. PICK s : s = collections[e]
    OBVIOUS
  <2>2. /\ s \in Seq(seen) /\ (\A n \in DOMAIN s : s[n][1] = e) /\ IsInjective(s)
        /\ collections'[e] = Append(s, o)
    BY <1>1, <1>3, <2>1 DEF Sorted
  <2>3. s \in Seq(seen') /\ o \in seen'
    BY <2>2, SeqMonotonic
  <2>4. /\ Len(s) \in Nat /\ DOMAIN s = 1 .. Len(s)
        /\ Append(s, o) \in Seq(seen') /\ Len(Append(s, o)) = Len(s) + 1
        /\ \A n \in 1 .. Len(s) : Append(s, o)[n] = s[n]
        /\ Append(s, o)[Len(s) + 1] = o
    BY <2>3, LenProperties, AppendProperties
  <2>5. PICK t : t = Append(s, o)
    OBVIOUS
  <2>6. /\ t \in Seq(seen') /\ DOMAIN t = 1 .. Len(s) + 1 /\ t[Len(s) + 1] = o
        /\ \A n \in 1 .. Len(s) : t[n] = s[n]
    BY <2>4, <2>5, LenProperties
  <2>7. \A n \in 1 .. Len(s) : s[n] \in seen
    BY <2>2, ElementOfSeq
  <2>8. \A n \in DOMAIN t : t[n][1] = e
    <3> SUFFICES ASSUME NEW n \in 1 .. Len(s) + 1
                 PROVE  t[n][1] = e
      BY <2>6
    <3>1. n = Len(s) + 1 \/ n \in 1 .. Len(s)
      BY <2>4
    <3> QED
      BY <1>3, <2>2, <2>4, <2>6, <3>1
  <2>9. IsInjective(t)
    <3> SUFFICES ASSUME NEW m \in 1 .. Len(s) + 1, NEW n \in 1 .. Len(s) + 1, t[m] = t[n]
                 PROVE  m = n
      BY <2>6 DEF IsInjective
    <3>1. (m = Len(s) + 1 \/ m \in 1 .. Len(s)) /\ (n = Len(s) + 1 \/ n \in 1 .. Len(s))
      BY <2>4
    <3>2. CASE m \in 1 .. Len(s) /\ n \in 1 .. Len(s)
      <4>1. s[m] = s[n] /\ m \in DOMAIN s /\ n \in DOMAIN s
        BY <2>4, <2>6, <3>2
      <4> QED
        BY <2>2, <4>1 DEF IsInjective
    <3>3. ASSUME NEW k \in 1 .. Len(s)
          PROVE  t[k] # o
      BY <2>6, <2>7
    <3> QED
      BY <2>6, <3>1, <3>2, <3>3
  <2> QED
    BY <2>2, <2>5, <2>6, <2>8, <2>9 DEF Sorted
<1> QED
  BY <1>2, <1>3

LEMMA KeepsSplitObject == ExecutionInv /\ SplitObject => ExecutionInv'
<1> SUFFICES ASSUME ExecutionInv, SplitObject
             PROVE  ExecutionInv'
  OBVIOUS
<1>0. PICK o, left : o = Head(walk).object /\ left = Head(walk).left
  OBVIOUS
<1>1. /\ phase = "split" /\ o \notin seen /\ seen' = seen \cup {o}
      /\ foreignKey' = IF DirectOf(o) = {} THEN foreignKey
                         ELSE DirectlyAssigned(o, left, CHOOSE r \in DirectOf(o) : TRUE)
      /\ collections' = IF o[1] = insert.root THEN collections
                          ELSE [collections EXCEPT ![o[1]] = Append(@, o)]
      /\ AfterWalk(NextObjects(o) \o Tail(walk))
      /\ UNCHANGED <<plan, emitVars, primaryKey, current, readVars, rows>>
  BY <1>0 DEF SplitObject, FirstTime
<1>2. o \in Objects /\ left \in Objects /\ Tail(walk) \in Seq(Looks)
  BY <1>0, <1>1, NextLook
<1>3. TypeOK /\ insert \in Inserts
  BY DEF ExecutionInv, PlanKept
<1>4. NextObjects(o) \o Tail(walk) \in Seq(Looks)
  BY <1>2, <1>3, NextObjectsTypes, ConcatProperties
<1>5. foreignKey' \in [Objects -> [Relations -> Keys]]
  <2>1. PICK r : r = CHOOSE q \in DirectOf(o) : TRUE
    OBVIOUS
  <2>2. DirectlyAssigned(o, left, r) \in [Objects -> [Relations -> Keys]]
    BY <1>2, <1>3, DirectlyAssignedTypes
  <2> QED
    BY <1>1, <1>3, <2>1, <2>2 DEF TypeOK
<1>6. collections' \in [Entities -> Seq(Objects)]
  <2>1. collections \in [Entities -> Seq(Objects)] /\ o[1] \in Entities
    BY <1>2, <1>3 DEF TypeOK, Objects
  <2>2. Append(collections[o[1]], o) \in Seq(Objects)
    BY <1>2, <2>1, AppendProperties
  <2> QED
    BY <1>1, <2>1, <2>2
<1>7. \A e \in Entities : Sorted(e)'
  <2>1. CASE o[1] = insert.root
    BY <1>1, <2>1, SortedStays DEF ExecutionInv
  <2>2. CASE o[1] # insert.root
    BY <1>1, <1>2, <2>2, SortedOnce
  <2> QED
    BY <2>1, <2>2
<1>8. seen' \subseteq Objects /\ seen \subseteq seen'
  BY <1>1, <1>2, <1>3 DEF TypeOK
<1> QED
  BY <1>1, <1>4, <1>5, <1>6, <1>7, <1>8, WalkGoesOn

LEMMA KeepsCallWrongSetter == ExecutionInv /\ CallWrongSetter => ExecutionInv'
<1> SUFFICES ASSUME ExecutionInv, CallWrongSetter
             PROVE  ExecutionInv'
  OBVIOUS
<1>1. phase = "split" /\ phase' = "undefined" /\ UNCHANGED <<plan, executionVars>>
  BY DEF CallWrongSetter
<1>2. /\ UNCHANGED <<insert, entities, emittedEntities, walks, walk, seen, collections, primaryKey,
                     foreignKey, current, results, iterator, counter, rows>>
      /\ UNCHANGED <<keyVars, readVars>>
  BY <1>1 DEF executionVars, emitVars, splitVars, keyVars, readVars, plan, orderVars
<1>3. TypeOK /\ PlanTypeOK
  BY DEF ExecutionInv, TypeOK
<1>4. PlanKept' /\ PlanTypeOK'
  BY <1>1, <1>3, PlanUnchanged DEF ExecutionInv, Executing, PlanPhases
<1>5. TypeOK'
  BY <1>1, <1>2, <1>3, <1>4 DEF TypeOK, Phases
<1>6. rows = <<>> /\ NotYetInserted'
  BY <1>1, <1>2 DEF ExecutionInv, NotYetInserted, Planning, PlanPhases
<1>7. \A e \in Entities : Sorted(e)'
  BY <1>2 DEF ExecutionInv, Sorted
<1>8. OwnKeys' /\ RowsFollowPlan' /\ StoredHaveKeys' /\ ResultsFit' /\ InsertedOnce' /\ NoneMissing'
  BY <1>1, <1>2, <1>6, NothingStored
<1> QED
  BY <1>4, <1>5, <1>6, <1>7, <1>8 DEF ExecutionInv

-----------------------------------------------------------------------------
(* Inserting keeps the invariant.                                          *)

RowTypes == [object : Objects, foreignKeys : [Relations -> Keys]]

LEMMA StoredTypes ==
  ASSUME TypeOK
  PROVE  Stored \subseteq Objects
<1>1. rows \in Seq(RowTypes)
  BY DEF TypeOK, RowTypes
<1>2. \A i \in DOMAIN rows : rows[i] \in RowTypes
  BY <1>1, LenProperties, ElementOfSeq
<1> QED
  BY <1>2 DEF Stored, ToSet, RowTypes

(* What a step of the insertion has to show, as plan and walk are done.    *)
LEMMA ExecutionGoesOn ==
  ASSUME ExecutionInv, phase \in {"insert", "read"},
         phase' \in {"insert", "read", "done", "threw", "noRow"}, NoneMissing',
         UNCHANGED <<plan, emitVars, splitVars>>,
         primaryKey' \in [Objects -> Keys], foreignKey' \in [Objects -> [Relations -> Keys]],
         results' \in Seq(Seq(Objects)), iterator' \in Nat, counter' \in Nat,
         current' \in 1 .. Len(entities) + 1, rows' \in Seq(RowTypes),
         OwnKeys', RowsFollowPlan', StoredHaveKeys', ResultsFit', InsertedOnce'
  PROVE  ExecutionInv'
<1>1. UNCHANGED <<insert, entities, emittedEntities, walks, walk, seen, collections>>
  BY DEF emitVars, splitVars, plan, orderVars
<1>2. TypeOK /\ PlanTypeOK
  BY DEF ExecutionInv, TypeOK
<1>3. PlanKept' /\ PlanTypeOK'
  BY <1>2, PlanUnchanged DEF ExecutionInv, Executing, PlanPhases
<1>4. TypeOK'
  BY <1>1, <1>2, <1>3 DEF TypeOK, Phases, RowTypes
<1>5. NotYetInserted'
  BY DEF NotYetInserted, Planning, PlanPhases
<1>6. \A e \in Entities : Sorted(e)'
  BY <1>1 DEF ExecutionInv, Sorted
<1> QED
  BY <1>3, <1>4, <1>5, <1>6 DEF ExecutionInv

LEMMA AfterEntity ==
  ASSUME ExecutionInv, phase \in {"insert", "read"}, NextEntity, UNCHANGED plan,
         \A i \in DOMAIN rows' : \E j \in 1 .. current : entities[j].entity = rows'[i].object[1],
         \A o \in Stored' : primaryKey'[o] = o
  PROVE  /\ RowsFollowPlan' /\ StoredHaveKeys' /\ ResultsFit' /\ NoneMissing'
         /\ current' \in 1 .. Len(entities) + 1 /\ phase' \in {"insert", "done"}
<1>1. /\ current' = current + 1 /\ phase' = IF current = Len(entities) THEN "done" ELSE "insert"
      /\ entities' = entities
  BY DEF NextEntity, plan, orderVars
<1>2. current \in 1 .. Len(entities) /\ Len(entities) \in Nat /\ DOMAIN entities = 1 .. Len(entities)
  BY CurrentHolder
<1>3. Begun' = current
  <2>1. current \in Int /\ current + 1 - 1 = current
    BY <1>2
  <2>2. phase' \notin {"read", "noRow"} /\ current' = current + 1
    BY <1>1
  <2> QED
    BY <2>1, <2>2 DEF Begun
<1>4. RowsFollowPlan'
  <2>1. phase' \in {"split", "insert", "read"} => current' \in DOMAIN entities'
    <3>1. CASE current = Len(entities)
      BY <1>1, <3>1
    <3>2. CASE current # Len(entities)
      <4>1. PICK n \in Nat : n = Len(entities)
        BY <1>2
      <4>2. current \in 1 .. n /\ current # n
        BY <1>2, <3>2, <4>1
      <4>3. current + 1 \in 1 .. n
        BY <4>1, <4>2
      <4> QED
        BY <1>1, <1>2, <4>1, <4>3
    <3> QED
      BY <3>1, <3>2
  <2>2. \A i \in DOMAIN rows' : \E j \in 1 .. Begun' : entities'[j].entity = rows'[i].object[1]
    BY <1>1, <1>3
  <2> QED
    BY <2>1, <2>2 DEF RowsFollowPlan
<1>5. StoredHaveKeys' /\ ResultsFit' /\ NoneMissing'
  BY <1>1 DEF StoredHaveKeys, ResultsFit, NoneMissing
<1>6. current' \in 1 .. Len(entities) + 1
  <2>1. current + 1 \in 1 .. Len(entities) + 1
    BY <1>2
  <2> QED
    BY <1>1, <2>1
<1>7. phase' \in {"insert", "done"}
  BY <1>1
<1> QED
  BY <1>4, <1>5, <1>6, <1>7

(* The rows of an entity are new ones.                                     *)
LEMMA Storing ==
  ASSUME ExecutionInv, phase = "insert", NEW h, h = entities[current], Store(h), UNCHANGED plan
  PROVE  /\ rows' \in Seq(RowTypes)
         /\ \A i \in DOMAIN rows' : \E j \in 1 .. current : entities[j].entity = rows'[i].object[1]
         /\ \A o \in Stored' : o \in Stored \/ \E n \in DOMAIN Batch(h.entity) : Batch(h.entity)[n] = o
         /\ InsertedOnce'
<1>0. PICK s, new : /\ s = Batch(h.entity)
                    /\ new = [n \in DOMAIN s |-> [object |-> s[n], foreignKeys |-> SelfAssigned(h)[s[n]]]]
  OBVIOUS
<1>1. /\ h.entity \in Entities /\ current \in 1 .. Len(entities) /\ Len(entities) \in Nat
      /\ DOMAIN entities = 1 .. Len(entities)
  BY CurrentHolder
<1>2. /\ s \in Seq(Objects) /\ (\A n \in DOMAIN s : s[n][1] = h.entity)
      /\ (IsInjective(insert.roots) => IsInjective(s))
  BY <1>0, <1>1, BatchTypes
<1>3. rows' = rows \o new
  BY <1>0 DEF Store
<1>4. Len(s) \in Nat /\ DOMAIN s = 1 .. Len(s) /\ \A n \in 1 .. Len(s) : s[n] \in Objects
  BY <1>2, LenProperties, ElementOfSeq
<1>5. new \in Seq(RowTypes) /\ Len(new) = Len(s) /\ \A n \in 1 .. Len(s) : new[n].object = s[n]
  <2>1. SelfAssigned(h) \in [Objects -> [Relations -> Keys]]
    BY SelfAssignedTypes DEF ExecutionInv
  <2>2. \A n \in 1 .. Len(s) : [object |-> s[n], foreignKeys |-> SelfAssigned(h)[s[n]]] \in RowTypes
    BY <1>4, <2>1 DEF RowTypes
  <2>3. [n \in 1 .. Len(s) |-> [object |-> s[n], foreignKeys |-> SelfAssigned(h)[s[n]]]] \in Seq(RowTypes)
    BY <1>4, <2>2, IsASeq
  <2> QED
    BY <1>0, <1>4, <2>3
<1>6. rows \in Seq(RowTypes) /\ Len(rows) \in Nat /\ DOMAIN rows = 1 .. Len(rows)
  <2>1. rows \in Seq(RowTypes)
    BY DEF ExecutionInv, TypeOK, RowTypes
  <2> QED
    BY <2>1, LenProperties
<1>7. /\ rows' \in Seq(RowTypes) /\ DOMAIN rows' = 1 .. Len(rows) + Len(s)
      /\ \A i \in 1 .. Len(rows) : rows'[i] = rows[i]
      /\ \A i \in Len(rows) + 1 .. Len(rows) + Len(s) :
           i - Len(rows) \in 1 .. Len(s) /\ rows'[i].object = s[i - Len(rows)]
  <2>1. PICK all : all = rows \o new
    OBVIOUS
  <2>2. /\ all \in Seq(RowTypes) /\ Len(all) = Len(rows) + Len(s)
        /\ \A i \in 1 .. Len(rows) + Len(s) :
             all[i] = IF i <= Len(rows) THEN rows[i] ELSE new[i - Len(rows)]
    <3>1. /\ all \in Seq(RowTypes) /\ Len(all) = Len(rows) + Len(new)
          /\ \A i \in 1 .. Len(rows) + Len(new) :
               all[i] = IF i <= Len(rows) THEN rows[i] ELSE new[i - Len(rows)]
      <4>1. rows \in Seq(RowTypes) /\ new \in Seq(RowTypes)
        BY <1>5, <1>6
      <4> QED
        BY <2>1, <4>1, ConcatProperties
    <3> QED
      BY <1>5, <3>1
  <2>3. DOMAIN all = 1 .. Len(rows) + Len(s)
    BY <2>2, LenProperties
  <2>4. ASSUME NEW i \in 1 .. Len(rows)
        PROVE  all[i] = rows[i]
    BY <1>4, <1>6, <2>2
  <2>5. ASSUME NEW i \in Len(rows) + 1 .. Len(rows) + Len(s)
        PROVE  i - Len(rows) \in 1 .. Len(s) /\ all[i].object = s[i - Len(rows)]
    <3>1. i - Len(rows) \in 1 .. Len(s) /\ i \in 1 .. Len(rows) + Len(s) /\ ~(i <= Len(rows))
      BY <1>4, <1>6
    <3> QED
      BY <1>5, <2>2, <3>1
  <2> QED
    BY <1>3, <2>1, <2>2, <2>3, <2>4, <2>5
<1>8. \A i \in 1 .. Len(rows) + Len(s) :
        i \in 1 .. Len(rows) \/ i \in Len(rows) + 1 .. Len(rows) + Len(s)
  BY <1>4, <1>6
<1>9. \A i \in 1 .. Len(rows) : \E j \in 1 .. current - 1 : entities[j].entity = rows[i].object[1]
  BY <1>6 DEF ExecutionInv, RowsFollowPlan, Begun
<1>10. \A i \in Len(rows) + 1 .. Len(rows) + Len(s) : rows'[i].object[1] = h.entity
  <2> TAKE i \in Len(rows) + 1 .. Len(rows) + Len(s)
  <2>1. PICK k \in 1 .. Len(s) : rows'[i].object = s[k]
    BY <1>7
  <2>2. s[k][1] = h.entity
    BY <1>2, <1>4
  <2> QED
    BY <2>1, <2>2
<1>11. ASSUME NEW i \in DOMAIN rows'
       PROVE  \E j \in 1 .. current : entities[j].entity = rows'[i].object[1]
  <2>1. CASE i \in 1 .. Len(rows)
    BY <1>1, <1>7, <1>9, <2>1
  <2>2. CASE i \in Len(rows) + 1 .. Len(rows) + Len(s)
    BY <1>1, <1>10, <2>2
  <2> QED
    BY <1>7, <1>8, <2>1, <2>2
<1>12. ASSUME NEW o \in Stored'
       PROVE  o \in Stored \/ \E n \in DOMAIN s : s[n] = o
  <2>1. PICK i \in DOMAIN rows' : rows'[i].object = o
    BY DEF Stored, ToSet
  <2>2. CASE i \in 1 .. Len(rows)
    BY <1>6, <1>7, <2>1, <2>2 DEF Stored, ToSet
  <2>3. CASE i \in Len(rows) + 1 .. Len(rows) + Len(s)
    BY <1>4, <1>7, <2>1, <2>3
  <2> QED
    BY <1>7, <1>8, <2>1, <2>2, <2>3
<1>13. ASSUME NEW i \in 1 .. Len(rows), NEW k \in Len(rows) + 1 .. Len(rows) + Len(s)
       PROVE  rows'[i].object # rows'[k].object
  <2>1. PICK j \in 1 .. current - 1 : entities[j].entity = rows[i].object[1]
    BY <1>9
  <2>2. ~PlannedTwice
    BY DEF ExecutionInv, PlanKept, Executing
  <2>3. j \in DOMAIN entities /\ current \in DOMAIN entities /\ j # current
    BY <1>1
  <2>4. entities[j].entity # h.entity
    BY <2>2, <2>3 DEF PlannedTwice
  <2> QED
    BY <1>7, <1>10, <2>1, <2>4
<1>14. InsertedOnce'
  <2>1. SUFFICES ASSUME IsInjective(insert.roots), NEW i \in DOMAIN rows', NEW k \in DOMAIN rows',
                        rows'[i].object = rows'[k].object
                 PROVE  i = k
    BY DEF InsertedOnce, plan
  <2>2. CASE i \in 1 .. Len(rows) /\ k \in 1 .. Len(rows)
    BY <1>6, <1>7, <2>1, <2>2 DEF ExecutionInv, InsertedOnce
  <2>3. CASE i \in Len(rows) + 1 .. Len(rows) + Len(s) /\ k \in Len(rows) + 1 .. Len(rows) + Len(s)
    <3>1. s[i - Len(rows)] = s[k - Len(rows)]
      BY <1>7, <2>1, <2>3
    <3>2. i - Len(rows) = k - Len(rows)
      BY <1>2, <1>4, <1>7, <2>1, <2>3, <3>1 DEF IsInjective
    <3> QED
      BY <1>4, <1>6, <2>3, <3>2
  <2> QED
    BY <1>7, <1>8, <1>13, <2>1, <2>2, <2>3
<1> QED
  BY <1>0, <1>7, <1>11, <1>12, <1>14

(* The rows stay, and they were those up to the current entity.            *)
LEMMA RowsStay ==
  ASSUME ExecutionInv, phase \in {"insert", "read"}, UNCHANGED <<rows, plan>>
  PROVE  /\ rows' \in Seq(RowTypes)
         /\ \A i \in DOMAIN rows' : \E j \in 1 .. current : entities[j].entity = rows'[i].object[1]
         /\ Stored' = Stored /\ InsertedOnce'
<1>1. rows \in Seq(RowTypes)
  BY DEF ExecutionInv, TypeOK, RowTypes
<1>2. Begun <= current /\ Begun \in Int /\ current \in Nat
  <2>1. current \in 1 .. Len(entities)
    BY CurrentHolder
  <2>2. current \in Nat
    BY <2>1, CurrentHolder
  <2> QED
    BY <2>2 DEF Begun
<1>3. \A i \in DOMAIN rows : \E j \in 1 .. current : entities[j].entity = rows[i].object[1]
  BY <1>2 DEF ExecutionInv, RowsFollowPlan
<1>4. InsertedOnce'
  BY DEF ExecutionInv, InsertedOnce, plan
<1> QED
  BY <1>1, <1>3, <1>4 DEF Stored

LEMMA KeepsSkipEmpty ==
  ASSUME ExecutionInv, NEW h, SkipEmpty(h)
  PROVE  ExecutionInv'
<1>1. /\ phase = "insert" /\ h = entities[current] /\ NextEntity
      /\ UNCHANGED <<plan, emitVars, splitVars, keyVars, readVars, rows>>
  BY DEF SkipEmpty, Inserting
<1>2. TypeOK /\ UNCHANGED <<primaryKey, foreignKey, results, iterator, counter, insert>>
  BY <1>1 DEF ExecutionInv, keyVars, readVars, plan
<1>3. /\ rows' \in Seq(RowTypes) /\ Stored' = Stored /\ InsertedOnce'
      /\ \A i \in DOMAIN rows' : \E j \in 1 .. current : entities[j].entity = rows'[i].object[1]
  BY <1>1, RowsStay
<1>4. \A o \in Stored' : primaryKey'[o] = o
  BY <1>1, <1>2, <1>3 DEF ExecutionInv, StoredHaveKeys, Overrun, Unread
<1>5. /\ RowsFollowPlan' /\ StoredHaveKeys' /\ ResultsFit' /\ NoneMissing'
      /\ current' \in 1 .. Len(entities) + 1 /\ phase' \in {"insert", "done"}
  BY <1>1, <1>3, <1>4, AfterEntity
<1>6. OwnKeys'
  BY <1>1, <1>2 DEF ExecutionInv, OwnKeys, Overrun, HasGeneratedKey
<1> QED
  BY <1>1, <1>2, <1>3, <1>5, <1>6, ExecutionGoesOn DEF TypeOK

LEMMA KeepsInsertScalar ==
  ASSUME ExecutionInv, NEW h, InsertScalar(h)
  PROVE  ExecutionInv'
<1>0. PICK o : o = Head(insert.roots)
  OBVIOUS
<1>1. /\ phase = "insert" /\ h = entities[current] /\ insert.single /\ h.entity = insert.root
      /\ Store(h) /\ primaryKey' = [primaryKey EXCEPT ![o] = o]
      /\ foreignKey' = ForeignAssigned(h, o, o, SelfAssigned(h))
      /\ NextEntity /\ UNCHANGED <<plan, emitVars, splitVars, readVars>>
  BY <1>0 DEF InsertScalar, Inserting, Scalar
<1>2. /\ TypeOK /\ insert \in Inserts
      /\ UNCHANGED <<results, iterator, counter, insert>>
  BY <1>1 DEF ExecutionInv, PlanKept, readVars, plan
<1>3. h.entity \in Entities
  BY <1>1, CurrentHolder
<1>4. PICK s : s = Batch(h.entity)
  OBVIOUS
<1>5. s \in Seq(Objects) /\ s = insert.roots /\ Len(s) = 1
  BY <1>1, <1>2, <1>3, <1>4, BatchTypes, ObjectsAssumption DEF Batch
<1>6. DOMAIN s = {1} /\ s[1] = o /\ o \in Objects
  <2>1. DOMAIN s = 1 .. 1 /\ s # <<>> /\ s[1] \in Objects
    BY <1>5, LenProperties, EmptySeq, ElementOfSeq
  <2>2. s[1] = Head(s)
    BY <1>5, <2>1
  <2> QED
    BY <1>0, <1>5, <2>1, <2>2
<1>7. /\ rows' \in Seq(RowTypes) /\ InsertedOnce'
      /\ \A i \in DOMAIN rows' : \E j \in 1 .. current : entities[j].entity = rows'[i].object[1]
      /\ \A x \in Stored' : x \in Stored \/ \E n \in DOMAIN s : s[n] = x
  BY <1>1, <1>4, Storing
<1>8. primaryKey \in [Objects -> Keys] /\ Stored \subseteq Objects /\ o \in Keys
  BY <1>2, <1>6, StoredTypes DEF TypeOK, Keys
<1>9. primaryKey' \in [Objects -> Keys]
  BY <1>1, <1>8
<1>10. \A x \in Stored' : primaryKey'[x] = x
  <2> TAKE x \in Stored'
  <2>1. CASE x = o
    BY <1>1, <1>6, <1>8, <2>1
  <2>2. CASE x # o
    <3>1. x \in Stored
      BY <1>6, <1>7, <2>2
    <3>2. primaryKey[x] = x
      BY <1>1, <3>1 DEF ExecutionInv, StoredHaveKeys, Overrun, Unread
    <3> QED
      BY <1>1, <1>8, <2>2, <3>1, <3>2
  <2> QED
    BY <2>1, <2>2
<1>11. OwnKeys'
  <2> SUFFICES ASSUME NEW x \in Objects
               PROVE  /\ primaryKey'[x] \in {NoKey, x}
                      /\ ~HasGeneratedKey(x[1])' => primaryKey'[x] = x
    BY DEF OwnKeys
  <2>1. HasGeneratedKey(x[1])' = HasGeneratedKey(x[1])
    BY <1>2 DEF HasGeneratedKey
  <2> QED
    BY <1>1, <1>8, <2>1 DEF ExecutionInv, OwnKeys, Overrun
<1>12. foreignKey' \in [Objects -> [Relations -> Keys]]
  BY <1>1, <1>2, <1>8, SelfAssignedTypes, ForeignAssignedTypes
<1>13. /\ RowsFollowPlan' /\ StoredHaveKeys' /\ ResultsFit' /\ NoneMissing'
       /\ current' \in 1 .. Len(entities) + 1 /\ phase' \in {"insert", "done"}
  BY <1>1, <1>7, <1>10, AfterEntity
<1> QED
  BY <1>1, <1>2, <1>7, <1>9, <1>11, <1>12, <1>13, ExecutionGoesOn DEF TypeOK

LEMMA KeepsInsertBatch ==
  ASSUME ExecutionInv, NEW h, InsertBatch(h)
  PROVE  ExecutionInv'
<1>1. /\ phase = "insert" /\ h = entities[current] /\ ~HasGeneratedKey(h.entity)
      /\ Store(h) /\ foreignKey' = SelfAssigned(h) /\ NextEntity
      /\ UNCHANGED <<plan, emitVars, splitVars, primaryKey, readVars>>
  BY DEF InsertBatch, Inserting
<1>2. TypeOK /\ UNCHANGED <<results, iterator, counter, insert>>
  BY <1>1 DEF ExecutionInv, readVars, plan
<1>3. h.entity \in Entities
  BY <1>1, CurrentHolder
<1>4. PICK s : s = Batch(h.entity)
  OBVIOUS
<1>5. s \in Seq(Objects) /\ \A n \in DOMAIN s : s[n][1] = h.entity
  BY <1>3, <1>4, BatchTypes
<1>6. /\ rows' \in Seq(RowTypes) /\ InsertedOnce'
      /\ \A i \in DOMAIN rows' : \E j \in 1 .. current : entities[j].entity = rows'[i].object[1]
      /\ \A o \in Stored' : o \in Stored \/ \E n \in DOMAIN s : s[n] = o
  BY <1>1, <1>4, Storing
<1>7. \A n \in DOMAIN s : s[n] \in Objects
  BY <1>5, LenProperties, ElementOfSeq
<1>8. \A o \in Stored' : primaryKey'[o] = o
  <2> TAKE o \in Stored'
  <2>1. CASE o \in Stored
    BY <1>1, <2>1 DEF ExecutionInv, StoredHaveKeys, Overrun, Unread
  <2>2. CASE \E n \in DOMAIN s : s[n] = o
    <3>1. o \in Objects /\ o[1] = h.entity
      BY <1>5, <1>7, <2>2
    <3> QED
      BY <1>1, <3>1 DEF ExecutionInv, OwnKeys
  <2> QED
    BY <1>6, <2>1, <2>2
<1>9. OwnKeys'
  BY <1>1, <1>2 DEF ExecutionInv, OwnKeys, Overrun, HasGeneratedKey
<1>10. foreignKey' \in [Objects -> [Relations -> Keys]]
  BY <1>1, <1>2, SelfAssignedTypes
<1>11. /\ RowsFollowPlan' /\ StoredHaveKeys' /\ ResultsFit' /\ NoneMissing'
       /\ current' \in 1 .. Len(entities) + 1 /\ phase' \in {"insert", "done"}
  BY <1>1, <1>6, <1>8, AfterEntity
<1> QED
  BY <1>1, <1>2, <1>6, <1>9, <1>10, <1>11, ExecutionGoesOn DEF TypeOK

LEMMA KeepsSendMalformed ==
  ASSUME ExecutionInv, NEW h, SendMalformed(h)
  PROVE  ExecutionInv'
<1>1. /\ phase = "insert" /\ phase' = "threw" /\ foreignKey' = SelfAssigned(h)
      /\ UNCHANGED <<plan, emitVars, splitVars, primaryKey, current, readVars, rows>>
  BY DEF SendMalformed, Inserting
<1>2. TypeOK /\ UNCHANGED <<results, iterator, counter, insert, entities>>
  BY <1>1 DEF ExecutionInv, readVars, plan, orderVars
<1>3. rows' \in Seq(RowTypes) /\ Stored' = Stored /\ InsertedOnce'
  BY <1>1, RowsStay
<1>4. RowsFollowPlan'
  BY <1>1, <1>2 DEF ExecutionInv, RowsFollowPlan, Begun
<1>5. StoredHaveKeys' /\ ResultsFit' /\ NoneMissing'
  BY <1>1, <1>3 DEF ExecutionInv, StoredHaveKeys, Overrun, Unread, ResultsFit, NoneMissing
<1>6. OwnKeys'
  BY <1>1, <1>2 DEF ExecutionInv, OwnKeys, Overrun, HasGeneratedKey
<1>7. foreignKey' \in [Objects -> [Relations -> Keys]]
  BY <1>1, <1>2, SelfAssignedTypes
<1> QED
  BY <1>1, <1>2, <1>3, <1>4, <1>5, <1>6, <1>7, ExecutionGoesOn DEF TypeOK

LEMMA KeepsInsertReturning ==
  ASSUME ExecutionInv, NEW h, InsertReturning(h)
  PROVE  ExecutionInv'
<1>0. PICK s : s = Batch(h.entity)
  OBVIOUS
<1>1. /\ phase = "insert" /\ h = entities[current] /\ s # <<>> /\ HasGeneratedKey(h.entity)
      /\ Store(h) /\ foreignKey' = SelfAssigned(h)
      /\ results' = Statements(s) /\ iterator' = 1 /\ counter' = 0 /\ phase' = "read"
      /\ UNCHANGED <<plan, emitVars, splitVars, primaryKey, current>>
  BY <1>0 DEF InsertReturning, Inserting
<1>2. TypeOK /\ insert \in Inserts /\ UNCHANGED <<insert, entities, collections>>
  BY <1>1 DEF ExecutionInv, PlanKept, plan, orderVars, splitVars
<1>3. /\ h.entity \in Entities /\ current \in 1 .. Len(entities) /\ Len(entities) \in Nat
      /\ DOMAIN entities = 1 .. Len(entities)
  BY <1>1, CurrentHolder
<1>4. s \in Seq(Objects) /\ Len(s) \in Nat /\ DOMAIN s = 1 .. Len(s)
  BY <1>0, <1>3, BatchTypes, LenProperties
<1>5. Statements(s) \in Seq(Seq(Objects)) /\ Cuts(Statements(s), s, 1, 0, insert.rowLimit)
  BY <1>1, <1>2, <1>4, StatementsFit
<1>6. /\ rows' \in Seq(RowTypes) /\ InsertedOnce'
      /\ \A i \in DOMAIN rows' : \E j \in 1 .. current : entities[j].entity = rows'[i].object[1]
      /\ \A o \in Stored' : o \in Stored \/ \E n \in DOMAIN s : s[n] = o
  BY <1>0, <1>1, Storing
<1>7. Batch(entities[current].entity)' = s
  BY <1>0, <1>1, <1>2 DEF Batch
<1>8. RowsFollowPlan'
  <2>1. Begun' = current /\ current' \in DOMAIN entities'
    BY <1>1, <1>2, <1>3 DEF Begun
  <2> QED
    BY <1>2, <1>6, <2>1 DEF RowsFollowPlan
<1>9. StoredHaveKeys'
  <2> SUFFICES ASSUME NEW o \in Stored'
               PROVE  primaryKey'[o] = o \/ Unread(o)'
    BY DEF StoredHaveKeys
  <2>1. CASE o \in Stored
    BY <1>1, <2>1 DEF ExecutionInv, StoredHaveKeys, Overrun, Unread
  <2>2. CASE \E n \in DOMAIN s : s[n] = o
    BY <1>1, <1>4, <1>7, <2>2 DEF Unread
  <2> QED
    BY <1>6, <2>1, <2>2
<1>10. ResultsFit' /\ NoneMissing'
  <2>1. insert.rowLimit \in Nat \ {0} /\ insert.readLimit \in 1 .. insert.rowLimit
    BY <1>2, ObjectsAssumption
  <2>2. ReadLimit \in Nat
    BY <2>1 DEF ReadLimit
  <2>3. NextRow(s, 1)'
    BY <1>1, <1>2, <1>5, <1>7, <2>1, <2>2 DEF NextRow, ReadLimit, Cuts
  <2>4. HasGeneratedKey(entities[current].entity)'
    BY <1>1, <1>2 DEF HasGeneratedKey
  <2> QED
    BY <1>1, <1>7, <2>3, <2>4 DEF ResultsFit, NoneMissing
<1>11. OwnKeys'
  BY <1>1, <1>2 DEF ExecutionInv, OwnKeys, Overrun, HasGeneratedKey
<1>12. foreignKey' \in [Objects -> [Relations -> Keys]]
  BY <1>1, <1>2, SelfAssignedTypes
<1>13. results' \in Seq(Seq(Objects)) /\ iterator' \in Nat /\ counter' \in Nat
  BY <1>1, <1>5
<1>14. current' \in 1 .. Len(entities) + 1
  BY <1>1, <1>2 DEF TypeOK
<1> QED
  BY <1>1, <1>2, <1>6, <1>8, <1>9, <1>10, <1>11, <1>12, <1>13, <1>14, ExecutionGoesOn DEF TypeOK

(* The key that is read next is the one of the object it is given to, or   *)
(* the counters disagree, and then it is one of the same command.          *)
KeyTaken(h, s) ==
  \E n \in 1 .. Len(s) :
    /\ phase' = "read" /\ (Overrun \/ n = iterator)
    /\ primaryKey' = [primaryKey EXCEPT ![s[iterator]] = s[n]]
    /\ foreignKey' = ForeignAssigned(h, s[iterator], s[n], foreignKey)
    /\ results' \in Seq(Seq(Objects)) /\ iterator' = iterator + 1 /\ counter' \in Nat
    /\ \E p \in Nat : NextRow(s, p)'

KeyMissing ==
  /\ phase' = "noRow" /\ Overrun
  /\ UNCHANGED <<primaryKey, foreignKey, results, iterator, counter>>

LEMMA KeyRead ==
  ASSUME ExecutionInv, NEW h, ReadKey(h), NEW s, s = Batch(h.entity)
  PROVE  /\ s \in Seq(Objects) /\ Len(s) \in Nat /\ DOMAIN s = 1 .. Len(s)
         /\ iterator \in 1 .. Len(s) /\ iterator \in Nat
         /\ KeyMissing \/ KeyTaken(h, s)
<1>0. PICK r, limit, c, i, rs :
        r = ReadLimit /\ limit = insert.rowLimit /\ c = counter /\ i = iterator /\ rs = results
  OBVIOUS
<1>1. PICK rem, taken : /\ rem = (IF c = r THEN Tail(rs) ELSE rs)
                        /\ taken = (IF c = r THEN 0 ELSE c)
  OBVIOUS
<1>2. /\ phase = "read" /\ h = entities[current] /\ i <= Len(s)
      /\ IF rem = <<>> \/ Head(rem) = <<>>
           THEN phase' = "noRow" /\ UNCHANGED <<keyVars, readVars>>
           ELSE /\ primaryKey' = [primaryKey EXCEPT ![s[i]] = Head(Head(rem))]
                /\ foreignKey' = ForeignAssigned(h, s[i], Head(Head(rem)), foreignKey)
                /\ results' = <<Tail(Head(rem))>> \o Tail(rem)
                /\ iterator' = i + 1 /\ counter' = taken + 1 /\ phase' = phase
      /\ UNCHANGED <<plan, emitVars, splitVars, current, rows>>
  BY <1>0, <1>1 DEF ReadKey
<1>3. TypeOK /\ insert \in Inserts /\ UNCHANGED insert /\ rs \in Seq(Seq(Objects)) /\ c \in Nat /\ i \in Nat
  BY <1>0, <1>2 DEF ExecutionInv, PlanKept, plan, TypeOK
<1>4. limit \in Nat \ {0} /\ r \in 1 .. limit /\ r \in Nat
  <2>1. insert.rowLimit \in Nat \ {0} /\ insert.readLimit \in 1 .. insert.rowLimit
    BY <1>3, ObjectsAssumption
  <2> QED
    BY <1>0, <2>1 DEF ReadLimit
<1>5. s \in Seq(Objects) /\ Len(s) \in Nat /\ DOMAIN s = 1 .. Len(s)
  BY <1>2, CurrentHolder, BatchTypes, LenProperties
<1>6. i >= 1 /\ \E p \in Nat : NextRow(s, p)
  BY <1>0, <1>2 DEF ExecutionInv, ResultsFit
<1>7. i \in 1 .. Len(s)
  BY <1>2, <1>3, <1>5, <1>6
<1>8. PICK p \in Nat : NextRow(s, p)
  BY <1>6
<1>9. /\ Cuts(rs, s, p, c, limit) /\ c <= r /\ p \in 1 .. Len(s) + 1 /\ c < p
      /\ \/ p = i /\ (r = limit \/ c + 1 = i)
         \/ p > i /\ r < limit /\ r < Len(s)
  BY <1>0, <1>8 DEF NextRow, Cuts
<1>10. c \in 0 .. limit
  BY <1>3, <1>4, <1>9
<1>11. /\ Tail(rs) \in Seq(Seq(Objects))
       /\ Tail(rs) # <<>> => Cuts(Tail(rs), s, p - c + limit, 0, limit)
       /\ c = limit /\ p <= Len(s) => Tail(rs) # <<>>
  BY <1>3, <1>4, <1>5, <1>9, <1>10, NextResult
<1>12. Overrun <=> r < limit /\ r < Len(s)
  BY <1>0, <1>2, <1>4, <1>5 DEF Overrun, CountersAgree
<1>13. taken \in Nat /\ taken < r /\ rem \in Seq(Seq(Objects))
  BY <1>1, <1>3, <1>4, <1>9, <1>11
<1>14. ASSUME rem # <<>>
       PROVE  \E q \in Nat :
                /\ Cuts(rem, s, q, taken, limit)
                /\ \/ q = i /\ (r = limit \/ taken + 1 = i)
                   \/ q > i /\ r < limit /\ r < Len(s)
  <2>1. CASE c = r
    <3>1. rem = Tail(rs) /\ taken = 0
      BY <1>1, <2>1
    <3>2. PICK q : q = p - c + limit
      OBVIOUS
    <3>3. Cuts(rem, s, q, taken, limit)
      BY <1>11, <1>14, <3>1, <3>2
    <3>4. q \in Nat
      BY <1>3, <1>4, <1>9, <3>2
    <3>5. r = limit => q = i
      BY <1>3, <1>4, <1>9, <2>1, <3>2
    <3>6. r < limit => q > i /\ r < Len(s)
      BY <1>3, <1>4, <1>5, <1>7, <1>9, <2>1, <3>2
    <3> QED
      BY <1>4, <3>3, <3>4, <3>5, <3>6
  <2>2. CASE c # r
    BY <1>1, <1>9, <2>2
  <2> QED
    BY <2>1, <2>2
<1>15. rem = <<>> => Overrun
  <2>1. SUFFICES ASSUME rem = <<>>
                 PROVE  r < limit /\ r < Len(s)
    BY <1>12
  <2>2. c = r /\ Tail(rs) = <<>>
    BY <1>1, <1>9, <2>1 DEF Cuts
  <2>3. ~(c = limit /\ p <= Len(s))
    BY <1>11, <2>2
  <2> QED
    BY <1>3, <1>4, <1>5, <1>7, <1>9, <2>2, <2>3
<1>16. CASE rem = <<>> \/ Head(rem) = <<>>
  <2>1. Overrun
    <3> SUFFICES ASSUME rem # <<>>, Head(rem) = <<>>
                 PROVE  Overrun
      BY <1>15, <1>16
    <3>1. PICK q \in Nat :
            /\ Cuts(rem, s, q, taken, limit)
            /\ \/ q = i /\ (r = limit \/ taken + 1 = i)
               \/ q > i /\ r < limit /\ r < Len(s)
      BY <1>14
    <3>2. ~(q <= Len(s))
      <4>1. taken < limit
        BY <1>4, <1>13
      <4> QED
        BY <1>4, <1>5, <1>13, <3>1, <4>1, NextKey
    <3> QED
      BY <1>7, <1>12, <3>1, <3>2
  <2> QED
    BY <1>0, <1>2, <1>5, <1>7, <1>16, <2>1 DEF KeyMissing, keyVars, readVars
<1>17. CASE ~(rem = <<>> \/ Head(rem) = <<>>)
  <2>1. PICK q \in Nat :
          /\ Cuts(rem, s, q, taken, limit)
          /\ \/ q = i /\ (r = limit \/ taken + 1 = i)
             \/ q > i /\ r < limit /\ r < Len(s)
    BY <1>14, <1>17
  <2>2. taken < limit /\ taken \in 0 .. limit - 1
    BY <1>4, <1>13
  <2>3. q \in 1 .. Len(s)
    <3>1. q \in 1 .. Len(s) + 1
      BY <2>1 DEF Cuts
    <3>2. Cuts(rem, s, Len(s) + 1, taken, limit) => Head(rem) = <<>>
      BY <1>4, <1>5, <1>13, <2>2, NoKeyLeft
    <3>3. q # Len(s) + 1
      BY <1>17, <2>1, <3>2, Zenon
    <3>4. PICK n : n = Len(s)
      OBVIOUS
    <3>5. n \in Nat /\ q \in 1 .. n + 1 /\ q # n + 1
      BY <1>5, <3>1, <3>3, <3>4
    <3>6. q \in 1 .. n
      BY <3>5
    <3> QED
      BY <3>4, <3>6
  <2>4. PICK left : left = <<Tail(Head(rem))>> \o Tail(rem)
    OBVIOUS
  <2>5. /\ Head(Head(rem)) = s[q] /\ left \in Seq(Seq(Objects))
        /\ Cuts(left, s, q + 1, taken + 1, limit)
    <3>1. Cuts(rem, s, q, taken, limit) /\ q <= Len(s)
      BY <1>5, <2>1, <2>3
    <3>2. /\ Head(Head(rem)) = s[q]
          /\ <<Tail(Head(rem))>> \o Tail(rem) \in Seq(Seq(Objects))
          /\ Cuts(<<Tail(Head(rem))>> \o Tail(rem), s, q + 1, taken + 1, limit)
      BY <1>4, <1>5, <1>13, <2>2, <3>1, NextKey
    <3> QED
      BY <2>4, <3>2
  <2>6. /\ primaryKey' = [primaryKey EXCEPT ![s[i]] = s[q]]
        /\ foreignKey' = ForeignAssigned(h, s[i], s[q], foreignKey)
        /\ results' = left /\ iterator' = i + 1 /\ counter' = taken + 1 /\ phase' = "read"
    BY <1>2, <1>17, <2>4, <2>5
  <2>7. NextRow(s, q + 1)'
    <3>1. ReadLimit' = r /\ insert'.rowLimit = limit
      BY <1>0, <1>3 DEF ReadLimit
    <3>2. Cuts(results', s, q + 1, counter', insert'.rowLimit)
      BY <2>5, <2>6, <3>1
    <3>3. taken + 1 <= r
      BY <1>4, <1>13
    <3>4. \/ q + 1 = i + 1 /\ (r = limit \/ (taken + 1) + 1 = i + 1)
          \/ q + 1 > i + 1 /\ r < limit /\ r < Len(s)
      BY <1>3, <2>1
    <3> QED
      BY <2>6, <3>1, <3>2, <3>3, <3>4 DEF NextRow
  <2>8. Overrun \/ q = i
    BY <1>12, <2>1
  <2>9. q + 1 \in Nat /\ taken + 1 \in Nat
    BY <1>13
  <2>10. KeyTaken(h, s)
    BY <1>0, <2>3, <2>5, <2>6, <2>7, <2>8, <2>9 DEF KeyTaken
  <2> QED
    BY <1>0, <1>3, <1>5, <1>7, <2>10
<1> QED
  BY <1>16, <1>17

LEMMA KeepsReadKey ==
  ASSUME ExecutionInv, NEW h, ReadKey(h)
  PROVE  ExecutionInv'
<1>0. PICK s : s = Batch(h.entity)
  OBVIOUS
<1>1. /\ phase = "read" /\ h = entities[current]
      /\ UNCHANGED <<plan, emitVars, splitVars, current, rows>>
  BY DEF ReadKey
<1>2. /\ s \in Seq(Objects) /\ Len(s) \in Nat /\ DOMAIN s = 1 .. Len(s)
      /\ iterator \in 1 .. Len(s) /\ iterator \in Nat
      /\ KeyMissing \/ KeyTaken(h, s)
  BY <1>0, KeyRead
<1>3. TypeOK /\ insert \in Inserts /\ UNCHANGED <<insert, entities, collections>>
  BY <1>1 DEF ExecutionInv, PlanKept, plan, orderVars, splitVars
<1>4. h.entity \in Entities /\ current \in 1 .. Len(entities) /\ HasGeneratedKey(h.entity)
  BY <1>1, CurrentHolder DEF ExecutionInv, ResultsFit
<1>5. Batch(entities[current].entity) = s /\ Batch(entities[current].entity)' = s
  BY <1>0, <1>1, <1>3 DEF Batch
<1>6. phase' \in {"read", "noRow"}
  BY <1>2 DEF KeyMissing, KeyTaken
<1>7. Overrun' = Overrun
  BY <1>1, <1>3, <1>5, <1>6 DEF Overrun, CountersAgree, ReadLimit, Batch
<1>8. rows' \in Seq(RowTypes) /\ Stored' = Stored /\ InsertedOnce'
  BY <1>1, RowsStay
<1>9. primaryKey \in [Objects -> Keys] /\ Stored \subseteq Objects
  BY <1>3, StoredTypes DEF TypeOK
<1>10. RowsFollowPlan'
  BY <1>1, <1>3, <1>6 DEF ExecutionInv, RowsFollowPlan, Begun
<1>11. current' \in 1 .. Len(entities) + 1
  BY <1>1, <1>3 DEF TypeOK
<1>12. CASE KeyMissing
  <2>1. /\ phase' = "noRow" /\ Overrun
        /\ UNCHANGED <<primaryKey, foreignKey, results, iterator, counter>>
    BY <1>12 DEF KeyMissing
  <2>2. Overrun'
    BY <1>7, <2>1
  <2>3. NoneMissing' /\ StoredHaveKeys' /\ ResultsFit'
    BY <2>1, <2>2 DEF NoneMissing, StoredHaveKeys, ResultsFit
  <2>4. OwnKeys'
    BY <1>3, <2>1, <2>2 DEF ExecutionInv, OwnKeys, HasGeneratedKey
  <2> QED
    BY <1>1, <1>3, <1>8, <1>10, <1>11, <2>1, <2>3, <2>4, ExecutionGoesOn DEF TypeOK
<1>13. CASE KeyTaken(h, s)
  <2>0. PICK o : o = s[iterator]
    OBVIOUS
  <2>1. PICK n \in 1 .. Len(s) :
          /\ phase' = "read" /\ (Overrun \/ n = iterator)
          /\ primaryKey' = [primaryKey EXCEPT ![o] = s[n]]
          /\ foreignKey' = ForeignAssigned(h, o, s[n], foreignKey)
          /\ results' \in Seq(Seq(Objects)) /\ iterator' = iterator + 1 /\ counter' \in Nat
          /\ \E p \in Nat : NextRow(s, p)'
    BY <1>13, <2>0 DEF KeyTaken
  <2>2. o \in Objects /\ s[n] \in Objects /\ s[n] \in Keys
    BY <1>2, <2>0, ElementOfSeq DEF Keys
  <2>3. o[1] = h.entity
    BY <1>0, <1>2, <1>4, <2>0, BatchTypes
  <2>4. NoneMissing'
    BY <2>1 DEF NoneMissing
  <2>5. StoredHaveKeys'
    <3> SUFFICES ASSUME ~Overrun, NEW x \in Stored, primaryKey'[x] # x
                 PROVE  Unread(x)'
      BY <1>7, <1>8 DEF StoredHaveKeys
    <3>1. n = iterator /\ x # o /\ primaryKey[x] # x
      BY <1>9, <2>0, <2>1, <2>2
    <3>2. PICK m \in iterator .. Len(s) : s[m] = x
      BY <1>5, <3>1 DEF ExecutionInv, StoredHaveKeys, Unread
    <3>3. m \in iterator + 1 .. Len(s)
      BY <1>2, <2>0, <3>1, <3>2
    <3> QED
      BY <1>5, <2>1, <3>2, <3>3 DEF Unread
  <2>6. ResultsFit'
    <3>1. HasGeneratedKey(entities[current].entity)'
      BY <1>1, <1>3, <1>4 DEF HasGeneratedKey
    <3>2. iterator' >= 1
      BY <1>2, <2>1
    <3> QED
      BY <1>5, <2>1, <3>1, <3>2 DEF ResultsFit
  <2>7. OwnKeys'
    <3> SUFFICES ASSUME NEW x \in Objects
                 PROVE  /\ Overrun \/ primaryKey'[x] \in {NoKey, x}
                        /\ ~HasGeneratedKey(x[1])' => primaryKey'[x] = x
      BY <1>7 DEF OwnKeys
    <3>1. HasGeneratedKey(x[1])' = HasGeneratedKey(x[1])
      BY <1>3 DEF HasGeneratedKey
    <3>2. CASE x = o
      <4>1. primaryKey'[x] = s[n]
        BY <1>9, <2>1, <3>2
      <4> QED
        BY <1>4, <2>0, <2>1, <2>3, <3>1, <3>2, <4>1
    <3>3. CASE x # o
      <4>1. primaryKey'[x] = primaryKey[x]
        BY <1>9, <2>1, <3>3
      <4> QED
        BY <3>1, <4>1 DEF ExecutionInv, OwnKeys
    <3> QED
      BY <3>2, <3>3
  <2>8. /\ primaryKey' \in [Objects -> Keys] /\ foreignKey' \in [Objects -> [Relations -> Keys]]
    BY <1>3, <1>9, <2>1, <2>2, ForeignAssignedTypes DEF TypeOK
  <2>9. iterator' \in Nat
    BY <1>2, <2>1
  <2> QED
    BY <1>1, <1>8, <1>10, <1>11, <2>1, <2>4, <2>5, <2>6, <2>7, <2>8, <2>9, ExecutionGoesOn
<1> QED
  BY <1>2, <1>12, <1>13

(* The keys of a command that the counters disagree on are never all read. *)
LEMMA OverrunNeverEnds ==
  ASSUME ExecutionInv, phase = "read", iterator > Len(Batch(entities[current].entity))
  PROVE  ~Overrun
<1>0. PICK s, r, limit :
        s = Batch(entities[current].entity) /\ r = ReadLimit /\ limit = insert.rowLimit
  OBVIOUS
<1>1. insert \in Inserts /\ iterator \in Nat /\ counter \in Nat
  BY DEF ExecutionInv, PlanKept, TypeOK
<1>2. limit \in Nat /\ r \in Nat
  <2>1. insert.rowLimit \in Nat \ {0} /\ insert.readLimit \in 1 .. insert.rowLimit
    BY <1>1, ObjectsAssumption
  <2> QED
    BY <1>0, <2>1 DEF ReadLimit
<1>3. Len(s) \in Nat
  BY <1>0, CurrentHolder, BatchTypes, LenProperties
<1>4. PICK p \in Nat : NextRow(s, p)
  BY <1>0 DEF ExecutionInv, ResultsFit
<1>5. /\ p \in 1 .. Len(s) + 1 /\ counter <= r
      /\ \/ p = iterator /\ (r = limit \/ counter + 1 = iterator)
         \/ p > iterator /\ r < limit /\ r < Len(s)
  BY <1>0, <1>4 DEF NextRow, Cuts
<1>6. r = limit \/ Len(s) <= r
  BY <1>0, <1>1, <1>2, <1>3, <1>5
<1> QED
  BY <1>0, <1>6 DEF Overrun, CountersAgree

LEMMA KeepsEndReading ==
  ASSUME ExecutionInv, NEW h, EndReading(h)
  PROVE  ExecutionInv'
<1>1. /\ phase = "read" /\ h = entities[current] /\ iterator > Len(Batch(h.entity))
      /\ NextEntity /\ results' = <<>>
      /\ UNCHANGED <<plan, emitVars, splitVars, keyVars, iterator, counter, rows>>
  BY DEF EndReading
<1>2. TypeOK /\ UNCHANGED <<primaryKey, foreignKey, insert>>
  BY <1>1 DEF ExecutionInv, keyVars, plan
<1>3. /\ rows' \in Seq(RowTypes) /\ Stored' = Stored /\ InsertedOnce'
      /\ \A i \in DOMAIN rows' : \E j \in 1 .. current : entities[j].entity = rows'[i].object[1]
  BY <1>1, RowsStay
<1>4. PICK s : s = Batch(entities[current].entity)
  OBVIOUS
<1>5. iterator .. Len(s) = {}
  <2>1. h.entity \in Entities
    BY <1>1, CurrentHolder
  <2>2. Len(s) \in Nat
    BY <1>1, <1>4, <2>1, BatchTypes, LenProperties
  <2> QED
    BY <1>1, <1>2, <1>4, <2>2 DEF TypeOK
<1>6. \A o \in Stored' : primaryKey'[o] = o
  <2>1. ~Overrun
    BY <1>1, OverrunNeverEnds
  <2> QED
    BY <1>2, <1>3, <1>4, <1>5, <2>1 DEF ExecutionInv, StoredHaveKeys, Unread
<1>7. /\ RowsFollowPlan' /\ StoredHaveKeys' /\ ResultsFit' /\ NoneMissing'
      /\ current' \in 1 .. Len(entities) + 1 /\ phase' \in {"insert", "done"}
  BY <1>1, <1>3, <1>6, AfterEntity
<1>8. OwnKeys'
  <2>1. ~Overrun
    BY <1>1, OverrunNeverEnds
  <2> QED
    BY <1>2, <2>1 DEF ExecutionInv, OwnKeys, HasGeneratedKey
<1>9. results' \in Seq(Seq(Objects))
  BY <1>1, EmptySeq
<1> QED
  BY <1>1, <1>2, <1>3, <1>7, <1>8, <1>9, ExecutionGoesOn DEF TypeOK

LEMMA KeepsNothing == ExecutionInv /\ UNCHANGED vars => ExecutionInv'
<1> SUFFICES ASSUME ExecutionInv, UNCHANGED vars
             PROVE  ExecutionInv'
  OBVIOUS
<1>1. /\ UNCHANGED <<insert, phase, pending, visitedEntities, reachableRelations, reachableEntities,
                     entities, processedEntities, entityIndex, startReachableCount, walk, seen,
                     collections, primaryKey, foreignKey, current, results, iterator, counter, rows,
                     emittedEntities, walks>>
      /\ UNCHANGED planVars
  BY DEF vars, planVars, collectVars, orderVars, executionVars, emitVars, splitVars, keyVars, readVars
<1>2. PendingSides' = PendingSides
  BY <1>1 DEF PendingSides
<1>3. TypeOK'
  BY <1>1, <1>2 DEF ExecutionInv, TypeOK, PlanTypeOK
<1>4. PlanKept'
  <2>1. Planning => PlanInv'
    BY <1>1, InvNext DEF ExecutionInv, PlanKept
  <2>2. PrincipalsFirst' /\ PlannedTwice' = PlannedTwice
    BY <1>1, SameEntities DEF ExecutionInv, PlanKept, PlannedTwice
  <2> QED
    BY <1>1, <2>1, <2>2 DEF ExecutionInv, PlanKept, SomethingPlanned, Planning, Executing
<1>5. NotYetInserted' /\ (\A e \in Entities : Sorted(e)') /\ InsertedOnce'
  BY <1>1 DEF ExecutionInv, NotYetInserted, Planning, Sorted, InsertedOnce
<1>6. RowsFollowPlan'
  BY <1>1 DEF ExecutionInv, RowsFollowPlan, Begun
<1>7. \A e : Batch(e)' = Batch(e)
  BY <1>1 DEF Batch
<1>8. ReadLimit' = ReadLimit /\ Overrun' = Overrun
  BY <1>1, <1>7 DEF Overrun, CountersAgree, ReadLimit
<1>9. OwnKeys' /\ StoredHaveKeys' /\ NoneMissing'
  BY <1>1, <1>7, <1>8 DEF ExecutionInv, OwnKeys, HasGeneratedKey, StoredHaveKeys, Unread, Stored, NoneMissing
<1>10. \A s, p : NextRow(s, p)' <=> NextRow(s, p)
  BY <1>1, <1>8 DEF NextRow
<1>11. ResultsFit'
  BY <1>1, <1>7, <1>10 DEF ExecutionInv, ResultsFit, HasGeneratedKey
<1> QED
  BY <1>3, <1>4, <1>5, <1>6, <1>9, <1>11 DEF ExecutionInv

-----------------------------------------------------------------------------
(* The theorems.                                                           *)

LEMMA KeepsInserting ==
  ASSUME ExecutionInv, NEW h, InsertEntity(h)
  PROVE  ExecutionInv'
BY KeepsSkipEmpty, KeepsInsertScalar, KeepsInsertBatch, KeepsSendMalformed, KeepsInsertReturning,
   KeepsReadKey, KeepsEndReading DEF InsertEntity

LEMMA KeepsExecutionInv == ExecutionInv /\ [Next]_vars => ExecutionInv'
BY KeepsPlan, KeepsCreateInserter, KeepsEmitWalk, KeepsStartInsert, KeepsSplitObject,
   KeepsSkipSeenObject, KeepsCallWrongSetter, KeepsInserting, KeepsNothing DEF Next

(* The inductive invariant of an insert, also of one object whose reader   *)
(* counts the columns otherwise than the statements do: what is stored     *)
(* belongs to the entities up to the current one; it has its key or will   *)
(* get it, or the reader has to run out of keys, because the results left  *)
(* are those of fewer objects than are still without.                      *)
THEOREM ExecutionInvariance == Spec => []ExecutionInv
BY Start, KeepsExecutionInv, PTL DEF Spec

(* Every variable of planning, walking, inserting and reading keeps its    *)
(* type.                                                                   *)
THEOREM ExecutionTypes == Spec => []TypeOK
BY ExecutionInvariance, PTL DEF ExecutionInv

(* The keys that ReadAsync yields belong to the objects they are assigned  *)
(* to and none is missing, wherever the limit of parameters cuts their     *)
(* statement, unless the inserter of one object reads a command with more  *)
(* rows than ushort.MaxValue / columnCount that was cut after more rows.   *)
(* Its keys go astray, but such an insert never returns: whenever one      *)
(* does, every stored object has its own key.                              *)
THEOREM KeysReachTheirRows == Spec => []KeysFitRows
<1>1. ExecutionInv => KeysFitRows
  BY DEF ExecutionInv, KeysFitRows, OwnKeys, StoredHaveKeys, NoneMissing, Unread, Overrun
<1> QED
  BY <1>1, ExecutionInvariance, PTL

(* Whatever graph the objects form, ObjectIDGenerator and the check of the *)
(* plan for a second holder of an entity let no object be inserted twice.  *)
THEOREM NothingIsInsertedTwice == Spec => []InsertedOnce
BY ExecutionInvariance, PTL DEF ExecutionInv

(* Principals come first not only in the plan but also when it is executed.*)
THEOREM PrincipalsAreInsertedFirst == Spec => []PrincipalsFirst
BY ExecutionInvariance, PTL DEF ExecutionInv, PlanKept

(* No insert fails with the error of a relation loop if there is none.     *)
THEOREM LoopErrorsAreReal == Spec => []LoopIsReal
<1>1. ExecutionInv => LoopIsReal
  BY LoopWaits DEF ExecutionInv, PlanKept, Planning, PlanPhases, LoopIsReal
<1> QED
  BY <1>1, ExecutionInvariance, PTL

-----------------------------------------------------------------------------
(* The plan and the walk.  Both are made by recursions over the relations; *)
(* that they agree is proved of InsertWithAll by following both, and of    *)
(* InsertWith from the tree that its paths are.                            *)

(* The state of a recursion over navigation properties: the sides still to *)
(* be followed, the entities entered, and by which sides.                  *)
Visit(sides, entered, by) == [sides |-> sides, entered |-> entered, by |-> by]

NextVisit(v) ==
  LET s == Last(v.sides)
  IN IF HasNavigation(s.relation, s.left) /\ Leads(s) \notin v.entered
       THEN Visit(Front(v.sides) \o SidesOf(Leads(s)), v.entered \cup {Leads(s)},
                  v.by \cup {<<s.relation, s.left>>})
       ELSE Visit(Front(v.sides), v.entered, v.by)

FirstVisit == Visit(SidesOf(insert.root), {insert.root}, {})

(* The first n states of the recursion.                                    *)
Visits(vs, n) ==
  /\ vs[1] = FirstVisit
  /\ \A i \in 1 .. n - 1 : vs[i].sides # <<>> /\ vs[i + 1] = NextVisit(vs[i])

Reached(v) == \E n \in Nat \ {0} : \E vs : Visits(vs, n) /\ vs[n] = v

(* What is collected, whether it is in order already or not.               *)
Holding == ToSet(reachableEntities) \cup ToSet(entities)

Once ==
  /\ \A i, j \in DOMAIN reachableEntities :
       reachableEntities[i].entity = reachableEntities[j].entity => i = j
  /\ \A i, j \in DOMAIN entities : entities[i].entity = entities[j].entity => i = j
  /\ \A i \in DOMAIN reachableEntities : \A j \in DOMAIN entities :
       reachableEntities[i].entity # entities[j].entity

AllInOrder == phase = "ordered" \/ Executing => reachableEntities = <<>>

(* InsertWithAll of an entity without relations.                           *)
Alone == insert.relationsOf[insert.root] = <<>>

OnlyRoot ==
  /\ phase \notin {"start", "collect", "order"}
  /\ visitedEntities = {} /\ entities = <<Holder(insert.root, {}, {})>> /\ reachableEntities = <<>>

(* InsertWithAll of any other: each entity visited is held once, by the    *)
(* relation by which it was entered.                                       *)
Visited ==
  /\ Once
  /\ {h.entity : h \in Holding} = visitedEntities
  /\ \A e \in visitedEntities : \A r \in RelationsOf(e) :
       HasNavigation(r, e) => r \in reachableRelations
  /\ \E by :
       /\ Reached(Visit(IF phase = "collect" THEN pending ELSE <<>>, visitedEntities, by))
       /\ \A h \in Holding : \A w \in by : RightOf(w[1], w[2]) = h.entity => h.direct \subseteq {w[1]}

(* The code for the walk is emitted in the same order.                     *)
Retraced ==
  /\ emittedEntities \subseteq visitedEntities
  /\ Reached(Visit(IF phase = "emit" THEN pending ELSE <<>>, emittedEntities, walks))

(* InsertWith: done are the paths collected, and the rest of a tree of     *)
(* paths hangs on those that are pending.                                  *)
Paths == 1 .. Len(insert.paths)
RelationAt(n) == insert.paths[n].relation
Upto(done) == {0} \cup done

Gathered(at, from, done) ==
  /\ \A n \in done : from[n] \in Upto(done)
  /\ visitedEntities = {at[n] : n \in Upto(done)}
  /\ reachableRelations = {RelationAt(n) : n \in {m \in Paths : from[m] \in Upto(done)}}
  /\ Len(reachableEntities) + Len(entities) = Cardinality(done) + 1
  /\ \A h \in Holding : \E n \in Upto(done) :
       h.entity = at[n] /\ h.direct \subseteq {RelationAt(m) : m \in done \cap {n}}
  /\ {h.entity : h \in Holding} = visitedEntities

Gathering(at, from, done) ==
  /\ \A s \in ToSet(pending) :
       /\ s.path \in Paths \ done /\ from[s.path] \in Upto(done)
       /\ s.relation = RelationAt(s.path) /\ s.left = at[from[s.path]]
  /\ \A i, j \in DOMAIN pending : pending[i].path = pending[j].path => i = j
  /\ \A n \in Paths \ done : from[n] \in Upto(done) => \E s \in ToSet(pending) : s.path = n

(* Likewise done are the paths along which the walk is emitted.            *)
WalkedTo(at, from, done) ==
  /\ \A n \in done : from[n] \in Upto(done)
  /\ emittedEntities = {at[n] : n \in Upto(done)}
  /\ walks = {<<RelationAt(n), at[from[n]]>> : n \in done}

Walking(at, from, done) ==
  /\ \A s \in ToSet(pending) : \E m \in Upto(done) : s.left = at[m] /\ s.relation \in RelationsOf(at[m])
  /\ \A n \in Paths \ done : from[n] \in Upto(done) =>
       \E s \in ToSet(pending) : s.relation = RelationAt(n) /\ s.left = at[from[n]]

GatheredTree(at, from) ==
  \E done \in SUBSET Paths :
    /\ Gathered(at, from, done)
    /\ IF phase = "collect" THEN Gathering(at, from, done) ELSE done = Paths

WalkedTree(at, from) ==
  \E done \in SUBSET Paths :
    /\ WalkedTo(at, from, done)
    /\ IF phase = "emit" THEN Walking(at, from, done) ELSE done = Paths

Tree(at, from) ==
  /\ at \in [0 .. Len(insert.paths) -> Entities] /\ from \in [Paths -> 0 .. Len(insert.paths)]
  /\ PathTree(insert, at, from)

PlanFitted ==
  /\ AllInOrder /\ (phase = "start" => reachableRelations = {})
  /\ insert.style = "all" /\ phase # "start" => IF Alone THEN OnlyRoot ELSE Visited
  /\ insert.style = "with" /\ phase # "start" =>
       \A at, from : Tree(at, from) => GatheredTree(at, from)

WalkFitted ==
  /\ Planning => walks = {}
  /\ insert.style = "all" /\ Executing =>
       IF Alone THEN walks = {} /\ (phase = "emit" => pending = <<>>) ELSE Retraced
  /\ insert.style = "with" /\ Executing =>
       \A at, from : Tree(at, from) => WalkedTree(at, from)

WalkInv == PlanFitted /\ WalkFitted
-----------------------------------------------------------------------------
(* A stack of sides.                                                       *)

LEMMA LastOut ==
  ASSUME NEW S, NEW s \in Seq(S), s # <<>>, NEW t \in Seq(S)
  PROVE  /\ Last(s) \in S /\ Front(s) \in Seq(S) /\ Front(s) \o t \in Seq(S)
         /\ Len(Front(s)) = Len(s) - 1 /\ \A i \in 1 .. Len(s) - 1 : Front(s)[i] = s[i]
         /\ ToSet(s) = ToSet(Front(s)) \cup {Last(s)}
         /\ ToSet(Front(s) \o t) = ToSet(Front(s)) \cup ToSet(t)
<1>1. Len(s) \in Nat \ {0} /\ DOMAIN s = 1 .. Len(s)
  BY LenProperties, EmptySeq
<1>2. PICK n \in Nat : n + 1 = Len(s) /\ n = Len(s) - 1
  <2>1. PICK k \in Nat \ {0} : k = Len(s)
    BY <1>1
  <2>2. k - 1 \in Nat /\ (k - 1) + 1 = k
    OBVIOUS
  <2> QED
    BY <2>1, <2>2
<1>3. PICK f \in Seq(S) : f = Front(s) /\ Len(f) = n /\ DOMAIN f = 1 .. n /\ \A i \in 1 .. n : f[i] = s[i]
  <2>1. 1 \in 1 .. Len(s) + 1 /\ n \in 0 .. Len(s)
    BY <1>2
  <2>2. PICK f : f = SubSeq(s, 1, n)
    OBVIOUS
  <2>3. f \in Seq(S) /\ Len(f) = n /\ \A i \in 1 .. n : f[i] = s[i]
    BY <1>2, <2>1, <2>2, SubSeqProperties
  <2>4. f = Front(s)
    BY <1>2, <2>2 DEF Front
  <2> QED
    BY <2>3, <2>4, LenProperties
<1>4. PICK l \in S : l = Last(s) /\ l = s[n + 1]
  BY <1>1, <1>2, ElementOfSeq DEF Last
<1>5. ToSet(s) = ToSet(f) \cup {l}
  <2>1. DOMAIN s = 1 .. n + 1
    BY <1>1, <1>2
  <2> QED
    BY <1>3, <1>4, <2>1 DEF ToSet
<1>6. PICK m \in Nat : m = Len(t) /\ DOMAIN t = 1 .. m
  BY LenProperties
<1>7. PICK c : c = f \o t
  OBVIOUS
<1>8. /\ c \in Seq(S) /\ DOMAIN c = 1 .. n + m
      /\ \A i \in 1 .. n + m : c[i] = IF i <= n THEN f[i] ELSE t[i - n]
  <2>1. c \in Seq(S) /\ Len(c) = Len(f) + Len(t)
    BY <1>7, ConcatProperties
  <2>2. \A i \in 1 .. Len(f) + Len(t) : c[i] = IF i <= Len(f) THEN f[i] ELSE t[i - Len(f)]
    BY <1>7, ConcatProperties
  <2> QED
    BY <1>3, <1>6, <2>1, <2>2, LenProperties
<1>9. ToSet(c) = ToSet(f) \cup ToSet(t)
  <2>1. ASSUME NEW x \in ToSet(c)
        PROVE  x \in ToSet(f) \cup ToSet(t)
    <3>1. PICK i \in 1 .. n + m : x = c[i]
      BY <1>8 DEF ToSet
    <3>2. CASE i <= n
      <4>1. i \in 1 .. n /\ x = f[i]
        BY <1>8, <3>1, <3>2
      <4> QED
        BY <1>3, <4>1 DEF ToSet
    <3>3. CASE ~(i <= n)
      <4>1. i - n \in 1 .. m
        BY <3>3
      <4> QED
        BY <1>6, <1>8, <3>1, <3>3, <4>1 DEF ToSet
    <3> QED
      BY <3>2, <3>3
  <2>2. ASSUME NEW x \in ToSet(f)
        PROVE  x \in ToSet(c)
    <3>1. PICK i \in 1 .. n : x = f[i]
      BY <1>3 DEF ToSet
    <3>2. i \in 1 .. n + m /\ c[i] = f[i]
      BY <1>8
    <3> QED
      BY <1>8, <3>1, <3>2 DEF ToSet
  <2>3. ASSUME NEW x \in ToSet(t)
        PROVE  x \in ToSet(c)
    <3>1. PICK i \in 1 .. m : x = t[i]
      BY <1>6 DEF ToSet
    <3>2. i + n \in 1 .. n + m /\ ~(i + n <= n) /\ (i + n) - n = i
      OBVIOUS
    <3>3. c[i + n] = t[i]
      BY <1>8, <3>2
    <3> QED
      BY <1>8, <3>1, <3>2, <3>3 DEF ToSet
  <2> QED
    BY <2>1, <2>2, <2>3
<1> QED
  BY <1>2, <1>3, <1>4, <1>5, <1>7, <1>8, <1>9

LEMMA AllSides ==
  ASSUME insert \in Inserts, NEW e \in Entities
  PROVE  /\ SidesOf(e) \in Seq(PendingSides)
         /\ \A s \in ToSet(SidesOf(e)) : s.left = e /\ s.relation \in RelationsOf(e)
         /\ \A r \in RelationsOf(e) : \E s \in ToSet(SidesOf(e)) : s.left = e /\ s.relation = r
         /\ insert.relationsOf[e] = <<>> => SidesOf(e) = <<>>
<1>1. SidesOf(e) \in Seq(PendingSides)
  BY SidesTypes
<1>2. PICK rs \in Seq(Relations) : rs = insert.relationsOf[e]
  BY InsertsAssumption
<1>3. SidesOf(e) = [n \in DOMAIN rs |-> [relation |-> rs[n], left |-> e, path |-> 0]]
  BY <1>2 DEF SidesOf
<1>4. \A s \in ToSet(SidesOf(e)) : s.left = e /\ s.relation \in RelationsOf(e)
  BY <1>2, <1>3 DEF ToSet, RelationsOf
<1>5. \A r \in RelationsOf(e) : \E s \in ToSet(SidesOf(e)) : s.left = e /\ s.relation = r
  BY <1>2, <1>3 DEF ToSet, RelationsOf
<1>6. ASSUME rs = <<>>
      PROVE  SidesOf(e) = <<>>
  <2>1. Len(SidesOf(e)) = 0
    BY <1>3, <1>6
  <2> QED
    BY <1>1, <2>1, EmptySeq
<1> QED
  BY <1>1, <1>2, <1>4, <1>5, <1>6

-----------------------------------------------------------------------------
(* The recursion over navigation properties.                               *)

LEMMA FirstReached == Reached(FirstVisit)
<1> DEFINE vs == [i \in 1 .. 1 |-> FirstVisit]
<1>1. vs[1] = FirstVisit
  OBVIOUS
<1>2. 1 .. (1 - 1) = {}
  OBVIOUS
<1> HIDE DEF vs
<1>3. Visits(vs, 1)
  BY <1>1, <1>2 DEF Visits
<1> QED
  BY <1>1, <1>3 DEF Reached

LEMMA NextReached ==
  ASSUME NEW v, Reached(v), v.sides # <<>>
  PROVE  Reached(NextVisit(v))
<1>1. PICK n \in Nat \ {0} : \E vs : Visits(vs, n) /\ vs[n] = v
  BY DEF Reached
<1>2. PICK vs : Visits(vs, n) /\ vs[n] = v
  BY <1>1
<1>3. PICK w : w = NextVisit(v)
  OBVIOUS
<1> DEFINE us == [i \in 1 .. n + 1 |-> IF i <= n THEN vs[i] ELSE w]
<1>4. (\A i \in 1 .. n : us[i] = vs[i]) /\ us[n + 1] = w
  OBVIOUS
<1> HIDE DEF us
<1>5. us[1] = FirstVisit
  BY <1>2, <1>4 DEF Visits
<1>6. ASSUME NEW i \in 1 .. (n + 1) - 1
      PROVE  us[i].sides # <<>> /\ us[i + 1] = NextVisit(us[i])
  <2>1. CASE i = n
    BY <1>2, <1>3, <1>4, <2>1
  <2>2. CASE i # n
    <3>1. i \in 1 .. n - 1 /\ i \in 1 .. n /\ i + 1 \in 1 .. n
      BY <2>2
    <3>2. vs[i].sides # <<>> /\ vs[i + 1] = NextVisit(vs[i])
      BY <1>2, <3>1 DEF Visits
    <3> QED
      BY <1>4, <3>1, <3>2
  <2> QED
    BY <2>1, <2>2
<1>7. Visits(us, n + 1)
  BY <1>5, <1>6 DEF Visits
<1> QED
  BY <1>3, <1>4, <1>7 DEF Reached

(* It is deterministic, so two of its runs that have ended are the same.   *)
LEMMA SameBeginning ==
  ASSUME NEW n \in Nat \ {0}, NEW m \in Nat \ {0}, n <= m,
         NEW vs, Visits(vs, n), NEW us, Visits(us, m)
  PROVE  vs[n] = us[n]
<1> DEFINE differ == {i \in 1 .. n : vs[i] # us[i]}
<1>1. SUFFICES ASSUME differ # {}
               PROVE  FALSE
  OBVIOUS
<1>2. differ \in SUBSET Nat
  OBVIOUS
<1> HIDE DEF differ
<1>3. PICK k \in differ : \A y \in differ : k <= y
  BY <1>1, <1>2, LeastNumber
<1>4. k \in 1 .. n /\ vs[k] # us[k] /\ \A y \in 1 .. n : vs[y] # us[y] => k <= y
  BY <1>3 DEF differ
<1>5. CASE k = 1
  BY <1>4, <1>5 DEF Visits
<1>6. CASE k # 1
  <2>1. PICK j \in Nat : j + 1 = k
    <3>1. k - 1 \in Nat /\ (k - 1) + 1 = k
      BY <1>4, <1>6
    <3> QED
      BY <3>1
  <2>2. j \in 1 .. n /\ j \in 1 .. n - 1 /\ j \in 1 .. m - 1 /\ ~(k <= j)
    BY <1>4, <1>6, <2>1
  <2>3. vs[j] = us[j]
    BY <1>4, <2>2
  <2>4. vs[j + 1] = NextVisit(vs[j]) /\ us[j + 1] = NextVisit(us[j])
    BY <2>2 DEF Visits
  <2> QED
    BY <1>4, <2>1, <2>3, <2>4
<1> QED
  BY <1>5, <1>6

LEMMA SameEnd ==
  ASSUME NEW v, Reached(v), v.sides = <<>>, NEW u, Reached(u), u.sides = <<>>
  PROVE  v = u
<1>1. PICK n \in Nat \ {0} : \E vs : Visits(vs, n) /\ vs[n] = v
  BY DEF Reached
<1>2. PICK vs : Visits(vs, n) /\ vs[n] = v
  BY <1>1
<1>3. PICK m \in Nat \ {0} : \E us : Visits(us, m) /\ us[m] = u
  BY DEF Reached
<1>4. PICK us : Visits(us, m) /\ us[m] = u
  BY <1>3
<1>5. CASE n <= m
  <2>1. vs[n] = us[n]
    BY <1>2, <1>4, <1>5, SameBeginning
  <2>2. n = m
    <3>1. SUFFICES ASSUME n # m
                   PROVE  FALSE
      OBVIOUS
    <3>2. n \in 1 .. m - 1
      BY <1>5, <3>1
    <3>3. us[n].sides # <<>>
      BY <1>4, <3>2 DEF Visits
    <3> QED
      BY <1>2, <2>1, <3>3
  <2> QED
    BY <1>2, <1>4, <2>1, <2>2
<1>6. CASE m <= n
  <2>1. us[m] = vs[m]
    BY <1>2, <1>4, <1>6, SameBeginning
  <2>2. n = m
    <3>1. SUFFICES ASSUME n # m
                   PROVE  FALSE
      OBVIOUS
    <3>2. m \in 1 .. n - 1
      BY <1>6, <3>1
    <3>3. vs[m].sides # <<>>
      BY <1>2, <3>2 DEF Visits
    <3> QED
      BY <1>4, <2>1, <3>3
  <2> QED
    BY <1>2, <1>4, <2>1, <2>2
<1> QED
  BY <1>5, <1>6

(* What the recursion has entered is a tree from the root, and what it has *)
(* still to enter is on the stack.                                         *)
SoundVisit(v) ==
  /\ v.sides \in Seq(PendingSides) /\ v.entered \subseteq Entities /\ insert.root \in v.entered
  /\ \A s \in ToSet(v.sides) : s.left \in v.entered /\ s.relation \in RelationsOf(s.left)
  /\ \A e \in v.entered : \A r \in RelationsOf(e) :
       HasNavigation(r, e) =>
         RightOf(r, e) \in v.entered \/ \E s \in ToSet(v.sides) : s.left = e /\ s.relation = r
  /\ \A w \in v.by : /\ w[2] \in v.entered /\ w[1] \in RelationsOf(w[2])
                     /\ RightOf(w[1], w[2]) \in v.entered \ {insert.root}
  /\ \A e \in v.entered \ {insert.root} : \E w \in v.by : RightOf(w[1], w[2]) = e
  /\ \A w, x \in v.by : RightOf(w[1], w[2]) = RightOf(x[1], x[2]) => w = x

LEMMA FirstSound == insert \in Inserts => SoundVisit(FirstVisit)
<1> SUFFICES ASSUME insert \in Inserts
             PROVE  SoundVisit(FirstVisit)
  OBVIOUS
<1>1. insert.root \in Entities
  BY InsertsAssumption
<1>2. /\ FirstVisit.sides = SidesOf(insert.root) /\ FirstVisit.entered = {insert.root}
      /\ FirstVisit.by = {}
  BY DEF FirstVisit, Visit
<1>3. PICK sides : sides = SidesOf(insert.root)
  OBVIOUS
<1>4. /\ sides \in Seq(PendingSides)
      /\ \A s \in ToSet(sides) : s.left = insert.root /\ s.relation \in RelationsOf(insert.root)
      /\ \A r \in RelationsOf(insert.root) : \E s \in ToSet(sides) : s.left = insert.root /\ s.relation = r
  BY <1>1, <1>3, AllSides
<1> QED
  BY <1>1, <1>2, <1>3, <1>4 DEF SoundVisit

LEMMA NextSound ==
  ASSUME insert \in Inserts, NEW v, SoundVisit(v), v.sides # <<>>
  PROVE  SoundVisit(NextVisit(v))
<1>1. PICK s : s = Last(v.sides)
  OBVIOUS
<1>2. PICK front : front = Front(v.sides)
  OBVIOUS
<1>3. /\ s \in PendingSides /\ front \in Seq(PendingSides) /\ ToSet(v.sides) = ToSet(front) \cup {s}
      /\ v.sides \in Seq(PendingSides)
  BY <1>1, <1>2, EmptySeq, LastOut DEF SoundVisit
<1>4. s.left \in v.entered /\ s.relation \in RelationsOf(s.left) /\ s.left \in Entities
  BY <1>3 DEF SoundVisit
<1>5. PICK e \in Entities : e = Leads(s) /\ e = RightOf(s.relation, s.left)
  BY <1>4, RelationTypes DEF Leads
<1>6. CASE HasNavigation(s.relation, s.left) /\ e \notin v.entered
  <2>1. PICK sides : sides = SidesOf(e)
    OBVIOUS
  <2>2. PICK all : all = front \o sides
    OBVIOUS
  <2>3. PICK w : w = NextVisit(v)
    OBVIOUS
  <2>4. /\ w.sides = all /\ w.entered = v.entered \cup {e}
        /\ w.by = v.by \cup {<<s.relation, s.left>>}
    BY <1>1, <1>2, <1>5, <1>6, <2>1, <2>2, <2>3 DEF NextVisit, Visit
  <2>5. /\ sides \in Seq(PendingSides)
        /\ \A t \in ToSet(sides) : t.left = e /\ t.relation \in RelationsOf(e)
        /\ \A r \in RelationsOf(e) : \E t \in ToSet(sides) : t.left = e /\ t.relation = r
    BY <2>1, AllSides
  <2>6. all \in Seq(PendingSides) /\ ToSet(all) = ToSet(front) \cup ToSet(sides)
    <3>1. PICK old \in Seq(PendingSides) : old = v.sides /\ old # <<>> /\ front = Front(old)
      BY <1>2, <1>3
    <3>2. sides \in Seq(PendingSides)
      BY <2>5
    <3>3. /\ Front(old) \o sides \in Seq(PendingSides)
          /\ ToSet(Front(old) \o sides) = ToSet(Front(old)) \cup ToSet(sides)
      BY <3>1, <3>2, LastOut
    <3> QED
      BY <2>2, <3>1, <3>3
  <2>7. \A t \in ToSet(w.sides) : t.left \in w.entered /\ t.relation \in RelationsOf(t.left)
    BY <1>3, <2>4, <2>5, <2>6 DEF SoundVisit
  <2>8. ASSUME NEW f \in w.entered, NEW r \in RelationsOf(f), HasNavigation(r, f)
        PROVE  RightOf(r, f) \in w.entered \/ \E t \in ToSet(w.sides) : t.left = f /\ t.relation = r
    <3>1. CASE f = e
      BY <2>4, <2>5, <2>6, <3>1
    <3>2. CASE f # e
      <4>1. f \in v.entered
        BY <2>4, <3>2
      <4>2. CASE RightOf(r, f) \in v.entered
        BY <2>4, <4>2
      <4>3. CASE \E t \in ToSet(v.sides) : t.left = f /\ t.relation = r
        <5>1. PICK t \in ToSet(v.sides) : t.left = f /\ t.relation = r
          BY <4>3
        <5>2. CASE t = s
          BY <1>5, <2>4, <5>1, <5>2
        <5>3. CASE t # s
          BY <1>3, <2>4, <2>6, <5>1, <5>3
        <5> QED
          BY <5>2, <5>3
      <4> QED
        BY <2>8, <4>1, <4>2, <4>3 DEF SoundVisit
    <3> QED
      BY <3>1, <3>2
  <2>9. PICK x : x = <<s.relation, s.left>>
    OBVIOUS
  <2>10. x[1] = s.relation /\ x[2] = s.left /\ RightOf(x[1], x[2]) = e /\ w.by = v.by \cup {x}
    BY <1>5, <2>4, <2>9
  <2>11. e # insert.root /\ \A y \in v.by : RightOf(y[1], y[2]) # e
    BY <1>6 DEF SoundVisit
  <2>12. \A y \in w.by : /\ y[2] \in w.entered /\ y[1] \in RelationsOf(y[2])
                         /\ RightOf(y[1], y[2]) \in w.entered \ {insert.root}
    BY <1>4, <2>4, <2>10, <2>11 DEF SoundVisit
  <2>13. \A f \in w.entered \ {insert.root} : \E y \in w.by : RightOf(y[1], y[2]) = f
    BY <2>4, <2>10 DEF SoundVisit
  <2>14. \A y, z \in w.by : RightOf(y[1], y[2]) = RightOf(z[1], z[2]) => y = z
    BY <2>10, <2>11 DEF SoundVisit
  <2>15. /\ w.sides \in Seq(PendingSides) /\ w.entered \subseteq Entities /\ insert.root \in w.entered
    BY <2>4, <2>6 DEF SoundVisit
  <2>16. SoundVisit(w)
    BY <2>7, <2>8, <2>12, <2>13, <2>14, <2>15 DEF SoundVisit
  <2> QED
    BY <2>3, <2>16
<1>7. CASE ~(HasNavigation(s.relation, s.left) /\ e \notin v.entered)
  <2>1. PICK w : w = NextVisit(v)
    OBVIOUS
  <2>2. w.sides = front /\ w.entered = v.entered /\ w.by = v.by
    BY <1>1, <1>2, <1>5, <1>7, <2>1 DEF NextVisit, Visit
  <2>3. ASSUME NEW f \in w.entered, NEW r \in RelationsOf(f), HasNavigation(r, f)
        PROVE  RightOf(r, f) \in w.entered \/ \E t \in ToSet(w.sides) : t.left = f /\ t.relation = r
    <3>1. CASE RightOf(r, f) \in v.entered
      BY <2>2, <3>1
    <3>2. CASE \E t \in ToSet(v.sides) : t.left = f /\ t.relation = r
      <4>1. PICK t \in ToSet(v.sides) : t.left = f /\ t.relation = r
        BY <3>2
      <4>2. CASE t = s
        BY <1>5, <1>7, <2>2, <2>3, <4>1, <4>2
      <4>3. CASE t # s
        BY <1>3, <2>2, <4>1, <4>3
      <4> QED
        BY <4>2, <4>3
    <3> QED
      BY <2>2, <2>3, <3>1, <3>2 DEF SoundVisit
  <2>4. SoundVisit(w)
    BY <1>3, <2>2, <2>3 DEF SoundVisit
  <2> QED
    BY <2>1, <2>4
<1> QED
  BY <1>6, <1>7

LEMMA ReachedIsSound ==
  ASSUME insert \in Inserts, NEW v, Reached(v)
  PROVE  SoundVisit(v)
<1>1. PICK n \in Nat \ {0} : \E vs : Visits(vs, n) /\ vs[n] = v
  BY DEF Reached
<1>2. PICK vs : Visits(vs, n) /\ vs[n] = v
  BY <1>1
<1> DEFINE wrong == {i \in 1 .. n : ~SoundVisit(vs[i])}
<1>3. SUFFICES ASSUME wrong # {}
               PROVE  FALSE
  BY <1>2
<1>4. wrong \in SUBSET Nat
  OBVIOUS
<1> HIDE DEF wrong
<1>5. PICK k \in wrong : \A y \in wrong : k <= y
  BY <1>3, <1>4, LeastNumber
<1>6. k \in 1 .. n /\ ~SoundVisit(vs[k]) /\ \A y \in 1 .. n : ~SoundVisit(vs[y]) => k <= y
  BY <1>5 DEF wrong
<1>7. CASE k = 1
  BY <1>2, <1>6, <1>7, FirstSound DEF Visits
<1>8. CASE k # 1
  <2>1. PICK j \in Nat : j + 1 = k
    <3>1. k - 1 \in Nat /\ (k - 1) + 1 = k
      BY <1>6, <1>8
    <3> QED
      BY <3>1
  <2>2. j \in 1 .. n /\ j \in 1 .. n - 1 /\ ~(k <= j)
    BY <1>6, <1>8, <2>1
  <2>3. SoundVisit(vs[j])
    BY <1>6, <2>2
  <2>4. vs[j].sides # <<>> /\ vs[j + 1] = NextVisit(vs[j])
    BY <1>2, <2>2 DEF Visits
  <2>5. SoundVisit(NextVisit(vs[j]))
    BY <2>3, <2>4, NextSound
  <2> QED
    BY <1>6, <2>1, <2>4, <2>5
<1> QED
  BY <1>7, <1>8

-----------------------------------------------------------------------------
(* Steps that do not concern the recursion.                                *)

LEMMA SameRecursion ==
  ASSUME UNCHANGED insert
  PROVE  /\ \A v : Reached(v)' <=> Reached(v)
         /\ \A e : SidesOf(e)' = SidesOf(e) /\ RelationsOf(e)' = RelationsOf(e)
         /\ \A r, e : RightOf(r, e)' = RightOf(r, e) /\ HasNavigation(r, e)' = HasNavigation(r, e)
         /\ Alone' = Alone /\ FirstVisit' = FirstVisit
<1>1. \A e : SidesOf(e)' = SidesOf(e) /\ RelationsOf(e)' = RelationsOf(e)
  BY DEF SidesOf, RelationsOf
<1>2. \A r, e : RightOf(r, e)' = RightOf(r, e) /\ HasNavigation(r, e)' = HasNavigation(r, e)
  BY DEF RightOf, HasNavigation
<1>3. FirstVisit' = FirstVisit
  BY <1>1 DEF FirstVisit, Visit
<1>4. ASSUME NEW v
      PROVE  NextVisit(v)' = NextVisit(v)
  BY <1>1, <1>2 DEF NextVisit, Leads, Visit
<1>5. ASSUME NEW vs, NEW n
      PROVE  Visits(vs, n)' <=> Visits(vs, n)
  BY <1>3, <1>4 DEF Visits
<1>6. \A v : Reached(v)' <=> Reached(v)
  BY <1>5 DEF Reached
<1>7. Alone' = Alone
  BY DEF Alone
<1> QED
  BY <1>1, <1>2, <1>3, <1>6, <1>7

LEMMA SameTree ==
  ASSUME UNCHANGED insert
  PROVE  /\ \A at, from : Tree(at, from)' <=> Tree(at, from)
         /\ Paths' = Paths /\ \A n : RelationAt(n)' = RelationAt(n)
BY DEF Tree, Paths, RelationAt

LEMMA OneMoreHeld ==
  ASSUME reachableEntities \in Seq(Holders), entities = <<>>, NEW h \in Holders,
         reachableEntities' = Append(reachableEntities, h), entities' = <<>>
  PROVE  /\ Holding' = Holding \cup {h}
         /\ Len(reachableEntities') + Len(entities') = Len(reachableEntities) + Len(entities) + 1
         /\ Once /\ (\A g \in Holding : g.entity # h.entity) => Once'
<1>1. PICK n \in Nat : n = Len(reachableEntities) /\ DOMAIN reachableEntities = 1 .. n
  BY LenProperties
<1>2. /\ DOMAIN reachableEntities' = 1 .. n + 1 /\ Len(reachableEntities') = n + 1
      /\ \A i \in 1 .. n : reachableEntities'[i] = reachableEntities[i]
      /\ reachableEntities'[n + 1] = h
  BY <1>1, AppendProperties, LenProperties
<1>3. /\ ToSet(entities) = {} /\ ToSet(entities') = {} /\ Len(entities) = 0 /\ Len(entities') = 0
      /\ DOMAIN entities = {} /\ DOMAIN entities' = {}
  BY DEF ToSet
<1>4. ToSet(reachableEntities') = ToSet(reachableEntities) \cup {h}
  BY <1>1, <1>2 DEF ToSet
<1>5. Holding' = Holding \cup {h}
  BY <1>3, <1>4 DEF Holding
<1>6. ASSUME Once, \A g \in Holding : g.entity # h.entity
      PROVE  Once'
  <2>1. \A i \in 1 .. n : reachableEntities[i] \in Holding
    BY <1>1 DEF Holding, ToSet
  <2>2. ASSUME NEW i \in 1 .. n + 1, NEW j \in 1 .. n + 1,
               reachableEntities'[i].entity = reachableEntities'[j].entity
        PROVE  i = j
    <3>1. CASE i = n + 1 /\ j = n + 1
      BY <3>1
    <3>2. CASE i = n + 1 /\ j # n + 1
      <4>1. j \in 1 .. n
        BY <3>2
      <4> QED
        BY <1>2, <1>6, <2>1, <2>2, <3>2, <4>1
    <3>3. CASE i # n + 1 /\ j = n + 1
      <4>1. i \in 1 .. n
        BY <3>3
      <4> QED
        BY <1>2, <1>6, <2>1, <2>2, <3>3, <4>1
    <3>4. CASE i # n + 1 /\ j # n + 1
      <4>1. i \in 1 .. n /\ j \in 1 .. n
        BY <3>4
      <4> QED
        BY <1>1, <1>2, <1>6, <2>2, <4>1 DEF Once
    <3> QED
      BY <3>1, <3>2, <3>3, <3>4
  <2> QED
    BY <1>2, <1>3, <2>2 DEF Once
<1> QED
  BY <1>1, <1>2, <1>3, <1>5, <1>6

LEMMA AddedIsHeld ==
  ASSUME PlanInv, AddEntity
  PROVE  /\ Holding' = Holding /\ (Once => Once')
         /\ Len(reachableEntities') + Len(entities') = Len(reachableEntities) + Len(entities)
<1>1. PICK k, n, m : k = entityIndex /\ n = Len(reachableEntities) /\ m = Len(entities)
  OBVIOUS
<1>2. /\ reachableEntities \in Seq(Holders) /\ entities \in Seq(Holders)
      /\ n \in Nat /\ m \in Nat /\ k \in 1 .. n
      /\ DOMAIN reachableEntities = 1 .. n /\ DOMAIN entities = 1 .. m
  BY <1>1, LenProperties DEF PlanInv, Typed, PlanTypeOK, AddEntity
<1>3. PICK h \in Holders : h = reachableEntities[k]
  BY <1>1, <1>2, ElementOfSeq
<1>4. entities' = Append(entities, h) /\ reachableEntities' = RemoveAt(reachableEntities, k)
  BY <1>1, <1>3 DEF AddEntity, NextHolder
<1>5. /\ DOMAIN entities' = 1 .. m + 1 /\ Len(entities') = m + 1
      /\ \A i \in 1 .. m : entities'[i] = entities[i]
      /\ entities'[m + 1] = h
  BY <1>1, <1>2, <1>4, AppendProperties, LenProperties
<1>6. /\ Len(reachableEntities') = n - 1 /\ DOMAIN reachableEntities' = 1 .. n - 1
      /\ \A j \in 1 .. n - 1 :
           reachableEntities'[j] = IF j < k THEN reachableEntities[j] ELSE reachableEntities[j + 1]
  <2>1. k \in 1 .. Len(reachableEntities)
    BY <1>1, <1>2
  <2>2. /\ reachableEntities' \in Seq(Holders) /\ Len(reachableEntities') = n - 1
        /\ \A j \in 1 .. n - 1 :
             reachableEntities'[j] = IF j < k THEN reachableEntities[j] ELSE reachableEntities[j + 1]
    BY <1>1, <1>2, <1>4, <2>1, Removing
  <2> QED
    BY <2>2, LenProperties
<1>7. \A j \in 1 .. n - 1 : \E i \in 1 .. n :
        i # k /\ reachableEntities'[j] = reachableEntities[i] /\ i = IF j < k THEN j ELSE j + 1
  <2> SUFFICES ASSUME NEW j \in 1 .. n - 1
               PROVE  \E i \in 1 .. n :
                        i # k /\ reachableEntities'[j] = reachableEntities[i] /\ i = IF j < k THEN j ELSE j + 1
    OBVIOUS
  <2>1. CASE j < k
    <3>1. j \in 1 .. n /\ j # k
      BY <1>2, <2>1
    <3> QED
      BY <1>6, <2>1, <3>1
  <2>2. CASE ~(j < k)
    <3>1. j + 1 \in 1 .. n /\ j + 1 # k
      BY <1>2, <2>2
    <3> QED
      BY <1>6, <2>2, <3>1
  <2> QED
    BY <2>1, <2>2
<1>8. ASSUME NEW i \in 1 .. n, i # k
      PROVE  \E j \in 1 .. n - 1 : reachableEntities'[j] = reachableEntities[i]
  <2>1. CASE i < k
    <3>1. i \in 1 .. n - 1
      BY <1>2, <2>1
    <3> QED
      BY <1>6, <2>1, <3>1
  <2>2. CASE ~(i < k)
    <3>1. i - 1 \in 1 .. n - 1 /\ ~(i - 1 < k) /\ (i - 1) + 1 = i
      BY <1>2, <1>8, <2>2
    <3> QED
      BY <1>6, <3>1
  <2> QED
    BY <2>1, <2>2
<1>9. Holding' = Holding
  <2>1. ToSet(entities') = ToSet(entities) \cup {h}
    BY <1>2, <1>5 DEF ToSet
  <2>2. ToSet(reachableEntities') \subseteq ToSet(reachableEntities)
    <3> SUFFICES ASSUME NEW j \in 1 .. n - 1
                 PROVE  reachableEntities'[j] \in ToSet(reachableEntities)
      BY <1>6 DEF ToSet
    <3>1. PICK i \in 1 .. n : reachableEntities'[j] = reachableEntities[i]
      BY <1>7
    <3> QED
      BY <1>2, <3>1 DEF ToSet
  <2>3. ToSet(reachableEntities) \subseteq ToSet(reachableEntities') \cup {h}
    <3> SUFFICES ASSUME NEW i \in 1 .. n
                 PROVE  reachableEntities[i] \in ToSet(reachableEntities') \cup {h}
      BY <1>2 DEF ToSet
    <3>1. CASE i = k
      BY <1>3, <3>1
    <3>2. CASE i # k
      BY <1>6, <1>8, <3>2 DEF ToSet
    <3> QED
      BY <3>1, <3>2
  <2>4. h \in ToSet(reachableEntities)
    BY <1>2, <1>3 DEF ToSet
  <2> QED
    BY <2>1, <2>2, <2>3, <2>4 DEF Holding
<1>10. ASSUME Once
       PROVE  Once'
  <2>1. ASSUME NEW i \in 1 .. n - 1, NEW j \in 1 .. n - 1,
               reachableEntities'[i].entity = reachableEntities'[j].entity
        PROVE  i = j
    <3>1. PICK a \in 1 .. n : /\ a # k /\ reachableEntities'[i] = reachableEntities[a]
                              /\ a = IF i < k THEN i ELSE i + 1
      BY <1>7
    <3>2. PICK b \in 1 .. n : /\ b # k /\ reachableEntities'[j] = reachableEntities[b]
                              /\ b = IF j < k THEN j ELSE j + 1
      BY <1>7
    <3>3. a = b
      BY <1>2, <1>10, <2>1, <3>1, <3>2 DEF Once
    <3> QED
      BY <1>2, <3>1, <3>2, <3>3
  <2>2. ASSUME NEW i \in 1 .. m + 1, NEW j \in 1 .. m + 1, entities'[i].entity = entities'[j].entity
        PROVE  i = j
    <3>1. CASE i = m + 1 /\ j = m + 1
      BY <3>1
    <3>2. CASE i = m + 1 /\ j # m + 1
      <4>1. j \in 1 .. m
        BY <1>2, <3>2
      <4> QED
        BY <1>2, <1>3, <1>5, <1>10, <2>2, <3>2, <4>1 DEF Once
    <3>3. CASE i # m + 1 /\ j = m + 1
      <4>1. i \in 1 .. m
        BY <1>2, <3>3
      <4> QED
        BY <1>2, <1>3, <1>5, <1>10, <2>2, <3>3, <4>1 DEF Once
    <3>4. CASE i # m + 1 /\ j # m + 1
      <4>1. i \in 1 .. m /\ j \in 1 .. m
        BY <1>2, <3>4
      <4> QED
        BY <1>2, <1>5, <1>10, <2>2, <4>1 DEF Once
    <3> QED
      BY <3>1, <3>2, <3>3, <3>4
  <2>3. ASSUME NEW i \in 1 .. n - 1, NEW j \in 1 .. m + 1
        PROVE  reachableEntities'[i].entity # entities'[j].entity
    <3>1. PICK a \in 1 .. n : a # k /\ reachableEntities'[i] = reachableEntities[a]
      BY <1>7
    <3>2. CASE j = m + 1
      BY <1>2, <1>3, <1>5, <1>10, <3>1, <3>2 DEF Once
    <3>3. CASE j # m + 1
      <4>1. j \in 1 .. m
        BY <1>2, <3>3
      <4> QED
        BY <1>2, <1>5, <1>10, <3>1, <4>1 DEF Once
    <3> QED
      BY <3>2, <3>3
  <2> QED
    BY <1>5, <1>6, <2>1, <2>2, <2>3 DEF Once
<1>11. Len(reachableEntities') + Len(entities') = Len(reachableEntities) + Len(entities)
  BY <1>1, <1>2, <1>5, <1>6
<1> QED
  BY <1>9, <1>10, <1>11

Ordering == BaseCompile \/ Postpone \/ AddEntity \/ EndPass

LEMMA OrderingHolds ==
  ASSUME PlanInv, Ordering
  PROVE  /\ UNCHANGED <<insert, visitedEntities, reachableRelations, pending>>
         /\ Holding' = Holding /\ (Once => Once')
         /\ Len(reachableEntities') + Len(entities') = Len(reachableEntities) + Len(entities)
         /\ phase \in {"collect", "order"} /\ (phase = "collect" => pending = <<>>)
         /\ phase' \in {"order", "ordered", "loop"}
         /\ phase' = "ordered" => reachableEntities' = <<>>
<1>1. CASE AddEntity
  BY <1>1, AddedIsHeld DEF AddEntity, collectVars
<1>2. CASE BaseCompile \/ Postpone \/ EndPass
  <2>1. UNCHANGED <<insert, visitedEntities, reachableRelations, pending, reachableEntities, entities>>
    BY <1>2 DEF BaseCompile, Postpone, EndPass, StartPass, collectVars
  <2>2. Holding' = Holding /\ (Once => Once')
    BY <2>1 DEF Holding, Once
  <2>3. /\ phase \in {"collect", "order"} /\ (phase = "collect" => pending = <<>>)
        /\ phase' \in {"order", "ordered", "loop"}
        /\ phase' = "ordered" => reachableEntities = <<>>
    BY <1>2 DEF BaseCompile, Postpone, EndPass, StartPass
  <2> QED
    BY <2>1, <2>2, <2>3
<1> QED
  BY <1>1, <1>2 DEF Ordering
-----------------------------------------------------------------------------
(* The plan of InsertWithAll follows the recursion.                        *)

LEMMA CollectsAnother ==
  ASSUME PlanInv, NEW e \in Entities, e \notin visitedEntities,
         NEW direct \in SUBSET Relations, Collect(e, direct),
         UNCHANGED insert, entities = <<>>, entities' = <<>>,
         Once, {h.entity : h \in Holding} = visitedEntities,
         \A f \in visitedEntities : \A r \in RelationsOf(f) :
           HasNavigation(r, f) => r \in reachableRelations
  PROVE  /\ Once' /\ visitedEntities' = visitedEntities \cup {e}
         /\ {h.entity : h \in Holding'} = visitedEntities'
         /\ \A f \in visitedEntities' : \A r \in RelationsOf(f)' :
              HasNavigation(r, f)' => r \in reachableRelations'
         /\ \E h \in Holders : h.entity = e /\ h.direct = direct /\ Holding' = Holding \cup {h}
<1>1. PICK h \in Holders : /\ h.entity = e /\ h.direct = direct
                           /\ reachableEntities' = Append(reachableEntities, h)
  BY Collects DEF PlanInv
<1>2. reachableEntities \in Seq(Holders)
  BY DEF PlanInv, Typed, PlanTypeOK
<1>3. \A g \in Holding : g.entity # h.entity
  BY <1>1
<1>4. Once' /\ Holding' = Holding \cup {h}
  BY <1>1, <1>2, <1>3, OneMoreHeld
<1>5. visitedEntities' = visitedEntities \cup {e}
  BY DEF Collect
<1>6. /\ \A r \in RelationsOf(e) : HasNavigation(r, e) => r \in reachableRelations'
      /\ reachableRelations \subseteq reachableRelations'
  BY DEF Collect, ToGenerated
<1>7. \A f \in visitedEntities' : \A r \in RelationsOf(f)' :
        HasNavigation(r, f)' => r \in reachableRelations'
  BY <1>5, <1>6, SameRecursion
<1>8. {g.entity : g \in Holding'} = visitedEntities'
  BY <1>1, <1>4, <1>5
<1> QED
  BY <1>1, <1>4, <1>5, <1>7, <1>8

LEMMA FitsCompileFromRoot == PlanInv /\ CompileFromRoot => PlanFitted'
<1> SUFFICES ASSUME PlanInv, CompileFromRoot
             PROVE  PlanFitted'
  OBVIOUS
<1>1. /\ phase = "start" /\ entities = <<>> /\ insert.root \in Entities
      /\ reachableEntities = <<>> /\ visitedEntities = {} /\ insert' = insert /\ insert.style = "all"
  BY InsertsAssumption DEF CompileFromRoot, PlanInv, NotYetPlanned, Typed
<1>2. CASE Alone
  <2>1. /\ entities' = <<Holder(insert.root, {}, {})>> /\ phase' = "ordered"
        /\ visitedEntities' = {} /\ reachableEntities' = <<>>
    BY <1>1, <1>2 DEF CompileFromRoot, Alone, collectVars
  <2>2. Alone' /\ AllInOrder' /\ OnlyRoot'
    BY <1>1, <1>2, <2>1, SameRecursion DEF AllInOrder, OnlyRoot, Holder, ForeignKeyLeft
  <2> QED
    BY <1>1, <2>1, <2>2 DEF PlanFitted
<1>3. CASE ~Alone
  <2>1. /\ Collect(insert.root, {}) /\ phase' = "collect"
        /\ pending' = SidesOf(insert.root) /\ entities' = <<>>
    BY <1>1, <1>3 DEF CompileFromRoot, Alone
  <2>2. Once /\ Holding = {}
    BY <1>1 DEF Once, Holding, ToSet
  <2>3. /\ Once' /\ visitedEntities' = {insert.root}
        /\ {h.entity : h \in Holding'} = visitedEntities'
        /\ \A f \in visitedEntities' : \A r \in RelationsOf(f)' :
             HasNavigation(r, f)' => r \in reachableRelations'
    BY <1>1, <2>1, <2>2, CollectsAnother
  <2>4. PICK v : v = FirstVisit
    OBVIOUS
  <2>5. v = Visit(pending, visitedEntities, {})'
    BY <2>1, <2>3, <2>4 DEF FirstVisit, Visit
  <2>6. Reached(v)'
    BY <1>1, <2>4, FirstReached, SameRecursion
  <2>7. Visited'
    BY <2>1, <2>3, <2>5, <2>6 DEF Visited
  <2>8. ~Alone' /\ AllInOrder'
    BY <1>1, <1>3, <2>1, SameRecursion DEF AllInOrder, Executing
  <2> QED
    BY <1>1, <2>1, <2>7, <2>8 DEF PlanFitted
<1> QED
  BY <1>2, <1>3

(* The visit that pending, visitedEntities and by are the state of.        *)
LEMMA CollectingVisit ==
  ASSUME PlanInv, PlanFitted, phase = "collect", insert.style = "all", pending # <<>>
  PROVE  /\ ~Alone /\ Once /\ {h.entity : h \in Holding} = visitedEntities /\ entities = <<>>
         /\ \A e \in visitedEntities : \A r \in RelationsOf(e) :
              HasNavigation(r, e) => r \in reachableRelations
         /\ \E by : /\ Reached(Visit(pending, visitedEntities, by))
                    /\ \A h \in Holding : \A w \in by :
                         RightOf(w[1], w[2]) = h.entity => h.direct \subseteq {w[1]}
BY DEF PlanInv, NotYetPlanned, PlanFitted, OnlyRoot, Visited

LEMMA FitsSkipSide == PlanInv /\ PlanFitted /\ SkipSide => PlanFitted'
<1> SUFFICES ASSUME PlanInv, PlanFitted, SkipSide
             PROVE  PlanFitted'
  OBVIOUS
<1>1. /\ phase = "collect" /\ phase' = "collect" /\ pending # <<>> /\ insert.style = "all"
      /\ ~(HasNavigation(NextSide.relation, NextSide.left) /\ Leads(NextSide) \notin visitedEntities)
      /\ pending' = Front(pending) /\ UNCHANGED insert
      /\ UNCHANGED <<visitedEntities, reachableRelations, reachableEntities, entities>>
  BY DEF SkipSide, orderVars
<1>2. PICK by : /\ Reached(Visit(pending, visitedEntities, by))
                /\ \A h \in Holding : \A w \in by :
                     RightOf(w[1], w[2]) = h.entity => h.direct \subseteq {w[1]}
  BY <1>1, CollectingVisit
<1>3. NextVisit(Visit(pending, visitedEntities, by)) = Visit(pending', visitedEntities', by)
  BY <1>1 DEF NextVisit, Visit, NextSide
<1>4. Reached(Visit(pending', visitedEntities', by))
  <2>1. Visit(pending, visitedEntities, by).sides # <<>>
    BY <1>1 DEF Visit
  <2> QED
    BY <1>2, <1>3, <2>1, NextReached
<1>5. Holding' = Holding /\ Once' = Once
  BY <1>1 DEF Holding, Once
<1>6. PICK v : v = Visit(pending, visitedEntities, by)' /\ Reached(v)'
  <2>1. PICK v : v = Visit(pending', visitedEntities', by)
    OBVIOUS
  <2>2. v = Visit(pending, visitedEntities, by)' /\ Reached(v)'
    BY <1>1, <1>4, <2>1, SameRecursion DEF Visit
  <2> QED
    BY <2>2
<1>7. /\ Once' /\ {h.entity : h \in Holding'} = visitedEntities'
      /\ \A e \in visitedEntities' : \A r \in RelationsOf(e)' :
           HasNavigation(r, e)' => r \in reachableRelations'
      /\ \A h \in Holding' : \A w \in by :
           RightOf(w[1], w[2])' = h.entity => h.direct \subseteq {w[1]}
  BY <1>1, <1>2, <1>5, CollectingVisit, SameRecursion
<1>8. Visited'
  BY <1>1, <1>6, <1>7 DEF Visited
<1>9. ~Alone' /\ AllInOrder'
  BY <1>1, CollectingVisit, SameRecursion DEF AllInOrder, Executing
<1> QED
  BY <1>1, <1>8, <1>9 DEF PlanFitted

LEMMA FitsCollectReachable == PlanInv /\ PlanFitted /\ CollectReachable => PlanFitted'
<1> SUFFICES ASSUME PlanInv, PlanFitted, CollectReachable
             PROVE  PlanFitted'
  OBVIOUS
<1>1. PICK s : s = NextSide
  OBVIOUS
<1>2. PICK e : e = Leads(s)
  OBVIOUS
<1>3. /\ phase = "collect" /\ phase' = "collect" /\ pending # <<>> /\ insert.style = "all"
      /\ HasNavigation(s.relation, s.left) /\ e \notin visitedEntities
      /\ Collect(e, {s.relation})
      /\ pending' = Front(pending) \o SidesOf(e) /\ UNCHANGED insert
      /\ UNCHANGED entities
  BY <1>1, <1>2 DEF CollectReachable, orderVars
<1>4. s \in PendingSides /\ e \in Entities /\ s.relation \in Relations
  BY <1>1, <1>2, <1>3, NextSideTypes DEF PlanInv, PendingSides
<1>5. PICK by : /\ Reached(Visit(pending, visitedEntities, by))
                /\ \A h \in Holding : \A w \in by :
                     RightOf(w[1], w[2]) = h.entity => h.direct \subseteq {w[1]}
  BY <1>3, CollectingVisit
<1>6. PICK x : x = <<s.relation, s.left>>
  OBVIOUS
<1>7. /\ ~Alone /\ Once /\ {h.entity : h \in Holding} = visitedEntities /\ entities = <<>>
      /\ \A f \in visitedEntities : \A r \in RelationsOf(f) :
           HasNavigation(r, f) => r \in reachableRelations
  BY <1>3, CollectingVisit
<1>8. /\ Once' /\ visitedEntities' = visitedEntities \cup {e}
      /\ {h.entity : h \in Holding'} = visitedEntities'
      /\ \A f \in visitedEntities' : \A r \in RelationsOf(f)' :
           HasNavigation(r, f)' => r \in reachableRelations'
  BY <1>3, <1>4, <1>7, CollectsAnother
<1>9. PICK h \in Holders : h.entity = e /\ h.direct = {s.relation} /\ Holding' = Holding \cup {h}
  <2>1. PICK direct \in SUBSET Relations : direct = {s.relation}
    BY <1>4
  <2>2. Collect(e, direct)
    BY <1>3, <2>1
  <2>3. \E h \in Holders : h.entity = e /\ h.direct = direct /\ Holding' = Holding \cup {h}
    BY <1>3, <1>4, <1>7, <2>2, CollectsAnother
  <2> QED
    BY <2>1, <2>3
<1>10. NextVisit(Visit(pending, visitedEntities, by)) = Visit(pending', visitedEntities', by \cup {x})
  BY <1>1, <1>2, <1>3, <1>6, <1>8 DEF NextVisit, Visit, NextSide
<1>11. Reached(Visit(pending', visitedEntities', by \cup {x}))
  <2>1. Visit(pending, visitedEntities, by).sides # <<>>
    BY <1>3 DEF Visit
  <2> QED
    BY <1>5, <1>10, <2>1, NextReached
<1>12. \A w \in by : RightOf(w[1], w[2]) \in visitedEntities
  <2>1. insert \in Inserts
    BY DEF PlanInv, Typed
  <2>2. SoundVisit(Visit(pending, visitedEntities, by))
    BY <1>5, <2>1, ReachedIsSound
  <2> QED
    BY <2>2 DEF SoundVisit, Visit
<1>13. x[1] = s.relation /\ RightOf(x[1], x[2]) = e
  BY <1>2, <1>6 DEF Leads
<1>14. \A g \in Holding' : \A w \in by \cup {x} :
         RightOf(w[1], w[2]) = g.entity => g.direct \subseteq {w[1]}
  BY <1>3, <1>5, <1>7, <1>9, <1>12, <1>13
<1>15. PICK by2 : by2 = by \cup {x}
  OBVIOUS
<1>16. PICK v : v = Visit(pending, visitedEntities, by2)' /\ Reached(v)'
  <2>1. PICK v : v = Visit(pending', visitedEntities', by2)
    OBVIOUS
  <2>2. v = Visit(pending, visitedEntities, by2)' /\ Reached(v)'
    BY <1>3, <1>11, <1>15, <2>1, SameRecursion DEF Visit
  <2> QED
    BY <2>2
<1>17. \A g \in Holding' : \A w \in by2 :
         RightOf(w[1], w[2])' = g.entity => g.direct \subseteq {w[1]}
  BY <1>3, <1>14, <1>15, SameRecursion
<1>18. Visited'
  BY <1>3, <1>8, <1>16, <1>17 DEF Visited
<1>19. ~Alone' /\ AllInOrder'
  BY <1>3, <1>7, SameRecursion DEF AllInOrder, Executing
<1> QED
  BY <1>3, <1>18, <1>19 DEF PlanFitted
-----------------------------------------------------------------------------
(* The plan of InsertWith follows the tree of paths.                       *)

LEMMA TreeFacts ==
  ASSUME insert \in Inserts, NEW at, NEW from, Tree(at, from)
  PROVE  /\ at[0] = insert.root /\ \A p \in Upto(Paths) : at[p] \in Entities
         /\ Paths = DOMAIN insert.paths /\ Upto(Paths) = 0 .. Len(insert.paths) /\ Len(insert.paths) \in Nat
         /\ \A p \in Upto(Paths) : /\ IsInjective(TrailingPath(p))
                                   /\ ToSet(TrailingPath(p)) = {n \in Paths : from[n] = p}
         /\ \A n \in Paths : /\ from[n] \in Upto(Paths) /\ from[n] < n
                             /\ HasNavigation(RelationAt(n), at[from[n]])
                             /\ RelationAt(n) \in RelationsOf(at[from[n]])
                             /\ at[n] = RightOf(RelationAt(n), at[from[n]])
<1>1. insert.paths \in Seq([relation : Relations, trailingPath : Seq(Nat)])
  BY InsertsAssumption
<1>2. Len(insert.paths) \in Nat /\ DOMAIN insert.paths = 1 .. Len(insert.paths)
  BY <1>1, LenProperties
<1>3. Paths = DOMAIN insert.paths /\ Upto(Paths) = 0 .. Len(insert.paths)
  BY <1>2 DEF Paths, Upto
<1>4. /\ at \in [Upto(Paths) -> Entities] /\ from \in [Paths -> Upto(Paths)]
      /\ PathTree(insert, at, from)
  BY <1>3 DEF Tree
<1>5. at[0] = insert.root
  BY <1>4 DEF PathTree
<1>6. \A p \in Upto(Paths) : /\ IsInjective(TrailingPath(p))
                             /\ ToSet(TrailingPath(p)) = {n \in Paths : from[n] = p}
  BY <1>3, <1>4 DEF PathTree, TrailingPath
<1>7. \A n \in Paths : /\ from[n] < n
                       /\ HasNavigation(RelationAt(n), at[from[n]])
                       /\ RelationAt(n) \in RelationsOf(at[from[n]])
                       /\ at[n] = RightOf(RelationAt(n), at[from[n]])
  BY <1>3, <1>4 DEF PathTree, HasNavigation, RelationAt, RelationsOf, RightOf
<1>8. /\ \A n \in Paths : from[n] \in Upto(Paths)
      /\ \A p \in Upto(Paths) : at[p] \in Entities
  BY <1>4
<1> QED
  BY <1>2, <1>3, <1>5, <1>6, <1>7, <1>8

(* Paths that no others hang on are all there are.                         *)
LEMMA WholeTree ==
  ASSUME insert \in Inserts, NEW at, NEW from, Tree(at, from), NEW done \in SUBSET Paths,
         \A n \in Paths \ done : from[n] \notin Upto(done)
  PROVE  done = Paths
<1> SUFFICES ASSUME Paths \ done # {}
             PROVE  FALSE
  OBVIOUS
<1>1. Paths \in SUBSET Nat
  BY DEF Paths
<1>2. PICK n \in Paths \ done : \A m \in Paths \ done : n <= m
  BY <1>1, LeastNumber
<1>3. from[n] \in Upto(Paths) /\ from[n] < n
  BY TreeFacts
<1>4. from[n] \in Paths \ done
  BY <1>3 DEF Upto
<1>5. n \in Nat /\ from[n] \in Nat
  BY <1>1, <1>4
<1> QED
  BY <1>2, <1>3, <1>4, <1>5

LEMMA AllButLast ==
  ASSUME NEW S, NEW s \in Seq(S), s # <<>>
  PROVE  /\ Front(s) \in Seq(S) /\ Len(Front(s)) = Len(s) - 1
         /\ \A i \in 1 .. Len(s) - 1 : Front(s)[i] = s[i]
<1>1. <<>> \in Seq(S)
  BY EmptySeq
<1> QED
  BY <1>1, LastOut

(* Taking the last side and stacking others keeps their paths distinct.    *)
LEMMA Stacked ==
  ASSUME NEW S, NEW s \in Seq(S), s # <<>>, NEW t \in Seq(S),
         \A i, j \in DOMAIN s : s[i].path = s[j].path => i = j,
         \A i, j \in DOMAIN t : t[i].path = t[j].path => i = j,
         \A x \in ToSet(Front(s)) : \A y \in ToSet(t) : x.path # y.path
  PROVE  /\ \A x \in ToSet(Front(s)) : x.path # Last(s).path
         /\ \A i, j \in DOMAIN (Front(s) \o t) :
              (Front(s) \o t)[i].path = (Front(s) \o t)[j].path => i = j
<1>1. /\ Front(s) \in Seq(S) /\ Len(Front(s)) = Len(s) - 1
      /\ \A i \in 1 .. Len(s) - 1 : Front(s)[i] = s[i]
  BY AllButLast
<1>2. PICK n \in Nat : n + 1 = Len(s)
  <2>1. Len(s) \in Nat \ {0}
    BY LenProperties, EmptySeq
  <2>2. PICK k \in Nat \ {0} : k = Len(s)
    BY <2>1
  <2>3. k - 1 \in Nat /\ (k - 1) + 1 = k
    OBVIOUS
  <2> QED
    BY <2>2, <2>3
<1>3. PICK f \in Seq(S) : f = Front(s) /\ Len(f) = n /\ DOMAIN f = 1 .. n /\ \A i \in 1 .. n : f[i] = s[i]
  <2>1. Len(s) - 1 = n
    BY <1>2
  <2> QED
    BY <1>1, <2>1, LenProperties
<1>4. DOMAIN s = 1 .. n + 1 /\ Last(s) = s[n + 1]
  BY <1>2, LenProperties DEF Last
<1>5. PICK m \in Nat : m = Len(t) /\ DOMAIN t = 1 .. m
  BY LenProperties
<1>6. PICK c : c = f \o t
  OBVIOUS
<1>7. /\ c \in Seq(S) /\ DOMAIN c = 1 .. n + m
      /\ \A i \in 1 .. n + m : c[i] = IF i <= n THEN f[i] ELSE t[i - n]
  <2>1. c \in Seq(S) /\ Len(c) = Len(f) + Len(t)
    BY <1>6, ConcatProperties
  <2>2. \A i \in 1 .. Len(f) + Len(t) : c[i] = IF i <= Len(f) THEN f[i] ELSE t[i - Len(f)]
    BY <1>6, ConcatProperties
  <2> QED
    BY <1>3, <1>5, <2>1, <2>2, LenProperties
<1>8. \A x \in ToSet(f) : x.path # Last(s).path
  <2> SUFFICES ASSUME NEW i \in 1 .. n
               PROVE  f[i].path # Last(s).path
    BY <1>3 DEF ToSet
  <2>1. i \in 1 .. n + 1 /\ n + 1 \in 1 .. n + 1 /\ i # n + 1
    OBVIOUS
  <2> QED
    BY <1>3, <1>4, <2>1
<1>9. \A i \in 1 .. n : \A j \in 1 .. m : f[i].path # t[j].path
  <2> SUFFICES ASSUME NEW i \in 1 .. n, NEW j \in 1 .. m
               PROVE  f[i].path # t[j].path
    OBVIOUS
  <2>1. f[i] \in ToSet(f) /\ t[j] \in ToSet(t)
    BY <1>3, <1>5 DEF ToSet
  <2> QED
    BY <1>3, <2>1
<1>10. \A i, j \in 1 .. n : f[i].path = f[j].path => i = j
  <2> SUFFICES ASSUME NEW i \in 1 .. n, NEW j \in 1 .. n, f[i].path = f[j].path
               PROVE  i = j
    OBVIOUS
  <2>1. i \in 1 .. n + 1 /\ j \in 1 .. n + 1
    OBVIOUS
  <2> QED
    BY <1>3, <1>4, <2>1
<1>11. ASSUME NEW i \in 1 .. n + m, NEW j \in 1 .. n + m, c[i].path = c[j].path
       PROVE  i = j
  <2>1. \A k \in 1 .. n + m : \/ k \in 1 .. n /\ c[k] = f[k]
                              \/ k - n \in 1 .. m /\ c[k] = t[k - n]
    BY <1>7
  <2>2. CASE i \in 1 .. n /\ c[i] = f[i] /\ j \in 1 .. n /\ c[j] = f[j]
    BY <1>10, <1>11, <2>2
  <2>3. CASE i \in 1 .. n /\ c[i] = f[i] /\ j - n \in 1 .. m /\ c[j] = t[j - n]
    BY <1>9, <1>11, <2>3
  <2>4. CASE i - n \in 1 .. m /\ c[i] = t[i - n] /\ j \in 1 .. n /\ c[j] = f[j]
    BY <1>9, <1>11, <2>4
  <2>5. CASE i - n \in 1 .. m /\ c[i] = t[i - n] /\ j - n \in 1 .. m /\ c[j] = t[j - n]
    <3>1. i - n = j - n
      BY <1>5, <1>11, <2>5
    <3> QED
      BY <3>1
  <2> QED
    BY <2>1, <2>2, <2>3, <2>4, <2>5
<1> QED
  BY <1>3, <1>6, <1>7, <1>8, <1>11

(* The sides that CollectPath stacks.                                      *)
LEMMA PathsStacked ==
  ASSUME insert \in Inserts, NEW at, NEW from, Tree(at, from), NEW p \in Upto(Paths), NEW e \in Entities
  PROVE  /\ PathsFrom(e, p) \in Seq(PendingSides)
         /\ \A s \in ToSet(PathsFrom(e, p)) :
              s.path \in Paths /\ from[s.path] = p /\ s.relation = RelationAt(s.path) /\ s.left = e
         /\ \A n \in Paths : from[n] = p => \E s \in ToSet(PathsFrom(e, p)) : s.path = n
         /\ \A i, j \in DOMAIN PathsFrom(e, p) : PathsFrom(e, p)[i].path = PathsFrom(e, p)[j].path => i = j
<1>1. p \in 0 .. Len(insert.paths)
  BY TreeFacts
<1>2. PathsFrom(e, p) \in Seq(PendingSides)
  BY <1>1, PathsTypes
<1>3. PICK tp : tp = TrailingPath(p)
  OBVIOUS
<1>4. IsInjective(tp) /\ ToSet(tp) = {n \in Paths : from[n] = p}
  BY <1>3, TreeFacts
<1>5. PathsFrom(e, p) = [n \in DOMAIN tp |-> [relation |-> RelationAt(tp[n]), left |-> e, path |-> tp[n]]]
  BY <1>3 DEF PathsFrom, RelationAt
<1>6. \A s \in ToSet(PathsFrom(e, p)) :
        s.path \in Paths /\ from[s.path] = p /\ s.relation = RelationAt(s.path) /\ s.left = e
  BY <1>4, <1>5 DEF ToSet
<1>7. \A n \in Paths : from[n] = p => \E s \in ToSet(PathsFrom(e, p)) : s.path = n
  BY <1>4, <1>5 DEF ToSet
<1>8. \A i, j \in DOMAIN PathsFrom(e, p) : PathsFrom(e, p)[i].path = PathsFrom(e, p)[j].path => i = j
  BY <1>4, <1>5 DEF IsInjective
<1> QED
  BY <1>2, <1>6, <1>7, <1>8
LEMMA FitsCompileFromRelations == PlanInv /\ PlanFitted /\ CompileFromRelations => PlanFitted'
<1> SUFFICES ASSUME PlanInv, PlanFitted, CompileFromRelations
             PROVE  PlanFitted'
  OBVIOUS
<1>1. /\ phase = "start" /\ phase' = "collect" /\ insert.style = "with" /\ UNCHANGED insert
      /\ CollectPath(insert.root, 0, {}) /\ pending' = PathsFrom(insert.root, 0)
      /\ entities = <<>> /\ entities' = <<>>
      /\ reachableEntities = <<>> /\ visitedEntities = {} /\ reachableRelations = {}
  BY DEF CompileFromRelations, orderVars, PlanInv, NotYetPlanned, PlanFitted
<1>2. insert \in Inserts /\ insert.root \in Entities /\ Typed
  BY InsertsAssumption DEF PlanInv, Typed
<1>3. AllInOrder'
  BY <1>1 DEF AllInOrder, Executing
<1>4. ASSUME NEW at, NEW from, Tree(at, from)
      PROVE  GatheredTree(at, from)'
  <2>1. /\ at[0] = insert.root /\ 0 \in Upto(Paths) /\ 0 \in 0 .. Len(insert.paths) /\ 0 \notin Paths
    BY <1>2, <1>4, TreeFacts DEF Upto, Paths
  <2>2. PICK h \in Holders : /\ h.entity = insert.root /\ h.direct = {}
                             /\ reachableEntities' = Append(reachableEntities, h)
    BY <1>1, <1>2, <2>1, CollectsPath
  <2>3. /\ Holding' = {h} /\ Len(reachableEntities') + Len(entities') = 1
    <3>1. reachableEntities \in Seq(Holders)
      BY DEF PlanInv, Typed, PlanTypeOK
    <3>2. /\ Holding' = Holding \cup {h}
          /\ Len(reachableEntities') + Len(entities') = Len(reachableEntities) + Len(entities) + 1
      BY <1>1, <2>2, <3>1, OneMoreHeld
    <3>3. Holding = {} /\ Len(reachableEntities) = 0 /\ Len(entities) = 0
      BY <1>1 DEF Holding, ToSet
    <3> QED
      BY <3>2, <3>3
  <2>4. PICK sides : sides = PathsFrom(insert.root, 0)
    OBVIOUS
  <2>5. /\ \A s \in ToSet(sides) :
             s.path \in Paths /\ from[s.path] = 0 /\ s.relation = RelationAt(s.path) /\ s.left = insert.root
        /\ \A n \in Paths : from[n] = 0 => \E s \in ToSet(sides) : s.path = n
        /\ \A i, j \in DOMAIN sides : sides[i].path = sides[j].path => i = j
        /\ {insert.paths[n].relation : n \in ToSet(TrailingPath(0))} =
             {RelationAt(n) : n \in {m \in Paths : from[m] = 0}}
    <3>1. /\ \A s \in ToSet(PathsFrom(insert.root, 0)) :
               s.path \in Paths /\ from[s.path] = 0 /\ s.relation = RelationAt(s.path) /\ s.left = insert.root
          /\ \A n \in Paths : from[n] = 0 => \E s \in ToSet(PathsFrom(insert.root, 0)) : s.path = n
          /\ \A i, j \in DOMAIN PathsFrom(insert.root, 0) :
               PathsFrom(insert.root, 0)[i].path = PathsFrom(insert.root, 0)[j].path => i = j
      BY <1>2, <1>4, <2>1, PathsStacked
    <3>2. ToSet(TrailingPath(0)) = {m \in Paths : from[m] = 0}
      BY <1>2, <1>4, <2>1, TreeFacts
    <3> QED
      BY <2>4, <3>1, <3>2 DEF RelationAt
  <2>6. Paths' = Paths /\ \A n : RelationAt(n)' = RelationAt(n)
    BY <1>1, SameTree
  <2>7. /\ visitedEntities' = {insert.root}
        /\ reachableRelations' = {RelationAt(n) : n \in {m \in Paths : from[m] = 0}}
    BY <1>1, <2>5 DEF CollectPath
  <2>8. Cardinality({}) = 0
    BY FS_EmptySet
  <2>9. PICK done : done = {}
    OBVIOUS
  <2>10. Upto(done) = {0} /\ done \in SUBSET Paths /\ Cardinality(done) = 0
    BY <2>8, <2>9 DEF Upto
  <2>11. Gathered(at, from, done)'
    <3>1. \A n \in done : from[n] \in Upto(done)
      BY <2>9
    <3>2. visitedEntities' = {at[n] : n \in Upto(done)}
      BY <2>1, <2>7, <2>10
    <3>3. reachableRelations' = {RelationAt(n)' : n \in {m \in Paths' : from[m] \in Upto(done)}}
      BY <2>6, <2>7, <2>10
    <3>4. Len(reachableEntities') + Len(entities') = Cardinality(done) + 1
      BY <2>3, <2>10
    <3>5. \A g \in Holding' : \E n \in Upto(done) :
            g.entity = at[n] /\ g.direct \subseteq {RelationAt(m)' : m \in done \cap {n}}
      BY <2>1, <2>2, <2>3, <2>10
    <3>6. {g.entity : g \in Holding'} = visitedEntities'
      BY <2>2, <2>3, <2>7
    <3> QED
      BY <3>1, <3>2, <3>3, <3>4, <3>5, <3>6 DEF Gathered, Upto
  <2>12. Gathering(at, from, done)'
    <3>1. pending' = sides
      BY <1>1, <2>4
    <3>2. \A s \in ToSet(pending') :
            /\ s.path \in Paths' \ done /\ from[s.path] \in Upto(done)
            /\ s.relation = RelationAt(s.path)' /\ s.left = at[from[s.path]]
      BY <2>1, <2>5, <2>6, <2>9, <2>10, <3>1
    <3>3. \A i, j \in DOMAIN pending' : pending'[i].path = pending'[j].path => i = j
      BY <2>5, <3>1
    <3>4. \A n \in Paths' \ done : from[n] \in Upto(done) => \E s \in ToSet(pending') : s.path = n
      BY <2>5, <2>6, <2>10, <3>1
    <3> QED
      BY <3>2, <3>3, <3>4 DEF Gathering, Upto
  <2> QED
    BY <1>1, <2>6, <2>10, <2>11, <2>12 DEF GatheredTree
<1> QED
  BY <1>1, <1>3, <1>4, SameTree DEF PlanFitted

LEMMA FitsCollectRelationPath == PlanInv /\ PlanFitted /\ CollectRelationPath => PlanFitted'
<1> SUFFICES ASSUME PlanInv, PlanFitted, CollectRelationPath
             PROVE  PlanFitted'
  OBVIOUS
<1>1. PICK side : side = NextSide
  OBVIOUS
<1>2. PICK e, direct : e = Leads(side) /\ direct = IF HasGeneratedKey(e) THEN {} ELSE {side.relation}
  OBVIOUS
<1>3. PICK p : p = side.path
  OBVIOUS
<1>4. /\ phase = "collect" /\ phase' = "collect" /\ pending # <<>> /\ insert.style = "with"
      /\ CollectPath(e, p, direct) /\ UNCHANGED insert
      /\ pending' = Front(pending) \o PathsFrom(e, p)
      /\ entities = <<>> /\ entities' = <<>>
  BY <1>1, <1>2, <1>3 DEF CollectRelationPath, orderVars, PlanInv, NotYetPlanned
<1>5. insert \in Inserts /\ Typed /\ side \in PendingSides /\ e \in Entities
      /\ side.relation \in Relations /\ p \in 0 .. Len(insert.paths)
  BY <1>1, <1>2, <1>3, <1>4, NextSideTypes DEF PlanInv, Typed, PendingSides
<1>6. AllInOrder'
  BY <1>4 DEF AllInOrder, Executing
<1>7. ASSUME NEW at, NEW from, Tree(at, from)
      PROVE  GatheredTree(at, from)'
  <2>1. PICK done \in SUBSET Paths : Gathered(at, from, done) /\ Gathering(at, from, done)
    BY <1>4, <1>7 DEF PlanFitted, GatheredTree
  <2>2. PICK old \in Seq(PendingSides) : old = pending /\ old # <<>>
    BY <1>4, <1>5 DEF Typed, PlanTypeOK
  <2>3. PICK sides : sides = PathsFrom(e, p)
    OBVIOUS
  <2>4. p \in Upto(Paths)
    BY <1>5, <1>7, TreeFacts
  <2>5. /\ sides \in Seq(PendingSides)
        /\ \A s \in ToSet(sides) :
             s.path \in Paths /\ from[s.path] = p /\ s.relation = RelationAt(s.path) /\ s.left = e
        /\ \A n \in Paths : from[n] = p => \E s \in ToSet(sides) : s.path = n
        /\ \A i, j \in DOMAIN sides : sides[i].path = sides[j].path => i = j
        /\ {insert.paths[n].relation : n \in ToSet(TrailingPath(p))} =
             {RelationAt(n) : n \in {m \in Paths : from[m] = p}}
    <3>1. /\ PathsFrom(e, p) \in Seq(PendingSides)
          /\ \A s \in ToSet(PathsFrom(e, p)) :
               s.path \in Paths /\ from[s.path] = p /\ s.relation = RelationAt(s.path) /\ s.left = e
          /\ \A n \in Paths : from[n] = p => \E s \in ToSet(PathsFrom(e, p)) : s.path = n
          /\ \A i, j \in DOMAIN PathsFrom(e, p) :
               PathsFrom(e, p)[i].path = PathsFrom(e, p)[j].path => i = j
      BY <1>5, <1>7, <2>4, PathsStacked, Zenon
    <3>2. ToSet(TrailingPath(p)) = {m \in Paths : from[m] = p}
      BY <1>5, <1>7, <2>4, TreeFacts
    <3> QED
      BY <2>3, <3>1, <3>2 DEF RelationAt
  <2>6. /\ ToSet(old) = ToSet(Front(old)) \cup {side}
        /\ ToSet(Front(old) \o sides) = ToSet(Front(old)) \cup ToSet(sides)
    <3>1. side = Last(old)
      BY <1>1, <2>2 DEF NextSide
    <3> QED
      BY <2>2, <2>5, <3>1, LastOut
  <2>7. /\ p \in Paths \ done /\ from[p] \in Upto(done)
        /\ side.relation = RelationAt(p) /\ side.left = at[from[p]]
    BY <1>3, <2>1, <2>2, <2>6 DEF Gathering
  <2>8. e = at[p] /\ from[p] < p
    BY <1>2, <1>5, <1>7, <2>7, TreeFacts DEF Leads
  <2>9. p # 0 /\ p \notin Upto(done) /\ from[p] # p /\ p \in Nat
    BY <2>7, <2>8 DEF Upto, Paths
  <2>10. \A s \in ToSet(Front(old)) : s \in ToSet(pending)
    BY <2>2, <2>6
  <2>11. \A x \in ToSet(Front(old)) : \A y \in ToSet(sides) : x.path # y.path
    BY <2>1, <2>5, <2>9, <2>10 DEF Gathering
  <2>12. /\ \A x \in ToSet(Front(old)) : x.path # p
         /\ \A i, j \in DOMAIN (Front(old) \o sides) :
              (Front(old) \o sides)[i].path = (Front(old) \o sides)[j].path => i = j
    <3>1. \A i, j \in DOMAIN old : old[i].path = old[j].path => i = j
      BY <2>1, <2>2 DEF Gathering
    <3>2. \A i, j \in DOMAIN sides : sides[i].path = sides[j].path => i = j
      BY <2>5
    <3>3. Last(old).path = p
      BY <1>1, <1>3, <2>2 DEF NextSide
    <3>4. old \in Seq(PendingSides) /\ old # <<>> /\ sides \in Seq(PendingSides)
      BY <2>2, <2>5
    <3>5. /\ \A x \in ToSet(Front(old)) : x.path # Last(old).path
          /\ \A i, j \in DOMAIN (Front(old) \o sides) :
               (Front(old) \o sides)[i].path = (Front(old) \o sides)[j].path => i = j
      BY <2>11, <3>1, <3>2, <3>4, Stacked, Zenon
    <3> QED
      BY <3>3, <3>5
  <2>13. PICK done2 : done2 = done \cup {p}
    OBVIOUS
  <2>14. done2 \in SUBSET Paths /\ Upto(done2) = Upto(done) \cup {p}
    BY <2>7, <2>13 DEF Upto
  <2>15. Paths' = Paths /\ \A n : RelationAt(n)' = RelationAt(n)
    BY <1>4, SameTree
  <2>16. direct \in SUBSET Relations /\ direct \subseteq {RelationAt(p)}
    BY <1>2, <1>5, <2>7
  <2>17. PICK h \in Holders : /\ h.entity = e /\ h.direct = direct
                              /\ reachableEntities' = Append(reachableEntities, h)
    BY <1>4, <1>5, <2>16, CollectsPath
  <2>18. /\ Holding' = Holding \cup {h}
         /\ Len(reachableEntities') + Len(entities') = Len(reachableEntities) + Len(entities) + 1
    <3>1. reachableEntities \in Seq(Holders)
      BY <1>5 DEF Typed, PlanTypeOK
    <3> QED
      BY <1>4, <2>17, <3>1, OneMoreHeld
  <2>19. /\ visitedEntities' = visitedEntities \cup {e}
         /\ reachableRelations' = reachableRelations \cup {RelationAt(n) : n \in {m \in Paths : from[m] = p}}
    BY <1>4, <2>5 DEF CollectPath
  <2>20. Cardinality(done2) = Cardinality(done) + 1 /\ Cardinality(done) \in Nat
    <3>1. IsFiniteSet(done)
      <4>1. Len(insert.paths) \in Nat
        BY <1>5, <1>7, TreeFacts
      <4>2. IsFiniteSet(Paths)
        BY <4>1, FS_Interval DEF Paths
      <4> QED
        BY <4>2, FS_Subset
    <3>2. p \notin done
      BY <2>7
    <3> QED
      BY <2>13, <3>1, <3>2, FS_AddElement, FS_CardinalityType
  <2>21. Gathered(at, from, done2)'
    <3>1. \A n \in done2 : from[n] \in Upto(done2)
      BY <2>1, <2>7, <2>13, <2>14 DEF Gathered
    <3>2. visitedEntities' = {at[n] : n \in Upto(done2)}
      BY <2>1, <2>8, <2>14, <2>19 DEF Gathered
    <3>3. reachableRelations' = {RelationAt(n)' : n \in {m \in Paths' : from[m] \in Upto(done2)}}
      BY <2>1, <2>14, <2>15, <2>19 DEF Gathered
    <3>4. Len(reachableEntities') + Len(entities') = Cardinality(done2) + 1
      BY <2>1, <2>18, <2>20 DEF Gathered
    <3>5. \A g \in Holding' : \E n \in Upto(done2) :
            g.entity = at[n] /\ g.direct \subseteq {RelationAt(m)' : m \in done2 \cap {n}}
      <4>1. ASSUME NEW g \in Holding
            PROVE  \E n \in Upto(done2) :
                     g.entity = at[n] /\ g.direct \subseteq {RelationAt(m)' : m \in done2 \cap {n}}
        <5>1. PICK n \in Upto(done) :
                g.entity = at[n] /\ g.direct \subseteq {RelationAt(m) : m \in done \cap {n}}
          BY <2>1 DEF Gathered
        <5>2. n \in Upto(done2) /\ done \cap {n} \subseteq done2 \cap {n}
          BY <2>13, <2>14
        <5>3. g.direct \subseteq {RelationAt(m)' : m \in done2 \cap {n}}
          BY <2>15, <5>1, <5>2
        <5> QED
          BY <5>1, <5>2, <5>3
      <4>2. p \in Upto(done2) /\ h.entity = at[p] /\ h.direct \subseteq {RelationAt(m)' : m \in done2 \cap {p}}
        BY <2>8, <2>13, <2>14, <2>15, <2>16, <2>17
      <4> QED
        BY <2>18, <4>1, <4>2
    <3>6. {g.entity : g \in Holding'} = visitedEntities'
      BY <2>1, <2>17, <2>18, <2>19 DEF Gathered
    <3> QED
      BY <3>1, <3>2, <3>3, <3>4, <3>5, <3>6 DEF Gathered, Upto
  <2>22. Gathering(at, from, done2)'
    <3>1. pending' = Front(old) \o sides /\ ToSet(pending') = ToSet(Front(old)) \cup ToSet(sides)
      BY <1>4, <2>2, <2>3, <2>6
    <3>2. ASSUME NEW s \in ToSet(pending')
          PROVE  /\ s.path \in Paths \ done2 /\ from[s.path] \in Upto(done2)
                 /\ s.relation = RelationAt(s.path) /\ s.left = at[from[s.path]]
      <4>1. CASE s \in ToSet(Front(old))
        BY <2>1, <2>10, <2>12, <2>13, <2>14, <4>1 DEF Gathering
      <4>2. CASE s \in ToSet(sides)
        <5>1. s.path \in Paths /\ from[s.path] = p /\ s.relation = RelationAt(s.path) /\ s.left = e
          BY <2>5, <4>2
        <5>2. s.path # p
          BY <2>9, <5>1
        <5>3. s.path \notin done
          BY <2>1, <2>9, <5>1 DEF Gathered
        <5> QED
          BY <2>8, <2>13, <2>14, <5>1, <5>2, <5>3
      <4> QED
        BY <3>1, <4>1, <4>2
    <3>3. \A i, j \in DOMAIN pending' : pending'[i].path = pending'[j].path => i = j
      BY <2>12, <3>1
    <3>4. ASSUME NEW n \in Paths \ done2, from[n] \in Upto(done2)
          PROVE  \E s \in ToSet(pending') : s.path = n
      <4>1. CASE from[n] = p
        BY <2>5, <3>1, <4>1
      <4>2. CASE from[n] # p
        <5>1. n \in Paths \ done /\ n # p /\ from[n] \in Upto(done)
          BY <2>13, <2>14, <3>4, <4>2
        <5>2. PICK s \in ToSet(pending) : s.path = n
          BY <2>1, <5>1 DEF Gathering
        <5>3. s \in ToSet(Front(old))
          BY <1>3, <2>2, <2>6, <5>1, <5>2
        <5> QED
          BY <3>1, <5>2, <5>3
      <4> QED
        BY <4>1, <4>2
    <3> QED
      BY <2>15, <3>2, <3>3, <3>4 DEF Gathering, Upto
  <2> QED
    BY <1>4, <2>14, <2>15, <2>21, <2>22 DEF GatheredTree
<1> QED
  BY <1>4, <1>6, <1>7, SameTree DEF PlanFitted
LEMMA GatheredStays ==
  ASSUME UNCHANGED <<insert, visitedEntities, reachableRelations>>, Holding' = Holding,
         Len(reachableEntities') + Len(entities') = Len(reachableEntities) + Len(entities),
         NEW at, NEW from, NEW done, Gathered(at, from, done)
  PROVE  Gathered(at, from, done)'
<1>1. Paths' = Paths /\ \A n : RelationAt(n)' = RelationAt(n)
  BY SameTree
<1>2. reachableRelations' = {RelationAt(n)' : n \in {m \in Paths' : from[m] \in Upto(done)}}
  BY <1>1 DEF Gathered
<1>3. \A h \in Holding' : \E n \in Upto(done) :
        h.entity = at[n] /\ h.direct \subseteq {RelationAt(m)' : m \in done \cap {n}}
  <2> SUFFICES ASSUME NEW h \in Holding
               PROVE  \E n \in Upto(done) :
                        h.entity = at[n] /\ h.direct \subseteq {RelationAt(m)' : m \in done \cap {n}}
    OBVIOUS
  <2>1. PICK n \in Upto(done) : h.entity = at[n] /\ h.direct \subseteq {RelationAt(m) : m \in done \cap {n}}
    BY DEF Gathered
  <2> QED
    BY <1>1, <2>1
<1>4. /\ \A n \in done : from[n] \in Upto(done)
      /\ visitedEntities' = {at[n] : n \in Upto(done)}
      /\ Len(reachableEntities') + Len(entities') = Cardinality(done) + 1
      /\ {h.entity : h \in Holding'} = visitedEntities'
  BY DEF Gathered
<1> QED
  BY <1>2, <1>3, <1>4 DEF Gathered, Upto

LEMMA FitsOrdering == PlanInv /\ PlanFitted /\ Ordering => PlanFitted'
<1> SUFFICES ASSUME PlanInv, PlanFitted, Ordering
             PROVE  PlanFitted'
  OBVIOUS
<1>1. /\ UNCHANGED <<insert, visitedEntities, reachableRelations, pending>>
      /\ Holding' = Holding /\ (Once => Once')
      /\ Len(reachableEntities') + Len(entities') = Len(reachableEntities) + Len(entities)
      /\ phase \in {"collect", "order"} /\ (phase = "collect" => pending = <<>>)
      /\ phase' \in {"order", "ordered", "loop"}
      /\ phase' = "ordered" => reachableEntities' = <<>>
  BY OrderingHolds
<1>2. AllInOrder'
  BY <1>1 DEF AllInOrder, Executing
<1>3. ASSUME insert.style = "all"
      PROVE  ~Alone' /\ Visited'
  <2>1. ~Alone /\ Visited
    BY <1>1, <1>3 DEF PlanFitted, OnlyRoot
  <2>2. PICK by : /\ Reached(Visit(IF phase = "collect" THEN pending ELSE <<>>, visitedEntities, by))
                  /\ \A h \in Holding : \A w \in by :
                       RightOf(w[1], w[2]) = h.entity => h.direct \subseteq {w[1]}
    BY <2>1 DEF Visited
  <2>3. PICK v : v = Visit(<<>>, visitedEntities, by)
    OBVIOUS
  <2>4. Reached(v)
    BY <1>1, <2>2, <2>3
  <2>5. Reached(v)'
    BY <1>1, <2>4, SameRecursion
  <2>6. v = Visit(IF phase' = "collect" THEN pending' ELSE <<>>, visitedEntities', by)
    BY <1>1, <2>3
  <2>7. \A h \in Holding' : \A w \in by : RightOf(w[1], w[2])' = h.entity => h.direct \subseteq {w[1]}
    BY <1>1, <2>2, SameRecursion
  <2>8. /\ Once' /\ {h.entity : h \in Holding'} = visitedEntities'
        /\ \A e \in visitedEntities' : \A r \in RelationsOf(e)' :
             HasNavigation(r, e)' => r \in reachableRelations'
    BY <1>1, <2>1, SameRecursion DEF Visited
  <2>9. v = Visit(IF phase = "collect" THEN pending ELSE <<>>, visitedEntities, by)'
    BY <2>6 DEF Visit
  <2>10. Visited'
    BY <2>5, <2>7, <2>8, <2>9 DEF Visited
  <2> QED
    BY <1>1, <2>1, <2>10, SameRecursion
<1>4. ASSUME insert.style = "with", NEW at, NEW from, Tree(at, from)
      PROVE  GatheredTree(at, from)'
  <2>1. insert \in Inserts
    BY DEF PlanInv, Typed
  <2>2. PICK done \in SUBSET Paths :
          Gathered(at, from, done) /\ IF phase = "collect" THEN Gathering(at, from, done) ELSE done = Paths
    BY <1>1, <1>4 DEF PlanFitted, GatheredTree
  <2>3. done = Paths
    <3>1. CASE phase = "collect"
      <4>1. ToSet(pending) = {} /\ Gathering(at, from, done)
        BY <1>1, <2>2, <3>1 DEF ToSet
      <4>2. \A n \in Paths \ done : from[n] \notin Upto(done)
        BY <4>1 DEF Gathering
      <4> QED
        BY <1>4, <2>1, <4>2, WholeTree
    <3>2. CASE phase # "collect"
      BY <2>2, <3>2
    <3> QED
      BY <3>1, <3>2
  <2>4. Paths' = Paths /\ \A n : RelationAt(n)' = RelationAt(n)
    BY <1>1, SameTree
  <2>5. Gathered(at, from, done)'
    BY <1>1, <2>2, GatheredStays
  <2> QED
    BY <1>1, <2>3, <2>4, <2>5 DEF GatheredTree
<1> QED
  BY <1>1, <1>2, <1>3, <1>4, SameTree DEF PlanFitted

LEMMA FitsInit == PlanInit => PlanFitted
BY DEF PlanInit, PlanFitted, AllInOrder, Executing

LEMMA SamePlanFitted ==
  ASSUME PlanFitted, UNCHANGED <<insert, visitedEntities, reachableRelations, reachableEntities, entities>>,
         phase' \notin {"start", "collect", "order"}, phase \notin {"start", "collect"},
         phase' = "ordered" \/ Executing' => phase = "ordered" \/ Executing
  PROVE  PlanFitted'
<1>1. Holding' = Holding /\ Once' = Once
  BY DEF Holding, Once
<1>2. AllInOrder'
  BY DEF PlanFitted, AllInOrder
<1>3. ASSUME insert.style = "all", Alone
      PROVE  OnlyRoot'
  BY <1>3 DEF PlanFitted, OnlyRoot, Holder, ForeignKeyLeft
<1>4. ASSUME insert.style = "all", ~Alone
      PROVE  Visited'
  <2>1. Visited
    BY <1>4 DEF PlanFitted
  <2>2. PICK by : /\ Reached(Visit(<<>>, visitedEntities, by))
                  /\ \A h \in Holding : \A w \in by :
                       RightOf(w[1], w[2]) = h.entity => h.direct \subseteq {w[1]}
    BY <2>1 DEF Visited
  <2>3. PICK v : v = Visit(<<>>, visitedEntities, by)
    OBVIOUS
  <2>4. Reached(v)'
    BY <2>2, <2>3, SameRecursion
  <2>5. v = Visit(IF phase = "collect" THEN pending ELSE <<>>, visitedEntities, by)'
    BY <2>3 DEF Visit
  <2>6. \A h \in Holding' : \A w \in by : RightOf(w[1], w[2])' = h.entity => h.direct \subseteq {w[1]}
    BY <1>1, <2>2, SameRecursion
  <2>7. /\ Once' /\ {h.entity : h \in Holding'} = visitedEntities'
        /\ \A e \in visitedEntities' : \A r \in RelationsOf(e)' :
             HasNavigation(r, e)' => r \in reachableRelations'
    BY <1>1, <2>1, SameRecursion DEF Visited
  <2> QED
    BY <2>4, <2>5, <2>6, <2>7 DEF Visited
<1>5. ASSUME insert.style = "with", NEW at, NEW from, Tree(at, from)
      PROVE  GatheredTree(at, from)'
  <2>1. PICK done \in SUBSET Paths : Gathered(at, from, done) /\ done = Paths
    BY <1>5 DEF PlanFitted, GatheredTree
  <2>2. Paths' = Paths /\ \A n : RelationAt(n)' = RelationAt(n)
    BY SameTree
  <2>3. Gathered(at, from, done)'
    BY <1>1, <2>1, GatheredStays
  <2> QED
    BY <2>1, <2>2, <2>3 DEF GatheredTree
<1> QED
  BY <1>2, <1>3, <1>4, <1>5, SameRecursion, SameTree DEF PlanFitted

LEMMA FitsPlan == PlanInv /\ PlanFitted /\ Plan => PlanFitted'
BY FitsCompileFromRoot, FitsCompileFromRelations, FitsSkipSide, FitsCollectReachable,
   FitsCollectRelationPath, FitsOrdering DEF Plan, Ordering
-----------------------------------------------------------------------------
(* The walk takes the same way.                                            *)

LEMMA OtherEnd ==
  ASSUME insert \in Inserts, NEW e \in Entities, NEW f \in Entities,
         NEW r \in RelationsOf(e) \cap RelationsOf(f)
  PROVE  f = e \/ f = RightOf(r, e)
BY SiblingsAssumption DEF RelationsOf, RightOf

(* No two paths lead to the same entity, or it would be planned twice.     *)
LEMMA PathsApart ==
  ASSUME insert \in Inserts, PlanTypeOK, NEW at, NEW from, Tree(at, from),
         Gathered(at, from, Paths), reachableEntities = <<>>, ~PlannedTwice
  PROVE  \A a, b \in Upto(Paths) : at[a] = at[b] => a = b
<1> SUFFICES ASSUME NEW a \in Upto(Paths), NEW b \in Upto(Paths), at[a] = at[b], a # b
             PROVE  FALSE
  OBVIOUS
<1>1. PICK n \in Nat : n = Len(insert.paths) /\ Paths = 1 .. n /\ Upto(Paths) = 0 .. n
  BY TreeFacts DEF Paths
<1>2. IsFiniteSet(1 .. n) /\ Cardinality(1 .. n) = n
  BY FS_Interval
<1>3. IsFiniteSet(0 .. n) /\ Cardinality(0 .. n) = n + 1
  BY FS_Interval
<1>4. IsFiniteSet(1 .. n + 1) /\ Cardinality(1 .. n + 1) = n + 1
  BY FS_Interval
<1>5. DOMAIN entities = 1 .. n + 1
  <2>1. Len(entities) = n + 1
    <3>1. Len(reachableEntities) = 0 /\ Len(entities) \in Nat
      BY LenProperties DEF PlanTypeOK
    <3>2. Len(reachableEntities) + Len(entities) = n + 1
      BY <1>1, <1>2 DEF Gathered
    <3> QED
      BY <3>1, <3>2
  <2> QED
    BY <2>1, LenProperties DEF PlanTypeOK
<1>6. PICK others : others = (0 .. n) \ {b}
  OBVIOUS
<1>7. IsFiniteSet(others) /\ Cardinality(others) = n
  <2>1. b \in 0 .. n
    BY <1>1
  <2>2. IsFiniteSet(others) /\ Cardinality(others) = Cardinality(0 .. n) - 1
    BY <1>3, <1>6, <2>1, FS_RemoveElement
  <2> QED
    BY <1>3, <2>2
<1>8. \A i \in 1 .. n + 1 : \E p \in others : entities[i].entity = at[p]
  <2> SUFFICES ASSUME NEW i \in 1 .. n + 1
               PROVE  \E p \in others : entities[i].entity = at[p]
    OBVIOUS
  <2>1. entities[i] \in Holding
    BY <1>5 DEF Holding, ToSet
  <2>2. PICK p \in Upto(Paths) : entities[i].entity = at[p]
    BY <2>1 DEF Gathered
  <2>3. CASE p = b
    BY <1>1, <1>6, <2>2, <2>3
  <2>4. CASE p # b
    BY <1>1, <1>6, <2>2, <2>4
  <2> QED
    BY <2>3, <2>4
<1> DEFINE f == [i \in 1 .. n + 1 |-> CHOOSE p \in others : entities[i].entity = at[p]]
<1>9. f \in [1 .. n + 1 -> others] /\ \A i \in 1 .. n + 1 : entities[i].entity = at[f[i]]
  BY <1>8
<1> HIDE DEF f
<1>10. PICK i \in 1 .. n + 1, j \in 1 .. n + 1 : i # j /\ f[i] = f[j]
  <2>1. Cardinality(others) < Cardinality(1 .. n + 1)
    BY <1>4, <1>7
  <2> QED
    BY <1>4, <1>7, <1>9, <2>1, FS_PigeonHole
<1>11. entities[i].entity = entities[j].entity
  BY <1>9, <1>10
<1> QED
  BY <1>5, <1>10, <1>11 DEF PlannedTwice

(* What is known of InsertWith while it executes.                          *)
LEMMA TreeIsPlanned ==
  ASSUME ExecutionInv, PlanFitted, Executing, insert.style = "with", NEW at, NEW from, Tree(at, from)
  PROVE  /\ insert \in Inserts /\ visitedEntities = {at[n] : n \in Upto(Paths)}
         /\ reachableRelations = {RelationAt(n) : n \in Paths}
         /\ \A a, b \in Upto(Paths) : at[a] = at[b] => a = b
<1>1. insert \in Inserts /\ PlanTypeOK /\ ~PlannedTwice /\ reachableEntities = <<>>
  BY DEF ExecutionInv, PlanKept, TypeOK, PlanFitted, AllInOrder
<1>2. PICK done \in SUBSET Paths : Gathered(at, from, done) /\ done = Paths
  BY DEF PlanFitted, GatheredTree, Executing
<1>3. Gathered(at, from, Paths)
  BY <1>2
<1>4. \A n \in Paths : from[n] \in Upto(Paths)
  BY <1>3 DEF Gathered
<1>5. visitedEntities = {at[n] : n \in Upto(Paths)} /\ reachableRelations = {RelationAt(n) : n \in Paths}
  BY <1>3, <1>4 DEF Gathered
<1> QED
  BY <1>1, <1>3, <1>5, PathsApart

(* What is known of InsertWithAll.                                         *)
LEMMA AllIsPlanned ==
  ASSUME ExecutionInv, PlanFitted, phase = "ordered" \/ Executing, insert.style = "all", ~Alone
  PROVE  /\ insert \in Inserts /\ insert.root \in visitedEntities
         /\ \A e \in visitedEntities : \A r \in RelationsOf(e) :
              HasNavigation(r, e) => r \in reachableRelations /\ RightOf(r, e) \in visitedEntities
<1>1. insert \in Inserts /\ Visited /\ phase # "collect"
  BY DEF ExecutionInv, PlanKept, PlanFitted, Executing
<1>2. PICK by : Reached(Visit(<<>>, visitedEntities, by))
  BY <1>1 DEF Visited
<1>3. SoundVisit(Visit(<<>>, visitedEntities, by))
  BY <1>1, <1>2, ReachedIsSound
<1>4. ToSet(<<>>) = {}
  BY DEF ToSet
<1>5. /\ insert.root \in visitedEntities
      /\ \A e \in visitedEntities : \A r \in RelationsOf(e) :
           HasNavigation(r, e) => RightOf(r, e) \in visitedEntities
  BY <1>3, <1>4 DEF SoundVisit, Visit
<1> QED
  BY <1>1, <1>5 DEF Visited
LEMMA WalksCreateInserter == ExecutionInv /\ WalkInv /\ CreateInserter => WalkInv'
<1> SUFFICES ASSUME ExecutionInv, WalkInv, CreateInserter
             PROVE  WalkInv'
  OBVIOUS
<1>1. /\ phase = "ordered" /\ phase' \in {"threw", "emit"}
      /\ UNCHANGED <<insert, visitedEntities, reachableRelations, reachableEntities, entities>>
      /\ phase' = "emit" => /\ pending' = SidesOf(insert.root) /\ emittedEntities' = {insert.root}
                            /\ walks' = walks
  BY DEF CreateInserter, orderVars
<1>2. insert \in Inserts /\ insert.root \in Entities /\ walks = {} /\ PlanFitted
  BY <1>1, InsertsAssumption DEF ExecutionInv, PlanKept, WalkInv, WalkFitted, Planning, PlanPhases
<1>3. PlanFitted'
  BY <1>1, <1>2, SamePlanFitted
<1>4. CASE phase' = "threw"
  BY <1>3, <1>4 DEF WalkInv, WalkFitted, Planning, PlanPhases, Executing
<1>5. CASE phase' = "emit"
  <2>1. ~Planning' /\ Executing'
    BY <1>5 DEF Planning, PlanPhases, Executing
  <2>2. PICK sides : sides = SidesOf(insert.root)
    OBVIOUS
  <2>3. /\ sides \in Seq(PendingSides) /\ pending' = sides
        /\ \A s \in ToSet(sides) : s.left = insert.root /\ s.relation \in RelationsOf(insert.root)
        /\ \A r \in RelationsOf(insert.root) : \E s \in ToSet(sides) : s.left = insert.root /\ s.relation = r
        /\ Alone => sides = <<>>
    BY <1>1, <1>2, <1>5, <2>2, AllSides DEF Alone
  <2>4. ASSUME insert.style = "all", Alone
        PROVE  walks' = {} /\ pending' = <<>>
    BY <1>1, <1>2, <1>5, <2>3, <2>4
  <2>5. ASSUME insert.style = "all", ~Alone
        PROVE  Retraced'
    <3>1. PICK v : v = FirstVisit
      OBVIOUS
    <3>2. Reached(v)'
      BY <1>1, <3>1, FirstReached, SameRecursion
    <3>3. v = Visit(pending', emittedEntities', walks')
      BY <1>1, <1>2, <1>5, <3>1 DEF FirstVisit
    <3>4. v = Visit(IF phase = "emit" THEN pending ELSE <<>>, emittedEntities, walks)'
      BY <1>5, <3>3 DEF Visit
    <3>5. insert.root \in visitedEntities
      BY <1>1, <1>2, <2>5, AllIsPlanned
    <3> QED
      BY <1>1, <1>5, <3>2, <3>4, <3>5 DEF Retraced
  <2>6. ASSUME insert.style = "with", NEW at, NEW from, Tree(at, from)
        PROVE  WalkedTree(at, from)'
    <3>1. PICK done : done = {}
      OBVIOUS
    <3>2. Upto(done) = {0} /\ done \in SUBSET Paths'
      BY <3>1 DEF Upto
    <3>3. Paths' = Paths /\ \A n : RelationAt(n)' = RelationAt(n)
      BY <1>1, SameTree
    <3>4. at[0] = insert.root
      BY <1>2, <2>6, TreeFacts
    <3>5. WalkedTo(at, from, done)'
      BY <1>1, <1>2, <1>5, <3>1, <3>2, <3>4 DEF WalkedTo, Upto
    <3>6. \A s \in ToSet(pending') : \E m \in Upto(done) : s.left = at[m] /\ s.relation \in RelationsOf(at[m])'
      BY <1>1, <2>3, <3>2, <3>4, SameRecursion
    <3>7. ASSUME NEW n \in Paths \ done, from[n] \in Upto(done)
          PROVE  \E s \in ToSet(pending') : s.relation = RelationAt(n) /\ s.left = at[from[n]]
      <4>1. from[n] = 0 /\ RelationAt(n) \in RelationsOf(insert.root)
        BY <1>2, <2>6, <3>2, <3>4, <3>7, TreeFacts
      <4> QED
        BY <2>3, <3>4, <4>1
    <3>8. Walking(at, from, done)'
      BY <3>3, <3>6, <3>7 DEF Walking, Upto
    <3> QED
      BY <1>5, <3>2, <3>5, <3>8 DEF WalkedTree
  <2>7. WalkFitted'
    BY <1>1, <1>5, <2>1, <2>4, <2>5, <2>6, SameRecursion, SameTree DEF WalkFitted
  <2> QED
    BY <1>3, <2>7 DEF WalkInv
<1> QED
  BY <1>1, <1>4, <1>5

(* The code for InsertWithAll is emitted in the order of collecting: that  *)
(* the relation is reachable and not walked yet says nothing more.         *)
LEMMA RetracesEmitWalk ==
  ASSUME ExecutionInv, PlanFitted, Retraced, EmitWalk, insert.style = "all", ~Alone
  PROVE  Retraced'
<1>1. PICK s : s = NextSide
  OBVIOUS
<1>2. /\ phase = "emit" /\ phase' = "emit" /\ pending # <<>>
      /\ UNCHANGED insert /\ UNCHANGED visitedEntities
      /\ IF WriteWalk(s)
           THEN /\ walks' = walks \cup {<<s.relation, s.left>>}
                /\ emittedEntities' = emittedEntities \cup {Leads(s)}
                /\ pending' = Front(pending) \o SidesOf(Leads(s))
           ELSE pending' = Front(pending) /\ walks' = walks /\ emittedEntities' = emittedEntities
  BY <1>1 DEF EmitWalk, emitVars
<1>3. PICK v : v = Visit(pending, emittedEntities, walks) /\ Reached(v)
  BY <1>2 DEF Retraced
<1>4. insert \in Inserts /\ SoundVisit(v) /\ emittedEntities \subseteq visitedEntities
  BY <1>3, ReachedIsSound DEF ExecutionInv, PlanKept, Retraced
<1>5. v.sides = pending /\ v.entered = emittedEntities /\ v.by = walks
  BY <1>3 DEF Visit
<1>6. s \in ToSet(pending) /\ s.relation \in Relations
  <2>1. PICK old \in Seq(PendingSides) : old = pending /\ old # <<>>
    BY <1>2, <1>4, <1>5 DEF SoundVisit
  <2>2. <<>> \in Seq(PendingSides)
    BY EmptySeq
  <2>3. ToSet(old) = ToSet(Front(old)) \cup {Last(old)} /\ Last(old) \in PendingSides
    BY <2>1, <2>2, LastOut
  <2> QED
    BY <1>1, <2>1, <2>3 DEF NextSide, PendingSides
<1>7. s.left \in emittedEntities /\ s.relation \in RelationsOf(s.left) /\ emittedEntities \subseteq Entities
  BY <1>4, <1>5, <1>6 DEF SoundVisit
<1>8. ASSUME HasNavigation(s.relation, s.left), Leads(s) \notin emittedEntities
      PROVE  WriteWalk(s)
  <2>1. Leads(s) \in visitedEntities /\ s.relation \in reachableRelations
    BY <1>2, <1>4, <1>7, <1>8, AllIsPlanned DEF Leads, Executing
  <2>2. ASSUME NEW w \in walks, w[1] = s.relation
        PROVE  FALSE
    <3>1. w[2] \in emittedEntities /\ w[1] \in RelationsOf(w[2]) /\ RightOf(w[1], w[2]) \in emittedEntities
      BY <1>4, <1>5 DEF SoundVisit
    <3>2. s.left = w[2] \/ s.left = RightOf(w[1], w[2])
      BY <1>4, <1>7, <2>2, <3>1, OtherEnd
    <3>3. RightOf(w[1], RightOf(w[1], w[2])) = w[2]
      BY <1>4, <1>7, <3>1, Siblings
    <3> QED
      BY <1>8, <2>2, <3>1, <3>2, <3>3 DEF Leads
  <2> QED
    BY <1>8, <2>1, <2>2 DEF WriteWalk
<1>9. WriteWalk(s) => HasNavigation(s.relation, s.left) /\ Leads(s) \notin emittedEntities
  BY DEF WriteWalk
<1>10. PICK u : u = Visit(pending', emittedEntities', walks')
  OBVIOUS
<1>11. u = NextVisit(v)
  BY <1>1, <1>2, <1>5, <1>8, <1>9, <1>10 DEF NextVisit, NextSide, Visit
<1>12. Reached(u)'
  BY <1>2, <1>3, <1>5, <1>11, NextReached, SameRecursion
<1>13. u = Visit(IF phase = "emit" THEN pending ELSE <<>>, emittedEntities, walks)'
  BY <1>2, <1>10 DEF Visit
<1>14. emittedEntities' \subseteq visitedEntities'
  BY <1>2, <1>4 DEF WriteWalk
<1> QED
  BY <1>12, <1>13, <1>14 DEF Retraced
(* The code for InsertWith follows a relation where a path does, and only  *)
(* there.                                                                  *)
LEMMA WalksPath ==
  ASSUME ExecutionInv, PlanFitted, Executing, insert.style = "with", NEW at, NEW from, Tree(at, from),
         NEW done \in SUBSET Paths, WalkedTo(at, from, done),
         NEW s, NEW m \in Upto(done), s.left = at[m], s.relation \in RelationsOf(at[m]), WriteWalk(s)
  PROVE  \E n \in Paths \ done : s.relation = RelationAt(n) /\ from[n] = m /\ Leads(s) = at[n]
<1>1. /\ insert \in Inserts /\ visitedEntities = {at[n] : n \in Upto(Paths)}
      /\ reachableRelations = {RelationAt(n) : n \in Paths}
      /\ \A a, b \in Upto(Paths) : at[a] = at[b] => a = b
  BY TreeIsPlanned
<1>2. /\ Leads(s) \notin emittedEntities /\ s.relation \in reachableRelations
  BY DEF WriteWalk
<1>3. PICK n \in Paths : s.relation = RelationAt(n)
  BY <1>1, <1>2
<1>4. /\ from[n] \in Upto(Paths) /\ RelationAt(n) \in RelationsOf(at[from[n]])
      /\ at[n] = RightOf(RelationAt(n), at[from[n]])
  BY <1>1, TreeFacts
<1>5. Upto(done) \subseteq Upto(Paths) /\ n \in Upto(Paths) /\ \A p \in Upto(Paths) : at[p] \in Entities
  BY <1>1, TreeFacts DEF Upto
<1>6. Leads(s) = RightOf(RelationAt(n), at[m])
  BY <1>3 DEF Leads
<1>7. \A p \in Upto(done) : at[p] \in emittedEntities
  BY DEF WalkedTo
<1>8. at[m] = at[from[n]] \/ at[m] = at[n]
  BY <1>1, <1>3, <1>4, <1>5, OtherEnd
<1>9. CASE at[m] = at[from[n]]
  <2>1. m = from[n] /\ Leads(s) = at[n]
    BY <1>1, <1>4, <1>5, <1>6, <1>9
  <2>2. n \notin done
    BY <1>2, <1>7, <2>1 DEF Upto
  <2> QED
    BY <1>3, <2>1, <2>2
<1>10. CASE at[m] = at[n]
  <2>1. m = n
    BY <1>1, <1>5, <1>10
  <2>2. n \in done
    <3>1. n # 0
      BY DEF Paths
    <3> QED
      BY <2>1, <3>1 DEF Upto
  <2>3. from[n] \in Upto(done)
    BY <2>2 DEF WalkedTo
  <2>4. RightOf(RelationAt(n), at[n]) = at[from[n]]
    BY <1>1, <1>4, <1>5, Siblings
  <2> QED
    BY <1>2, <1>6, <1>7, <1>10, <2>3, <2>4
<1> QED
  BY <1>8, <1>9, <1>10

LEMMA PathIsWalked ==
  ASSUME ExecutionInv, PlanFitted, Executing, insert.style = "with", NEW at, NEW from, Tree(at, from),
         NEW done \in SUBSET Paths, WalkedTo(at, from, done),
         NEW n \in Paths \ done, from[n] \in Upto(done),
         NEW s, s.left = at[from[n]], s.relation = RelationAt(n)
  PROVE  WriteWalk(s)
<1>1. /\ insert \in Inserts /\ visitedEntities = {at[p] : p \in Upto(Paths)}
      /\ reachableRelations = {RelationAt(p) : p \in Paths}
      /\ \A a, b \in Upto(Paths) : at[a] = at[b] => a = b
  BY TreeIsPlanned
<1>2. /\ \A k \in Paths : /\ from[k] \in Upto(Paths) /\ RelationAt(k) \in RelationsOf(at[from[k]])
                          /\ at[k] = RightOf(RelationAt(k), at[from[k]])
      /\ HasNavigation(RelationAt(n), at[from[n]])
      /\ \A p \in Upto(Paths) : at[p] \in Entities
  BY <1>1, TreeFacts
<1>3. Upto(done) \subseteq Upto(Paths) /\ n \in Upto(Paths) /\ n \notin Upto(done)
  BY DEF Upto, Paths
<1>4. Leads(s) = at[n]
  BY <1>2 DEF Leads
<1>5. Leads(s) \in visitedEntities \ emittedEntities
  <2>1. emittedEntities = {at[p] : p \in Upto(done)}
    BY DEF WalkedTo
  <2>2. \A p \in Upto(done) : at[p] # at[n]
    BY <1>1, <1>3
  <2> QED
    BY <1>1, <1>3, <1>4, <2>1, <2>2
<1>6. s.relation \in reachableRelations
  BY <1>1
<1>7. ASSUME NEW w \in walks, w[1] = s.relation
      PROVE  FALSE
  <2>1. PICK j \in done : w = <<RelationAt(j), at[from[j]]>>
    BY DEF WalkedTo
  <2>2. RelationAt(j) = RelationAt(n) /\ j \in Upto(Paths) /\ j \in Paths /\ j \in Upto(done)
    BY <1>7, <2>1 DEF Upto
  <2>3. from[j] \in Upto(done)
    BY <2>1 DEF WalkedTo
  <2>4. at[from[n]] = at[from[j]] \/ at[from[n]] = at[j]
    BY <1>1, <1>2, <2>2, OtherEnd
  <2>5. CASE at[from[n]] = at[from[j]]
    <3>1. at[n] = at[j]
      BY <1>2, <2>2, <2>5
    <3> QED
      BY <1>1, <1>3, <2>2, <3>1
  <2>6. CASE at[from[n]] = at[j]
    <3>1. RightOf(RelationAt(j), at[j]) = at[from[j]]
      BY <1>1, <1>2, <2>2, Siblings
    <3>2. at[n] = at[from[j]]
      BY <1>2, <2>2, <2>6, <3>1
    <3> QED
      BY <1>1, <1>2, <1>3, <2>2, <2>3, <3>2
  <2> QED
    BY <2>4, <2>5, <2>6
<1> QED
  BY <1>2, <1>5, <1>6, <1>7 DEF WriteWalk

LEMMA WalksTreeOn ==
  ASSUME ExecutionInv, PlanFitted, EmitWalk, insert.style = "with", NEW at, NEW from, Tree(at, from),
         WalkedTree(at, from)
  PROVE  WalkedTree(at, from)'
<1>1. PICK s : s = NextSide
  OBVIOUS
<1>2. /\ phase = "emit" /\ phase' = "emit" /\ pending # <<>> /\ UNCHANGED insert /\ Executing
      /\ IF WriteWalk(s)
           THEN /\ walks' = walks \cup {<<s.relation, s.left>>}
                /\ emittedEntities' = emittedEntities \cup {Leads(s)}
                /\ pending' = Front(pending) \o SidesOf(Leads(s))
           ELSE pending' = Front(pending) /\ walks' = walks /\ emittedEntities' = emittedEntities
  BY <1>1 DEF EmitWalk, emitVars, Executing
<1>3. PICK done \in SUBSET Paths : WalkedTo(at, from, done) /\ Walking(at, from, done)
  BY <1>2 DEF WalkedTree
<1>4. insert \in Inserts /\ PlanTypeOK
  BY DEF ExecutionInv, PlanKept, TypeOK
<1>5. PICK old \in Seq(PendingSides) : old = pending /\ old # <<>>
  BY <1>2, <1>4 DEF PlanTypeOK
<1>6. PICK front \in Seq(PendingSides) :
        front = Front(pending) /\ ToSet(pending) = ToSet(front) \cup {s} /\ s \in PendingSides
  <2>1. <<>> \in Seq(PendingSides)
    BY EmptySeq
  <2>2. /\ ToSet(old) = ToSet(Front(old)) \cup {Last(old)} /\ Last(old) \in PendingSides
        /\ Front(old) \in Seq(PendingSides)
    BY <1>5, <2>1, LastOut
  <2> QED
    BY <1>1, <1>5, <2>2 DEF NextSide
<1>7. PICK m \in Upto(done) : s.left = at[m] /\ s.relation \in RelationsOf(at[m])
  BY <1>3, <1>6 DEF Walking
<1>8. Paths' = Paths /\ (\A n : RelationAt(n)' = RelationAt(n)) /\ \A e : RelationsOf(e)' = RelationsOf(e)
  BY <1>2, SameTree, SameRecursion
<1>9. CASE ~WriteWalk(s)
  <2>1. pending' = front /\ walks' = walks /\ emittedEntities' = emittedEntities
    BY <1>2, <1>6, <1>9
  <2>2. WalkedTo(at, from, done)'
    <3>1. walks' = {<<RelationAt(n)', at[from[n]]>> : n \in done}
      BY <1>3, <1>8, <2>1 DEF WalkedTo
    <3> QED
      BY <1>3, <2>1, <3>1 DEF WalkedTo, Upto
  <2>3. \A t \in ToSet(pending') : \E k \in Upto(done) : t.left = at[k] /\ t.relation \in RelationsOf(at[k])
    BY <1>3, <1>6, <2>1 DEF Walking
  <2>4. ASSUME NEW n \in Paths \ done, from[n] \in Upto(done)
        PROVE  \E t \in ToSet(pending') : t.relation = RelationAt(n) /\ t.left = at[from[n]]
    <3>1. PICK t \in ToSet(pending) : t.relation = RelationAt(n) /\ t.left = at[from[n]]
      BY <1>3, <2>4 DEF Walking
    <3>2. t # s
      BY <1>2, <1>3, <1>9, <2>4, <3>1, PathIsWalked
    <3> QED
      BY <1>6, <2>1, <3>1, <3>2
  <2>5. Walking(at, from, done)'
    BY <1>8, <2>3, <2>4 DEF Walking, Upto
  <2> QED
    BY <1>2, <1>8, <2>2, <2>5 DEF WalkedTree
<1>10. CASE WriteWalk(s)
  <2>1. PICK n \in Paths \ done : s.relation = RelationAt(n) /\ from[n] = m /\ Leads(s) = at[n]
    <3>1. /\ Executing /\ WalkedTo(at, from, done) /\ m \in Upto(done) /\ s.left = at[m]
          /\ s.relation \in RelationsOf(at[m]) /\ WriteWalk(s)
      BY <1>2, <1>3, <1>7, <1>10
    <3>2. \E n \in Paths \ done : s.relation = RelationAt(n) /\ from[n] = m /\ Leads(s) = at[n]
      BY <3>1, WalksPath
    <3> QED
      BY <3>2
  <2>2. PICK e : e = at[n]
    OBVIOUS
  <2>3. PICK sides : sides = SidesOf(e)
    OBVIOUS
  <2>4. /\ walks' = walks \cup {<<RelationAt(n), at[from[n]]>>}
        /\ emittedEntities' = emittedEntities \cup {e}
        /\ pending' = front \o sides
    BY <1>2, <1>6, <1>7, <1>10, <2>1, <2>2, <2>3
  <2>5. e \in Entities
    BY <1>4, <2>2, TreeFacts DEF Upto
  <2>6. /\ sides \in Seq(PendingSides)
        /\ \A t \in ToSet(sides) : t.left = e /\ t.relation \in RelationsOf(e)
        /\ \A r \in RelationsOf(e) : \E t \in ToSet(sides) : t.left = e /\ t.relation = r
    BY <1>4, <2>3, <2>5, AllSides
  <2>7. ToSet(pending') = ToSet(front) \cup ToSet(sides)
    <3>1. ToSet(Front(old) \o sides) = ToSet(Front(old)) \cup ToSet(sides)
      BY <1>5, <2>6, LastOut
    <3> QED
      BY <1>5, <1>6, <2>4, <3>1
  <2>8. PICK done2 : done2 = done \cup {n}
    OBVIOUS
  <2>9. done2 \in SUBSET Paths /\ Upto(done2) = Upto(done) \cup {n} /\ from[n] \in Upto(done)
    BY <1>7, <2>1, <2>8 DEF Upto
  <2>10. WalkedTo(at, from, done2)'
    <3>1. \A k \in done2 : from[k] \in Upto(done2)
      BY <1>3, <2>8, <2>9 DEF WalkedTo
    <3>2. emittedEntities' = {at[k] : k \in Upto(done2)}
      BY <1>3, <2>2, <2>4, <2>9 DEF WalkedTo
    <3>3. walks' = {<<RelationAt(k)', at[from[k]]>> : k \in done2}
      BY <1>3, <1>8, <2>4, <2>8 DEF WalkedTo
    <3> QED
      BY <3>1, <3>2, <3>3 DEF WalkedTo, Upto
  <2>11. ASSUME NEW t \in ToSet(pending')
         PROVE  \E k \in Upto(done2) : t.left = at[k] /\ t.relation \in RelationsOf(at[k])
    <3>1. CASE t \in ToSet(front)
      BY <1>3, <1>6, <2>9, <3>1 DEF Walking
    <3>2. CASE t \in ToSet(sides)
      BY <2>2, <2>6, <2>9, <3>2
    <3> QED
      BY <2>7, <3>1, <3>2
  <2>12. ASSUME NEW k \in Paths \ done2, from[k] \in Upto(done2)
         PROVE  \E t \in ToSet(pending') : t.relation = RelationAt(k) /\ t.left = at[from[k]]
    <3>1. RelationAt(k) \in RelationsOf(at[from[k]]) /\ at[k] = RightOf(RelationAt(k), at[from[k]])
          /\ at[n] = RightOf(RelationAt(n), at[from[n]])
      BY <1>4, TreeFacts
    <3>2. CASE from[k] = n
      BY <2>2, <2>6, <2>7, <3>1, <3>2
    <3>3. CASE from[k] # n
      <4>1. k \in Paths \ done /\ from[k] \in Upto(done) /\ k # n
        BY <2>8, <2>9, <2>12, <3>3
      <4>2. PICK t \in ToSet(pending) : t.relation = RelationAt(k) /\ t.left = at[from[k]]
        BY <1>3, <4>1 DEF Walking
      <4>3. t # s
        <5>1. SUFFICES ASSUME t = s
                       PROVE  FALSE
          OBVIOUS
        <5>2. at[k] = at[n]
          BY <1>7, <2>1, <3>1, <4>2, <5>1
        <5>3. k \in Upto(Paths) /\ n \in Upto(Paths)
          BY DEF Upto
        <5> QED
          BY <1>2, <4>1, <5>2, <5>3, TreeIsPlanned
      <4> QED
        BY <1>6, <2>7, <4>2, <4>3
    <3> QED
      BY <3>2, <3>3
  <2>13. Walking(at, from, done2)'
    BY <1>8, <2>11, <2>12 DEF Walking, Upto
  <2> QED
    BY <1>2, <1>8, <2>9, <2>10, <2>13 DEF WalkedTree
<1> QED
  BY <1>9, <1>10
LEMMA WalkedStays ==
  ASSUME UNCHANGED <<insert, emittedEntities, walks>>,
         NEW at, NEW from, NEW done, WalkedTo(at, from, done)
  PROVE  WalkedTo(at, from, done)'
<1>1. \A n : RelationAt(n)' = RelationAt(n)
  BY SameTree
<1>2. walks' = {<<RelationAt(n)', at[from[n]]>> : n \in done}
  BY <1>1 DEF WalkedTo
<1> QED
  BY <1>2 DEF WalkedTo, Upto

LEMMA WalksEmitWalk == ExecutionInv /\ WalkInv /\ EmitWalk => WalkInv'
<1> SUFFICES ASSUME ExecutionInv, WalkInv, EmitWalk
             PROVE  WalkInv'
  OBVIOUS
<1>1. /\ phase = "emit" /\ phase' = "emit" /\ pending # <<>>
      /\ UNCHANGED <<insert, visitedEntities, reachableRelations, reachableEntities, entities>>
  BY DEF EmitWalk, orderVars
<1>2. Executing /\ Executing' /\ ~Planning' /\ PlanFitted
  BY <1>1 DEF Executing, Planning, PlanPhases, WalkInv
<1>3. PlanFitted'
  BY <1>1, <1>2, SamePlanFitted
<1>4. ASSUME insert.style = "all"
      PROVE  ~Alone /\ Retraced'
  <2>1. ~Alone /\ Retraced
    BY <1>1, <1>2, <1>4 DEF WalkInv, WalkFitted
  <2> QED
    BY <1>2, <1>4, <2>1, RetracesEmitWalk
<1>5. ASSUME insert.style = "with", NEW at, NEW from, Tree(at, from)
      PROVE  WalkedTree(at, from)'
  <2>1. WalkedTree(at, from)
    BY <1>2, <1>5 DEF WalkInv, WalkFitted
  <2> QED
    BY <1>2, <1>5, <2>1, WalksTreeOn
<1>6. WalkFitted'
  BY <1>1, <1>2, <1>4, <1>5, SameRecursion, SameTree DEF WalkFitted
<1> QED
  BY <1>3, <1>6 DEF WalkInv

LEMMA WalksStartInsert == ExecutionInv /\ WalkInv /\ StartInsert => WalkInv'
<1> SUFFICES ASSUME ExecutionInv, WalkInv, StartInsert
             PROVE  WalkInv'
  OBVIOUS
<1>1. /\ phase = "emit" /\ phase' \in {"split", "done"} /\ pending = <<>>
      /\ UNCHANGED <<insert, visitedEntities, reachableRelations, reachableEntities, entities>>
      /\ UNCHANGED <<emittedEntities, walks>>
  BY DEF StartInsert, plan, collectVars, orderVars, emitVars
<1>2. Executing /\ Executing' /\ ~Planning' /\ PlanFitted /\ insert \in Inserts
  BY <1>1 DEF Executing, Planning, PlanPhases, WalkInv, ExecutionInv, PlanKept
<1>3. PlanFitted'
  BY <1>1, <1>2, SamePlanFitted
<1>4. ASSUME insert.style = "all", Alone
      PROVE  walks' = {}
  BY <1>1, <1>2, <1>4 DEF WalkInv, WalkFitted
<1>5. ASSUME insert.style = "all", ~Alone
      PROVE  Retraced'
  <2>1. Retraced
    BY <1>2, <1>5 DEF WalkInv, WalkFitted
  <2>2. PICK v : v = Visit(<<>>, emittedEntities, walks)
    OBVIOUS
  <2>3. Reached(v) /\ emittedEntities \subseteq visitedEntities
    BY <1>1, <2>1, <2>2 DEF Retraced
  <2>4. Reached(v)'
    BY <1>1, <2>3, SameRecursion
  <2>5. v = Visit(IF phase = "emit" THEN pending ELSE <<>>, emittedEntities, walks)'
    BY <1>1, <2>2 DEF Visit
  <2> QED
    BY <1>1, <2>3, <2>4, <2>5 DEF Retraced
<1>6. ASSUME insert.style = "with", NEW at, NEW from, Tree(at, from)
      PROVE  WalkedTree(at, from)'
  <2>1. PICK done \in SUBSET Paths : WalkedTo(at, from, done) /\ Walking(at, from, done)
    BY <1>1, <1>2, <1>6 DEF WalkInv, WalkFitted, WalkedTree
  <2>2. \A n \in Paths \ done : from[n] \notin Upto(done)
    BY <1>1, <2>1 DEF Walking, ToSet
  <2>3. done = Paths
    BY <1>2, <1>6, <2>2, WholeTree
  <2>4. WalkedTo(at, from, done)'
    BY <1>1, <2>1, WalkedStays
  <2>5. Paths' = Paths
    BY <1>1, SameTree
  <2> QED
    BY <1>1, <2>3, <2>4, <2>5 DEF WalkedTree
<1>7. WalkFitted'
  BY <1>1, <1>2, <1>4, <1>5, <1>6, SameRecursion, SameTree DEF WalkFitted
<1> QED
  BY <1>3, <1>7 DEF WalkInv

(* Later steps leave both alone.                                           *)
LEMMA WalksLater ==
  ASSUME WalkInv, UNCHANGED plan, UNCHANGED emitVars,
         phase \notin {"start", "collect", "order", "emit"},
         phase' \notin {"start", "collect", "order", "emit"},
         phase' = "ordered" \/ Executing' => phase = "ordered" \/ Executing,
         Planning' => Planning, Executing' => Executing
  PROVE  WalkInv'
<1>1. /\ UNCHANGED <<insert, visitedEntities, reachableRelations, reachableEntities, entities>>
      /\ UNCHANGED <<emittedEntities, walks>>
  BY DEF plan, collectVars, orderVars, emitVars
<1>2. PlanFitted'
  BY <1>1, SamePlanFitted DEF WalkInv
<1>3. Planning' => walks' = {}
  BY <1>1 DEF WalkInv, WalkFitted
<1>4. ASSUME Executing', insert.style = "all", Alone
      PROVE  walks' = {}
  BY <1>1, <1>4 DEF WalkInv, WalkFitted
<1>5. ASSUME Executing', insert.style = "all", ~Alone
      PROVE  Retraced'
  <2>1. Retraced
    BY <1>5 DEF WalkInv, WalkFitted
  <2>2. PICK v : v = Visit(<<>>, emittedEntities, walks)
    OBVIOUS
  <2>3. Reached(v) /\ emittedEntities \subseteq visitedEntities
    BY <2>1, <2>2 DEF Retraced
  <2>4. Reached(v)'
    BY <1>1, <2>3, SameRecursion
  <2>5. v = Visit(IF phase = "emit" THEN pending ELSE <<>>, emittedEntities, walks)'
    BY <1>1, <2>2 DEF Visit
  <2> QED
    BY <1>1, <2>3, <2>4, <2>5 DEF Retraced
<1>6. ASSUME Executing', insert.style = "with", NEW at, NEW from, Tree(at, from)
      PROVE  WalkedTree(at, from)'
  <2>1. PICK done \in SUBSET Paths : WalkedTo(at, from, done) /\ done = Paths
    BY <1>6 DEF WalkInv, WalkFitted, WalkedTree
  <2>2. WalkedTo(at, from, done)'
    BY <1>1, <2>1, WalkedStays
  <2>3. Paths' = Paths
    BY <1>1, SameTree
  <2> QED
    BY <2>1, <2>2, <2>3 DEF WalkedTree
<1>7. WalkFitted'
  BY <1>1, <1>3, <1>4, <1>5, <1>6, SameRecursion, SameTree DEF WalkFitted
<1> QED
  BY <1>2, <1>7 DEF WalkInv
LEMMA WalksPlan == ExecutionInv /\ WalkInv /\ Plan /\ UNCHANGED executionVars => WalkInv'
<1> SUFFICES ASSUME ExecutionInv, WalkInv, Plan, UNCHANGED executionVars
             PROVE  WalkInv'
  OBVIOUS
<1>1. phase \in {"start", "collect", "order"} /\ phase' \in PlanPhases
  BY PlanningPhases
<1>2. Planning /\ ~Executing' /\ walks' = walks
  BY <1>1 DEF Planning, Executing, PlanPhases, executionVars, emitVars
<1>3. PlanFitted'
  BY <1>2, FitsPlan DEF ExecutionInv, PlanKept, WalkInv
<1>4. WalkFitted'
  BY <1>2 DEF WalkInv, WalkFitted
<1> QED
  BY <1>3, <1>4 DEF WalkInv

LEMMA GatheringStays ==
  ASSUME UNCHANGED insert, UNCHANGED pending,
         NEW at, NEW from, NEW done, Gathering(at, from, done)
  PROVE  Gathering(at, from, done)'
<1>1. Paths' = Paths /\ \A n : RelationAt(n)' = RelationAt(n)
  BY SameTree
<1> QED
  BY <1>1 DEF Gathering, Upto

LEMMA WalkingStays ==
  ASSUME UNCHANGED insert, UNCHANGED pending,
         NEW at, NEW from, NEW done, Walking(at, from, done)
  PROVE  Walking(at, from, done)'
<1>1. Paths' = Paths /\ \A n : RelationAt(n)' = RelationAt(n)
  BY SameTree
<1>2. \A e : RelationsOf(e)' = RelationsOf(e)
  BY SameRecursion
<1> QED
  BY <1>1, <1>2 DEF Walking, Upto

LEMMA WalksNothing == WalkInv /\ UNCHANGED vars => WalkInv'
<1> SUFFICES ASSUME WalkInv, UNCHANGED vars
             PROVE  WalkInv'
  OBVIOUS
<1>1. UNCHANGED <<insert, phase, pending, visitedEntities, reachableRelations, reachableEntities,
                  entities, emittedEntities, walks>>
  BY DEF vars, planVars, collectVars, orderVars, executionVars, emitVars
<1>2. /\ Planning' = Planning /\ Executing' = Executing /\ Holding' = Holding /\ Once' = Once
      /\ AllInOrder' = AllInOrder /\ OnlyRoot' = OnlyRoot
  BY <1>1 DEF Planning, Executing, Holding, Once, AllInOrder, OnlyRoot, Holder, ForeignKeyLeft
<1>3. ASSUME Visited
      PROVE  Visited'
  <2>1. PICK by : /\ Reached(Visit(IF phase = "collect" THEN pending ELSE <<>>, visitedEntities, by))
                  /\ \A h \in Holding : \A w \in by :
                       RightOf(w[1], w[2]) = h.entity => h.direct \subseteq {w[1]}
    BY <1>3 DEF Visited
  <2>2. PICK v : v = Visit(IF phase = "collect" THEN pending ELSE <<>>, visitedEntities, by)
    OBVIOUS
  <2>3. Reached(v)'
    BY <1>1, <2>1, <2>2, SameRecursion
  <2>4. v = Visit(IF phase = "collect" THEN pending ELSE <<>>, visitedEntities, by)'
    BY <1>1, <2>2 DEF Visit
  <2>5. \A h \in Holding' : \A w \in by : RightOf(w[1], w[2])' = h.entity => h.direct \subseteq {w[1]}
    BY <1>1, <1>2, <2>1, SameRecursion
  <2>6. /\ Once' /\ {h.entity : h \in Holding'} = visitedEntities'
        /\ \A e \in visitedEntities' : \A r \in RelationsOf(e)' :
             HasNavigation(r, e)' => r \in reachableRelations'
    BY <1>1, <1>2, <1>3, SameRecursion DEF Visited
  <2> QED
    BY <2>3, <2>4, <2>5, <2>6 DEF Visited
<1>4. ASSUME Retraced
      PROVE  Retraced'
  <2>1. PICK v : v = Visit(IF phase = "emit" THEN pending ELSE <<>>, emittedEntities, walks)
    OBVIOUS
  <2>2. Reached(v) /\ emittedEntities \subseteq visitedEntities
    BY <1>4, <2>1 DEF Retraced
  <2>3. Reached(v)'
    BY <1>1, <2>2, SameRecursion
  <2>4. v = Visit(IF phase = "emit" THEN pending ELSE <<>>, emittedEntities, walks)'
    BY <1>1, <2>1 DEF Visit
  <2> QED
    BY <1>1, <2>2, <2>3, <2>4 DEF Retraced
<1>5. ASSUME NEW at, NEW from, GatheredTree(at, from)
      PROVE  GatheredTree(at, from)'
  <2>1. PICK done \in SUBSET Paths :
          Gathered(at, from, done) /\ IF phase = "collect" THEN Gathering(at, from, done) ELSE done = Paths
    BY <1>5 DEF GatheredTree
  <2>2. Gathered(at, from, done)' /\ (Gathering(at, from, done) => Gathering(at, from, done)')
    BY <1>1, <1>2, <2>1, GatheredStays, GatheringStays
  <2>3. Paths' = Paths
    BY <1>1, SameTree
  <2> QED
    BY <1>1, <2>1, <2>2, <2>3 DEF GatheredTree
<1>6. ASSUME NEW at, NEW from, WalkedTree(at, from)
      PROVE  WalkedTree(at, from)'
  <2>1. PICK done \in SUBSET Paths :
          WalkedTo(at, from, done) /\ IF phase = "emit" THEN Walking(at, from, done) ELSE done = Paths
    BY <1>6 DEF WalkedTree
  <2>2. WalkedTo(at, from, done)' /\ (Walking(at, from, done) => Walking(at, from, done)')
    BY <1>1, <2>1, WalkedStays, WalkingStays
  <2>3. Paths' = Paths
    BY <1>1, SameTree
  <2> QED
    BY <1>1, <2>1, <2>2, <2>3 DEF WalkedTree
<1>7. PlanFitted'
  BY <1>1, <1>2, <1>3, <1>5, SameRecursion, SameTree DEF WalkInv, PlanFitted
<1>8. WalkFitted'
  BY <1>1, <1>2, <1>4, <1>6, SameRecursion, SameTree DEF WalkInv, WalkFitted
<1> QED
  BY <1>7, <1>8 DEF WalkInv

LEMMA WalksInserting ==
  ASSUME ExecutionInv, WalkInv, NEW h, InsertEntity(h)
  PROVE  WalkInv'
<1>1. /\ UNCHANGED plan /\ UNCHANGED emitVars
      /\ phase \in {"insert", "read"} /\ phase' \in {"insert", "read", "done", "threw", "noRow"}
  BY DEF InsertEntity, SkipEmpty, InsertScalar, InsertBatch, SendMalformed, InsertReturning,
         ReadKey, EndReading, NextEntity, Inserting
<1> QED
  BY <1>1, WalksLater DEF Executing, Planning, PlanPhases

LEMMA WalksSplitting == ExecutionInv /\ WalkInv /\ (SplitObject \/ SkipSeenObject \/ CallWrongSetter) => WalkInv'
<1> SUFFICES ASSUME ExecutionInv, WalkInv, SplitObject \/ SkipSeenObject \/ CallWrongSetter
             PROVE  WalkInv'
  OBVIOUS
<1>1. /\ UNCHANGED plan /\ UNCHANGED emitVars
      /\ phase = "split" /\ phase' \in {"split", "insert", "undefined"}
  BY DEF SplitObject, SkipSeenObject, CallWrongSetter, AfterWalk, executionVars
<1> QED
  BY <1>1, WalksLater DEF Executing, Planning, PlanPhases

LEMMA WalkBegins == Init => WalkInv
BY FitsInit DEF Init, PlanInit, WalkInv, WalkFitted, Executing

LEMMA WalksOn == ExecutionInv /\ WalkInv /\ [Next]_vars => WalkInv'
BY WalksPlan, WalksCreateInserter, WalksEmitWalk, WalksStartInsert, WalksSplitting, WalksInserting,
   WalksNothing DEF Next
-----------------------------------------------------------------------------
(* What the invariant says about the plan and the walk.                    *)

LEMMA TreeGiven ==
  ASSUME insert \in Inserts, insert.style = "with"
  PROVE  \E at, from : Tree(at, from)
<1>1. DOMAIN insert.paths = Paths
  BY InsertsAssumption, LenProperties DEF Paths
<1>2. PICK at \in [0 .. Len(insert.paths) -> Entities], from \in [Paths -> 0 .. Len(insert.paths)] :
        PathTree(insert, at, from)
  BY <1>1, PathsAssumption
<1> QED
  BY <1>2 DEF Tree

LEMMA PlansOnce == ExecutionInv /\ WalkInv => EveryEntityPlannedOnce
<1> SUFFICES ASSUME ExecutionInv, WalkInv, phase = "ordered"
             PROVE  EveryEntityPlannedOnce
  BY DEF EveryEntityPlannedOnce
<1>1. insert \in Inserts /\ insert.style \in {"all", "with"} /\ PlanFitted
  BY InsertsAssumption DEF ExecutionInv, PlanKept, WalkInv, Styles
<1>2. reachableEntities = <<>> /\ Holding = ToSet(entities) /\ entities \in Seq(Holders)
  BY DEF WalkInv, PlanFitted, AllInOrder, Holding, ToSet, ExecutionInv, TypeOK, PlanTypeOK
<1>3. CASE insert.style = "all" /\ Alone
  <2>1. visitedEntities = {} /\ entities = <<Holder(insert.root, {}, {})>>
    BY <1>1, <1>3 DEF PlanFitted, OnlyRoot
  <2>2. PICK g : g = Holder(insert.root, {}, {})
    OBVIOUS
  <2>3. g.entity = insert.root
    BY <2>2 DEF Holder
  <2>4. DOMAIN entities = {1} /\ entities[1] = g
    BY <2>1, <2>2
  <2>5. {h.entity : h \in ToSet(entities)} = {insert.root}
    BY <2>3, <2>4 DEF ToSet
  <2> QED
    BY <1>3, <2>1, <2>4, <2>5 DEF EveryEntityPlannedOnce
<1>4. CASE insert.style = "all" /\ ~Alone
  <2>1. Visited /\ insert.root \in visitedEntities
    BY <1>1, <1>4, AllIsPlanned DEF PlanFitted
  <2> QED
    BY <1>2, <1>4, <2>1 DEF EveryEntityPlannedOnce, Visited, Once
<1>5. CASE insert.style = "with"
  <2>1. PICK at, from : Tree(at, from)
    BY <1>1, <1>5, TreeGiven
  <2>2. PICK done \in SUBSET Paths : Gathered(at, from, done) /\ done = Paths
    BY <1>1, <1>5, <2>1 DEF PlanFitted, GatheredTree
  <2>3. Len(reachableEntities) + Len(entities) = Cardinality(Paths) + 1
    BY <2>2 DEF Gathered
  <2>4. Cardinality(Paths) = Len(insert.paths)
    <3>1. PICK n \in Nat : n = Len(insert.paths)
      BY <1>1, <2>1, TreeFacts
    <3>2. Cardinality(1 .. n) = n
      BY FS_Interval
    <3> QED
      BY <3>1, <3>2 DEF Paths
  <2>5. Len(reachableEntities) = 0 /\ Len(entities) \in Nat
    BY <1>2, LenProperties
  <2>6. Len(entities) = Len(insert.paths) + 1
    BY <2>3, <2>4, <2>5
  <2> QED
    BY <1>5, <2>6 DEF EveryEntityPlannedOnce
<1> QED
  BY <1>1, <1>3, <1>4, <1>5

LEMMA WalkFits == ExecutionInv /\ WalkInv => WalkFollowsPlan
<1> SUFFICES ASSUME ExecutionInv, WalkInv, Emitted,
                    NEW h \in ToSet(entities), h.entity # insert.root
             PROVE  /\ Cardinality({w \in walks : RightOf(w[1], w[2]) = h.entity}) = 1
                    /\ \A w \in walks : RightOf(w[1], w[2]) = h.entity =>
                         w[2] \in {g.entity : g \in ToSet(entities)} /\ h.direct \subseteq {w[1]}
  BY DEF WalkFollowsPlan
<1>1. /\ insert \in Inserts /\ insert.style \in {"all", "with"} /\ PlanFitted
      /\ Executing /\ phase \notin {"start", "collect", "emit"}
  BY InsertsAssumption DEF ExecutionInv, PlanKept, WalkInv, Styles, Emitted, Executing
<1>2. reachableEntities = <<>> /\ Holding = ToSet(entities)
  BY <1>1 DEF PlanFitted, AllInOrder, Holding, ToSet
<1>3. SUFFICES \E x \in walks :
                 /\ RightOf(x[1], x[2]) = h.entity
                 /\ \A w \in walks : RightOf(w[1], w[2]) = h.entity => w = x
                 /\ x[2] \in {g.entity : g \in Holding} /\ h.direct \subseteq {x[1]}
  <2> SUFFICES ASSUME NEW x \in walks, RightOf(x[1], x[2]) = h.entity,
                      \A w \in walks : RightOf(w[1], w[2]) = h.entity => w = x,
                      x[2] \in {g.entity : g \in Holding}, h.direct \subseteq {x[1]}
               PROVE  /\ Cardinality({w \in walks : RightOf(w[1], w[2]) = h.entity}) = 1
                      /\ \A w \in walks : RightOf(w[1], w[2]) = h.entity =>
                           w[2] \in {g.entity : g \in ToSet(entities)} /\ h.direct \subseteq {w[1]}
    OBVIOUS
  <2>1. {w \in walks : RightOf(w[1], w[2]) = h.entity} = {x}
    OBVIOUS
  <2>2. Cardinality({x}) = 1
    BY FS_Singleton
  <2> QED
    BY <1>2, <2>1, <2>2
<1>4. CASE insert.style = "all" /\ Alone
  <2>1. entities = <<Holder(insert.root, {}, {})>>
    BY <1>1, <1>4 DEF PlanFitted, OnlyRoot
  <2>2. PICK g : g = Holder(insert.root, {}, {})
    OBVIOUS
  <2>3. ToSet(entities) = {g}
    <3>1. DOMAIN entities = {1} /\ entities[1] = g
      BY <2>1, <2>2
    <3> QED
      BY <3>1 DEF ToSet
  <2>4. g.entity = insert.root
    BY <2>2 DEF Holder
  <2> QED
    BY <2>3, <2>4
<1>5. CASE insert.style = "all" /\ ~Alone
  <2>1. Visited /\ Retraced
    BY <1>1, <1>5 DEF PlanFitted, WalkInv, WalkFitted
  <2>2. PICK by : /\ Reached(Visit(<<>>, visitedEntities, by))
                  /\ \A g \in Holding : \A w \in by : RightOf(w[1], w[2]) = g.entity => g.direct \subseteq {w[1]}
    BY <1>1, <2>1 DEF Visited
  <2>3. Reached(Visit(<<>>, emittedEntities, walks))
    BY <1>1, <2>1 DEF Retraced
  <2>4. Visit(<<>>, visitedEntities, by) = Visit(<<>>, emittedEntities, walks)
    <3>1. PICK v, u : v = Visit(<<>>, visitedEntities, by) /\ u = Visit(<<>>, emittedEntities, walks)
      OBVIOUS
    <3>2. v.sides = <<>> /\ u.sides = <<>>
      BY <3>1 DEF Visit
    <3> QED
      BY <2>2, <2>3, <3>1, <3>2, SameEnd
  <2>5. visitedEntities = emittedEntities /\ by = walks
    BY <2>4 DEF Visit
  <2>6. SoundVisit(Visit(<<>>, emittedEntities, walks))
    BY <1>1, <2>3, ReachedIsSound
  <2>7. h.entity \in emittedEntities \ {insert.root}
    BY <1>2, <2>1, <2>5 DEF Visited
  <2>8. PICK x \in walks : RightOf(x[1], x[2]) = h.entity
    BY <2>6, <2>7 DEF SoundVisit, Visit
  <2>9. /\ \A w \in walks : RightOf(w[1], w[2]) = h.entity => w = x
        /\ x[2] \in emittedEntities
    BY <2>6, <2>8 DEF SoundVisit, Visit
  <2>10. x[2] \in {g.entity : g \in Holding}
    BY <2>1, <2>5, <2>9 DEF Visited
  <2>11. h.direct \subseteq {x[1]}
    BY <1>2, <2>2, <2>5, <2>8
  <2> QED
    BY <2>8, <2>9, <2>10, <2>11
<1>6. CASE insert.style = "with"
  <2>1. PICK at, from : Tree(at, from)
    BY <1>1, <1>6, TreeGiven
  <2>2. Gathered(at, from, Paths) /\ WalkedTo(at, from, Paths)
    <3>1. PICK done \in SUBSET Paths : Gathered(at, from, done) /\ done = Paths
      BY <1>1, <1>6, <2>1 DEF PlanFitted, GatheredTree
    <3>2. PICK done2 \in SUBSET Paths : WalkedTo(at, from, done2) /\ done2 = Paths
      BY <1>1, <1>6, <2>1 DEF WalkInv, WalkFitted, WalkedTree
    <3> QED
      BY <3>1, <3>2
  <2>3. \A a, b \in Upto(Paths) : at[a] = at[b] => a = b
    BY <1>1, <1>6, <2>1, TreeIsPlanned
  <2>4. /\ at[0] = insert.root
        /\ \A n \in Paths : from[n] \in Upto(Paths) /\ at[n] = RightOf(RelationAt(n), at[from[n]])
    BY <1>1, <2>1, TreeFacts
  <2>5. PICK n \in Upto(Paths) :
          h.entity = at[n] /\ h.direct \subseteq {RelationAt(m) : m \in Paths \cap {n}}
    BY <1>2, <2>2 DEF Gathered
  <2>6. n \in Paths /\ Paths \cap {n} = {n}
    BY <2>4, <2>5 DEF Upto
  <2>7. PICK x : x = <<RelationAt(n), at[from[n]]>>
    OBVIOUS
  <2>8. x \in walks /\ x[1] = RelationAt(n) /\ x[2] = at[from[n]] /\ RightOf(x[1], x[2]) = h.entity
    BY <2>2, <2>4, <2>5, <2>6, <2>7 DEF WalkedTo
  <2>9. ASSUME NEW w \in walks, RightOf(w[1], w[2]) = h.entity
        PROVE  w = x
    <3>1. PICK k \in Paths : w = <<RelationAt(k), at[from[k]]>>
      BY <2>2 DEF WalkedTo
    <3>2. at[k] = at[n] /\ k \in Upto(Paths)
      BY <2>4, <2>5, <2>9, <3>1 DEF Upto
    <3>3. k = n
      BY <2>3, <3>2
    <3> QED
      BY <2>7, <3>1, <3>3
  <2>10. x[2] \in {g.entity : g \in Holding}
    <3>1. x[2] \in visitedEntities
      BY <2>2, <2>4, <2>6, <2>8 DEF Gathered
    <3> QED
      BY <2>2, <3>1 DEF Gathered
  <2>11. h.direct \subseteq {x[1]}
    BY <2>5, <2>6, <2>8
  <2> QED
    BY <2>8, <2>9, <2>10, <2>11
<1> QED
  BY <1>1, <1>4, <1>5, <1>6

(* The two recursions, of InsertionSourceCompiler and of EntitySeprator,   *)
(* stay in step: what the walk has entered, and by which sides, is at any  *)
(* time what the collecting had entered when it had as much still to do.   *)
THEOREM WalkInvariance == Spec => []WalkInv
<1>1. Init => ExecutionInv /\ WalkInv
  BY Start, WalkBegins
<1>2. ExecutionInv /\ WalkInv /\ [Next]_vars => (ExecutionInv /\ WalkInv)'
  BY KeepsExecutionInv, WalksOn
<1> QED
  BY <1>1, <1>2, PTL DEF Spec

(* For every schema, with or without cycles, and every tree of paths: no   *)
(* entity is planned twice or left out, and the generated walk enters each *)
(* by exactly one side, which is the relation its holder assigns directly. *)
THEOREM PlanAndWalkAgree == Spec => []PlanIsWalked
<1>1. ExecutionInv /\ WalkInv => PlanIsWalked
  BY PlansOnce, WalkFits DEF PlanIsWalked, ExecutionInv
<1> QED
  BY <1>1, ExecutionInvariance, WalkInvariance, PTL

-----------------------------------------------------------------------------
(* Foreign keys.  A key of the server is assigned when its row is stored;  *)
(* a key of the client may be assigned before, and then the plan has its   *)
(* entity before that of the object it is assigned to.                     *)

Held(o) == o \in ToSet(Batch(o[1]))

(* The relations that foreign keys are assigned by when their entity is    *)
(* inserted lead to keys of the server.                                    *)
SelfGenerated ==
  \A h \in Holding : \A r \in h.self : HasGeneratedKey(insert.principal[r]) /\ ForeignKeyLeft(r, h.entity)

(* The walk follows relations that the plan respects, away from objects    *)
(* that are to be inserted.                                                *)
Leaving(o, left) == \E r \in Relations : <<r, left[1]>> \in walks /\ o[1] = RightOf(r, left[1])

WalkHeld ==
  /\ \A w \in walks : w[1] \in reachableRelations
  /\ phase = "split" =>
       \A x \in ToSet(walk) :
         Held(x.left) /\ (x.object \in ToSet(insert.roots) \/ Leaving(x.object, x.left))

BatchesStored ==
  phase \in {"insert", "read"} =>
    \A j \in 1 .. Begun : ToSet(Batch(entities[j].entity)) \subseteq Stored

KeysStored == \A o \in Objects : HasGeneratedKey(o[1]) /\ primaryKey[o] # NoKey => o \in Stored

(* p is stored before d is.                                                *)
Due(p, d) ==
  /\ p \in Objects /\ Held(p)
  /\ \E r \in Reachable(d[1]) : ForeignKeyLeft(r, d[1]) /\ RightOf(r, d[1]) = p[1]

Settled(key, d) == key = NoKey \/ key \in Stored \/ Due(key, d)

ForeignKeysDue ==
  /\ Planning \/ phase = "emit" => \A d \in Objects : \A r \in Relations : foreignKey[d][r] = NoKey
  /\ \A d \in Objects : \A r \in Relations : Settled(foreignKey[d][r], d)

KeyInv ==
  SelfGenerated /\ WalkHeld /\ BatchesStored /\ KeysStored /\ ForeignKeysDue /\ ReferencesExist

-----------------------------------------------------------------------------
(* The plan.                                                               *)

LEMMA SelfOfHolder ==
  ASSUME NEW e, NEW rs, NEW assigned \in SUBSET ToGenerated(rs, e), NEW direct,
         NEW r \in Holder(e, assigned, direct).self
  PROVE  HasGeneratedKey(insert.principal[r]) /\ ForeignKeyLeft(r, Holder(e, assigned, direct).entity)
<1>1. r \in ToGenerated(rs, e) /\ ForeignKeyLeft(r, e) /\ Holder(e, assigned, direct).entity = e
  BY DEF Holder
<1>2. RightOf(r, e) = insert.principal[r] /\ HasGeneratedKey(RightOf(r, e))
  BY <1>1 DEF ToGenerated, ForeignKeyLeft, RightOf
<1> QED
  BY <1>1, <1>2

LEMMA HoldsOneMore ==
  ASSUME PlanInv, SelfGenerated, UNCHANGED <<insert, entities>>,
         NEW h, reachableEntities' = Append(reachableEntities, h),
         \A r \in h.self : HasGeneratedKey(insert.principal[r]) /\ ForeignKeyLeft(r, h.entity)
  PROVE  SelfGenerated'
<1>1. reachableEntities \in Seq(Holders) /\ Len(reachableEntities) \in Nat
  BY LenProperties DEF PlanInv, Typed, PlanTypeOK
<1>2. Holding' \subseteq Holding \cup {h}
  BY <1>1 DEF Holding, ToSet
<1> QED
  BY <1>2 DEF SelfGenerated, HasGeneratedKey, ForeignKeyLeft

LEMMA CollectedSelf ==
  ASSUME PlanInv, SelfGenerated, UNCHANGED <<insert, entities>>, NEW e, NEW direct,
         Collect(e, direct) \/ \E p : CollectPath(e, p, direct)
  PROVE  SelfGenerated'
<1>1. \E rs : \E assigned \in SUBSET ToGenerated(rs, e) :
        reachableEntities' = Append(reachableEntities, Holder(e, assigned, direct))
  <2>1. CASE Collect(e, direct)
    <3>1. PICK assigned : assigned = {r \in ToGenerated(RelationsOf(e), e) :
                                        HasNavigation(r, e) /\ r \notin reachableRelations}
      OBVIOUS
    <3>2. assigned \in SUBSET ToGenerated(RelationsOf(e), e)
      BY <3>1
    <3>3. reachableEntities' = Append(reachableEntities, Holder(e, assigned, direct))
      BY <2>1, <3>1 DEF Collect
    <3> QED
      BY <3>2, <3>3
  <2>2. CASE \E p : CollectPath(e, p, direct)
    <3>1. PICK p : CollectPath(e, p, direct)
      BY <2>2
    <3>2. PICK rs : rs = {insert.paths[n].relation : n \in ToSet(TrailingPath(p))}
      OBVIOUS
    <3>3. reachableEntities' = Append(reachableEntities, Holder(e, ToGenerated(rs, e), direct))
      BY <3>1, <3>2 DEF CollectPath
    <3> QED
      BY <3>3
  <2> QED
    BY <2>1, <2>2
<1>2. PICK rs : \E assigned \in SUBSET ToGenerated(rs, e) :
        reachableEntities' = Append(reachableEntities, Holder(e, assigned, direct))
  BY <1>1
<1>3. PICK assigned \in SUBSET ToGenerated(rs, e) :
        reachableEntities' = Append(reachableEntities, Holder(e, assigned, direct))
  BY <1>2
<1>4. PICK h : h = Holder(e, assigned, direct)
  OBVIOUS
<1>5. \A r \in h.self : HasGeneratedKey(insert.principal[r]) /\ ForeignKeyLeft(r, h.entity)
  BY <1>4, SelfOfHolder
<1> QED
  BY <1>3, <1>4, <1>5, HoldsOneMore

LEMMA PlansSelf == PlanInv /\ SelfGenerated /\ Plan => SelfGenerated'
<1> SUFFICES ASSUME PlanInv, SelfGenerated, Plan
             PROVE  SelfGenerated'
  OBVIOUS
<1>1. CASE CompileFromRoot
  <2>1. UNCHANGED insert /\ entities = <<>> /\ reachableEntities = <<>>
    BY <1>1 DEF CompileFromRoot, PlanInv, NotYetPlanned
  <2>2. CASE insert.relationsOf[insert.root] = <<>>
    <3>1. PICK h : h = Holder(insert.root, {}, {})
      OBVIOUS
    <3>2. h.self = {}
      BY <3>1 DEF Holder
    <3>3. entities' = <<h>> /\ reachableEntities' = <<>>
      BY <1>1, <2>1, <2>2, <3>1 DEF CompileFromRoot
    <3>4. Holding' \subseteq {h}
      BY <3>3 DEF Holding, ToSet
    <3> QED
      BY <3>2, <3>4 DEF SelfGenerated
  <2>3. CASE insert.relationsOf[insert.root] # <<>>
    BY <1>1, <2>1, <2>3, CollectedSelf DEF CompileFromRoot
  <2> QED
    BY <2>2, <2>3
<1>2. CASE CompileFromRelations
  BY <1>2, CollectedSelf DEF CompileFromRelations, orderVars
<1>3. CASE SkipSide
  BY <1>3 DEF SkipSide, SelfGenerated, Holding, HasGeneratedKey, ForeignKeyLeft, orderVars
<1>4. CASE CollectReachable
  BY <1>4, CollectedSelf DEF CollectReachable, orderVars
<1>5. CASE CollectRelationPath
  BY <1>5, CollectedSelf DEF CollectRelationPath, orderVars
<1>6. CASE Ordering
  BY <1>6, OrderingHolds DEF SelfGenerated, HasGeneratedKey, ForeignKeyLeft
<1> QED
  BY <1>1, <1>2, <1>3, <1>4, <1>5, <1>6 DEF Plan, Ordering
LEMMA SameSelf ==
  ASSUME SelfGenerated, UNCHANGED <<insert, reachableEntities, entities>>
  PROVE  SelfGenerated'
BY DEF SelfGenerated, Holding, HasGeneratedKey, ForeignKeyLeft

(* Until the walk begins nothing is assigned or stored.                    *)
LEMMA NothingAssigned ==
  ASSUME KeyInv, Planning \/ phase = "emit", phase' \notin {"insert", "read"},
         UNCHANGED <<insert, primaryKey, foreignKey, rows>>, SelfGenerated', WalkHeld'
  PROVE  KeyInv'
<1>1. \A d \in Objects : \A r \in Relations : foreignKey'[d][r] = NoKey
  BY DEF KeyInv, ForeignKeysDue
<1>2. Stored' = Stored /\ KeysStored'
  BY DEF KeyInv, KeysStored, Stored, HasGeneratedKey
<1>3. ForeignKeysDue' /\ BatchesStored' /\ ReferencesExist'
  BY <1>1 DEF KeyInv, ForeignKeysDue, Settled, BatchesStored, ReferencesExist
<1> QED
  BY <1>2, <1>3 DEF KeyInv

LEMMA KeysBegin == Init => KeyInv
<1> SUFFICES ASSUME Init
             PROVE  KeyInv
  OBVIOUS
<1>1. /\ reachableEntities = <<>> /\ entities = <<>> /\ rows = <<>> /\ walks = {} /\ phase = "start"
      /\ foreignKey = [o \in Objects |-> [r \in Relations |-> NoKey]]
      /\ primaryKey = [o \in Objects |-> IF HasGeneratedKey(o[1]) THEN NoKey ELSE o]
  BY DEF Init, PlanInit
<1>2. Holding = {} /\ Stored = {}
  BY <1>1 DEF Holding, Stored, ToSet
<1>3. SelfGenerated /\ WalkHeld /\ BatchesStored
  BY <1>1, <1>2 DEF SelfGenerated, WalkHeld, BatchesStored
<1>4. KeysStored /\ ForeignKeysDue /\ ReferencesExist
  BY <1>1 DEF KeysStored, ForeignKeysDue, Settled, ReferencesExist
<1> QED
  BY <1>3, <1>4 DEF KeyInv

LEMMA KeysPlan == ExecutionInv /\ WalkInv /\ KeyInv /\ Plan /\ UNCHANGED executionVars => KeyInv'
<1> SUFFICES ASSUME ExecutionInv, WalkInv, KeyInv, Plan, UNCHANGED executionVars
             PROVE  KeyInv'
  OBVIOUS
<1>1. phase \in {"start", "collect", "order"} /\ phase' \in PlanPhases
  BY PlanningPhases
<1>2. Planning /\ PlanInv
  BY <1>1 DEF Planning, PlanPhases, ExecutionInv, PlanKept
<1>3. UNCHANGED <<insert, primaryKey, foreignKey, rows, walks>>
  BY DEF Plan, CompileFromRoot, CompileFromRelations, SkipSide, CollectReachable,
         CollectRelationPath, BaseCompile, Postpone, AddEntity, EndPass,
         executionVars, keyVars, emitVars
<1>4. SelfGenerated'
  BY <1>2, PlansSelf DEF KeyInv
<1>5. WalkHeld'
  BY <1>1, <1>2, <1>3 DEF WalkHeld, WalkInv, WalkFitted, PlanPhases
<1> QED
  BY <1>1, <1>2, <1>3, <1>4, <1>5, NothingAssigned DEF PlanPhases

LEMMA KeysCreateInserter == ExecutionInv /\ WalkInv /\ KeyInv /\ CreateInserter => KeyInv'
<1> SUFFICES ASSUME ExecutionInv, WalkInv, KeyInv, CreateInserter
             PROVE  KeyInv'
  OBVIOUS
<1>1. /\ phase = "ordered" /\ phase' \in {"threw", "emit"} /\ walks' = walks
      /\ UNCHANGED <<insert, reachableEntities, entities, reachableRelations, primaryKey, foreignKey, rows>>
  BY DEF CreateInserter, orderVars, keyVars, emitVars
<1>2. Planning
  BY <1>1 DEF Planning, PlanPhases
<1>3. SelfGenerated' /\ WalkHeld'
  BY <1>1, SameSelf DEF KeyInv, WalkHeld
<1> QED
  BY <1>1, <1>2, <1>3, NothingAssigned

LEMMA KeysEmitWalk == KeyInv /\ EmitWalk => KeyInv'
<1> SUFFICES ASSUME KeyInv, EmitWalk
             PROVE  KeyInv'
  OBVIOUS
<1>1. /\ phase = "emit" /\ phase' = "emit"
      /\ UNCHANGED <<insert, reachableEntities, entities, reachableRelations, primaryKey, foreignKey, rows>>
  BY DEF EmitWalk, orderVars, keyVars
<1>2. \A w \in walks' : w \in walks \/ w[1] \in reachableRelations
  BY DEF EmitWalk, WriteWalk, emitVars
<1>3. SelfGenerated' /\ WalkHeld'
  BY <1>1, <1>2, SameSelf DEF KeyInv, WalkHeld
<1> QED
  BY <1>1, <1>3, NothingAssigned

LEMMA RootsOfRoot ==
  ASSUME insert \in Inserts
  PROVE  \A n \in DOMAIN insert.roots : insert.roots[n][1] = insert.root
<1>1. insert.roots \in Seq({insert.root} \X (1 .. MaxObjects))
  BY ObjectsAssumption
<1>2. \A n \in 1 .. Len(insert.roots) : insert.roots[n] \in {insert.root} \X (1 .. MaxObjects)
  BY <1>1, ElementOfSeq
<1> QED
  BY <1>1, <1>2, LenProperties

LEMMA KeysStartInsert == ExecutionInv /\ KeyInv /\ StartInsert => KeyInv'
<1> SUFFICES ASSUME ExecutionInv, KeyInv, StartInsert
             PROVE  KeyInv'
  OBVIOUS
<1>1. /\ phase = "emit" /\ phase' \in {"done", "split"}
      /\ walk' = [n \in DOMAIN insert.roots |-> [object |-> insert.roots[n], left |-> insert.roots[n]]]
      /\ UNCHANGED <<insert, reachableEntities, entities, reachableRelations, primaryKey, foreignKey,
                     rows, walks, collections>>
  BY DEF StartInsert, plan, collectVars, orderVars, keyVars, emitVars
<1>2. insert \in Inserts
  BY DEF ExecutionInv, PlanKept
<1>3. \A n \in DOMAIN insert.roots : insert.roots[n][1] = insert.root
  BY <1>2, RootsOfRoot
<1>4. \A x \in ToSet(walk') : Held(x.left)' /\ x.object \in ToSet(insert.roots)
  <2> SUFFICES ASSUME NEW x \in ToSet(walk')
               PROVE  Held(x.left)' /\ x.object \in ToSet(insert.roots)
    OBVIOUS
  <2>1. PICK n \in DOMAIN insert.roots : x.object = insert.roots[n] /\ x.left = insert.roots[n]
    BY <1>1 DEF ToSet
  <2>2. x.left[1] = insert.root /\ x.left \in ToSet(insert.roots) /\ x.object \in ToSet(insert.roots)
    BY <1>3, <2>1 DEF ToSet
  <2> QED
    BY <1>1, <2>2 DEF Held, Batch
<1>5. SelfGenerated' /\ WalkHeld'
  BY <1>1, <1>4, SameSelf DEF KeyInv, WalkHeld
<1> QED
  BY <1>1, <1>5, NothingAssigned

-----------------------------------------------------------------------------
(* The walk.                                                               *)

LEMMA WalkedSides ==
  ASSUME ExecutionInv, WalkInv, Emitted, NEW w \in walks
  PROVE  /\ w[2] \in visitedEntities /\ w[1] \in RelationsOf(w[2])
         /\ RightOf(w[1], w[2]) \in visitedEntities \ {insert.root}
         /\ \E h \in ToSet(entities) : h.entity = RightOf(w[1], w[2])
<1>1. /\ insert \in Inserts /\ insert.style \in {"all", "with"} /\ PlanFitted
      /\ Executing /\ phase \notin {"start", "collect", "emit"}
  BY InsertsAssumption DEF ExecutionInv, PlanKept, WalkInv, Styles, Emitted, Executing
<1>2. reachableEntities = <<>> /\ Holding = ToSet(entities)
  BY <1>1 DEF PlanFitted, AllInOrder, Holding, ToSet
<1>3. CASE insert.style = "all"
  <2>1. ~Alone
    BY <1>1, <1>3 DEF WalkInv, WalkFitted
  <2>2. Visited /\ Retraced
    BY <1>1, <1>3, <2>1 DEF PlanFitted, WalkInv, WalkFitted
  <2>3. SoundVisit(Visit(<<>>, emittedEntities, walks))
    BY <1>1, <2>2, ReachedIsSound DEF Retraced
  <2>4. /\ w[2] \in emittedEntities /\ w[1] \in RelationsOf(w[2])
        /\ RightOf(w[1], w[2]) \in emittedEntities \ {insert.root}
    BY <2>3 DEF SoundVisit, Visit
  <2>5. emittedEntities \subseteq visitedEntities /\ {h.entity : h \in Holding} = visitedEntities
    BY <2>2 DEF Retraced, Visited
  <2> QED
    BY <1>2, <2>4, <2>5
<1>4. CASE insert.style = "with"
  <2>1. PICK at, from : Tree(at, from)
    BY <1>1, <1>4, TreeGiven
  <2>2. Gathered(at, from, Paths) /\ WalkedTo(at, from, Paths)
    <3>1. PICK done \in SUBSET Paths : Gathered(at, from, done) /\ done = Paths
      BY <1>1, <1>4, <2>1 DEF PlanFitted, GatheredTree
    <3>2. PICK done2 \in SUBSET Paths : WalkedTo(at, from, done2) /\ done2 = Paths
      BY <1>1, <1>4, <2>1 DEF WalkInv, WalkFitted, WalkedTree
    <3> QED
      BY <3>1, <3>2
  <2>3. \A a, b \in Upto(Paths) : at[a] = at[b] => a = b
    BY <1>1, <1>4, <2>1, TreeIsPlanned
  <2>4. PICK n \in Paths : w = <<RelationAt(n), at[from[n]]>>
    BY <2>2 DEF WalkedTo
  <2>5. /\ at[0] = insert.root /\ from[n] \in Upto(Paths) /\ RelationAt(n) \in RelationsOf(at[from[n]])
        /\ at[n] = RightOf(RelationAt(n), at[from[n]])
    BY <1>1, <2>1, TreeFacts
  <2>6. n \in Upto(Paths) /\ 0 \in Upto(Paths) /\ n # 0
    BY DEF Upto, Paths
  <2>7. at[n] # insert.root
    BY <2>3, <2>5, <2>6
  <2>8. at[n] \in visitedEntities /\ at[from[n]] \in visitedEntities /\ {h.entity : h \in Holding} = visitedEntities
    BY <2>2, <2>5, <2>6 DEF Gathered
  <2> QED
    BY <1>2, <2>4, <2>5, <2>7, <2>8
<1> QED
  BY <1>1, <1>3, <1>4

(* An object that is not given was reached from another by the relation    *)
(* that it is to be assigned by, if there is one.                          *)
LEMMA ReachedDirectly ==
  ASSUME ExecutionInv, WalkInv, WalkHeld, phase = "split",
         NEW o \in Objects, NEW left \in Objects, Leaving(o, left)
  PROVE  /\ o[1] # insert.root
         /\ \A r \in DirectOf(o) :
              /\ r \in Reachable(o[1]) /\ RightOf(r, o[1]) = left[1]
              /\ r \in Reachable(left[1]) /\ RightOf(r, left[1]) = o[1]
<1>1. PICK q \in Relations : <<q, left[1]>> \in walks /\ o[1] = RightOf(q, left[1])
  BY DEF Leaving
<1>2. PICK w : w = <<q, left[1]>>
  OBVIOUS
<1>3. Emitted /\ insert \in Inserts /\ visitedEntities \subseteq Entities
  BY DEF Emitted, ExecutionInv, PlanKept, TypeOK, PlanTypeOK
<1>4. /\ left[1] \in visitedEntities /\ q \in RelationsOf(left[1])
      /\ o[1] \in visitedEntities \ {insert.root} /\ \E h \in ToSet(entities) : h.entity = o[1]
  BY <1>1, <1>2, <1>3, WalkedSides
<1>5. q \in RelationsOf(o[1]) /\ RightOf(q, o[1]) = left[1]
  BY <1>1, <1>3, <1>4, Siblings
<1>6. q \in reachableRelations
  BY <1>1 DEF WalkHeld
<1>7. \A r \in DirectOf(o) : r = q
  <2>1. HolderOf(o[1]) \in ToSet(entities) /\ HolderOf(o[1]).entity = o[1]
    BY <1>4 DEF HolderOf
  <2>2. HolderOf(o[1]).direct \subseteq {w[1]}
    BY <1>1, <1>2, <1>3, <1>4, <2>1, WalkFits DEF WalkFollowsPlan
  <2> QED
    BY <1>2, <1>4, <2>2 DEF DirectOf
<1> QED
  BY <1>1, <1>4, <1>5, <1>6, <1>7 DEF Reachable

LEMMA LinkedLeave ==
  ASSUME ExecutionInv, WalkInv, Emitted, NEW o \in Objects, NEW r \in Followed(o)
  PROVE  Linked(r, o[1], o) \in Seq({x \in Objects : Leaving(x, o)})
<1>1. insert \in Inserts /\ <<r, o[1]>> \in walks /\ r \in RelationsOf(o[1])
  BY DEF ExecutionInv, PlanKept, Followed
<1>2. r \in Relations /\ o[1] \in Entities
  BY <1>1, RelationTypes DEF Objects
<1> DEFINE linked == IF ForeignKeyLeft(r, o[1])
                       THEN {p \in Objects : <<o, p>> \in insert.links[r]}
                       ELSE {d \in Objects : <<d, o>> \in insert.links[r]}
<1>3. \A x \in linked : x \in Objects /\ x[1] = RightOf(r, o[1])
  BY <1>1, <1>2, LinksAssumption DEF ForeignKeyLeft, RightOf
<1> HIDE DEF linked
<1>4. linked \subseteq {x \in Objects : Leaving(x, o)}
  BY <1>1, <1>2, <1>3 DEF Leaving
<1>5. SetToSeq(linked) \in Seq(linked)
  BY <1>4, FiniteObjects, FS_Subset, AsSequence
<1>6. SetToSeq(linked) \in Seq({x \in Objects : Leaving(x, o)})
  BY <1>4, <1>5, SeqMonotonic
<1> QED
  BY <1>6 DEF Linked, linked

LEMMA NextObjectsLeave ==
  ASSUME ExecutionInv, WalkInv, Emitted, NEW o \in Objects
  PROVE  NextObjects(o) \in Seq({x \in Looks : x.left = o /\ Leaving(x.object, o)})
<1>1. PICK away : away = {x \in Objects : Leaving(x, o)}
  OBVIOUS
<1>2. insert \in Inserts /\ \A r \in Followed(o) : Linked(r, o[1], o) \in Seq(away)
  BY <1>1, LinkedLeave DEF ExecutionInv, PlanKept
<1>3. NextObjects(o) \in Seq([object : away, left : {o}])
  BY <1>2, NextObjectsAre
<1>4. [object : away, left : {o}] \subseteq {x \in Looks : x.left = o /\ Leaving(x.object, o)}
  BY <1>1 DEF Looks
<1> QED
  BY <1>3, <1>4, SeqMonotonic

(* What is due stays due while objects are put into collections.           *)
LEMMA DueStays ==
  ASSUME UNCHANGED <<insert, visitedEntities, reachableRelations>>,
         \A o \in Objects : Held(o) => Held(o)', NEW p, NEW d, Due(p, d)
  PROVE  Due(p, d)'
BY DEF Due, Reachable, RelationsOf, RightOf, ForeignKeyLeft

LEMMA SettledStays ==
  ASSUME UNCHANGED <<insert, visitedEntities, reachableRelations>>, Stored \subseteq Stored',
         \A o \in Objects : Held(o) => Held(o)', NEW key, NEW d, Settled(key, d)
  PROVE  Settled(key, d)'
BY DueStays DEF Settled

LEMMA AllSettled ==
  ASSUME phase' \notin PlanPhases \cup {"emit"},
         \A d \in Objects : \A r \in Relations : \A key : key = foreignKey'[d][r] => Settled(key, d)'
  PROVE  ForeignKeysDue'
BY DEF ForeignKeysDue, Planning

LEMMA HeldStays ==
  ASSUME UNCHANGED insert, NEW e \in Entities, NEW o,
         collections \in [Entities -> Seq(Objects)],
         collections' = [collections EXCEPT ![e] = Append(@, o)], NEW x, Held(x)
  PROVE  Held(x)'
<1>1. CASE x[1] = insert.root
  BY <1>1 DEF Held, Batch
<1>2. CASE x[1] # insert.root /\ x[1] # e
  <2>1. collections'[x[1]] = collections[x[1]]
    BY <1>2
  <2> QED
    BY <1>2, <2>1 DEF Held, Batch
<1>3. CASE x[1] # insert.root /\ x[1] = e
  <2>1. PICK s : s = collections[e]
    OBVIOUS
  <2>2. s \in Seq(Objects) /\ collections'[e] = Append(s, o)
    BY <2>1
  <2>3. ToSet(s) \subseteq ToSet(Append(s, o))
    <3>1. Len(s) \in Nat /\ DOMAIN s = 1 .. Len(s)
      BY <2>2, LenProperties
    <3> QED
      BY <2>2, <3>1 DEF ToSet
  <2> QED
    BY <1>3, <2>1, <2>2, <2>3 DEF Held, Batch
<1> QED
  BY <1>1, <1>2, <1>3

LEMMA NowHeld ==
  ASSUME UNCHANGED insert, NEW o, o[1] \in Entities \ {insert.root},
         collections \in [Entities -> Seq(Objects)],
         collections' = [collections EXCEPT ![o[1]] = Append(@, o)]
  PROVE  Held(o)'
<1>1. PICK s : s = collections[o[1]]
  OBVIOUS
<1>2. s \in Seq(Objects) /\ collections'[o[1]] = Append(s, o) /\ Len(s) \in Nat
  BY <1>1, LenProperties
<1>3. o \in ToSet(Append(s, o))
  BY <1>2 DEF ToSet
<1> QED
  BY <1>2, <1>3 DEF Held, Batch

LEMMA JoinedElements ==
  ASSUME NEW S, NEW s \in Seq(S), NEW t \in Seq(S)
  PROVE  ToSet(s \o t) \subseteq ToSet(s) \cup ToSet(t)
<1>1. PICK all : all = s \o t
  OBVIOUS
<1>2. /\ Len(s) \in Nat /\ DOMAIN s = 1 .. Len(s) /\ Len(t) \in Nat /\ DOMAIN t = 1 .. Len(t)
      /\ all \in Seq(S) /\ Len(all) = Len(s) + Len(t)
      /\ \A i \in 1 .. Len(s) + Len(t) : all[i] = IF i <= Len(s) THEN s[i] ELSE t[i - Len(s)]
  BY <1>1, ConcatProperties, LenProperties
<1>3. DOMAIN all = 1 .. Len(s) + Len(t)
  BY <1>2, LenProperties
<1>4. ASSUME NEW i \in 1 .. Len(s) + Len(t)
      PROVE  (\E j \in DOMAIN s : all[i] = s[j]) \/ \E j \in DOMAIN t : all[i] = t[j]
  <2>1. CASE i <= Len(s)
    <3>1. i \in DOMAIN s /\ all[i] = s[i]
      BY <1>2, <2>1
    <3> QED
      BY <3>1
  <2>2. CASE ~(i <= Len(s))
    <3>1. i - Len(s) \in DOMAIN t /\ all[i] = t[i - Len(s)]
      BY <1>2, <2>2
    <3> QED
      BY <3>1
  <2> QED
    BY <2>1, <2>2
<1> QED
  BY <1>1, <1>3, <1>4 DEF ToSet

(* What the walk still looks at, after an object was taken from it.        *)
LEMMA WalkHeldStays ==
  ASSUME WalkHeld, NEW objects, walk' = objects,
         UNCHANGED <<insert, walks, reachableRelations>>,
         \A x \in ToSet(objects) :
           Held(x.left)' /\ (x.object \in ToSet(insert.roots) \/ Leaving(x.object, x.left))
  PROVE  WalkHeld'
BY DEF WalkHeld, Leaving, RightOf

LEMMA FirstLook ==
  ASSUME ExecutionInv, phase = "split"
  PROVE  Head(walk) \in ToSet(walk) /\ ToSet(Tail(walk)) \subseteq ToSet(walk)
<1>1. walk \in Seq(Looks) /\ walk # <<>>
  BY DEF ExecutionInv, TypeOK, NotYetInserted, Looks
<1>2. Len(walk) \in Nat /\ DOMAIN walk = 1 .. Len(walk) /\ Len(walk) # 0
  BY <1>1, LenProperties, EmptySeq
<1>3. PICK n, rest : n = Len(walk) /\ rest = Tail(walk)
  OBVIOUS
<1>4. /\ Head(walk) = walk[1] /\ rest \in Seq(Looks) /\ Len(rest) = n - 1
      /\ \A i \in 1 .. n - 1 : rest[i] = walk[i + 1]
  BY <1>1, <1>3, HeadTailProperties
<1>5. DOMAIN rest = 1 .. n - 1
  BY <1>4, LenProperties
<1>6. \A i \in 1 .. n - 1 : i + 1 \in DOMAIN walk
  BY <1>2, <1>3
<1>7. ToSet(rest) \subseteq ToSet(walk)
  BY <1>4, <1>5, <1>6 DEF ToSet
<1>8. 1 \in DOMAIN walk
  BY <1>2
<1> QED
  BY <1>3, <1>4, <1>7, <1>8 DEF ToSet

LEMMA KeysSkipSeenObject == ExecutionInv /\ KeyInv /\ SkipSeenObject => KeyInv'
<1> SUFFICES ASSUME ExecutionInv, KeyInv, SkipSeenObject
             PROVE  KeyInv'
  OBVIOUS
<1>1. /\ phase = "split" /\ walk' = Tail(walk) /\ phase' \in {"split", "insert"}
      /\ UNCHANGED <<insert, reachableEntities, entities, reachableRelations, visitedEntities, walks,
                     collections, primaryKey, foreignKey, rows, current>>
  BY DEF SkipSeenObject, AfterWalk, plan, collectVars, orderVars, keyVars, emitVars
<1>2. \A x : Held(x) => Held(x)'
  BY <1>1 DEF Held, Batch
<1>3. \A x \in ToSet(Tail(walk)) :
        Held(x.left)' /\ (x.object \in ToSet(insert.roots) \/ Leaving(x.object, x.left))
  BY <1>1, <1>2, FirstLook DEF KeyInv, WalkHeld
<1>4. WalkHeld'
  BY <1>1, <1>3, WalkHeldStays DEF KeyInv
<1>5. SelfGenerated'
  BY <1>1, SameSelf DEF KeyInv
<1>6. BatchesStored'
  <2>1. current = 1 /\ phase' # "read"
    BY <1>1 DEF ExecutionInv, NotYetInserted
  <2>2. Begun' = 0
    BY <1>1, <2>1 DEF Begun
  <2> QED
    BY <2>2 DEF BatchesStored
<1>7. KeysStored' /\ ReferencesExist' /\ Stored' = Stored
  BY <1>1 DEF KeyInv, KeysStored, ReferencesExist, Stored, HasGeneratedKey
<1>8. ForeignKeysDue'
  <2>1. phase' \notin PlanPhases \cup {"emit"}
    BY <1>1 DEF PlanPhases
  <2>2. \A d \in Objects : \A r \in Relations :
          \A key : key = foreignKey'[d][r] => Settled(key, d)'
    BY <1>1, <1>2, <1>7, SettledStays DEF KeyInv, ForeignKeysDue
  <2> QED
    BY <2>1, <2>2, AllSettled
<1> QED
  BY <1>4, <1>5, <1>6, <1>7, <1>8 DEF KeyInv

LEMMA KeysCallWrongSetter == KeyInv /\ CallWrongSetter => KeyInv'
<1> SUFFICES ASSUME KeyInv, CallWrongSetter
             PROVE  KeyInv'
  OBVIOUS
<1>1. /\ phase' = "undefined"
      /\ UNCHANGED <<insert, reachableEntities, entities, reachableRelations, visitedEntities, walks,
                     collections, primaryKey, foreignKey, rows>>
  BY DEF CallWrongSetter, plan, collectVars, orderVars, executionVars, keyVars, emitVars, splitVars
<1>2. WalkHeld' /\ SelfGenerated' /\ BatchesStored'
  BY <1>1, SameSelf DEF KeyInv, WalkHeld, BatchesStored
<1>3. KeysStored' /\ ReferencesExist' /\ Stored' = Stored
  BY <1>1 DEF KeyInv, KeysStored, ReferencesExist, Stored, HasGeneratedKey
<1>4. ForeignKeysDue'
  <2>1. phase' \notin PlanPhases \cup {"emit"} /\ \A x : Held(x) => Held(x)'
    BY <1>1 DEF PlanPhases, Held, Batch
  <2>2. \A d \in Objects : \A r \in Relations :
          \A key : key = foreignKey'[d][r] => Settled(key, d)'
    BY <1>1, <1>3, <2>1, SettledStays DEF KeyInv, ForeignKeysDue
  <2> QED
    BY <2>1, <2>2, AllSettled
<1> QED
  BY <1>2, <1>3, <1>4 DEF KeyInv

(* The key that an object is assigned directly, or assigns directly, is    *)
(* that of an object that is to be inserted, earlier.                      *)
LEMMA DirectlyDue ==
  ASSUME ExecutionInv, WalkInv, KeyInv, phase = "split",
         NEW o \in Objects, NEW left \in Objects, Leaving(o, left), Held(left)', Held(o)',
         UNCHANGED <<insert, visitedEntities, reachableRelations>>,
         NEW r \in DirectOf(o), ~WrongSetter(o, left, r), foreignKey' = DirectlyAssigned(o, left, r),
         NEW d \in Objects, NEW q \in Relations, NEW key, key = foreignKey'[d][q]
  PROVE  key = foreignKey[d][q] \/ key = NoKey \/ Due(key, d)'
<1>1. /\ r \in Reachable(o[1]) /\ RightOf(r, o[1]) = left[1]
      /\ r \in Reachable(left[1]) /\ RightOf(r, left[1]) = o[1]
  BY ReachedDirectly DEF KeyInv
<1>2. foreignKey \in [Objects -> [Relations -> Keys]] /\ primaryKey[left] \in {NoKey, left}
      /\ primaryKey[o] \in {NoKey, o}
  BY DEF ExecutionInv, TypeOK, OwnKeys, Overrun
<1>3. r \in Reachable(o[1])' /\ RightOf(r, o[1])' = left[1] /\ r \in Reachable(left[1])' /\ RightOf(r, left[1])' = o[1]
  BY <1>1 DEF Reachable, RelationsOf, RightOf
<1>4. CASE ForeignKeyLeft(r, o[1]) /\ ~HasGeneratedKey(left[1])
  <2>1. foreignKey' = [foreignKey EXCEPT ![o][r] = primaryKey[left]]
    BY <1>4 DEF DirectlyAssigned
  <2>2. ForeignKeyLeft(r, o[1])'
    BY <1>4 DEF ForeignKeyLeft
  <2>3. Due(left, o)'
    BY <1>3, <2>2 DEF Due
  <2> QED
    BY <1>2, <2>1, <2>3
<1>5. CASE ~(ForeignKeyLeft(r, o[1]) /\ ~HasGeneratedKey(left[1])) /\ ~HasGeneratedKey(o[1])
  <2>1. foreignKey' = [foreignKey EXCEPT ![left][r] = primaryKey[o]]
    BY <1>5 DEF DirectlyAssigned
  <2>2. ~ForeignKeyLeft(r, o[1])
    BY <1>5 DEF WrongSetter
  <2>3. insert \in Inserts /\ o[1] \in Entities /\ r \in RelationsOf(o[1])
    BY <1>1 DEF ExecutionInv, PlanKept, Objects, Reachable
  <2>4. ForeignKeyLeft(r, left[1])'
    BY <1>1, <2>2, <2>3 DEF ForeignKeyLeft, RightOf
  <2>5. Due(o, left)'
    BY <1>3, <2>4 DEF Due
  <2> QED
    BY <1>2, <2>1, <2>5
<1>6. CASE ~(ForeignKeyLeft(r, o[1]) /\ ~HasGeneratedKey(left[1])) /\ HasGeneratedKey(o[1])
  BY <1>6 DEF DirectlyAssigned
<1> QED
  BY <1>4, <1>5, <1>6

(* A sorted object is in its collection, with those sorted before.         *)
LEMMA SplitHolds ==
  ASSUME ExecutionInv, WalkInv, KeyInv, SplitObject, NEW o, NEW left,
         o = Head(walk).object, left = Head(walk).left
  PROVE  /\ \A x : Held(x) => Held(x)'
         /\ Held(o)' /\ (o \in ToSet(insert.roots) \/ Leaving(o, left))
<1>1. /\ phase = "split" /\ UNCHANGED insert
      /\ collections' = IF o[1] = insert.root THEN collections
                          ELSE [collections EXCEPT ![o[1]] = Append(@, o)]
  BY DEF SplitObject, plan
<1>2. o \in Objects /\ left \in Objects /\ (o \in ToSet(insert.roots) \/ Leaving(o, left))
  BY <1>1, NextLook, FirstLook DEF KeyInv, WalkHeld
<1>3. o[1] \in Entities /\ collections \in [Entities -> Seq(Objects)]
  BY <1>2 DEF Objects, ExecutionInv, TypeOK
<1>4. \A x : Held(x) => Held(x)'
  <2>1. CASE o[1] = insert.root
    BY <1>1, <2>1 DEF Held, Batch
  <2>2. CASE o[1] # insert.root
    BY <1>1, <1>3, <2>2, HeldStays
  <2> QED
    BY <2>1, <2>2
<1>5. o[1] = insert.root => o \in ToSet(insert.roots)
  BY <1>1, <1>2, ReachedDirectly DEF KeyInv
<1>6. Held(o)'
  <2>1. CASE o[1] = insert.root
    BY <1>1, <1>5, <2>1 DEF Held, Batch
  <2>2. CASE o[1] # insert.root
    BY <1>1, <1>3, <2>2, NowHeld
  <2> QED
    BY <2>1, <2>2
<1> QED
  BY <1>2, <1>4, <1>6

LEMMA KeysSplitObject == ExecutionInv /\ WalkInv /\ KeyInv /\ SplitObject => KeyInv'
<1> SUFFICES ASSUME ExecutionInv, WalkInv, KeyInv, SplitObject
             PROVE  KeyInv'
  OBVIOUS
<1>0. PICK o, left, next : o = Head(walk).object /\ left = Head(walk).left /\ next = NextObjects(o)
  OBVIOUS
<1>1. /\ phase = "split" /\ ~\E r \in DirectOf(o) : WrongSetter(o, left, r)
      /\ foreignKey' = IF DirectOf(o) = {} THEN foreignKey
                         ELSE DirectlyAssigned(o, left, CHOOSE r \in DirectOf(o) : TRUE)
      /\ collections' = IF o[1] = insert.root THEN collections
                          ELSE [collections EXCEPT ![o[1]] = Append(@, o)]
      /\ walk' = next \o Tail(walk) /\ phase' \in {"split", "insert"}
      /\ UNCHANGED <<insert, reachableEntities, entities, reachableRelations, visitedEntities, walks,
                     primaryKey, rows, current>>
  BY <1>0 DEF SplitObject, AfterWalk, plan, collectVars, orderVars, emitVars
<1>2. /\ o \in Objects /\ left \in Objects /\ Tail(walk) \in Seq(Looks)
      /\ Held(left) /\ (o \in ToSet(insert.roots) \/ Leaving(o, left))
  BY <1>0, <1>1, NextLook, FirstLook DEF KeyInv, WalkHeld
<1>3. /\ o[1] \in Entities /\ insert \in Inserts /\ Emitted
      /\ collections \in [Entities -> Seq(Objects)]
  BY <1>1, <1>2 DEF Objects, ExecutionInv, PlanKept, TypeOK, Emitted
<1>4. (\A x : Held(x) => Held(x)') /\ Held(o)'
  BY <1>0, SplitHolds
<1>5. WalkHeld'
  <2>1. PICK leaving : leaving = {x \in Looks : x.left = o /\ Leaving(x.object, o)}
    OBVIOUS
  <2>2. next \in Seq(leaving)
    BY <1>0, <1>2, <1>3, <2>1, NextObjectsLeave
  <2>3. \A x \in ToSet(next) : x.left = o /\ Leaving(x.object, o)
    <3>1. \A n \in DOMAIN next : next[n] \in leaving
      BY <2>2, LenProperties, ElementOfSeq
    <3> QED
      BY <2>1, <3>1 DEF ToSet
  <2>4. PICK rest : rest = Tail(walk)
    OBVIOUS
  <2>5. ToSet(next \o rest) \subseteq ToSet(next) \cup ToSet(rest)
    <3>1. next \in Seq(Looks) /\ rest \in Seq(Looks)
      BY <1>2, <2>1, <2>2, <2>4, SeqMonotonic
    <3> QED
      BY <3>1, JoinedElements
  <2>6. \A x \in ToSet(next \o rest) :
          Held(x.left)' /\ (x.object \in ToSet(insert.roots) \/ Leaving(x.object, x.left))
    <3> SUFFICES ASSUME NEW x \in ToSet(next \o rest)
                 PROVE  Held(x.left)' /\ (x.object \in ToSet(insert.roots) \/ Leaving(x.object, x.left))
      OBVIOUS
    <3>1. CASE x \in ToSet(next)
      BY <1>4, <2>3, <3>1
    <3>2. CASE x \in ToSet(rest)
      BY <1>1, <1>4, <2>4, <3>2, FirstLook DEF KeyInv, WalkHeld
    <3> QED
      BY <2>5, <3>1, <3>2
  <2> QED
    BY <1>1, <2>4, <2>6, WalkHeldStays DEF KeyInv
<1>6. SelfGenerated'
  BY <1>1, SameSelf DEF KeyInv
<1>7. BatchesStored'
  <2>1. current = 1 /\ phase' # "read"
    BY <1>1 DEF ExecutionInv, NotYetInserted
  <2>2. Begun' = 0
    BY <1>1, <2>1 DEF Begun
  <2> QED
    BY <2>2 DEF BatchesStored
<1>8. KeysStored' /\ ReferencesExist' /\ Stored' = Stored
  BY <1>1 DEF KeyInv, KeysStored, ReferencesExist, Stored, HasGeneratedKey
<1>9. ASSUME NEW d \in Objects, NEW q \in Relations, NEW key, key = foreignKey'[d][q]
       PROVE  Settled(key, d)'
  <2>1. key = foreignKey[d][q] => Settled(key, d)'
    BY <1>1, <1>4, <1>8, SettledStays DEF KeyInv, ForeignKeysDue
  <2>2. CASE DirectOf(o) = {}
    BY <1>1, <1>9, <2>1, <2>2
  <2>3. CASE DirectOf(o) # {}
    <3>1. PICK r \in DirectOf(o) : r = CHOOSE x \in DirectOf(o) : TRUE
      BY <2>3
    <3>2. foreignKey' = DirectlyAssigned(o, left, r) /\ ~WrongSetter(o, left, r)
      BY <1>1, <2>3, <3>1
    <3>3. o[1] # insert.root
      BY <2>3 DEF DirectOf
    <3>4. \A n \in DOMAIN insert.roots : insert.roots[n][1] = insert.root
      BY <1>3, RootsOfRoot
    <3>5. Leaving(o, left)
      BY <1>2, <3>3, <3>4 DEF ToSet
    <3>6. Held(left)'
      BY <1>2, <1>4
    <3>7. key = foreignKey[d][q] \/ key = NoKey \/ Due(key, d)'
      BY <1>1, <1>2, <1>4, <1>9, <3>1, <3>2, <3>5, <3>6, DirectlyDue
    <3> QED
      BY <2>1, <3>7 DEF Settled
  <2> QED
    BY <2>2, <2>3
<1>10. ForeignKeysDue'
  BY <1>1, <1>9, AllSettled DEF PlanPhases
<1> QED
  BY <1>5, <1>6, <1>7, <1>8, <1>10 DEF KeyInv

-----------------------------------------------------------------------------
(* The insert.                                                             *)

LEMMA HeadLinked ==
  ASSUME NEW r, NEW e, NEW o, ForeignKeyLeft(r, e), Linked(r, e, o) # <<>>
  PROVE  Head(Linked(r, e, o)) \in Objects /\ <<o, Head(Linked(r, e, o))>> \in insert.links[r]
<1>1. PICK principals : principals = {p \in Objects : <<o, p>> \in insert.links[r]}
  OBVIOUS
<1>2. SetToSeq(principals) \in Seq(principals)
  BY <1>1, FiniteObjects, FS_Subset, AsSequence
<1>3. Linked(r, e, o) = SetToSeq(principals)
  BY <1>1 DEF Linked
<1>4. PICK s : s = Linked(r, e, o)
  OBVIOUS
<1>5. Head(s) \in principals
  BY <1>2, <1>3, <1>4, HeadTailProperties
<1> QED
  BY <1>1, <1>4, <1>5

(* What an entity assigns to itself are keys of rows that are stored.      *)
LEMMA SelfSettled ==
  ASSUME ExecutionInv, KeyInv, phase = "insert", NEW h, h = entities[current],
         NEW d \in Objects, NEW q \in Relations
  PROVE  Settled(SelfAssigned(h)[d][q], d)
<1>1. CASE q \in h.self /\ Contains(Batch(h.entity), d) /\ Linked(q, h.entity, d) # <<>>
  <2>1. PICK p : p = Head(Linked(q, h.entity, d))
    OBVIOUS
  <2>2. SelfAssigned(h)[d][q] = primaryKey[p]
    BY <1>1, <2>1 DEF SelfAssigned
  <2>3. h \in Holding /\ insert \in Inserts
    <3>1. current \in DOMAIN entities
      BY DEF ExecutionInv, RowsFollowPlan
    <3> QED
      BY <3>1 DEF Holding, ToSet, ExecutionInv, PlanKept
  <2>4. HasGeneratedKey(insert.principal[q]) /\ ForeignKeyLeft(q, h.entity)
    BY <1>1, <2>3 DEF KeyInv, SelfGenerated
  <2>5. p \in Objects /\ p[1] = insert.principal[q]
    <3>1. p \in Objects /\ <<d, p>> \in insert.links[q]
      BY <1>1, <2>1, <2>4, HeadLinked
    <3>2. PICK x \in insert.links[q] : x[1] = d /\ x[2] = p
      BY <3>1
    <3>3. x[2][1] = insert.principal[q]
      BY <2>3, LinksAssumption
    <3> QED
      BY <3>1, <3>2, <3>3
  <2>6. primaryKey[p] \in {NoKey, p} /\ (primaryKey[p] # NoKey => p \in Stored)
    BY <2>4, <2>5 DEF KeyInv, KeysStored, ExecutionInv, OwnKeys, Overrun
  <2> QED
    BY <2>2, <2>6 DEF Settled
<1>2. CASE ~(q \in h.self /\ Contains(Batch(h.entity), d) /\ Linked(q, h.entity, d) # <<>>)
  <2>1. SelfAssigned(h)[d][q] = foreignKey[d][q]
    BY <1>2 DEF SelfAssigned
  <2> QED
    BY <2>1 DEF KeyInv, ForeignKeysDue
<1> QED
  BY <1>1, <1>2

(* What is due for an object of the current entity is stored.              *)
LEMMA DueIsStored ==
  ASSUME ExecutionInv, KeyInv, phase = "insert",
         NEW p, NEW d, d[1] = entities[current].entity, Due(p, d)
  PROVE  p \in Stored
<1>1. PICK r \in Reachable(d[1]) : ForeignKeyLeft(r, d[1]) /\ RightOf(r, d[1]) = p[1]
  BY DEF Due
<1>2. current \in DOMAIN entities
  BY DEF ExecutionInv, RowsFollowPlan
<1>3. PICK j \in 1 .. current - 1 : entities[j].entity = p[1]
  BY <1>1, <1>2 DEF ExecutionInv, PlanKept, PrincipalsFirst
<1>4. ToSet(Batch(p[1])) \subseteq Stored
  BY <1>3 DEF KeyInv, BatchesStored, Begun
<1> QED
  BY <1>4 DEF Due, Held

LEMMA StoringRefers ==
  ASSUME ExecutionInv, KeyInv, phase = "insert", NEW h, h = entities[current], Store(h)
  PROVE  Stored \subseteq Stored' /\ ToSet(Batch(h.entity)) \subseteq Stored' /\ ReferencesExist'
<1>0. PICK s, keys, new : /\ s = Batch(h.entity) /\ keys = SelfAssigned(h)
                          /\ new = [n \in DOMAIN s |-> [object |-> s[n], foreignKeys |-> keys[s[n]]]]
  OBVIOUS
<1>1. h.entity \in Entities
  BY CurrentHolder
<1>2. s \in Seq(Objects) /\ (\A n \in DOMAIN s : s[n][1] = h.entity)
  BY <1>0, <1>1, BatchTypes
<1>3. rows' = rows \o new
  BY <1>0 DEF Store
<1>4. Len(s) \in Nat /\ DOMAIN s = 1 .. Len(s) /\ \A n \in 1 .. Len(s) : s[n] \in Objects
  BY <1>2, LenProperties, ElementOfSeq
<1>5. /\ new \in Seq(RowTypes) /\ Len(new) = Len(s)
      /\ \A n \in 1 .. Len(s) : new[n].object = s[n] /\ new[n].foreignKeys = keys[s[n]]
  <2>1. keys \in [Objects -> [Relations -> Keys]]
    BY <1>0, SelfAssignedTypes DEF ExecutionInv
  <2>2. \A n \in 1 .. Len(s) : [object |-> s[n], foreignKeys |-> keys[s[n]]] \in RowTypes
    BY <1>4, <2>1 DEF RowTypes
  <2>3. [n \in 1 .. Len(s) |-> [object |-> s[n], foreignKeys |-> keys[s[n]]]] \in Seq(RowTypes)
    BY <1>4, <2>2, IsASeq
  <2> QED
    BY <1>0, <1>4, <2>3
<1>6. rows \in Seq(RowTypes) /\ Len(rows) \in Nat /\ DOMAIN rows = 1 .. Len(rows)
  <2>1. rows \in Seq(RowTypes)
    BY DEF ExecutionInv, TypeOK, RowTypes
  <2> QED
    BY <2>1, LenProperties
<1>7. PICK all : all = rows \o new
  OBVIOUS
<1>8. /\ all \in Seq(RowTypes) /\ Len(all) = Len(rows) + Len(s)
      /\ \A i \in 1 .. Len(rows) + Len(s) : all[i] = IF i <= Len(rows) THEN rows[i] ELSE new[i - Len(rows)]
  <2>1. /\ all \in Seq(RowTypes) /\ Len(all) = Len(rows) + Len(new)
        /\ \A i \in 1 .. Len(rows) + Len(new) : all[i] = IF i <= Len(rows) THEN rows[i] ELSE new[i - Len(rows)]
    <3>1. rows \in Seq(RowTypes) /\ new \in Seq(RowTypes)
      BY <1>5, <1>6
    <3> QED
      BY <1>7, <3>1, ConcatProperties
  <2> QED
    BY <1>5, <2>1
<1>9. DOMAIN all = 1 .. Len(rows) + Len(s)
  BY <1>8, LenProperties
<1>10. ASSUME NEW i \in 1 .. Len(rows)
       PROVE  i \in DOMAIN all /\ all[i] = rows[i]
  BY <1>4, <1>6, <1>8, <1>9
<1>11. ASSUME NEW n \in 1 .. Len(s)
       PROVE  \E i \in DOMAIN all : all[i].object = s[n]
  <2>1. Len(rows) + n \in DOMAIN all /\ all[Len(rows) + n] = new[n]
    <3>1. /\ Len(rows) + n \in 1 .. Len(rows) + Len(s) /\ ~(Len(rows) + n <= Len(rows))
          /\ (Len(rows) + n) - Len(rows) = n
      BY <1>4, <1>6
    <3> QED
      BY <1>8, <1>9, <3>1
  <2> QED
    BY <1>5, <2>1
<1>12. Stored \subseteq Stored'
  BY <1>3, <1>6, <1>7, <1>10 DEF Stored, ToSet
<1>13. ToSet(s) \subseteq Stored'
  BY <1>3, <1>4, <1>7, <1>11 DEF Stored, ToSet
<1>14. \A p \in Stored : \E j \in 1 .. Len(rows) : all[j].object = p
  BY <1>6, <1>10 DEF Stored, ToSet
<1>15. ASSUME NEW i \in DOMAIN all, NEW r \in Relations, all[i].foreignKeys[r] # NoKey
       PROVE  \E j \in 1 .. i - 1 : all[j].object = all[i].foreignKeys[r]
  <2>1. CASE i \in 1 .. Len(rows)
    <3>1. PICK j \in 1 .. i - 1 : rows[j].object = rows[i].foreignKeys[r]
      BY <1>6, <1>10, <1>15, <2>1 DEF KeyInv, ReferencesExist
    <3>2. j \in 1 .. Len(rows)
      BY <1>6, <2>1
    <3> QED
      BY <1>10, <2>1, <3>1, <3>2
  <2>2. CASE i \notin 1 .. Len(rows)
    <3>1. PICK n \in 1 .. Len(s) : all[i] = new[n]
      <4>1. i - Len(rows) \in 1 .. Len(s) /\ i \in 1 .. Len(rows) + Len(s) /\ ~(i <= Len(rows))
        BY <1>4, <1>6, <1>9, <2>2
      <4> QED
        BY <1>8, <4>1
    <3>2. PICK p : p = keys[s[n]][r]
      OBVIOUS
    <3>3. all[i].foreignKeys[r] = p /\ p # NoKey
      BY <1>5, <1>15, <3>1, <3>2
    <3>4. Settled(p, s[n]) /\ s[n][1] = h.entity
      BY <1>0, <1>2, <1>4, <3>2, SelfSettled
    <3>5. p \in Stored
      BY <3>3, <3>4, DueIsStored DEF Settled
    <3>6. PICK j \in 1 .. Len(rows) : all[j].object = p
      BY <1>14, <3>5
    <3>7. j \in 1 .. i - 1
      BY <1>4, <1>6, <1>9, <2>2
    <3> QED
      BY <3>3, <3>6, <3>7
  <2> QED
    BY <2>1, <2>2
<1>16. ReferencesExist'
  BY <1>3, <1>7, <1>15 DEF ReferencesExist
<1> QED
  BY <1>0, <1>12, <1>13, <1>16

LEMMA BatchesGoOn ==
  ASSUME ExecutionInv, KeyInv, phase \in {"insert", "read"}, UNCHANGED <<plan, splitVars>>,
         NEW h, h = entities[current], Stored \subseteq Stored', ToSet(Batch(h.entity)) \subseteq Stored',
         NextEntity \/ (current' = current /\ phase' \in {"read", "threw", "noRow"})
  PROVE  BatchesStored'
<1> SUFFICES ASSUME phase' \in {"insert", "read"}, NEW j \in 1 .. Begun'
             PROVE  (ToSet(Batch(entities[j].entity)) \subseteq Stored)'
  BY DEF BatchesStored
<1>1. current \in Nat
  BY CurrentHolder
<1>2. Begun' = current
  BY <1>1 DEF Begun, NextEntity
<1>3. UNCHANGED <<insert, entities, collections>>
  BY DEF plan, orderVars, splitVars
<1>4. CASE j = current
  BY <1>3, <1>4 DEF Batch
<1>5. CASE j # current
  <2>1. j \in 1 .. Begun
    BY <1>1, <1>2, <1>5 DEF Begun
  <2> QED
    BY <1>3, <2>1 DEF KeyInv, BatchesStored, Batch
<1> QED
  BY <1>4, <1>5

(* What a step of the insertion has to show.                               *)
LEMMA KeysGoOn ==
  ASSUME KeyInv, phase \in {"insert", "read"}, phase' \notin PlanPhases \cup {"emit", "split"},
         UNCHANGED <<plan, emitVars, splitVars>>,
         Stored \subseteq Stored', BatchesStored', KeysStored', ReferencesExist',
         \A d \in Objects : \A r \in Relations : \A key :
           key = foreignKey'[d][r] => Settled(key, d) \/ key \in Stored'
  PROVE  KeyInv'
<1>1. UNCHANGED <<insert, reachableEntities, entities, reachableRelations, visitedEntities, walks, collections>>
  BY DEF plan, collectVars, orderVars, emitVars, splitVars
<1>2. SelfGenerated' /\ WalkHeld'
  BY <1>1, SameSelf DEF KeyInv, WalkHeld
<1>3. \A x : Held(x) => Held(x)'
  BY <1>1 DEF Held, Batch
<1>4. \A d \in Objects : \A r \in Relations : \A key : key = foreignKey'[d][r] => Settled(key, d)'
  <2> TAKE d \in Objects
  <2> TAKE r \in Relations
  <2> TAKE key
  <2> HAVE key = foreignKey'[d][r]
  <2>1. CASE Settled(key, d)
    BY <1>1, <1>3, <2>1, SettledStays
  <2>2. CASE key \in Stored'
    BY <2>2 DEF Settled
  <2> QED
    BY <2>1, <2>2
<1>5. ForeignKeysDue'
  BY <1>4, AllSettled
<1> QED
  BY <1>2, <1>5 DEF KeyInv

(* Keys are handed on with the rows they belong to.                        *)
LEMMA ForeignSettled ==
  ASSUME NEW h, NEW o, NEW k, NEW keys, k = NoKey \/ k \in Stored',
         \A d \in Objects : \A r \in Relations : Settled(keys[d][r], d)
  PROVE  \A d \in Objects : \A r \in Relations : \A key :
           key = ForeignAssigned(h, o, k, keys)[d][r] => Settled(key, d) \/ key \in Stored'
BY DEF ForeignAssigned, Settled

LEMMA SameKeysStored ==
  ASSUME KeysStored, Stored \subseteq Stored', UNCHANGED <<insert, primaryKey>>
  PROVE  KeysStored'
BY DEF KeysStored, HasGeneratedKey

LEMMA OneKeyStored ==
  ASSUME KeysStored, ExecutionInv, Stored \subseteq Stored', UNCHANGED insert,
         NEW o, o \in Stored', NEW key, primaryKey' = [primaryKey EXCEPT ![o] = key]
  PROVE  KeysStored'
BY DEF KeysStored, HasGeneratedKey, ExecutionInv, TypeOK

(* Nothing is stored by the other steps.                                   *)
LEMMA RowsKept ==
  ASSUME KeyInv, UNCHANGED rows
  PROVE  Stored' = Stored /\ ReferencesExist'
BY DEF KeyInv, Stored, ReferencesExist

LEMMA KeysSkipEmpty ==
  ASSUME ExecutionInv, KeyInv, NEW h, SkipEmpty(h)
  PROVE  KeyInv'
<1>1. /\ phase = "insert" /\ h = entities[current] /\ NextEntity /\ phase' \in {"insert", "done"}
      /\ Batch(h.entity) = <<>>
      /\ UNCHANGED <<plan, emitVars, splitVars, keyVars, rows>>
  BY DEF SkipEmpty, Inserting, NextEntity
<1>2. Stored' = Stored /\ ReferencesExist' /\ UNCHANGED <<insert, primaryKey, foreignKey>>
  BY <1>1, RowsKept DEF plan, keyVars
<1>3. ToSet(Batch(h.entity)) = {}
  BY <1>1 DEF ToSet
<1>4. BatchesStored'
  BY <1>1, <1>2, <1>3, BatchesGoOn
<1>5. KeysStored'
  BY <1>2, SameKeysStored DEF KeyInv
<1> QED
  BY <1>1, <1>2, <1>4, <1>5, KeysGoOn DEF KeyInv, ForeignKeysDue, PlanPhases

LEMMA KeysInsertScalar ==
  ASSUME ExecutionInv, KeyInv, NEW h, InsertScalar(h)
  PROVE  KeyInv'
<1>0. PICK o, keys : o = Head(insert.roots) /\ keys = SelfAssigned(h)
  OBVIOUS
<1>1. /\ phase = "insert" /\ h = entities[current] /\ insert.single /\ h.entity = insert.root
      /\ NextEntity /\ phase' \in {"insert", "done"}
      /\ Store(h) /\ primaryKey' = [primaryKey EXCEPT ![o] = o]
      /\ foreignKey' = ForeignAssigned(h, o, o, keys)
      /\ UNCHANGED <<plan, emitVars, splitVars>>
  BY <1>0 DEF InsertScalar, Inserting, Scalar, NextEntity
<1>2. Stored \subseteq Stored' /\ ToSet(Batch(h.entity)) \subseteq Stored' /\ ReferencesExist' /\ UNCHANGED insert
  BY <1>1, StoringRefers DEF plan
<1>3. o \in Stored'
  <2>1. PICK s : s = insert.roots
    OBVIOUS
  <2>2. s \in Seq({insert.root} \X (1 .. MaxObjects)) /\ Len(s) = 1
    BY <1>1, <2>1, ObjectsAssumption DEF ExecutionInv, PlanKept
  <2>3. 1 \in DOMAIN s /\ Head(s) = s[1]
    BY <2>2, LenProperties
  <2>4. o \in ToSet(s)
    BY <1>0, <2>1, <2>3 DEF ToSet
  <2> QED
    BY <1>1, <1>2, <2>1, <2>4 DEF Batch
<1>4. BatchesStored' /\ KeysStored'
  <2>1. BatchesStored'
    BY <1>1, <1>2, BatchesGoOn
  <2>2. KeysStored'
    BY <1>1, <1>2, <1>3, OneKeyStored DEF KeyInv
  <2> QED
    BY <2>1, <2>2
<1>5. \A d \in Objects : \A r \in Relations : \A key :
        key = foreignKey'[d][r] => Settled(key, d) \/ key \in Stored'
  <2>1. \A d \in Objects : \A r \in Relations : Settled(keys[d][r], d)
    BY <1>0, <1>1, SelfSettled
  <2> QED
    BY <1>1, <1>3, <2>1, ForeignSettled
<1> QED
  BY <1>1, <1>2, <1>4, <1>5, KeysGoOn DEF PlanPhases

LEMMA KeysInsertMany ==
  ASSUME ExecutionInv, KeyInv, NEW h, InsertBatch(h) \/ InsertReturning(h)
  PROVE  KeyInv'
<1>0. PICK keys : keys = SelfAssigned(h)
  OBVIOUS
<1>1. /\ phase = "insert" /\ h = entities[current] /\ phase' \in {"insert", "done", "read"}
      /\ NextEntity \/ (current' = current /\ phase' \in {"read", "threw", "noRow"})
      /\ Store(h) /\ foreignKey' = keys
      /\ UNCHANGED <<plan, emitVars, splitVars, primaryKey>>
  <2>1. CASE InsertBatch(h)
    BY <1>0, <2>1 DEF InsertBatch, Inserting, NextEntity
  <2>2. CASE InsertReturning(h)
    BY <1>0, <2>2 DEF InsertReturning, Inserting
  <2> QED
    BY <2>1, <2>2
<1>2. Stored \subseteq Stored' /\ ToSet(Batch(h.entity)) \subseteq Stored' /\ ReferencesExist' /\ UNCHANGED insert
  BY <1>1, StoringRefers DEF plan
<1>3. BatchesStored' /\ KeysStored'
  BY <1>1, <1>2, BatchesGoOn, SameKeysStored DEF KeyInv
<1>4. \A d \in Objects : \A r \in Relations : \A key : key = foreignKey'[d][r] => Settled(key, d)
  BY <1>0, <1>1, SelfSettled
<1> QED
  BY <1>1, <1>2, <1>3, <1>4, KeysGoOn DEF PlanPhases

LEMMA KeysSendMalformed ==
  ASSUME ExecutionInv, KeyInv, NEW h, SendMalformed(h)
  PROVE  KeyInv'
<1>0. PICK keys : keys = SelfAssigned(h)
  OBVIOUS
<1>1. /\ phase = "insert" /\ h = entities[current] /\ phase' = "threw" /\ foreignKey' = keys
      /\ UNCHANGED <<plan, emitVars, splitVars, primaryKey, rows>>
  BY <1>0 DEF SendMalformed, Inserting
<1>2. Stored' = Stored /\ ReferencesExist' /\ UNCHANGED insert
  BY <1>1, RowsKept DEF plan
<1>3. BatchesStored' /\ KeysStored'
  BY <1>1, <1>2, SameKeysStored DEF KeyInv, BatchesStored
<1>4. \A d \in Objects : \A r \in Relations : \A key : key = foreignKey'[d][r] => Settled(key, d)
  BY <1>0, <1>1, SelfSettled
<1> QED
  BY <1>1, <1>2, <1>3, <1>4, KeysGoOn DEF PlanPhases

LEMMA KeysReadKey ==
  ASSUME ExecutionInv, KeyInv, NEW h, ReadKey(h)
  PROVE  KeyInv'
<1>1. /\ phase = "read" /\ h = entities[current] /\ iterator <= Len(Batch(h.entity))
      /\ phase' \in {"read", "noRow"}
      /\ UNCHANGED <<plan, emitVars, splitVars, current, rows>>
  BY DEF ReadKey
<1>2. PICK s, o : s = Batch(h.entity) /\ o = s[iterator]
  OBVIOUS
<1>20. /\ s \in Seq(Objects) /\ Len(s) \in Nat /\ DOMAIN s = 1 .. Len(s) /\ iterator \in 1 .. Len(s)
       /\ KeyMissing \/ KeyTaken(h, s)
  BY <1>2, KeyRead
<1>3. Stored' = Stored /\ ReferencesExist' /\ UNCHANGED insert
  BY <1>1, RowsKept DEF plan
<1>4. ToSet(Batch(h.entity)) \subseteq Stored
  <2>1. current \in 1 .. Begun
    <3>1. current \in 1 .. Len(entities) /\ Len(entities) \in Nat
      BY <1>1, CurrentHolder
    <3> QED
      BY <1>1, <3>1 DEF Begun
  <2> QED
    BY <1>1, <2>1 DEF KeyInv, BatchesStored
<1>5. \A n \in 1 .. Len(s) : s[n] \in Stored /\ s[n] \in Objects
  <2> TAKE n \in 1 .. Len(s)
  <2>1. s[n] \in ToSet(s) /\ s[n] \in Objects
    BY <1>20, ElementOfSeq DEF ToSet
  <2> QED
    BY <1>2, <1>4, <2>1
<1>6. BatchesStored'
  BY <1>1, <1>3, <1>4, BatchesGoOn
<1>7. \A d \in Objects : \A r \in Relations : Settled(foreignKey[d][r], d)
  BY DEF KeyInv, ForeignKeysDue
<1>8. CASE KeyMissing
  <2>1. UNCHANGED <<primaryKey, foreignKey>>
    BY <1>8 DEF KeyMissing
  <2>2. KeysStored'
    BY <1>3, <2>1, SameKeysStored DEF KeyInv
  <2> QED
    BY <1>1, <1>3, <1>6, <1>7, <2>1, <2>2, KeysGoOn DEF PlanPhases
<1>9. CASE KeyTaken(h, s)
  <2>0. PICK n \in 1 .. Len(s) : /\ primaryKey' = [primaryKey EXCEPT ![o] = s[n]]
                                 /\ foreignKey' = ForeignAssigned(h, o, s[n], foreignKey)
    BY <1>2, <1>9 DEF KeyTaken
  <2>1. o \in Stored /\ o \in Objects
    BY <1>2, <1>5, <1>20
  <2>2. KeysStored'
    BY <1>3, <2>0, <2>1, OneKeyStored DEF KeyInv
  <2>3. PICK key : key = s[n]
    OBVIOUS
  <2>4. key \in Stored'
    BY <1>3, <1>5, <2>3
  <2>5. \A d \in Objects : \A r \in Relations : \A k :
          k = foreignKey'[d][r] => Settled(k, d) \/ k \in Stored'
    BY <1>7, <2>0, <2>3, <2>4, ForeignSettled
  <2> QED
    BY <1>1, <1>3, <1>6, <2>2, <2>5, KeysGoOn DEF PlanPhases
<1> QED
  BY <1>8, <1>9, <1>20

LEMMA KeysEndReading ==
  ASSUME ExecutionInv, KeyInv, NEW h, EndReading(h)
  PROVE  KeyInv'
<1>1. /\ phase = "read" /\ h = entities[current] /\ NextEntity /\ phase' \in {"insert", "done"}
      /\ UNCHANGED <<plan, emitVars, splitVars, keyVars, rows>>
  BY DEF EndReading, NextEntity
<1>2. Stored' = Stored /\ ReferencesExist' /\ UNCHANGED <<insert, primaryKey, foreignKey>>
  BY <1>1, RowsKept DEF plan, keyVars
<1>3. ToSet(Batch(h.entity)) \subseteq Stored
  <2>1. current \in 1 .. Begun
    <3>1. current \in 1 .. Len(entities) /\ Len(entities) \in Nat
      BY <1>1, CurrentHolder
    <3> QED
      BY <1>1, <3>1 DEF Begun
  <2> QED
    BY <1>1, <2>1 DEF KeyInv, BatchesStored
<1>4. BatchesStored'
  BY <1>1, <1>2, <1>3, BatchesGoOn
<1>5. KeysStored'
  BY <1>2, SameKeysStored DEF KeyInv
<1> QED
  BY <1>1, <1>2, <1>4, <1>5, KeysGoOn DEF KeyInv, ForeignKeysDue, PlanPhases

LEMMA KeysInserting ==
  ASSUME ExecutionInv, KeyInv, NEW h, InsertEntity(h)
  PROVE  KeyInv'
BY KeysSkipEmpty, KeysInsertScalar, KeysInsertMany, KeysSendMalformed, KeysReadKey, KeysEndReading
   DEF InsertEntity

LEMMA KeysNothing == KeyInv /\ UNCHANGED vars => KeyInv'
<1> SUFFICES ASSUME KeyInv, UNCHANGED vars
             PROVE  KeyInv'
  OBVIOUS
<1>1. /\ UNCHANGED <<insert, phase, reachableEntities, entities, reachableRelations, visitedEntities>>
      /\ UNCHANGED <<walks, walk, collections, primaryKey, foreignKey, current, rows>>
  BY DEF vars, planVars, collectVars, orderVars, executionVars, emitVars, splitVars, keyVars
<1>2. \A x : Held(x)' <=> Held(x)
  BY <1>1 DEF Held, Batch
<1>3. SelfGenerated' /\ Stored' = Stored /\ ReferencesExist'
  BY <1>1, SameSelf, RowsKept DEF KeyInv
<1>4. WalkHeld' /\ BatchesStored' /\ KeysStored'
  BY <1>1, <1>2, <1>3 DEF KeyInv, WalkHeld, Leaving, RightOf, BatchesStored, Begun, Batch, KeysStored, HasGeneratedKey
<1>5. ASSUME NEW d \in Objects, NEW r \in Relations
      PROVE  Settled(foreignKey[d][r], d)'
  <2>1. PICK key : key = foreignKey[d][r] /\ key = foreignKey'[d][r]
    BY <1>1
  <2>2. Settled(key, d)'
    BY <1>1, <1>2, <1>3, <2>1, SettledStays DEF KeyInv, ForeignKeysDue
  <2> QED
    BY <2>1, <2>2
<1>6. ForeignKeysDue'
  BY <1>1, <1>5 DEF KeyInv, ForeignKeysDue, Planning
<1> QED
  BY <1>3, <1>4, <1>6 DEF KeyInv

LEMMA KeysGoTo == ExecutionInv /\ WalkInv /\ KeyInv /\ [Next]_vars => KeyInv'
BY KeysPlan, KeysCreateInserter, KeysEmitWalk, KeysStartInsert, KeysSplitObject, KeysSkipSeenObject,
   KeysCallWrongSetter, KeysInserting, KeysNothing DEF Next

(* Whatever key an object refers to is that of a stored row, or of an      *)
(* object that the plan has earlier and that is to be inserted with its    *)
(* entity; keys of the server are never known before their row.            *)
THEOREM KeyInvariance == Spec => []KeyInv
<1>1. Init => ExecutionInv /\ WalkInv /\ KeyInv
  BY Start, WalkBegins, KeysBegin
<1>2. ExecutionInv /\ WalkInv /\ KeyInv /\ [Next]_vars => (ExecutionInv /\ WalkInv /\ KeyInv)'
  BY KeepsExecutionInv, WalksOn, KeysGoTo
<1> QED
  BY <1>1, <1>2, PTL DEF Spec

(* For every schema, every way objects are linked or shared, and keys of   *)
(* the client and of the server in any mixture: a row is sent only after   *)
(* the rows that its foreign keys refer to.                                *)
THEOREM ForeignKeysAreKnown == Spec => []ReferencesExist
<1>1. KeyInv => ReferencesExist
  BY DEF KeyInv
<1> QED
  BY <1>1, KeyInvariance, PTL

-----------------------------------------------------------------------------
(* What is stored is what the walk leads to.                               *)

Found == seen \cup {x.object : x \in ToSet(walk)}

(* Whatever is found beside an object seen is seen or still to be looked   *)
(* at, and both stay within every set that the walk does not leave.        *)
FoundSoFar ==
  /\ \A o \in seen : FoundBeside(o) \subseteq Found /\ Held(o) /\ Planned(o[1])
  /\ phase \in {"split", "insert", "read", "done"} => ToSet(insert.roots) \subseteq Found
  /\ \A os \in SUBSET Objects :
       ToSet(insert.roots) \subseteq os /\ ClosedUnderWalk(os) => Found \subseteq os
  /\ phase \notin {"split", "undefined"} => walk = <<>>

StoredSoFar ==
  /\ \A o \in Stored : Held(o)
  /\ phase = "done" => \A h \in ToSet(entities) : ToSet(Batch(h.entity)) \subseteq Stored

ReachInv == FoundSoFar /\ StoredSoFar

LEMMA RootIsPlanned ==
  ASSUME ExecutionInv, WalkInv, Executing
  PROVE  Planned(insert.root)
<1>1. insert \in Inserts /\ insert.style \in {"all", "with"} /\ PlanFitted
  BY InsertsAssumption DEF ExecutionInv, PlanKept, WalkInv, Styles
<1>2. Holding = ToSet(entities) /\ phase # "start" /\ phase # "collect"
  BY <1>1 DEF PlanFitted, AllInOrder, Holding, ToSet, Executing
<1>3. CASE insert.style = "all" /\ Alone
  <2>1. PICK g : g = Holder(insert.root, {}, {}) /\ entities = <<g>>
    BY <1>1, <1>2, <1>3 DEF PlanFitted, OnlyRoot
  <2>2. g.entity = insert.root /\ 1 \in DOMAIN entities /\ entities[1] = g
    BY <2>1 DEF Holder
  <2> QED
    BY <2>2 DEF Planned
<1>4. CASE insert.style = "all" /\ ~Alone
  <2>1. Visited /\ insert.root \in visitedEntities
    BY <1>1, <1>2, <1>4, AllIsPlanned DEF PlanFitted
  <2>2. PICK h \in ToSet(entities) : h.entity = insert.root
    BY <1>2, <2>1 DEF Visited
  <2> QED
    BY <2>2 DEF Planned, ToSet
<1>5. CASE insert.style = "with"
  <2>1. PICK at, from : Tree(at, from)
    BY <1>1, <1>5, TreeGiven
  <2>2. PICK done \in SUBSET Paths : Gathered(at, from, done)
    BY <1>1, <1>2, <1>5, <2>1 DEF PlanFitted, GatheredTree
  <2>3. at[0] = insert.root
    BY <1>1, <2>1, TreeFacts
  <2>4. insert.root \in {h.entity : h \in Holding}
    BY <2>2, <2>3 DEF Gathered, Upto
  <2>5. PICK h \in ToSet(entities) : h.entity = insert.root
    BY <1>2, <2>4
  <2> QED
    BY <2>5 DEF Planned, ToSet
<1> QED
  BY <1>1, <1>3, <1>4, <1>5

(* What is linked, and by which sides it is found, stays.                  *)
LEMMA SameBeside ==
  ASSUME UNCHANGED <<insert, walks>>
  PROVE  /\ \A o : FoundBeside(o)' = FoundBeside(o)
         /\ \A os : ClosedUnderWalk(os)' <=> ClosedUnderWalk(os)
<1>1. \A o : FoundBeside(o)' = FoundBeside(o)
  BY DEF FoundBeside, Followed, RelationsOf, Linked, ForeignKeyLeft
<1> QED
  BY <1>1 DEF ClosedUnderWalk

LEMMA FoundStays ==
  ASSUME FoundSoFar, UNCHANGED <<insert, walks, entities, walk, seen, collections>>,
         phase' \in {"split", "insert", "read", "done"} => phase \in {"split", "insert", "read", "done"},
         phase' \notin {"split", "undefined"} => phase \notin {"split", "undefined"}
  PROVE  FoundSoFar'
<1>1. /\ \A o : FoundBeside(o)' = FoundBeside(o)
      /\ \A os : ClosedUnderWalk(os)' <=> ClosedUnderWalk(os)
  BY SameBeside
<1>2. Found' = Found /\ (\A o : Held(o) => Held(o)') /\ \A e : Planned(e) => Planned(e)'
  BY DEF Found, Held, Batch, Planned
<1> QED
  BY <1>1, <1>2 DEF FoundSoFar

LEMMA NothingFound ==
  ASSUME seen' = {}, walk' = <<>>, phase' \notin {"split", "insert", "read", "done"}
  PROVE  FoundSoFar'
<1>1. Found' = {}
  BY DEF Found, ToSet
<1> QED
  BY <1>1 DEF FoundSoFar

LEMMA StoredStays ==
  ASSUME StoredSoFar, UNCHANGED <<insert, rows>>, \A o : Held(o) => Held(o)', phase' # "done"
  PROVE  StoredSoFar'
BY DEF StoredSoFar, Stored

LEMMA NothingStoredYet ==
  ASSUME rows' = <<>>, phase' # "done"
  PROVE  StoredSoFar'
BY DEF StoredSoFar, Stored, ToSet

-----------------------------------------------------------------------------
(* Before the walk.                                                        *)

LEMMA ReachBegins == Init => ReachInv
<1> SUFFICES ASSUME Init
             PROVE  ReachInv
  OBVIOUS
<1>1. seen = {} /\ walk = <<>> /\ rows = <<>> /\ phase = "start"
  BY DEF Init, PlanInit
<1>2. Found = {} /\ Stored = {}
  BY <1>1 DEF Found, Stored, ToSet
<1> QED
  BY <1>1, <1>2 DEF ReachInv, FoundSoFar, StoredSoFar

LEMMA ReachesUnwalked ==
  ExecutionInv /\ ReachInv /\ ((Plan /\ UNCHANGED executionVars) \/ CreateInserter \/ EmitWalk) => ReachInv'
<1> SUFFICES ASSUME ExecutionInv, ReachInv, (Plan /\ UNCHANGED executionVars) \/ CreateInserter \/ EmitWalk
             PROVE  ReachInv'
  OBVIOUS
<1>1. /\ phase \in PlanPhases \cup {"emit"} /\ phase' \in PlanPhases \cup {"threw", "emit"}
      /\ UNCHANGED <<seen, walk, rows>>
  BY PlanningPhases DEF CreateInserter, EmitWalk, executionVars, splitVars, PlanPhases
<1>2. seen = {} /\ walk = <<>> /\ rows = <<>>
  BY <1>1 DEF ExecutionInv, NotYetInserted, Planning, ReachInv, FoundSoFar, PlanPhases
<1> QED
  BY <1>1, <1>2, NothingFound, NothingStoredYet DEF ReachInv, PlanPhases

LEMMA ReachesStartInsert == ExecutionInv /\ ReachInv /\ StartInsert => ReachInv'
<1> SUFFICES ASSUME ExecutionInv, ReachInv, StartInsert
             PROVE  ReachInv'
  OBVIOUS
<1>1. /\ phase = "emit" /\ phase' = IF insert.roots = <<>> THEN "done" ELSE "split"
      /\ walk' = [n \in DOMAIN insert.roots |-> [object |-> insert.roots[n], left |-> insert.roots[n]]]
      /\ UNCHANGED <<insert, entities, walks, seen, collections, rows>>
  BY DEF StartInsert, plan, orderVars, emitVars
<1>2. seen = {} /\ rows = <<>> /\ collections = [e \in Entities |-> <<>>] /\ insert \in Inserts
  BY <1>1 DEF ExecutionInv, NotYetInserted, PlanKept
<1>3. Found' = ToSet(insert.roots)
  <2>1. \A x \in ToSet(walk') : x.object \in ToSet(insert.roots)
    BY <1>1 DEF ToSet
  <2>2. \A p \in ToSet(insert.roots) : \E x \in ToSet(walk') : x.object = p
    BY <1>1 DEF ToSet
  <2> QED
    BY <1>1, <1>2, <2>1, <2>2 DEF Found
<1>4. insert.roots = <<>> => walk' = <<>>
  BY <1>1
<1>5. FoundSoFar'
  BY <1>1, <1>2, <1>3, <1>4 DEF FoundSoFar
<1>6. Stored' = {}
  BY <1>1, <1>2 DEF Stored, ToSet
<1>7. ASSUME insert.roots = <<>>, NEW h \in ToSet(entities)
      PROVE  ToSet(Batch(h.entity)') \subseteq Stored'
  <2>1. entities \in Seq(Holders)
    BY DEF ExecutionInv, TypeOK, PlanTypeOK
  <2>2. h.entity \in Entities
    <3>1. PICK n \in 1 .. Len(entities) : entities[n] = h
      BY <2>1, LenProperties DEF ToSet
    <3> QED
      <4>1. h \in Holders
        BY <2>1, <3>1, ElementOfSeq
      <4> QED
        BY <4>1 DEF Holders
  <2>3. Batch(h.entity)' = <<>>
    BY <1>1, <1>2, <1>7, <2>2 DEF Batch
  <2> QED
    BY <2>3 DEF ToSet
<1>8. StoredSoFar'
  BY <1>1, <1>6, <1>7 DEF StoredSoFar
<1> QED
  BY <1>5, <1>8 DEF ReachInv
-----------------------------------------------------------------------------
(* The walk.                                                               *)

(* That is what it finds beside o, no less and no more.                    *)
LEMMA FoundNext ==
  ASSUME insert \in Inserts, NEW o \in Objects
  PROVE  /\ FoundBeside(o) \subseteq Objects /\ NextObjects(o) \in Seq(Looks)
         /\ \A x \in ToSet(NextObjects(o)) : x.object \in FoundBeside(o)
         /\ \A p \in FoundBeside(o) : \E x \in ToSet(NextObjects(o)) : x.object = p
<1>1. PICK beside : beside = FoundBeside(o)
  OBVIOUS
<1>2. \A r \in Followed(o) : Linked(r, o[1], o) \in Seq(Objects) /\ ToSet(Linked(r, o[1], o)) \subseteq beside
  BY <1>1, LinkedTypes DEF FoundBeside
<1>3. ASSUME NEW r \in Followed(o)
      PROVE  Linked(r, o[1], o) \in Seq(beside) /\ ToSet(Linked(r, o[1], o)) \subseteq Objects
  <2>1. PICK s : s = Linked(r, o[1], o)
    OBVIOUS
  <2>2. s \in Seq(Objects) /\ ToSet(s) \subseteq beside
    BY <1>2, <2>1
  <2>3. Len(s) \in Nat /\ DOMAIN s = 1 .. Len(s) /\ \A n \in 1 .. Len(s) : s[n] \in Objects
    BY <2>2, LenProperties, ElementOfSeq
  <2>4. \A n \in 1 .. Len(s) : s[n] \in beside
    BY <2>2, <2>3 DEF ToSet
  <2>5. s \in Seq(beside)
    <3>1. s = [n \in 1 .. Len(s) |-> s[n]]
      BY <2>2, <2>3
    <3> QED
      BY <2>3, <2>4, <3>1, IsASeq
  <2> QED
    BY <2>1, <2>3, <2>5 DEF ToSet
<1>4. beside \subseteq Objects
  BY <1>1, <1>3 DEF FoundBeside
<1>5. /\ NextObjects(o) \in Seq([object : beside, left : {o}])
      /\ \A r \in Followed(o) : \A p \in ToSet(Linked(r, o[1], o)) :
           \E x \in ToSet(NextObjects(o)) : x.object = p
  BY <1>3, NextObjectsAre
<1>6. PICK next : next = NextObjects(o)
  OBVIOUS
<1>7. \A x \in ToSet(next) : x.object \in beside
  <2>1. PICK looks : looks = [object : beside, left : {o}]
    OBVIOUS
  <2>2. next \in Seq(looks)
    BY <1>5, <1>6, <2>1
  <2>3. \A n \in DOMAIN next : next[n] \in looks
    BY <2>2, LenProperties, ElementOfSeq
  <2> QED
    BY <2>1, <2>3 DEF ToSet
<1>8. next \in Seq(Looks)
  <2>1. [object : beside, left : {o}] \subseteq Looks
    BY <1>4 DEF Looks
  <2> QED
    BY <1>5, <1>6, <2>1, SeqMonotonic
<1>9. \A p \in beside : \E x \in ToSet(next) : x.object = p
  BY <1>1, <1>5, <1>6 DEF FoundBeside
<1> QED
  BY <1>1, <1>4, <1>6, <1>7, <1>8, <1>9

(* What is to be looked at is the next object and the rest.                *)
LEMMA NextAndRest ==
  ASSUME ExecutionInv, phase = "split"
  PROVE  /\ Found = seen \cup {Head(walk).object} \cup {x.object : x \in ToSet(Tail(walk))}
         /\ Head(walk).object \in Found
<1>1. PICK rest, first : rest = Tail(walk) /\ first = Head(walk)
  OBVIOUS
<1>2. walk \in Seq(Looks) /\ walk # <<>>
  BY DEF ExecutionInv, TypeOK, NotYetInserted, Looks
<1>3. /\ Len(walk) \in Nat /\ DOMAIN walk = 1 .. Len(walk) /\ rest \in Seq(Looks)
      /\ Len(rest) = Len(walk) - 1 /\ first = walk[1]
      /\ \A i \in 1 .. Len(walk) - 1 : rest[i] = walk[i + 1]
  BY <1>1, <1>2, HeadTailProperties, LenProperties
<1>4. DOMAIN rest = 1 .. Len(walk) - 1
  BY <1>3, LenProperties
<1>5. ASSUME NEW i \in DOMAIN walk
      PROVE  walk[i] \in {first} \cup ToSet(rest)
  <2>1. CASE i = 1
    BY <1>3, <2>1
  <2>2. CASE i # 1
    <3>1. i - 1 \in DOMAIN rest /\ rest[i - 1] = walk[i]
      BY <1>3, <1>4, <2>2
    <3> QED
      BY <3>1 DEF ToSet
  <2> QED
    BY <2>1, <2>2
<1>6. ToSet(walk) = {first} \cup ToSet(rest)
  BY <1>1, <1>5, FirstLook DEF ToSet
<1> QED
  BY <1>1, <1>6 DEF Found

LEMMA ReachesSkipSeenObject == ExecutionInv /\ ReachInv /\ SkipSeenObject => ReachInv'
<1> SUFFICES ASSUME ExecutionInv, ReachInv, SkipSeenObject
             PROVE  ReachInv'
  OBVIOUS
<1>0. PICK o, rest : o = Head(walk).object /\ rest = Tail(walk)
  OBVIOUS
<1>1. /\ phase = "split" /\ o \in seen /\ walk' = rest
      /\ phase' = IF rest = <<>> THEN "insert" ELSE "split"
      /\ UNCHANGED <<insert, entities, walks, seen, collections, rows>>
  BY <1>0 DEF SkipSeenObject, FirstTime, AfterWalk, plan, orderVars, emitVars
<1>2. Found' = Found
  <2>1. Found = seen \cup {o} \cup {x.object : x \in ToSet(rest)}
    BY <1>0, <1>1, NextAndRest
  <2> QED
    BY <1>1, <2>1 DEF Found
<1>3. /\ \A x : FoundBeside(x)' = FoundBeside(x)
      /\ \A os : ClosedUnderWalk(os)' <=> ClosedUnderWalk(os)
  BY <1>1, SameBeside
<1>4. (\A x : Held(x) => Held(x)') /\ \A e : Planned(e) => Planned(e)'
  BY <1>1 DEF Held, Batch, Planned
<1>5. FoundSoFar'
  BY <1>1, <1>2, <1>3, <1>4 DEF ReachInv, FoundSoFar
<1> QED
  BY <1>1, <1>4, <1>5, StoredStays DEF ReachInv

LEMMA ReachesSplitObject == ExecutionInv /\ WalkInv /\ KeyInv /\ ReachInv /\ SplitObject => ReachInv'
<1> SUFFICES ASSUME ExecutionInv, WalkInv, KeyInv, ReachInv, SplitObject
             PROVE  ReachInv'
  OBVIOUS
<1>0. PICK o, left, next, rest :
        o = Head(walk).object /\ left = Head(walk).left /\ next = NextObjects(o) /\ rest = Tail(walk)
  OBVIOUS
<1>1. /\ phase = "split" /\ seen' = seen \cup {o} /\ walk' = next \o rest
      /\ phase' = IF next \o rest = <<>> THEN "insert" ELSE "split"
      /\ UNCHANGED <<insert, entities, walks, rows>>
  BY <1>0 DEF SplitObject, AfterWalk, plan, orderVars, emitVars
<1>2. /\ o \in Objects /\ left \in Objects /\ rest \in Seq(Looks) /\ insert \in Inserts
      /\ Executing /\ Emitted
  BY <1>0, <1>1, NextLook DEF ExecutionInv, PlanKept, Executing, Emitted
<1>3. /\ \A x : Held(x) => Held(x)'
      /\ Held(o)' /\ (o \in ToSet(insert.roots) \/ Leaving(o, left))
  BY <1>0, SplitHolds
<1>4. Planned(o[1])
  <2>1. CASE o \in ToSet(insert.roots)
    <3>1. o[1] = insert.root
      BY <1>2, <2>1, RootsOfRoot DEF ToSet
    <3> QED
      BY <1>2, <3>1, RootIsPlanned
  <2>2. CASE Leaving(o, left)
    <3>1. PICK q \in Relations : <<q, left[1]>> \in walks /\ o[1] = RightOf(q, left[1])
      BY <2>2 DEF Leaving
    <3>2. PICK w : w = <<q, left[1]>>
      OBVIOUS
    <3>3. PICK h \in ToSet(entities) : h.entity = o[1]
      BY <1>2, <3>1, <3>2, WalkedSides
    <3> QED
      BY <3>3 DEF Planned, ToSet
  <2> QED
    BY <1>3, <2>1, <2>2
<1>5. Found = seen \cup {o} \cup {x.object : x \in ToSet(rest)}
  BY <1>0, <1>1, NextAndRest
<1>6. Found' = Found \cup FoundBeside(o)
  <2>1. /\ next \in Seq(Looks)
        /\ \A x \in ToSet(next) : x.object \in FoundBeside(o)
        /\ \A p \in FoundBeside(o) : \E x \in ToSet(next) : x.object = p
    BY <1>0, <1>2, FoundNext
  <2>2. ToSet(next \o rest) = ToSet(next) \cup ToSet(rest)
    BY <1>2, <2>1, JoinedElements, JoinedKeeps
  <2>3. {x.object : x \in ToSet(next \o rest)} = FoundBeside(o) \cup {x.object : x \in ToSet(rest)}
    BY <2>1, <2>2
  <2> QED
    BY <1>1, <1>5, <2>3 DEF Found
<1>7. /\ \A x : FoundBeside(x)' = FoundBeside(x)
      /\ \A os : ClosedUnderWalk(os)' <=> ClosedUnderWalk(os)
  BY <1>1, SameBeside
<1>8. \A e : Planned(e) => Planned(e)'
  BY <1>1 DEF Planned
<1>9. \A x \in seen' : (FoundBeside(x) \subseteq Found)' /\ Held(x)' /\ Planned(x[1])'
  BY <1>1, <1>3, <1>4, <1>6, <1>7, <1>8 DEF ReachInv, FoundSoFar
<1>10. (\A os \in SUBSET Objects :
         ToSet(insert.roots) \subseteq os /\ ClosedUnderWalk(os) => Found \subseteq os)'
  <2> SUFFICES ASSUME NEW os \in SUBSET Objects, ToSet(insert.roots) \subseteq os, ClosedUnderWalk(os)
               PROVE  Found' \subseteq os
    BY <1>1, <1>7
  <2>1. Found \subseteq os /\ o \in os
    BY <1>5 DEF ReachInv, FoundSoFar
  <2>2. FoundBeside(o) \subseteq os
    BY <2>1 DEF ClosedUnderWalk
  <2> QED
    BY <1>6, <2>1, <2>2
<1>11. ToSet(insert.roots)' \subseteq Found'
  BY <1>1, <1>6 DEF ReachInv, FoundSoFar
<1>12. FoundSoFar'
  BY <1>1, <1>9, <1>10, <1>11 DEF FoundSoFar
<1> QED
  BY <1>1, <1>3, <1>12, StoredStays DEF ReachInv

LEMMA ReachesCallWrongSetter == ReachInv /\ CallWrongSetter => ReachInv'
<1> SUFFICES ASSUME ReachInv, CallWrongSetter
             PROVE  ReachInv'
  OBVIOUS
<1>1. /\ phase = "split" /\ phase' = "undefined"
      /\ UNCHANGED <<insert, entities, walks, walk, seen, collections, rows>>
  BY DEF CallWrongSetter, plan, orderVars, executionVars, emitVars, splitVars
<1>2. \A o : Held(o) => Held(o)'
  BY <1>1 DEF Held, Batch
<1> QED
  BY <1>1, <1>2, FoundStays, StoredStays DEF ReachInv

-----------------------------------------------------------------------------
(* The insert.                                                             *)

(* What a step has stored, if anything, are objects of the current entity. *)
LEMMA StepStores ==
  ASSUME ExecutionInv, KeyInv, NEW h, InsertEntity(h)
  PROVE  /\ h = entities[current] /\ phase \in {"insert", "read"}
         /\ phase' \in {"insert", "read", "done", "threw", "noRow"}
         /\ UNCHANGED <<plan, emitVars, splitVars>>
         /\ Stored \subseteq Stored' /\ Stored' \subseteq Stored \cup ToSet(Batch(h.entity))
         /\ phase' = "done" => current = Len(entities) /\ ToSet(Batch(h.entity)) \subseteq Stored'
<1>1. CASE SkipEmpty(h)
  <2>1. /\ h = entities[current] /\ phase = "insert" /\ NextEntity /\ Batch(h.entity) = <<>>
        /\ UNCHANGED <<plan, emitVars, splitVars, rows>>
    BY <1>1 DEF SkipEmpty, Inserting
  <2>2. Stored' = Stored /\ ToSet(Batch(h.entity)) = {}
    BY <2>1 DEF Stored, ToSet
  <2> QED
    BY <2>1, <2>2 DEF NextEntity
<1>2. CASE InsertScalar(h) \/ InsertBatch(h) \/ InsertReturning(h)
  <2>1. /\ h = entities[current] /\ phase = "insert" /\ Store(h)
        /\ NextEntity \/ phase' = "read"
        /\ UNCHANGED <<plan, emitVars, splitVars>>
    BY <1>2 DEF InsertScalar, InsertBatch, InsertReturning, Inserting
  <2>2. Stored \subseteq Stored' /\ ToSet(Batch(h.entity)) \subseteq Stored'
    BY <2>1, StoringRefers
  <2>3. \A o \in Stored' : o \in Stored \/ \E n \in DOMAIN Batch(h.entity) : Batch(h.entity)[n] = o
    BY <2>1, Storing
  <2>4. Stored' \subseteq Stored \cup ToSet(Batch(h.entity))
    BY <2>3 DEF ToSet
  <2> QED
    BY <2>1, <2>2, <2>4 DEF NextEntity
<1>3. CASE SendMalformed(h) \/ ReadKey(h)
  <2>1. /\ h = entities[current] /\ phase \in {"insert", "read"} /\ phase' \in {"threw", "read", "noRow"}
        /\ UNCHANGED <<plan, emitVars, splitVars, rows>>
    BY <1>3 DEF SendMalformed, ReadKey, Inserting
  <2>2. Stored' = Stored
    BY <2>1 DEF Stored
  <2> QED
    BY <2>1, <2>2
<1>4. CASE EndReading(h)
  <2>1. /\ h = entities[current] /\ phase = "read" /\ NextEntity
        /\ UNCHANGED <<plan, emitVars, splitVars, rows>>
    BY <1>4 DEF EndReading
  <2>2. Stored' = Stored
    BY <2>1 DEF Stored
  <2>3. current \in 1 .. Begun
    BY <2>1, CurrentHolder DEF Begun
  <2>4. ToSet(Batch(h.entity)) \subseteq Stored
    BY <2>1, <2>3 DEF KeyInv, BatchesStored
  <2> QED
    BY <2>1, <2>2, <2>4 DEF NextEntity
<1> QED
  BY <1>1, <1>2, <1>3, <1>4 DEF InsertEntity

LEMMA ReachesInserting ==
  ASSUME ExecutionInv, KeyInv, ReachInv, NEW h, InsertEntity(h)
  PROVE  ReachInv'
<1>1. /\ h = entities[current] /\ phase \in {"insert", "read"}
      /\ phase' \in {"insert", "read", "done", "threw", "noRow"}
      /\ UNCHANGED <<insert, entities, walks, walk, seen, collections>>
      /\ Stored \subseteq Stored' /\ Stored' \subseteq Stored \cup ToSet(Batch(h.entity))
      /\ phase' = "done" => current = Len(entities) /\ ToSet(Batch(h.entity)) \subseteq Stored'
  BY StepStores DEF plan, orderVars, emitVars, splitVars
<1>2. FoundSoFar'
  BY <1>1, FoundStays DEF ReachInv
<1>3. /\ h.entity \in Entities /\ current \in 1 .. Len(entities) /\ Len(entities) \in Nat
      /\ DOMAIN entities = 1 .. Len(entities)
  BY <1>1, CurrentHolder
<1>4. \A o : Held(o) => Held(o)'
  BY <1>1 DEF Held, Batch
<1>5. \A o \in ToSet(Batch(h.entity)) : Held(o)
  <2>1. \A n \in DOMAIN Batch(h.entity) : Batch(h.entity)[n][1] = h.entity
    BY <1>3, BatchTypes
  <2> QED
    BY <2>1 DEF Held, ToSet
<1>6. \A o \in Stored' : Held(o)'
  BY <1>1, <1>4, <1>5 DEF ReachInv, StoredSoFar
<1>7. ASSUME phase' = "done", NEW g \in ToSet(entities)
      PROVE  ToSet(Batch(g.entity)') \subseteq Stored'
  <2>1. PICK j \in 1 .. Len(entities) : g = entities[j]
    BY <1>3 DEF ToSet
  <2>2. Batch(g.entity)' = Batch(g.entity)
    BY <1>1 DEF Batch
  <2>3. CASE j = current
    BY <1>1, <1>7, <2>1, <2>2, <2>3
  <2>4. CASE j # current
    <3>1. j \in 1 .. Begun
      BY <1>1, <1>3, <1>7, <2>4 DEF Begun
    <3>2. ToSet(Batch(g.entity)) \subseteq Stored
      BY <1>1, <2>1, <3>1 DEF KeyInv, BatchesStored
    <3> QED
      BY <1>1, <2>2, <3>2
  <2> QED
    BY <2>3, <2>4
<1>8. StoredSoFar'
  BY <1>1, <1>6, <1>7 DEF StoredSoFar
<1> QED
  BY <1>2, <1>8 DEF ReachInv

LEMMA ReachesNothing == ReachInv /\ UNCHANGED vars => ReachInv'
<1> SUFFICES ASSUME ReachInv, UNCHANGED vars
             PROVE  ReachInv'
  OBVIOUS
<1>1. UNCHANGED <<insert, phase, entities, walks, walk, seen, collections, rows>>
  BY DEF vars, planVars, orderVars, executionVars, emitVars, splitVars
<1>2. FoundSoFar'
  BY <1>1, FoundStays DEF ReachInv
<1>3. StoredSoFar'
  BY <1>1 DEF ReachInv, StoredSoFar, Stored, Held, Batch
<1> QED
  BY <1>2, <1>3 DEF ReachInv

LEMMA ReachesOn == ExecutionInv /\ WalkInv /\ KeyInv /\ ReachInv /\ [Next]_vars => ReachInv'
BY ReachesUnwalked, ReachesStartInsert, ReachesSplitObject, ReachesSkipSeenObject,
   ReachesCallWrongSetter, ReachesInserting, ReachesNothing DEF Next

(* When all is sorted and stored, it is what was seen.                     *)
LEMMA SeenIsStored == ExecutionInv /\ ReachInv => WalkIsStored
<1> SUFFICES ASSUME ExecutionInv, ReachInv, phase = "done"
             PROVE  /\ ToSet(insert.roots) \subseteq Stored /\ ClosedUnderWalk(Stored)
                    /\ \A os \in SUBSET Stored :
                         ToSet(insert.roots) \subseteq os /\ ClosedUnderWalk(os) => os = Stored
  BY DEF WalkIsStored
<1>1. Found = seen
  BY DEF ReachInv, FoundSoFar, Found, ToSet
<1>2. Stored \subseteq Objects
  BY StoredTypes DEF ExecutionInv
<1>3. Stored \subseteq seen
  <2> SUFFICES ASSUME NEW o \in Stored
               PROVE  o \in seen
    OBVIOUS
  <2>1. Held(o) /\ o[1] \in Entities
    BY <1>2 DEF ReachInv, StoredSoFar, Objects
  <2>2. CASE o[1] = insert.root
    BY <1>1, <2>1, <2>2 DEF Held, Batch, ReachInv, FoundSoFar
  <2>3. CASE o[1] # insert.root
    <3>1. PICK s : s = collections[o[1]]
      OBVIOUS
    <3>2. s \in Seq(seen) /\ o \in ToSet(s)
      BY <2>1, <2>3, <3>1 DEF ExecutionInv, Sorted, Held, Batch
    <3>3. PICK n \in 1 .. Len(s) : s[n] = o
      BY <3>2, LenProperties DEF ToSet
    <3> QED
      BY <3>2, <3>3, ElementOfSeq
  <2> QED
    BY <2>2, <2>3
<1>4. seen \subseteq Stored
  <2> SUFFICES ASSUME NEW o \in seen
               PROVE  o \in Stored
    OBVIOUS
  <2>1. PICK i \in DOMAIN entities : entities[i].entity = o[1]
    BY DEF ReachInv, FoundSoFar, Planned
  <2>2. ToSet(Batch(o[1])) \subseteq Stored
    BY <2>1 DEF ReachInv, StoredSoFar, ToSet
  <2> QED
    BY <2>2 DEF ReachInv, FoundSoFar, Held
<1>5. Stored = seen
  BY <1>3, <1>4
<1>6. ToSet(insert.roots) \subseteq Stored /\ ClosedUnderWalk(Stored)
  BY <1>1, <1>5 DEF ReachInv, FoundSoFar, ClosedUnderWalk
<1>7. \A os \in SUBSET Stored :
        ToSet(insert.roots) \subseteq os /\ ClosedUnderWalk(os) => os = Stored
  BY <1>1, <1>2, <1>5 DEF ReachInv, FoundSoFar
<1> QED
  BY <1>6, <1>7

(* The walk keeps track: nothing that is found beside a sorted object is   *)
(* forgotten, and nothing is sorted that was not found.                    *)
THEOREM ReachInvariance == Spec => []ReachInv
<1>1. Init => ExecutionInv /\ WalkInv /\ KeyInv /\ ReachInv
  BY Start, WalkBegins, KeysBegin, ReachBegins
<1>2. ExecutionInv /\ WalkInv /\ KeyInv /\ ReachInv /\ [Next]_vars =>
        (ExecutionInv /\ WalkInv /\ KeyInv /\ ReachInv)'
  BY KeepsExecutionInv, WalksOn, KeysGoTo, ReachesOn
<1> QED
  BY <1>1, <1>2, PTL DEF Spec

(* For every schema, and however objects are linked, shared or linked in   *)
(* circles: what is stored in the end is the smallest set with the objects *)
(* given that the sides of the walk do not lead out of, and none is stored *)
(* twice unless it is given twice.                                         *)
THEOREM WhatIsReachedIsStored == Spec => []WalkIsStoredOnce
<1>1. ExecutionInv /\ ReachInv => WalkIsStoredOnce
  BY SeenIsStored DEF ExecutionInv, WalkIsStoredOnce
<1> QED
  BY <1>1, ExecutionInvariance, ReachInvariance, PTL

=============================================================================

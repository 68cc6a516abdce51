---------------------------- MODULE InsertionOrder ----------------------------
(***************************************************************************)
(* The plan of an insert with relations, made once per kind of insert by   *)
(* InsertionSourceCompiler.  It collects the entities to insert, either    *)
(* all that navigation properties lead to or those of the paths given with *)
(* InsertWith, notes who will assign which foreign key, and sorts them so  *)
(* that an entity comes after those its foreign keys refer to.             *)
(*                                                                         *)
(* A relation has one id for both of its sides.  The side of entity e is   *)
(* <<r, e>>; e is its left entity, the other one its right entity.         *)
(***************************************************************************)
EXTENDS Naturals, Sequences, SequencesExt

CONSTANTS
  Entities,     \* the entities of the database
  Relations,    \* ids of relations
  Inserts       \* the inserts to plan

Styles == {"all", "with"}   \* InsertWithAll; InsertWith and AndWith

(* What an insert is given; InsertExecution adds the objects.              *)
ASSUME InsertsAssumption ==
  \A i \in Inserts :
    /\ i.root \in Entities
    /\ i.style \in Styles
    /\ i.relationsOf \in [Entities -> Seq(Relations)]   \* Entity.Relations
    /\ i.dependent \in [Relations -> Entities]          \* has the foreign key
    /\ i.principal \in [Relations -> Entities]
    /\ i.navigation \subseteq Relations \X Entities     \* sides with a property
    /\ i.generated \subseteq Entities                   \* HasDbGeneratedPrimaryKey
    /\ i.paths \in Seq([relation : Relations, trailingPath : Seq(Nat)])
    /\ i.trailingPath \in Seq(DOMAIN i.paths)           \* of the root
    /\ \A p \in DOMAIN i.paths : i.paths[p].trailingPath \in Seq(DOMAIN i.paths)

(* A relation is in the list of both entities, and no entity has one with  *)
(* itself, as both sides of it would have the same id.                     *)
ASSUME SiblingsAssumption ==
  \A i \in Inserts : \A e \in Entities : \A r \in ToSet(i.relationsOf[e]) :
    /\ e \in {i.dependent[r], i.principal[r]}
    /\ i.dependent[r] # i.principal[r]
    /\ r \in ToSet(i.relationsOf[i.dependent[r]]) \cap ToSet(i.relationsOf[i.principal[r]])

(* The paths are a tree: path n continues the path from[n], or the root if *)
(* that is 0, by a property of the entity at[from[n]], and leads to at[n]. *)
PathTree(i, at, from) ==
  /\ at[0] = i.root
  /\ \A p \in 0 .. Len(i.paths) :
       LET trailing == IF p = 0 THEN i.trailingPath ELSE i.paths[p].trailingPath
       IN IsInjective(trailing) /\ ToSet(trailing) = {n \in DOMAIN i.paths : from[n] = p}
  /\ \A n \in DOMAIN i.paths :
       LET r == i.paths[n].relation
           e == at[from[n]]
       IN /\ from[n] < n
          /\ <<r, e>> \in i.navigation /\ r \in ToSet(i.relationsOf[e])
          /\ at[n] = IF i.dependent[r] = e THEN i.principal[r] ELSE i.dependent[r]

(* With and AndWith build such trees, if every builder is used once.       *)
ASSUME PathsAssumption ==
  \A i \in Inserts : i.style = "with" =>
    \E at \in [0 .. Len(i.paths) -> Entities], from \in [DOMAIN i.paths -> 0 .. Len(i.paths)] :
      PathTree(i, at, from)

VARIABLES
  insert,               \* the insert that is planned
  phase,                \* "start", "collect", "order", then "ordered" or "loop"
  pending,              \* the sides the recursion has still to follow, a stack
  visitedEntities,      \* VisitedEntityIds
  reachableRelations,   \* ReachableRelations
  reachableEntities,    \* _reachableEntities: collected, not yet ordered
  entities,             \* _entities: the result
  processedEntities,    \* _processedEntities
  entityIndex,          \* of the loop over _reachableEntities
  startReachableCount   \* what that loop began with

collectVars == <<pending, visitedEntities, reachableRelations>>
orderVars == <<entities, processedEntities, entityIndex, startReachableCount>>
planVars == <<insert, phase, collectVars, reachableEntities, orderVars>>

RelationsOf(e) == ToSet(insert.relationsOf[e])
RightOf(r, e) ==
  IF insert.dependent[r] = e THEN insert.principal[r] ELSE insert.dependent[r]
ForeignKeyLeft(r, e) == insert.dependent[r] = e
HasNavigation(r, e) == <<r, e>> \in insert.navigation
HasGeneratedKey(e) == e \in insert.generated

(* EntityRelationHolder: self are the foreign keys the entity assigns to   *)
(* itself, foreign those it assigns to others when its own key is known,   *)
(* direct the relation, if any, that is assigned before anything is sent.  *)
Holders == [entity  : Entities,
            self    : SUBSET Relations,
            foreign : SUBSET Relations,
            direct  : SUBSET Relations]

PendingSides == [relation : Relations, left : Entities, path : 0 .. Len(insert.paths)]

PlanInit ==
  /\ insert \in Inserts
  /\ phase = "start"
  /\ pending = <<>>
  /\ visitedEntities = {}
  /\ reachableRelations = {}
  /\ reachableEntities = <<>>
  /\ entities = <<>>
  /\ processedEntities = {}
  /\ entityIndex = 1
  /\ startReachableCount = 0

-----------------------------------------------------------------------------
(* Collecting.  The recursion visits an entity, then follows its relations *)
(* from the last to the first: so do pending sides taken from the end.     *)

SidesOf(e) ==
  [n \in DOMAIN insert.relationsOf[e] |->
     [relation |-> insert.relationsOf[e][n], left |-> e, path |-> 0]]

TrailingPath(p) == IF p = 0 THEN insert.trailingPath ELSE insert.paths[p].trailingPath

PathsFrom(e, p) ==
  [n \in DOMAIN TrailingPath(p) |->
     [relation |-> insert.paths[TrailingPath(p)[n]].relation,
      left     |-> e,
      path     |-> TrailingPath(p)[n]]]

Holder(e, assigned, direct) ==
  [entity  |-> e,
   self    |-> {r \in assigned : ForeignKeyLeft(r, e)},
   foreign |-> {r \in assigned : ~ForeignKeyLeft(r, e)},
   direct  |-> direct]

ToGenerated(rs, e) == {r \in rs : HasGeneratedKey(RightOf(r, e))}

(* CollectAllReachableEntities.  A relation to an entity without generated *)
(* key is noted whatever it is, any other only if it has a property and is *)
(* met for the first time.                                                 *)
Collect(e, direct) ==
  LET assigned == {r \in ToGenerated(RelationsOf(e), e) :
                     HasNavigation(r, e) /\ r \notin reachableRelations}
  IN /\ visitedEntities' = visitedEntities \cup {e}
     /\ reachableEntities' = Append(reachableEntities, Holder(e, assigned, direct))
     /\ reachableRelations' = reachableRelations \cup assigned
          \cup (RelationsOf(e) \ ToGenerated(RelationsOf(e), e))

(* BaseCompileFromRelations: one entity per path, even if it is visited.   *)
CollectPath(e, p, direct) ==
  LET relations == {insert.paths[n].relation : n \in ToSet(TrailingPath(p))}
  IN /\ visitedEntities' = visitedEntities \cup {e}
     /\ reachableEntities' =
          Append(reachableEntities, Holder(e, ToGenerated(relations, e), direct))
     /\ reachableRelations' = reachableRelations \cup relations

(* Definitions named X_Y are variants of X with a mistake.  No             *)
(* specification uses them; they show which property would notice.         *)
(* An entity without any relation is not even registered as visited.       *)
CompileFromRoot ==
  /\ phase = "start" /\ insert.style = "all"
  /\ IF insert.relationsOf[insert.root] = <<>>
       THEN /\ entities' = <<Holder(insert.root, {}, {})>>
            /\ phase' = "ordered"
            /\ UNCHANGED <<collectVars, reachableEntities>>
       ELSE /\ Collect(insert.root, {})
            /\ pending' = SidesOf(insert.root)
            /\ phase' = "collect"
            /\ UNCHANGED entities
  /\ UNCHANGED <<insert, processedEntities, entityIndex, startReachableCount>>

CompileFromRelations ==
  /\ phase = "start" /\ insert.style = "with"
  /\ CollectPath(insert.root, 0, {})
  /\ pending' = PathsFrom(insert.root, 0)
  /\ phase' = "collect"
  /\ UNCHANGED <<insert, orderVars>>

NextSide == Last(pending)
Leads(side) == RightOf(side.relation, side.left)

SkipSide ==
  /\ phase = "collect" /\ insert.style = "all" /\ pending # <<>>
  /\ ~HasNavigation(NextSide.relation, NextSide.left) \/ Leads(NextSide) \in visitedEntities
  /\ pending' = Front(pending)
  /\ UNCHANGED <<insert, phase, visitedEntities, reachableRelations, reachableEntities, orderVars>>

CollectReachable ==
  /\ phase = "collect" /\ insert.style = "all" /\ pending # <<>>
  /\ HasNavigation(NextSide.relation, NextSide.left)
  /\ Leads(NextSide) \notin visitedEntities
  /\ Collect(Leads(NextSide), {NextSide.relation})
  /\ pending' = Front(pending) \o SidesOf(Leads(NextSide))
  /\ UNCHANGED <<insert, phase, orderVars>>

(* The key of an entity that has no generated one is known beforehand.     *)
CollectRelationPath ==
  /\ phase = "collect" /\ insert.style = "with" /\ pending # <<>>
  /\ CollectPath(Leads(NextSide), NextSide.path,
                 IF HasGeneratedKey(Leads(NextSide)) THEN {} ELSE {NextSide.relation})
  /\ pending' = Front(pending) \o PathsFrom(Leads(NextSide), NextSide.path)
  /\ UNCHANGED <<insert, phase, orderVars>>

-----------------------------------------------------------------------------
(* BaseCompile: passes over the collected entities until none is left.     *)

StartPass ==
  /\ entityIndex' = 1
  /\ startReachableCount' = Len(reachableEntities)

BaseCompile ==
  /\ phase = "collect" /\ pending = <<>>
  /\ phase' = "order"
  /\ StartPass
  /\ UNCHANGED <<insert, collectVars, reachableEntities, entities, processedEntities>>

Reachable(e) == {r \in RelationsOf(e) \cap reachableRelations : RightOf(r, e) \in visitedEntities}

HasDirectDependencies_Foreign(e) ==
  \E r \in Reachable(e) : ~ForeignKeyLeft(r, e) /\ RightOf(r, e) \notin processedEntities

HasDirectDependencies_OnlyGenerated(e) ==
  \E r \in ToGenerated(Reachable(e), e) :
    ForeignKeyLeft(r, e) /\ RightOf(r, e) \notin processedEntities

HasDirectDependencies(e) ==
  \E r \in Reachable(e) : ForeignKeyLeft(r, e) /\ RightOf(r, e) \notin processedEntities

NextHolder == reachableEntities[entityIndex]

Postpone ==
  /\ phase = "order" /\ entityIndex <= Len(reachableEntities)
  /\ HasDirectDependencies(NextHolder.entity)
  /\ entityIndex' = entityIndex + 1
  /\ UNCHANGED <<insert, phase, collectVars, reachableEntities,
                 entities, processedEntities, startReachableCount>>

AddEntity ==
  /\ phase = "order" /\ entityIndex <= Len(reachableEntities)
  /\ ~HasDirectDependencies(NextHolder.entity)
  /\ entities' = Append(entities, NextHolder)
  /\ processedEntities' =
       processedEntities \cup {e \in {NextHolder.entity} : Reachable(e) # {}}
  /\ reachableEntities' = RemoveAt(reachableEntities, entityIndex)
  /\ UNCHANGED <<insert, phase, collectVars, entityIndex, startReachableCount>>

EndPass_Impatient ==
  /\ phase = "order" /\ entityIndex > Len(reachableEntities)
  /\ phase' = IF reachableEntities = <<>> THEN "ordered" ELSE "loop"
  /\ UNCHANGED <<insert, collectVars, reachableEntities, orderVars>>

EndPass_Endless ==
  /\ phase = "order" /\ entityIndex > Len(reachableEntities)
  /\ IF reachableEntities = <<>>
       THEN phase' = "ordered" /\ UNCHANGED <<entityIndex, startReachableCount>>
       ELSE StartPass /\ UNCHANGED phase
  /\ UNCHANGED <<insert, collectVars, reachableEntities, entities, processedEntities>>

(* Without any progress the remaining entities depend on each other.       *)
EndPass ==
  /\ phase = "order" /\ entityIndex > Len(reachableEntities)
  /\ IF Len(reachableEntities) = startReachableCount
       THEN phase' = "loop" /\ UNCHANGED <<entityIndex, startReachableCount>>
       ELSE IF reachableEntities = <<>>
         THEN phase' = "ordered" /\ UNCHANGED <<entityIndex, startReachableCount>>
         ELSE StartPass /\ UNCHANGED phase
  /\ UNCHANGED <<insert, collectVars, reachableEntities, entities, processedEntities>>

Plan ==
  \/ CompileFromRoot \/ CompileFromRelations
  \/ SkipSide \/ CollectReachable \/ CollectRelationPath
  \/ BaseCompile
  \/ Postpone \/ AddEntity \/ EndPass

PlanSpec == PlanInit /\ [][Plan]_planVars

-----------------------------------------------------------------------------
(* Properties.                                                             *)

PlanPhases == {"start", "collect", "order", "ordered", "loop"}

(* Every variable of the plan keeps its type.                              *)
PlanTypeOK ==
  /\ pending \in Seq(PendingSides)
  /\ visitedEntities \subseteq Entities
  /\ reachableRelations \subseteq Relations
  /\ reachableEntities \in Seq(Holders)
  /\ entities \in Seq(Holders)
  /\ processedEntities \subseteq Entities
  /\ entityIndex \in 1 .. Len(reachableEntities) + 1
  /\ startReachableCount \in Nat

(* Where the plan inserts an entity, those its foreign keys refer to come  *)
(* before it, as BaseCompile promises.                                     *)
PrincipalsFirst ==
  \A i \in DOMAIN entities :
    \A r \in Reachable(entities[i].entity) :
      ForeignKeyLeft(r, entities[i].entity) =>
        \E j \in 1 .. i - 1 : entities[j].entity = RightOf(r, entities[i].entity)

DependsOn(e, f) == \E r \in Reachable(e) : ForeignKeyLeft(r, e) /\ RightOf(r, e) = f

(* BaseCompile gives up only if each of the entities its message names     *)
(* waits for another one it names, so there really is a loop.              *)
LoopIsReal ==
  phase = "loop" =>
    /\ reachableEntities # <<>>
    /\ \A i \in DOMAIN reachableEntities : \E j \in DOMAIN reachableEntities :
         DependsOn(reachableEntities[i].entity, reachableEntities[j].entity)

(* InsertWithAll plans every entity it can reach, and none of them twice;  *)
(* InsertWith plans one insert for each of its paths.                      *)
EveryEntityPlannedOnce ==
  phase = "ordered" =>
    IF insert.style = "all"
      THEN /\ {h.entity : h \in ToSet(entities)} = visitedEntities \cup {insert.root}
           /\ \A i, j \in DOMAIN entities : entities[i].entity = entities[j].entity => i = j
      ELSE Len(entities) = Len(insert.paths) + 1
=============================================================================

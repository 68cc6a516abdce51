---------------------------- MODULE InsertExecution ----------------------------
(***************************************************************************)
(* What the inserter that InsertionFactoryCompiler generates for a plan    *)
(* does.  Its first part walks the given objects and sorts them into one   *)
(* collection per entity; the code for that walk is emitted by a second    *)
(* recursion over the entities, which has to agree with the first one.     *)
(* The rest sends one command per entity, reads generated keys back and    *)
(* hands them on as foreign keys.                                          *)
(*                                                                         *)
(* An object is <<entity, number>>, and so is its primary key: the client  *)
(* or the server chose it for that object.  Objects that are not inserted  *)
(* yet and have a generated key hold the default value, NoKey.             *)
(***************************************************************************)
EXTENDS InsertionOrder, FiniteSets

CONSTANT MaxObjects   \* bound: objects of an entity

Objects == Entities \X (1 .. MaxObjects)
NoKey == <<>>
Keys == Objects \cup {NoKey}

(* An insert also has the objects given, whether it is InsertAsync of one  *)
(* object, how objects are linked, ushort.MaxValue / totalColumns, and     *)
(* ushort.MaxValue / columnCount, which counts the generated key as well.  *)
ASSUME ObjectsAssumption ==
  /\ MaxObjects \in Nat /\ IsFiniteSet(Entities)
  /\ \A i \in Inserts :
       /\ i.roots \in Seq({i.root} \X (1 .. MaxObjects))
       /\ i.single \in BOOLEAN
       /\ i.single => Len(i.roots) = 1
       /\ i.links \in [Relations -> SUBSET (Objects \X Objects)]  \* <<dependent, principal>>
       /\ i.rowLimit \in Nat \ {0} /\ i.readLimit \in 1 .. i.rowLimit

(* The types of the navigation properties.                                 *)
ASSUME LinksAssumption ==
  \A i \in Inserts : \A r \in Relations : \A x \in i.links[r] :
    x[1][1] = i.dependent[r] /\ x[2][1] = i.principal[r]

VARIABLES
  emittedEntities,   \* _vistiedEntities of the EntitySeprator
  walks,             \* the sides its code follows, _visitedRelations with them
  walk,              \* the objects the generated walk has still to look at
  seen,              \* its ObjectIDGenerator
  collections,       \* the collection of each entity but the root
  primaryKey,        \* of the objects
  foreignKey,        \* of the objects
  current,           \* which of the entities is inserted
  results,           \* the results of its command still to be read, sequences of keys
  iterator, counter, \* of the loop that reads them
  rows               \* what the server stored, in that order

emitVars == <<emittedEntities, walks>>
splitVars == <<walk, seen, collections>>
keyVars == <<primaryKey, foreignKey>>
readVars == <<results, iterator, counter>>
executionVars == <<emitVars, splitVars, keyVars, current, readVars, rows>>
vars == <<planVars, executionVars>>
plan == <<insert, collectVars, reachableEntities, orderVars>>   \* once it is made

Init ==
  /\ PlanInit
  /\ emittedEntities = {}
  /\ walks = {}
  /\ walk = <<>>
  /\ seen = {}
  /\ collections = [e \in Entities |-> <<>>]
  /\ primaryKey = [o \in Objects |-> IF HasGeneratedKey(o[1]) THEN NoKey ELSE o]
  /\ foreignKey = [o \in Objects |-> [r \in Relations |-> NoKey]]
  /\ current = 1
  /\ results = <<>>
  /\ iterator = 1 /\ counter = 0
  /\ rows = <<>>

-----------------------------------------------------------------------------
(* Emitting the walk: WriteEntitySeperater.                                *)

(* The dictionary of holders has one entry per entity.                     *)
PlannedTwice ==
  \E i, j \in DOMAIN entities : i # j /\ entities[i].entity = entities[j].entity

(* Without relations there is no walk, the last disjunct then emits none.  *)
CreateInserter ==
  /\ phase = "ordered"
  /\ IF PlannedTwice
       THEN phase' = "threw" /\ UNCHANGED <<pending, emitVars>>
       ELSE /\ phase' = "emit"
            /\ pending' = SidesOf(insert.root)
            /\ emittedEntities' = {insert.root}
            /\ UNCHANGED walks
  /\ UNCHANGED <<insert, visitedEntities, reachableRelations, reachableEntities,
                 orderVars, splitVars, keyVars, current, readVars, rows>>

WriteWalk_Revisit(side) ==
  /\ HasNavigation(side.relation, side.left)
  /\ Leads(side) \in visitedEntities
  /\ side.relation \in reachableRelations
  /\ ~\E w \in walks : w[1] = side.relation

WriteWalk(side) ==
  /\ HasNavigation(side.relation, side.left)
  /\ Leads(side) \in visitedEntities \ emittedEntities
  /\ side.relation \in reachableRelations
  /\ ~\E w \in walks : w[1] = side.relation

EmitWalk ==
  /\ phase = "emit" /\ pending # <<>>
  /\ IF WriteWalk(NextSide)
       THEN /\ walks' = walks \cup {<<NextSide.relation, NextSide.left>>}
            /\ emittedEntities' = emittedEntities \cup {Leads(NextSide)}
            /\ pending' = Front(pending) \o SidesOf(Leads(NextSide))
       ELSE pending' = Front(pending) /\ UNCHANGED emitVars
  /\ UNCHANGED <<insert, phase, visitedEntities, reachableRelations, reachableEntities,
                 orderVars, splitVars, keyVars, current, readVars, rows>>

(* The delegate is done and invoked; null or no objects are not inserted.  *)
StartInsert ==
  /\ phase = "emit" /\ pending = <<>>
  /\ phase' = IF insert.roots = <<>> THEN "done" ELSE "split"
  /\ walk' = [n \in DOMAIN insert.roots |-> [object |-> insert.roots[n], left |-> insert.roots[n]]]
  /\ UNCHANGED <<plan, emitVars, seen, collections, keyVars, current, readVars, rows>>

-----------------------------------------------------------------------------
(* Splitting the given objects.                                            *)

(* The value of the navigation property of o, as a sequence.               *)
Linked(r, e, o) ==
  SetToSeq(IF ForeignKeyLeft(r, e)
             THEN {p \in Objects : <<o, p>> \in insert.links[r]}
             ELSE {d \in Objects : <<d, o>> \in insert.links[r]})

HolderOf(e) == CHOOSE h \in ToSet(entities) : h.entity = e

Followed(o) == {r \in RelationsOf(o[1]) : <<r, o[1]>> \in walks}

NextObjects_ButLast(o) ==
  LET found(r) == [n \in 1 .. Len(Linked(r, o[1], o)) - 1 |->
                     [object |-> Linked(r, o[1], o)[n], left |-> o]]
      relations == Reverse(insert.relationsOf[o[1]])
  IN FlattenSeq([n \in DOMAIN relations |->
                   IF relations[n] \in Followed(o) THEN found(relations[n]) ELSE <<>>])

(* What the walk looks at after o, the objects of its last relation first. *)
NextObjects(o) ==
  LET found(r) == [n \in DOMAIN Linked(r, o[1], o) |->
                     [object |-> Linked(r, o[1], o)[n], left |-> o]]
      relations == Reverse(insert.relationsOf[o[1]])
  IN FlattenSeq([n \in DOMAIN relations |->
                   IF relations[n] \in Followed(o) THEN found(relations[n]) ELSE <<>>])

DirectlyAssigned_Once(o, left, r) ==
  IF ForeignKeyLeft(r, o[1]) /\ ~HasGeneratedKey(left[1])
    THEN [foreignKey EXCEPT ![o][r] = primaryKey[left]]
    ELSE foreignKey

(* The direct relation of an object, where one side has its key already.   *)
DirectlyAssigned(o, left, r) ==
  IF ForeignKeyLeft(r, o[1]) /\ ~HasGeneratedKey(left[1])
    THEN [foreignKey EXCEPT ![o][r] = primaryKey[left]]
    ELSE IF HasGeneratedKey(o[1])
      THEN foreignKey
      ELSE [foreignKey EXCEPT ![left][r] = primaryKey[o]]

(* A dependent whose principal has no key yet: its key is written through  *)
(* the setter of its foreign key, which the principal does not have.       *)
WrongSetter(o, left, r) ==
  ForeignKeyLeft(r, o[1]) /\ HasGeneratedKey(left[1]) /\ ~HasGeneratedKey(o[1])

FirstTime_OfRoots(o) == o \notin seen \/ o[1] # insert.root
FirstTime(o) == o \notin seen

DirectOf(o) == IF o[1] = insert.root THEN {} ELSE HolderOf(o[1]).direct

AfterWalk(objects) ==
  /\ walk' = objects
  /\ phase' = IF objects = <<>> THEN "insert" ELSE "split"

SplitObject ==
  LET o == Head(walk).object
      left == Head(walk).left
  IN
  /\ phase = "split" /\ FirstTime(o)
  /\ ~\E r \in DirectOf(o) : WrongSetter(o, left, r)
  /\ seen' = seen \cup {o}
  /\ foreignKey' = IF DirectOf(o) = {} THEN foreignKey
                    ELSE DirectlyAssigned(o, left, CHOOSE r \in DirectOf(o) : TRUE)
  /\ collections' = IF o[1] = insert.root THEN collections
                     ELSE [collections EXCEPT ![o[1]] = Append(@, o)]
  /\ AfterWalk(NextObjects(o) \o Tail(walk))
  /\ UNCHANGED <<plan, emitVars, primaryKey, current, readVars, rows>>

SkipSeenObject ==
  /\ phase = "split" /\ ~FirstTime(Head(walk).object)
  /\ AfterWalk(Tail(walk))
  /\ UNCHANGED <<plan, emitVars, seen, collections, keyVars, current, readVars, rows>>

(* What the generated code does from here on is not defined.               *)
CallWrongSetter ==
  /\ phase = "split" /\ FirstTime(Head(walk).object)
  /\ \E r \in DirectOf(Head(walk).object) :
       WrongSetter(Head(walk).object, Head(walk).left, r)
  /\ phase' = "undefined"
  /\ UNCHANGED <<plan, executionVars>>

-----------------------------------------------------------------------------
(* Inserting, one entity after the other.                                  *)

Batch(e) == IF e = insert.root THEN insert.roots ELSE collections[e]

Scalar(e) == insert.single /\ e = insert.root

SelfAssigned(h) ==
  [o \in Objects |->
    [r \in Relations |->
      IF r \in h.self /\ Contains(Batch(h.entity), o) /\ Linked(r, h.entity, o) # <<>>
        THEN primaryKey[Head(Linked(r, h.entity, o))]
        ELSE foreignKey[o][r]]]

ForeignAssigned(h, o, key, keys) ==
  [d \in Objects |->
    [r \in Relations |->
      IF r \in h.foreign /\ Contains(Linked(r, h.entity, o), d) THEN key ELSE keys[d][r]]]

(* How the objects are cut into statements that keep the parameter limit.  *)
Statements(objects) ==
  LET limit == insert.rowLimit
  IN [n \in 1 .. ((Len(objects) + limit - 1) \div limit) |->
        SubSeq(objects, (n - 1) * limit + 1,
               IF n * limit < Len(objects) THEN n * limit ELSE Len(objects))]

NextEntity ==
  /\ current' = current + 1
  /\ phase' = IF current = Len(entities) THEN "done" ELSE "insert"

Store(h) ==
  rows' = rows \o [n \in DOMAIN Batch(h.entity) |->
                     [object |-> Batch(h.entity)[n],
                      foreignKeys |-> SelfAssigned(h)[Batch(h.entity)[n]]]]

Inserting(h) == phase = "insert" /\ h = entities[current]

SkipEmpty(h) ==
  /\ Inserting(h)
  /\ Batch(h.entity) = <<>>
  /\ NextEntity
  /\ UNCHANGED <<plan, emitVars, splitVars, keyVars, readVars, rows>>

(* The object of InsertAsync is sent alone, whatever its key is.           *)
InsertScalar(h) ==
  /\ Inserting(h) /\ Scalar(h.entity)
  /\ Store(h)
  /\ LET o == Head(insert.roots)
     IN /\ primaryKey' = [primaryKey EXCEPT ![o] = o]
        /\ foreignKey' = ForeignAssigned(h, o, o, SelfAssigned(h))
  /\ NextEntity
  /\ UNCHANGED <<plan, emitVars, splitVars, readVars>>

(* Statements that return keys end with a semicolon.  So do the others if  *)
(* the root is the only entity, but not in the inserters with relations.   *)
WellFormed(h) == Len(Statements(Batch(h.entity))) = 1 \/ Len(entities) = 1

(* Keys of the client are not handed on.                                   *)
InsertBatch(h) ==
  /\ Inserting(h) /\ ~Scalar(h.entity) /\ ~HasGeneratedKey(h.entity)
  /\ Batch(h.entity) # <<>> /\ WellFormed(h)
  /\ Store(h)
  /\ foreignKey' = SelfAssigned(h)
  /\ NextEntity
  /\ UNCHANGED <<plan, emitVars, splitVars, primaryKey, readVars>>

(* The server rejects the command.                                         *)
SendMalformed(h) ==
  /\ Inserting(h) /\ ~Scalar(h.entity) /\ ~HasGeneratedKey(h.entity)
  /\ Batch(h.entity) # <<>> /\ ~WellFormed(h)
  /\ foreignKey' = SelfAssigned(h)
  /\ phase' = "threw"
  /\ UNCHANGED <<plan, emitVars, splitVars, primaryKey, current, readVars, rows>>

InsertReturning(h) ==
  /\ Inserting(h) /\ ~Scalar(h.entity) /\ HasGeneratedKey(h.entity)
  /\ Batch(h.entity) # <<>>
  /\ Store(h)
  /\ foreignKey' = SelfAssigned(h)
  /\ results' = Statements(Batch(h.entity))
  /\ iterator' = 1 /\ counter' = 0
  /\ phase' = "read"
  /\ UNCHANGED <<plan, emitVars, splitVars, primaryKey, current>>

(* How many keys are read before NextResultAsync is called: as many as a   *)
(* statement has rows, except that the inserter of one object divides by   *)
(* the other number of columns.                                            *)
ReadLimit == IF insert.single THEN insert.readLimit ELSE insert.rowLimit

ReadKey_ByCounter(h) ==
  LET readNext == counter = ReadLimit
      remaining == IF readNext THEN Tail(results) ELSE results
      o == Batch(h.entity)[(IF readNext THEN 0 ELSE counter) + 1]
  IN
  /\ phase = "read" /\ h = entities[current] /\ iterator <= Len(Batch(h.entity))
  /\ IF remaining = <<>> \/ Head(remaining) = <<>>
       THEN phase' = "noRow" /\ UNCHANGED <<keyVars, readVars>>
       ELSE /\ primaryKey' = [primaryKey EXCEPT ![o] = Head(Head(remaining))]
            /\ foreignKey' = ForeignAssigned(h, o, Head(Head(remaining)), foreignKey)
            /\ results' = <<Tail(Head(remaining))>> \o Tail(remaining)
            /\ iterator' = iterator + 1
            /\ counter' = (IF readNext THEN 0 ELSE counter) + 1
            /\ UNCHANGED phase
  /\ UNCHANGED <<plan, emitVars, splitVars, current, rows>>

(* The next key, of the next result after ReadLimit of them; the rows left *)
(* of the result before are skipped.                                       *)
ReadKey(h) ==
  LET readNext == counter = ReadLimit
      remaining == IF readNext THEN Tail(results) ELSE results
      o == Batch(h.entity)[iterator]
  IN
  /\ phase = "read" /\ h = entities[current] /\ iterator <= Len(Batch(h.entity))
  /\ IF remaining = <<>> \/ Head(remaining) = <<>>
       THEN phase' = "noRow" /\ UNCHANGED <<keyVars, readVars>>
       ELSE /\ primaryKey' = [primaryKey EXCEPT ![o] = Head(Head(remaining))]
            /\ foreignKey' = ForeignAssigned(h, o, Head(Head(remaining)), foreignKey)
            /\ results' = <<Tail(Head(remaining))>> \o Tail(remaining)
            /\ iterator' = iterator + 1
            /\ counter' = (IF readNext THEN 0 ELSE counter) + 1
            /\ UNCHANGED phase
  /\ UNCHANGED <<plan, emitVars, splitVars, current, rows>>

EndReading(h) ==
  /\ phase = "read" /\ h = entities[current] /\ iterator > Len(Batch(h.entity))
  /\ NextEntity
  /\ results' = <<>>
  /\ UNCHANGED <<plan, emitVars, splitVars, keyVars, iterator, counter, rows>>

InsertEntity(h) ==
  \/ SkipEmpty(h) \/ InsertScalar(h) \/ InsertBatch(h) \/ SendMalformed(h)
  \/ InsertReturning(h) \/ ReadKey(h) \/ EndReading(h)

Next ==
  \/ Plan /\ UNCHANGED executionVars
  \/ CreateInserter \/ EmitWalk \/ StartInsert
  \/ SplitObject \/ SkipSeenObject \/ CallWrongSetter
  \/ \E h \in ToSet(entities) : InsertEntity(h)

Spec == Init /\ [][Next]_vars /\ WF_vars(Next)

-----------------------------------------------------------------------------
(* Properties.                                                             *)

Phases == PlanPhases \cup {"emit", "split", "insert", "read", "noRow", "threw", "done", "undefined"}

(* Every variable keeps its type.                                          *)
TypeOK ==
  /\ PlanTypeOK /\ phase \in Phases
  /\ emittedEntities \subseteq Entities
  /\ walks \subseteq Relations \X Entities
  /\ walk \in Seq([object : Objects, left : Objects])
  /\ seen \subseteq Objects
  /\ collections \in [Entities -> Seq(Objects)]
  /\ primaryKey \in [Objects -> Keys]
  /\ foreignKey \in [Objects -> [Relations -> Keys]]
  /\ results \in Seq(Seq(Objects))
  /\ current \in 1 .. Len(entities) + 1 /\ iterator \in Nat /\ counter \in Nat
  /\ rows \in Seq([object : Objects, foreignKeys : [Relations -> Keys]])

Emitted == phase \in {"split", "insert", "read", "done"}

(* The two recursions agree: the walk enters every planned entity but the  *)
(* root by one side, and by the relation that entity is to assign directly.*)
WalkFollowsPlan ==
  Emitted =>
    \A h \in ToSet(entities) : h.entity # insert.root =>
      /\ Cardinality({w \in walks : RightOf(w[1], w[2]) = h.entity}) = 1
      /\ \A w \in walks : RightOf(w[1], w[2]) = h.entity =>
           w[2] \in {g.entity : g \in ToSet(entities)} /\ h.direct \subseteq {w[1]}

(* The plan and the walk fit together.                                     *)
PlanIsWalked == TypeOK /\ EveryEntityPlannedOnce /\ WalkFollowsPlan

Parent(p) == CHOOSE q \in 0 .. Len(insert.paths) : p \in ToSet(TrailingPath(q))

(* The sides an insert is asked to follow, and those of them that lead     *)
(* away from the root, by the fewest relations.                            *)
Asked ==
  LET at[p \in 0 .. Len(insert.paths)] ==
        IF p = 0 THEN insert.root ELSE RightOf(insert.paths[p].relation, at[Parent(p)])
  IN IF insert.style = "all" THEN insert.navigation
     ELSE {<<insert.paths[n].relation, at[Parent(n)]>> : n \in DOMAIN insert.paths}

EntitiesOf(sides) == {insert.root} \cup {RightOf(w[1], w[2]) : w \in sides}

AskedAway ==
  LET away[n \in 0 .. Cardinality(Entities)] ==
        IF n = 0 THEN {}
        ELSE away[n - 1] \cup
               {w \in Asked : /\ w[2] \in EntitiesOf(away[n - 1])
                              /\ RightOf(w[1], w[2]) \notin EntitiesOf(away[n - 1])}
  IN away[Cardinality(Entities)]

(* There is one way only from the root to each entity.                     *)
TreeShaped ==
  LET reached == EntitiesOf(AskedAway)
  IN Cardinality({w[1] : w \in {v \in Asked : v[2] \in reached}}) = Cardinality(reached) - 1

AskedObjects ==
  LET from(o) == UNION {ToSet(Linked(w[1], w[2], o)) : w \in {v \in AskedAway : v[2] = o[1]}}
      next(os) == UNION {from(o) : o \in os}
      found[n \in 0 .. Cardinality(Entities)] ==
        IF n = 0 THEN ToSet(insert.roots) ELSE found[n - 1] \cup next(found[n - 1])
  IN found[Cardinality(Entities)]

Stored == {row.object : row \in ToSet(rows)}

(* "InsertWithAll will insert with all populated and reachable relations": *)
(* every object that a populated navigation property leads to is stored.   *)
PopulatedAreInserted == phase = "done" => AskedObjects \subseteq Stored

(* That holds if the relations form a tree, and nothing else is stored.    *)
TreeIsInserted == phase = "done" /\ TreeShaped => Stored = AskedObjects

(* What the walk finds beside o, along the sides that its code follows; a  *)
(* closed set of objects is one that it does not leave.                    *)
FoundBeside(o) == UNION {ToSet(Linked(r, o[1], o)) : r \in Followed(o)}
ClosedUnderWalk(os) == \A o \in os : FoundBeside(o) \subseteq os

(* Exactly what the walk leads to is stored: the objects given, all that   *)
(* is found beside a stored one, and none that is not found this way.      *)
WalkIsStored ==
  phase = "done" =>
    /\ ToSet(insert.roots) \subseteq Stored /\ ClosedUnderWalk(Stored)
    /\ \A os \in SUBSET Stored :
         ToSet(insert.roots) \subseteq os /\ ClosedUnderWalk(os) => os = Stored

(* However objects share what they refer to, and whatever shape the        *)
(* relations have, none is inserted twice unless it is given twice.        *)
InsertedOnce ==
  IsInjective(insert.roots) =>
    \A i, j \in DOMAIN rows : rows[i].object = rows[j].object => i = j

(* Of the objects that the walk leads to each has a row, one only unless   *)
(* it is given twice, and no other object has any.                         *)
WalkIsStoredOnce == WalkIsStored /\ InsertedOnce

(* A foreign key refers to a row the server has already, at the time the   *)
(* row with the foreign key is sent, or the statement would be rejected.   *)
ReferencesExist ==
  \A i \in DOMAIN rows : \A r \in Relations :
    rows[i].foreignKeys[r] # NoKey =>
      \E j \in 1 .. i - 1 : rows[j].object = rows[i].foreignKeys[r]

(* Relations whose foreign key the inserter leaves to the caller: the keys *)
(* of the client are set once for each principal, however many objects     *)
(* refer to it, and are not handed on along the paths of InsertWith.       *)
Shared(r) == \E x, y \in insert.links[r] : x[2] = y[2] /\ x[1] # y[1]

LeftToCaller(r, e) ==
  /\ ~HasGeneratedKey(insert.principal[r])
  /\ \/ ForeignKeyLeft(r, e) /\ Shared(r)
     \/ /\ insert.style = "with" /\ ~ForeignKeyLeft(r, e)
        /\ HasGeneratedKey(insert.dependent[r]) /\ ~Scalar(e)

(* What the objects say is what the rows say: a row refers to the object   *)
(* that its object was linked to.                                          *)
LinksAreStored ==
  phase = "done" /\ TreeShaped =>
    \A w \in AskedAway : ~LeftToCaller(w[1], w[2]) =>
      \A x \in insert.links[w[1]] : \A row \in ToSet(rows) :
        row.object = x[1] /\ x[2] \in Stored => row.foreignKeys[w[1]] = x[2]

(* Of a tree, exactly the objects asked for are stored, linked as they were. *)
TreeIsStored == TreeIsInserted /\ LinksAreStored

(* The reader leaves a result when it has read all of its keys.            *)
CountersAgree(e) == ReadLimit = insert.rowLimit \/ Len(Batch(e)) <= ReadLimit

(* Its command has more rows than the two counters agree on: some keys are *)
(* skipped, and it runs out of them in the end.                            *)
Overrun == phase \in {"read", "noRow"} /\ ~CountersAgree(entities[current].entity)

(* A key that was read back belongs to the row of that object and none is  *)
(* missing, wherever the parameter limit cut the command, unless it has    *)
(* more rows than the counters agree on.  In any case every stored object  *)
(* has its own key when the insert returns: that other command never does. *)
KeysFitRows ==
  /\ ~Overrun => phase # "noRow" /\ \A o \in Objects : primaryKey[o] \in {NoKey, o}
  /\ phase = "done" => \A o \in Stored : primaryKey[o] = o

(* Planning and inserting come to an end, whatever the relations are.      *)
Terminates == <>(phase \in {"done", "loop", "threw", "noRow", "undefined"})
=============================================================================

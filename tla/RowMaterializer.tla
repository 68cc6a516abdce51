---------------------------- MODULE RowMaterializer ----------------------------
(***************************************************************************)
(* What a generated materializer does with the rows of a query: it merges  *)
(* them into objects by primary key and links the objects.  It remembers,  *)
(* of each joined table, only the object of the last row it saw; the rows  *)
(* come in any order.  A query reads the tables 1, 2, ...; table 1 is the  *)
(* queried entity, every other one is joined to an earlier table.          *)
(***************************************************************************)
EXTENDS Naturals, Sequences, FiniteSets, SequencesExt

CONSTANTS
  Queries,     \* records, see QueriesAssumption
  Keys,        \* values of primary keys
  Null,        \* the database's null
  None,        \* a null reference
  PrimaryMap,  \* stands for the key of the object, which a materializer of a
               \* single object does not need to find the set of a collection
  MaxRows      \* bound: rows of a result

Types == {"OneToOne", "OneToMany", "ManyToOne"}
Behaviours == {"InnerJoin", "LeftJoin", "RightJoin", "FullJoin"}

(* type is RelationType seen from the joined table, inverse says whether   *)
(* the joined entity has a navigation property back to the table it was    *)
(* joined to.                                                              *)
ASSUME QueriesAssumption ==
  /\ Null # None /\ Null # PrimaryMap /\ None # PrimaryMap
  /\ {Null, None, PrimaryMap} \cap Keys = {}
  /\ \A s \in SUBSET Keys : s # None
  /\ MaxRows \in Nat
  /\ \A q \in Queries :
       /\ q.single \in BOOLEAN
       /\ q.entity \in Seq(ToSet(q.entity))
       /\ LET n == Len(q.entity) IN
            /\ n > 0
            /\ q.parent \in [2 .. n -> 1 .. n] /\ \A j \in 2 .. n : q.parent[j] < j
            /\ q.type \in [2 .. n -> Types]
            /\ q.inverse \in [2 .. n -> BOOLEAN]
            /\ q.behaviour \in [2 .. n -> Behaviours]

VARIABLES
  query,      \* the query whose rows are read
  phase,      \* "reading", "linking" (a row's objects are found), "done", or a failure
  rows,       \* history: the rows read so far
  isFirstRow,
  result,     \* the keys of the returned objects, in order
  last,       \* _last<Entity><Id>, the object of the last row of each table
  changed,    \* the tables whose hasChanged local is set
  entities,   \* the dictionary of each table: the keys of its objects
  sets,       \* the sets of keys in relationDictionaries, by collection and owner
  lastSet,    \* _last<Relation>_Map: the owner of the set in use, or None
  references, \* the reference navigation properties of the objects
  collections \* their collection navigation properties

fields == <<last, changed, entities, sets, lastSet>>
objects == <<references, collections>>
vars == <<query, phase, rows, isFirstRow, result, fields, objects>>

Tables == DOMAIN query.entity
Joins == Tables \ {1}
HasRelations == Joins # {}

-----------------------------------------------------------------------------
(* What MaterializerSourceCompiler notes down for each table.              *)

(* SelfAssignedRelations: <<t, u>> when objects of t refer to one of u.    *)
References ==
  {<<query.parent[j], j>> : j \in {i \in Joins : query.type[i] # "ManyToOne"}} \cup
  {<<j, query.parent[j]>> : j \in {i \in Joins : query.inverse[i] /\ query.type[i] # "OneToMany"}}

(* ForeignAssignedRelations: <<t, u>> when objects of t have a collection  *)
(* of objects of u.                                                        *)
Collections ==
  {<<query.parent[j], j>> : j \in {i \in Joins : query.type[i] = "ManyToOne"}} \cup
  {<<j, query.parent[j]>> : j \in {i \in Joins : query.inverse[i] /\ query.type[i] = "OneToMany"}}

(* A navigation property of an optional one-to-one relation is nullable.   *)
RequiresDBNullCheck(t) ==
  \/ /\ t \in Joins
     /\ query.type[t] = "OneToOne" => query.behaviour[t] \in {"LeftJoin", "FullJoin"}
  \/ \E j \in Joins : /\ query.parent[j] = t /\ query.inverse[j]
                      /\ \/ query.type[j] = "OneToMany"
                         \/ /\ query.type[j] = "OneToOne"
                            /\ query.behaviour[j] \in {"RightJoin", "FullJoin"}

(* The single object is created from its first row without looking.        *)
IsNullChecked(t) == RequiresDBNullCheck(t) /\ ~(query.single /\ t = 1)

RequiresChangedLocal(t) ==
  \/ \E j \in Joins : query.parent[j] = t
  \/ t \in Joins /\ (query.type[t] = "ManyToOne" \/ query.inverse[t])

(* The sets are kept by relation, and every table of an entity handles the *)
(* relations of that entity.  A materializer of a single object has no     *)
(* dictionary for collections that the object itself is in.                *)
Handles(t, c) == query.entity[c[1]] = query.entity[t]
HasDictionary(c) == ~query.single \/ c[2] # 1

-----------------------------------------------------------------------------
(* The objects of a row.                                                   *)

(* How the object of a table is found: the row may have none, it may be    *)
(* that of the last row, one of an earlier row, or a new one.              *)
Outcome_LastOnly(t, row) ==
  IF query.single /\ t = 1 /\ ~isFirstRow           THEN "same"
  ELSE IF row[t] = Null                             THEN IF IsNullChecked(t) THEN "missing" ELSE "cast"
  ELSE IF last[t] = row[t]                          THEN "same"
  ELSE "created"

Outcome(t, row) ==
  IF query.single /\ t = 1 /\ ~isFirstRow           THEN "same"
  ELSE IF row[t] = Null                             THEN IF IsNullChecked(t) THEN "missing" ELSE "cast"
  ELSE IF last[t] = row[t]                          THEN "same"
  ELSE IF last[t] # None /\ row[t] \in entities[t]  THEN "found"
  ELSE "created"

WithOutcome(outcome, row) == {t \in Tables : Outcome(t, row) = outcome}

(* The tables among ts that handle the sets of collection c.               *)
Handling(c, ts) ==
  {t \in ts : Handles(t, c) /\ RequiresChangedLocal(t) /\ ~(query.single /\ t = 1)}

(* The keys of the new objects that get a set for their collection c.      *)
NewOwners(c, created, row) == IF HasDictionary(c) THEN {row[t] : t \in Handling(c, created)} ELSE {}

(* An object with the key of one that has its set already.                 *)
Collides(c, created, row) ==
  \/ \E k \in NewOwners(c, created, row) : sets[c][k] # None
  \/ Cardinality(NewOwners(c, created, row)) < Cardinality(Handling(c, created)) /\ HasDictionary(c)

SetsWithNew(c, created, row) ==
  [k \in DOMAIN sets[c] |-> IF k \in NewOwners(c, created, row) THEN {} ELSE sets[c][k]]

SetInUse_Kept(c, created, found, row) ==
  LET t == CHOOSE x \in Handling(c, created) : \A y \in Handling(c, created) : y <= x
  IN IF Handling(c, created) = {} THEN lastSet[c] ELSE row[t]

(* The owner whose set is in use after the objects are found.  Tables are  *)
(* handled in their order; a new object brings a new set, an old one asks  *)
(* for a look into the dictionary.                                         *)
SetInUse(c, created, found, row) ==
  LET new == IF HasDictionary(c) THEN Handling(c, created) ELSE {}
      handling == new \cup Handling(c, found)
      latest == CHOOSE t \in handling : \A u \in handling : u <= t
  IN IF handling = {} THEN lastSet[c] ELSE IF latest \in new THEN row[latest] ELSE None

-----------------------------------------------------------------------------
(* The links of a row.                                                     *)

(* Whether the object of c[2] goes into the collection of that of c[1].    *)
(* RequiresDBNullCheck holds of c[2], so the code's other condition, that  *)
(* either of the two changed, never applies.                               *)
Assigns_OwnerChanged(c) == c[1] \in changed
Assigns(c) == IF HasDictionary(c) THEN c[2] \in changed ELSE isFirstRow /\ c[1] \in changed

SetOwner(c) == IF lastSet[c] = None THEN last[c[1]] ELSE lastSet[c]

Adds(c) == Assigns(c) /\ last[c[2]] \notin sets[c][SetOwner(c)]

Refers_Always(r) == last[r[1]] # None
Refers(r) == r[1] \in changed

LinkFailure ==
  LET assigned == {c \in Collections : Assigns(c)} IN
  IF \E c \in assigned : last[c[1]] = None              THEN "nullReference"
  ELSE IF \E c \in assigned : sets[c][SetOwner(c)] = None THEN "keyNotFound"
  ELSE "reading"

-----------------------------------------------------------------------------
(* The rows of a query.                                                    *)

Matched(j, row) == row[query.parent[j]] # Null /\ row[j] # Null

(* One row of the joined tables.                                           *)
IsRow(row) ==
  /\ \E t \in Tables : row[t] # Null
  /\ row[1] = Null => \E j \in Joins : query.behaviour[j] \in {"RightJoin", "FullJoin"}
  /\ \A j \in Joins :
       /\ row[j] = Null => query.behaviour[j] \in {"LeftJoin", "FullJoin"}
       /\ row[j] # Null /\ row[query.parent[j]] = Null =>
            /\ query.behaviour[j] \in {"RightJoin", "FullJoin"}
            /\ \A t \in 1 .. j - 1 : row[t] = Null

(* Two rows agree on what is at the one side of a relation, and a record   *)
(* that has a match is not returned without one.                           *)
Agree(a, b) ==
  \A j \in Joins : LET p == query.parent[j] IN
    /\ query.type[j] # "OneToMany" /\ a[j] = b[j] /\ a[j] # Null => a[p] = b[p]
    /\ query.type[j] # "ManyToOne" /\ a[p] = b[p] /\ a[p] # Null => a[j] = b[j]
    /\ a[p] = b[p] /\ a[p] # Null /\ a[j] = Null => b[j] = Null

(* Only one object is read for a query of a single object.                 *)
MayFollow(row) ==
  /\ IsRow(row)
  /\ \A i \in DOMAIN rows : Agree(row, rows[i]) /\ Agree(rows[i], row)
  /\ query.single => \A i \in DOMAIN rows : rows[i][1] = row[1]

-----------------------------------------------------------------------------

(* The set of a collection of the single object exists from the start, as  *)
(* does that of a collection the single object itself is added to.         *)
Init ==
  /\ query \in Queries
  /\ phase = "reading"
  /\ rows = <<>>
  /\ isFirstRow = TRUE
  /\ result = <<>>
  /\ last = [t \in Tables |-> None]
  /\ changed = {}
  /\ entities = [t \in Tables |-> {}]
  /\ sets = [c \in Collections |-> [k \in Keys \cup {PrimaryMap} |->
                                      IF k = PrimaryMap THEN {} ELSE None]]
  /\ lastSet = [c \in Collections |-> IF query.single /\ 1 \in {c[1], c[2]} THEN PrimaryMap ELSE None]
  /\ references = [r \in References |-> [k \in Keys |-> None]]
  /\ collections = [c \in Collections |-> [k \in Keys |-> <<>>]]

(* Without joins every row is an object of its own; only one is read for a *)
(* query of a single object.                                               *)
ReadRowWithoutRelations(row) ==
  /\ ~HasRelations
  /\ rows' = Append(rows, row)
  /\ result' = Append(result, row[1])
  /\ phase' = IF query.single THEN "done" ELSE "reading"
  /\ UNCHANGED <<query, isFirstRow, fields, objects>>

(* The first half of the loop's body.                                      *)
FindObjects(row) ==
  LET created == WithOutcome("created", row)
      found == WithOutcome("found", row)
  IN
  /\ HasRelations
  /\ WithOutcome("cast", row) = {}
  /\ \A c \in Collections : ~Collides(c, created, row)
  /\ phase' = "linking"
  /\ rows' = Append(rows, row)
  /\ result' = IF 1 \in created THEN Append(result, row[1]) ELSE result
  /\ last' = [t \in Tables |-> IF t \in created \cup found THEN row[t] ELSE last[t]]
  /\ changed' = created \cup found
  /\ entities' = [t \in Tables |-> IF t \in created THEN entities[t] \cup {row[t]} ELSE entities[t]]
  /\ sets' = [c \in Collections |-> SetsWithNew(c, created, row)]
  /\ lastSet' = [c \in Collections |-> SetInUse(c, created, found, row)]
  /\ UNCHANGED <<query, isFirstRow, objects>>

(* The other half: the objects that are new in this row are linked.        *)
LinkObjects ==
  /\ phase = "linking" /\ LinkFailure = "reading"
  /\ phase' = "reading"
  /\ isFirstRow' = FALSE
  /\ lastSet' = [c \in Collections |-> IF Assigns(c) THEN SetOwner(c) ELSE lastSet[c]]
  /\ sets' = [c \in Collections |->
               IF Assigns(c) THEN [sets[c] EXCEPT ![SetOwner(c)] = @ \cup {last[c[2]]}] ELSE sets[c]]
  /\ collections' = [c \in Collections |->
               IF Adds(c) THEN [collections[c] EXCEPT ![last[c[1]]] = Append(@, last[c[2]])]
                          ELSE collections[c]]
  /\ references' = [r \in References |->
               IF Refers(r) THEN [references[r] EXCEPT ![last[r[1]]] = last[r[2]]] ELSE references[r]]
  /\ UNCHANGED <<query, rows, result, last, changed, entities>>

ClearFields ==
  /\ last' = [t \in Tables |-> None]
  /\ entities' = [t \in Tables |-> {}]
  /\ UNCHANGED <<changed, sets, lastSet>>

(* An exception ends the query, and nothing is returned.                   *)
Throw(exception) ==
  /\ phase' = exception
  /\ result' = <<>>
  /\ ClearFields
  /\ UNCHANGED <<query, isFirstRow, objects>>

(* The key of a table is null that is not checked for it, or a set is      *)
(* already there; which of the two comes first makes no difference.        *)
FindFails(row) ==
  LET created == WithOutcome("created", row) IN
  /\ HasRelations
  /\ \/ WithOutcome("cast", row) # {} /\ Throw("invalidCast")
     \/ (\E c \in Collections : Collides(c, created, row)) /\ Throw("duplicateKey")
  /\ rows' = Append(rows, row)

LinkFails == phase = "linking" /\ LinkFailure # "reading" /\ Throw(LinkFailure) /\ UNCHANGED rows

(* ReadAsync may throw, because the connection is lost or the caller       *)
(* cancels.                                                                *)
ReadFails == phase = "reading" /\ Throw("readFailed") /\ UNCHANGED rows

EndOfRows ==
  /\ phase = "reading"
  /\ phase' = "done"
  /\ ClearFields
  /\ UNCHANGED <<query, rows, isFirstRow, result, objects>>

ReadRow ==
  /\ phase = "reading"
  /\ Len(rows) < MaxRows
  /\ \E row \in [Tables -> Keys \cup {Null}] :
       /\ MayFollow(row)
       /\ ReadRowWithoutRelations(row) \/ FindObjects(row) \/ FindFails(row)

Next == ReadRow \/ LinkObjects \/ LinkFails \/ ReadFails \/ EndOfRows

Spec == Init /\ [][Next]_vars
-----------------------------------------------------------------------------
(* Properties.                                                             *)

Failures == {"invalidCast", "duplicateKey", "nullReference", "keyNotFound"}
Returned == phase \in {"reading", "done"}

(* The variables have the types of the fields they stand for.              *)
TypeOK ==
  /\ query \in Queries
  /\ phase \in {"reading", "linking", "done", "readFailed"} \cup Failures
  /\ isFirstRow \in BOOLEAN /\ changed \subseteq Tables
  /\ ToSet(result) \subseteq Keys
  /\ \A t \in Tables : last[t] \in Keys \cup {None} /\ entities[t] \subseteq Keys
  /\ \A c \in Collections :
       /\ lastSet[c] \in Keys \cup {None, PrimaryMap}
       /\ \A k \in Keys : sets[c][k] = None \/ sets[c][k] \subseteq Keys
       /\ \A k \in Keys : ToSet(collections[c][k]) \subseteq Keys
  /\ \A r \in References : references[r] \in [Keys -> Keys \cup {None}]

(* The reference the merging is measured against: which records of two     *)
(* tables the rows bring together.                                         *)
Linked(t, u) ==
  {<<rows[i][t], rows[i][u]>> : i \in {j \in DOMAIN rows : rows[j][t] # Null /\ rows[j][u] # Null}}

(* Every record of t comes with one of u.                                  *)
AlwaysWith(t, u) == \A i \in DOMAIN rows : rows[i][t] # Null => rows[i][u] # Null

(* No other table has the entity whose objects own the collection c.       *)
OwnerIsUnique(c) == \A t \in Tables : Handles(t, c) => t = c[1]

(* In whatever order the rows come and however often a record is repeated  *)
(* in them, the collection of an object holds exactly the objects it was   *)
(* joined with, each once; this is what the sets, their dictionary and the *)
(* last set are for.                                                       *)
CollectionsMatchRows ==
  Returned =>
    \A c \in Collections :
      AlwaysWith(c[2], c[1]) /\ OwnerIsUnique(c) =>
        \A k \in Keys :
          /\ ToSet(collections[c][k]) = {l \in Keys : <<k, l>> \in Linked(c[1], c[2])}
          /\ Len(collections[c][k]) = Cardinality(ToSet(collections[c][k]))

(* Likewise a reference leads to the object that the record was joined     *)
(* with, of which there is one for its key.                                *)
ReferencesMatchRows ==
  Returned =>
    \A r \in References :
      AlwaysWith(r[1], r[2]) =>
        {<<k, references[r][k]>> : k \in {l \in Keys : references[r][l] # None}} = Linked(r[1], r[2])

(* The objects returned are those of the queried entity, each once, in the *)
(* order in which the rows first mention them; without joins, one for every*)
(* row.                                                                    *)
ResultFollowsRows ==
  Returned =>
    IF ~HasRelations THEN result = [i \in DOMAIN rows |-> rows[i][1]]
    ELSE /\ ToSet(result) = {rows[i][1] : i \in DOMAIN rows} \ {Null}
         /\ \A i, j \in DOMAIN result : \A m \in DOMAIN rows :
              i < j /\ rows[m][1] = result[j] =>
                \E l \in DOMAIN rows : l < m /\ rows[l][1] = result[i]

(* Rows in which every joined record has its partner are merged without an *)
(* exception, and no variable ever leaves its type.                        *)
MatchedRowsAreMerged ==
  /\ TypeOK
  /\ /\ \A c \in Collections : AlwaysWith(c[2], c[1]) /\ OwnerIsUnique(c)
     /\ \A t \in Tables : IsNullChecked(t) \/ \A i \in DOMAIN rows : rows[i][t] # Null
     => phase \notin Failures

(* "Returns all records from the left table, and the matched records from  *)
(* the right table" (Enums/JoinBehaviour.cs): a record is never given one  *)
(* that no row matched it with.                                            *)
OnlyMatchedRecords ==
  Returned =>
    \A r \in References : \A k \in Keys :
      references[r][k] # None => <<k, references[r][k]>> \in Linked(r[1], r[2])
=============================================================================

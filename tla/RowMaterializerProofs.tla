------------------------- MODULE RowMaterializerProofs -------------------------
(***************************************************************************)
(* Proofs about RowMaterializer, for every set of queries of any shape, any*)
(* keys and any number of rows: the collections and references that the    *)
(* generated materializer leaves are those of the rows, in whatever order  *)
(* these come, the result lists the queried objects as the rows mention    *)
(* them, and rows with a partner for every record are merged without an    *)
(* exception.                                                              *)
(***************************************************************************)
EXTENDS RowMaterializer, FiniteSetTheorems, TLAPS

RowSet == [Tables -> Keys \cup {Null}]

Working == phase \in {"reading", "linking"}
Merged == phase \in {"reading", "linking", "done"}

(* The objects of the last row may not be linked yet.                      *)
LinkedRows == IF phase = "linking" THEN Len(rows) - 1 ELSE Len(rows)

Seen(t) == {k \in Keys : \E i \in 1 .. Len(rows) : rows[i][t] = k}

(* What the linked rows put into the collection c of the object k.         *)
LinkedTo(c, k) ==
  {l \in Keys : \E i \in 1 .. LinkedRows : rows[i][c[1]] = k /\ rows[i][c[2]] = l}

Fits(c) == AlwaysWith(c[2], c[1]) /\ OwnerIsUnique(c)

(* The collections whose sets are found by their owner: all but those of   *)
(* the single object and those that contain it.                            *)
KeptByOwner(c) == query.single => c[1] # 1 /\ c[2] # 1

FieldTypes ==
  /\ query \in Queries
  /\ phase \in {"reading", "linking", "done", "readFailed"} \cup Failures
  /\ rows \in Seq(RowSet)
  /\ isFirstRow \in BOOLEAN /\ changed \subseteq Tables
  /\ result \in Seq(Keys)
  /\ last \in [Tables -> Keys \cup {None}]
  /\ entities \in [Tables -> SUBSET Keys]
  /\ sets \in [Collections -> [Keys \cup {PrimaryMap} -> {None} \cup SUBSET Keys]]
  /\ \A c \in Collections : sets[c][PrimaryMap] # None
  /\ lastSet \in [Collections -> Keys \cup {None, PrimaryMap}]
  /\ references \in [References -> [Keys -> Keys \cup {None}]]
  /\ collections \in [Collections -> [Keys -> Seq(Keys)]]

(* The rows are those of one query: they agree with each other, and those  *)
(* of a single object all have it.                                         *)
RowsFit ==
  /\ \A i, j \in 1 .. Len(rows) : Agree(rows[i], rows[j])
  /\ ~HasRelations => \A i \in 1 .. Len(rows) : rows[i][1] # Null
  /\ query.single => \A i, j \in 1 .. Len(rows) : rows[i][1] = rows[j][1]
  /\ query.single /\ Working => \A i \in 1 .. Len(rows) : rows[i][1] # Null

(* The dictionaries have the objects of all rows, and the last object of a *)
(* table is one of them.                                                   *)
FieldsFollow ==
  Working /\ HasRelations =>
    /\ isFirstRow <=> LinkedRows = 0
    /\ \A t \in Tables :
         /\ entities[t] = Seen(t)
         /\ last[t] \in Seen(t) \cup {None}
         /\ last[t] = None => Seen(t) = {}

(* Before the objects of a row are linked, the last objects are its own,   *)
(* and what has not changed was in an earlier row.                         *)
LastRowFound ==
  phase = "linking" =>
    /\ HasRelations /\ rows # <<>>
    /\ \A t \in Tables :
         /\ rows[Len(rows)][t] # Null => last[t] = rows[Len(rows)][t]
         /\ t \in changed => rows[Len(rows)][t] # Null
         /\ rows[Len(rows)][t] # Null /\ t \notin changed =>
              \E i \in 1 .. Len(rows) - 1 : rows[i][t] = rows[Len(rows)][t]

(* A set holds what the linked rows put into the collection, and the set   *)
(* in use is that of the last owner.                                       *)
OwnedSet(c) ==
  /\ lastSet[c] \in {None, last[c[1]]}
  /\ \A k \in Keys : sets[c][k] = IF k \in Seen(c[1]) THEN LinkedTo(c, k) ELSE None

PrimarySet(c) ==
  /\ lastSet[c] = PrimaryMap
  /\ Seen(1) = {} => sets[c][PrimaryMap] = {}
  /\ \A k \in Seen(1) : sets[c][PrimaryMap] = LinkedTo(c, k)

MemberSet(c) == isFirstRow => lastSet[c] = PrimaryMap /\ sets[c][PrimaryMap] = {}

SetsFollow ==
  Working =>
    \A c \in Collections : Fits(c) =>
      /\ KeptByOwner(c) => OwnedSet(c)
      /\ query.single /\ c[1] = 1 => PrimarySet(c)
      /\ query.single /\ c[2] = 1 => MemberSet(c)

Distinct(s) == IsFiniteSet(ToSet(s)) /\ Len(s) = Cardinality(ToSet(s))

CollectionsFollow ==
  Merged =>
    \A c \in Collections : Fits(c) =>
      \A k \in Keys : ToSet(collections[c][k]) = LinkedTo(c, k) /\ Distinct(collections[c][k])

ReferencesFollow ==
  Merged =>
    \A r \in References : AlwaysWith(r[1], r[2]) =>
      /\ \A i \in 1 .. LinkedRows : rows[i][r[1]] # Null => references[r][rows[i][r[1]]] = rows[i][r[2]]
      /\ \A k \in Keys : references[r][k] # None => \E i \in 1 .. LinkedRows : rows[i][r[1]] = k

(* The result is in the order of the rows, while it grows as well.         *)
OrderedBy(s, rs) ==
  \A i, j \in DOMAIN s : \A m \in DOMAIN rs :
    i < j /\ rs[m][1] = s[j] => \E l \in DOMAIN rs : l < m /\ rs[l][1] = s[i]
InOrder == OrderedBy(result, rows)

ResultFollows ==
  Merged =>
    IF ~HasRelations THEN result = [i \in DOMAIN rows |-> rows[i][1]]
    ELSE ToSet(result) = Seen(1) /\ InOrder

(* No exception is thrown unless a partner or a null check is missing.     *)
AllMatched ==
  /\ \A c \in Collections : Fits(c)
  /\ \A t \in Tables : IsNullChecked(t) \/ \A i \in DOMAIN rows : rows[i][t] # Null

FailuresHaveCause == AllMatched => phase \notin Failures

RowInv ==
  /\ FieldTypes
  /\ RowsFit
  /\ FieldsFollow
  /\ LastRowFound
  /\ SetsFollow
  /\ CollectionsFollow
  /\ ReferencesFollow
  /\ ResultFollows
  /\ FailuresHaveCause

-----------------------------------------------------------------------------
(* The shape of a query.                                                   *)

LEMMA QueryShape ==
  ASSUME query \in Queries
  PROVE  /\ query.single \in BOOLEAN
         /\ \E n \in Nat \ {0} :
              /\ Tables = 1 .. n /\ Joins = 2 .. n
              /\ query.parent \in [2 .. n -> 1 .. n] /\ \A j \in 2 .. n : query.parent[j] < j
              /\ query.type \in [2 .. n -> Types]
              /\ query.inverse \in [2 .. n -> BOOLEAN]
<1>1. PICK q \in Queries : q = query
  OBVIOUS
<1>2. q.entity \in Seq(ToSet(q.entity))
  BY QueriesAssumption
<1>3. PICK n : n = Len(q.entity)
  OBVIOUS
<1>4. n \in Nat /\ DOMAIN q.entity = 1 .. n
  BY <1>2, <1>3
<1>5. /\ q.single \in BOOLEAN /\ n > 0
      /\ q.parent \in [2 .. n -> 1 .. n] /\ \A j \in 2 .. n : q.parent[j] < j
      /\ q.type \in [2 .. n -> Types]
      /\ q.inverse \in [2 .. n -> BOOLEAN]
  BY <1>3, QueriesAssumption
<1>6. Tables = 1 .. n /\ Joins = 2 .. n
  BY <1>1, <1>4 DEF Tables, Joins
<1> QED
  BY <1>1, <1>4, <1>5, <1>6

LEMMA FirstTable ==
  ASSUME query \in Queries
  PROVE  1 \in Tables /\ Tables \subseteq Nat /\ (~HasRelations => Tables = {1})
BY QueryShape DEF HasRelations, Joins

(* A collection connects two tables, and its members have one owner.       *)
LEMMA CollectionShape ==
  ASSUME query \in Queries, NEW c \in Collections
  PROVE  /\ c[1] \in Tables /\ c[2] \in Tables /\ c[1] # c[2]
         /\ RequiresChangedLocal(c[1]) /\ HasRelations
         /\ \A a, b : Agree(a, b) /\ a[c[2]] = b[c[2]] /\ a[c[2]] # Null => a[c[1]] = b[c[1]]
<1>1. PICK n \in Nat \ {0} :
              /\ Tables = 1 .. n /\ Joins = 2 .. n
              /\ query.parent \in [2 .. n -> 1 .. n] /\ \A j \in 2 .. n : query.parent[j] < j
  BY QueryShape
<1>2. CASE \E j \in Joins : query.type[j] = "ManyToOne" /\ c = <<query.parent[j], j>>
  <2>1. PICK j \in Joins : query.type[j] = "ManyToOne" /\ c = <<query.parent[j], j>>
    BY <1>2
  <2>2. c[1] = query.parent[j] /\ c[2] = j /\ query.parent[j] \in Tables /\ query.parent[j] # j
    BY <1>1, <2>1
  <2>3. RequiresChangedLocal(c[1]) /\ HasRelations
    BY <2>2 DEF RequiresChangedLocal, HasRelations
  <2>4. ASSUME NEW a, NEW b, Agree(a, b), a[j] = b[j], a[j] # Null
        PROVE  a[query.parent[j]] = b[query.parent[j]]
    BY <2>1, <2>4 DEF Agree
  <2> QED
    BY <2>2, <2>3, <2>4, <1>1
<1>3. CASE \E j \in Joins : query.inverse[j] /\ query.type[j] = "OneToMany" /\ c = <<j, query.parent[j]>>
  <2>1. PICK j \in Joins : query.inverse[j] /\ query.type[j] = "OneToMany" /\ c = <<j, query.parent[j]>>
    BY <1>3
  <2>2. c[2] = query.parent[j] /\ c[1] = j /\ query.parent[j] \in Tables /\ query.parent[j] # j
    BY <1>1, <2>1
  <2>3. RequiresChangedLocal(c[1]) /\ HasRelations
    BY <2>1, <2>2 DEF RequiresChangedLocal, HasRelations
  <2>4. ASSUME NEW a, NEW b, Agree(a, b), a[query.parent[j]] = b[query.parent[j]], a[query.parent[j]] # Null
        PROVE  a[j] = b[j]
    BY <2>1, <2>4 DEF Agree
  <2> QED
    BY <2>2, <2>3, <2>4, <1>1
<1> QED
  BY <1>2, <1>3 DEF Collections

(* A reference connects two tables, and leads to one record.               *)
LEMMA ReferenceShape ==
  ASSUME query \in Queries, NEW r \in References
  PROVE  /\ r[1] \in Tables /\ r[2] \in Tables /\ HasRelations
         /\ \A a, b : Agree(a, b) /\ a[r[1]] = b[r[1]] /\ a[r[1]] # Null => a[r[2]] = b[r[2]]
<1>1. PICK n \in Nat \ {0} :
              /\ Tables = 1 .. n /\ Joins = 2 .. n
              /\ query.parent \in [2 .. n -> 1 .. n] /\ \A j \in 2 .. n : query.parent[j] < j
  BY QueryShape
<1>2. CASE \E j \in Joins : query.type[j] # "ManyToOne" /\ r = <<query.parent[j], j>>
  <2>1. PICK j \in Joins : query.type[j] # "ManyToOne" /\ r = <<query.parent[j], j>>
    BY <1>2
  <2>2. r[1] = query.parent[j] /\ r[2] = j /\ query.parent[j] \in Tables /\ HasRelations
    BY <1>1, <2>1 DEF HasRelations
  <2>3. ASSUME NEW a, NEW b, Agree(a, b), a[query.parent[j]] = b[query.parent[j]], a[query.parent[j]] # Null
        PROVE  a[j] = b[j]
    BY <2>1, <2>3 DEF Agree
  <2> QED
    BY <2>2, <2>3, <1>1
<1>3. CASE \E j \in Joins : query.inverse[j] /\ query.type[j] # "OneToMany" /\ r = <<j, query.parent[j]>>
  <2>1. PICK j \in Joins : query.inverse[j] /\ query.type[j] # "OneToMany" /\ r = <<j, query.parent[j]>>
    BY <1>3
  <2>2. r[2] = query.parent[j] /\ r[1] = j /\ query.parent[j] \in Tables /\ HasRelations
    BY <1>1, <2>1 DEF HasRelations
  <2>3. ASSUME NEW a, NEW b, Agree(a, b), a[j] = b[j], a[j] # Null
        PROVE  a[query.parent[j]] = b[query.parent[j]]
    BY <2>1, <2>3 DEF Agree
  <2> QED
    BY <2>2, <2>3, <1>1
<1> QED
  BY <1>2, <1>3 DEF References

(* The query stays what it is.                                             *)
LEMMA SameQuery ==
  ASSUME query' = query
  PROVE  /\ Tables' = Tables /\ Joins' = Joins /\ HasRelations' = HasRelations
         /\ Collections' = Collections /\ References' = References
         /\ RowSet' = RowSet
         /\ \A t : IsNullChecked(t)' = IsNullChecked(t)
         /\ \A c : OwnerIsUnique(c)' = OwnerIsUnique(c)
         /\ \A c : KeptByOwner(c)' = KeptByOwner(c)
         /\ \A a, b : Agree(a, b)' = Agree(a, b)
<1>1. Tables' = Tables
  BY DEF Tables
<1>2. Joins' = Joins
  BY <1>1 DEF Joins
<1>3. HasRelations' = HasRelations
  BY <1>2 DEF HasRelations
<1>4. Collections' = Collections
  BY <1>2 DEF Collections
<1>5. References' = References
  BY <1>2 DEF References
<1>6. RowSet' = RowSet
  BY <1>1 DEF RowSet
<1>7. ASSUME NEW t
      PROVE  IsNullChecked(t)' = IsNullChecked(t)
  BY <1>2 DEF IsNullChecked, RequiresDBNullCheck
<1>8. ASSUME NEW c
      PROVE  OwnerIsUnique(c)' = OwnerIsUnique(c)
  BY <1>1 DEF OwnerIsUnique, Handles
<1>9. ASSUME NEW c
      PROVE  KeptByOwner(c)' = KeptByOwner(c)
  BY DEF KeptByOwner
<1>10. ASSUME NEW a, NEW b
       PROVE  Agree(a, b)' = Agree(a, b)
  BY <1>2 DEF Agree
<1> QED
  BY <1>1, <1>2, <1>3, <1>4, <1>5, <1>6, <1>7, <1>8, <1>9, <1>10

-----------------------------------------------------------------------------
(* Rows.                                                                   *)

LEMMA SeenKeys ==
  ASSUME FieldTypes, NEW t
  PROVE  /\ Seen(t) \subseteq Keys
         /\ \A k \in Keys : k \in Seen(t) <=> \E i \in 1 .. Len(rows) : rows[i][t] = k
         /\ Null \notin Keys /\ None \notin Keys /\ PrimaryMap \notin Keys
BY QueriesAssumption DEF Seen

LEMMA RowKeys ==
  ASSUME FieldTypes
  PROVE  /\ Len(rows) \in Nat /\ DOMAIN rows = 1 .. Len(rows)
         /\ \A i \in 1 .. Len(rows) : rows[i] \in RowSet /\ \A t \in Tables : rows[i][t] \in Keys \cup {Null}
<1>1. Len(rows) \in Nat /\ DOMAIN rows = 1 .. Len(rows) /\ \A i \in 1 .. Len(rows) : rows[i] \in RowSet
  BY DEF FieldTypes
<1> QED
  BY <1>1 DEF RowSet

(* What the four ways to find an object say about the rows so far.         *)
LEMMA Outcomes ==
  ASSUME FieldTypes, RowsFit, FieldsFollow, phase = "reading", HasRelations,
         NEW row \in RowSet, MayFollow(row), WithOutcome("cast", row) = {}
  PROVE  /\ \A t \in WithOutcome("created", row) : row[t] \in Keys /\ row[t] \notin Seen(t)
         /\ \A t \in WithOutcome("found", row) : row[t] \in Keys /\ row[t] \in Seen(t)
         /\ \A t \in Tables \ (WithOutcome("created", row) \cup WithOutcome("found", row)) :
              row[t] # Null => last[t] = row[t] /\ row[t] \in Seen(t)
         /\ query.single => row[1] # Null
<1>1. /\ 1 \in Tables /\ \A t \in Tables : row[t] \in Keys \cup {Null}
      /\ Null \notin Keys /\ None \notin Keys
  BY FirstTable, SeenKeys DEF FieldTypes, RowSet
<1>2. /\ isFirstRow <=> Len(rows) = 0
      /\ \A t \in Tables : entities[t] = Seen(t) /\ last[t] \in Seen(t) \cup {None}
      /\ \A t \in Tables : last[t] = None => Seen(t) = {}
  BY DEF FieldsFollow, Working, LinkedRows
<1>3. \A t \in Tables : Seen(t) \subseteq Keys
  BY SeenKeys
<1>4. ASSUME query.single, ~isFirstRow
      PROVE  row[1] \in Keys /\ row[1] \in Seen(1) /\ last[1] = row[1]
  <2>1. Len(rows) \in Nat \ {0} /\ DOMAIN rows = 1 .. Len(rows)
    BY <1>2, <1>4, RowKeys
  <2>2. \A i \in 1 .. Len(rows) : rows[i][1] = row[1] /\ rows[i][1] # Null
    BY <1>4, <2>1 DEF MayFollow, RowsFit, Working
  <2>3. row[1] \in Keys
    BY <1>1, <2>1, <2>2
  <2>4. Seen(1) = {row[1]}
    BY <2>1, <2>2, <2>3, SeenKeys
  <2>5. last[1] \in Seen(1) \cup {None} /\ (last[1] = None => Seen(1) = {})
    BY <1>1, <1>2
  <2> QED
    BY <2>3, <2>4, <2>5
<1>5. \A t \in Tables : Outcome(t, row) # "cast"
  BY DEF WithOutcome
<1>6. query.single => row[1] # Null
  <2> SUFFICES ASSUME query.single
               PROVE  row[1] # Null
    OBVIOUS
  <2>1. CASE ~isFirstRow
    BY <1>1, <1>4, <2>1
  <2>2. CASE isFirstRow
    BY <1>1, <1>5, <2>2 DEF Outcome, IsNullChecked
  <2> QED
    BY <2>1, <2>2
<1>7. ASSUME NEW t \in Tables, Outcome(t, row) = "created"
      PROVE  row[t] \in Keys /\ row[t] \notin Seen(t)
  <2>1. row[t] # Null /\ ~(last[t] # None /\ row[t] \in entities[t])
    BY <1>7 DEF Outcome
  <2>2. entities[t] = Seen(t) /\ (last[t] = None => Seen(t) = {})
    BY <1>2
  <2> QED
    BY <1>1, <2>1, <2>2
<1>8. ASSUME NEW t \in Tables, Outcome(t, row) = "found"
      PROVE  row[t] \in Keys /\ row[t] \in Seen(t)
  BY <1>1, <1>2, <1>8 DEF Outcome
<1>9. ASSUME NEW t \in Tables, row[t] # Null, Outcome(t, row) # "created", Outcome(t, row) # "found"
      PROVE  last[t] = row[t] /\ row[t] \in Seen(t)
  <2>1. CASE query.single /\ t = 1 /\ ~isFirstRow
    BY <1>4, <2>1
  <2>2. CASE ~(query.single /\ t = 1 /\ ~isFirstRow)
    <3>1. last[t] = row[t]
      BY <1>9, <2>2 DEF Outcome
    <3>2. last[t] \in Seen(t) \cup {None}
      BY <1>2
    <3> QED
      BY <1>1, <1>9, <3>1, <3>2
  <2> QED
    BY <2>1, <2>2
<1> QED
  BY <1>6, <1>7, <1>8, <1>9 DEF WithOutcome

(* The reading of another row: what FindObjects, FindFails and the reading *)
(* of a row without relations have in common.                              *)
LEMMA NextRow ==
  ASSUME FieldTypes, NEW row \in RowSet
  PROVE  /\ Append(rows, row) \in Seq(RowSet)
         /\ Len(Append(rows, row)) = Len(rows) + 1 /\ Len(rows) \in Nat
         /\ \A i \in 1 .. Len(rows) : Append(rows, row)[i] = rows[i]
         /\ Append(rows, row)[Len(rows) + 1] = row
         /\ DOMAIN Append(rows, row) = 1 .. Len(rows) + 1
<1>1. PICK s \in Seq(RowSet) : s = rows
  BY DEF FieldTypes
<1>2. /\ Append(s, row) \in Seq(RowSet)
      /\ Len(Append(s, row)) = Len(s) + 1 /\ Len(s) \in Nat
      /\ \A i \in 1 .. Len(s) : Append(s, row)[i] = s[i]
      /\ Append(s, row)[Len(s) + 1] = row
      /\ DOMAIN Append(s, row) = 1 .. Len(s) + 1
  OBVIOUS
<1> QED
  BY <1>1, <1>2

LEMMA MoreSeen ==
  ASSUME FieldTypes, NEW row \in RowSet, rows' = Append(rows, row), query' = query, NEW t \in Tables
  PROVE  /\ row[t] # Null => row[t] \in Keys /\ Seen(t)' = Seen(t) \cup {row[t]}
         /\ row[t] = Null => Seen(t)' = Seen(t)
<1>1. /\ Len(rows') = Len(rows) + 1 /\ Len(rows) \in Nat
      /\ \A i \in 1 .. Len(rows) : rows'[i] = rows[i]
      /\ rows'[Len(rows) + 1] = row
  BY NextRow
<1>2. row[t] \in Keys \cup {Null} /\ Null \notin Keys
  BY SeenKeys DEF RowSet
<1>3. ASSUME NEW k \in Keys
      PROVE  (\E i \in 1 .. Len(rows') : rows'[i][t] = k) <=> (row[t] = k \/ \E i \in 1 .. Len(rows) : rows[i][t] = k)
  <2>1. PICK n \in Nat : n = Len(rows) /\ Len(rows') = n + 1
    BY <1>1
  <2> QED
    BY <1>1, <2>1
<1>4. Seen(t) = {k \in Keys : \E i \in 1 .. Len(rows) : rows[i][t] = k}
  BY DEF Seen
<1>5. Seen(t)' = {k \in Keys : \E i \in 1 .. Len(rows') : rows'[i][t] = k}
  BY DEF Seen
<1> QED
  BY <1>2, <1>3, <1>4, <1>5

LEMMA StillAgree ==
  ASSUME FieldTypes, RowsFit, NEW row \in RowSet, MayFollow(row), rows' = Append(rows, row), query' = query
  PROVE  /\ \A i, j \in 1 .. Len(rows') : Agree(rows'[i], rows'[j])
         /\ ~HasRelations => \A i \in 1 .. Len(rows') : rows'[i][1] # Null
         /\ query.single => \A i, j \in 1 .. Len(rows') : rows'[i][1] = rows'[j][1]
<1>1. PICK n \in Nat : n = Len(rows) /\ Len(rows') = n + 1 /\ DOMAIN rows = 1 .. n
  BY NextRow, RowKeys
<1>2. /\ \A i \in 1 .. n : rows'[i] = rows[i]
      /\ rows'[n + 1] = row
  BY <1>1, NextRow
<1>3. \A i \in 1 .. n : Agree(row, rows[i]) /\ Agree(rows[i], row)
  BY <1>1 DEF MayFollow
<1>4. Agree(row, row)
  BY DEF Agree
<1>5. ASSUME NEW i \in 1 .. n + 1, NEW j \in 1 .. n + 1
      PROVE  Agree(rows'[i], rows'[j])
  <2>1. CASE i \in 1 .. n /\ j \in 1 .. n
    BY <1>1, <1>2, <2>1 DEF RowsFit
  <2>2. CASE i \in 1 .. n /\ j = n + 1
    BY <1>2, <1>3, <2>2
  <2>3. CASE i = n + 1 /\ j \in 1 .. n
    BY <1>2, <1>3, <2>3
  <2>4. CASE i = n + 1 /\ j = n + 1
    BY <1>2, <1>4, <2>4
  <2> QED
    BY <1>1, <2>1, <2>2, <2>3, <2>4
<1>6. ASSUME ~HasRelations, NEW i \in 1 .. n + 1
      PROVE  rows'[i][1] # Null
  <2>1. Tables = {1}
    BY <1>6, FirstTable DEF FieldTypes
  <2>2. row[1] # Null
    BY <2>1 DEF MayFollow, IsRow
  <2>3. \A l \in 1 .. n : rows[l][1] # Null
    BY <1>1, <1>6 DEF RowsFit
  <2> QED
    BY <1>1, <1>2, <2>2, <2>3
<1>7. ASSUME query.single, NEW i \in 1 .. n + 1, NEW j \in 1 .. n + 1
      PROVE  rows'[i][1] = rows'[j][1]
  <2>1. \A l \in 1 .. n : rows[l][1] = row[1]
    BY <1>1, <1>7 DEF MayFollow
  <2>2. \A l \in 1 .. n + 1 : rows'[l][1] = row[1]
    BY <1>1, <1>2, <2>1
  <2> QED
    BY <2>2
<1> QED
  BY <1>1, <1>5, <1>6, <1>7

(* A condition on all rows held of the earlier ones.                       *)
LEMMA FittedBefore ==
  ASSUME FieldTypes, NEW row \in RowSet, rows' = Append(rows, row), query' = query
  PROVE  /\ \A t, u : AlwaysWith(t, u)' => AlwaysWith(t, u) /\ (row[t] # Null => row[u] # Null)
         /\ \A c : Fits(c)' => Fits(c) /\ (row[c[2]] # Null => row[c[1]] # Null)
<1>1. PICK n \in Nat : n = Len(rows) /\ DOMAIN rows' = 1 .. n + 1 /\ DOMAIN rows = 1 .. n
  BY NextRow, RowKeys
<1>2. (\A i \in 1 .. n : rows'[i] = rows[i]) /\ rows'[n + 1] = row
  BY <1>1, NextRow
<1>3. ASSUME NEW t, NEW u, AlwaysWith(t, u)'
      PROVE  AlwaysWith(t, u) /\ (row[t] # Null => row[u] # Null)
  <2>1. \A i \in 1 .. n + 1 : rows'[i][t] # Null => rows'[i][u] # Null
    BY <1>1, <1>3 DEF AlwaysWith
  <2>2. n + 1 \in 1 .. n + 1
    BY <1>1
  <2>3. \A i \in 1 .. n : rows[i][t] # Null => rows[i][u] # Null
    BY <1>1, <1>2, <2>1
  <2>4. row[t] # Null => row[u] # Null
    BY <1>2, <2>1, <2>2
  <2> QED
    BY <1>1, <2>3, <2>4 DEF AlwaysWith
<1>4. ASSUME NEW c, Fits(c)'
      PROVE  Fits(c) /\ (row[c[2]] # Null => row[c[1]] # Null)
  <2>1. AlwaysWith(c[2], c[1])' /\ OwnerIsUnique(c)'
    BY <1>4 DEF Fits
  <2>2. OwnerIsUnique(c)' = OwnerIsUnique(c)
    BY SameQuery
  <2>3. AlwaysWith(c[2], c[1]) /\ (row[c[2]] # Null => row[c[1]] # Null)
    BY <1>3, <2>1
  <2> QED
    BY <2>1, <2>2, <2>3 DEF Fits
<1> QED
  BY <1>3, <1>4

(* Where the rows stay, so do the conditions on them.                      *)
LEMMA SameRows ==
  ASSUME UNCHANGED <<query, rows>>
  PROVE  /\ \A t : Seen(t)' = Seen(t)
         /\ \A t, u : AlwaysWith(t, u)' = AlwaysWith(t, u)
         /\ \A c : Fits(c)' = Fits(c)
<1>1. \A t : Seen(t)' = Seen(t)
  BY DEF Seen
<1>2. \A t, u : AlwaysWith(t, u)' = AlwaysWith(t, u)
  BY DEF AlwaysWith
<1>3. \A c : OwnerIsUnique(c)' = OwnerIsUnique(c)
  BY SameQuery
<1>4. ASSUME NEW c
      PROVE  Fits(c)' = Fits(c)
  BY <1>2, <1>3 DEF Fits
<1> QED
  BY <1>1, <1>2, <1>4

(* What is linked changes when the objects of a row are, and not before.   *)
LEMMA FoundNotLinked ==
  ASSUME FieldTypes, phase = "reading", phase' = "linking",
         NEW row \in RowSet, rows' = Append(rows, row), query' = query
  PROVE  /\ LinkedRows = Len(rows) /\ LinkedRows' = Len(rows) /\ Len(rows) \in Nat
         /\ \A i \in 1 .. Len(rows) : rows'[i] = rows[i]
         /\ \A c, k : LinkedTo(c, k)' = LinkedTo(c, k)
<1>1. PICK n \in Nat : n = Len(rows) /\ Len(rows') = n + 1
  BY NextRow
<1>2. \A i \in 1 .. n : rows'[i] = rows[i]
  BY <1>1, NextRow
<1>3. LinkedRows = n
  BY <1>1 DEF LinkedRows
<1>4. LinkedRows' = n
  BY <1>1 DEF LinkedRows
<1>5. ASSUME NEW c, NEW k
      PROVE  LinkedTo(c, k)' = LinkedTo(c, k)
  BY <1>2, <1>3, <1>4 DEF LinkedTo
<1> QED
  BY <1>1, <1>2, <1>3, <1>4, <1>5

-----------------------------------------------------------------------------
(* The initial states.                                                     *)

LEMMA InitRowInv ==
  ASSUME Init
  PROVE  RowInv
<1>0. query \in Queries /\ phase = "reading" /\ rows = <<>> /\ result = <<>> /\ isFirstRow /\ changed = {}
  BY DEF Init
<1>1. Len(rows) = 0 /\ DOMAIN rows = {} /\ rows \in Seq(RowSet) /\ result \in Seq(Keys) /\ DOMAIN result = {}
  BY <1>0
<1>2. LinkedRows = 0
  BY <1>0, <1>1 DEF LinkedRows
<1>3. \A t : Seen(t) = {}
  BY <1>1 DEF Seen
<1>4. \A c, k : LinkedTo(c, k) = {}
  BY <1>2 DEF LinkedTo
<1>5. None \notin Keys /\ PrimaryMap \notin Keys /\ None # PrimaryMap /\ \A s \in SUBSET Keys : s # None
  BY QueriesAssumption
<1>6. FieldTypes
  <2>1. last \in [Tables -> Keys \cup {None}]
    BY DEF Init
  <2>2. entities \in [Tables -> SUBSET Keys]
    BY DEF Init
  <2>3. sets \in [Collections -> [Keys \cup {PrimaryMap} -> {None} \cup SUBSET Keys]]
    BY DEF Init
  <2>4. \A c \in Collections : sets[c][PrimaryMap] # None
    BY <1>5 DEF Init
  <2>5. lastSet \in [Collections -> Keys \cup {None, PrimaryMap}]
    BY DEF Init
  <2>6. references \in [References -> [Keys -> Keys \cup {None}]]
    BY DEF Init
  <2>7. collections \in [Collections -> [Keys -> Seq(Keys)]]
    BY DEF Init
  <2> QED
    BY <1>0, <1>1, <2>1, <2>2, <2>3, <2>4, <2>5, <2>6, <2>7 DEF FieldTypes
<1>7. RowsFit
  BY <1>1 DEF RowsFit
<1>8. FieldsFollow
  BY <1>0, <1>2, <1>3 DEF FieldsFollow, Init
<1>9. LastRowFound
  BY <1>0 DEF LastRowFound
<1>10. SetsFollow
  <2> SUFFICES ASSUME NEW c \in Collections
               PROVE  /\ KeptByOwner(c) => OwnedSet(c)
                      /\ query.single /\ c[1] = 1 => PrimarySet(c)
                      /\ query.single /\ c[2] = 1 => MemberSet(c)
    BY DEF SetsFollow
  <2>1. /\ lastSet[c] = IF query.single /\ 1 \in {c[1], c[2]} THEN PrimaryMap ELSE None
        /\ \A k \in Keys : sets[c][k] = None
        /\ sets[c][PrimaryMap] = {}
    BY <1>5 DEF Init
  <2>2. ASSUME KeptByOwner(c)
        PROVE  OwnedSet(c)
    <3>1. lastSet[c] = None
      BY <2>1, <2>2 DEF KeptByOwner
    <3> QED
      BY <1>3, <2>1, <3>1 DEF OwnedSet
  <2>3. ASSUME query.single, c[1] = 1
        PROVE  PrimarySet(c)
    BY <1>3, <2>1, <2>3 DEF PrimarySet
  <2>4. ASSUME query.single, c[2] = 1
        PROVE  MemberSet(c)
    BY <2>1, <2>4 DEF MemberSet
  <2> QED
    BY <2>2, <2>3, <2>4
<1>11. CollectionsFollow
  <2>1. \A c \in Collections : \A k \in Keys : collections[c][k] = <<>>
    BY DEF Init
  <2>2. ToSet(<<>>) = {} /\ Len(<<>>) = 0
    BY DEF ToSet
  <2>3. Distinct(<<>>)
    BY <2>2, FS_EmptySet DEF Distinct
  <2> QED
    BY <1>4, <2>1, <2>2, <2>3 DEF CollectionsFollow
<1>12. ReferencesFollow
  <2>1. \A r \in References : \A k \in Keys : references[r][k] = None
    BY DEF Init
  <2> QED
    BY <1>2, <2>1 DEF ReferencesFollow
<1>13. ResultFollows
  <2>1. ToSet(result) = {} /\ InOrder
    BY <1>0, <1>1 DEF ToSet, InOrder, OrderedBy
  <2>2. result = [i \in DOMAIN rows |-> rows[i][1]]
    BY <1>0, <1>1
  <2> QED
    BY <1>3, <2>1, <2>2 DEF ResultFollows
<1>14. FailuresHaveCause
  BY <1>0 DEF FailuresHaveCause, Failures
<1> QED
  BY <1>6, <1>7, <1>8, <1>9, <1>10, <1>11, <1>12, <1>13, <1>14 DEF RowInv

-----------------------------------------------------------------------------
(* Finding the objects of a row.                                           *)

Finding(row) == phase = "reading" /\ row \in RowSet /\ MayFollow(row) /\ FindObjects(row)

LEMMA FindTypes ==
  ASSUME RowInv, NEW row, Finding(row)
  PROVE  FieldTypes'
<1>1. FieldTypes /\ RowsFit /\ FieldsFollow
  BY DEF RowInv
<1>2. /\ phase = "reading" /\ row \in RowSet /\ MayFollow(row) /\ HasRelations
      /\ WithOutcome("cast", row) = {} /\ query' = query /\ rows' = Append(rows, row)
      /\ phase' = "linking"
  BY DEF Finding, FindObjects
<1>3. PICK C : C = WithOutcome("created", row)
  OBVIOUS
<1>4. PICK F : F = WithOutcome("found", row)
  OBVIOUS
<1>5. /\ C \subseteq Tables /\ F \subseteq Tables
      /\ \A t \in C : row[t] \in Keys
      /\ \A t \in F : row[t] \in Keys
  BY <1>1, <1>2, <1>3, <1>4, Outcomes DEF WithOutcome
<1>6. /\ Tables' = Tables /\ Collections' = Collections /\ References' = References /\ RowSet' = RowSet
  BY <1>2, SameQuery
<1>7. rows' \in Seq(RowSet')
  BY <1>1, <1>2, <1>6, NextRow
<1>8. result' \in Seq(Keys)
  <2>1. result' = IF 1 \in C THEN Append(result, row[1]) ELSE result
    BY <1>3 DEF Finding, FindObjects
  <2>2. result \in Seq(Keys)
    BY <1>1 DEF FieldTypes
  <2>3. CASE 1 \in C
    <3>1. PICK k \in Keys : k = row[1]
      BY <1>5, <2>3
    <3> QED
      BY <2>1, <2>2, <2>3, <3>1
  <2> QED
    BY <2>1, <2>2, <2>3
<1>9. last' \in [Tables -> Keys \cup {None}]
  <2>1. last' = [t \in Tables |-> IF t \in C \cup F THEN row[t] ELSE last[t]]
    BY <1>3, <1>4 DEF Finding, FindObjects
  <2>2. last \in [Tables -> Keys \cup {None}]
    BY <1>1 DEF FieldTypes
  <2> QED
    BY <1>5, <2>1, <2>2
<1>10. entities' \in [Tables -> SUBSET Keys]
  <2>1. entities' = [t \in Tables |-> IF t \in C THEN entities[t] \cup {row[t]} ELSE entities[t]]
    BY <1>3 DEF Finding, FindObjects
  <2>2. entities \in [Tables -> SUBSET Keys]
    BY <1>1 DEF FieldTypes
  <2> QED
    BY <1>5, <2>1, <2>2
<1>11. /\ sets' \in [Collections -> [Keys \cup {PrimaryMap} -> {None} \cup SUBSET Keys]]
       /\ \A c \in Collections : sets'[c][PrimaryMap] # None
  <2>1. sets' = [c \in Collections |-> SetsWithNew(c, C, row)]
    BY <1>3 DEF Finding, FindObjects
  <2>2. /\ sets \in [Collections -> [Keys \cup {PrimaryMap} -> {None} \cup SUBSET Keys]]
        /\ \A c \in Collections : sets[c][PrimaryMap] # None
    BY <1>1 DEF FieldTypes
  <2>3. ASSUME NEW c \in Collections
        PROVE  /\ SetsWithNew(c, C, row) \in [Keys \cup {PrimaryMap} -> {None} \cup SUBSET Keys]
               /\ SetsWithNew(c, C, row)[PrimaryMap] # None
    <3>1. sets[c] \in [Keys \cup {PrimaryMap} -> {None} \cup SUBSET Keys] /\ sets[c][PrimaryMap] # None
      BY <2>2
    <3>2. PICK N : N = NewOwners(c, C, row)
      OBVIOUS
    <3>3. SetsWithNew(c, C, row) = [k \in Keys \cup {PrimaryMap} |-> IF k \in N THEN {} ELSE sets[c][k]]
      BY <3>1, <3>2 DEF SetsWithNew
    <3>4. {} \in SUBSET Keys /\ {} # None
      BY QueriesAssumption
    <3> QED
      BY <3>1, <3>3, <3>4
  <2> QED
    BY <2>1, <2>3
<1>12. lastSet' \in [Collections -> Keys \cup {None, PrimaryMap}]
  <2>1. lastSet' = [c \in Collections |-> SetInUse(c, C, F, row)]
    BY <1>3, <1>4 DEF Finding, FindObjects
  <2>2. lastSet \in [Collections -> Keys \cup {None, PrimaryMap}]
    BY <1>1 DEF FieldTypes
  <2>3. ASSUME NEW c \in Collections
        PROVE  SetInUse(c, C, F, row) \in Keys \cup {None, PrimaryMap}
    <3>1. Handling(c, C) \subseteq C
      BY DEF Handling
    <3>2. \A t \in (IF HasDictionary(c) THEN Handling(c, C) ELSE {}) : row[t] \in Keys
      BY <1>5, <3>1
    <3> QED
      BY <2>2, <3>2 DEF SetInUse
  <2> QED
    BY <2>1, <2>3
<1>13. changed' \subseteq Tables /\ isFirstRow' = isFirstRow /\ UNCHANGED <<references, collections>>
  BY <1>3, <1>4, <1>5 DEF Finding, FindObjects, objects
<1> QED
  BY <1>1, <1>2, <1>6, <1>7, <1>8, <1>9, <1>10, <1>11, <1>12, <1>13 DEF FieldTypes

LEMMA FindFields ==
  ASSUME RowInv, NEW row, Finding(row)
  PROVE  RowsFit' /\ FieldsFollow' /\ LastRowFound'
<1>1. FieldTypes /\ RowsFit /\ FieldsFollow
  BY DEF RowInv
<1>2. /\ phase = "reading" /\ row \in RowSet /\ MayFollow(row) /\ HasRelations
      /\ WithOutcome("cast", row) = {} /\ query' = query /\ rows' = Append(rows, row)
      /\ phase' = "linking" /\ isFirstRow' = isFirstRow
  BY DEF Finding, FindObjects
<1>3. PICK C : C = WithOutcome("created", row)
  OBVIOUS
<1>4. PICK F : F = WithOutcome("found", row)
  OBVIOUS
<1>5. /\ C \subseteq Tables /\ F \subseteq Tables
      /\ \A t \in C : row[t] \in Keys /\ row[t] \notin Seen(t)
      /\ \A t \in F : row[t] \in Keys /\ row[t] \in Seen(t)
      /\ \A t \in Tables \ (C \cup F) : row[t] # Null => last[t] = row[t] /\ row[t] \in Seen(t)
      /\ query.single => row[1] # Null
  BY <1>1, <1>2, <1>3, <1>4, Outcomes DEF WithOutcome
<1>6. /\ Tables' = Tables /\ HasRelations' = HasRelations /\ \A a, b : Agree(a, b)' = Agree(a, b)
  BY <1>2, SameQuery
<1>7. PICK n \in Nat : n = Len(rows) /\ Len(rows') = n + 1
  BY <1>1, <1>2, NextRow
<1>8. (\A i \in 1 .. n : rows'[i] = rows[i]) /\ rows'[n + 1] = row
  BY <1>1, <1>2, <1>7, NextRow
<1>9. /\ last' = [t \in Tables |-> IF t \in C \cup F THEN row[t] ELSE last[t]]
      /\ entities' = [t \in Tables |-> IF t \in C THEN entities[t] \cup {row[t]} ELSE entities[t]]
      /\ changed' = C \cup F
  BY <1>3, <1>4 DEF Finding, FindObjects
<1>10. \A t \in Tables : row[t] \in Keys \cup {Null} /\ Null \notin Keys /\ None \notin Keys
  BY <1>1, <1>2, SeenKeys DEF RowSet
<1>11. RowsFit'
  <2>1. /\ \A i, j \in 1 .. Len(rows') : Agree(rows'[i], rows'[j])
        /\ ~HasRelations => \A i \in 1 .. Len(rows') : rows'[i][1] # Null
        /\ query.single => \A i, j \in 1 .. Len(rows') : rows'[i][1] = rows'[j][1]
    BY <1>1, <1>2, StillAgree
  <2>2. ASSUME query.single
        PROVE  \A i \in 1 .. n + 1 : rows'[i][1] # Null
    <3>1. \A i \in 1 .. n : rows[i][1] # Null
      BY <1>1, <1>2, <1>7, <2>2 DEF RowsFit, Working
    <3> QED
      BY <1>5, <1>8, <2>2, <3>1
  <2> QED
    BY <1>2, <1>6, <1>7, <2>1, <2>2 DEF RowsFit
<1>12. FieldsFollow'
  <2>1. LinkedRows' = n /\ LinkedRows = n
    BY <1>1, <1>2, <1>7, FoundNotLinked
  <2>2. /\ isFirstRow <=> n = 0
        /\ \A t \in Tables : /\ entities[t] = Seen(t)
                             /\ last[t] \in Seen(t) \cup {None}
                             /\ last[t] = None => Seen(t) = {}
    BY <1>1, <1>2, <2>1 DEF FieldsFollow, Working
  <2>3. ASSUME NEW t \in Tables
        PROVE  /\ entities'[t] = Seen(t)'
               /\ last'[t] \in Seen(t)' \cup {None}
               /\ last'[t] = None => Seen(t)' = {}
    <3>1. /\ row[t] # Null => row[t] \in Keys /\ Seen(t)' = Seen(t) \cup {row[t]}
          /\ row[t] = Null => Seen(t)' = Seen(t)
      BY <1>1, <1>2, MoreSeen
    <3>2. CASE t \in C
      BY <1>5, <1>9, <1>10, <2>2, <3>1, <3>2
    <3>3. CASE t \in F \ C
      <4>1. row[t] \in Keys /\ row[t] \in Seen(t) /\ row[t] # Null /\ row[t] # None
        BY <1>5, <1>10, <3>3
      <4>2. Seen(t)' = Seen(t)
        BY <3>1, <4>1
      <4>3. last'[t] = row[t] /\ entities'[t] = entities[t]
        BY <1>9, <3>3
      <4> QED
        BY <2>2, <4>1, <4>2, <4>3
    <3>4. CASE t \notin C \cup F
      <4>1. Seen(t)' = Seen(t)
        BY <1>5, <3>1, <3>4
      <4> QED
        BY <1>9, <2>2, <3>4, <4>1
    <3> QED
      BY <3>2, <3>3, <3>4
  <2> QED
    BY <1>2, <1>6, <2>1, <2>2, <2>3 DEF FieldsFollow
<1>13. LastRowFound'
  <2>1. Len(rows') = n + 1 /\ rows' # <<>>
    <3>1. rows' # <<>>
      BY <1>7
    <3> QED
      BY <1>7, <3>1
  <2>2. ASSUME NEW t \in Tables
        PROVE  /\ row[t] # Null => last'[t] = row[t]
               /\ t \in changed' => row[t] # Null
               /\ row[t] # Null /\ t \notin changed' => \E i \in 1 .. n : rows'[i][t] = row[t]
    <3>1. row[t] # Null => last'[t] = row[t]
      BY <1>5, <1>9
    <3>2. t \in changed' => row[t] # Null
      BY <1>5, <1>9, <1>10
    <3>3. ASSUME row[t] # Null, t \notin changed'
          PROVE  \E i \in 1 .. n : rows'[i][t] = row[t]
      <4>1. row[t] \in Keys /\ row[t] \in Seen(t)
        BY <1>5, <1>9, <1>10, <3>3
      <4>2. \E i \in 1 .. n : rows[i][t] = row[t]
        BY <1>1, <1>7, <4>1, SeenKeys
      <4> QED
        BY <1>8, <4>2
    <3> QED
      BY <3>1, <3>2, <3>3
  <2>3. rows'[Len(rows')] = row /\ Len(rows') - 1 = n
    BY <1>7, <1>8
  <2> QED
    BY <1>2, <1>6, <2>1, <2>2, <2>3 DEF LastRowFound
<1> QED
  BY <1>11, <1>12, <1>13

(* Where no other table has the owners' entity, only the owner's table     *)
(* handles the sets of a collection; the single object needs none.         *)
LEMMA OnlyOwnerHandles ==
  ASSUME query \in Queries, NEW c \in Collections, OwnerIsUnique(c), NEW X \in SUBSET Tables
  PROVE  Handling(c, X) = IF c[1] \in X /\ ~(query.single /\ c[1] = 1) THEN {c[1]} ELSE {}
<1>1. c[1] \in Tables /\ RequiresChangedLocal(c[1]) /\ Handles(c[1], c)
  BY CollectionShape DEF Handles
<1>2. \A t \in X : Handles(t, c) => t = c[1]
  BY DEF OwnerIsUnique
<1> QED
  BY <1>1, <1>2 DEF Handling

LEMMA FindSets ==
  ASSUME RowInv, NEW row, Finding(row)
  PROVE  SetsFollow'
<1>1. FieldTypes /\ RowsFit /\ FieldsFollow /\ SetsFollow
  BY DEF RowInv
<1>2. /\ phase = "reading" /\ row \in RowSet /\ MayFollow(row) /\ HasRelations
      /\ WithOutcome("cast", row) = {} /\ query' = query /\ rows' = Append(rows, row)
      /\ phase' = "linking" /\ isFirstRow' = isFirstRow
  BY DEF Finding, FindObjects
<1>3. PICK C : C = WithOutcome("created", row)
  OBVIOUS
<1>4. PICK F : F = WithOutcome("found", row)
  OBVIOUS
<1>5. /\ C \subseteq Tables /\ F \subseteq Tables /\ C \cap F = {}
      /\ \A t \in C : row[t] \in Keys /\ row[t] \notin Seen(t)
      /\ \A t \in F : row[t] \in Keys /\ row[t] \in Seen(t)
      /\ \A t \in Tables \ (C \cup F) : row[t] # Null => last[t] = row[t] /\ row[t] \in Seen(t)
      /\ query.single => row[1] # Null
  BY <1>1, <1>2, <1>3, <1>4, Outcomes DEF WithOutcome
<1>6. /\ Collections' = Collections /\ \A c : KeptByOwner(c)' = KeptByOwner(c)
  BY <1>2, SameQuery
<1>7. /\ LinkedRows = Len(rows) /\ Len(rows) \in Nat
      /\ \A c, k : LinkedTo(c, k)' = LinkedTo(c, k)
  BY <1>1, <1>2, FoundNotLinked
<1>8. /\ last' = [t \in Tables |-> IF t \in C \cup F THEN row[t] ELSE last[t]]
      /\ sets' = [c \in Collections |-> SetsWithNew(c, C, row)]
      /\ lastSet' = [c \in Collections |-> SetInUse(c, C, F, row)]
  BY <1>3, <1>4 DEF Finding, FindObjects
<1>9. Null \notin Keys /\ None \notin Keys /\ query \in Queries /\ 1 \in Tables
  BY <1>1, SeenKeys, FirstTable DEF FieldTypes
<1>10. ASSUME NEW t \in Tables, NEW k \in Keys, k \notin Seen(t), NEW c, c[1] = t
       PROVE  LinkedTo(c, k) = {}
  <2>1. \A i \in 1 .. Len(rows) : rows[i][t] # k
    BY <1>10, SeenKeys, <1>1
  <2> QED
    BY <1>7, <1>10, <2>1 DEF LinkedTo
<1>11. ASSUME NEW c \in Collections, Fits(c)'
       PROVE  /\ KeptByOwner(c) => OwnedSet(c)'
              /\ query.single /\ c[1] = 1 => PrimarySet(c)'
              /\ query.single /\ c[2] = 1 => MemberSet(c)'
  <2>1. Fits(c) /\ OwnerIsUnique(c)
    BY <1>1, <1>2, <1>11, FittedBefore DEF Fits
  <2>2. /\ KeptByOwner(c) => OwnedSet(c)
        /\ query.single /\ c[1] = 1 => PrimarySet(c)
        /\ query.single /\ c[2] = 1 => MemberSet(c)
    BY <1>1, <1>2, <2>1 DEF SetsFollow, Working
  <2>3. PICK o \in Tables : o = c[1]
    BY <1>9, CollectionShape
  <2>4. c[1] # c[2]
    BY <1>9, CollectionShape
  <2>5. /\ Handling(c, C) = IF o \in C /\ ~(query.single /\ o = 1) THEN {o} ELSE {}
        /\ Handling(c, F) = IF o \in F /\ ~(query.single /\ o = 1) THEN {o} ELSE {}
    BY <1>5, <1>9, <2>1, <2>3, OnlyOwnerHandles
  <2>6. sets[c] \in [Keys \cup {PrimaryMap} -> {None} \cup SUBSET Keys]
    BY <1>1 DEF FieldTypes
  <2>7. /\ row[o] # Null => row[o] \in Keys /\ Seen(o)' = Seen(o) \cup {row[o]}
        /\ row[o] = Null => Seen(o)' = Seen(o)
    BY <1>1, <1>2, MoreSeen
  <2>8. ASSUME KeptByOwner(c)
        PROVE  OwnedSet(c)'
    <3>1. HasDictionary(c) /\ ~(query.single /\ o = 1)
      BY <2>3, <2>8 DEF KeptByOwner, HasDictionary
    <3>2. OwnedSet(c)
      BY <2>2, <2>8
    <3>3. CASE o \in C
      <4>1. row[o] \in Keys /\ row[o] \notin Seen(o) /\ row[o] # Null /\ o \notin F
        BY <1>5, <1>9, <3>3
      <4>2. Handling(c, C) = {o} /\ Handling(c, F) = {}
        BY <2>5, <3>1, <3>3, <4>1
      <4>3. NewOwners(c, C, row) = {row[o]}
        BY <3>1, <4>2 DEF NewOwners
      <4>4. \A k \in Keys : sets'[c][k] = IF k = row[o] THEN {} ELSE sets[c][k]
        BY <1>8, <2>6, <4>3 DEF SetsWithNew
      <4>5. SetInUse(c, C, F, row) = row[o]
        <5> DEFINE new == IF HasDictionary(c) THEN Handling(c, C) ELSE {}
                   h == new \cup Handling(c, F)
                   latest == CHOOSE t \in h : \A u \in h : u <= t
        <5>1. h = {o} /\ new = {o} /\ o \in Nat
          BY <1>9, <3>1, <4>2, FirstTable
        <5>2. \E t \in h : \A u \in h : u <= t
          BY <5>1
        <5>3. latest \in h
          <6> HIDE DEF h
          <6> QED
            BY <5>2
        <5>4. SetInUse(c, C, F, row) = IF h = {} THEN lastSet[c] ELSE IF latest \in new THEN row[latest] ELSE None
          BY DEF SetInUse
        <5> HIDE DEF h, new, latest
        <5> QED
          BY <5>1, <5>3, <5>4
      <4>6. lastSet'[c] = last'[o]
        BY <1>8, <3>3, <4>5
      <4>7. \A k \in Keys : sets'[c][k] = IF k \in Seen(o)' THEN LinkedTo(c, k)' ELSE None
        <5> SUFFICES ASSUME NEW k \in Keys
                     PROVE  sets'[c][k] = IF k \in Seen(o)' THEN LinkedTo(c, k)' ELSE None
          OBVIOUS
        <5>1. CASE k = row[o]
          <6>1. LinkedTo(c, k) = {}
            BY <1>10, <2>3, <4>1, <5>1
          <6> QED
            BY <1>7, <2>7, <4>1, <4>4, <5>1, <6>1
        <5>2. CASE k # row[o]
          <6>1. sets[c][k] = IF k \in Seen(o) THEN LinkedTo(c, k) ELSE None
            BY <2>3, <3>2 DEF OwnedSet
          <6>2. k \in Seen(o)' <=> k \in Seen(o)
            BY <2>7, <4>1, <5>2
          <6> QED
            BY <1>7, <4>4, <5>2, <6>1, <6>2
        <5> QED
          BY <5>1, <5>2
      <4> QED
        BY <2>3, <4>6, <4>7 DEF OwnedSet
    <3>4. CASE o \notin C
      <4>1. Handling(c, C) = {}
        BY <2>5, <3>4
      <4>2. NewOwners(c, C, row) = {}
        BY <4>1 DEF NewOwners
      <4>3. \A k \in Keys : sets'[c][k] = sets[c][k]
        BY <1>8, <2>6, <4>2 DEF SetsWithNew
      <4>4. Seen(o)' = Seen(o)
        <5>1. row[o] # Null => row[o] \in Seen(o)
          BY <1>5, <3>4
        <5> QED
          BY <2>7, <5>1
      <4>5. lastSet'[c] \in {None, last'[o]}
        <5>1. lastSet[c] \in {None, last[o]}
          BY <2>3, <3>2 DEF OwnedSet
        <5>2. CASE o \in F
          <6>1. Handling(c, F) = {o}
            BY <2>5, <3>1, <5>2
          <6>2. SetInUse(c, C, F, row) = None
            BY <4>1, <6>1 DEF SetInUse
          <6> QED
            BY <1>8, <6>2
        <5>3. CASE o \notin F
          <6>1. Handling(c, F) = {}
            BY <2>5, <5>3
          <6>2. SetInUse(c, C, F, row) = lastSet[c]
            BY <4>1, <6>1 DEF SetInUse
          <6> QED
            BY <1>8, <3>4, <5>1, <5>3, <6>2
        <5> QED
          BY <5>2, <5>3
      <4>6. \A k \in Keys : sets[c][k] = IF k \in Seen(o) THEN LinkedTo(c, k) ELSE None
        BY <2>3, <3>2 DEF OwnedSet
      <4>7. \A k \in Keys : sets'[c][k] = IF k \in Seen(o)' THEN LinkedTo(c, k)' ELSE None
        BY <1>7, <4>3, <4>4, <4>6
      <4> QED
        BY <2>3, <4>5, <4>7 DEF OwnedSet
    <3> QED
      BY <3>3, <3>4
  <2>9. ASSUME query.single, 1 \in {c[1], c[2]}, c[2] = 1 => F = {}
        PROVE  lastSet'[c] = lastSet[c] /\ sets'[c][PrimaryMap] = sets[c][PrimaryMap]
    <3>1. NewOwners(c, C, row) = {}
      BY <2>3, <2>5, <2>9 DEF NewOwners, HasDictionary
    <3>2. SetsWithNew(c, C, row)[PrimaryMap] = sets[c][PrimaryMap]
      BY <2>6, <3>1 DEF SetsWithNew
    <3>3. Handling(c, F) = {} /\ (HasDictionary(c) => Handling(c, C) = {})
      BY <2>3, <2>5, <2>9 DEF HasDictionary
    <3>4. SetInUse(c, C, F, row) = lastSet[c]
      BY <3>3 DEF SetInUse
    <3> QED
      BY <1>8, <3>2, <3>4
  <2>10. ASSUME query.single, c[1] = 1
         PROVE  PrimarySet(c)'
    <3>1. lastSet'[c] = lastSet[c] /\ sets'[c][PrimaryMap] = sets[c][PrimaryMap]
      BY <2>4, <2>9, <2>10
    <3>2. PrimarySet(c)
      BY <2>2, <2>10
    <3>3. row[1] \in Keys /\ Seen(1)' = Seen(1) \cup {row[1]}
      BY <1>5, <2>3, <2>7, <2>10
    <3>4. row[1] \in Seen(1) \/ Seen(1) = {}
      <4>1. \A i \in 1 .. Len(rows) : rows[i][1] = row[1]
        BY <1>1, <1>2, <2>10, RowKeys DEF MayFollow
      <4> QED
        BY <1>1, <3>3, <4>1, SeenKeys
    <3>5. ASSUME NEW k \in Seen(1)'
          PROVE  sets'[c][PrimaryMap] = LinkedTo(c, k)'
      <4>1. CASE k \in Seen(1)
        BY <1>7, <3>1, <3>2, <4>1 DEF PrimarySet
      <4>2. CASE k \notin Seen(1)
        <5>1. k = row[1] /\ Seen(1) = {}
          BY <3>3, <3>4, <3>5, <4>2
        <5>2. LinkedTo(c, k) = {}
          BY <1>9, <1>10, <2>10, <3>3, <4>2, <5>1
        <5>3. sets[c][PrimaryMap] = {}
          BY <3>2, <5>1 DEF PrimarySet
        <5> QED
          BY <1>7, <3>1, <5>2, <5>3
      <4> QED
        BY <4>1, <4>2
    <3>6. lastSet'[c] = PrimaryMap /\ Seen(1)' # {}
      BY <3>1, <3>2, <3>3 DEF PrimarySet
    <3> QED
      BY <3>5, <3>6 DEF PrimarySet
  <2>11. ASSUME query.single, c[2] = 1
         PROVE  MemberSet(c)'
    <3> SUFFICES ASSUME isFirstRow
                 PROVE  lastSet'[c] = PrimaryMap /\ sets'[c][PrimaryMap] = {}
      BY <1>2 DEF MemberSet
    <3>1. Len(rows) = 0
      BY <1>1, <1>2, <1>7 DEF FieldsFollow, Working
    <3>2. \A t : Seen(t) = {}
      BY <3>1 DEF Seen
    <3>3. F = {}
      BY <1>5, <3>2
    <3>4. lastSet[c] = PrimaryMap /\ sets[c][PrimaryMap] = {}
      BY <2>2, <2>11 DEF MemberSet
    <3> QED
      BY <2>9, <2>11, <3>3, <3>4
  <2> QED
    BY <2>8, <2>10, <2>11
<1>12. ASSUME NEW c \in Collections', Fits(c)'
       PROVE  /\ KeptByOwner(c)' => OwnedSet(c)'
              /\ query'.single /\ c[1] = 1 => PrimarySet(c)'
              /\ query'.single /\ c[2] = 1 => MemberSet(c)'
  BY <1>2, <1>6, <1>11, <1>12
<1> QED
  BY <1>12 DEF SetsFollow

LEMMA FindLinks ==
  ASSUME RowInv, NEW row, Finding(row)
  PROVE  CollectionsFollow' /\ ReferencesFollow'
<1>1. FieldTypes /\ CollectionsFollow /\ ReferencesFollow
  BY DEF RowInv
<1>2. /\ phase = "reading" /\ row \in RowSet /\ query' = query /\ rows' = Append(rows, row)
      /\ phase' = "linking" /\ UNCHANGED <<references, collections>>
  BY DEF Finding, FindObjects, objects
<1>3. /\ Collections' = Collections /\ References' = References
  BY <1>2, SameQuery
<1>4. /\ LinkedRows = Len(rows) /\ LinkedRows' = Len(rows) /\ Len(rows) \in Nat
      /\ \A i \in 1 .. Len(rows) : rows'[i] = rows[i]
      /\ \A c, k : LinkedTo(c, k)' = LinkedTo(c, k)
  BY <1>1, <1>2, FoundNotLinked
<1>5. /\ \A t, u : AlwaysWith(t, u)' => AlwaysWith(t, u)
      /\ \A c : Fits(c)' => Fits(c)
  BY <1>1, <1>2, FittedBefore
<1>6. ASSUME NEW c \in Collections', Fits(c)', NEW k \in Keys
      PROVE  ToSet(collections'[c][k]) = LinkedTo(c, k)' /\ Distinct(collections'[c][k])
  <2>1. c \in Collections /\ Fits(c)
    BY <1>3, <1>5, <1>6
  <2>2. ToSet(collections[c][k]) = LinkedTo(c, k) /\ Distinct(collections[c][k])
    BY <1>1, <1>2, <2>1 DEF CollectionsFollow, Merged
  <2> QED
    BY <1>2, <1>4, <2>2
<1>7. CollectionsFollow'
  BY <1>6 DEF CollectionsFollow, Distinct
<1>8. ASSUME NEW r \in References', AlwaysWith(r[1], r[2])'
      PROVE  /\ \A i \in 1 .. LinkedRows' :
                  rows'[i][r[1]] # Null => references'[r][rows'[i][r[1]]] = rows'[i][r[2]]
             /\ \A k \in Keys : references'[r][k] # None =>
                  \E i \in 1 .. LinkedRows' : rows'[i][r[1]] = k
  <2>1. r \in References /\ AlwaysWith(r[1], r[2])
    BY <1>3, <1>5, <1>8
  <2>2. /\ \A i \in 1 .. LinkedRows : rows[i][r[1]] # Null => references[r][rows[i][r[1]]] = rows[i][r[2]]
        /\ \A k \in Keys : references[r][k] # None => \E i \in 1 .. LinkedRows : rows[i][r[1]] = k
    BY <1>1, <1>2, <2>1 DEF ReferencesFollow, Merged
  <2> QED
    BY <1>2, <1>4, <2>2
<1>9. ReferencesFollow'
  BY <1>8 DEF ReferencesFollow
<1> QED
  BY <1>7, <1>9

LEMMA FindResult ==
  ASSUME RowInv, NEW row, Finding(row)
  PROVE  ResultFollows'
<1>1. FieldTypes /\ RowsFit /\ FieldsFollow /\ ResultFollows
  BY DEF RowInv
<1>2. /\ phase = "reading" /\ row \in RowSet /\ MayFollow(row) /\ HasRelations
      /\ WithOutcome("cast", row) = {} /\ query' = query /\ rows' = Append(rows, row)
      /\ phase' = "linking"
  BY DEF Finding, FindObjects
<1>3. PICK C : C = WithOutcome("created", row)
  OBVIOUS
<1>4. PICK F : F = WithOutcome("found", row)
  OBVIOUS
<1>5. /\ 1 \in C => row[1] \in Keys /\ row[1] \notin Seen(1)
      /\ 1 \notin C /\ row[1] # Null => row[1] \in Seen(1)
  <2>1. 1 \in Tables
    BY <1>1, FirstTable DEF FieldTypes
  <2> QED
    BY <1>1, <1>2, <1>3, <1>4, <2>1, Outcomes
<1>6. PICK n \in Nat : n = Len(rows) /\ DOMAIN rows = 1 .. n /\ DOMAIN rows' = 1 .. n + 1
  BY <1>1, <1>2, NextRow, RowKeys
<1>7. (\A i \in 1 .. n : rows'[i] = rows[i]) /\ rows'[n + 1] = row
  BY <1>1, <1>2, <1>6, NextRow
<1>8. PICK s \in Seq(Keys) : s = result
  BY <1>1 DEF FieldTypes
<1>9. ToSet(s) = Seen(1) /\ InOrder
  BY <1>1, <1>2, <1>8 DEF ResultFollows, Merged
<1>10. PICK m \in Nat : m = Len(s) /\ DOMAIN s = 1 .. m
  BY <1>8
<1>11. ASSUME NEW i \in 1 .. m
       PROVE  s[i] \in Seen(1) /\ s[i] \in Keys /\ \E l \in 1 .. n : rows[l][1] = s[i]
  <2>1. s[i] \in ToSet(s) /\ s[i] \in Keys
    BY <1>10 DEF ToSet
  <2> QED
    BY <1>1, <1>6, <1>9, <2>1, SeenKeys
<1>12. \A i, j \in 1 .. m : \A l \in 1 .. n :
         i < j /\ rows[l][1] = s[j] => \E p \in 1 .. n : p < l /\ rows[p][1] = s[i]
  <2>1. OrderedBy(s, rows)
    BY <1>8, <1>9 DEF InOrder
  <2>2. DOMAIN s = 1 .. m /\ DOMAIN rows = 1 .. n
    BY <1>6, <1>10
  <2> QED
    BY <2>1, <2>2, Zenon DEF OrderedBy
<1>13. /\ 1 \in Tables /\ Null \notin Keys
       /\ row[1] # Null => row[1] \in Keys /\ Seen(1)' = Seen(1) \cup {row[1]}
       /\ row[1] = Null => Seen(1)' = Seen(1)
  <2>1. 1 \in Tables
    BY <1>1, FirstTable DEF FieldTypes
  <2> QED
    BY <1>1, <1>2, <2>1, MoreSeen, SeenKeys
<1>14. ToSet(result') = Seen(1)' /\ InOrder'
  <2>1. CASE 1 \in C
    <3>1. PICK k \in Keys : k = row[1] /\ k \notin Seen(1)
      BY <1>5, <2>1
    <3>2. result' = Append(s, k)
      BY <1>3, <1>8, <2>1, <3>1 DEF Finding, FindObjects
    <3>3. /\ DOMAIN result' = 1 .. m + 1
          /\ \A i \in 1 .. m : result'[i] = s[i]
          /\ result'[m + 1] = k
      BY <1>10, <3>2
    <3>4. ToSet(result') = ToSet(s) \cup {k}
      BY <1>10, <3>3 DEF ToSet
    <3>5. ASSUME NEW i \in 1 .. m + 1, NEW j \in 1 .. m + 1, NEW l \in 1 .. n + 1,
                 i < j, rows'[l][1] = result'[j]
          PROVE  \E p \in 1 .. n + 1 : p < l /\ rows'[p][1] = result'[i]
      <4>1. i \in 1 .. m
        BY <3>5
      <4>2. CASE j = m + 1
        <5>1. l = n + 1
          <6>1. SUFFICES ASSUME l # n + 1
                         PROVE  FALSE
            OBVIOUS
          <6>2. l \in 1 .. n /\ rows[l][1] = k
            BY <1>7, <3>3, <3>5, <4>2, <6>1
          <6> QED
            BY <1>1, <1>6, <3>1, <6>2, SeenKeys
        <5>2. PICK p \in 1 .. n : rows[p][1] = s[i]
          BY <1>11, <4>1
        <5> QED
          BY <1>7, <3>3, <4>1, <5>1, <5>2
      <4>3. CASE j # m + 1
        <5>1. j \in 1 .. m /\ result'[j] = s[j]
          BY <3>3, <4>3
        <5>2. l \in 1 .. n
          <6>1. SUFFICES ASSUME l = n + 1
                         PROVE  FALSE
            OBVIOUS
          <6>2. s[j] = k
            BY <1>7, <3>1, <3>5, <5>1, <6>1
          <6> QED
            BY <1>11, <3>1, <5>1, <6>2
        <5>3. PICK p \in 1 .. n : p < l /\ rows[p][1] = s[i]
          BY <1>7, <1>12, <3>5, <4>1, <5>1, <5>2
        <5> QED
          BY <1>7, <3>3, <4>1, <5>3
      <4> QED
        BY <4>2, <4>3
    <3>6. InOrder'
      <4>1. OrderedBy(result', rows')
        <5>1. DOMAIN result' = 1 .. m + 1 /\ DOMAIN rows' = 1 .. n + 1
          BY <1>6, <3>3
        <5> QED
          BY <3>5, <5>1, Zenon DEF OrderedBy
      <4> QED
        BY <4>1 DEF InOrder
    <3>7. Seen(1)' = Seen(1) \cup {k}
      BY <1>13, <3>1
    <3> QED
      BY <1>9, <3>4, <3>6, <3>7
  <2>2. CASE 1 \notin C
    <3>1. result' = s
      BY <1>3, <1>8, <2>2 DEF Finding, FindObjects
    <3>2. Seen(1)' = Seen(1)
      BY <1>5, <1>13, <2>2
    <3>3. ASSUME NEW i \in 1 .. m, NEW j \in 1 .. m, NEW l \in 1 .. n + 1,
                 i < j, rows'[l][1] = s[j]
          PROVE  \E p \in 1 .. n + 1 : p < l /\ rows'[p][1] = s[i]
      <4>1. PICK q \in 1 .. n : q <= l /\ rows[q][1] = s[j]
        <5>1. CASE l \in 1 .. n
          BY <1>7, <3>3, <5>1
        <5>2. CASE l = n + 1
          <6>1. PICK q \in 1 .. n : rows[q][1] = s[j]
            BY <1>11
          <6> QED
            BY <5>2, <6>1
        <5> QED
          BY <5>1, <5>2
      <4>2. PICK p \in 1 .. n : p < q /\ rows[p][1] = s[i]
        BY <1>12, <3>3, <4>1
      <4>3. p \in 1 .. n + 1 /\ p < l /\ rows'[p][1] = s[i]
        BY <1>7, <4>1, <4>2
      <4> QED
        BY <4>3
    <3>4. InOrder'
      <4>1. DOMAIN result' = 1 .. m
        BY <1>10, <3>1
      <4>2. ASSUME NEW i \in DOMAIN result', NEW j \in DOMAIN result', NEW l \in DOMAIN rows',
                   i < j, rows'[l][1] = result'[j]
            PROVE  \E p \in DOMAIN rows' : p < l /\ rows'[p][1] = result'[i]
        BY <1>6, <3>1, <3>3, <4>1, <4>2
      <4> QED
        BY <4>2, Zenon DEF InOrder, OrderedBy
    <3> QED
      BY <1>9, <3>1, <3>2, <3>4
  <2> QED
    BY <2>1, <2>2
<1>15. HasRelations'
  BY <1>2, SameQuery
<1> QED
  BY <1>14, <1>15 DEF ResultFollows

LEMMA FindKeepsInv ==
  ASSUME RowInv, NEW row, Finding(row)
  PROVE  RowInv'
<1>1. FailuresHaveCause'
  BY DEF Finding, FindObjects, FailuresHaveCause, Failures
<1> QED
  BY <1>1, FindTypes, FindFields, FindSets, FindLinks, FindResult DEF RowInv

-----------------------------------------------------------------------------
(* Linking the objects of a row.                                           *)

CurrentRow == rows[Len(rows)]

LEMMA LastLinked ==
  ASSUME FieldTypes, LastRowFound, phase = "linking"
  PROVE  /\ Len(rows) \in Nat \ {0} /\ LinkedRows = Len(rows) - 1
         /\ CurrentRow \in RowSet /\ \A t \in Tables : CurrentRow[t] \in Keys \cup {Null}
<1>1. Len(rows) \in Nat /\ rows # <<>> /\ rows \in Seq(RowSet)
  BY DEF FieldTypes, LastRowFound
<1>2. Len(rows) \in Nat \ {0}
  BY <1>1
<1>3. CurrentRow \in RowSet
  BY <1>1, <1>2 DEF CurrentRow
<1> QED
  BY <1>2, <1>3 DEF LinkedRows, RowSet

(* Linking the objects of a row adds the row's own pair.                   *)
LEMMA MoreLinked ==
  ASSUME FieldTypes, LastRowFound, phase = "linking", phase' = "reading", UNCHANGED <<query, rows>>
  PROVE  /\ LinkedRows' = Len(rows)
         /\ \A c, k : LinkedTo(c, k)' = LinkedTo(c, k) \cup
                        {l \in Keys : CurrentRow[c[1]] = k /\ CurrentRow[c[2]] = l}
<1>1. PICK n \in Nat \ {0} : n = Len(rows)
  BY LastLinked
<1>2. LinkedRows = n - 1
  BY <1>1, LastLinked
<1>3. LinkedRows' = n
  BY <1>1 DEF LinkedRows
<1>4. CurrentRow = rows[n]
  BY <1>1 DEF CurrentRow
<1>5. ASSUME NEW c, NEW k
      PROVE  LinkedTo(c, k)' = LinkedTo(c, k) \cup {l \in Keys : rows[n][c[1]] = k /\ rows[n][c[2]] = l}
  <2>1. LinkedTo(c, k) = {l \in Keys : \E i \in 1 .. n - 1 : rows[i][c[1]] = k /\ rows[i][c[2]] = l}
    BY <1>2 DEF LinkedTo
  <2>2. LinkedTo(c, k)' = {l \in Keys : \E i \in 1 .. n : rows[i][c[1]] = k /\ rows[i][c[2]] = l}
    BY <1>3 DEF LinkedTo
  <2>3. ASSUME NEW l \in Keys
        PROVE  (\E i \in 1 .. n : rows[i][c[1]] = k /\ rows[i][c[2]] = l) <=>
               ((\E i \in 1 .. n - 1 : rows[i][c[1]] = k /\ rows[i][c[2]] = l)
                 \/ (rows[n][c[1]] = k /\ rows[n][c[2]] = l))
    OBVIOUS
  <2> QED
    BY <2>1, <2>2, <2>3
<1> QED
  BY <1>1, <1>3, <1>4, <1>5

(* The objects that an assignment takes, and the set it looks into.        *)
LEMMA AssignedObjects ==
  ASSUME RowInv, phase = "linking", NEW c \in Collections, Assigns(c)
  PROVE  last[c[2]] \in Keys /\ last[c[2]] = CurrentRow[c[2]]
<1>1. FieldTypes /\ RowsFit /\ LastRowFound
  BY DEF RowInv
<1>2. Len(rows) \in Nat \ {0} /\ \A t \in Tables : CurrentRow[t] \in Keys \cup {Null}
  BY <1>1, LastLinked
<1>3. c[2] \in Tables
  BY <1>1, CollectionShape DEF FieldTypes
<1>4. CurrentRow[c[2]] # Null
  <2>1. CASE HasDictionary(c)
    BY <1>1, <1>3, <2>1 DEF LastRowFound, CurrentRow, Assigns
  <2>2. CASE ~HasDictionary(c)
    <3>1. query.single /\ c[2] = 1
      BY <2>2 DEF HasDictionary
    <3> QED
      BY <1>1, <1>2, <3>1 DEF RowsFit, Working, CurrentRow
  <2> QED
    BY <2>1, <2>2
<1>5. last[c[2]] = CurrentRow[c[2]]
  BY <1>1, <1>3, <1>4 DEF LastRowFound, CurrentRow
<1> QED
  BY <1>2, <1>3, <1>4, <1>5

(* Where every member comes with its owner, an assignment is that of the   *)
(* row's own pair, and it looks into the set of what is linked already.    *)
LEMMA AssignedPairs ==
  ASSUME RowInv, phase = "linking", NEW c \in Collections, Fits(c), Assigns(c)
  PROVE  /\ CurrentRow[c[1]] \in Keys /\ CurrentRow[c[2]] \in Keys
         /\ last[c[1]] = CurrentRow[c[1]] /\ last[c[2]] = CurrentRow[c[2]]
         /\ SetOwner(c) = IF KeptByOwner(c) THEN CurrentRow[c[1]] ELSE PrimaryMap
         /\ sets[c][SetOwner(c)] = LinkedTo(c, CurrentRow[c[1]])
<1>1. FieldTypes /\ RowsFit /\ FieldsFollow /\ LastRowFound /\ SetsFollow
  BY DEF RowInv
<1>2. PICK n \in Nat \ {0} : n = Len(rows) /\ LinkedRows = n - 1
  BY <1>1, LastLinked
<1>3. PICK row : row = CurrentRow
  OBVIOUS
<1>4. row = rows[n] /\ \A t \in Tables : row[t] \in Keys \cup {Null}
  BY <1>1, <1>2, <1>3, LastLinked DEF CurrentRow
<1>5. c[1] \in Tables /\ c[2] \in Tables /\ c[1] # c[2]
  BY <1>1, CollectionShape DEF FieldTypes
<1>6. last[c[2]] \in Keys /\ last[c[2]] = row[c[2]]
  BY <1>3, AssignedObjects
<1>7. Null \notin Keys /\ None \notin Keys /\ PrimaryMap \notin Keys /\ None # PrimaryMap
  BY QueriesAssumption
<1>8. row[c[1]] \in Keys
  <2>1. DOMAIN rows = 1 .. n
    BY <1>1, <1>2, RowKeys
  <2>2. row[c[1]] # Null
    BY <1>2, <1>4, <1>6, <1>7, <2>1 DEF Fits, AlwaysWith
  <2> QED
    BY <1>4, <1>5, <2>2
<1>9. last[c[1]] = row[c[1]]
  BY <1>1, <1>3, <1>5, <1>7, <1>8 DEF LastRowFound, CurrentRow
<1>10. \A t \in Tables : row[t] \in Keys => row[t] \in Seen(t)
  BY <1>1, <1>2, <1>4, SeenKeys
<1>11. /\ KeptByOwner(c) => OwnedSet(c)
       /\ query.single /\ c[1] = 1 => PrimarySet(c)
       /\ query.single /\ c[2] = 1 => MemberSet(c)
  BY <1>1 DEF SetsFollow, Working
<1>12. CASE KeptByOwner(c)
  <2>1. OwnedSet(c)
    BY <1>11, <1>12
  <2>2. SetOwner(c) = row[c[1]]
    BY <1>7, <1>8, <1>9, <2>1 DEF OwnedSet, SetOwner
  <2>3. sets[c][row[c[1]]] = LinkedTo(c, row[c[1]])
    BY <1>5, <1>8, <1>10, <2>1 DEF OwnedSet
  <2> QED
    BY <1>3, <1>6, <1>8, <1>9, <1>12, <2>2, <2>3
<1>13. CASE query.single /\ c[1] = 1
  <2>1. PrimarySet(c) /\ ~KeptByOwner(c)
    BY <1>11, <1>13 DEF KeptByOwner
  <2>2. SetOwner(c) = PrimaryMap
    BY <1>7, <2>1 DEF PrimarySet, SetOwner
  <2>3. sets[c][PrimaryMap] = LinkedTo(c, row[1])
    BY <1>5, <1>8, <1>10, <1>13, <2>1 DEF PrimarySet
  <2> QED
    BY <1>3, <1>6, <1>8, <1>9, <1>13, <2>1, <2>2, <2>3
<1>14. CASE query.single /\ c[2] = 1
  <2>1. isFirstRow /\ ~KeptByOwner(c) /\ HasRelations
    BY <1>1, <1>14 DEF Assigns, HasDictionary, KeptByOwner, LastRowFound
  <2>2. lastSet[c] = PrimaryMap /\ sets[c][PrimaryMap] = {}
    BY <1>11, <1>14, <2>1 DEF MemberSet
  <2>3. SetOwner(c) = PrimaryMap
    BY <1>7, <2>2 DEF SetOwner
  <2>4. LinkedTo(c, row[c[1]]) = {}
    <3>1. LinkedRows = 0
      BY <1>1, <2>1 DEF FieldsFollow, Working
    <3> QED
      BY <3>1 DEF LinkedTo
  <2> QED
    BY <1>3, <1>6, <1>8, <1>9, <2>1, <2>2, <2>3, <2>4
<1> QED
  BY <1>12, <1>13, <1>14 DEF KeptByOwner

(* And where nothing is assigned, nothing is missing.                      *)
LEMMA NothingToAssign ==
  ASSUME RowInv, phase = "linking", phase' = "reading", UNCHANGED <<query, rows>>,
         NEW c \in Collections, Fits(c), ~Assigns(c), NEW k
  PROVE  LinkedTo(c, k)' = LinkedTo(c, k)
<1>1. FieldTypes /\ RowsFit /\ FieldsFollow /\ LastRowFound
  BY DEF RowInv
<1>2. PICK n \in Nat \ {0} : n = Len(rows) /\ LinkedRows = n - 1
  BY <1>1, LastLinked
<1>3. PICK row : row = CurrentRow
  OBVIOUS
<1>4. row = rows[n] /\ \A t \in Tables : row[t] \in Keys \cup {Null}
  BY <1>1, <1>2, <1>3, LastLinked DEF CurrentRow
<1>5. c[1] \in Tables /\ c[2] \in Tables
  BY <1>1, CollectionShape DEF FieldTypes
<1>6. Null \notin Keys
  BY QueriesAssumption
<1>7. LinkedTo(c, k)' = LinkedTo(c, k) \cup {l \in Keys : row[c[1]] = k /\ row[c[2]] = l}
  BY <1>1, <1>3, MoreLinked
<1>8. SUFFICES ASSUME row[c[2]] \in Keys, row[c[1]] = k
               PROVE  row[c[2]] \in LinkedTo(c, k)
  BY <1>7
<1>9. \E i \in 1 .. n - 1 : rows[i][c[2]] = row[c[2]]
  <2>1. CASE c[2] \notin changed
    BY <1>1, <1>2, <1>4, <1>5, <1>6, <1>8, <2>1 DEF LastRowFound
  <2>2. CASE c[2] \in changed
    <3>1. query.single /\ c[2] = 1 /\ (isFirstRow => c[1] \notin changed)
      BY <2>2 DEF Assigns, HasDictionary
    <3>2. row[c[1]] \in Keys
      <4>1. DOMAIN rows = 1 .. n
        BY <1>1, <1>2, RowKeys
      <4>2. row[c[1]] # Null
        BY <1>2, <1>4, <1>6, <1>8, <4>1 DEF Fits, AlwaysWith
      <4> QED
        BY <1>4, <1>5, <4>2
    <3>3. isFirstRow <=> n - 1 = 0
      BY <1>1, <1>2 DEF FieldsFollow, Working, LastRowFound
    <3>4. ~isFirstRow
      <4>1. SUFFICES ASSUME c[1] \notin changed
                     PROVE  n - 1 # 0
        BY <3>1, <3>3
      <4>2. \E i \in 1 .. n - 1 : rows[i][c[1]] = row[c[1]]
        BY <1>1, <1>2, <1>4, <1>5, <1>6, <3>2, <4>1 DEF LastRowFound
      <4> QED
        BY <4>2
    <3>5. 1 \in 1 .. n - 1 /\ 1 \in 1 .. n /\ n \in 1 .. n
      BY <3>3, <3>4
    <3>6. rows[1][1] = row[1]
      BY <1>1, <1>2, <1>4, <3>1, <3>5 DEF RowsFit
    <3> QED
      BY <3>1, <3>5, <3>6
  <2> QED
    BY <2>1, <2>2
<1>10. PICK i \in 1 .. n - 1 : rows[i][c[2]] = row[c[2]]
  BY <1>9
<1>11. Agree(rows[i], row)
  BY <1>1, <1>2, <1>4 DEF RowsFit
<1>12. rows[i][c[1]] = k
  BY <1>1, <1>6, <1>8, <1>10, <1>11, CollectionShape DEF FieldTypes
<1> QED
  BY <1>2, <1>8, <1>10, <1>12 DEF LinkedTo

LEMMA LinkTypes ==
  ASSUME RowInv, LinkObjects
  PROVE  FieldTypes'
<1>1. FieldTypes /\ LastRowFound
  BY DEF RowInv
<1>2. /\ phase = "linking" /\ LinkFailure = "reading" /\ phase' = "reading" /\ isFirstRow' = FALSE
      /\ UNCHANGED <<query, rows, result, last, changed, entities>>
  BY DEF LinkObjects
<1>3. Tables' = Tables /\ Collections' = Collections /\ References' = References /\ RowSet' = RowSet
  BY <1>2, SameQuery
<1>4. ASSUME NEW c \in Collections, Assigns(c)
      PROVE  /\ last[c[1]] \in Keys /\ last[c[2]] \in Keys
             /\ SetOwner(c) \in Keys \cup {PrimaryMap}
             /\ sets[c][SetOwner(c)] \in SUBSET Keys
  <2>1. last[c[1]] # None /\ sets[c][SetOwner(c)] # None
    BY <1>2, <1>4 DEF LinkFailure
  <2>2. last[c[1]] \in Keys
    BY <1>1, <2>1, CollectionShape DEF FieldTypes
  <2>3. lastSet[c] \in Keys \cup {None, PrimaryMap}
    BY <1>1 DEF FieldTypes
  <2>4. SetOwner(c) \in Keys \cup {PrimaryMap}
    BY <2>2, <2>3 DEF SetOwner
  <2>5. sets[c] \in [Keys \cup {PrimaryMap} -> {None} \cup SUBSET Keys]
    BY <1>1 DEF FieldTypes
  <2> QED
    BY <1>2, <1>4, <2>1, <2>2, <2>4, <2>5, AssignedObjects
<1>5. lastSet' \in [Collections -> Keys \cup {None, PrimaryMap}]
  <2>1. lastSet' = [c \in Collections |-> IF Assigns(c) THEN SetOwner(c) ELSE lastSet[c]]
    BY DEF LinkObjects
  <2>2. lastSet \in [Collections -> Keys \cup {None, PrimaryMap}]
    BY <1>1 DEF FieldTypes
  <2> QED
    BY <1>4, <2>1, <2>2
<1>6. /\ sets' \in [Collections -> [Keys \cup {PrimaryMap} -> {None} \cup SUBSET Keys]]
      /\ \A c \in Collections : sets'[c][PrimaryMap] # None
  <2>1. sets' = [c \in Collections |->
                   IF Assigns(c) THEN [sets[c] EXCEPT ![SetOwner(c)] = sets[c][SetOwner(c)] \cup {last[c[2]]}]
                                 ELSE sets[c]]
    BY DEF LinkObjects
  <2>2. ASSUME NEW c \in Collections
        PROVE  /\ sets'[c] \in [Keys \cup {PrimaryMap} -> {None} \cup SUBSET Keys]
               /\ sets'[c][PrimaryMap] # None
    <3>1. /\ sets[c] \in [Keys \cup {PrimaryMap} -> {None} \cup SUBSET Keys]
          /\ sets[c][PrimaryMap] # None
      BY <1>1 DEF FieldTypes
    <3>2. CASE ~Assigns(c)
      BY <2>1, <3>1, <3>2
    <3>3. CASE Assigns(c)
      <4>1. PICK o \in Keys \cup {PrimaryMap} : o = SetOwner(c)
        BY <1>4, <3>3
      <4>2. PICK s \in SUBSET Keys : s = sets[c][o] \cup {last[c[2]]}
        BY <1>4, <3>3, <4>1
      <4>3. sets'[c] = [sets[c] EXCEPT ![o] = s]
        BY <2>1, <3>3, <4>1, <4>2
      <4>4. s # None
        BY QueriesAssumption
      <4> QED
        BY <3>1, <4>3, <4>4
    <3> QED
      BY <3>2, <3>3
  <2>3. \A c \in Collections : sets'[c] \in [Keys \cup {PrimaryMap} -> {None} \cup SUBSET Keys]
    BY <2>2
  <2>4. sets' \in [Collections -> [Keys \cup {PrimaryMap} -> {None} \cup SUBSET Keys]]
    BY <2>1, <2>3
  <2> QED
    BY <2>2, <2>4
<1>7. references' \in [References -> [Keys -> Keys \cup {None}]]
  <2>1. references' = [r \in References |->
                         IF Refers(r) THEN [references[r] EXCEPT ![last[r[1]]] = last[r[2]]]
                                      ELSE references[r]]
    BY DEF LinkObjects
  <2>2. ASSUME NEW r \in References
        PROVE  references'[r] \in [Keys -> Keys \cup {None}]
    <3>1. references[r] \in [Keys -> Keys \cup {None}] /\ last[r[2]] \in Keys \cup {None}
      BY <1>1, ReferenceShape DEF FieldTypes
    <3> QED
      BY <2>1, <3>1
  <2> QED
    BY <2>1, <2>2
<1>8. collections' \in [Collections -> [Keys -> Seq(Keys)]]
  <2>1. collections' = [c \in Collections |->
               IF Adds(c) THEN [collections[c] EXCEPT ![last[c[1]]] = Append(collections[c][last[c[1]]], last[c[2]])]
                          ELSE collections[c]]
    BY DEF LinkObjects
  <2>2. ASSUME NEW c \in Collections
        PROVE  collections'[c] \in [Keys -> Seq(Keys)]
    <3>1. collections[c] \in [Keys -> Seq(Keys)]
      BY <1>1 DEF FieldTypes
    <3>2. CASE ~Adds(c)
      BY <2>1, <3>1, <3>2
    <3>3. CASE Adds(c)
      <4>1. PICK o \in Keys, m \in Keys : o = last[c[1]] /\ m = last[c[2]]
        BY <1>4, <3>3 DEF Adds
      <4>2. PICK s \in Seq(Keys) : s = collections[c][o]
        BY <3>1
      <4>3. Append(s, m) \in Seq(Keys)
        OBVIOUS
      <4>4. collections'[c] = [collections[c] EXCEPT ![o] = Append(s, m)]
        BY <2>1, <3>3, <4>1, <4>2
      <4> QED
        BY <3>1, <4>3, <4>4
    <3> QED
      BY <3>2, <3>3
  <2> QED
    BY <2>1, <2>2
<1> QED
  BY <1>1, <1>2, <1>3, <1>5, <1>6, <1>7, <1>8 DEF FieldTypes

LEMMA LinkFields ==
  ASSUME RowInv, LinkObjects
  PROVE  RowsFit' /\ FieldsFollow' /\ LastRowFound' /\ ResultFollows' /\ FailuresHaveCause'
<1>1. FieldTypes /\ RowsFit /\ FieldsFollow /\ LastRowFound /\ ResultFollows
  BY DEF RowInv
<1>2. /\ phase = "linking" /\ phase' = "reading" /\ isFirstRow' = FALSE
      /\ UNCHANGED <<query, rows, result, last, changed, entities>>
  BY DEF LinkObjects
<1>3. /\ Tables' = Tables /\ HasRelations' = HasRelations
      /\ \A a, b : Agree(a, b)' = Agree(a, b)
  BY <1>2, SameQuery
<1>4. \A t : Seen(t)' = Seen(t)
  BY <1>2, SameRows
<1>5. LinkedRows' = Len(rows) /\ Len(rows) \in Nat \ {0}
  BY <1>1, <1>2, MoreLinked, LastLinked
<1>6. RowsFit'
  BY <1>1, <1>2, <1>3 DEF RowsFit, Working
<1>7. FieldsFollow'
  <2>1. LinkedRows' # 0
    BY <1>5
  <2> QED
    BY <1>1, <1>2, <1>3, <1>4, <2>1 DEF FieldsFollow, Working
<1>8. LastRowFound'
  BY <1>2 DEF LastRowFound
<1>9. ResultFollows'
  <2>1. InOrder' = InOrder
    BY <1>2 DEF InOrder
  <2> QED
    BY <1>1, <1>2, <1>3, <1>4, <2>1 DEF ResultFollows, Merged
<1>10. FailuresHaveCause'
  BY <1>2 DEF FailuresHaveCause, Failures
<1> QED
  BY <1>6, <1>7, <1>8, <1>9, <1>10

LEMMA LinkSets ==
  ASSUME RowInv, LinkObjects
  PROVE  SetsFollow'
<1>1. FieldTypes /\ RowsFit /\ LastRowFound /\ SetsFollow
  BY DEF RowInv
<1>2. /\ phase = "linking" /\ phase' = "reading" /\ isFirstRow' = FALSE
      /\ UNCHANGED <<query, rows, last>>
  BY DEF LinkObjects
<1>3. /\ Collections' = Collections /\ \A c : KeptByOwner(c)' = KeptByOwner(c)
  BY <1>2, SameQuery
<1>4. /\ \A t : Seen(t)' = Seen(t)
      /\ \A c : Fits(c)' = Fits(c)
  BY <1>2, SameRows
<1>5. /\ sets' = [c \in Collections |->
                   IF Assigns(c) THEN [sets[c] EXCEPT ![SetOwner(c)] = sets[c][SetOwner(c)] \cup {last[c[2]]}]
                                 ELSE sets[c]]
      /\ lastSet' = [c \in Collections |-> IF Assigns(c) THEN SetOwner(c) ELSE lastSet[c]]
  BY DEF LinkObjects
<1>6. PICK row : row = CurrentRow
  OBVIOUS
<1>7. \A c, k : LinkedTo(c, k)' = LinkedTo(c, k) \cup {l \in Keys : row[c[1]] = k /\ row[c[2]] = l}
  BY <1>1, <1>2, <1>6, MoreLinked
<1>8. ASSUME NEW c \in Collections, Fits(c)
      PROVE  /\ KeptByOwner(c) => OwnedSet(c)'
             /\ query.single /\ c[1] = 1 => PrimarySet(c)'
             /\ query.single /\ c[2] = 1 => MemberSet(c)'
  <2>1. /\ KeptByOwner(c) => OwnedSet(c)
        /\ query.single /\ c[1] = 1 => PrimarySet(c)
        /\ query.single /\ c[2] = 1 => MemberSet(c)
    BY <1>1, <1>2, <1>8 DEF SetsFollow, Working
  <2>2. sets[c] \in [Keys \cup {PrimaryMap} -> {None} \cup SUBSET Keys]
    BY <1>1 DEF FieldTypes
  <2>3. c[1] \in Tables /\ c[2] \in Tables
    BY <1>1, CollectionShape DEF FieldTypes
  <2>4. MemberSet(c)'
    BY <1>2 DEF MemberSet
  <2>5. CASE ~Assigns(c)
    <3>1. \A k : LinkedTo(c, k)' = LinkedTo(c, k)
      BY <1>2, <1>8, <2>5, NothingToAssign
    <3>2. sets'[c] = sets[c] /\ lastSet'[c] = lastSet[c]
      BY <1>5, <2>5
    <3>3. KeptByOwner(c) => OwnedSet(c)'
      BY <1>2, <1>4, <2>1, <3>1, <3>2 DEF OwnedSet
    <3>4. query.single /\ c[1] = 1 => PrimarySet(c)'
      BY <1>2, <1>4, <2>1, <3>1, <3>2 DEF PrimarySet
    <3> QED
      BY <2>4, <3>3, <3>4
  <2>6. CASE Assigns(c)
    <3>1. PICK o \in Keys, m \in Keys :
            /\ o = row[c[1]] /\ m = row[c[2]]
            /\ last[c[1]] = o /\ last[c[2]] = m
            /\ SetOwner(c) = IF KeptByOwner(c) THEN o ELSE PrimaryMap
            /\ sets[c][SetOwner(c)] = LinkedTo(c, o)
      BY <1>2, <1>6, <1>8, <2>6, AssignedPairs
    <3>2. \A k \in Keys : LinkedTo(c, k)' = IF k = o THEN LinkedTo(c, k) \cup {m} ELSE LinkedTo(c, k)
      BY <1>7, <3>1
    <3>3. o \in Seen(c[1])
      <4>1. Len(rows) \in Nat \ {0}
        BY <1>1, <1>2, LastLinked
      <4> QED
        BY <1>1, <1>6, <3>1, <4>1, SeenKeys DEF CurrentRow
    <3>4. ASSUME KeptByOwner(c)
          PROVE  OwnedSet(c)'
      <4>1. OwnedSet(c) /\ SetOwner(c) = o
        BY <2>1, <3>1, <3>4
      <4>2. lastSet'[c] = last'[c[1]]
        BY <1>2, <1>5, <2>6, <3>1, <4>1
      <4>3. \A k \in Keys : sets'[c][k] = IF k = o THEN sets[c][o] \cup {m} ELSE sets[c][k]
        BY <1>5, <2>2, <2>6, <3>1, <4>1
      <4>4. \A k \in Keys : sets[c][k] = IF k \in Seen(c[1]) THEN LinkedTo(c, k) ELSE None
        BY <4>1 DEF OwnedSet
      <4>5. \A k \in Keys : sets'[c][k] = IF k \in Seen(c[1])' THEN LinkedTo(c, k)' ELSE None
        BY <1>4, <3>2, <3>3, <4>3, <4>4
      <4> QED
        BY <4>2, <4>5 DEF OwnedSet
    <3>5. ASSUME query.single, c[1] = 1
          PROVE  PrimarySet(c)'
      <4>1. PrimarySet(c) /\ SetOwner(c) = PrimaryMap
        BY <2>1, <3>1, <3>5 DEF KeptByOwner
      <4>2. lastSet'[c] = PrimaryMap /\ sets'[c][PrimaryMap] = LinkedTo(c, o) \cup {m}
        BY <1>5, <2>2, <2>6, <3>1, <4>1
      <4>3. \A k \in Seen(1) : k = o
        <5>1. PICK n \in Nat \ {0} : n = Len(rows) /\ row = rows[n]
          BY <1>1, <1>2, <1>6, LastLinked DEF CurrentRow
        <5>2. \A i \in 1 .. n : rows[i][1] = o
          BY <1>1, <3>1, <3>5, <5>1 DEF RowsFit
        <5> QED
          BY <5>1, <5>2 DEF Seen
      <4>4. \A k \in Seen(1)' : sets'[c][PrimaryMap] = LinkedTo(c, k)'
        BY <1>4, <3>2, <4>2, <4>3
      <4>5. Seen(1)' # {}
        BY <1>4, <3>3, <3>5
      <4> QED
        BY <4>2, <4>4, <4>5 DEF PrimarySet
    <3> QED
      BY <2>4, <3>4, <3>5
  <2> QED
    BY <2>5, <2>6
<1>9. ASSUME NEW c \in Collections', Fits(c)'
      PROVE  /\ KeptByOwner(c)' => OwnedSet(c)'
             /\ query'.single /\ c[1] = 1 => PrimarySet(c)'
             /\ query'.single /\ c[2] = 1 => MemberSet(c)'
  BY <1>2, <1>3, <1>4, <1>8, <1>9
<1> QED
  BY <1>9 DEF SetsFollow

(* A collection stays without repetition when what it lacks is added.      *)
LEMMA AddedDistinct ==
  ASSUME NEW s \in Seq(Keys), Distinct(s), NEW m \in Keys
  PROVE  /\ ToSet(Append(s, m)) = ToSet(s) \cup {m}
         /\ m \notin ToSet(s) => Distinct(Append(s, m))
<1>1. PICK n \in Nat : n = Len(s) /\ DOMAIN s = 1 .. n
  OBVIOUS
<1>2. PICK u : u = Append(s, m)
  OBVIOUS
<1>3. DOMAIN u = 1 .. n + 1 /\ Len(u) = n + 1 /\ (\A i \in 1 .. n : u[i] = s[i]) /\ u[n + 1] = m
  BY <1>1, <1>2
<1>4. ToSet(u) = ToSet(s) \cup {m}
  BY <1>1, <1>3 DEF ToSet
<1>5. ASSUME m \notin ToSet(s)
      PROVE  Distinct(u)
  <2>1. IsFiniteSet(ToSet(s)) /\ Cardinality(ToSet(s)) = n
    BY <1>1 DEF Distinct
  <2>2. IsFiniteSet(ToSet(s) \cup {m}) /\ Cardinality(ToSet(s) \cup {m}) = n + 1
    BY <1>5, <2>1, FS_AddElement
  <2> QED
    BY <1>3, <1>4, <2>2 DEF Distinct
<1> QED
  BY <1>2, <1>4, <1>5

LEMMA LinkCollections ==
  ASSUME RowInv, LinkObjects
  PROVE  CollectionsFollow'
<1>1. FieldTypes /\ LastRowFound /\ CollectionsFollow
  BY DEF RowInv
<1>2. /\ phase = "linking" /\ phase' = "reading" /\ UNCHANGED <<query, rows>>
  BY DEF LinkObjects
<1>3. Collections' = Collections /\ \A c : Fits(c)' = Fits(c)
  BY <1>2, SameQuery, SameRows
<1>4. collections' = [c \in Collections |->
               IF Adds(c) THEN [collections[c] EXCEPT ![last[c[1]]] = Append(collections[c][last[c[1]]], last[c[2]])]
                          ELSE collections[c]]
  BY DEF LinkObjects
<1>5. PICK row : row = CurrentRow
  OBVIOUS
<1>6. \A c, k : LinkedTo(c, k)' = LinkedTo(c, k) \cup {l \in Keys : row[c[1]] = k /\ row[c[2]] = l}
  BY <1>1, <1>2, <1>5, MoreLinked
<1>7. ASSUME NEW c \in Collections, Fits(c), NEW k \in Keys
      PROVE  ToSet(collections'[c][k]) = LinkedTo(c, k)' /\ Distinct(collections'[c][k])
  <2>1. ToSet(collections[c][k]) = LinkedTo(c, k) /\ Distinct(collections[c][k])
    BY <1>1, <1>2, <1>7 DEF CollectionsFollow, Merged
  <2>2. collections[c] \in [Keys -> Seq(Keys)]
    BY <1>1 DEF FieldTypes
  <2>3. CASE ~Assigns(c)
    <3>1. LinkedTo(c, k)' = LinkedTo(c, k)
      BY <1>2, <1>7, <2>3, NothingToAssign
    <3>2. collections'[c] = collections[c]
      BY <1>4, <2>3 DEF Adds
    <3> QED
      BY <2>1, <3>1, <3>2
  <2>4. CASE Assigns(c)
    <3>1. PICK o \in Keys, m \in Keys :
            /\ o = row[c[1]] /\ m = row[c[2]]
            /\ last[c[1]] = o /\ last[c[2]] = m
            /\ sets[c][SetOwner(c)] = LinkedTo(c, o)
      BY <1>2, <1>5, <1>7, <2>4, AssignedPairs
    <3>2. LinkedTo(c, k)' = IF k = o THEN LinkedTo(c, k) \cup {m} ELSE LinkedTo(c, k)
      BY <1>6, <3>1
    <3>3. Adds(c) <=> m \notin LinkedTo(c, o)
      BY <2>4, <3>1 DEF Adds
    <3>4. CASE Adds(c) /\ k = o
      <4>1. PICK s \in Seq(Keys) : s = collections[c][k]
        BY <2>2
      <4>2. collections'[c][k] = Append(s, m)
        BY <1>4, <2>2, <3>1, <3>4, <4>1
      <4>3. ToSet(s) = LinkedTo(c, k) /\ Distinct(s) /\ m \notin ToSet(s)
        BY <2>1, <3>3, <3>4, <4>1
      <4>4. ToSet(Append(s, m)) = ToSet(s) \cup {m} /\ Distinct(Append(s, m))
        BY <4>3, AddedDistinct
      <4> QED
        BY <3>2, <3>4, <4>2, <4>3, <4>4
    <3>5. CASE ~(Adds(c) /\ k = o)
      <4>1. collections'[c][k] = collections[c][k]
        BY <1>4, <2>2, <3>1, <3>5
      <4>2. LinkedTo(c, k)' = LinkedTo(c, k)
        BY <3>2, <3>3, <3>5
      <4> QED
        BY <2>1, <4>1, <4>2
    <3> QED
      BY <3>4, <3>5
  <2> QED
    BY <2>3, <2>4
<1>8. ASSUME NEW c \in Collections', Fits(c)', NEW k \in Keys
      PROVE  ToSet(collections'[c][k]) = LinkedTo(c, k)' /\ Distinct(collections'[c][k])
  BY <1>3, <1>7, <1>8
<1> QED
  BY <1>8 DEF CollectionsFollow, Distinct

LEMMA LinkReferences ==
  ASSUME RowInv, LinkObjects
  PROVE  ReferencesFollow'
<1>1. FieldTypes /\ RowsFit /\ LastRowFound /\ ReferencesFollow
  BY DEF RowInv
<1>2. /\ phase = "linking" /\ phase' = "reading" /\ UNCHANGED <<query, rows, last>>
  BY DEF LinkObjects
<1>3. References' = References /\ \A t, u : AlwaysWith(t, u)' = AlwaysWith(t, u)
  BY <1>2, SameQuery, SameRows
<1>4. references' = [r \in References |->
                         IF Refers(r) THEN [references[r] EXCEPT ![last[r[1]]] = last[r[2]]]
                                      ELSE references[r]]
  BY DEF LinkObjects
<1>5. PICK n \in Nat \ {0} : n = Len(rows) /\ LinkedRows = n - 1 /\ LinkedRows' = n /\ DOMAIN rows = 1 .. n
  BY <1>1, <1>2, LastLinked, MoreLinked, RowKeys
<1>6. \A i \in 1 .. n : \A t \in Tables : rows[i][t] \in Keys \cup {Null}
  BY <1>1, <1>5, RowKeys
<1>7. Null \notin Keys
  BY QueriesAssumption
<1>8. ASSUME NEW r \in References, AlwaysWith(r[1], r[2])
      PROVE  /\ \A i \in 1 .. n : rows[i][r[1]] # Null => references'[r][rows[i][r[1]]] = rows[i][r[2]]
             /\ \A k \in Keys : references'[r][k] # None => \E i \in 1 .. n : rows[i][r[1]] = k
  <2>1. r[1] \in Tables /\ r[2] \in Tables
    BY <1>1, ReferenceShape DEF FieldTypes
  <2>2. /\ \A i \in 1 .. n - 1 : rows[i][r[1]] # Null => references[r][rows[i][r[1]]] = rows[i][r[2]]
        /\ \A k \in Keys : references[r][k] # None => \E i \in 1 .. n - 1 : rows[i][r[1]] = k
    BY <1>1, <1>2, <1>5, <1>8 DEF ReferencesFollow, Merged
  <2>3. references[r] \in [Keys -> Keys \cup {None}]
    BY <1>1 DEF FieldTypes
  <2>4. \A i, j \in 1 .. n : rows[i][r[1]] = rows[j][r[1]] /\ rows[i][r[1]] # Null => rows[i][r[2]] = rows[j][r[2]]
    <3>1. \A i, j \in 1 .. n : Agree(rows[i], rows[j])
      BY <1>1, <1>5 DEF RowsFit
    <3> QED
      BY <1>1, <3>1, ReferenceShape DEF FieldTypes
  <2>5. /\ rows[n][r[1]] # Null => last[r[1]] = rows[n][r[1]]
        /\ rows[n][r[2]] # Null => last[r[2]] = rows[n][r[2]]
        /\ r[1] \in changed => rows[n][r[1]] # Null
        /\ rows[n][r[1]] # Null /\ r[1] \notin changed => \E i \in 1 .. n - 1 : rows[i][r[1]] = rows[n][r[1]]
    BY <1>1, <1>2, <1>5, <2>1 DEF LastRowFound
  <2>6. CASE r[1] \in changed
    <3>1. PICK o \in Keys : o = rows[n][r[1]] /\ last[r[1]] = o
      BY <1>5, <1>6, <2>1, <2>5, <2>6
    <3>2. rows[n][r[2]] # Null
      BY <1>5, <1>7, <1>8, <3>1 DEF AlwaysWith
    <3>3. references'[r] = [references[r] EXCEPT ![o] = rows[n][r[2]]]
      BY <1>4, <2>5, <2>6, <3>1, <3>2 DEF Refers
    <3>4. \A k \in Keys : references'[r][k] = IF k = o THEN rows[n][r[2]] ELSE references[r][k]
      BY <2>3, <3>3
    <3>5. ASSUME NEW i \in 1 .. n, rows[i][r[1]] # Null
          PROVE  references'[r][rows[i][r[1]]] = rows[i][r[2]]
      <4>1. rows[i][r[1]] \in Keys
        BY <1>6, <2>1, <3>5
      <4>2. CASE rows[i][r[1]] = o
        BY <1>5, <2>4, <3>1, <3>4, <3>5, <4>1, <4>2
      <4>3. CASE rows[i][r[1]] # o
        <5>1. i \in 1 .. n - 1
          BY <3>1, <4>3
        <5> QED
          BY <2>2, <3>4, <3>5, <4>1, <4>3, <5>1
      <4> QED
        BY <4>2, <4>3
    <3>6. ASSUME NEW k \in Keys, references'[r][k] # None
          PROVE  \E i \in 1 .. n : rows[i][r[1]] = k
      BY <1>5, <2>2, <3>1, <3>4, <3>6
    <3> QED
      BY <3>5, <3>6
  <2>7. CASE r[1] \notin changed
    <3>1. references'[r] = references[r]
      BY <1>4, <2>7 DEF Refers
    <3>2. ASSUME NEW i \in 1 .. n, rows[i][r[1]] # Null
          PROVE  references[r][rows[i][r[1]]] = rows[i][r[2]]
      <4>1. CASE i \in 1 .. n - 1
        BY <2>2, <3>2, <4>1
      <4>2. CASE i = n
        <5>1. PICK j \in 1 .. n - 1 : rows[j][r[1]] = rows[n][r[1]]
          BY <2>5, <2>7, <3>2, <4>2
        <5>2. rows[j][r[2]] = rows[n][r[2]] /\ rows[j][r[1]] # Null
          BY <2>4, <3>2, <4>2, <5>1
        <5> QED
          BY <2>2, <4>2, <5>1, <5>2
      <4> QED
        BY <4>1, <4>2
    <3>3. \A k \in Keys : references[r][k] # None => \E i \in 1 .. n : rows[i][r[1]] = k
      BY <2>2
    <3> QED
      BY <3>1, <3>2, <3>3
  <2> QED
    BY <2>6, <2>7
<1>9. ASSUME NEW r \in References', AlwaysWith(r[1], r[2])'
      PROVE  /\ \A i \in 1 .. LinkedRows' :
                  rows'[i][r[1]] # Null => references'[r][rows'[i][r[1]]] = rows'[i][r[2]]
             /\ \A k \in Keys : references'[r][k] # None =>
                  \E i \in 1 .. LinkedRows' : rows'[i][r[1]] = k
  BY <1>2, <1>3, <1>5, <1>8, <1>9
<1> QED
  BY <1>9 DEF ReferencesFollow

LEMMA LinkKeepsInv ==
  ASSUME RowInv, LinkObjects
  PROVE  RowInv'
BY LinkTypes, LinkFields, LinkSets, LinkCollections, LinkReferences DEF RowInv

-----------------------------------------------------------------------------
(* The ends of a query.                                                    *)

LEMMA ThrowTypes ==
  ASSUME FieldTypes, NEW exception \in {"readFailed"} \cup Failures, Throw(exception),
         rows' \in Seq(RowSet)
  PROVE  FieldTypes'
<1>1. /\ phase' = exception /\ result' = <<>> /\ query' = query
      /\ last' = [t \in Tables |-> None] /\ entities' = [t \in Tables |-> {}]
      /\ UNCHANGED <<changed, sets, lastSet, isFirstRow, references, collections>>
  BY DEF Throw, ClearFields, objects
<1>2. Tables' = Tables /\ Collections' = Collections /\ References' = References /\ RowSet' = RowSet
  BY <1>1, SameQuery
<1>3. last' \in [Tables -> Keys \cup {None}] /\ entities' \in [Tables -> SUBSET Keys]
  BY <1>1
<1>4. result' \in Seq(Keys)
  BY <1>1
<1> QED
  BY <1>1, <1>2, <1>3, <1>4 DEF FieldTypes

(* After an exception nothing is promised of what was read.                *)
LEMMA ThrowKeepsInv ==
  ASSUME FieldTypes, NEW exception \in {"readFailed"} \cup Failures, Throw(exception),
         rows' \in Seq(RowSet), \A i, j \in 1 .. Len(rows') : Agree(rows'[i], rows'[j]),
         ~HasRelations => \A i \in 1 .. Len(rows') : rows'[i][1] # Null,
         query.single => \A i, j \in 1 .. Len(rows') : rows'[i][1] = rows'[j][1],
         AllMatched' => exception \notin Failures
  PROVE  RowInv'
<1>1. phase' = exception /\ query' = query
  BY DEF Throw, ClearFields
<1>2. ~Working' /\ ~Merged' /\ phase' # "linking"
  BY <1>1 DEF Working, Merged, Failures
<1>3. HasRelations' = HasRelations /\ \A a, b : Agree(a, b)' = Agree(a, b)
  BY <1>1, SameQuery
<1>4. FieldTypes'
  BY ThrowTypes
<1>5. RowsFit'
  BY <1>1, <1>2, <1>3 DEF RowsFit
<1>6. FieldsFollow' /\ SetsFollow'
  BY <1>2 DEF FieldsFollow, SetsFollow
<1>7. LastRowFound'
  BY <1>2 DEF LastRowFound
<1>8. CollectionsFollow' /\ ReferencesFollow' /\ ResultFollows'
  BY <1>2 DEF CollectionsFollow, ReferencesFollow, ResultFollows
<1>9. FailuresHaveCause'
  BY <1>1 DEF FailuresHaveCause
<1> QED
  BY <1>4, <1>5, <1>6, <1>7, <1>8, <1>9 DEF RowInv

(* Where every record has its partner, the objects of a row are found.     *)
LEMMA NothingCollides ==
  ASSUME RowInv, phase = "reading", HasRelations, NEW row \in RowSet, MayFollow(row),
         WithOutcome("cast", row) = {}, NEW c \in Collections, Fits(c)
  PROVE  ~Collides(c, WithOutcome("created", row), row)
<1>1. FieldTypes /\ RowsFit /\ FieldsFollow /\ SetsFollow
  BY DEF RowInv
<1>2. PICK C : C = WithOutcome("created", row)
  OBVIOUS
<1>3. C \subseteq Tables /\ \A t \in C : row[t] \in Keys /\ row[t] \notin Seen(t)
  BY <1>1, <1>2, Outcomes DEF WithOutcome
<1>4. c[1] \in Tables
  BY <1>1, CollectionShape DEF FieldTypes
<1>5. Handling(c, C) = IF c[1] \in C /\ ~(query.single /\ c[1] = 1) THEN {c[1]} ELSE {}
  BY <1>1, <1>3, OnlyOwnerHandles DEF FieldTypes, Fits
<1>6. KeptByOwner(c) => OwnedSet(c)
  BY <1>1 DEF SetsFollow, Working
<1>7. CASE Handling(c, C) = {}
  <2>1. NewOwners(c, C, row) = {}
    BY <1>7 DEF NewOwners
  <2>2. ~(Cardinality(NewOwners(c, C, row)) < Cardinality(Handling(c, C)))
    BY <1>7, <2>1, FS_EmptySet
  <2> QED
    BY <1>2, <2>1, <2>2 DEF Collides
<1>8. CASE Handling(c, C) # {}
  <2>1. PICK o \in C : o = c[1] /\ Handling(c, C) = {o} /\ ~(query.single /\ o = 1)
    BY <1>5, <1>8
  <2>2. CASE HasDictionary(c)
    <3>1. NewOwners(c, C, row) = {row[o]}
      BY <2>1, <2>2 DEF NewOwners
    <3>2. KeptByOwner(c)
      BY <2>1, <2>2 DEF KeptByOwner, HasDictionary
    <3>3. row[o] \in Keys /\ row[o] \notin Seen(o)
      BY <1>3
    <3>4. sets[c][row[o]] = None
      BY <1>6, <2>1, <3>2, <3>3 DEF OwnedSet
    <3>5. Cardinality({row[o]}) = 1 /\ Cardinality({o}) = 1
      BY FS_Singleton
    <3> QED
      BY <1>2, <2>1, <3>1, <3>4, <3>5 DEF Collides
  <2>3. CASE ~HasDictionary(c)
    BY <1>2, <2>3 DEF Collides, NewOwners
  <2> QED
    BY <2>2, <2>3
<1> QED
  BY <1>7, <1>8

LEMMA MatchedRow ==
  ASSUME FieldTypes, NEW row \in RowSet, rows' = Append(rows, row), query' = query, AllMatched'
  PROVE  /\ \A c \in Collections : Fits(c)
         /\ \A t \in Tables : IsNullChecked(t) \/ row[t] # Null
<1>1. PICK n \in Nat : n = Len(rows) /\ DOMAIN rows' = 1 .. n + 1
  BY NextRow
<1>2. rows'[n + 1] = row
  BY <1>1, NextRow
<1>3. Tables' = Tables /\ Collections' = Collections /\ \A t : IsNullChecked(t)' = IsNullChecked(t)
  BY SameQuery
<1>4. ASSUME NEW c \in Collections
      PROVE  Fits(c)
  <2>1. Fits(c)'
    BY <1>3 DEF AllMatched
  <2> QED
    BY <2>1, FittedBefore
<1>5. ASSUME NEW t \in Tables, ~IsNullChecked(t)
      PROVE  row[t] # Null
  <2>1. \A i \in DOMAIN rows' : rows'[i][t] # Null
    BY <1>3, <1>5 DEF AllMatched
  <2> QED
    BY <1>1, <1>2, <2>1
<1> QED
  BY <1>4, <1>5

LEMMA FindFailsKeepsInv ==
  ASSUME RowInv, phase = "reading", NEW row \in RowSet, MayFollow(row), FindFails(row)
  PROVE  RowInv'
<1>1. FieldTypes /\ RowsFit
  BY DEF RowInv
<1>2. HasRelations /\ rows' = Append(rows, row) /\ query' = query
  BY DEF FindFails, Throw, ClearFields
<1>3. /\ rows' \in Seq(RowSet)
      /\ \A i, j \in 1 .. Len(rows') : Agree(rows'[i], rows'[j])
      /\ query.single => \A i, j \in 1 .. Len(rows') : rows'[i][1] = rows'[j][1]
  BY <1>1, <1>2, NextRow, StillAgree
<1>4. CASE WithOutcome("cast", row) # {} /\ Throw("invalidCast")
  <2>1. PICK t \in Tables : Outcome(t, row) = "cast"
    BY <1>4 DEF WithOutcome
  <2>2. row[t] = Null /\ ~IsNullChecked(t)
    BY <2>1 DEF Outcome
  <2>3. ~AllMatched'
    BY <1>1, <1>2, <2>2, MatchedRow
  <2> QED
    BY <1>1, <1>2, <1>3, <1>4, <2>3, ThrowKeepsInv DEF Failures
<1>5. CASE /\ WithOutcome("cast", row) = {}
           /\ \E c \in Collections : Collides(c, WithOutcome("created", row), row)
           /\ Throw("duplicateKey")
  <2>1. PICK c \in Collections : Collides(c, WithOutcome("created", row), row)
    BY <1>5
  <2>2. ~Fits(c)
    BY <1>2, <1>5, <2>1, NothingCollides
  <2>3. ~AllMatched'
    BY <1>1, <1>2, <2>2, MatchedRow
  <2> QED
    BY <1>1, <1>2, <1>3, <1>5, <2>3, ThrowKeepsInv DEF Failures
<1>6. CASE WithOutcome("cast", row) # {} /\ Throw("duplicateKey")
  <2>1. PICK t \in Tables : Outcome(t, row) = "cast"
    BY <1>6 DEF WithOutcome
  <2>2. row[t] = Null /\ ~IsNullChecked(t)
    BY <2>1 DEF Outcome
  <2>3. ~AllMatched'
    BY <1>1, <1>2, <2>2, MatchedRow
  <2> QED
    BY <1>1, <1>2, <1>3, <1>6, <2>3, ThrowKeepsInv DEF Failures
<1> QED
  BY <1>4, <1>5, <1>6 DEF FindFails

LEMMA LinkFailsKeepsInv ==
  ASSUME RowInv, LinkFails
  PROVE  RowInv'
<1>1. FieldTypes /\ RowsFit
  BY DEF RowInv
<1>2. /\ phase = "linking" /\ LinkFailure # "reading" /\ Throw(LinkFailure)
      /\ UNCHANGED <<query, rows>>
  BY DEF LinkFails, Throw, ClearFields
<1>3. PICK exception : exception = LinkFailure
  OBVIOUS
<1>4. exception \in Failures
  BY <1>2, <1>3 DEF LinkFailure, Failures
<1>5. ~AllMatched'
  <2>1. SUFFICES ASSUME AllMatched'
                 PROVE  LinkFailure = "reading"
    BY <1>2
  <2>2. Collections' = Collections /\ \A c : Fits(c)' = Fits(c)
    BY <1>2, SameQuery, SameRows
  <2>3. \A c \in Collections : Fits(c)
    BY <2>1, <2>2 DEF AllMatched
  <2>4. ASSUME NEW c \in Collections, Assigns(c)
        PROVE  last[c[1]] # None /\ sets[c][SetOwner(c)] # None
    <3>1. last[c[1]] \in Keys /\ sets[c][SetOwner(c)] = LinkedTo(c, CurrentRow[c[1]])
      BY <1>2, <2>3, <2>4, AssignedPairs
    <3>2. LinkedTo(c, CurrentRow[c[1]]) \in SUBSET Keys
      BY DEF LinkedTo
    <3> QED
      BY <3>1, <3>2, QueriesAssumption
  <2> QED
    BY <2>4 DEF LinkFailure
<1>6. /\ rows' \in Seq(RowSet)
      /\ \A i, j \in 1 .. Len(rows') : Agree(rows'[i], rows'[j])
      /\ ~HasRelations => \A i \in 1 .. Len(rows') : rows'[i][1] # Null
      /\ query.single => \A i, j \in 1 .. Len(rows') : rows'[i][1] = rows'[j][1]
  BY <1>1, <1>2 DEF RowsFit, FieldTypes
<1> QED
  BY <1>1, <1>2, <1>3, <1>4, <1>5, <1>6, ThrowKeepsInv

LEMMA ReadFailsKeepsInv ==
  ASSUME RowInv, ReadFails
  PROVE  RowInv'
<1>1. FieldTypes /\ RowsFit
  BY DEF RowInv
<1>2. Throw("readFailed") /\ UNCHANGED <<query, rows>> /\ "readFailed" \notin Failures
  BY DEF ReadFails, Throw, ClearFields, Failures
<1>3. /\ rows' \in Seq(RowSet)
      /\ \A i, j \in 1 .. Len(rows') : Agree(rows'[i], rows'[j])
      /\ ~HasRelations => \A i \in 1 .. Len(rows') : rows'[i][1] # Null
      /\ query.single => \A i, j \in 1 .. Len(rows') : rows'[i][1] = rows'[j][1]
  BY <1>1, <1>2 DEF RowsFit, FieldTypes
<1> QED
  BY <1>1, <1>2, <1>3, ThrowKeepsInv

LEMMA EndKeepsInv ==
  ASSUME RowInv, EndOfRows
  PROVE  RowInv'
<1>1. /\ FieldTypes /\ RowsFit /\ CollectionsFollow /\ ReferencesFollow /\ ResultFollows
  BY DEF RowInv
<1>2. /\ phase = "reading" /\ phase' = "done"
      /\ last' = [t \in Tables |-> None] /\ entities' = [t \in Tables |-> {}]
      /\ UNCHANGED <<query, rows, isFirstRow, result, changed, sets, lastSet, references, collections>>
  BY DEF EndOfRows, ClearFields, objects
<1>3. /\ Tables' = Tables /\ Collections' = Collections /\ References' = References /\ RowSet' = RowSet
      /\ HasRelations' = HasRelations /\ \A a, b : Agree(a, b)' = Agree(a, b)
  BY <1>2, SameQuery
<1>4. /\ \A t : Seen(t)' = Seen(t)
      /\ \A t, u : AlwaysWith(t, u)' = AlwaysWith(t, u)
      /\ \A c : Fits(c)' = Fits(c)
  BY <1>2, SameRows
<1>5. LinkedRows' = LinkedRows
  BY <1>2 DEF LinkedRows
<1>6. \A c, k : LinkedTo(c, k)' = LinkedTo(c, k)
  BY <1>2, <1>5 DEF LinkedTo
<1>7. FieldTypes'
  <2>1. last' \in [Tables -> Keys \cup {None}] /\ entities' \in [Tables -> SUBSET Keys]
    BY <1>2
  <2> QED
    BY <1>1, <1>2, <1>3, <2>1 DEF FieldTypes
<1>8. RowsFit'
  BY <1>1, <1>2, <1>3 DEF RowsFit, Working
<1>9. FieldsFollow' /\ SetsFollow' /\ LastRowFound'
  BY <1>2 DEF FieldsFollow, SetsFollow, LastRowFound, Working
<1>10. CollectionsFollow'
  <2>1. ASSUME NEW c \in Collections', Fits(c)', NEW k \in Keys
        PROVE  ToSet(collections'[c][k]) = LinkedTo(c, k)' /\ Distinct(collections'[c][k])
    <3>1. ToSet(collections[c][k]) = LinkedTo(c, k) /\ Distinct(collections[c][k])
      BY <1>1, <1>2, <1>3, <1>4, <2>1 DEF CollectionsFollow, Merged
    <3> QED
      BY <1>2, <1>6, <3>1
  <2> QED
    BY <2>1 DEF CollectionsFollow, Distinct
<1>11. ReferencesFollow'
  BY <1>1, <1>2, <1>3, <1>4, <1>5 DEF ReferencesFollow, Merged
<1>12. ResultFollows'
  <2>1. InOrder' = InOrder
    BY <1>2 DEF InOrder
  <2> QED
    BY <1>1, <1>2, <1>3, <1>4, <2>1 DEF ResultFollows, Merged
<1>13. FailuresHaveCause'
  BY <1>2 DEF FailuresHaveCause, Failures
<1> QED
  BY <1>7, <1>8, <1>9, <1>10, <1>11, <1>12, <1>13 DEF RowInv

(* Without relations each row is an object of the result.                  *)
LEMMA PlainRowKeepsInv ==
  ASSUME RowInv, phase = "reading", NEW row \in RowSet, MayFollow(row), ReadRowWithoutRelations(row)
  PROVE  RowInv'
<1>1. FieldTypes /\ RowsFit /\ ResultFollows
  BY DEF RowInv
<1>2. /\ ~HasRelations /\ rows' = Append(rows, row) /\ result' = Append(result, row[1])
      /\ phase' \in {"reading", "done"}
      /\ UNCHANGED <<query, isFirstRow, last, changed, entities, sets, lastSet, references, collections>>
  BY DEF ReadRowWithoutRelations, fields, objects
<1>3. /\ Tables' = Tables /\ Collections' = Collections /\ References' = References /\ RowSet' = RowSet
      /\ HasRelations' = HasRelations /\ \A a, b : Agree(a, b)' = Agree(a, b)
  BY <1>2, SameQuery
<1>4. Collections = {} /\ References = {} /\ Tables = {1}
  <2>1. Joins = {}
    BY <1>2 DEF HasRelations
  <2> QED
    BY <1>1, <1>2, <2>1, FirstTable DEF Collections, References, FieldTypes
<1>5. row[1] \in Keys
  <2>1. row[1] # Null
    BY <1>4 DEF MayFollow, IsRow
  <2> QED
    BY <1>4, <2>1 DEF RowSet
<1>6. FieldTypes'
  <2>1. rows' \in Seq(RowSet')
    BY <1>1, <1>2, <1>3, NextRow
  <2>2. PICK k \in Keys, s \in Seq(Keys) : k = row[1] /\ s = result
    BY <1>1, <1>5 DEF FieldTypes
  <2>3. result' \in Seq(Keys)
    BY <1>2, <2>2
  <2> QED
    BY <1>1, <1>2, <1>3, <2>1, <2>3 DEF FieldTypes
<1>7. RowsFit'
  <2>1. /\ \A i, j \in 1 .. Len(rows') : Agree(rows'[i], rows'[j])
        /\ ~HasRelations => \A i \in 1 .. Len(rows') : rows'[i][1] # Null
        /\ query.single => \A i, j \in 1 .. Len(rows') : rows'[i][1] = rows'[j][1]
    BY <1>1, <1>2, StillAgree
  <2> QED
    BY <1>2, <1>3, <2>1 DEF RowsFit
<1>8. FieldsFollow' /\ LastRowFound'
  BY <1>2, <1>3 DEF FieldsFollow, LastRowFound
<1>9. SetsFollow' /\ CollectionsFollow' /\ ReferencesFollow'
  BY <1>3, <1>4 DEF SetsFollow, CollectionsFollow, ReferencesFollow
<1>10. ResultFollows'
  <2>1. PICK n \in Nat : n = Len(rows) /\ DOMAIN rows = 1 .. n /\ DOMAIN rows' = 1 .. n + 1
    BY <1>1, <1>2, NextRow, RowKeys
  <2>2. (\A i \in 1 .. n : rows'[i] = rows[i]) /\ rows'[n + 1] = row
    BY <1>1, <1>2, <2>1, NextRow
  <2>3. PICK k \in Keys, s \in Seq(Keys) : k = row[1] /\ s = result
    BY <1>1, <1>5 DEF FieldTypes
  <2>4. s = [i \in 1 .. n |-> rows[i][1]]
    BY <1>1, <1>2, <2>1, <2>3 DEF ResultFollows, Merged
  <2>5. Len(s) = n
    BY <2>3, <2>4
  <2>6. Append(s, k) = [i \in 1 .. n + 1 |-> rows'[i][1]]
    <3>1. PICK u : u = Append(s, k)
      OBVIOUS
    <3>2. DOMAIN u = 1 .. n + 1 /\ (\A i \in 1 .. n : u[i] = s[i]) /\ u[n + 1] = k /\ u \in Seq(Keys)
      BY <2>5, <3>1
    <3>3. \A i \in 1 .. n + 1 : u[i] = rows'[i][1]
      BY <2>2, <2>3, <2>4, <3>2
    <3>4. u = [i \in 1 .. n + 1 |-> u[i]]
      BY <3>2
    <3> QED
      BY <3>1, <3>3, <3>4
  <2>7. result' = [i \in DOMAIN rows' |-> rows'[i][1]]
    BY <1>2, <2>1, <2>3, <2>6
  <2> QED
    BY <1>2, <1>3, <2>7 DEF ResultFollows
<1>11. FailuresHaveCause'
  BY <1>2 DEF FailuresHaveCause, Failures
<1> QED
  BY <1>6, <1>7, <1>8, <1>9, <1>10, <1>11 DEF RowInv

LEMMA StutterKeepsRowInv ==
  ASSUME RowInv, UNCHANGED vars
  PROVE  RowInv'
<1>1. UNCHANGED <<query, phase, rows, isFirstRow, result, last, changed, entities, sets, lastSet,
                 references, collections>>
  BY DEF vars, fields, objects
<1>2. /\ Tables' = Tables /\ Collections' = Collections /\ References' = References /\ RowSet' = RowSet
      /\ HasRelations' = HasRelations /\ \A t : IsNullChecked(t)' = IsNullChecked(t)
      /\ \A c : KeptByOwner(c)' = KeptByOwner(c)
      /\ \A a, b : Agree(a, b)' = Agree(a, b)
  BY <1>1, SameQuery
<1>3. /\ \A t : Seen(t)' = Seen(t)
      /\ \A t, u : AlwaysWith(t, u)' = AlwaysWith(t, u)
      /\ \A c : Fits(c)' = Fits(c)
  BY <1>1, SameRows
<1>4. LinkedRows' = LinkedRows /\ Working' = Working /\ Merged' = Merged
  BY <1>1 DEF LinkedRows, Working, Merged
<1>5. \A c, k : LinkedTo(c, k)' = LinkedTo(c, k)
  BY <1>1, <1>4 DEF LinkedTo
<1>6. FieldTypes'
  BY <1>1, <1>2 DEF RowInv, FieldTypes
<1>7. RowsFit'
  BY <1>1, <1>2, <1>4 DEF RowInv, RowsFit
<1>8. FieldsFollow' /\ LastRowFound'
  BY <1>1, <1>2, <1>3, <1>4 DEF RowInv, FieldsFollow, LastRowFound
<1>9. SetsFollow'
  <2>1. \A c : /\ OwnedSet(c) => OwnedSet(c)'
               /\ PrimarySet(c) => PrimarySet(c)'
               /\ MemberSet(c) => MemberSet(c)'
    BY <1>1, <1>3, <1>5 DEF OwnedSet, PrimarySet, MemberSet
  <2> QED
    BY <1>1, <1>2, <1>3, <1>4, <2>1 DEF RowInv, SetsFollow
<1>10. CollectionsFollow'
  <2>1. ASSUME Merged', NEW c \in Collections', Fits(c)', NEW k \in Keys
        PROVE  ToSet(collections'[c][k]) = LinkedTo(c, k)' /\ Distinct(collections'[c][k])
    <3>1. ToSet(collections[c][k]) = LinkedTo(c, k) /\ Distinct(collections[c][k])
      BY <1>2, <1>3, <1>4, <2>1 DEF RowInv, CollectionsFollow
    <3> QED
      BY <1>1, <1>5, <3>1
  <2> QED
    BY <2>1 DEF CollectionsFollow, Distinct
<1>11. ReferencesFollow'
  BY <1>1, <1>2, <1>3, <1>4 DEF RowInv, ReferencesFollow
<1>12. ResultFollows'
  <2>1. InOrder' = InOrder
    BY <1>1 DEF InOrder
  <2> QED
    BY <1>1, <1>2, <1>3, <1>4, <2>1 DEF RowInv, ResultFollows
<1>13. FailuresHaveCause'
  BY <1>1, <1>2, <1>3 DEF RowInv, FailuresHaveCause, AllMatched
<1> QED
  BY <1>6, <1>7, <1>8, <1>9, <1>10, <1>11, <1>12, <1>13 DEF RowInv

LEMMA NextKeepsRowInv ==
  ASSUME RowInv, [Next]_vars
  PROVE  RowInv'
<1>1. CASE ReadRow
  <2>1. PICK row \in RowSet : /\ phase = "reading" /\ MayFollow(row)
                              /\ ReadRowWithoutRelations(row) \/ FindObjects(row) \/ FindFails(row)
    BY <1>1 DEF ReadRow, RowSet
  <2>2. CASE ReadRowWithoutRelations(row)
    BY <2>1, <2>2, PlainRowKeepsInv
  <2>3. CASE FindObjects(row)
    BY <2>1, <2>3, FindKeepsInv DEF Finding
  <2>4. CASE FindFails(row)
    BY <2>1, <2>4, FindFailsKeepsInv
  <2> QED
    BY <2>1, <2>2, <2>3, <2>4
<1>2. CASE LinkObjects
  BY <1>2, LinkKeepsInv
<1>3. CASE LinkFails
  BY <1>3, LinkFailsKeepsInv
<1>4. CASE ReadFails
  BY <1>4, ReadFailsKeepsInv
<1>5. CASE EndOfRows
  BY <1>5, EndKeepsInv
<1>6. CASE UNCHANGED vars
  BY <1>6, StutterKeepsRowInv
<1> QED
  BY <1>1, <1>2, <1>3, <1>4, <1>5, <1>6 DEF Next

(* The fields, sets and links follow the rows in every reachable state.    *)
THEOREM RowInvariance == Spec => []RowInv
<1>1. Init => RowInv
  BY InitRowInv
<1>2. RowInv /\ [Next]_vars => RowInv'
  BY NextKeepsRowInv
<1> QED
  BY <1>1, <1>2, PTL DEF Spec

-----------------------------------------------------------------------------
(* What is linked when the rows are read.                                  *)

LEMMA LinkedInRows ==
  ASSUME FieldTypes, Returned, NEW c \in Collections, NEW k \in Keys
  PROVE  LinkedTo(c, k) = {l \in Keys : <<k, l>> \in Linked(c[1], c[2])}
<1>1. Len(rows) \in Nat /\ DOMAIN rows = 1 .. Len(rows) /\ LinkedRows = Len(rows)
  BY RowKeys DEF Returned, LinkedRows
<1>2. Null \notin Keys
  BY QueriesAssumption
<1>3. ASSUME NEW l \in Keys
      PROVE  <<k, l>> \in Linked(c[1], c[2]) <=> \E i \in 1 .. Len(rows) : rows[i][c[1]] = k /\ rows[i][c[2]] = l
  BY <1>1, <1>2 DEF Linked
<1> QED
  BY <1>1, <1>3 DEF LinkedTo

(* In whatever order the rows come, the collection of an object holds the  *)
(* objects that the rows join it with, each once.                          *)
THEOREM CollectionsAreTheRows == Spec => []CollectionsMatchRows
<1>1. RowInv => CollectionsMatchRows
  <2> SUFFICES ASSUME RowInv, Returned, NEW c \in Collections,
                      AlwaysWith(c[2], c[1]), OwnerIsUnique(c), NEW k \in Keys
               PROVE  /\ ToSet(collections[c][k]) = {l \in Keys : <<k, l>> \in Linked(c[1], c[2])}
                      /\ Len(collections[c][k]) = Cardinality(ToSet(collections[c][k]))
    BY DEF CollectionsMatchRows
  <2>1. ToSet(collections[c][k]) = LinkedTo(c, k) /\ Distinct(collections[c][k])
    BY DEF RowInv, CollectionsFollow, Merged, Returned, Fits
  <2>2. LinkedTo(c, k) = {l \in Keys : <<k, l>> \in Linked(c[1], c[2])}
    BY LinkedInRows DEF RowInv
  <2> QED
    BY <2>1, <2>2 DEF Distinct
<1> QED
  BY <1>1, RowInvariance, PTL

(* A reference leads to the record that the rows join with the object.     *)
THEOREM ReferencesAreTheRows == Spec => []ReferencesMatchRows
<1>1. RowInv => ReferencesMatchRows
  <2> SUFFICES ASSUME RowInv, Returned, NEW r \in References, AlwaysWith(r[1], r[2])
               PROVE  {<<k, references[r][k]>> : k \in {l \in Keys : references[r][l] # None}}
                        = Linked(r[1], r[2])
    BY DEF ReferencesMatchRows
  <2>1. FieldTypes
    BY DEF RowInv
  <2>2. PICK n \in Nat : n = Len(rows) /\ DOMAIN rows = 1 .. n /\ LinkedRows = n
    BY <2>1, RowKeys DEF Returned, LinkedRows
  <2>3. /\ \A i \in 1 .. n : rows[i][r[1]] # Null => references[r][rows[i][r[1]]] = rows[i][r[2]]
        /\ \A k \in Keys : references[r][k] # None => \E i \in 1 .. n : rows[i][r[1]] = k
    BY <2>2 DEF RowInv, ReferencesFollow, Merged, Returned
  <2>4. /\ Null \notin Keys /\ None \notin Keys /\ r[1] \in Tables /\ r[2] \in Tables
        /\ \A i \in 1 .. n : \A t \in Tables : rows[i][t] \in Keys \cup {Null}
    BY <2>1, <2>2, RowKeys, SeenKeys, ReferenceShape DEF FieldTypes
  <2>5. \A i \in 1 .. n : rows[i][r[1]] # Null => rows[i][r[2]] # Null
    BY <2>2 DEF AlwaysWith
  <2>6. ASSUME NEW k \in Keys, references[r][k] # None
        PROVE  <<k, references[r][k]>> \in Linked(r[1], r[2])
    <3>1. PICK i \in 1 .. n : rows[i][r[1]] = k
      BY <2>3, <2>6
    <3>2. rows[i][r[1]] # Null /\ rows[i][r[2]] # Null /\ references[r][k] = rows[i][r[2]]
      BY <2>3, <2>4, <2>5, <3>1
    <3> QED
      BY <2>2, <3>1, <3>2 DEF Linked
  <2>7. ASSUME NEW i \in 1 .. n, rows[i][r[1]] # Null, rows[i][r[2]] # Null
        PROVE  /\ rows[i][r[1]] \in Keys /\ references[r][rows[i][r[1]]] # None
               /\ references[r][rows[i][r[1]]] = rows[i][r[2]]
    BY <2>3, <2>4, <2>7
  <2>8. Linked(r[1], r[2]) \subseteq {<<k, references[r][k]>> : k \in {l \in Keys : references[r][l] # None}}
    BY <2>2, <2>7 DEF Linked
  <2> QED
    BY <2>6, <2>8
<1> QED
  BY <1>1, RowInvariance, PTL

(* The result lists the queried objects once, as the rows mention them.    *)
THEOREM ResultIsTheRows == Spec => []ResultFollowsRows
<1>1. RowInv => ResultFollowsRows
  <2> SUFFICES ASSUME RowInv, Returned
               PROVE  IF ~HasRelations THEN result = [i \in DOMAIN rows |-> rows[i][1]]
                      ELSE ToSet(result) = {rows[i][1] : i \in DOMAIN rows} \ {Null} /\ InOrder
    BY DEF ResultFollowsRows, InOrder, OrderedBy
  <2>1. IF ~HasRelations THEN result = [i \in DOMAIN rows |-> rows[i][1]]
        ELSE ToSet(result) = Seen(1) /\ InOrder
    BY DEF RowInv, ResultFollows, Merged, Returned
  <2>2. Seen(1) = {rows[i][1] : i \in DOMAIN rows} \ {Null}
    <3>1. FieldTypes /\ 1 \in Tables
      BY FirstTable DEF RowInv, FieldTypes
    <3>2. DOMAIN rows = 1 .. Len(rows) /\ Null \notin Keys /\ \A i \in 1 .. Len(rows) : rows[i][1] \in Keys \cup {Null}
      BY <3>1, RowKeys, SeenKeys
    <3> QED
      BY <3>2 DEF Seen
  <2> QED
    BY <2>1, <2>2
<1> QED
  BY <1>1, RowInvariance, PTL

(* Rows that have a partner for every record are merged without an         *)
(* exception, and the fields keep their types.                             *)
THEOREM MatchedRowsMerge == Spec => []MatchedRowsAreMerged
<1>1. RowInv => MatchedRowsAreMerged
  <2> SUFFICES ASSUME RowInv
               PROVE  MatchedRowsAreMerged
    OBVIOUS
  <2>1. FieldTypes /\ FailuresHaveCause
    BY DEF RowInv
  <2>2. TypeOK
    <3>1. ToSet(result) \subseteq Keys
      BY <2>1 DEF FieldTypes, ToSet
    <3>2. \A c \in Collections : \A k \in Keys : ToSet(collections[c][k]) \subseteq Keys
      <4>1. \A c \in Collections : \A k \in Keys : collections[c][k] \in Seq(Keys)
        BY <2>1 DEF FieldTypes
      <4> QED
        BY <4>1 DEF ToSet
    <3>3. \A t \in Tables : last[t] \in Keys \cup {None} /\ entities[t] \subseteq Keys
      BY <2>1 DEF FieldTypes
    <3>4. \A c \in Collections : /\ lastSet[c] \in Keys \cup {None, PrimaryMap}
                                 /\ \A k \in Keys : sets[c][k] = None \/ sets[c][k] \subseteq Keys
      <4>1. \A c \in Collections : sets[c] \in [Keys \cup {PrimaryMap} -> {None} \cup SUBSET Keys]
        BY <2>1 DEF FieldTypes
      <4>2. \A c \in Collections : \A k \in Keys : sets[c][k] \in {None} \cup SUBSET Keys
        BY <4>1
      <4> QED
        BY <2>1, <4>2 DEF FieldTypes
    <3>5. \A r \in References : references[r] \in [Keys -> Keys \cup {None}]
      BY <2>1 DEF FieldTypes
    <3> QED
      BY <2>1, <3>1, <3>2, <3>3, <3>4, <3>5 DEF FieldTypes, TypeOK
  <2> QED
    BY <2>1, <2>2 DEF MatchedRowsAreMerged, FailuresHaveCause, AllMatched, Fits
<1> QED
  BY <1>1, RowInvariance, PTL

=============================================================================

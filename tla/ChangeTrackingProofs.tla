------------------------- MODULE ChangeTrackingProofs -------------------------
(***************************************************************************)
(* Proofs about EntityColumns and ChangeTracking: however an entity is     *)
(* defined, its columns are in the order the inserter and the updates rely *)
(* on; whatever the setters and the updates of any number of threads do to *)
(* one entity, each column that is sent has the number of an assigned      *)
(* property.  If the columns are defined in the order in which they are    *)
(* built, it is the column of that property, no assignment is missed, and  *)
(* with one updating thread a clean entity is what the database holds.     *)
(***************************************************************************)
EXTENDS ChangeTracking, FiniteSetTheorems, WellFoundedInduction, TLAPS

(* What the proofs ask: tracking is on, and no entity of which the columns *)
(* are in order has a key that is tracked.  An assigned key names no row   *)
(* that the database has.                                                  *)
WellFormed ==
  /\ Origins \subseteq {"TrackChanges"}
  /\ \A l \in Layouts : InOrder(l) => ~Tracked(l[1])

-----------------------------------------------------------------------------
(* The inductive invariant.                                                *)

Length == Len(ChangeTrackingColumns(layout))
Marks(c) == tracker.changedColumns[PropertyIndex(c)]
SetItems == Seq([column : Names, value : Values])

Typed ==
  /\ updaters \subseteq Threads
  /\ entity \in [Names -> Values]
  /\ stored \in [Names -> Values]
  /\ lastRead \in [Names -> Values]
  /\ assignments \in Values
  /\ lost \subseteq Names
  /\ tracker.changedColumns \in [1 .. Length -> 0 .. 255]
  /\ tracker \in [trackChanges : {TRUE}, isDirty : BOOLEAN, changedColumns : {tracker.changedColumns}]
  /\ pc \in [Threads -> Labels]
  /\ assigning \in [Threads -> Names]
  /\ scan \in [Threads -> 0 .. Length]
  /\ command \in [Threads -> [set : SetItems, key : Values]]

(* The lock is held while a statement is being built, by an updater.       *)
Locked ==
  /\ lock = Nobody => \A t \in Threads : ~At(t, "building")
  /\ \A t \in Threads : lock = t <=> At(t, "building")
  /\ \A t \in Threads \ updaters : pc[t] \in {"idle", "marking"}
  /\ \A t \in Threads : pc[t] \in {"idle", "marking", "locking"} => command[t].set = <<>>

(* What is marked or about to be marked was assigned, and what is in a     *)
(* statement has the number of a property that was.                        *)
IsAssigned(column) ==
  \E c \in TrackedNames : Mark(c) # 0 /\ column = EntityColumnAt(Mark(c)) /\ entity[c] # 0

Assigned ==
  /\ \A t \in Threads : At(t, "marking") =>
       assigning[t] \in TrackedNames /\ entity[assigning[t]] # 0
  /\ \A c \in TrackedNames : Marks(c) # 0 => Marks(c) = Mark(c) /\ entity[c] # 0
  /\ \A t \in Threads : \A i \in DOMAIN command[t].set : IsAssigned(command[t].set[i].column)

(* A value no update has read yet is about to be marked, marked, or ahead  *)
(* of the thread that builds a statement.                                  *)
Pending(c) ==
  \/ \E t \in Threads : At(t, "marking") /\ assigning[t] = c
  \/ tracker.isDirty /\ Marks(c) # 0
  \/ \E t \in Threads : At(t, "building") /\ scan[t] >= PropertyIndex(c) /\ Marks(c) # 0

Seen == \A c \in TrackedNames : lastRead[c] = entity[c] \/ Pending(c)

(* The statement being built has the columns behind the scan, so no column *)
(* twice; the key keeps the value it has in the database.                  *)
Behind ==
  /\ \A t \in Threads : At(t, "building") =>
       \A c \in TrackedNames : c \in SetColumns(t) => PropertyIndex(c) > scan[t]
  /\ entity[PrimaryColumn] = 0 /\ stored[PrimaryColumn] = 0
  /\ \A t \in Threads : command[t].key = 0

(* With one updater, what it read last is stored, in its statement or lost.*)
Alone(u) ==
  /\ \A i \in DOMAIN command[u].set :
       command[u].set[i].value = lastRead[command[u].set[i].column]
  /\ \A c \in TrackedNames : c \in SetColumns(u) \/ c \in lost \/ stored[c] = lastRead[c]

(* The last three are about the entities that have their columns in order. *)
Sent ==
  /\ Typed /\ Locked /\ Assigned
  /\ InOrder(layout) => Seen
  /\ InOrder(layout) => Behind
  /\ InOrder(layout) => \A u \in Threads : updaters = {u} => Alone(u)

(* An entity whose properties the threads leave alone.                     *)
Untouched ==
  /\ updaters \subseteq Threads
  /\ entity = [c \in Names |-> 0] /\ stored = entity /\ lastRead = entity
  /\ tracker = ChangeTracker(Length, TRUE)
  /\ pc = [t \in Threads |-> "idle"] /\ lock = Nobody
  /\ assigning \in [Threads -> Names]
  /\ scan = [t \in Threads |-> 0]
  /\ command = [t \in Threads |-> EmptyCommand]
  /\ assignments = 0 /\ lost = {}

TrackingInv == layout \in Definitions /\ IF layout \in Layouts THEN Sent ELSE Untouched

-----------------------------------------------------------------------------
(* The columns of an entity.                                               *)

(* The least of a set of numbers.                                          *)
LEMMA LeastElement ==
  ASSUME NEW S \in SUBSET Nat, S # {}
  PROVE  Min(S) \in S /\ \A y \in S : Min(S) <= y
<1> DEFINE T == {0 .. x : x \in S}
<1>1. T \subseteq FiniteSubsetsOf(Nat)
  <2> SUFFICES ASSUME NEW x \in S
               PROVE  0 .. x \in FiniteSubsetsOf(Nat)
    OBVIOUS
  <2>1. 0 \in Int /\ x \in Int
    OBVIOUS
  <2>2. IsFiniteSet(0 .. x)
    BY <2>1, FS_Interval
  <2>3. 0 .. x \in SUBSET Nat
    OBVIOUS
  <2> QED
    BY <2>2, <2>3 DEF FiniteSubsetsOf
<1>2. IsWellFoundedOn(StrictSubsetOrdering(Nat), FiniteSubsetsOf(Nat))
  BY FS_StrictSubsetOrderingWellFounded
<1>3. T # {}
  OBVIOUS
<1> HIDE DEF T
<1>4. PICK U \in T : \A V \in T : ~(<<V, U>> \in StrictSubsetOrdering(Nat))
  BY <1>1, <1>2, <1>3, WFMin, Zenon
<1> USE DEF T
<1>5. PICK x \in S : U = 0 .. x
  BY <1>4
<1>6. ASSUME NEW y \in S
      PROVE  x <= y
  <2> SUFFICES ASSUME y < x
               PROVE  FALSE
    OBVIOUS
  <2>1. (0 .. y) \in T /\ 0 .. y \subseteq 0 .. x /\ x \in 0 .. x /\ x \notin 0 .. y
    OBVIOUS
  <2>2. <<0 .. y, U>> \in StrictSubsetOrdering(Nat)
    BY <2>1, <1>5 DEF StrictSubsetOrdering
  <2> QED
    BY <2>1, <2>2, <1>4
<1> QED
  BY <1>6 DEF Min

(* Counting up to a number.                                                *)
LEMMA CountUp ==
  ASSUME NEW N \in Nat, NEW S, 0 \in S, \A k \in 1 .. N : k - 1 \in S => k \in S
  PROVE  \A k \in 0 .. N : k \in S
<1> DEFINE T == {k \in 0 .. N : k \notin S}
<1>1. T \in SUBSET Nat
  OBVIOUS
<1>2. ASSUME T # {}
      PROVE  FALSE
  <2>1. PICK k \in T : \A m \in T : k <= m
    <3> HIDE DEF T
    <3> QED
      BY <1>1, <1>2, LeastElement, Zenon
  <2>2. k \in 0 .. N /\ k \notin S /\ k # 0
    BY <2>1
  <2>3. k \in 1 .. N /\ k - 1 \in 0 .. N /\ ~(k <= k - 1)
    BY <2>2
  <2>4. k - 1 \notin T
    BY <2>1, <2>3
  <2> QED
    BY <2>2, <2>3, <2>4
<1> QED
  BY <1>2
-----------------------------------------------------------------------------
(* Loops over the definitions and over the columns.  A recursive function  *)
(* is what its equation says, as there is a function that fits it up to    *)
(* each number.                                                            *)

(* The list after no definition, and after one more.                       *)
LEMMA ListIsBuilt ==
  ASSUME NEW l, Len(l) \in Nat
  PROVE  /\ ListUpTo(l)[0] = EmptyList
         /\ \A n \in 1 .. Len(l) : ListUpTo(l)[n] = PlaceColumn(ListUpTo(l)[n - 1], l[n])
<1> DEFINE Step(before, n) == IF n = 0 THEN EmptyList ELSE PlaceColumn(before, l[n])
           Fits(f, k) == f = [n \in 0 .. k |-> Step(f[n - 1], n)]
           S == {k \in 0 .. Len(l) : \E f : Fits(f, k)}
<1>1. \A before, other : Step(before, 0) = Step(other, 0)
  OBVIOUS
<1> HIDE DEF Step
<1>2. 0 \in S
  <2>1. Fits([n \in 0 .. 0 |-> Step(0, 0)], 0)
    BY <1>1
  <2>2. 0 \in 0 .. Len(l)
    OBVIOUS
  <2> HIDE DEF Fits
  <2> QED
    BY <2>1, <2>2
<1>3. ASSUME NEW k \in 1 .. Len(l), k - 1 \in S
      PROVE  k \in S
  <2>1. k # 0 /\ k \in 0 .. Len(l) /\ k \in Nat
    OBVIOUS
  <2>2. PICK f : Fits(f, k - 1)
    BY <1>3
  <2>3. \A n \in 0 .. k - 1 : f[n] = Step(f[n - 1], n)
    BY <2>2, Zenon
  <2> DEFINE g == [n \in 0 .. k |-> IF n = k THEN Step(f[k - 1], k) ELSE f[n]]
  <2>4. \A n \in 0 .. k : /\ n # 0 => n - 1 \in 0 .. k /\ n - 1 # k
                          /\ n # k => n \in 0 .. k - 1
    BY <2>1
  <2>5. ASSUME NEW n \in 0 .. k
        PROVE  g[n] = Step(g[n - 1], n)
    <3>1. CASE n = 0
      <4>1. n \in 0 .. k - 1 /\ n # k
        BY <2>1, <2>4, <3>1
      <4>2. g[n] = f[n] /\ f[n] = Step(f[n - 1], n)
        BY <2>3, <4>1, Zenon
      <4> QED
        BY <1>1, <3>1, <4>2, Zenon
    <3>2. CASE n # 0
      <4>1. n - 1 \in 0 .. k /\ n - 1 # k
        BY <2>4, <3>2
      <4>2. g[n - 1] = f[n - 1]
        BY <4>1, Zenon
      <4>3. g[n] = Step(f[n - 1], n)
        <5>1. CASE n = k
          BY <5>1, Zenon
        <5>2. CASE n # k
          <6>1. n \in 0 .. k - 1
            BY <2>4, <5>2
          <6> QED
            BY <2>3, <5>2, <6>1, Zenon
        <5> QED
          BY <5>1, <5>2
      <4> QED
        BY <4>2, <4>3
    <3> QED
      BY <3>1, <3>2
  <2>6. Fits(g, k)
    BY <2>5, Zenon
  <2> QED
    BY <2>1, <2>6
<1>4. Len(l) \in S
  <2> HIDE DEF S
  <2>1. \A k \in 1 .. Len(l) : k - 1 \in S => k \in S
    BY <1>3
  <2>2. \A k \in 0 .. Len(l) : k \in S
    BY <1>2, <2>1, CountUp, Zenon
  <2>3. Len(l) \in 0 .. Len(l)
    OBVIOUS
  <2> QED
    BY <2>2, <2>3
<1>5. PICK f : Fits(f, Len(l))
  BY <1>4
<1>6. ListUpTo(l) = CHOOSE h : Fits(h, Len(l))
  BY Zenon DEF ListUpTo, Step
<1>7. Fits(ListUpTo(l), Len(l))
  <2> HIDE DEF Fits
  <2> QED
    BY <1>5, <1>6, Zenon
<1>8. \A n \in 0 .. Len(l) : ListUpTo(l)[n] = Step(ListUpTo(l)[n - 1], n)
  BY <1>7, Zenon
<1>9. 0 \in 0 .. Len(l) /\ \A n \in 1 .. Len(l) : n \in 0 .. Len(l) /\ n # 0
  OBVIOUS
<1> QED
  BY <1>8, <1>9, Zenon DEF Step

(* The positions of the tracked columns after each definition.             *)
LEMMA PositionsAreListed ==
  ASSUME NEW l, Len(l) \in Nat
  PROVE  \E f : /\ f[0] = <<>>
                /\ \A n \in 1 .. Len(l) :
                     f[n] = IF Tracked(l[n]) THEN Append(f[n - 1], n - 1) ELSE f[n - 1]
                /\ ChangeTrackingColumns(l) = f[Len(l)]
<1> DEFINE Step(before, n) == IF n = 0 THEN <<>>
                              ELSE IF Tracked(l[n]) THEN Append(before, n - 1)
                              ELSE before
           Fits(f, k) == f = [n \in 0 .. k |-> Step(f[n - 1], n)]
           S == {k \in 0 .. Len(l) : \E f : Fits(f, k)}
<1>1. \A before, other : Step(before, 0) = Step(other, 0)
  OBVIOUS
<1> HIDE DEF Step
<1>2. 0 \in S
  <2>1. Fits([n \in 0 .. 0 |-> Step(0, 0)], 0)
    BY <1>1
  <2>2. 0 \in 0 .. Len(l)
    OBVIOUS
  <2> HIDE DEF Fits
  <2> QED
    BY <2>1, <2>2
<1>3. ASSUME NEW k \in 1 .. Len(l), k - 1 \in S
      PROVE  k \in S
  <2>1. k # 0 /\ k \in 0 .. Len(l) /\ k \in Nat
    OBVIOUS
  <2>2. PICK f : Fits(f, k - 1)
    BY <1>3
  <2>3. \A n \in 0 .. k - 1 : f[n] = Step(f[n - 1], n)
    BY <2>2, Zenon
  <2> DEFINE g == [n \in 0 .. k |-> IF n = k THEN Step(f[k - 1], k) ELSE f[n]]
  <2>4. \A n \in 0 .. k : /\ n # 0 => n - 1 \in 0 .. k /\ n - 1 # k
                          /\ n # k => n \in 0 .. k - 1
    BY <2>1
  <2>5. ASSUME NEW n \in 0 .. k
        PROVE  g[n] = Step(g[n - 1], n)
    <3>1. CASE n = 0
      <4>1. n \in 0 .. k - 1 /\ n # k
        BY <2>1, <2>4, <3>1
      <4>2. g[n] = f[n] /\ f[n] = Step(f[n - 1], n)
        BY <2>3, <4>1, Zenon
      <4> QED
        BY <1>1, <3>1, <4>2, Zenon
    <3>2. CASE n # 0
      <4>1. n - 1 \in 0 .. k /\ n - 1 # k
        BY <2>4, <3>2
      <4>2. g[n - 1] = f[n - 1]
        BY <4>1, Zenon
      <4>3. g[n] = Step(f[n - 1], n)
        <5>1. CASE n = k
          BY <5>1, Zenon
        <5>2. CASE n # k
          <6>1. n \in 0 .. k - 1
            BY <2>4, <5>2
          <6> QED
            BY <2>3, <5>2, <6>1, Zenon
        <5> QED
          BY <5>1, <5>2
      <4> QED
        BY <4>2, <4>3
    <3> QED
      BY <3>1, <3>2
  <2>6. Fits(g, k)
    BY <2>5, Zenon
  <2> QED
    BY <2>1, <2>6
<1>4. Len(l) \in S
  <2> HIDE DEF S
  <2>1. \A k \in 1 .. Len(l) : k - 1 \in S => k \in S
    BY <1>3
  <2>2. \A k \in 0 .. Len(l) : k \in S
    BY <1>2, <2>1, CountUp, Zenon
  <2>3. Len(l) \in 0 .. Len(l)
    OBVIOUS
  <2> QED
    BY <2>2, <2>3
<1>5. PICK f : Fits(f, Len(l))
  BY <1>4
<1>6. PICK h : Fits(h, Len(l)) /\ ChangeTrackingColumns(l) = h[Len(l)]
  <2>1. ChangeTrackingColumns(l) = (CHOOSE h : Fits(h, Len(l)))[Len(l)]
    BY Zenon DEF ChangeTrackingColumns, Step
  <2> HIDE DEF Fits
  <2> QED
    BY <1>5, <2>1, Zenon
<1>7. \A n \in 0 .. Len(l) : h[n] = Step(h[n - 1], n)
  BY <1>6, Zenon
<1>8. 0 \in 0 .. Len(l) /\ \A n \in 1 .. Len(l) : n \in 0 .. Len(l) /\ n # 0
  OBVIOUS
<1>9. h[0] = <<>>
  BY <1>7, <1>8, Zenon DEF Step
<1>10. \A n \in 1 .. Len(l) : h[n] = IF Tracked(l[n]) THEN Append(h[n - 1], n - 1) ELSE h[n - 1]
  BY <1>7, <1>8, Zenon DEF Step
<1>11. ChangeTrackingColumns(l) = h[Len(l)]
  BY <1>6
<1> QED
  BY <1>9, <1>10, <1>11

ReadOnlyNames(l) == {l[i].name : i \in {j \in DOMAIN l : l[j].readOnly}}

(* The columns an INSERT names after each column.                          *)
LEMMA ColumnsAreListed ==
  ASSUME NEW l, NEW includeKeys, NEW first \in Nat \ {0}, Len(Build(l)) \in Nat,
         first = IF includeKeys THEN 1 ELSE RegularColumnsOffset(l) + 1
  PROVE  \E f : /\ \A n \in 0 .. Len(Build(l)) :
                     f[n] = IF n < first THEN <<>>
                            ELSE IF n = 1 \/ Build(l)[n] \notin ReadOnlyNames(l)
                              THEN Append(f[n - 1], Build(l)[n])
                            ELSE f[n - 1]
                /\ ColumnListString(l, includeKeys) = f[Len(Build(l))]
<1> DEFINE Step(before, n) == IF n < first THEN <<>>
                              ELSE IF n = 1 \/ Build(l)[n] \notin ReadOnlyNames(l)
                                THEN Append(before, Build(l)[n])
                              ELSE before
           Fits(f, k) == f = [n \in 0 .. k |-> Step(f[n - 1], n)]
           S == {k \in 0 .. Len(Build(l)) : \E f : Fits(f, k)}
<1>1. \A before, other : Step(before, 0) = Step(other, 0)
  OBVIOUS
<1> HIDE DEF Step
<1>2. 0 \in S
  <2>1. Fits([n \in 0 .. 0 |-> Step(0, 0)], 0)
    BY <1>1
  <2>2. 0 \in 0 .. Len(Build(l))
    OBVIOUS
  <2> HIDE DEF Fits
  <2> QED
    BY <2>1, <2>2
<1>3. ASSUME NEW k \in 1 .. Len(Build(l)), k - 1 \in S
      PROVE  k \in S
  <2>1. k # 0 /\ k \in 0 .. Len(Build(l)) /\ k \in Nat
    OBVIOUS
  <2>2. PICK f : Fits(f, k - 1)
    BY <1>3
  <2>3. \A n \in 0 .. k - 1 : f[n] = Step(f[n - 1], n)
    BY <2>2, Zenon
  <2> DEFINE g == [n \in 0 .. k |-> IF n = k THEN Step(f[k - 1], k) ELSE f[n]]
  <2>4. \A n \in 0 .. k : /\ n # 0 => n - 1 \in 0 .. k /\ n - 1 # k
                          /\ n # k => n \in 0 .. k - 1
    BY <2>1
  <2>5. ASSUME NEW n \in 0 .. k
        PROVE  g[n] = Step(g[n - 1], n)
    <3>1. CASE n = 0
      <4>1. n \in 0 .. k - 1 /\ n # k
        BY <2>1, <2>4, <3>1
      <4>2. g[n] = f[n] /\ f[n] = Step(f[n - 1], n)
        BY <2>3, <4>1, Zenon
      <4> QED
        BY <1>1, <3>1, <4>2, Zenon
    <3>2. CASE n # 0
      <4>1. n - 1 \in 0 .. k /\ n - 1 # k
        BY <2>4, <3>2
      <4>2. g[n - 1] = f[n - 1]
        BY <4>1, Zenon
      <4>3. g[n] = Step(f[n - 1], n)
        <5>1. CASE n = k
          BY <5>1, Zenon
        <5>2. CASE n # k
          <6>1. n \in 0 .. k - 1
            BY <2>4, <5>2
          <6> QED
            BY <2>3, <5>2, <6>1, Zenon
        <5> QED
          BY <5>1, <5>2
      <4> QED
        BY <4>2, <4>3
    <3> QED
      BY <3>1, <3>2
  <2>6. Fits(g, k)
    BY <2>5, Zenon
  <2> QED
    BY <2>1, <2>6
<1>4. Len(Build(l)) \in S
  <2> HIDE DEF S
  <2>1. \A k \in 1 .. Len(Build(l)) : k - 1 \in S => k \in S
    BY <1>3
  <2>2. \A k \in 0 .. Len(Build(l)) : k \in S
    BY <1>2, <2>1, CountUp, Zenon
  <2>3. Len(Build(l)) \in 0 .. Len(Build(l))
    OBVIOUS
  <2> QED
    BY <2>2, <2>3
<1>5. PICK f : Fits(f, Len(Build(l)))
  BY <1>4
<1>6. PICK h : Fits(h, Len(Build(l))) /\ ColumnListString(l, includeKeys) = h[Len(Build(l))]
  <2>1. ColumnListString(l, includeKeys) = (CHOOSE h : Fits(h, Len(Build(l))))[Len(Build(l))]
    BY Zenon DEF ColumnListString, Step, ReadOnlyNames
  <2> HIDE DEF Fits
  <2> QED
    BY <1>5, <2>1, Zenon
<1>7. \A n \in 0 .. Len(Build(l)) : h[n] = Step(h[n - 1], n)
  BY <1>6, Zenon
<1> QED
  BY <1>6, <1>7, Zenon DEF Step

-----------------------------------------------------------------------------
(* What Build arranges: the place that each definition gets, the columns   *)
(* of its section behind those of the sections before.                     *)

(* Inserting leaves what is in front and moves what is behind.             *)
LEMMA InsertedElements ==
  ASSUME NEW R, NEW C \in Seq(R), NEW at \in 1 .. Len(C) + 1, NEW x \in R
  PROVE  /\ InsertAt(C, at, x) \in Seq(R)
         /\ Len(InsertAt(C, at, x)) = Len(C) + 1
         /\ InsertAt(C, at, x)[at] = x
         /\ \A m \in 1 .. at - 1 : InsertAt(C, at, x)[m] = C[m]
         /\ \A m \in at .. Len(C) : InsertAt(C, at, x)[m + 1] = C[m]
<1> DEFINE front == SubSeq(C, 1, at - 1)
           back == SubSeq(C, at, Len(C))
           more == front \o <<x>>
<1>1. front \in Seq(R) /\ Len(front) = at - 1 /\ \A m \in 1 .. at - 1 : front[m] = C[m]
  OBVIOUS
<1>2. back \in Seq(R) /\ Len(back) = Len(C) - at + 1
  OBVIOUS
<1>3. \A m \in 1 .. Len(C) - at + 1 : back[m] = C[at + m - 1]
  OBVIOUS
<1>4. InsertAt(C, at, x) = more \o back
  BY DEF InsertAt
<1> HIDE DEF front, back
<1>5. more \in Seq(R) /\ Len(more) = at /\ more[at] = x /\ \A m \in 1 .. at - 1 : more[m] = front[m]
  BY <1>1
<1> HIDE DEF more
<1>6. more \o back \in Seq(R) /\ Len(more \o back) = Len(C) + 1
  BY <1>2, <1>5
<1>7. \A m \in 1 .. at : (more \o back)[m] = more[m]
  BY <1>2, <1>5
<1>8. \A m \in 1 .. Len(C) - at + 1 : (more \o back)[at + m] = back[m]
  BY <1>2, <1>5
<1>9. ASSUME NEW m \in at .. Len(C)
      PROVE  (more \o back)[m + 1] = C[m]
  <2>1. PICK k \in 1 .. Len(C) - at + 1 : k = m - at + 1
    OBVIOUS
  <2>2. at + k = m + 1 /\ at + k - 1 = m
    BY <2>1
  <2> QED
    BY <1>3, <1>8, <2>2
<1> QED
  BY <1>1, <1>4, <1>5, <1>6, <1>7, <1>9

(* p says where each of the first n definitions is, b[s] where those of    *)
(* the sections up to s end.                                               *)
Places(l, n, p, b) ==
  /\ p \in [1 .. n -> 1 .. n]
  /\ b \in [1 .. 3 -> 0 .. n] /\ b[1] <= b[2] /\ b[3] = n
  /\ \A m \in 1 .. n : \E i \in 1 .. n : p[i] = m
  /\ \A i \in 1 .. n : \A s \in 1 .. 3 : Section(l[i]) <= s <=> p[i] <= b[s]
  /\ \A i, j \in 1 .. n : Ahead(l, i, j) => p[i] < p[j]

Moved(l, n, p, b) ==
  [i \in 1 .. n + 1 |-> IF i = n + 1 THEN b[Section(l[n + 1])] + 1
                        ELSE IF p[i] <= b[Section(l[n + 1])] THEN p[i]
                        ELSE p[i] + 1]

Grown(l, n, b) == [s \in 1 .. 3 |-> IF Section(l[n + 1]) <= s THEN b[s] + 1 ELSE b[s]]

(* There are three sections.                                               *)
LEMMA SectionOf == \A d : Section(d) \in 1 .. 3
BY DEF Section

(* The place of one more definition: behind those of its section.          *)
LEMMA OneMorePlaced ==
  ASSUME NEW l, NEW n \in Nat, NEW p, NEW b, Places(l, n, p, b)
  PROVE  Places(l, n + 1, Moved(l, n, p, b), Grown(l, n, b))
<1> DEFINE s == Section(l[n + 1])
           q == Moved(l, n, p, b)
           c == Grown(l, n, b)
<1>1. /\ p \in [1 .. n -> 1 .. n]
      /\ b \in [1 .. 3 -> 0 .. n] /\ b[1] <= b[2] /\ b[3] = n
      /\ \A m \in 1 .. n : \E i \in 1 .. n : p[i] = m
      /\ \A i \in 1 .. n : \A t \in 1 .. 3 : Section(l[i]) <= t <=> p[i] <= b[t]
      /\ \A i, j \in 1 .. n : Ahead(l, i, j) => p[i] < p[j]
  BY DEF Places
<1>2. s \in 1 .. 3 /\ b[s] \in 0 .. n /\ \A i : Section(l[i]) \in 1 .. 3
  BY <1>1, SectionOf
<1>3. /\ q[n + 1] = b[s] + 1
      /\ \A i \in 1 .. n : q[i] = IF p[i] <= b[s] THEN p[i] ELSE p[i] + 1
  BY DEF Moved
<1>4. \A t \in 1 .. 3 : c[t] = IF s <= t THEN b[t] + 1 ELSE b[t]
  BY DEF Grown
<1>5. \A i \in 1 .. n + 1 : i = n + 1 \/ i \in 1 .. n
  OBVIOUS
<1>6. q \in [1 .. n + 1 -> 1 .. n + 1]
  <2>1. ASSUME NEW i \in 1 .. n + 1
        PROVE  q[i] \in 1 .. n + 1
    <3> HIDE DEF q, s
    <3>1. CASE i = n + 1
      BY <1>2, <1>3, <3>1
    <3>2. CASE i \in 1 .. n
      <4>1. p[i] \in 1 .. n /\ q[i] = IF p[i] <= b[s] THEN p[i] ELSE p[i] + 1
        BY <1>1, <1>3, <3>2
      <4> QED
        BY <4>1
    <3> QED
      BY <1>5, <3>1, <3>2
  <2>2. q = [i \in 1 .. n + 1 |-> q[i]]
    BY DEF Moved
  <2> HIDE DEF q
  <2> QED
    BY <2>1, <2>2
<1>7. \A t, u \in 1 .. 3 : t <= u => b[t] <= b[u]
  BY <1>1
<1>8. c \in [1 .. 3 -> 0 .. n + 1] /\ c[1] <= c[2] /\ c[3] = n + 1
  <2>1. \A t \in 1 .. 3 : c[t] \in 0 .. n + 1
    BY <1>1, <1>2, <1>4
  <2>2. c = [t \in 1 .. 3 |-> c[t]]
    BY DEF Grown
  <2>3. c[1] <= c[2] /\ c[3] = n + 1
    BY <1>1, <1>2, <1>4
  <2> HIDE DEF c
  <2> QED
    BY <2>1, <2>2, <2>3
<1> HIDE DEF s, q, c
<1>9. ASSUME NEW m \in 1 .. n + 1
      PROVE  \E i \in 1 .. n + 1 : q[i] = m
  <2>1. CASE m = b[s] + 1
    BY <1>3, <2>1
  <2>2. CASE m <= b[s]
    <3>1. PICK i \in 1 .. n : p[i] = m
      BY <1>1, <1>2, <2>2
    <3> QED
      BY <1>3, <2>2, <3>1
  <2>3. CASE m > b[s] + 1
    <3>1. PICK i \in 1 .. n : p[i] = m - 1
      BY <1>1, <1>2, <2>3
    <3>2. q[i] = m
      BY <1>2, <1>3, <2>3, <3>1
    <3> QED
      BY <3>2
  <2> QED
    BY <1>2, <2>1, <2>2, <2>3
<1>10. ASSUME NEW i \in 1 .. n + 1, NEW t \in 1 .. 3
       PROVE  Section(l[i]) <= t <=> q[i] <= c[t]
  <2>1. b[t] \in 0 .. n /\ (s <= t => b[s] <= b[t]) /\ (t <= s => b[t] <= b[s])
    BY <1>1, <1>2, <1>7
  <2>2. CASE i = n + 1
    <3>1. Section(l[i]) = s /\ q[i] = b[s] + 1
      BY <1>3, <2>2 DEF s
    <3> QED
      BY <1>2, <1>4, <2>1, <3>1
  <2>3. CASE i \in 1 .. n
    <3>1. /\ Section(l[i]) <= t <=> p[i] <= b[t]
          /\ Section(l[i]) <= s <=> p[i] <= b[s]
          /\ Section(l[i]) \in 1 .. 3 /\ p[i] \in 1 .. n
      BY <1>1, <1>2, <2>3
    <3>2. q[i] = IF p[i] <= b[s] THEN p[i] ELSE p[i] + 1
      BY <1>3, <2>3
    <3>3. c[t] = IF s <= t THEN b[t] + 1 ELSE b[t]
      BY <1>4
    <3> QED
      BY <1>2, <2>1, <3>1, <3>2, <3>3
  <2> QED
    BY <1>5, <2>2, <2>3
<1>11. ASSUME NEW i \in 1 .. n + 1, NEW j \in 1 .. n + 1, Ahead(l, i, j)
       PROVE  q[i] < q[j]
  <2>1. CASE i \in 1 .. n /\ j \in 1 .. n
    <3>1. p[i] < p[j] /\ p[i] \in 1 .. n /\ p[j] \in 1 .. n
      BY <1>1, <1>11, <2>1
    <3> QED
      BY <1>2, <1>3, <2>1, <3>1
  <2>2. CASE i = n + 1
    <3>1. j \in 1 .. n /\ s < Section(l[j])
      BY <1>2, <1>5, <1>11, <2>2 DEF Ahead, s
    <3>2. ~(p[j] <= b[s]) /\ p[j] \in 1 .. n
      <4>1. Section(l[j]) <= s <=> p[j] <= b[s]
        BY <1>1, <1>2, <3>1
      <4>2. p[j] \in 1 .. n /\ Section(l[j]) \in 1 .. 3
        BY <1>1, <1>2, <3>1
      <4> QED
        BY <1>2, <3>1, <4>1, <4>2
    <3> QED
      BY <1>2, <1>3, <2>2, <3>1, <3>2
  <2>3. CASE j = n + 1 /\ i \in 1 .. n
    <3>1. Section(l[i]) <= s
      BY <1>2, <1>11, <2>3 DEF Ahead, s
    <3>2. p[i] <= b[s] /\ p[i] \in 1 .. n
      BY <1>1, <1>2, <2>3, <3>1
    <3> QED
      BY <1>2, <1>3, <2>3, <3>2
  <2> QED
    BY <1>5, <2>1, <2>2, <2>3
<1> QED
  BY <1>6, <1>8, <1>9, <1>10, <1>11 DEF Places, q, c

(* The first definition of a section among the first n has that name.      *)
FirstOf(l, n, name, s) ==
  \/ name = NoNode /\ \A j \in 1 .. n : Section(l[j]) # s
  \/ \E f \in 1 .. n : /\ name = l[f].name /\ Section(l[f]) = s
                       /\ \A j \in 1 .. n : Section(l[j]) = s => f <= j

(* Of the first n, those in the sections after s begin with that column.   *)
LaterFrom(l, n, node, s) ==
  \/ node = NoNode /\ \A j \in 1 .. n : Section(l[j]) <= s
  \/ \E f \in 1 .. n : /\ node = l[f].name /\ ~(Section(l[f]) <= s)
                       /\ \A j \in 1 .. n : ~(Section(l[j]) <= s) => j = f \/ Ahead(l, f, j)

Distinct(l, n) ==
  /\ \A i \in 1 .. n : l[i].name # NoNode
  /\ \A i, j \in 1 .. n : l[i].name = l[j].name => i = j

(* Adding before that column is adding behind the section s.               *)
LEMMA AddedBehind ==
  ASSUME NEW l, NEW n \in Nat, NEW p, NEW b, Places(l, n, p, b), Distinct(l, n),
         NEW C, Len(C) = n, \A i \in 1 .. n : C[p[i]] = l[i].name,
         NEW node, NEW s \in 1 .. 3, LaterFrom(l, n, node, s), NEW x
  PROVE  AddBefore(C, node, x) = InsertAt(C, b[s] + 1, x)
<1> DEFINE k == b[s]
<1>1. /\ p \in [1 .. n -> 1 .. n] /\ k \in 0 .. n
      /\ \A m \in 1 .. n : \E i \in 1 .. n : p[i] = m
      /\ \A i \in 1 .. n : Section(l[i]) <= s <=> p[i] <= k
      /\ \A i, j \in 1 .. n : Ahead(l, i, j) => p[i] < p[j]
  BY DEF Places
<1> HIDE DEF k
<1>2. CASE node = NoNode
  <2>1. \A j \in 1 .. n : Section(l[j]) <= s
    BY <1>2 DEF LaterFrom, Distinct
  <2>2. \A m \in 1 .. n : m <= k
    BY <1>1, <2>1
  <2>3. k = n
    <3>1. n # 0 => n \in 1 .. n
      OBVIOUS
    <3>2. n # 0 => n <= k
      BY <2>2, <3>1
    <3> QED
      BY <1>1, <3>2
  <2> QED
    BY <1>2, <2>3 DEF AddBefore, k
<1>3. CASE node # NoNode
  <2>1. PICK f \in 1 .. n : /\ node = l[f].name /\ ~(Section(l[f]) <= s)
                            /\ \A j \in 1 .. n : ~(Section(l[j]) <= s) => j = f \/ Ahead(l, f, j)
    BY <1>3 DEF LaterFrom
  <2>2. p[f] \in 1 .. n /\ p[f] > k
    <3>1. p[f] \in 1 .. n /\ ~(p[f] <= k)
      BY <1>1, <2>1
    <3> QED
      BY <1>1, <3>1
  <2>3. p[f] = k + 1
    <3>1. k + 1 \in 1 .. n
      BY <1>1, <2>2
    <3>2. PICK i \in 1 .. n : p[i] = k + 1
      BY <1>1, <3>1
    <3>3. i = f \/ Ahead(l, f, i)
      <4>1. ~(p[i] <= k)
        BY <1>1, <3>2
      <4> QED
        BY <1>1, <2>1, <4>1
    <3>4. i = f \/ p[f] < p[i]
      BY <1>1, <3>3
    <3>5. ~(p[f] < k + 1)
      BY <1>1, <2>2
    <3> QED
      BY <3>2, <3>4, <3>5
  <2> DEFINE I == {m \in 1 .. Len(C) : C[m] = node}
  <2>4. I = {p[f]}
    <3>1. p[f] \in I
      BY <2>1, <2>2
    <3>2. ASSUME NEW m \in I
          PROVE  m = p[f]
      <4>1. PICK i \in 1 .. n : p[i] = m
        BY <1>1
      <4>2. l[i].name = l[f].name
        BY <2>1, <4>1
      <4> QED
        BY <4>1, <4>2 DEF Distinct
    <3> QED
      BY <3>1, <3>2
  <2>5. Min({p[f]}) = p[f]
    BY <2>2 DEF Min
  <2>6. SelectInSeq(C, LAMBDA m : m = node) = IF I # {} THEN Min(I) ELSE 0
    BY DEF SelectInSeq
  <2>7. SelectInSeq(C, LAMBDA m : m = node) = k + 1
    BY <2>3, <2>4, <2>5, <2>6
  <2> QED
    BY <1>3, <2>7, Zenon DEF AddBefore, k
<1> QED
  BY <1>2, <1>3

ColumnNames(l) == {l[i].name : i \in DOMAIN l}
KeysUpTo(l, n) == {i \in 1 .. n : l[i].key}
ReadOnlyUpTo(l, n) == {i \in 1 .. n : l[i].readOnly /\ ~l[i].key}

Arranged(l, n, list, p, b) ==
  /\ Places(l, n, p, b)
  /\ b[1] = Cardinality(KeysUpTo(l, n)) /\ n - b[2] = Cardinality(ReadOnlyUpTo(l, n))
  /\ list \in [columns : Seq(ColumnNames(l)), firstRegular : ColumnNames(l) \cup {NoNode},
               firstReadOnly : ColumnNames(l) \cup {NoNode}]
  /\ Len(list.columns) = n /\ \A i \in 1 .. n : list.columns[p[i]] = l[i].name
  /\ FirstOf(l, n, list.firstRegular, 2)
  /\ FirstOf(l, n, list.firstReadOnly, 3)

(* What Build is given: columns that can be told apart.                    *)
LEMMA DefinitionFacts ==
  ASSUME NEW l \in Definitions
  PROVE  /\ Len(l) \in Nat /\ DOMAIN l = 1 .. Len(l)
         /\ \A i \in 1 .. Len(l) : /\ l[i].name \in ColumnNames(l) /\ l[i].name # NoNode
                                   /\ l[i].key \in BOOLEAN /\ l[i].readOnly \in BOOLEAN
                                   /\ l[i].virtual \in BOOLEAN
         /\ \A n \in 0 .. Len(l) : Distinct(l, n)
<1> DEFINE D == [name : STRING \ {NoNode}, key : BOOLEAN, readOnly : BOOLEAN, virtual : BOOLEAN]
<1>1. l \in Seq(D) /\ \A i, j \in DOMAIN l : l[i].name = l[j].name => i = j
  BY DefinitionsAssumption
<1> HIDE DEF D
<1>2. Len(l) \in Nat /\ DOMAIN l = 1 .. Len(l) /\ \A i \in 1 .. Len(l) : l[i] \in D
  BY <1>1
<1>3. \A i \in 1 .. Len(l) : /\ l[i].name # NoNode /\ l[i].key \in BOOLEAN
                             /\ l[i].readOnly \in BOOLEAN /\ l[i].virtual \in BOOLEAN
  BY <1>2 DEF D
<1>4. \A i \in 1 .. Len(l) : l[i].name \in ColumnNames(l)
  BY <1>2 DEF ColumnNames
<1>5. ASSUME NEW n \in 0 .. Len(l)
      PROVE  Distinct(l, n)
  <2>1. \A i \in 1 .. n : i \in 1 .. Len(l)
    BY <1>2
  <2> QED
    BY <1>1, <1>2, <1>3, <2>1 DEF Distinct
<1> QED
  BY <1>2, <1>3, <1>4, <1>5

(* How many keys and read-only columns there are.                          *)
LEMMA CountedOn ==
  ASSUME NEW l, NEW n \in Nat
  PROVE  /\ Cardinality(KeysUpTo(l, n + 1)) =
              IF l[n + 1].key THEN Cardinality(KeysUpTo(l, n)) + 1 ELSE Cardinality(KeysUpTo(l, n))
         /\ Cardinality(ReadOnlyUpTo(l, n + 1)) =
              IF l[n + 1].readOnly /\ ~l[n + 1].key THEN Cardinality(ReadOnlyUpTo(l, n)) + 1
              ELSE Cardinality(ReadOnlyUpTo(l, n))
         /\ Cardinality(KeysUpTo(l, n)) \in Nat /\ Cardinality(ReadOnlyUpTo(l, n)) \in Nat
<1>1. IsFiniteSet(1 .. n)
  BY FS_Interval
<1>2. IsFiniteSet(KeysUpTo(l, n)) /\ IsFiniteSet(ReadOnlyUpTo(l, n))
  BY <1>1, FS_Subset DEF KeysUpTo, ReadOnlyUpTo
<1>3. /\ KeysUpTo(l, n + 1) = IF l[n + 1].key THEN KeysUpTo(l, n) \cup {n + 1} ELSE KeysUpTo(l, n)
      /\ n + 1 \notin KeysUpTo(l, n)
  BY DEF KeysUpTo
<1>4. /\ ReadOnlyUpTo(l, n + 1) = IF l[n + 1].readOnly /\ ~l[n + 1].key
                                    THEN ReadOnlyUpTo(l, n) \cup {n + 1} ELSE ReadOnlyUpTo(l, n)
      /\ n + 1 \notin ReadOnlyUpTo(l, n)
  BY DEF ReadOnlyUpTo
<1> QED
  BY <1>2, <1>3, <1>4, FS_AddElement, FS_CardinalityType

(* The first column of a section, with one more definition.                *)
LEMMA FirstOfMore ==
  ASSUME NEW l, NEW n \in Nat, NEW name, NEW s, FirstOf(l, n, name, s)
  PROVE  /\ Section(l[n + 1]) # s => FirstOf(l, n + 1, name, s)
         /\ name # NoNode => FirstOf(l, n + 1, name, s)
         /\ Section(l[n + 1]) = s /\ (\A f \in 1 .. n : l[f].name # NoNode)
              => FirstOf(l, n + 1, IF name = NoNode THEN l[n + 1].name ELSE name, s)
<1>1. \A i \in 1 .. n + 1 : i = n + 1 \/ i \in 1 .. n
  OBVIOUS
<1>2. n + 1 \in 1 .. n + 1 /\ \A i \in 1 .. n : i \in 1 .. n + 1 /\ i <= n + 1
  OBVIOUS
<1>3. ASSUME NEW f \in 1 .. n, name = l[f].name, Section(l[f]) = s,
             \A j \in 1 .. n : Section(l[j]) = s => f <= j
      PROVE  FirstOf(l, n + 1, name, s)
  BY <1>1, <1>2, <1>3 DEF FirstOf
<1>4. ASSUME name = NoNode, \A j \in 1 .. n : Section(l[j]) # s
      PROVE  /\ Section(l[n + 1]) # s => FirstOf(l, n + 1, name, s)
             /\ Section(l[n + 1]) = s => FirstOf(l, n + 1, l[n + 1].name, s)
  BY <1>1, <1>2, <1>4 DEF FirstOf
<1> QED
  BY <1>3, <1>4 DEF FirstOf

(* The nodes before which Build inserts are those of the later sections.   *)
LEMMA LaterThanKeys ==
  ASSUME NEW l, NEW n \in Nat, NEW r, NEW o, FirstOf(l, n, r, 2), FirstOf(l, n, o, 3), Distinct(l, n)
  PROVE  /\ LaterFrom(l, n, IF r # NoNode THEN r ELSE o, 1)
         /\ LaterFrom(l, n, o, 2)
<1>1. \A j \in 1 .. n : Section(l[j]) \in 1 .. 3
  BY SectionOf
<1>2. LaterFrom(l, n, o, 2)
  <2>1. CASE o = NoNode
    BY <1>1, <2>1 DEF FirstOf, LaterFrom, Distinct
  <2>2. CASE o # NoNode
    <3>1. PICK f \in 1 .. n : /\ o = l[f].name /\ Section(l[f]) = 3
                              /\ \A j \in 1 .. n : Section(l[j]) = 3 => f <= j
      BY <2>2 DEF FirstOf
    <3>2. \A j \in 1 .. n : ~(Section(l[j]) <= 2) => j = f \/ Ahead(l, f, j)
      BY <1>1, <3>1 DEF Ahead
    <3> QED
      BY <3>1, <3>2 DEF LaterFrom
  <2> QED
    BY <2>1, <2>2
<1>3. CASE r # NoNode
  <2>1. PICK f \in 1 .. n : /\ r = l[f].name /\ Section(l[f]) = 2
                            /\ \A j \in 1 .. n : Section(l[j]) = 2 => f <= j
    BY <1>3 DEF FirstOf
  <2>2. \A j \in 1 .. n : ~(Section(l[j]) <= 1) => j = f \/ Ahead(l, f, j)
    BY <1>1, <2>1 DEF Ahead
  <2>3. LaterFrom(l, n, r, 1)
    BY <2>1, <2>2 DEF LaterFrom
  <2> QED
    BY <1>2, <1>3, <2>3
<1>4. CASE r = NoNode
  <2>1. \A j \in 1 .. n : Section(l[j]) # 2
    BY <1>4 DEF FirstOf, Distinct
  <2>2. \A j \in 1 .. n : Section(l[j]) <= 1 <=> Section(l[j]) <= 2
    BY <1>1, <2>1
  <2>3. LaterFrom(l, n, o, 1)
    BY <1>2, <2>2 DEF LaterFrom
  <2> QED
    BY <1>2, <1>4, <2>3
<1> QED
  BY <1>3, <1>4

(* One turn of Build's loop keeps the columns arranged.                    *)
LEMMA OneMoreArranged ==
  ASSUME NEW l \in Definitions, NEW n \in 0 .. Len(l) - 1, NEW list, NEW p, NEW b,
         Arranged(l, n, list, p, b)
  PROVE  Arranged(l, n + 1, PlaceColumn(list, l[n + 1]), Moved(l, n, p, b), Grown(l, n, b))
<1> DEFINE d == l[n + 1]
           s == Section(d)
           q == Moved(l, n, p, b)
           c == Grown(l, n, b)
           new == PlaceColumn(list, d)
           C == list.columns
           R == ColumnNames(l)
<1>1. /\ n \in Nat /\ n + 1 \in 1 .. Len(l) /\ n + 1 \in 0 .. Len(l) /\ n \in 0 .. Len(l)
      /\ \A i \in 1 .. n : i \in 1 .. Len(l)
  BY DefinitionFacts
<1>2. /\ d.name \in R /\ d.name # NoNode /\ d.key \in BOOLEAN /\ d.readOnly \in BOOLEAN
      /\ Distinct(l, n)
  BY <1>1, DefinitionFacts
<1>3. /\ Places(l, n, p, b)
      /\ b[1] = Cardinality(KeysUpTo(l, n)) /\ n - b[2] = Cardinality(ReadOnlyUpTo(l, n))
      /\ C \in Seq(R) /\ list.firstRegular \in R \cup {NoNode} /\ list.firstReadOnly \in R \cup {NoNode}
      /\ list = [columns |-> C, firstRegular |-> list.firstRegular, firstReadOnly |-> list.firstReadOnly]
      /\ Len(C) = n /\ \A i \in 1 .. n : C[p[i]] = l[i].name
      /\ FirstOf(l, n, list.firstRegular, 2) /\ FirstOf(l, n, list.firstReadOnly, 3)
  BY DEF Arranged
<1>4. s \in 1 .. 3 /\ s = (IF d.key THEN 1 ELSE IF d.readOnly THEN 3 ELSE 2)
  BY DEF Section
<1>5. p \in [1 .. n -> 1 .. n] /\ b \in [1 .. 3 -> 0 .. n] /\ b[3] = n
  BY <1>3 DEF Places
<1>6. Places(l, n + 1, q, c)
  BY <1>1, <1>3, OneMorePlaced
<1>7. b[s] + 1 \in 1 .. Len(C) + 1
  BY <1>3, <1>4, <1>5
<1>8. new = [columns |-> InsertAt(C, b[s] + 1, d.name),
             firstRegular |-> IF s = 2 /\ list.firstRegular = NoNode THEN d.name ELSE list.firstRegular,
             firstReadOnly |-> IF s = 3 /\ list.firstReadOnly = NoNode THEN d.name ELSE list.firstReadOnly]
  <2> DEFINE before == IF list.firstRegular # NoNode THEN list.firstRegular ELSE list.firstReadOnly
  <2>1. LaterFrom(l, n, before, 1) /\ LaterFrom(l, n, list.firstReadOnly, 2)
    BY <1>1, <1>2, <1>3, LaterThanKeys
  <2>2. /\ AddBefore(C, before, d.name) = InsertAt(C, b[1] + 1, d.name)
        /\ AddBefore(C, list.firstReadOnly, d.name) = InsertAt(C, b[2] + 1, d.name)
    <3> HIDE DEF before, d, C
    <3>1. 1 \in 1 .. 3 /\ 2 \in 1 .. 3
      OBVIOUS
    <3> QED
      BY <1>1, <1>2, <1>3, <2>1, <3>1, AddedBehind
  <2>3. Append(C, d.name) = InsertAt(C, b[3] + 1, d.name)
    <3>1. InsertAt(C, n + 1, d.name) = SubSeq(C, 1, n) \o <<d.name>> \o SubSeq(C, n + 1, n)
      BY <1>1, <1>3 DEF InsertAt
    <3>2. SubSeq(C, 1, n) = C
      BY <1>1, <1>3
    <3>3. SubSeq(C, n + 1, n) = <<>>
      BY <1>1, <1>3
    <3>4. C \o <<d.name>> = Append(C, d.name)
      BY <1>2, <1>3
    <3>5. Append(C, d.name) \o <<>> = Append(C, d.name)
      <4>1. Append(C, d.name) \in Seq(R)
        BY <1>2, <1>3
      <4> QED
        BY <4>1
    <3> QED
      BY <1>5, <3>1, <3>2, <3>3, <3>4, <3>5
  <2> DEFINE r == list.firstRegular
             o == list.firstReadOnly
  <2>4. list = [columns |-> C, firstRegular |-> r, firstReadOnly |-> o]
    BY <1>3
  <2> HIDE DEF d, C, r, o
  <2>5. CASE d.key
    <3>1. new = [list EXCEPT !.columns = AddBefore(C, before, d.name)]
      BY <2>5 DEF PlaceColumn, C
    <3>2. s = 1
      BY <1>4, <2>5
    <3> QED
      BY <2>2, <2>4, <3>1, <3>2 DEF r, o
  <2>6. CASE ~d.key /\ d.readOnly
    <3>1. new = [list EXCEPT !.columns = Append(C, d.name),
                             !.firstReadOnly = IF o = NoNode THEN d.name ELSE o]
      BY <2>6 DEF PlaceColumn, C, o
    <3>2. s = 3
      BY <1>4, <2>6
    <3>3. new = [columns |-> Append(C, d.name), firstRegular |-> r,
                 firstReadOnly |-> IF o = NoNode THEN d.name ELSE o]
      <4> HIDE DEF new
      <4> QED
        BY <2>4, <3>1
    <3> HIDE DEF new, s
    <3> QED
      BY <2>3, <3>2, <3>3 DEF r, o
  <2>7. CASE ~d.key /\ ~d.readOnly
    <3>1. new = [list EXCEPT !.columns = AddBefore(C, o, d.name),
                             !.firstRegular = IF r = NoNode THEN d.name ELSE r]
      BY <2>7 DEF PlaceColumn, C, r, o
    <3>2. s = 2
      BY <1>4, <2>7
    <3>3. new = [columns |-> AddBefore(C, o, d.name),
                 firstRegular |-> IF r = NoNode THEN d.name ELSE r, firstReadOnly |-> o]
      <4> HIDE DEF new
      <4> QED
        BY <2>4, <3>1
    <3> HIDE DEF new, s
    <3> QED
      BY <2>2, <3>2, <3>3 DEF r, o
  <2> QED
    BY <2>5, <2>6, <2>7
<1> HIDE DEF new, C, q, c
<1>9. /\ new.columns \in Seq(R) /\ Len(new.columns) = n + 1
      /\ new.columns[b[s] + 1] = d.name
      /\ \A m \in 1 .. b[s] : new.columns[m] = C[m]
      /\ \A m \in b[s] + 1 .. n : new.columns[m + 1] = C[m]
  <2>1. new.columns = InsertAt(C, b[s] + 1, d.name) /\ Len(C) = n /\ C \in Seq(R)
    BY <1>3, <1>8
  <2> DEFINE at == b[s] + 1
  <2>2. at \in 1 .. Len(C) + 1 /\ at - 1 = b[s]
    BY <1>4, <1>5, <1>7
  <2> HIDE DEF at, d, s
  <2>3. /\ InsertAt(C, at, d.name) \in Seq(R) /\ Len(InsertAt(C, at, d.name)) = Len(C) + 1
        /\ InsertAt(C, at, d.name)[at] = d.name
        /\ \A m \in 1 .. at - 1 : InsertAt(C, at, d.name)[m] = C[m]
        /\ \A m \in at .. Len(C) : InsertAt(C, at, d.name)[m + 1] = C[m]
    <3>1. PICK x \in R : x = d.name
      BY <1>2
    <3>2. PICK D \in Seq(R) : D = C
      BY <2>1
    <3> HIDE DEF R
    <3>3. at \in 1 .. Len(D) + 1
      BY <2>2, <3>2
    <3> QED
      BY <3>1, <3>2, <3>3, InsertedElements
  <2> QED
    BY <2>1, <2>2, <2>3 DEF at
<1>10. ASSUME NEW i \in 1 .. n + 1
       PROVE  new.columns[q[i]] = l[i].name
  <2> HIDE DEF s
  <2>1. /\ q[n + 1] = b[s] + 1
        /\ \A j \in 1 .. n : q[j] = IF p[j] <= b[s] THEN p[j] ELSE p[j] + 1
    BY <1>1 DEF q, Moved, s, d
  <2>2. CASE i = n + 1
    BY <1>9, <2>1, <2>2
  <2>3. CASE i \in 1 .. n
    <3>1. C[p[i]] = l[i].name /\ p[i] \in 1 .. n /\ b[s] \in 0 .. n
      BY <1>3, <1>4, <1>5, <2>3
    <3>2. CASE p[i] <= b[s]
      <4>1. p[i] \in 1 .. b[s]
        BY <3>1, <3>2
      <4> QED
        BY <1>9, <2>1, <2>3, <3>1, <3>2, <4>1
    <3>3. CASE ~(p[i] <= b[s])
      <4>1. p[i] \in b[s] + 1 .. n
        BY <3>1, <3>3
      <4> QED
        BY <1>9, <2>1, <2>3, <3>1, <3>3, <4>1
    <3> QED
      BY <3>2, <3>3
  <2> QED
    BY <1>1, <2>2, <2>3
<1>11. /\ c[1] = Cardinality(KeysUpTo(l, n + 1))
       /\ (n + 1) - c[2] = Cardinality(ReadOnlyUpTo(l, n + 1))
  <2>1. c[1] = (IF s <= 1 THEN b[1] + 1 ELSE b[1]) /\ c[2] = (IF s <= 2 THEN b[2] + 1 ELSE b[2])
    BY DEF c, Grown
  <2>2. /\ Cardinality(KeysUpTo(l, n + 1)) = IF d.key THEN b[1] + 1 ELSE b[1]
        /\ Cardinality(ReadOnlyUpTo(l, n + 1)) = IF d.readOnly /\ ~d.key THEN n - b[2] + 1 ELSE n - b[2]
    BY <1>1, <1>3, CountedOn
  <2>3. b[1] \in 0 .. n /\ b[2] \in 0 .. n
    BY <1>5
  <2> HIDE DEF s, d
  <2> QED
    BY <1>1, <1>2, <1>4, <2>1, <2>2, <2>3
<1>12. /\ FirstOf(l, n + 1, new.firstRegular, 2)
       /\ FirstOf(l, n + 1, new.firstReadOnly, 3)
  <2>1. \A f \in 1 .. n : l[f].name # NoNode
    BY <1>2 DEF Distinct
  <2>2. /\ new.firstRegular = IF s = 2 /\ list.firstRegular = NoNode THEN d.name ELSE list.firstRegular
        /\ new.firstReadOnly = IF s = 3 /\ list.firstReadOnly = NoNode THEN d.name ELSE list.firstReadOnly
    BY <1>8
  <2>3. FirstOf(l, n + 1, new.firstRegular, 2)
    BY <1>1, <1>3, <2>1, <2>2, FirstOfMore
  <2>4. FirstOf(l, n + 1, new.firstReadOnly, 3)
    BY <1>1, <1>3, <2>1, <2>2, FirstOfMore
  <2> QED
    BY <2>3, <2>4
<1>13. new \in [columns : Seq(R), firstRegular : R \cup {NoNode}, firstReadOnly : R \cup {NoNode}]
  <2> DEFINE x == IF s = 2 /\ list.firstRegular = NoNode THEN d.name ELSE list.firstRegular
             y == IF s = 3 /\ list.firstReadOnly = NoNode THEN d.name ELSE list.firstReadOnly
  <2>1. new = [columns |-> new.columns, firstRegular |-> x, firstReadOnly |-> y]
    BY <1>8
  <2>2. x \in R \cup {NoNode} /\ y \in R \cup {NoNode}
    BY <1>2, <1>3
  <2> HIDE DEF x, y, R
  <2> QED
    BY <1>9, <2>1, <2>2
<1>14. Arranged(l, n + 1, new, q, c)
  <2>1. Len(new.columns) = n + 1 /\ \A i \in 1 .. n + 1 : new.columns[q[i]] = l[i].name
    BY <1>9, <1>10
  <2>2. new \in [columns : Seq(ColumnNames(l)), firstRegular : ColumnNames(l) \cup {NoNode},
                firstReadOnly : ColumnNames(l) \cup {NoNode}]
    BY <1>13
  <2> HIDE DEF d, s, R
  <2> QED
    BY <1>6, <1>11, <1>12, <2>1, <2>2, Zenon DEF Arranged
<1> QED
  BY <1>14 DEF new, q, c

(* An empty list is arranged.                                              *)
LEMMA NothingArranged ==
  ASSUME NEW l
  PROVE  Arranged(l, 0, EmptyList, [i \in 1 .. 0 |-> i], [s \in 1 .. 3 |-> 0])
<1>1. KeysUpTo(l, 0) = {} /\ ReadOnlyUpTo(l, 0) = {}
  BY DEF KeysUpTo, ReadOnlyUpTo
<1>2. Cardinality(KeysUpTo(l, 0)) = 0 /\ Cardinality(ReadOnlyUpTo(l, 0)) = 0
  BY <1>1, FS_EmptySet
<1>3. Places(l, 0, [i \in 1 .. 0 |-> i], [s \in 1 .. 3 |-> 0])
  BY DEF Places
<1>4. FirstOf(l, 0, NoNode, 2) /\ FirstOf(l, 0, NoNode, 3)
  BY DEF FirstOf
<1>5. <<>> \in Seq(ColumnNames(l)) /\ Len(<<>>) = 0
  OBVIOUS
<1>6. /\ EmptyList \in [columns : Seq(ColumnNames(l)), firstRegular : ColumnNames(l) \cup {NoNode},
                        firstReadOnly : ColumnNames(l) \cup {NoNode}]
      /\ EmptyList.columns = <<>> /\ EmptyList.firstRegular = NoNode /\ EmptyList.firstReadOnly = NoNode
  BY <1>5 DEF EmptyList
<1> QED
  BY <1>2, <1>3, <1>4, <1>5, <1>6 DEF Arranged

(* So the list is arranged after all of them.                              *)
LEMMA BuildArranges ==
  ASSUME NEW l \in Definitions
  PROVE  \E p, b : Arranged(l, Len(l), ListUpTo(l)[Len(l)], p, b)
<1> DEFINE S == {n \in 0 .. Len(l) : \E p, b : Arranged(l, n, ListUpTo(l)[n], p, b)}
<1>1. Len(l) \in Nat
  BY DefinitionFacts
<1>2. /\ ListUpTo(l)[0] = EmptyList
      /\ \A n \in 1 .. Len(l) : ListUpTo(l)[n] = PlaceColumn(ListUpTo(l)[n - 1], l[n])
  BY <1>1, ListIsBuilt
<1>3. 0 \in S
  <2>1. 0 \in 0 .. Len(l)
    BY <1>1
  <2>2. Arranged(l, 0, ListUpTo(l)[0], [i \in 1 .. 0 |-> i], [s \in 1 .. 3 |-> 0])
    BY <1>2, NothingArranged
  <2> QED
    BY <2>1, <2>2
<1>4. ASSUME NEW k \in 1 .. Len(l), k - 1 \in S
      PROVE  k \in S
  <2>1. PICK n \in 0 .. Len(l) - 1 : n = k - 1
    BY <1>1
  <2>2. n + 1 = k /\ k \in 0 .. Len(l)
    BY <1>1, <2>1
  <2>3. PICK p, b : Arranged(l, n, ListUpTo(l)[n], p, b)
    BY <1>4, <2>1
  <2>4. Arranged(l, n + 1, PlaceColumn(ListUpTo(l)[n], l[n + 1]), Moved(l, n, p, b), Grown(l, n, b))
    BY <2>3, OneMoreArranged
  <2>5. Arranged(l, k, ListUpTo(l)[k], Moved(l, n, p, b), Grown(l, n, b))
    BY <1>2, <2>1, <2>2, <2>4
  <2> QED
    BY <2>2, <2>5
<1> HIDE DEF S
<1>5. \A k \in 1 .. Len(l) : k - 1 \in S => k \in S
  BY <1>4
<1>6. \A k \in 0 .. Len(l) : k \in S
  BY <1>1, <1>3, <1>5, CountUp, Zenon
<1>7. Len(l) \in S
  BY <1>1, <1>6
<1> QED
  BY <1>7 DEF S

(* The columns as Build leaves them.                                       *)
LEMMA BuiltColumns ==
  ASSUME NEW l \in Definitions
  PROVE  \E p, b : /\ Places(l, Len(l), p, b)
                   /\ b[1] = KeyCount(l) /\ Len(l) - b[2] = ReadOnlyCount(l)
                   /\ Build(l) \in Seq(ColumnNames(l)) /\ Len(Build(l)) = Len(l)
                   /\ \A i \in 1 .. Len(l) : Build(l)[p[i]] = l[i].name
<1>1. PICK p, b : Arranged(l, Len(l), ListUpTo(l)[Len(l)], p, b)
  BY BuildArranges
<1>2. KeysUpTo(l, Len(l)) = {i \in DOMAIN l : l[i].key}
  BY DefinitionFacts DEF KeysUpTo
<1>3. ReadOnlyUpTo(l, Len(l)) = {i \in DOMAIN l : l[i].readOnly /\ ~l[i].key}
  BY DefinitionFacts DEF ReadOnlyUpTo
<1>4. /\ Places(l, Len(l), p, b)
      /\ b[1] = KeyCount(l) /\ Len(l) - b[2] = ReadOnlyCount(l)
  BY <1>1, <1>2, <1>3 DEF Arranged, KeyCount, ReadOnlyCount
<1>5. /\ Build(l) \in Seq(ColumnNames(l)) /\ Len(Build(l)) = Len(l)
      /\ \A i \in 1 .. Len(l) : Build(l)[p[i]] = l[i].name
  BY <1>1 DEF Arranged, Build
<1> QED
  BY <1>4, <1>5

(* The columns are in their sections, and each of them is there once.      *)
LEMMA InSections ==
  ASSUME NEW l \in Definitions
  PROVE  /\ Len(Build(l)) = Len(l) /\ DOMAIN Build(l) = 1 .. Len(l)
         /\ ToSet(Build(l)) = ColumnNames(l)
         /\ \A i, j \in DOMAIN l : Ahead(l, i, j) =>
              \E m, n \in DOMAIN Build(l) :
                m < n /\ Build(l)[m] = l[i].name /\ Build(l)[n] = l[j].name
<1>1. PICK p, b : /\ Places(l, Len(l), p, b)
                  /\ Build(l) \in Seq(ColumnNames(l)) /\ Len(Build(l)) = Len(l)
                  /\ \A i \in 1 .. Len(l) : Build(l)[p[i]] = l[i].name
  BY BuiltColumns
<1>2. /\ p \in [1 .. Len(l) -> 1 .. Len(l)]
      /\ \A m \in 1 .. Len(l) : \E i \in 1 .. Len(l) : p[i] = m
      /\ \A i, j \in 1 .. Len(l) : Ahead(l, i, j) => p[i] < p[j]
  BY <1>1 DEF Places
<1>3. DOMAIN l = 1 .. Len(l) /\ DOMAIN Build(l) = 1 .. Len(l)
  BY <1>1, DefinitionFacts
<1>4. ToSet(Build(l)) = ColumnNames(l)
  <2>1. \A i \in 1 .. Len(l) : p[i] \in 1 .. Len(l)
    BY <1>2
  <2>2. \A m \in 1 .. Len(l) : \E i \in 1 .. Len(l) : Build(l)[m] = l[i].name
    BY <1>1, <1>2
  <2>3. \A i \in 1 .. Len(l) : \E m \in 1 .. Len(l) : Build(l)[m] = l[i].name
    BY <1>1, <2>1
  <2>4. /\ ToSet(Build(l)) = {Build(l)[m] : m \in 1 .. Len(l)}
        /\ ColumnNames(l) = {l[i].name : i \in 1 .. Len(l)}
    BY <1>3, Zenon DEF ToSet, ColumnNames
  <2>5. ToSet(Build(l)) \subseteq ColumnNames(l)
    BY <2>2, <2>4
  <2>6. ColumnNames(l) \subseteq ToSet(Build(l))
    <3> SUFFICES ASSUME NEW i \in 1 .. Len(l)
                 PROVE  l[i].name \in ToSet(Build(l))
      BY <2>4
    <3>1. PICK m \in 1 .. Len(l) : Build(l)[m] = l[i].name
      BY <2>3
    <3> QED
      BY <2>4, <3>1
  <2> QED
    BY <2>5, <2>6
<1>5. ASSUME NEW i \in DOMAIN l, NEW j \in DOMAIN l, Ahead(l, i, j)
      PROVE  \E m, n \in DOMAIN Build(l) :
               m < n /\ Build(l)[m] = l[i].name /\ Build(l)[n] = l[j].name
  <2>1. p[i] \in 1 .. Len(l) /\ p[j] \in 1 .. Len(l) /\ p[i] < p[j]
    BY <1>2, <1>3, <1>5
  <2> QED
    BY <1>1, <1>3, <2>1
<1> QED
  BY <1>1, <1>3, <1>4, <1>5

(* Among the keys only the first may be one that the database generates    *)
(* for a property without setter: an INSERT leaves out any other.          *)
FirstKeyGenerated(l) ==
  \A i, j \in DOMAIN l : i < j /\ l[i].key /\ l[j].key => ~l[j].readOnly

(* The columns an INSERT leaves out are the read-only ones at the end.     *)
LEMMA ReadOnlyBehind ==
  ASSUME NEW l \in Definitions, FirstKeyGenerated(l)
  PROVE  /\ KeyCount(l) \in 1 .. LastRegularColumn(l)
         /\ LastRegularColumn(l) \in 1 .. Len(l)
         /\ \A m \in 1 .. Len(l) : m <= LastRegularColumn(l) =>
              m = 1 \/ Build(l)[m] \notin ReadOnlyNames(l)
         /\ \A m \in 1 .. Len(l) : m > LastRegularColumn(l) =>
              m # 1 /\ Build(l)[m] \in ReadOnlyNames(l)
<1>1. PICK p, b : /\ Places(l, Len(l), p, b)
                  /\ b[1] = KeyCount(l) /\ Len(l) - b[2] = ReadOnlyCount(l)
                  /\ Build(l) \in Seq(ColumnNames(l)) /\ Len(Build(l)) = Len(l)
                  /\ \A i \in 1 .. Len(l) : Build(l)[p[i]] = l[i].name
  BY BuiltColumns
<1>2. /\ p \in [1 .. Len(l) -> 1 .. Len(l)]
      /\ b \in [1 .. 3 -> 0 .. Len(l)] /\ b[1] <= b[2]
      /\ \A m \in 1 .. Len(l) : \E i \in 1 .. Len(l) : p[i] = m
      /\ \A i \in 1 .. Len(l) : \A s \in 1 .. 3 : Section(l[i]) <= s <=> p[i] <= b[s]
      /\ \A i, j \in 1 .. Len(l) : Ahead(l, i, j) => p[i] < p[j]
  BY <1>1 DEF Places
<1>3. /\ Len(l) \in Nat /\ DOMAIN l = 1 .. Len(l) /\ Distinct(l, Len(l))
      /\ \A i \in 1 .. Len(l) : l[i].key \in BOOLEAN /\ l[i].readOnly \in BOOLEAN
  <2>1. Len(l) \in 0 .. Len(l)
    BY DefinitionFacts
  <2> QED
    BY <2>1, DefinitionFacts
<1> DEFINE k == b[1]
           e == b[2]
<1>4. k \in 0 .. Len(l) /\ e \in 0 .. Len(l) /\ k <= e
  BY <1>2
<1>5. /\ \A i \in 1 .. Len(l) : Section(l[i]) <= 1 <=> p[i] <= k
      /\ \A i \in 1 .. Len(l) : Section(l[i]) <= 2 <=> p[i] <= e
  BY <1>2
<1>6. k = KeyCount(l) /\ k >= 1
  BY <1>1, DefinitionsAssumption
<1> HIDE DEF k, e
<1>7. e = LastRegularColumn(l)
  <2>1. Len(l) - e = ReadOnlyCount(l)
    BY <1>1 DEF e
  <2> QED
    BY <1>1, <1>3, <1>4, <2>1 DEF LastRegularColumn
<1>8. ASSUME NEW m \in 1 .. Len(l), m <= e, m # 1
      PROVE  Build(l)[m] \notin ReadOnlyNames(l)
  <2>1. PICK i \in 1 .. Len(l) : p[i] = m
    BY <1>2
  <2>2. Build(l)[m] = l[i].name /\ Section(l[i]) <= 2
    BY <1>1, <1>5, <1>8, <2>1
  <2>3. ~l[i].readOnly
    <3>1. CASE ~l[i].key
      BY <1>3, <2>2, <3>1 DEF Section
    <3>2. CASE l[i].key
      <4>1. 1 \in 1 .. Len(l)
        BY <1>3, <1>8
      <4>2. PICK j \in 1 .. Len(l) : p[j] = 1
        BY <1>2, <4>1
      <4>3. Section(l[i]) = 1
        BY <3>2 DEF Section
      <4>4. l[j].key /\ Section(l[j]) = 1
        <5>1. Section(l[j]) <= 1
          BY <1>4, <1>5, <1>6, <4>2
        <5> QED
          BY <5>1 DEF Section
      <4>5. ~Ahead(l, i, j)
        BY <1>2, <1>8, <2>1, <4>2
      <4>6. j < i
        BY <1>8, <2>1, <4>2, <4>3, <4>4, <4>5 DEF Ahead
      <4> QED
        BY <1>3, <3>2, <4>4, <4>6 DEF FirstKeyGenerated
    <3> QED
      BY <3>1, <3>2
  <2>4. \A j \in 1 .. Len(l) : l[j].name = l[i].name => j = i
    BY <1>3 DEF Distinct
  <2> QED
    BY <1>3, <2>2, <2>3, <2>4 DEF ReadOnlyNames
<1>9. ASSUME NEW m \in 1 .. Len(l), m > e
      PROVE  m # 1 /\ Build(l)[m] \in ReadOnlyNames(l)
  <2>1. PICK i \in 1 .. Len(l) : p[i] = m
    BY <1>2
  <2>2. Build(l)[m] = l[i].name /\ ~(Section(l[i]) <= 2)
    <3>1. ~(p[i] <= e)
      BY <1>4, <1>9, <2>1
    <3> QED
      BY <1>1, <1>5, <2>1, <3>1
  <2>3. l[i].readOnly
    BY <2>2 DEF Section
  <2> QED
    BY <1>3, <1>4, <1>6, <1>9, <2>2, <2>3 DEF ReadOnlyNames
<1> QED
  BY <1>4, <1>6, <1>7, <1>8, <1>9

(* A part of a sequence that is empty, or one longer than another.         *)
LEMMA OneLonger ==
  ASSUME NEW R, NEW s \in Seq(R), NEW a \in Nat \ {0}, NEW k \in 1 .. Len(s)
  PROVE  /\ k < a => SubSeq(s, a, k) = <<>>
         /\ a <= k => SubSeq(s, a, k) = Append(SubSeq(s, a, k - 1), s[k])
<1>1. ASSUME k < a
      PROVE  SubSeq(s, a, k) = <<>>
  BY <1>1
<1>2. ASSUME a <= k
      PROVE  SubSeq(s, a, k) = Append(SubSeq(s, a, k - 1), s[k])
  BY <1>2
<1> QED
  BY <1>1, <1>2

(* An INSERT provides the values of the columns that it names.             *)
LEMMA InsertedAsListed ==
  ASSUME NEW l \in Definitions, FirstKeyGenerated(l), NEW skip \in BOOLEAN
  PROVE  InsertedColumns(l, skip) = ColumnListString(l, ~skip)
<1> DEFINE B == Build(l)
           e == LastRegularColumn(l)
           first == IF skip THEN RegularColumnsOffset(l) + 1 ELSE 1
           upTo(k) == IF k <= e THEN k ELSE e
<1>1. /\ KeyCount(l) \in 1 .. e /\ e \in 1 .. Len(l)
      /\ \A m \in 1 .. Len(l) : m <= e => m = 1 \/ B[m] \notin ReadOnlyNames(l)
      /\ \A m \in 1 .. Len(l) : m > e => m # 1 /\ B[m] \in ReadOnlyNames(l)
  BY ReadOnlyBehind
<1>2. B \in Seq(ColumnNames(l)) /\ Len(B) = Len(l) /\ Len(l) \in Nat
  BY BuiltColumns, DefinitionFacts
<1>3. first \in Nat \ {0} /\ first <= e + 1 /\ first = IF ~skip THEN 1 ELSE RegularColumnsOffset(l) + 1
  BY <1>1 DEF RegularColumnsOffset
<1> HIDE DEF first, e
<1>4. PICK f : /\ \A n \in 0 .. Len(B) :
                    f[n] = IF n < first THEN <<>>
                           ELSE IF n = 1 \/ B[n] \notin ReadOnlyNames(l) THEN Append(f[n - 1], B[n])
                           ELSE f[n - 1]
               /\ ColumnListString(l, ~skip) = f[Len(B)]
  BY <1>2, <1>3, ColumnsAreListed
<1> HIDE DEF B
<1> DEFINE S == {k \in 0 .. Len(l) : f[k] = SubSeq(B, first, upTo(k))}
<1>5. 0 \in S
  <2>1. f[0] = <<>> /\ 0 \in 0 .. Len(l)
    BY <1>2, <1>3, <1>4
  <2>2. SubSeq(B, first, 0) = <<>>
    BY <1>2, <1>3
  <2>3. upTo(0) = 0
    BY <1>1
  <2> QED
    BY <2>1, <2>2, <2>3
<1>6. ASSUME NEW k \in 1 .. Len(l), k - 1 \in S
      PROVE  k \in S
  <2>1. f[k - 1] = SubSeq(B, first, upTo(k - 1))
    BY <1>6
  <2>2. f[k] = IF k < first THEN <<>>
               ELSE IF k = 1 \/ B[k] \notin ReadOnlyNames(l) THEN Append(f[k - 1], B[k])
               ELSE f[k - 1]
    <3>1. k \in 0 .. Len(B)
      BY <1>2
    <3> QED
      BY <1>4, <3>1
  <2>3. /\ k < first => SubSeq(B, first, k) = <<>>
        /\ first <= k => SubSeq(B, first, k) = Append(SubSeq(B, first, k - 1), B[k])
    <3>1. k \in 1 .. Len(B)
      BY <1>2
    <3> QED
      BY <1>2, <1>3, <3>1, OneLonger
  <2>4. CASE k <= e
    <3>1. upTo(k) = k /\ upTo(k - 1) = k - 1
      BY <1>1, <2>4
    <3>2. k = 1 \/ B[k] \notin ReadOnlyNames(l)
      BY <1>1, <2>4
    <3>3. k < first \/ first <= k
      BY <1>3
    <3>4. f[k] = SubSeq(B, first, k)
      BY <1>3, <2>1, <2>2, <2>3, <3>1, <3>2, <3>3
    <3> QED
      BY <1>2, <3>1, <3>4
  <2>5. CASE k > e
    <3>1. upTo(k) = e /\ upTo(k - 1) = e
      BY <1>1, <2>5
    <3>2. k # 1 /\ B[k] \in ReadOnlyNames(l) /\ ~(k < first)
      BY <1>1, <1>3, <2>5
    <3>3. f[k] = f[k - 1]
      BY <2>2, <3>2, Zenon
    <3>4. f[k - 1] = SubSeq(B, first, e)
      BY <2>1, <3>1, Zenon
    <3>5. f[k] = SubSeq(B, first, e)
      BY <3>3, <3>4, Zenon
    <3> QED
      BY <1>2, <3>1, <3>5
  <2> QED
    BY <1>1, <2>4, <2>5
<1>7. Len(l) \in S
  <2> HIDE DEF S
  <2>1. \A k \in 1 .. Len(l) : k - 1 \in S => k \in S
    BY <1>6
  <2>2. \A k \in 0 .. Len(l) : k \in S
    BY <1>2, <1>5, <2>1, CountUp, Zenon
  <2> QED
    BY <1>2, <2>2
<1>8. upTo(Len(l)) = e
  BY <1>1
<1>9. ColumnListString(l, ~skip) = SubSeq(B, first, e)
  BY <1>2, <1>4, <1>7, <1>8
<1> QED
  BY <1>9 DEF InsertedColumns, B, first, e

(* Columns that are defined in the order of their sections stay there.     *)
LEMMA InOrderStays ==
  ASSUME NEW l \in Definitions, \A i, j \in DOMAIN l : i < j => Section(l[i]) <= Section(l[j])
  PROVE  Build(l) = [i \in DOMAIN l |-> l[i].name]
<1>1. PICK p, b : /\ Places(l, Len(l), p, b)
                  /\ Build(l) \in Seq(ColumnNames(l)) /\ Len(Build(l)) = Len(l)
                  /\ \A i \in 1 .. Len(l) : Build(l)[p[i]] = l[i].name
  BY BuiltColumns
<1>2. /\ p \in [1 .. Len(l) -> 1 .. Len(l)]
      /\ \A m \in 1 .. Len(l) : \E i \in 1 .. Len(l) : p[i] = m
      /\ \A i, j \in 1 .. Len(l) : Ahead(l, i, j) => p[i] < p[j]
  BY <1>1 DEF Places
<1>3. Len(l) \in Nat /\ DOMAIN l = 1 .. Len(l)
  BY DefinitionFacts
<1>4. \A i, j \in 1 .. Len(l) : i < j => p[i] < p[j]
  <2> SUFFICES ASSUME NEW i \in 1 .. Len(l), NEW j \in 1 .. Len(l), i < j
               PROVE  Ahead(l, i, j)
    BY <1>2
  <2>1. Section(l[i]) <= Section(l[j]) /\ Section(l[i]) \in 1 .. 3 /\ Section(l[j]) \in 1 .. 3
    BY <1>3, SectionOf
  <2> QED
    BY <2>1 DEF Ahead
<1> DEFINE S == {k \in 0 .. Len(l) : \A i \in 1 .. k : p[i] = i}
<1>5. 0 \in S
  BY <1>3
<1>6. ASSUME NEW k \in 1 .. Len(l), k - 1 \in S
      PROVE  k \in S
  <2>1. \A i \in 1 .. k - 1 : p[i] = i
    BY <1>6
  <2>2. PICK i \in 1 .. Len(l) : p[i] = k
    BY <1>2
  <2>3. ~(i < k)
    BY <2>1, <2>2
  <2>4. ~(k < i)
    <3>1. k < i => p[k] < k /\ p[k] \in 1 .. Len(l)
      BY <1>2, <1>4, <2>2
    <3>2. p[k] < k /\ p[k] \in 1 .. Len(l) => p[p[k]] = p[k] /\ p[p[k]] < p[k]
      <4> HAVE p[k] < k /\ p[k] \in 1 .. Len(l)
      <4>1. p[k] \in 1 .. k - 1
        OBVIOUS
      <4>2. p[p[k]] < p[k]
        BY <1>4
      <4> QED
        BY <2>1, <4>1, <4>2
    <3> QED
      BY <3>1, <3>2
  <2>5. p[k] = k
    BY <2>2, <2>3, <2>4
  <2>6. \A j \in 1 .. k : j \in 1 .. k - 1 \/ j = k
    OBVIOUS
  <2> QED
    BY <1>3, <2>1, <2>5, <2>6
<1>7. Len(l) \in S
  <2> HIDE DEF S
  <2>1. \A k \in 1 .. Len(l) : k - 1 \in S => k \in S
    BY <1>6
  <2>2. \A k \in 0 .. Len(l) : k \in S
    BY <1>3, <1>5, <2>1, CountUp, Zenon
  <2> QED
    BY <1>3, <2>2
<1>8. \A i \in 1 .. Len(l) : Build(l)[i] = l[i].name
  BY <1>1, <1>7
<1>9. DOMAIN Build(l) = 1 .. Len(l) /\ Build(l) = [i \in DOMAIN Build(l) |-> Build(l)[i]]
  BY <1>1
<1> QED
  BY <1>3, <1>8, <1>9

(* The positions of the tracked columns: each of them once.                *)
TrackedUpTo(l, n) == {i \in 1 .. n : Tracked(l[i])}

Lists(l, n, s) ==
  /\ s \in Seq(Nat)
  /\ Len(s) = Cardinality({l[i].name : i \in TrackedUpTo(l, n)})
  /\ \A j \in 1 .. Len(s) : s[j] + 1 \in TrackedUpTo(l, n)
  /\ \A i, j \in 1 .. Len(s) : s[i] = s[j] => i = j
  /\ \A i \in TrackedUpTo(l, n) : \E j \in 1 .. Len(s) : s[j] = i - 1

(* Before the first definition no position is listed.                      *)
LEMMA NothingTracked ==
  ASSUME NEW l
  PROVE  Lists(l, 0, <<>>) /\ IsFiniteSet({l[i].name : i \in TrackedUpTo(l, 0)})
<1>1. {l[i].name : i \in TrackedUpTo(l, 0)} = {} /\ TrackedUpTo(l, 0) = {}
  BY DEF TrackedUpTo
<1>2. Cardinality({}) = 0 /\ IsFiniteSet({})
  BY FS_EmptySet
<1> QED
  BY <1>1, <1>2 DEF Lists

(* A tracked definition lists its position, once.                          *)
LEMMA OneMoreTracked ==
  ASSUME NEW l \in Definitions, NEW n \in 1 .. Len(l), NEW s, Lists(l, n - 1, s),
         IsFiniteSet({l[i].name : i \in TrackedUpTo(l, n - 1)})
  PROVE  /\ Lists(l, n, IF Tracked(l[n]) THEN Append(s, n - 1) ELSE s)
         /\ IsFiniteSet({l[i].name : i \in TrackedUpTo(l, n)})
<1> DEFINE V == TrackedUpTo(l, n - 1)
           W == TrackedUpTo(l, n)
           names == {l[i].name : i \in V}
<1>1. n - 1 \in Nat /\ n \in Nat /\ n - 1 + 1 = n
  BY DefinitionFacts
<1>2. W = IF Tracked(l[n]) THEN V \cup {n} ELSE V
  BY <1>1 DEF TrackedUpTo
<1>3. V \subseteq 1 .. n - 1 /\ \A i \in V : i \in Nat /\ i # n
  BY <1>1 DEF TrackedUpTo
<1>4. CASE ~Tracked(l[n])
  BY <1>2, <1>4 DEF Lists
<1>5. CASE Tracked(l[n])
  <2> DEFINE r == Append(s, n - 1)
  <2>1. {l[i].name : i \in W} = names \cup {l[n].name}
    BY <1>2, <1>5
  <2>2. l[n].name \notin names
    <3>1. Distinct(l, n)
      <4>1. n \in 0 .. Len(l)
        BY DefinitionFacts
      <4> QED
        BY <4>1, DefinitionFacts
    <3>2. \A i \in V : i \in 1 .. n /\ n \in 1 .. n
      BY <1>1, <1>3
    <3> QED
      BY <1>3, <3>1, <3>2 DEF Distinct
  <2>3. /\ Cardinality(names \cup {l[n].name}) = Cardinality(names) + 1
        /\ IsFiniteSet(names \cup {l[n].name})
    <3> HIDE DEF names
    <3>1. IsFiniteSet(names)
      BY DEF names
    <3> QED
      BY <2>2, <3>1, FS_AddElement
  <2>4. s \in Seq(Nat) /\ Len(s) \in Nat /\ Len(s) = Cardinality(names)
    BY DEF Lists
  <2>5. /\ r \in Seq(Nat) /\ Len(r) = Len(s) + 1
        /\ r[Len(s) + 1] = n - 1
        /\ \A j \in 1 .. Len(s) : r[j] = s[j] /\ s[j] \in Nat
    <3>1. n - 1 \in Nat /\ s \in Seq(Nat)
      BY <1>1, <2>4
    <3> HIDE DEF names
    <3>2. r \in Seq(Nat) /\ Len(r) = Len(s) + 1 /\ r[Len(s) + 1] = n - 1
      BY <3>1
    <3>3. \A j \in 1 .. Len(s) : r[j] = s[j]
      BY <3>1
    <3>4. \A j \in 1 .. Len(s) : s[j] \in Nat
      BY <3>1
    <3> QED
      BY <3>2, <3>3, <3>4
  <2> HIDE DEF r, names
  <2>6. \A j \in 1 .. Len(r) : j \in 1 .. Len(s) \/ j = Len(s) + 1
    BY <2>4, <2>5
  <2>7. /\ \A j \in 1 .. Len(s) : s[j] + 1 \in V
        /\ \A i, j \in 1 .. Len(s) : s[i] = s[j] => i = j
        /\ \A i \in V : \E j \in 1 .. Len(s) : s[j] = i - 1
    BY DEF Lists
  <2> HIDE DEF V, W
  <2>8. \A j \in 1 .. Len(r) : r[j] + 1 \in W
    <3> TAKE j \in 1 .. Len(r)
    <3>1. CASE j \in 1 .. Len(s)
      BY <1>2, <1>5, <2>5, <2>7, <3>1
    <3>2. CASE j = Len(s) + 1
      BY <1>1, <1>2, <1>5, <2>5, <3>2
    <3> QED
      BY <2>6, <3>1, <3>2
  <2>9. \A j \in 1 .. Len(s) : s[j] # n - 1
    BY <1>1, <1>3, <2>7
  <2>10. \A i, j \in 1 .. Len(r) : r[i] = r[j] => i = j
    <3> TAKE i, j \in 1 .. Len(r)
    <3>1. CASE i \in 1 .. Len(s) /\ j \in 1 .. Len(s)
      BY <2>5, <2>7, <3>1
    <3>2. CASE i \in 1 .. Len(s) /\ j = Len(s) + 1
      BY <2>5, <2>9, <3>2
    <3>3. CASE i = Len(s) + 1 /\ j \in 1 .. Len(s)
      BY <2>5, <2>9, <3>3
    <3> QED
      BY <2>6, <3>1, <3>2, <3>3
  <2>11. \A i \in W : \E j \in 1 .. Len(r) : r[j] = i - 1
    <3> TAKE i \in W
    <3>1. CASE i \in V
      <4>1. PICK j \in 1 .. Len(s) : s[j] = i - 1
        BY <2>7, <3>1
      <4>2. j \in 1 .. Len(r) /\ r[j] = i - 1
        BY <2>4, <2>5, <4>1
      <4> QED
        BY <4>2
    <3>2. CASE i = n
      <4>1. Len(s) + 1 \in 1 .. Len(r) /\ r[Len(s) + 1] = i - 1
        BY <2>4, <2>5, <3>2
      <4> QED
        BY <4>1
    <3> QED
      BY <1>2, <1>5, <3>1, <3>2
  <2>12. Len(r) = Cardinality({l[i].name : i \in W})
    BY <2>1, <2>3, <2>4, <2>5
  <2>13. Lists(l, n, r)
    BY <2>5, <2>8, <2>10, <2>11, <2>12 DEF Lists, W
  <2>14. (IF Tracked(l[n]) THEN Append(s, n - 1) ELSE s) = r
    BY <1>5 DEF r
  <2> QED
    BY <2>1, <2>3, <2>13, <2>14 DEF W
<1> QED
  BY <1>4, <1>5

(* So each tracked column's position is listed once, and no other.         *)
LEMMA TrackedColumns ==
  ASSUME NEW l \in Definitions
  PROVE  Lists(l, Len(l), ChangeTrackingColumns(l))
<1>1. Len(l) \in Nat
  BY DefinitionFacts
<1>2. PICK f : /\ f[0] = <<>>
               /\ \A n \in 1 .. Len(l) :
                    f[n] = IF Tracked(l[n]) THEN Append(f[n - 1], n - 1) ELSE f[n - 1]
               /\ ChangeTrackingColumns(l) = f[Len(l)]
  BY <1>1, PositionsAreListed
<1> DEFINE S == {n \in 0 .. Len(l) : /\ Lists(l, n, f[n])
                                     /\ IsFiniteSet({l[i].name : i \in TrackedUpTo(l, n)})}
<1>3. 0 \in S
  BY <1>1, <1>2, NothingTracked
<1>4. ASSUME NEW n \in 1 .. Len(l), n - 1 \in S
      PROVE  n \in S
  <2>1. /\ Lists(l, n - 1, f[n - 1])
        /\ IsFiniteSet({l[i].name : i \in TrackedUpTo(l, n - 1)})
    BY <1>4
  <2>2. /\ Lists(l, n, IF Tracked(l[n]) THEN Append(f[n - 1], n - 1) ELSE f[n - 1])
        /\ IsFiniteSet({l[i].name : i \in TrackedUpTo(l, n)})
    BY <2>1, OneMoreTracked, Zenon
  <2>3. f[n] = IF Tracked(l[n]) THEN Append(f[n - 1], n - 1) ELSE f[n - 1]
    BY <1>2
  <2>4. n \in 0 .. Len(l)
    BY <1>1
  <2> QED
    BY <2>2, <2>3, <2>4, Zenon
<1>5. Len(l) \in S
  <2> HIDE DEF S
  <2>1. \A n \in 1 .. Len(l) : n - 1 \in S => n \in S
    BY <1>4
  <2>2. \A n \in 0 .. Len(l) : n \in S
    BY <1>1, <1>3, <2>1, CountUp, Zenon
  <2> QED
    BY <1>1, <2>2
<1> QED
  BY <1>2, <1>5

(* The proxy's slots: each tracked column has one, no other column has.    *)
TrackedPositions(l) == {i \in DOMAIN l : Tracked(l[i])}

LEMMA Slots ==
  ASSUME NEW l \in Definitions
  PROVE  LET s == ChangeTrackingColumns(l) IN
         /\ s \in Seq(Nat)
         /\ Len(s) = Cardinality({l[i].name : i \in TrackedPositions(l)})
         /\ \A j \in 1 .. Len(s) : s[j] + 1 \in TrackedPositions(l)
         /\ \A i, j \in 1 .. Len(s) : s[i] = s[j] => i = j
         /\ \A i \in TrackedPositions(l) : \E j \in 1 .. Len(s) : s[j] = i - 1
<1>1. TrackedPositions(l) = TrackedUpTo(l, Len(l))
  BY DefinitionFacts DEF TrackedPositions, TrackedUpTo
<1>2. Lists(l, Len(l), ChangeTrackingColumns(l))
  BY TrackedColumns
<1>3. PICK s : s = ChangeTrackingColumns(l)
  OBVIOUS
<1>4. Lists(l, Len(l), s)
  BY <1>2, <1>3
<1>5. PICK V : V = TrackedPositions(l)
  OBVIOUS
<1>6. V = TrackedUpTo(l, Len(l))
  BY <1>1, <1>5
<1>7. /\ s \in Seq(Nat)
      /\ Len(s) = Cardinality({l[i].name : i \in V})
      /\ \A j \in 1 .. Len(s) : s[j] + 1 \in V
      /\ \A i, j \in 1 .. Len(s) : s[i] = s[j] => i = j
      /\ \A i \in V : \E j \in 1 .. Len(s) : s[j] = i - 1
  BY <1>4, <1>6 DEF Lists
<1> QED
  BY <1>3, <1>5, <1>7

(* An entity has a key, and so a first column.                             *)
LEMMA FirstColumn ==
  ASSUME NEW l \in Definitions
  PROVE  Len(l) \in Nat \ {0}
<1>1. Len(l) \in Nat
  BY DefinitionFacts
<1>2. KeyCount(l) >= 1 /\ Len(l) > KeyCount(l)
  BY DefinitionsAssumption
<1>3. KeyCount(l) \in Nat
  BY BuiltColumns DEF Places
<1> QED
  BY <1>1, <1>2, <1>3

(* The entities that are assigned and have their columns in order.         *)
LEMMA LayoutFacts ==
  ASSUME WellFormed, layout \in Layouts, InOrder(layout)
  PROVE  /\ DOMAIN layout = 1 .. Len(layout) /\ Len(layout) \in 1 .. 255
         /\ Columns = [i \in DOMAIN layout |-> layout[i].name]
         /\ ~Tracked(layout[1])
<1>1. layout \in Definitions
  BY ChangeAssumption
<1>2. /\ Len(layout) \in Nat /\ DOMAIN layout = 1 .. Len(layout)
      /\ Len(layout) <= 255 /\ ~Tracked(layout[1])
  BY <1>1, DefinitionFacts DEF WellFormed, InOrder
<1>3. Len(layout) \in 1 .. 255
  <2>1. Len(layout) \in Nat \ {0}
    BY <1>1, FirstColumn
  <2>2. Len(layout) <= 255
    BY <1>2
  <2>3. \A n \in Nat \ {0} : n <= 255 => n \in 1 .. 255
    OBVIOUS
  <2> QED
    BY <2>1, <2>2, <2>3, Zenon
<1>4. Columns = [i \in DOMAIN layout |-> layout[i].name]
  BY <1>1, InOrderStays DEF Columns, InOrder
<1> QED
  BY <1>2, <1>3, <1>4

(* The only column of a name is marked with its place, counted from 1, in  *)
(* a byte.                                                                 *)
LEMMA MarkIsPosition ==
  ASSUME layout \in Definitions, NEW k \in DOMAIN layout
  PROVE  Mark(layout[k].name) = k % 256
<1> DEFINE I == {i \in 1 .. Len(layout) : layout[i].name = layout[k].name}
<1>1. DOMAIN layout = 1 .. Len(layout) /\ Len(layout) \in Nat
  BY DefinitionFacts
<1>2. I = {k}
  BY <1>1, DefinitionsAssumption
<1>3. Min({k}) = k
  BY <1>1 DEF Min
<1>4. Mark(layout[k].name) = (IF I # {} THEN Min(I) ELSE 0) % 256
  BY DEF Mark, SelectInSeq
<1> QED
  BY <1>2, <1>3, <1>4

(* The slot of a tracked column is the one its setter marks.               *)
LEMMA SlotOf ==
  ASSUME NEW j \in 1 .. Length, layout \in Definitions
  PROVE  /\ ChangeTrackingColumns(layout)[j] + 1 \in TrackedPositions(layout)
         /\ PropertyIndex(layout[ChangeTrackingColumns(layout)[j] + 1].name) = j
<1> DEFINE s == ChangeTrackingColumns(layout)
           k == s[j] + 1
           I == {i \in 1 .. Len(s) : layout[s[i] + 1].name = layout[k].name}
<1>1. /\ s \in Seq(Nat)
      /\ \A i \in 1 .. Len(s) : s[i] + 1 \in TrackedPositions(layout)
      /\ \A i, m \in 1 .. Len(s) : s[i] = s[m] => i = m
  BY Slots
<1>2. \A i, m \in DOMAIN layout : layout[i].name = layout[m].name => i = m
  BY DefinitionsAssumption
<1>3. j \in 1 .. Len(s)
  BY DEF Length
<1>4. I = {j}
  <2> HIDE DEF s
  <2>1. \A i \in 1 .. Len(s) : layout[s[i] + 1].name = layout[k].name => s[i] + 1 = k
    BY <1>1, <1>2, <1>3 DEF TrackedPositions
  <2>2. \A i \in 1 .. Len(s) : s[i] \in Nat
    BY <1>1
  <2>3. \A i \in 1 .. Len(s) : s[i] + 1 = s[j] + 1 => s[i] = s[j]
    BY <1>3, <2>2
  <2> QED
    BY <1>1, <1>3, <2>1, <2>3
<1>5. Min({j}) = j
  BY DEF Min
<1>6. PropertyIndex(layout[k].name) = IF I # {} THEN Min(I) ELSE 0
  BY DEF PropertyIndex, SelectInSeq
<1> QED
  BY <1>1, <1>3, <1>4, <1>5, <1>6

(* Every entity has a key.                                                 *)
LEMMA PrimaryIsColumn == layout \in Definitions => PrimaryColumn \in Names
<1> SUFFICES ASSUME layout \in Definitions
             PROVE  PrimaryColumn \in Names
  OBVIOUS
<1>1. DOMAIN Columns = 1 .. Len(layout) /\ Len(layout) \in Nat
  BY InSections, DefinitionFacts DEF Columns
<1>2. Len(layout) # 0
  BY FirstColumn
<1> QED
  BY <1>1, <1>2 DEF PrimaryColumn, Names, ToSet

(* What the marks and slots of an entity are.                              *)
LEMMA Positions ==
  ASSUME layout \in Layouts
  PROVE  /\ Length \in Nat
         /\ PrimaryColumn \in Names
         /\ TrackedNames \subseteq Names
         /\ \A c \in TrackedNames : /\ PropertyIndex(c) \in 1 .. Length
                                    /\ Mark(c) \in 0 .. 255
                                    /\ Mark(c) # 0 => EntityColumnAt(Mark(c)) \in Names
         /\ \A i \in 1 .. Length : \E c \in TrackedNames : PropertyIndex(c) = i
         /\ \A c, d \in TrackedNames : PropertyIndex(c) = PropertyIndex(d) => c = d
<1>1. /\ layout \in Definitions
      /\ DOMAIN layout = 1 .. Len(layout) /\ Len(layout) \in Nat
  BY ChangeAssumption, DefinitionFacts
<1>2. DOMAIN Columns = 1 .. Len(layout) /\ Names = ColumnNames(layout)
  BY <1>1, InSections DEF Columns, Names
<1>3. Names = {layout[i].name : i \in DOMAIN layout}
  BY <1>2 DEF ColumnNames
<1>4. TrackedNames = {layout[i].name : i \in TrackedPositions(layout)}
  BY DEF TrackedNames, TrackedPositions
<1>5. TrackedPositions(layout) \subseteq DOMAIN layout
  BY DEF TrackedPositions
<1>6. PrimaryColumn \in Names
  BY <1>1, PrimaryIsColumn
<1>7. Length \in Nat
  <2>1. ChangeTrackingColumns(layout) \in Seq(Nat)
    BY <1>1, Slots
  <2> QED
    BY <2>1 DEF Length
<1>8. ASSUME NEW c \in TrackedNames
      PROVE  /\ PropertyIndex(c) \in 1 .. Length
             /\ layout[ChangeTrackingColumns(layout)[PropertyIndex(c)] + 1].name = c
             /\ Mark(c) \in 0 .. 255
             /\ Mark(c) # 0 => EntityColumnAt(Mark(c)) \in Names
  <2>1. PICK k \in TrackedPositions(layout) : c = layout[k].name
    BY <1>4
  <2>2. Mark(c) = k % 256 /\ k \in 1 .. Len(layout)
    BY <1>1, <2>1, <1>5, MarkIsPosition
  <2>3. Mark(c) \in 0 .. 255 /\ Mark(c) <= k
    BY <1>1, <2>2
  <2>4. Mark(c) # 0 => Mark(c) \in DOMAIN Columns
    BY <1>1, <1>2, <2>2, <2>3
  <2>5. Mark(c) # 0 => EntityColumnAt(Mark(c)) \in Names
    BY <2>4, Zenon DEF EntityColumnAt, Names, ToSet
  <2>6. PICK j \in 1 .. Len(ChangeTrackingColumns(layout)) : ChangeTrackingColumns(layout)[j] = k - 1
    BY <1>1, <2>1, Slots
  <2>7. j \in 1 .. Length
    BY DEF Length
  <2>8. ChangeTrackingColumns(layout)[j] + 1 = k
    BY <1>1, <2>2, <2>6
  <2>9. PropertyIndex(c) = j
    BY <1>1, <2>7, <2>8, <2>1, SlotOf
  <2> QED
    BY <2>1, <2>3, <2>5, <2>7, <2>8, <2>9
<1>9. ASSUME NEW i \in 1 .. Length
      PROVE  \E c \in TrackedNames : PropertyIndex(c) = i
  BY <1>1, <1>4, SlotOf
<1>10. TrackedNames \subseteq Names
  BY <1>3, <1>4, <1>5
<1> QED
  BY <1>6, <1>7, <1>8, <1>9, <1>10

(* In order, a property is marked with the place of its column.            *)
LEMMA PositionsInOrder ==
  ASSUME WellFormed, layout \in Layouts, InOrder(layout)
  PROVE  /\ PrimaryColumn \notin TrackedNames
         /\ \A c \in TrackedNames : Mark(c) \in 1 .. 255 /\ EntityColumnAt(Mark(c)) = c
<1>1. /\ Columns = [i \in DOMAIN layout |-> layout[i].name]
      /\ DOMAIN layout = 1 .. Len(layout)
      /\ Len(layout) \in 1 .. 255
      /\ ~Tracked(layout[1])
  BY LayoutFacts
<1>2. layout \in Definitions
  BY ChangeAssumption
<1>3. \A i, j \in DOMAIN layout : layout[i].name = layout[j].name => i = j
  BY <1>2, DefinitionsAssumption
<1>4. 1 \in DOMAIN layout /\ \A i \in DOMAIN layout : i \in 1 .. 255
  <2>1. \A n \in 1 .. 255 : 1 \in 1 .. n /\ \A i \in 1 .. n : i \in 1 .. 255
    OBVIOUS
  <2> QED
    BY <1>1, <2>1, Zenon
<1>5. TrackedNames = {layout[i].name : i \in TrackedPositions(layout)}
  BY DEF TrackedNames, TrackedPositions
<1>6. TrackedPositions(layout) \subseteq DOMAIN layout /\ 1 \notin TrackedPositions(layout)
  BY <1>1 DEF TrackedPositions
<1>7. PrimaryColumn = layout[1].name
  BY <1>1, <1>4, Zenon DEF PrimaryColumn
<1>8. ASSUME NEW c \in TrackedNames
      PROVE  Mark(c) \in 1 .. 255 /\ EntityColumnAt(Mark(c)) = c
  <2>1. PICK k \in TrackedPositions(layout) : c = layout[k].name
    BY <1>5
  <2>2. k \in DOMAIN layout /\ k \in 1 .. 255
    BY <1>4, <1>6
  <2>3. Mark(c) = k % 256
    BY <1>2, <2>1, <2>2, MarkIsPosition
  <2>4. Mark(c) = k
    BY <2>2, <2>3
  <2>5. EntityColumnAt(k) = c
    BY <2>1, <2>2, <1>1, Zenon DEF EntityColumnAt
  <2> QED
    BY <2>2, <2>4, <2>5
<1>9. PrimaryColumn \notin TrackedNames
  BY <1>3, <1>4, <1>5, <1>6, <1>7
<1> QED
  BY <1>8, <1>9

(* The entity does not change, nor does the arrangement of its columns.    *)
LEMMA SameLayout ==
  ASSUME layout' = layout
  PROVE  /\ Length' = Length
         /\ Names' = Names
         /\ TrackedNames' = TrackedNames
         /\ PrimaryColumn' = PrimaryColumn
         /\ InOrder(layout)' = InOrder(layout)
         /\ \A c : /\ PropertyIndex(c)' = PropertyIndex(c) /\ Mark(c)' = Mark(c)
                  /\ EntityColumnAt(Mark(c))' = EntityColumnAt(Mark(c))
<1>1. /\ Names' = Names /\ TrackedNames' = TrackedNames
      /\ PrimaryColumn' = PrimaryColumn /\ Length' = Length
  BY Zenon DEF Names, TrackedNames, PrimaryColumn, Columns, Length
<1>2. ASSUME NEW c
      PROVE  PropertyIndex(c)' = PropertyIndex(c) /\ Mark(c)' = Mark(c)
  BY DEF PropertyIndex, Mark, SelectInSeq
<1>3. ASSUME NEW c
      PROVE  EntityColumnAt(Mark(c))' = EntityColumnAt(Mark(c))
  BY <1>2 DEF EntityColumnAt, Columns
<1>4. InOrder(layout)' = InOrder(layout)
  OBVIOUS
<1> QED
  BY <1>1, <1>2, <1>3, <1>4

LEMMA ElementOf ==
  ASSUME NEW R, NEW s \in Seq(R), NEW i \in DOMAIN s
  PROVE  s[i] \in R
OBVIOUS

(* The items of a statement.                                               *)
LEMMA ItemsOf ==
  ASSUME Typed, NEW t \in Threads
  PROVE  /\ command[t].set \in SetItems
         /\ \A i \in DOMAIN command[t].set :
              command[t].set[i].column \in Names /\ command[t].set[i].value \in Values
         /\ SetColumns(t) \subseteq Names
<1>1. command[t].set \in SetItems
  BY DEF Typed
<1>2. ASSUME NEW s \in SetItems, NEW i \in DOMAIN s
      PROVE  s[i].column \in Names /\ s[i].value \in Values
  <2>1. s[i] \in [column : Names, value : Values]
    BY ElementOf, Zenon DEF SetItems
  <2> QED
    BY <2>1
<1> QED
  BY <1>1, <1>2 DEF SetColumns

(* In order, they are about assigned properties.                           *)
LEMMA ItemsInOrder ==
  ASSUME WellFormed, layout \in Layouts, InOrder(layout), Assigned, NEW t \in Threads
  PROVE  /\ \A i \in DOMAIN command[t].set :
              command[t].set[i].column \in TrackedNames /\ entity[command[t].set[i].column] # 0
         /\ SetColumns(t) \subseteq TrackedNames
<1>1. ASSUME NEW i \in DOMAIN command[t].set
      PROVE  command[t].set[i].column \in TrackedNames /\ entity[command[t].set[i].column] # 0
  <2>1. PICK c \in TrackedNames :
          command[t].set[i].column = EntityColumnAt(Mark(c)) /\ entity[c] # 0
    BY DEF Assigned, IsAssigned
  <2>2. EntityColumnAt(Mark(c)) = c
    BY PositionsInOrder
  <2> QED
    BY <2>1, <2>2
<1> QED
  BY <1>1 DEF SetColumns

(* An assigned property stays assigned.                                    *)
LEMMA StaysAssigned ==
  ASSUME layout' = layout, NEW column, IsAssigned(column),
         \A c \in TrackedNames : entity[c] # 0 => entity'[c] # 0
  PROVE  IsAssigned(column)'
<1>1. PICK c \in TrackedNames :
        Mark(c) # 0 /\ column = EntityColumnAt(Mark(c)) /\ entity[c] # 0
  BY DEF IsAssigned
<1>2. c \in TrackedNames' /\ Mark(c)' # 0 /\ column = EntityColumnAt(Mark(c))' /\ entity'[c] # 0
  BY <1>1, SameLayout
<1> QED
  BY <1>2 DEF IsAssigned

-----------------------------------------------------------------------------
(* Initial states.                                                         *)

LEMMA InitialInv == WellFormed /\ Init => TrackingInv
<1> SUFFICES ASSUME WellFormed, Init
             PROVE  TrackingInv
  OBVIOUS
<1>0. layout \in Definitions
  BY DEF Init
<1>1. CASE layout \in Layouts
  <2>1. /\ Length \in Nat
        /\ PrimaryColumn \in Names
        /\ \A c \in TrackedNames : PropertyIndex(c) \in 1 .. Length
    BY <1>1, Positions
  <2>2. PICK origin \in Origins :
          tracker = ChangeTracker(Len(ChangeTrackingColumns(layout)), origin = "TrackChanges")
    BY DEF Init
  <2>3. /\ tracker = [trackChanges |-> TRUE, isDirty |-> FALSE, changedColumns |-> [i \in 1 .. Length |-> 0]]
    BY <2>2 DEF WellFormed, ChangeTracker, Length
  <2>4. /\ entity = [c \in Names |-> 0] /\ stored = entity /\ lastRead = entity
        /\ updaters \subseteq Threads /\ assignments = 0 /\ lock = Nobody
        /\ pc = [t \in Threads |-> "idle"] /\ assigning = [t \in Threads |-> PrimaryColumn]
        /\ scan = [t \in Threads |-> 0]
        /\ command = [t \in Threads |-> EmptyCommand]
    BY DEF Init
  <2>5. Typed
    <3>1. 0 \in Values /\ lost = {}
      BY ChangeAssumption DEF Values, Init
    <3>2. command \in [Threads -> [set : SetItems, key : Values]]
      BY <2>4, <3>1 DEF EmptyCommand, SetItems
    <3> QED
      BY <2>1, <2>3, <2>4, <3>1, <3>2 DEF Typed, Labels
  <2>6. Locked
    BY <2>4, ChangeAssumption DEF Locked, At, EmptyCommand
  <2>7. Assigned
    BY <2>1, <2>3, <2>4 DEF Assigned, Marks, At, EmptyCommand
  <2>8. Seen
    BY <2>4 DEF Seen
  <2>9. Behind
    BY <2>1, <2>4 DEF Behind, At, EmptyCommand
  <2>10. \A u \in Threads : Alone(u)
    <3>1. TrackedNames \subseteq Names
      BY <1>1, Positions
    <3> QED
      BY <2>4, <3>1 DEF Alone, EmptyCommand
  <2> QED
    BY <1>0, <1>1, <2>5, <2>6, <2>7, <2>8, <2>9, <2>10 DEF TrackingInv, Sent
<1>2. CASE layout \notin Layouts
  <2>1. tracker = ChangeTracker(Length, TRUE)
    BY DEF Init, WellFormed, ChangeTracker, Length
  <2>2. assigning \in [Threads -> Names]
    BY <1>0, PrimaryIsColumn DEF Init
  <2> QED
    BY <1>0, <1>2, <2>1, <2>2 DEF Init, TrackingInv, Untouched
<1> QED
  BY <1>1, <1>2

-----------------------------------------------------------------------------
(* Steps of the setters.                                                   *)

LEMMA BaseSetterKeeps ==
  ASSUME WellFormed, layout \in Layouts, Sent, NEW t \in Threads, NEW c \in TrackedNames,
         BaseSetter(t, c)
  PROVE  Sent'
<1> USE DEF Sent
<1>0. /\ InOrder(layout) => PrimaryColumn \notin TrackedNames
      /\ TrackedNames \subseteq Names
  BY Positions, PositionsInOrder
<1>1. layout' = layout /\ InOrder(layout)' = InOrder(layout) /\ Length' = Length /\ Names' = Names /\ TrackedNames' = TrackedNames
      /\ PrimaryColumn' = PrimaryColumn
      /\ \A d : /\ PropertyIndex(d)' = PropertyIndex(d) /\ Mark(d)' = Mark(d)
               /\ EntityColumnAt(Mark(d))' = EntityColumnAt(Mark(d))
  BY SameLayout DEF BaseSetter, inputVars
<1>2. /\ assignments' \in Values /\ assignments' # 0
      /\ entity' = [entity EXCEPT ![c] = assignments']
      /\ pc' = [pc EXCEPT ![t] = "marking"] /\ pc[t] = "idle"
      /\ assigning' = [assigning EXCEPT ![t] = c]
  BY ChangeAssumption DEF BaseSetter, Goto, At, Typed, Values
<1>3. UNCHANGED <<updaters, tracker, lock, scan, command, stored, lastRead, lost>>
  BY DEF BaseSetter, inputVars
<1>4. Typed'
  BY <1>0, <1>1, <1>2, <1>3 DEF Typed, Labels, SetItems
<1>5. Locked'
  BY <1>2, <1>3 DEF Typed, Locked, At
<1>6. Assigned'
  <2>1. \A d \in TrackedNames : entity[d] # 0 => entity'[d] # 0
    BY <1>0, <1>2 DEF Typed
  <2>2. \A column : IsAssigned(column) => IsAssigned(column)'
    BY <1>1, <2>1, StaysAssigned
  <2> QED
    BY <1>0, <1>1, <1>2, <1>3, <2>1, <2>2 DEF Typed, Assigned, At, Marks
<1>7. InOrder(layout) => Seen'
  BY <1>0, <1>1, <1>2, <1>3 DEF Typed, Seen, Pending, At, Marks
<1>8. InOrder(layout) => Behind'
  BY <1>0, <1>1, <1>2, <1>3 DEF Typed, Behind, At, SetColumns
<1>9. InOrder(layout) => (\A u \in Threads : updaters = {u} => Alone(u))'
  BY <1>1, <1>3 DEF Alone, SetColumns
<1> QED
  BY <1>1, <1>4, <1>5, <1>6, <1>7, <1>8, <1>9

LEMMA MakeDirtyKeeps ==
  ASSUME WellFormed, layout \in Layouts, Sent, NEW t \in Threads, MakeDirty(t)
  PROVE  Sent'
<1> USE DEF Sent
<1>1. layout' = layout /\ InOrder(layout)' = InOrder(layout) /\ Length' = Length /\ Names' = Names /\ TrackedNames' = TrackedNames
      /\ PrimaryColumn' = PrimaryColumn
      /\ \A d : /\ PropertyIndex(d)' = PropertyIndex(d) /\ Mark(d)' = Mark(d)
               /\ EntityColumnAt(Mark(d))' = EntityColumnAt(Mark(d))
  BY SameLayout DEF MakeDirty, inputVars
<1>2. PICK c \in TrackedNames : c = assigning[t] /\ entity[c] # 0
  BY DEF MakeDirty, Assigned
<1>3. /\ \A d \in TrackedNames : PropertyIndex(d) \in 1 .. Length /\ Mark(d) \in 0 .. 255
      /\ \A d, e \in TrackedNames : PropertyIndex(d) = PropertyIndex(e) => d = e
      /\ Length \in Nat
      /\ InOrder(layout) => Mark(c) # 0
  BY Positions, PositionsInOrder
<1>4. /\ pc' = [pc EXCEPT ![t] = "idle"] /\ pc[t] = "marking" /\ lock = Nobody
      /\ tracker' = Marked(c)
  BY <1>2 DEF MakeDirty, Goto, At, Typed
<1>5. UNCHANGED <<updaters, entity, lock, assigning, scan, command, stored, assignments, lastRead, lost>>
  BY DEF MakeDirty, inputVars, historyVars
<1>6. Len(tracker.changedColumns) = Length
  BY <1>3 DEF Typed
<1> DEFINE old == IF tracker.isDirty THEN tracker.changedColumns ELSE [i \in 1 .. Length |-> 0]
<1>7. tracker' = [trackChanges |-> TRUE, isDirty |-> TRUE,
                  changedColumns |-> [old EXCEPT ![PropertyIndex(c)] = Mark(c)]]
  BY <1>4, <1>6 DEF Marked, ChangeTracker, Typed
<1>8. old \in [1 .. Length -> 0 .. 255]
  BY DEF Typed
<1>9. /\ Marks(c)' = Mark(c)
      /\ \A d \in TrackedNames : d # c => Marks(d)' = old[PropertyIndex(d)]
  <2> HIDE DEF old
  <2> QED
    BY <1>1, <1>3, <1>7, <1>8 DEF Marks
<1>10. Typed'
  <2> HIDE DEF old
  <2>1. SetItems' = SetItems
    BY <1>1, Zenon DEF SetItems
  <2>2. /\ tracker'.changedColumns \in [1 .. Length -> 0 .. 255]
        /\ tracker' \in [trackChanges : {TRUE}, isDirty : BOOLEAN,
                       changedColumns : {tracker'.changedColumns}]
    BY <1>3, <1>7, <1>8
  <2>3. pc' \in [Threads -> Labels]
    BY <1>4 DEF Typed, Labels
  <2> QED
    BY <1>1, <1>5, <2>1, <2>2, <2>3 DEF Typed
<1>11. Locked'
  BY <1>4, <1>5 DEF Typed, Locked, At
<1>12. Assigned'
  <2>1. \A d \in TrackedNames : (Marks(d) # 0 => Marks(d) = Mark(d) /\ entity[d] # 0)'
    BY <1>1, <1>2, <1>3, <1>5, <1>9 DEF Assigned, Marks
  <2>2. \A column : IsAssigned(column) => IsAssigned(column)'
    BY <1>1, <1>5, StaysAssigned
  <2> HIDE DEF old
  <2> QED
    BY <1>1, <1>4, <1>5, <2>1, <2>2 DEF Typed, Assigned, At
<1>13. InOrder(layout) => Seen'
  <2> SUFFICES ASSUME InOrder(layout)
               PROVE  Seen'
    OBVIOUS
  <2>1. \A d \in TrackedNames : tracker.isDirty /\ Marks(d) # 0 => Marks(d)' # 0
    BY <1>3, <1>9 DEF Marks
  <2>2. \A u \in Threads : ~At(u, "building")
    BY <1>4 DEF Locked
  <2>3. tracker'.isDirty /\ Marks(c)' # 0
    <3> HIDE DEF old
    <3>1. tracker'.isDirty
      BY <1>7
    <3>2. Marks(c)' # 0
      BY <1>3, <1>9
    <3> QED
      BY <3>1, <3>2
  <2>4. ASSUME NEW d \in TrackedNames, Pending(d)
        PROVE  Pending(d)'
    <3>1. CASE tracker.isDirty /\ Marks(d) # 0
      BY <2>1, <2>3, <3>1 DEF Pending
    <3>2. CASE d = c
      BY <2>3, <3>2 DEF Pending
    <3>3. CASE d # c /\ \E u \in Threads : At(u, "marking") /\ assigning[u] = d
      BY <1>2, <1>4, <1>5, <3>3 DEF Pending, At, Typed
    <3> QED
      BY <2>2, <2>4, <3>1, <3>2, <3>3 DEF Pending
  <2> QED
    BY <1>1, <1>5, <2>4 DEF Seen
<1>14. InOrder(layout) => Behind'
  BY <1>1, <1>4, <1>5 DEF Typed, Behind, At, SetColumns
<1>15. InOrder(layout) => (\A u \in Threads : updaters = {u} => Alone(u))'
  BY <1>1, <1>5 DEF Alone, SetColumns
<1> QED
  BY <1>1, <1>10, <1>11, <1>12, <1>13, <1>14, <1>15

-----------------------------------------------------------------------------
(* Steps of the updates.                                                   *)

LEMMA CheckDirtyKeeps ==
  ASSUME WellFormed, layout \in Layouts, Sent, NEW t \in Threads, CheckDirty(t)
  PROVE  Sent'
<1> USE DEF Sent
<1>1. layout' = layout /\ InOrder(layout)' = InOrder(layout) /\ Length' = Length /\ Names' = Names /\ TrackedNames' = TrackedNames
      /\ PrimaryColumn' = PrimaryColumn
      /\ \A d : /\ PropertyIndex(d)' = PropertyIndex(d) /\ Mark(d)' = Mark(d)
               /\ EntityColumnAt(Mark(d))' = EntityColumnAt(Mark(d))
  BY SameLayout DEF CheckDirty, inputVars
<1>2. pc' = [pc EXCEPT ![t] = "locking"] /\ pc[t] = "idle" /\ t \in updaters
  BY DEF CheckDirty, Goto, At, Typed
<1>3. UNCHANGED <<updaters, entity, tracker, lock, assigning, scan, command, stored, assignments, lastRead, lost>>
  BY DEF CheckDirty, inputVars, historyVars
<1>4. Typed'
  BY <1>1, <1>2, <1>3 DEF Typed, Labels, SetItems
<1>5. Locked'
  BY <1>2, <1>3 DEF Typed, Locked, At
<1>6. Assigned'
  <2>1. \A column : IsAssigned(column) => IsAssigned(column)'
    BY <1>1, <1>3, StaysAssigned
  <2> QED
    BY <1>1, <1>2, <1>3, <2>1 DEF Typed, Assigned, At, Marks
<1>7. InOrder(layout) => Seen'
  BY <1>1, <1>2, <1>3 DEF Typed, Seen, Pending, At, Marks
<1>8. InOrder(layout) => Behind'
  BY <1>1, <1>2, <1>3 DEF Typed, Behind, At, SetColumns
<1>9. InOrder(layout) => (\A u \in Threads : updaters = {u} => Alone(u))'
  BY <1>1, <1>3 DEF Alone, SetColumns
<1> QED
  BY <1>1, <1>4, <1>5, <1>6, <1>7, <1>8, <1>9

LEMMA EnterLockKeeps ==
  ASSUME WellFormed, layout \in Layouts, Sent, NEW t \in Threads, EnterLock(t)
  PROVE  Sent'
<1> USE DEF Sent
<1>1. layout' = layout /\ InOrder(layout)' = InOrder(layout) /\ Length' = Length /\ Names' = Names /\ TrackedNames' = TrackedNames
      /\ PrimaryColumn' = PrimaryColumn
      /\ \A d : /\ PropertyIndex(d)' = PropertyIndex(d) /\ Mark(d)' = Mark(d)
               /\ EntityColumnAt(Mark(d))' = EntityColumnAt(Mark(d))
  BY SameLayout DEF EnterLock, inputVars
<1>2. /\ \A d \in TrackedNames : PropertyIndex(d) \in 1 .. Length
      /\ Length \in Nat
      /\ Len(tracker.changedColumns) = Length
  BY Positions DEF Typed
<1>3. /\ pc' = [pc EXCEPT ![t] = "building"] /\ pc[t] = "locking"
      /\ lock = Nobody /\ lock' = t
      /\ tracker' = [tracker EXCEPT !.isDirty = FALSE]
      /\ scan' = [scan EXCEPT ![t] = Length]
      /\ command' = [command EXCEPT ![t] = EmptyCommand]
  BY <1>2 DEF EnterLock, Goto, At, Typed
<1>4. UNCHANGED <<updaters, entity, assigning, stored, assignments, lastRead, lost>>
  BY DEF EnterLock, inputVars, historyVars
<1>5. EmptyCommand \in [set : SetItems, key : Values] /\ EmptyCommand.set = <<>> /\ EmptyCommand.key = 0
  BY ChangeAssumption DEF EmptyCommand, SetItems, Values
<1>6. /\ tracker'.changedColumns = tracker.changedColumns
      /\ tracker' \in [trackChanges : {TRUE}, isDirty : BOOLEAN,
                      changedColumns : {tracker.changedColumns}]
  BY <1>3 DEF Typed
<1>7. command[t].set = <<>>
  BY <1>3 DEF Locked
<1>8. \A u \in Threads : command'[u].set = command[u].set
  BY <1>3, <1>5, <1>7 DEF Typed
<1>9. Typed'
  <2>1. SetItems' = SetItems
    BY <1>1, Zenon DEF SetItems
  <2>2. pc' \in [Threads -> Labels] /\ scan' \in [Threads -> 0 .. Length]
    BY <1>2, <1>3 DEF Typed, Labels
  <2>3. command' \in [Threads -> [set : SetItems, key : Values]]
    BY <1>3, <1>5 DEF Typed
  <2> QED
    BY <1>1, <1>4, <1>6, <2>1, <2>2, <2>3 DEF Typed
<1>10. Locked'
  BY <1>3, <1>4, <1>8, ChangeAssumption DEF Typed, Locked, At
<1>11. Assigned'
  <2>1. \A column : IsAssigned(column) => IsAssigned(column)'
    BY <1>1, <1>4, StaysAssigned
  <2> QED
    BY <1>1, <1>3, <1>4, <1>6, <1>8, <2>1 DEF Typed, Assigned, At, Marks
<1>12. InOrder(layout) => Seen'
  <2> SUFFICES ASSUME InOrder(layout)
               PROVE  Seen'
    OBVIOUS
  <2>1. \A u \in Threads : ~At(u, "building")
    BY <1>3 DEF Locked
  <2>2. \A d \in TrackedNames : Marks(d)' = Marks(d)
    BY <1>1, <1>6 DEF Marks
  <2>3. At(t, "building")' /\ scan'[t] = Length
    BY <1>3 DEF Typed, At
  <2>4. ASSUME NEW d \in TrackedNames, Pending(d)
        PROVE  Pending(d)'
    <3>1. CASE Marks(d) # 0
      <4>1. scan'[t] >= PropertyIndex(d)
        BY <1>2, <2>3
      <4> QED
        BY <1>1, <2>2, <2>3, <3>1, <4>1 DEF Pending
    <3>2. CASE \E u \in Threads : At(u, "marking") /\ assigning[u] = d
      BY <1>3, <1>4, <3>2 DEF Pending, At, Typed
    <3> QED
      BY <2>1, <2>4, <3>1, <3>2 DEF Pending
  <2> QED
    BY <1>1, <1>4, <2>4 DEF Seen
<1>13. InOrder(layout) => Behind'
  BY <1>1, <1>3, <1>4, <1>5, <1>7, <1>8 DEF Typed, Behind, Locked, At, SetColumns
<1>14. InOrder(layout) => (\A u \in Threads : updaters = {u} => Alone(u))'
  BY <1>1, <1>4, <1>8 DEF Alone, SetColumns
<1> QED
  BY <1>1, <1>9, <1>10, <1>11, <1>12, <1>13, <1>14

LEMMA Appended ==
  ASSUME NEW R, NEW s \in Seq(R), NEW e \in R
  PROVE  /\ Append(s, e) \in Seq(R)
         /\ \A i \in DOMAIN Append(s, e) :
              Append(s, e)[i] = e \/ (i \in DOMAIN s /\ Append(s, e)[i] = s[i])
         /\ \A i \in DOMAIN s : i \in DOMAIN Append(s, e) /\ Append(s, e)[i] = s[i]
         /\ \E i \in DOMAIN Append(s, e) : Append(s, e)[i] = e
<1>1. Len(s) + 1 \in DOMAIN Append(s, e) /\ Append(s, e)[Len(s) + 1] = e
  OBVIOUS
<1>2. \A i \in DOMAIN s : i \in DOMAIN Append(s, e) /\ Append(s, e)[i] = s[i]
  OBVIOUS
<1>3. \A i \in DOMAIN Append(s, e) : i = Len(s) + 1 \/ i \in DOMAIN s
  OBVIOUS
<1>4. Append(s, e) \in Seq(R)
  OBVIOUS
<1>5. \A i \in DOMAIN Append(s, e) :
        Append(s, e)[i] = e \/ (i \in DOMAIN s /\ Append(s, e)[i] = s[i])
  <2> TAKE i \in DOMAIN Append(s, e)
  <2>1. CASE i = Len(s) + 1
    BY <1>1, <2>1
  <2>2. CASE i \in DOMAIN s
    BY <1>2, <2>2
  <2> QED
    BY <1>3, <2>1, <2>2
<1>6. \E i \in DOMAIN Append(s, e) : Append(s, e)[i] = e
  BY <1>1, Zenon
<1> QED
  BY <1>2, <1>4, <1>5, <1>6, Zenon

(* The turn of the loop that finds a mark.                                 *)
LEMMA ReadMarkedKeeps ==
  ASSUME WellFormed, layout \in Layouts, Sent, NEW t \in Threads, ReadColumn(t),
         NEW c \in TrackedNames, PropertyIndex(c) = scan[t], Marks(c) # 0
  PROVE  Sent'
<1> USE DEF Sent
<1> DEFINE e == EntityColumnAt(Mark(c))
           item == [column |-> e, value |-> entity[e]]
<1>1. layout' = layout /\ InOrder(layout)' = InOrder(layout) /\ Length' = Length /\ Names' = Names /\ TrackedNames' = TrackedNames
      /\ PrimaryColumn' = PrimaryColumn
      /\ \A d : /\ PropertyIndex(d)' = PropertyIndex(d) /\ Mark(d)' = Mark(d)
               /\ EntityColumnAt(Mark(d))' = EntityColumnAt(Mark(d))
  BY SameLayout DEF ReadColumn, inputVars
<1>2. /\ \A d \in TrackedNames : PropertyIndex(d) \in 1 .. Length
      /\ \A d, d2 \in TrackedNames : PropertyIndex(d) = PropertyIndex(d2) => d = d2
      /\ Length \in Nat /\ TrackedNames \subseteq Names
      /\ InOrder(layout) => e = c
  BY Positions, PositionsInOrder
<1>3. /\ EntityColumnAt(tracker.changedColumns[scan[t]]) = e
      /\ e \in Names /\ Mark(c) # 0 /\ entity[c] # 0
  BY Positions DEF Assigned, Marks
<1>4. /\ At(t, "building") /\ scan[t] > 0
      /\ scan' = [scan EXCEPT ![t] = scan[t] - 1]
      /\ command' = [command EXCEPT ![t].set = Append(command[t].set, item)]
      /\ lastRead' = [lastRead EXCEPT ![e] = entity[e]]
  BY <1>3 DEF ReadColumn, Marks
<1>5. UNCHANGED <<updaters, entity, tracker, lock, pc, assigning, stored, assignments, lost>>
  BY DEF ReadColumn, inputVars
<1> HIDE DEF e
<1>6. item \in [column : Names, value : Values] /\ entity[e] \in Values
  BY <1>3 DEF Typed
<1>7. /\ command'[t].set \in SetItems
      /\ \A i \in DOMAIN command'[t].set :
           command'[t].set[i] = item \/ (i \in DOMAIN command[t].set /\ command'[t].set[i] = command[t].set[i])
      /\ \A i \in DOMAIN command[t].set :
           i \in DOMAIN command'[t].set /\ command'[t].set[i] = command[t].set[i]
      /\ \E i \in DOMAIN command'[t].set : command'[t].set[i] = item
      /\ command'[t].key = command[t].key
      /\ \A u \in Threads : u # t => command'[u] = command[u]
  <2> HIDE DEF item
  <2>1. command'[t].set = Append(command[t].set, item)
        /\ command'[t].key = command[t].key
        /\ \A u \in Threads : u # t => command'[u] = command[u]
    BY <1>4 DEF Typed
  <2>2. command[t].set \in SetItems
    BY DEF Typed
  <2> DEFINE R == [column : Names, value : Values]
  <2>3. command[t].set \in Seq(R) /\ item \in R
    BY <1>6, <2>2 DEF SetItems
  <2> HIDE DEF R
  <2>4. command'[t].set \in Seq(R)
    BY <2>1, <2>3, Appended
  <2>5. Seq(R) = SetItems
    BY DEF R, SetItems
  <2>6. PICK q : q = command[t].set
    OBVIOUS
  <2>7. q \in Seq(R)
    BY <2>3, <2>6
  <2>8. PICK x \in R : x = item
    BY <2>3
  <2>9. command'[t].set = Append(q, x)
    BY <2>1, <2>6, <2>8
  <2>10. /\ \A i \in DOMAIN command'[t].set :
              command'[t].set[i] = item \/ (i \in DOMAIN command[t].set /\ command'[t].set[i] = command[t].set[i])
         /\ \A i \in DOMAIN command[t].set :
              i \in DOMAIN command'[t].set /\ command'[t].set[i] = command[t].set[i]
         /\ \E i \in DOMAIN command'[t].set : command'[t].set[i] = item
    BY <2>6, <2>7, <2>8, <2>9, Appended
  <2> QED
    BY <2>1, <2>4, <2>5, <2>10
<1>8. /\ \A d \in SetColumns(t)' : d = e \/ d \in SetColumns(t)
      /\ SetColumns(t) \subseteq SetColumns(t)' /\ e \in SetColumns(t)'
      /\ \A u \in Threads : u # t => SetColumns(u)' = SetColumns(u)
  BY <1>7 DEF SetColumns
<1>9. Typed'
  <2>1. SetItems' = SetItems
    BY <1>1, Zenon DEF SetItems
  <2>2. command' \in [Threads -> [set : SetItems, key : Values]]
    <3> HIDE DEF item
    <3>1. command' = [command EXCEPT ![t] = [command[t] EXCEPT !.set = command'[t].set]]
      BY <1>4 DEF Typed
    <3> QED
      BY <1>7, <3>1 DEF Typed
  <2>3. scan' \in [Threads -> 0 .. Length]
    BY <1>2, <1>4 DEF Typed
  <2>4. lastRead' \in [Names -> Values]
    BY <1>3, <1>4, <1>6 DEF Typed
  <2> QED
    BY <1>1, <1>5, <2>1, <2>2, <2>3, <2>4 DEF Typed
<1>10. Locked'
  BY <1>4, <1>5, <1>7 DEF Typed, Locked, At
<1>11. Assigned'
  <2>1. \A column : IsAssigned(column) => IsAssigned(column)'
    BY <1>1, <1>5, StaysAssigned
  <2>2. IsAssigned(e)
    BY <1>3 DEF IsAssigned, e
  <2>3. (\A u \in Threads : \A i \in DOMAIN command[u].set : IsAssigned(command[u].set[i].column))'
    <3>1. \A u \in Threads : \A i \in DOMAIN command'[u].set : IsAssigned(command'[u].set[i].column)
      BY <1>7, <2>2 DEF Assigned
    <3> QED
      BY <2>1, <3>1
  <2> QED
    BY <1>1, <1>5, <2>3 DEF Assigned, At, Marks
<1>12. InOrder(layout) => Seen'
  <2> SUFFICES ASSUME InOrder(layout)
               PROVE  Seen'
    OBVIOUS
  <2>1. lastRead'[c] = entity[c] /\ \A d \in TrackedNames : d # c => lastRead'[d] = lastRead[d]
    BY <1>2, <1>3, <1>4 DEF Typed
  <2>2. \A d \in TrackedNames : Marks(d)' = Marks(d)
    BY <1>1, <1>5 DEF Marks
  <2>3. ASSUME NEW d \in TrackedNames, d # c, Pending(d)
        PROVE  Pending(d)'
    <3>1. ASSUME NEW u \in Threads, scan[u] >= PropertyIndex(d)
          PROVE  scan'[u] >= PropertyIndex(d)
      <4>1. PropertyIndex(d) # scan[t]
        BY <1>2, <2>3
      <4> QED
        BY <1>2, <1>4, <3>1, <4>1 DEF Typed
    <3> QED
      BY <1>1, <1>5, <2>2, <2>3, <3>1 DEF Pending, At
  <2> QED
    BY <1>1, <1>5, <2>1, <2>3 DEF Seen
<1>13. InOrder(layout) => Behind'
  <2> SUFFICES ASSUME InOrder(layout)
               PROVE  Behind'
    OBVIOUS
  <2>1. \A d \in TrackedNames : d \in SetColumns(t)' => PropertyIndex(d) > scan'[t]
    <3>1. scan'[t] = scan[t] - 1 /\ scan[t] \in Nat
      BY <1>2, <1>4 DEF Typed
    <3>2. \A d \in TrackedNames : d \in SetColumns(t) => PropertyIndex(d) > scan[t]
      BY <1>4 DEF Behind
    <3>3. \A d \in TrackedNames : d \in SetColumns(t)' => PropertyIndex(d) >= scan[t]
      BY <1>2, <1>8, <3>1, <3>2
    <3>4. \A p, q \in Nat : p >= q => p > q - 1
      OBVIOUS
    <3> QED
      BY <1>2, <3>1, <3>3
  <2>2. \A u \in Threads : u # t => scan'[u] = scan[u]
    BY <1>4 DEF Typed
  <2>3. \A u \in Threads : command'[u].key = 0
    BY <1>7 DEF Behind
  <2> QED
    BY <1>1, <1>5, <1>8, <2>1, <2>2, <2>3 DEF Behind, At
<1>14. InOrder(layout) => (\A u \in Threads : updaters = {u} => Alone(u))'
  <2> SUFFICES ASSUME InOrder(layout), updaters = {t}
               PROVE  Alone(t)'
    BY <1>4, <1>5 DEF Locked, At
  <2>0. e = c
    BY <1>2
  <2>1. c \notin SetColumns(t)
    BY <1>2, <1>4 DEF Behind, Typed
  <2>2. lastRead'[c] = entity[c] /\ \A d \in TrackedNames : d # c => lastRead'[d] = lastRead[d]
    BY <1>2, <1>3, <1>4 DEF Typed
  <2>3. \A i \in DOMAIN command[t].set :
          /\ command[t].set[i].column \in TrackedNames /\ command[t].set[i].column # c
          /\ command[t].set[i].value = lastRead[command[t].set[i].column]
    BY <2>1, ItemsInOrder DEF Alone, SetColumns
  <2>4. \A i \in DOMAIN command'[t].set : command'[t].set[i].value = lastRead'[command'[t].set[i].column]
    BY <2>0, <1>7, <2>2, <2>3
  <2>5. \A d \in TrackedNames : d \in SetColumns(t)' \/ d \in lost \/ stored[d] = lastRead'[d]
    BY <2>0, <1>8, <2>2 DEF Alone
  <2> QED
    BY <1>1, <1>5, <2>4, <2>5 DEF Alone
<1> QED
  BY <1>1, <1>9, <1>10, <1>11, <1>12, <1>13, <1>14

(* The other turns change nothing but the place of the scan.               *)
LEMMA ReadUnmarkedKeeps ==
  ASSUME WellFormed, layout \in Layouts, Sent, NEW t \in Threads, ReadColumn(t),
         NEW c \in TrackedNames, PropertyIndex(c) = scan[t], Marks(c) = 0
  PROVE  Sent'
<1> USE DEF Sent
<1>1. layout' = layout /\ InOrder(layout)' = InOrder(layout) /\ Length' = Length /\ Names' = Names /\ TrackedNames' = TrackedNames
      /\ PrimaryColumn' = PrimaryColumn
      /\ \A d : /\ PropertyIndex(d)' = PropertyIndex(d) /\ Mark(d)' = Mark(d)
               /\ EntityColumnAt(Mark(d))' = EntityColumnAt(Mark(d))
  BY SameLayout DEF ReadColumn, inputVars
<1>2. /\ \A d \in TrackedNames : PropertyIndex(d) \in 1 .. Length
      /\ \A d, e \in TrackedNames : PropertyIndex(d) = PropertyIndex(e) => d = e
      /\ Length \in Nat
  BY Positions
<1>3. /\ At(t, "building") /\ scan[t] > 0
      /\ scan' = [scan EXCEPT ![t] = scan[t] - 1]
  BY DEF ReadColumn
<1>4. UNCHANGED <<updaters, entity, tracker, lock, pc, assigning, command, stored, assignments, lastRead, lost>>
  BY DEF ReadColumn, inputVars, Marks
<1>5. scan'[t] = scan[t] - 1 /\ scan[t] \in Nat /\ \A u \in Threads : u # t => scan'[u] = scan[u]
  BY <1>2, <1>3 DEF Typed
<1>6. Typed'
  <2>1. scan' \in [Threads -> 0 .. Length]
    BY <1>2, <1>3 DEF Typed
  <2> QED
    BY <1>1, <1>4, <2>1 DEF Typed, SetItems
<1>7. Locked'
  BY <1>4 DEF Locked, At
<1>8. Assigned'
  <2>1. \A column : IsAssigned(column) => IsAssigned(column)'
    BY <1>1, <1>4, StaysAssigned
  <2> QED
    BY <1>1, <1>4, <2>1 DEF Assigned, At, Marks
<1>9. InOrder(layout) => Seen'
  <2> SUFFICES ASSUME InOrder(layout)
               PROVE  Seen'
    OBVIOUS
  <2>1. \A d \in TrackedNames : Marks(d)' = Marks(d)
    BY <1>1, <1>4 DEF Marks
  <2>2. ASSUME NEW d \in TrackedNames, Pending(d)
        PROVE  Pending(d)'
    <3>1. ASSUME NEW u \in Threads, scan[u] >= PropertyIndex(d), Marks(d) # 0
          PROVE  scan'[u] >= PropertyIndex(d)
      <4>1. PropertyIndex(d) # scan[t]
        BY <1>2, <3>1
      <4> QED
        BY <1>2, <1>5, <3>1, <4>1
    <3> QED
      BY <1>1, <1>4, <2>1, <2>2, <3>1 DEF Pending, At
  <2> QED
    BY <1>1, <1>4, <2>2 DEF Seen
<1>10. InOrder(layout) => Behind'
  <2> SUFFICES ASSUME InOrder(layout)
               PROVE  Behind'
    OBVIOUS
  <2>1. \A d \in TrackedNames : d \in SetColumns(t) => PropertyIndex(d) > scan'[t]
    BY <1>2, <1>3, <1>5 DEF Behind
  <2> QED
    BY <1>1, <1>4, <1>5, <2>1 DEF Behind, At, SetColumns
<1>11. InOrder(layout) => (\A u \in Threads : updaters = {u} => Alone(u))'
  BY <1>1, <1>4 DEF Alone, SetColumns
<1> QED
  BY <1>1, <1>6, <1>7, <1>8, <1>9, <1>10, <1>11

LEMMA ReadColumnKeeps ==
  ASSUME WellFormed, layout \in Layouts, Sent, NEW t \in Threads, ReadColumn(t)
  PROVE  Sent'
<1>1. scan[t] \in 1 .. Length
  <2>1. scan[t] \in 0 .. Length /\ scan[t] > 0
    BY DEF Sent, Typed, ReadColumn
  <2>2. Length \in Nat
    BY Positions
  <2> QED
    BY <2>1, <2>2
<1>2. PICK c \in TrackedNames : PropertyIndex(c) = scan[t]
  BY <1>1, Positions
<1> QED
  BY <1>2, ReadMarkedKeeps, ReadUnmarkedKeeps

LEMMA LeaveLockKeeps ==
  ASSUME WellFormed, layout \in Layouts, Sent, NEW t \in Threads, LeaveLock(t)
  PROVE  Sent'
<1> USE DEF Sent
<1>1. layout' = layout /\ InOrder(layout)' = InOrder(layout) /\ Length' = Length /\ Names' = Names /\ TrackedNames' = TrackedNames
      /\ PrimaryColumn' = PrimaryColumn
      /\ \A d : /\ PropertyIndex(d)' = PropertyIndex(d) /\ Mark(d)' = Mark(d)
               /\ EntityColumnAt(Mark(d))' = EntityColumnAt(Mark(d))
  BY SameLayout DEF LeaveLock, inputVars
<1>2. /\ pc' = [pc EXCEPT ![t] = "key"] /\ pc[t] = "building" /\ scan[t] = 0 /\ lock' = Nobody
  BY DEF LeaveLock, Goto, At, Typed
<1>3. UNCHANGED <<updaters, entity, tracker, assigning, scan, command, stored, assignments, lastRead, lost>>
  BY DEF LeaveLock, inputVars, historyVars
<1>4. Typed'
  BY <1>1, <1>2, <1>3 DEF Typed, Labels, SetItems
<1>5. Locked'
  BY <1>2, <1>3, ChangeAssumption DEF Typed, Locked, At
<1>6. Assigned'
  <2>1. \A column : IsAssigned(column) => IsAssigned(column)'
    BY <1>1, <1>3, StaysAssigned
  <2> QED
    BY <1>1, <1>2, <1>3, <2>1 DEF Typed, Assigned, At, Marks
<1>7. InOrder(layout) => Seen'
  <2> SUFFICES ASSUME InOrder(layout)
               PROVE  Seen'
    OBVIOUS
  <2>1. \A d \in TrackedNames : ~(scan[t] >= PropertyIndex(d))
    BY <1>2, Positions
  <2> QED
    BY <1>1, <1>2, <1>3, <2>1 DEF Typed, Seen, Pending, At, Marks
<1>8. InOrder(layout) => Behind'
  BY <1>1, <1>2, <1>3 DEF Typed, Behind, At, SetColumns
<1>9. InOrder(layout) => (\A u \in Threads : updaters = {u} => Alone(u))'
  BY <1>1, <1>3 DEF Alone, SetColumns
<1> QED
  BY <1>1, <1>4, <1>5, <1>6, <1>7, <1>8, <1>9

LEMMA ReadKeyKeeps ==
  ASSUME WellFormed, layout \in Layouts, Sent, NEW t \in Threads, ReadKey(t)
  PROVE  Sent'
<1> USE DEF Sent
<1>1. layout' = layout /\ InOrder(layout)' = InOrder(layout) /\ Length' = Length /\ Names' = Names /\ TrackedNames' = TrackedNames
      /\ PrimaryColumn' = PrimaryColumn
      /\ \A d : /\ PropertyIndex(d)' = PropertyIndex(d) /\ Mark(d)' = Mark(d)
               /\ EntityColumnAt(Mark(d))' = EntityColumnAt(Mark(d))
  BY SameLayout DEF ReadKey, inputVars
<1>2. /\ pc' = [pc EXCEPT ![t] = "executing"] /\ pc[t] = "key"
      /\ command' = [command EXCEPT ![t].key = entity[PrimaryColumn]]
  BY DEF ReadKey, Goto, At, Typed
<1>3. UNCHANGED <<updaters, entity, tracker, lock, assigning, scan, stored, assignments, lastRead, lost>>
  BY DEF ReadKey, inputVars, historyVars
<1>4. PrimaryColumn \in Names /\ entity[PrimaryColumn] \in Values
  BY Positions DEF Typed
<1>5. /\ command' \in [Threads -> [set : SetItems, key : Values]]
      /\ \A u \in Threads : command'[u].set = command[u].set
      /\ \A u \in Threads : command'[u].key \in {command[u].key, entity[PrimaryColumn]}
  <2>1. command' = [command EXCEPT ![t] = [command[t] EXCEPT !.key = entity[PrimaryColumn]]]
    BY <1>2
  <2>2. command[t] \in [set : SetItems, key : Values]
    BY DEF Typed
  <2> DEFINE new == [command[t] EXCEPT !.key = entity[PrimaryColumn]]
  <2>3. /\ new \in [set : SetItems, key : Values]
        /\ new.set = command[t].set /\ new.key = entity[PrimaryColumn]
    BY <1>4, <2>2
  <2> HIDE DEF new
  <2>4. command' = [command EXCEPT ![t] = new]
    BY <2>1 DEF new
  <2> QED
    BY <2>3, <2>4 DEF Typed
<1>6. Typed'
  BY <1>1, <1>2, <1>3, <1>5 DEF Typed, Labels, SetItems
<1>7. Locked'
  BY <1>2, <1>3, <1>5 DEF Typed, Locked, At
<1>8. Assigned'
  <2>1. \A column : IsAssigned(column) => IsAssigned(column)'
    BY <1>1, <1>3, StaysAssigned
  <2> QED
    BY <1>1, <1>2, <1>3, <1>5, <2>1 DEF Typed, Assigned, At, Marks
<1>9. InOrder(layout) => Seen'
  BY <1>1, <1>2, <1>3 DEF Typed, Seen, Pending, At, Marks
<1>10. InOrder(layout) => Behind'
  BY <1>1, <1>2, <1>3, <1>5 DEF Typed, Behind, At, SetColumns
<1>11. InOrder(layout) => (\A u \in Threads : updaters = {u} => Alone(u))'
  BY <1>1, <1>3, <1>5 DEF Alone, SetColumns
<1> QED
  BY <1>1, <1>6, <1>7, <1>8, <1>9, <1>10, <1>11

(* The value a statement stores is one it has for the column.              *)
LEMMA SetValueOf ==
  ASSUME Typed, NEW t \in Threads, NEW c \in SetColumns(t)
  PROVE  \E i \in DOMAIN command[t].set :
           command[t].set[i].column = c /\ SetValue(t, c) = command[t].set[i].value
<1> DEFINE I == {i \in 1 .. Len(command[t].set) : command[t].set[i].column = c}
<1>1. command[t].set \in SetItems
  BY DEF Typed
<1>2. DOMAIN command[t].set = 1 .. Len(command[t].set)
  BY <1>1 DEF SetItems
<1>3. I # {} /\ I \in SUBSET Nat
  BY <1>2 DEF SetColumns
<1>4. Min(I) \in I
  BY <1>3, LeastElement, Zenon
<1>5. SetValue(t, c) = command[t].set[IF I # {} THEN Min(I) ELSE 0].value
  BY DEF SetValue, SelectInSeq
<1> HIDE DEF I
<1>6. SetValue(t, c) = command[t].set[Min(I)].value
  BY <1>3, <1>5
<1>7. Min(I) \in DOMAIN command[t].set /\ command[t].set[Min(I)].column = c
  BY <1>2, <1>4, Zenon DEF I
<1> QED
  BY <1>6, <1>7, Zenon

(* What ending a statement does, however it ends.                          *)
LEMMA EndKeeps ==
  ASSUME WellFormed, layout \in Layouts, Sent, NEW t \in Threads,
         At(t, "executing"), Goto(t, "idle"), command' = [command EXCEPT ![t] = EmptyCommand],
         UNCHANGED <<updaters, layout, entity, tracker, lock, assigning, scan, assignments, lastRead>>,
         stored' \in [Names -> Values], lost' \subseteq Names,
         InOrder(layout) => stored'[PrimaryColumn] = 0,
         InOrder(layout) => \A c \in TrackedNames :
           IF c \in SetColumns(t) THEN c \in lost' \/ stored'[c] = SetValue(t, c)
           ELSE stored'[c] = stored[c] /\ (c \in lost => c \in lost')
  PROVE  Sent'
<1> USE DEF Sent
<1>1. layout' = layout /\ InOrder(layout)' = InOrder(layout) /\ Length' = Length /\ Names' = Names /\ TrackedNames' = TrackedNames
      /\ PrimaryColumn' = PrimaryColumn
      /\ \A d : /\ PropertyIndex(d)' = PropertyIndex(d) /\ Mark(d)' = Mark(d)
               /\ EntityColumnAt(Mark(d))' = EntityColumnAt(Mark(d))
  BY SameLayout
<1>2. pc' = [pc EXCEPT ![t] = "idle"] /\ pc[t] = "executing"
  BY DEF Goto, At, Typed
<1>3. EmptyCommand \in [set : SetItems, key : Values] /\ EmptyCommand.set = <<>> /\ EmptyCommand.key = 0
  BY ChangeAssumption DEF EmptyCommand, SetItems, Values
<1>4. command'[t] = EmptyCommand /\ \A u \in Threads : u # t => command'[u] = command[u]
  BY DEF Typed
<1>5. SetColumns(t)' = {} /\ \A u \in Threads : u # t => SetColumns(u)' = SetColumns(u)
  BY <1>3, <1>4 DEF SetColumns
<1>6. Typed'
  <2>1. SetItems' = SetItems
    BY <1>1, Zenon DEF SetItems
  <2>2. command' \in [Threads -> [set : SetItems, key : Values]] /\ pc' \in [Threads -> Labels]
    BY <1>2, <1>3 DEF Typed, Labels
  <2> QED
    BY <1>1, <2>1, <2>2 DEF Typed
<1>7. Locked'
  BY <1>2, <1>3, <1>4 DEF Typed, Locked, At
<1>8. Assigned'
  <2>1. \A column : IsAssigned(column) => IsAssigned(column)'
    BY <1>1, StaysAssigned
  <2> QED
    BY <1>1, <1>2, <1>3, <1>4, <2>1 DEF Typed, Assigned, At, Marks
<1>9. InOrder(layout) => Seen'
  BY <1>1, <1>2 DEF Typed, Seen, Pending, At, Marks
<1>10. InOrder(layout) => Behind'
  <2> SUFFICES ASSUME InOrder(layout)
               PROVE  Behind'
    OBVIOUS
  <2>1. \A u \in Threads : command'[u].key = 0
    BY <1>3, <1>4 DEF Behind
  <2> QED
    BY <1>1, <1>2, <1>5, <2>1 DEF Typed, Behind, At
<1>11. InOrder(layout) => (\A u \in Threads : updaters = {u} => Alone(u))'
  <2> SUFFICES ASSUME InOrder(layout), updaters = {t}
               PROVE  Alone(t)'
    BY <1>2 DEF Locked
  <2>1. ASSUME NEW c \in TrackedNames
        PROVE  c \in lost' \/ stored'[c] = lastRead[c]
    <3>1. CASE c \in SetColumns(t)
      BY <3>1, SetValueOf DEF Alone
    <3>2. CASE c \notin SetColumns(t)
      BY <3>2 DEF Alone
    <3> QED
      BY <3>1, <3>2
  <2> QED
    BY <1>1, <1>3, <1>4, <2>1 DEF Alone
<1> QED
  BY <1>1, <1>6, <1>7, <1>8, <1>9, <1>10, <1>11

LEMMA ExecuteSucceedsKeeps ==
  ASSUME WellFormed, layout \in Layouts, Sent, NEW t \in Threads, ExecuteSucceeds(t)
  PROVE  Sent'
<1> USE DEF Sent
<1>1. /\ stored' = IF command[t].key # stored[PrimaryColumn] THEN stored
                    ELSE [c \in Names |-> IF c \in SetColumns(t) THEN SetValue(t, c) ELSE stored[c]]
      /\ lost' = lost \ SetColumns(t)
  BY DEF ExecuteSucceeds
<1>2. \A c \in SetColumns(t) : SetValue(t, c) \in Values
  BY ItemsOf, SetValueOf
<1>3. stored' \in [Names -> Values] /\ lost' \subseteq Names
  BY <1>1, <1>2 DEF Typed
<1>4. ASSUME InOrder(layout)
      PROVE  /\ stored'[PrimaryColumn] = 0
             /\ \A c \in TrackedNames :
                  IF c \in SetColumns(t) THEN c \in lost' \/ stored'[c] = SetValue(t, c)
                  ELSE stored'[c] = stored[c] /\ (c \in lost => c \in lost')
  <2>1. stored' = [c \in Names |-> IF c \in SetColumns(t) THEN SetValue(t, c) ELSE stored[c]]
    BY <1>1, <1>4 DEF Behind
  <2>2. /\ PrimaryColumn \in Names \ TrackedNames /\ TrackedNames \subseteq Names
        /\ SetColumns(t) \subseteq TrackedNames
    BY <1>4, Positions, PositionsInOrder, ItemsInOrder
  <2>3. stored[PrimaryColumn] = 0
    BY <1>4 DEF Behind
  <2> QED
    BY <1>1, <2>1, <2>2, <2>3
<1> QED
  BY <1>3, <1>4, EndKeeps DEF ExecuteSucceeds, inputVars

LEMMA ExecuteFailsKeeps ==
  ASSUME WellFormed, layout \in Layouts, Sent, NEW t \in Threads, ExecuteFails(t)
  PROVE  Sent'
<1>1. stored' = stored /\ lost' = lost \cup SetColumns(t)
  BY DEF ExecuteFails
<1>2. stored' \in [Names -> Values] /\ (InOrder(layout) => stored'[PrimaryColumn] = 0)
  BY <1>1 DEF Sent, Typed, Behind
<1>3. lost' \subseteq Names
  <2>1. SetColumns(t) \subseteq Names
    BY ItemsOf DEF Sent
  <2> QED
    BY <1>1, <2>1 DEF Sent, Typed
<1> QED
  BY <1>1, <1>2, <1>3, EndKeeps DEF ExecuteFails, inputVars

-----------------------------------------------------------------------------
(* Invariance, and what follows from it.                                   *)

LEMMA UntouchedStays ==
  ASSUME layout \notin Layouts, Untouched, Next
  PROVE  FALSE
<1>1. ~tracker.isDirty /\ \A t \in Threads : At(t, "idle") /\ pc[t] = "idle"
  BY DEF Untouched, ChangeTracker, At
<1> QED
  BY <1>1 DEF Next, At, BaseSetter, MakeDirty, CheckDirty, EnterLock, ReadColumn, LeaveLock,
              ReadKey, ExecuteSucceeds, ExecuteFails

LEMMA TrackingStep ==
  ASSUME WellFormed, TrackingInv, [Next]_vars
  PROVE  TrackingInv'
<1>1. CASE layout \notin Layouts
  <2>1. UNCHANGED vars
    BY <1>1, UntouchedStays DEF TrackingInv
  <2>2. UNCHANGED <<updaters, layout, entity, tracker, lock, pc, assigning, scan, command,
                    stored, assignments, lastRead, lost>>
    BY <2>1 DEF vars, inputVars, threadVars, historyVars
  <2>3. Length' = Length /\ Names' = Names
    BY <2>2, SameLayout
  <2> QED
    BY <1>1, <2>2, <2>3 DEF TrackingInv, Untouched
<1>2. CASE layout \in Layouts
  <2>1. Sent
    BY <1>2 DEF TrackingInv
  <2>2. layout' = layout
    BY DEF Next, vars, inputVars, BaseSetter, MakeDirty, CheckDirty, EnterLock, ReadColumn,
           LeaveLock, ReadKey, ExecuteSucceeds, ExecuteFails
  <2>3. ASSUME UNCHANGED vars
        PROVE  Sent'
    <3>1. UNCHANGED <<updaters, layout, entity, tracker, lock, pc, assigning, scan, command,
                      stored, assignments, lastRead, lost>>
      BY <2>3 DEF vars, inputVars, threadVars, historyVars
    <3>2. /\ Length' = Length /\ Names' = Names /\ TrackedNames' = TrackedNames
          /\ PrimaryColumn' = PrimaryColumn /\ InOrder(layout)' = InOrder(layout)
          /\ \A d : PropertyIndex(d)' = PropertyIndex(d) /\ Mark(d)' = Mark(d)
      BY <2>2, SameLayout
    <3>3. Typed'
      BY <2>1, <3>1, <3>2 DEF Sent, Typed, SetItems
    <3>4. Locked'
      BY <2>1, <3>1 DEF Sent, Locked, At
    <3>5. Assigned'
      <4>1. \A column : IsAssigned(column) => IsAssigned(column)'
        BY <3>1, StaysAssigned
      <4> QED
        BY <2>1, <3>1, <3>2, <4>1 DEF Sent, Assigned, At, Marks
    <3>6. InOrder(layout) => Seen'
      BY <2>1, <3>1, <3>2 DEF Sent, Seen, Pending, At, Marks
    <3>7. InOrder(layout) => Behind'
      BY <2>1, <3>1, <3>2 DEF Sent, Behind, At, SetColumns
    <3>8. InOrder(layout) => (\A u \in Threads : updaters = {u} => Alone(u))'
      BY <2>1, <3>1, <3>2 DEF Sent, Alone, SetColumns
    <3> QED
      BY <3>2, <3>3, <3>4, <3>5, <3>6, <3>7, <3>8 DEF Sent
  <2>4. ASSUME Next
        PROVE  Sent'
    <3> PICK t \in Threads :
          \/ \E c \in TrackedNames : BaseSetter(t, c)
          \/ MakeDirty(t)
          \/ CheckDirty(t) \/ EnterLock(t) \/ ReadColumn(t) \/ LeaveLock(t)
          \/ ReadKey(t) \/ ExecuteSucceeds(t) \/ ExecuteFails(t)
      BY <2>4 DEF Next
    <3>1. ASSUME NEW c \in TrackedNames, BaseSetter(t, c)
          PROVE  Sent'
      BY <1>2, <2>1, <3>1, BaseSetterKeeps
    <3>2. CASE MakeDirty(t)
      BY <1>2, <2>1, <3>2, MakeDirtyKeeps
    <3>3. CASE CheckDirty(t)
      BY <1>2, <2>1, <3>3, CheckDirtyKeeps
    <3>4. CASE EnterLock(t)
      BY <1>2, <2>1, <3>4, EnterLockKeeps
    <3>5. CASE ReadColumn(t)
      BY <1>2, <2>1, <3>5, ReadColumnKeeps
    <3>6. CASE LeaveLock(t)
      BY <1>2, <2>1, <3>6, LeaveLockKeeps
    <3>7. CASE ReadKey(t)
      BY <1>2, <2>1, <3>7, ReadKeyKeeps
    <3>8. CASE ExecuteSucceeds(t)
      BY <1>2, <2>1, <3>8, ExecuteSucceedsKeeps
    <3>9. CASE ExecuteFails(t)
      BY <1>2, <2>1, <3>9, ExecuteFailsKeeps
    <3> QED
      BY <3>1, <3>2, <3>3, <3>4, <3>5, <3>6, <3>7, <3>8, <3>9
  <2> QED
    BY <1>2, <2>2, <2>3, <2>4 DEF TrackingInv
<1> QED
  BY <1>1, <1>2

(* However setters and updates interleave, in any number of threads, the   *)
(* inductive invariant holds (ChangeTracker, ChangeTrackerFactory and      *)
(* BaseUpdate).                                                            *)
THEOREM TrackingInvariance == WellFormed /\ Spec => []TrackingInv
<1>1. WellFormed /\ TrackingInv /\ [Next]_vars => (WellFormed /\ TrackingInv)'
  BY TrackingStep
<1> QED
  BY <1>1, InitialInv, PTL DEF Spec

(* No assignment is missed: a clean entity at rest has had the last value  *)
(* of every tracked property read by an update, if its columns are defined *)
(* in the order in which Build leaves them.                                *)
THEOREM NothingIsMissed == WellFormed /\ Spec => []EveryAssignmentSent
<1>1. TrackingInv => EveryAssignmentSent
  BY DEF TrackingInv, EveryAssignmentSent, Sent, Seen, Pending, Untouched, Clean, Quiet, At
<1> QED
  BY <1>1, TrackingInvariance, PTL

(* Each column an UPDATE sets has the number of an assigned property, and  *)
(* is the column of that property where the definitions are in order, as   *)
(* they are not with an inherited key.                                     *)
THEOREM NothingIsInvented == WellFormed /\ Spec => []OnlyAssignedColumnsSent
<1>1. WellFormed /\ TrackingInv => OnlyAssignedColumnsSent
  <2> SUFFICES ASSUME WellFormed, TrackingInv, NEW t \in Threads, NEW c \in SetColumns(t)
               PROVE  /\ \E i \in DOMAIN layout : entity[layout[i].name] # 0 /\ c = Columns[i % 256]
                      /\ InOrder(layout) => entity[c] # 0
    BY DEF OnlyAssignedColumnsSent
  <2>1. CASE layout \in Layouts
    <3>1. Assigned /\ layout \in Definitions
      BY <2>1 DEF TrackingInv, Sent
    <3>2. IsAssigned(c)
      BY <3>1 DEF Assigned, SetColumns
    <3>3. PICK d \in TrackedNames : c = EntityColumnAt(Mark(d)) /\ entity[d] # 0
      BY <3>2 DEF IsAssigned
    <3>4. PICK i \in DOMAIN layout : d = layout[i].name
      BY DEF TrackedNames
    <3>5. c = Columns[i % 256]
      BY <3>1, <3>3, <3>4, MarkIsPosition DEF EntityColumnAt
    <3>6. InOrder(layout) => c = d
      BY <2>1, <3>3, PositionsInOrder
    <3> QED
      BY <3>3, <3>4, <3>5, <3>6
  <2>2. CASE layout \notin Layouts
    BY <2>2 DEF TrackingInv, Untouched, SetColumns, EmptyCommand
  <2> QED
    BY <2>1, <2>2
<1>2. WellFormed /\ TrackingInv /\ [Next]_vars => (WellFormed /\ TrackingInv)'
  BY TrackingStep
<1>3. WellFormed /\ Spec => [](WellFormed /\ TrackingInv)
  BY <1>2, InitialInv, PTL DEF Spec
<1> QED
  BY <1>1, <1>3, PTL

(* With one updating thread, what a clean entity at rest holds is stored,  *)
(* but for the columns whose last UPDATE failed, if its columns are        *)
(* defined in order.                                                       *)
THEOREM CleanIsStored == WellFormed /\ Spec => []CleanMeansStored
<1>1. TrackingInv => CleanMeansStored
  <2> SUFFICES ASSUME TrackingInv, InOrder(layout), Clean, Cardinality(updaters) = 1, NEW c \in TrackedNames \ lost
               PROVE  stored[c] = entity[c]
    BY DEF CleanMeansStored
  <2>1. CASE layout \notin Layouts
    BY <2>1 DEF TrackingInv, Untouched
  <2>2. CASE layout \in Layouts
    <3>1. Sent
      BY <2>2 DEF TrackingInv
    <3>2. updaters \subseteq Threads
      BY <3>1 DEF Sent, Typed
    <3>3. PICK u : updaters = {u}
      BY <3>2, ChangeAssumption, FS_Subset, FS_Singleton
    <3>4. u \in Threads /\ Alone(u)
      BY <3>1, <3>2, <3>3 DEF Sent
    <3>5. SetColumns(u) = {}
      BY <3>1, <3>4 DEF Sent, Locked, Clean, Quiet, At, SetColumns
    <3>6. stored[c] = lastRead[c]
      BY <3>4, <3>5 DEF Alone
    <3>7. lastRead[c] = entity[c]
      BY <3>1 DEF Sent, Seen, Pending, Clean, Quiet, At
    <3> QED
      BY <3>6, <3>7
  <2> QED
    BY <2>1, <2>2
<1> QED
  BY <1>1, TrackingInvariance, PTL

(* EntityBuilder.Build: however the properties of a type are declared, the *)
(* built columns are the keys, then the writable columns, then the         *)
(* read-only ones, each group as declared; and an INSERT provides the      *)
(* values of the columns it names, if only the first key is generated.     *)
THEOREM ColumnsFit ==
  (\A l \in Definitions : FirstKeyGenerated(l)) /\ Spec => [](ColumnsInSections /\ InsertMatchesColumnList)
<1> DEFINE Fit == layout \in Definitions /\ \A l \in Definitions : FirstKeyGenerated(l)
<1>1. (\A l \in Definitions : FirstKeyGenerated(l)) /\ Init => Fit
  BY DEF Init
<1>2. Fit /\ [Next]_vars => Fit'
  BY DEF Next, vars, inputVars, BaseSetter, MakeDirty, CheckDirty, EnterLock, ReadColumn,
         LeaveLock, ReadKey, ExecuteSucceeds, ExecuteFails
<1>3. Fit => ColumnsInSections /\ InsertMatchesColumnList
  <2> SUFFICES ASSUME Fit
               PROVE  ColumnsInSections /\ InsertMatchesColumnList
    OBVIOUS
  <2>1. ColumnsInSections
    BY InSections DEF ColumnsInSections, Columns, Names, ColumnNames
  <2>2. InsertMatchesColumnList
    BY InsertedAsListed DEF InsertMatchesColumnList
  <2> QED
    BY <2>1, <2>2
<1> HIDE DEF Fit
<1> QED
  BY <1>1, <1>2, <1>3, PTL DEF Spec

(* The views of the columns agree, and the variables have their types.     *)
THEOREM AgreeingColumns ==
  WellFormed /\ (\A l \in Definitions : FirstKeyGenerated(l)) /\ Spec => []ColumnsAgree
<1>1. TrackingInv /\ WellFormed => TypeOK
  <2> SUFFICES ASSUME TrackingInv, WellFormed
               PROVE  TypeOK
    OBVIOUS
  <2>1. Length = Cardinality(TrackedNames) /\ Length \in Nat
    BY Slots DEF TrackingInv, Length, TrackedNames, TrackedPositions
  <2>2. CASE layout \in Layouts
    <3>1. Sent
      BY <2>2 DEF TrackingInv
    <3>2. \A t \in Threads : SetColumns(t) \subseteq Names
      BY <3>1, ItemsOf DEF Sent
    <3>3. \A t \in Threads : command[t].key \in Values
      BY <3>1 DEF Sent, Typed
    <3>4. \A t \in Threads : lock = t <=> At(t, "building")
      BY <3>1 DEF Sent, Locked
    <3>5. tracker.trackChanges \in BOOLEAN /\ tracker.isDirty \in BOOLEAN
      BY <3>1 DEF Sent, Typed
    <3> QED
      BY <2>1, <3>1, <3>2, <3>3, <3>4, <3>5 DEF Sent, Typed, TypeOK
  <2>3. CASE layout \notin Layouts
    <3>1. Untouched
      BY <2>3 DEF TrackingInv
    <3>2. 0 \in Values
      BY ChangeAssumption DEF Values
    <3>3. entity \in [Names -> Values] /\ stored = entity /\ lastRead = entity
      BY <3>1, <3>2 DEF Untouched
    <3>4. /\ tracker.trackChanges \in BOOLEAN /\ tracker.isDirty \in BOOLEAN
          /\ tracker.changedColumns \in [1 .. Length -> 0 .. 255]
      BY <3>1 DEF Untouched, ChangeTracker
    <3>5. \A t \in Threads : command[t].key \in Values /\ SetColumns(t) \subseteq Names
      BY <3>1, <3>2 DEF Untouched, EmptyCommand, SetColumns
    <3>6. \A t \in Threads : lock = t <=> At(t, "building")
      BY <3>1, ChangeAssumption DEF Untouched, At
    <3>7. pc \in [Threads -> Labels] /\ scan \in [Threads -> 0 .. Length]
      BY <2>1, <3>1 DEF Untouched, Labels
    <3> QED
      BY <2>1, <3>1, <3>2, <3>3, <3>4, <3>5, <3>6, <3>7 DEF Untouched, TypeOK
  <2> QED
    BY <2>2, <2>3
<1>2. WellFormed /\ TrackingInv /\ [Next]_vars => (WellFormed /\ TrackingInv)'
  BY TrackingStep
<1>3. WellFormed /\ Spec => [](WellFormed /\ TrackingInv)
  BY <1>2, InitialInv, PTL DEF Spec
<1> QED
  BY <1>1, <1>3, ColumnsFit, PTL DEF ColumnsAgree

=============================================================================

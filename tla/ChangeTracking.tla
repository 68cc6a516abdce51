---------------------------- MODULE ChangeTracking ----------------------------
(***************************************************************************)
(* A change-tracked entity.  Its proxy overrides the virtual setters: they *)
(* store the value and mark the column in the entity's ChangeTracker.      *)
(* UpdateAsync turns the marked columns into an UPDATE statement.  Threads *)
(* assign properties and update the entity concurrently, each of them      *)
(* through a Database of its own.                                          *)
(***************************************************************************)
EXTENDS EntityColumns

CONSTANTS
  Threads,          \* the threads that use the entity
  Definitions,      \* the entities: sequences of column definitions
  Layouts,          \* those of them that the threads change
  Origins,          \* how the caller got the entity: "TrackChanges", be it of
                    \* the query or of the table, or "GetProxiedEntity"
  MayFail,          \* whether the execution of an UPDATE may fail
  MaxAssignments    \* bound: how often a property is assigned

Nobody == "nobody"

ASSUME ChangeAssumption ==
  /\ IsFiniteSet(Threads) /\ Nobody \notin Threads
  /\ Layouts \subseteq Definitions
  /\ MaxAssignments \in Nat
  /\ MayFail \in BOOLEAN
  /\ Origins \subseteq {"TrackChanges", "GetProxiedEntity"}

(* Properties have different names; Build refuses an entity without key    *)
(* and one of nothing but keys.                                            *)
ASSUME DefinitionsAssumption ==
  \A l \in Definitions :
    /\ l \in Seq([name : STRING \ {NoNode}, key : BOOLEAN, readOnly : BOOLEAN, virtual : BOOLEAN])
    /\ \A i, j \in DOMAIN l : l[i].name = l[j].name => i = j
    /\ KeyCount(l) >= 1 /\ Len(l) > KeyCount(l)

VARIABLES
  updaters,    \* the threads that update the entity
  layout,      \* the entity's column definitions
  entity,      \* the entity's properties
  tracker,     \* its ChangeTracker
  lock,        \* the thread that holds the tracker's lock
  pc,          \* what each thread is doing
  assigning,   \* the column whose setter a thread is in
  scan,        \* the tracked properties a thread has yet to look at
  command,     \* the statement a thread builds: the columns set, and the key
  stored,      \* the row in the database
  assignments, \* history: how many assignments there were; each one stores
               \* its own number
  lastRead,    \* history: the last value an update read of each column
  lost         \* history: the columns whose last update failed

inputVars == <<updaters, layout>>
threadVars == <<pc, assigning, scan, command>>
historyVars == <<assignments, lastRead, lost>>
vars == <<inputVars, entity, tracker, lock, threadVars, stored, historyVars>>

Columns == Build(layout)
Names == ToSet(Columns)
PrimaryColumn == Columns[1]
TrackedNames == {layout[i].name : i \in {j \in DOMAIN layout : Tracked(layout[j])}}
PropertyIndex(name) ==
  SelectInSeq(ChangeTrackingColumns(layout), LAMBDA i : layout[i + 1].name = name)

EmptyCommand == [set |-> <<>>, key |-> 0]
ChangeTracker(columnLength, trackChanges) ==
  [trackChanges |-> trackChanges, isDirty |-> FALSE,
   changedColumns |-> [i \in 1 .. columnLength |-> 0]]

Init ==
  /\ updaters \in SUBSET Threads
  /\ layout \in Definitions
  /\ \E origin \in Origins :
       tracker = ChangeTracker(Len(ChangeTrackingColumns(layout)), origin = "TrackChanges")
  /\ entity = [c \in Names |-> 0]
  /\ stored = entity
  /\ lastRead = entity
  /\ lock = Nobody
  /\ pc = [t \in Threads |-> "idle"]
  /\ assigning = [t \in Threads |-> PrimaryColumn]
  /\ scan = [t \in Threads |-> 0]
  /\ command = [t \in Threads |-> EmptyCommand]
  /\ assignments = 0
  /\ lost = {}

Goto(t, label) == pc' = [pc EXCEPT ![t] = label]
At(t, label) == pc[t] = label

-----------------------------------------------------------------------------
(* The overridden setter: the base setter, then MakeDirty.                 *)

BaseSetter(t, c) ==
  /\ layout \in Layouts
  /\ At(t, "idle") /\ Goto(t, "marking")
  /\ assignments < MaxAssignments
  /\ assignments' = assignments + 1
  /\ entity' = [entity EXCEPT ![c] = assignments']
  /\ assigning' = [assigning EXCEPT ![t] = c]
  /\ UNCHANGED <<inputVars, tracker, lock, scan, command, stored, lastRead, lost>>

(* The position of the column, plus one, in a byte.                        *)
Mark(c) == SelectInSeq(layout, LAMBDA d : d.name = c) % 256

(* Definitions named X_Y are variants of X with a mistake.  No             *)
(* specification uses them; they show which property would notice.         *)
Marked_Anew(c) ==
  [ChangeTracker(Len(tracker.changedColumns), TRUE) EXCEPT
     !.isDirty = TRUE, !.changedColumns[PropertyIndex(c)] = Mark(c)]

Marked(c) ==
  LET dirty == IF tracker.isDirty THEN tracker
               ELSE [ChangeTracker(Len(tracker.changedColumns), TRUE) EXCEPT !.isDirty = TRUE]
  IN [dirty EXCEPT !.changedColumns[PropertyIndex(c)] = Mark(c)]

MakeDirty(t) ==
  /\ At(t, "marking") /\ Goto(t, "idle")
  /\ lock = Nobody
  /\ tracker' = IF tracker.trackChanges THEN Marked(assigning[t]) ELSE tracker
  /\ UNCHANGED <<inputVars, entity, lock, assigning, scan, command, stored, historyVars>>

-----------------------------------------------------------------------------
(* BaseUpdate and the execution of the statement it builds.                *)

(* The flag is read before the lock is taken.                              *)
CheckDirty(t) ==
  /\ t \in updaters
  /\ At(t, "idle") /\ tracker.isDirty /\ Goto(t, "locking")
  /\ UNCHANGED <<inputVars, entity, tracker, lock, assigning, scan, command, stored, historyVars>>

EnterLock(t) ==
  /\ At(t, "locking") /\ Goto(t, "building")
  /\ lock = Nobody
  /\ lock' = t
  /\ tracker' = [tracker EXCEPT !.isDirty = FALSE]
  /\ scan' = [scan EXCEPT ![t] = Len(tracker.changedColumns)]
  /\ command' = [command EXCEPT ![t] = EmptyCommand]
  /\ UNCHANGED <<inputVars, entity, assigning, stored, historyVars>>

EntityColumnAt_OffByOne(mark) == Columns[IF mark < Len(Columns) THEN mark + 1 ELSE mark]
EntityColumnAt(mark) == Columns[mark]

(* One turn of the loop over the tracked properties, from the last to the  *)
(* first.  Reading the property is not synchronised with its setter.       *)
ReadColumn(t) ==
  LET mark == tracker.changedColumns[scan[t]]
      c    == EntityColumnAt(mark) IN
  /\ At(t, "building") /\ scan[t] > 0
  /\ scan' = [scan EXCEPT ![t] = @ - 1]
  /\ IF mark = 0
       THEN UNCHANGED <<command, lastRead>>
       ELSE /\ command' = [command EXCEPT ![t].set = Append(@, [column |-> c, value |-> entity[c]])]
            /\ lastRead' = [lastRead EXCEPT ![c] = entity[c]]
  /\ UNCHANGED <<inputVars, entity, tracker, lock, pc, assigning, stored, assignments, lost>>

LeaveLock(t) ==
  /\ At(t, "building") /\ scan[t] = 0 /\ Goto(t, "key")
  /\ lock' = Nobody
  /\ UNCHANGED <<inputVars, entity, tracker, assigning, scan, command, stored, historyVars>>

(* The value of the primary key for the WHERE clause.                      *)
ReadKey_ClearsAgain(t) ==
  /\ At(t, "key") /\ Goto(t, "executing")
  /\ command' = [command EXCEPT ![t].key = entity[PrimaryColumn]]
  /\ tracker' = [tracker EXCEPT !.isDirty = FALSE]
  /\ UNCHANGED <<inputVars, entity, lock, assigning, scan, stored, historyVars>>

ReadKey(t) ==
  /\ At(t, "key") /\ Goto(t, "executing")
  /\ command' = [command EXCEPT ![t].key = entity[PrimaryColumn]]
  /\ UNCHANGED <<inputVars, entity, tracker, lock, assigning, scan, stored, historyVars>>

SetColumns(t) == {command[t].set[i].column : i \in DOMAIN command[t].set}
SetValue(t, c) ==
  command[t].set[SelectInSeq(command[t].set, LAMBDA s : s.column = c)].value

(* The statement changes the row whose key it names, all columns at once.  *)
ExecuteSucceeds(t) ==
  /\ At(t, "executing") /\ Goto(t, "idle")
  /\ stored' = IF command[t].key # stored[PrimaryColumn] THEN stored
               ELSE [c \in Names |-> IF c \in SetColumns(t) THEN SetValue(t, c) ELSE stored[c]]
  /\ lost' = lost \ SetColumns(t)
  /\ command' = [command EXCEPT ![t] = EmptyCommand]
  /\ UNCHANGED <<inputVars, entity, tracker, lock, assigning, scan, assignments, lastRead>>

(* The failure is rolled back and logged; the tracker is left as it is.    *)
ExecuteFails(t) ==
  /\ MayFail
  /\ At(t, "executing") /\ Goto(t, "idle")
  /\ lost' = lost \cup SetColumns(t)
  /\ command' = [command EXCEPT ![t] = EmptyCommand]
  /\ UNCHANGED <<inputVars, entity, tracker, lock, assigning, scan, stored, assignments, lastRead>>

Next ==
  \E t \in Threads :
    \/ \E c \in TrackedNames : BaseSetter(t, c)
    \/ MakeDirty(t)
    \/ CheckDirty(t) \/ EnterLock(t) \/ ReadColumn(t) \/ LeaveLock(t)
    \/ ReadKey(t) \/ ExecuteSucceeds(t) \/ ExecuteFails(t)

Spec == Init /\ [][Next]_vars

-----------------------------------------------------------------------------
Values == 0 .. MaxAssignments
Labels == {"idle", "marking", "locking", "building", "key", "executing"}

(* Every variable has its type, and the lock is held exactly while a       *)
(* statement is being built.                                               *)
TypeOK ==
  /\ updaters \subseteq Threads
  /\ entity \in [Names -> Values]
  /\ stored \in [Names -> Values]
  /\ lastRead \in [Names -> Values]
  /\ tracker.trackChanges \in BOOLEAN /\ tracker.isDirty \in BOOLEAN
  /\ tracker.changedColumns \in [1 .. Cardinality(TrackedNames) -> 0 .. 255]
  /\ pc \in [Threads -> Labels]
  /\ assigning \in [Threads -> Names]
  /\ scan \in [Threads -> 0 .. Cardinality(TrackedNames)]
  /\ \A t \in Threads : command[t].key \in Values /\ SetColumns(t) \subseteq Names
  /\ assignments \in Values
  /\ lost \subseteq Names
  /\ \A t \in Threads : lock = t <=> At(t, "building")

Quiet == \A t \in Threads : At(t, "idle")
Clean == Quiet /\ ~tracker.isDirty

Section(d) == IF d.key THEN 1 ELSE IF d.readOnly THEN 3 ELSE 2
Ahead(l, i, j) == Section(l[i]) < Section(l[j]) \/ (Section(l[i]) = Section(l[j]) /\ i < j)

(* Build: the arrays the inserter and the materializers index have the     *)
(* keys first, then the writable columns, then the read-only ones, each    *)
(* group in the order of definition, however they are mixed there.         *)
ColumnsInSections ==
  /\ Len(Columns) = Len(layout)
  /\ Names = {layout[i].name : i \in DOMAIN layout}
  /\ \A i, j \in DOMAIN layout : Ahead(layout, i, j) =>
       \E m, n \in DOMAIN Columns :
         m < n /\ Columns[m] = layout[i].name /\ Columns[n] = layout[j].name

(* An INSERT provides a value for each column it names, in that order.     *)
InsertMatchesColumnList ==
  \A skip \in BOOLEAN : InsertedColumns(layout, skip) = ColumnListString(layout, ~skip)

(* The views of the columns agree, and the variables have their types.     *)
ColumnsAgree == TypeOK /\ ColumnsInSections /\ InsertMatchesColumnList

(* The code numbers the columns twice: the mark of a property is its place *)
(* in the definitions, and an UPDATE takes it for its place in the columns *)
(* that Build made of them.  The numbers are the same if the definitions   *)
(* are in sections already and fit in a byte.                              *)
InOrder(l) ==
  /\ Len(l) <= 255
  /\ \A i, j \in DOMAIN l : i < j => Section(l[i]) <= Section(l[j])

(* No assignment is missed: once the threads are done and the entity is    *)
(* not dirty, an UPDATE has read the last value of every property,         *)
(* however the setters and the updates interleaved.  This is said of the   *)
(* entities whose definitions are in order; of the others it is false.     *)
EveryAssignmentSent ==
  InOrder(layout) /\ Clean => \A c \in TrackedNames : lastRead[c] = entity[c]

(* Each column an UPDATE sets has the number of a property that was        *)
(* assigned.  It is the column of that property where the definitions are  *)
(* in order; where they are not, as with an inherited key, it need not be. *)
OnlyAssignedColumnsSent ==
  \A t \in Threads : \A c \in SetColumns(t) :
    /\ \E i \in DOMAIN layout : entity[layout[i].name] # 0 /\ c = Columns[i % 256]
    /\ InOrder(layout) => entity[c] # 0

(* With one thread that updates it, a clean entity is what the database    *)
(* holds, but for what a failed UPDATE should have stored.  With several,  *)
(* statements may be executed in another order than they were built.  The  *)
(* definitions are in order here, too.                                     *)
CleanMeansStored ==
  InOrder(layout) /\ Clean /\ Cardinality(updaters) = 1 =>
    \A c \in TrackedNames \ lost : stored[c] = entity[c]

=============================================================================

# Venflow in TLA+

Specifications, TLC models and TLAPS proofs of the parts of Venflow (a .NET ORM
for PostgreSQL on top of Npgsql) that keep state or decide an order. The code is
under `src/src/Venflow`; paths below are relative to it unless they start with
`src/`. What is stated here is read from the code; documentation is only quoted
where code and documentation disagree.

Contents: [inventory](#1-inventory-of-the-system), [plan](#2-plan),
[modules](#3-modules-and-how-they-correspond-to-the-code),
[runs](#4-runs-bounds-and-results), [fairness](#5-fairness),
[proofs](#6-proofs), [findings](#7-disagreements-found),
[limits](#8-what-is-not-modelled).

## 1. Inventory of the system

A `Database` owns one `NpgsqlConnection` and is used by one caller at a time
(`src/README.md:103`, `src/docs/docfx/guides/getting_started/setup.md:30`).
Tables, commands, materializers and inserters of *all* Database instances of a
type share static caches, and a change-tracked entity may be used with several
Databases, so there is concurrency there and only there.

| Component | State | Operations | Interacts with | Hard behaviour | What makes it correct |
|---|---|---|---|---|---|
| Database session and transactions (`Database.cs`, `DatabaseTransaction.cs`) | connection, `_activeTransaction`, `IsDisposed` of each transaction object | validate/open, begin or get the transaction, commit, rollback, dispose, dispose the Database | every command; Npgsql | connection lost, answers lost, objects used after disposal, Database disposed too early | the Database's idea of its transaction never misses the server's; an open transaction is reported at disposal |
| Write and query commands (`Commands/Venflow*Command.cs`) | the running method: own transaction or savepoint, progress, result | insert, update, delete, query, each with try/catch/finally around awaits | Database, cache, tracker, inserter | failure at any await, in catch and finally too; cancelled clean-up; a throwing logger; one savepoint name for all | all or nothing; failure leaves nothing; success means done; the caller's transaction and earlier work survive; commands return |
| Materializer cache (`Dynamic/Materializer/MaterializerFactory.cs`, `Commands/*CacheKey.cs`) | SQL-keyed dictionary with expiration list; result-keyed dictionary | get or create, expire | query command | failed builds, clock changes, keys that ignore part of the query | entries and list nodes paired; fresh SQL kept, the least recent SQL evicted first; compiled once; the materializer fits the query |
| Join configuration and row splitting (`Commands/RelationBuilderValues.cs`, `RelationPath.cs`, `VenflowQueryCommandBuilder.cs`, `MaterializerSourceCompiler.cs`) | tree and list of joins, current path | JoinWith, ThenWith, options; generating SQL; cutting a row | materializer cache | any order of calls, repeated joins, options in between, partial selections | SQL order = materializer order; every configured join built once; rows cut where tables begin |
| Change tracking and updates (`Dynamic/Proxies`, `VenflowUpdateCommand.cs`) | per entity: dirty flag, marked columns, lock | virtual setters, MakeDirty, BaseUpdate, execution | entity model, update command | setters and updates of several threads; failed updates | no assignment lost; no other column sent; clean means stored |
| Entity model (`Modeling`) | column array in three sections, relations | Build | everything that addresses columns by position | two numberings of columns | sections in order; column list and values agree |
| Insertion order (`Dynamic/Inserter/InsertionSourceCompiler.cs`) | reachable entities, processed set | root and relation insert | entity model, inserters | loops, shared and one-way relations | referenced entities first, each once, throws only on a real loop |
| Generated inserters (`InsertionFactoryCompiler.cs`) | collections per entity, visited objects, open reader | walk and split the objects, insert, read keys, assign foreign keys | insertion order, insert command | the parameter limit, shared objects, keys of client and server, a failure while a reader is open | every object that is asked for inserted once, after those it refers to; keys and foreign keys belong to the right objects |
| Generated materializers (`MaterializerFactoryCompiler.cs`) | dictionary and last object of each table, sets of each collection | find or create the objects of a row, link them, one row at a time | join configuration, query command | records that repeat in any order, null joins, an entity joined twice, failing reads | one object per key; references and collections are what the rows say |
| SQL interpolation (`FormattableSqlStringBuilder.cs`, `NpgsqlCommandExtensions.cs`) | text, parameters, counter | append argument, expand list | all commands; updates and deletes name their parameters by column and row | empty lists, lists followed by arguments, names that collide, a command used twice | each placeholder gets the value written for it |
| Configuration caches (`Database.cs`, `DatabaseConfigurationFactory.cs`, `InsertionFactory.cs`) | static dictionaries | construct a Database, `Custom`, get an inserter or an interpolated expression | all Databases of all threads | double-checked locking of plain dictionaries, builds that fail | everybody gets the same object, built once; a constructed Database has its configuration |
| Table operations, IL helpers, keys, JSON, source generators, ASP.NET Core, logging | none of their own | – | – | – | – |
| Documentation site (`src/docs`) | – | – | – | – | – (scripts of the DocFX template and of lunr; they are the JavaScript in the repository, third-party code and no part of Venflow) |

`PROJECT.json` lists the same components with their status, and the hazards of
the code at its line with the properties that cover it.

## 2. Plan

Done, in order of importance:

1. `NpgsqlSession`, `CommandScope`, `AtomicCommands`, `CommandScopeProofs`:
   what a command does to the database when anything fails.
2. `MaterializerCache`, `MaterializerCacheProofs`: the cache every query goes
   through.
3. `JoinPaths`, `JoinPathsProofs`: building a joined query and splitting its rows.
4. `EntityColumns`, `ChangeTracking`, `ChangeTrackingProofs`: what an UPDATE
   sends.
5. `InsertionOrder`: which entities an insert includes
   and in which order.
6. `InsertExecution`, which extends `InsertionOrder`: what the generated inserter
   does with the objects, their keys and the parameter limit; `InsertionProofs` is
   about both.
7. `RowMaterializer`, `RowMaterializerProofs`: merging joined rows into objects,
   against the rows themselves as the reference.
8. `CommandParameters`, `CommandParametersProofs`: the names and values of a command's
   parameters, in interpolated SQL, updates and deletes, and in a command that is used
   again.
9. `ConfigurationCaches`, `WriteOnce`, `ConfigurationCachesProofs`:
   double-checked building by several threads.

Left: the composition of `JoinPaths` with `RowMaterializer` (the tree that one
builds as the query of the other), and relation builders that the caller keeps.

Theorem to come: `LinksAreStored` of `InsertExecution`.

## 3. Modules and how they correspond to the code

### NpgsqlSession – external

One connection, at most one transaction, stacked savepoints. None of it is in
`src/`; it is written from how the commands use Npgsql. What statements write is
abstracted to *effects*: statement *i* of command *c* is `<<c, i>>`. An effect
is durable, or pending at a savepoint depth (`level`), or gone. As all of
Venflow's savepoints are called `_VenflowSavepoint` and PostgreSQL stacks equal
names, the depth is all a rollback or release needs. `Savepoint` never fails on
the client, because Npgsql prepends it to the next round trip; in an aborted
transaction it makes that round trip fail (`poisoned`). A reader that was dropped
without being disposed keeps the connection `busy`: then Npgsql refuses to execute,
commit, save, release or roll back to a savepoint (`Usable`), and only disposing the
transaction, which closes the reader, is still possible (`Owns`).

### CommandScope

| TLA+ | code |
|---|---|
| `activeTransaction`, `isDisposed`, `HasActiveTransaction` | `Database._activeTransaction`, `DatabaseTransaction.IsDisposed`, `Database.HasActiveTransaction` |
| `pc` | the await at which the running method is suspended |
| `auto` | `shouldAutoCommit`: the command created its transaction |
| `ValidateConnection`, `GetTransaction`, `SaveSavepoint` | `ValidateConnectionAsync`, `GetOrCreateTransactionAsync`, `transaction.SaveAsync` |
| `ExecuteStatement` | the generated inserter's or the command's execution, with the logging of each insert statement |
| `FailWhileReading` | the generated inserter failing while it reads keys: its catch block sets the reader to null and does not dispose it (`InsertionFactoryCompiler.cs:622`) |
| `CommitTransaction`, `LogSuccess` | the end of the try block |
| `RollbackCommand`, `LogException` | the catch block |
| `DisposeOwnTransaction`, `ReleaseCommand` | the finally block |
| `RunDirect` | queries and `ExecuteAsync`, which use no transaction of their own: `DirectSucceeds`, `DirectFails` without effect, or `DirectThrowsLate` |
| `DirectThrowsLate` | the cast of the scalar (`Database.cs:235`, 258, 280, 302), the materializer (`VenflowQueryCommand.cs:40`) or the logger throws after the statement was executed |
| `BeginTransaction`, `CommitByCaller`, `RollbackByCaller`, `DisposeByCaller`, `DisposeDatabase[Async]` | what the caller does between commands |

Every await may complete, or fail in the ways `Faults` allows: the server
rejects a statement, client code throws before anything is sent, the connection
is lost before or after the server acted, the caller's token is triggered, a
logger throws. The token is also passed to the rollback and the release, so they
may be cancelled. Where code cannot be truthful – the answer of a COMMIT was
lost, a logger threw after the commit, the clean-up was cancelled, a direct command
threw after its statement had taken effect, an insert in the caller's transaction
left a reader open – the history variable `excuse` says so, and the properties except
exactly those. Of an open reader `FailureLeavesNothing` still says that what the
insert did is never durable, and `AllOrNothing` makes no exception for it.

### AtomicCommands – abstract

What commands promise without transaction objects, savepoints or awaits: a
command takes effect as a whole, durably or in the caller's scope, and reports
success only after and failure only without that. Two things may come between: the
result of a command that took effect is lost (`LoseResult`) – in the caller's scope
only that of a direct command –, or a command gets the scope stuck half-way
(`GetStuck`), after which nothing takes effect in it and it can only be discarded.
`CommandScope` implements it under the mapping at the end of that module
(`ImplementsAtomicCommands`), as long as no token is triggered and loggers do not
throw.

### MaterializerCache

`GetOrCreateMaterializer` holds one lock from reading the clock to its return,
so a call is one step and threads interleave as calls. The linked list is a
sequence of nodes; `live` stands for the reference an entry holds to its node.
`Hit`, `Miss` and `MissThrows` are the three ways through the method, each with
the clean-up of expired nodes, which never gets beyond the first. Hashes of
different data are taken to differ; SQL stands for the whole key of the first
layer.

### JoinPaths

`flattenedPath` is both `FlattenedPath` (its order) and the tree of
`TrailingPath`s (its `parent`s). `JoinWith` on the command's own builder starts a
new tree, on the builder a join returned it continues the tree; `Configure` is
any of the options that return the command's builder. `QueryAsync` runs a query
that selects part of each table's columns. `GenerateSortedEntities` is the walk
over the tree (`VisitTrailing` the loop over one `TrailingPath`), `Cut` the loop in
`MaterializerFactory` that assigns the columns of the result to tables, and `CutRow`
what is made of its outcome. The loops are recursive functions over the joins and
the columns of the row, which TLC evaluates and the provers can reason about.

### EntityColumns and ChangeTracking

`EntityColumns` has the pure part: `Build` takes the column definitions in turn
(`ListUpTo`, `PlaceColumn`) to the array with keys first and read-only columns
last, as `EntityBuilder.Build` does with a linked list and two of its nodes, and
the inserter's two views of that array. `DefinitionsAssumption` is what
`EntityBuilder` sees to: names are distinct, an entity has a key and a column
that is none. `ChangeTracking`
has the entity, its tracker and the threads. A setter is two steps, because it
stores the value before it takes the lock to mark the column; an update reads the
flag without the lock, builds its statement under the lock one property at a
time, reads the key after it, and executes at any later moment. `Mark` is the
byte that the proxy stores: the position in the order of definition, plus one.
`EntityColumnAt` takes it for a position in what `Build` made of the definitions.
The two agree where the definitions are in sections already (`InOrder`). What
holds without that is the first part of `OnlyAssignedColumnsSent`: an UPDATE sets
columns that have the number of an assigned property. That they are the columns
of these properties, and `EveryAssignmentSent` and `CleanMeansStored`, have
`InOrder(layout)` as a condition in the formula.

### InsertionOrder

The plan of one insert; `Inserts` are the inserts to plan, each with a whole
schema: relations per entity, which side has the foreign key, which sides have a
navigation property, which entities have generated keys.

| TLA+ | code |
|---|---|
| `insert.relationsOf`, `RightOf`, `ForeignKeyLeft`, `HasNavigation` | `Entity.Relations`, `EntityRelation.RightEntity`, `.ForeignKeyLocation`, `.LeftNavigationProperty` |
| `insert.paths`, `TrailingPath` | the `RelationPath`s built by `InsertWith` and `AndWith` |
| `visitedEntities`, `reachableRelations`, `reachableEntities`, `entities`, `processedEntities` | the fields of `InsertionSourceCompiler` |
| `pending` | the recursion: sides (a relation seen from one entity) still to be followed, in the order the recursive calls follow them |
| `Holder` | `EntityRelationHolder`, with `SelfAssignedRelations`, `ForeignAssignedRelations` and `DirectAssignedRelation` |
| `CompileFromRoot`, `CollectReachable`, `SkipSide` | `CompileFromRoot`, `CollectAllReachableEntities` |
| `CompileFromRelations`, `CollectRelationPath` | `CompileFromRelations`, `BaseCompileFromRelations` |
| `BaseCompile`, `Postpone`, `AddEntity`, `EndPass` | the loops of `BaseCompile`; phase `loop` is its exception |

### InsertExecution

What the code emitted by `InsertionFactoryCompiler` does, not how it is emitted.
`CreateInserter` and `EmitWalk` are the compiler's own recursion, which decides the
sides (`walks`) that the generated walk follows; `SplitObject` and `SkipSeenObject`
are that walk over the given objects, one object a step, and the actions of
`InsertEntity` are the commands, one entity after the other. Objects are numbered and
their number stands for their key, so that a key is right exactly if it is the
object's own. `Followed` are the relations that the walk takes from an object,
`NextObjects` what it puts on its way, and `FirstTime` is the answer of
`ObjectIDGenerator`. The elements of a collection are met in a fixed order, whichever,
as nothing in the code depends on it. The inserters for one object and for a list,
with and without relations, are emitted by four methods; where they differ the actions
say so (`Scalar`, `WellFormed`). `rowLimit` is `ushort.MaxValue` divided by the
columns that a row is sent with, and cuts the statements. `ReadLimit` is the number of
keys after which the reader goes to the next result: the same number for a list, but
in the inserter of one object (`InsertionFactoryCompiler.cs:2107`) the dividend is
divided by all columns, the generated key included, so that it may be smaller.

The phases name the outcomes: `done`; `loop` and `threw` for exceptions; `noRow`
if a key is read that the server did not return; and `undefined` after
`CallWrongSetter`, where the generated code calls a property of one class on an
object of another. A failing command ends the inserter; what then happens is in
`CommandScope`.

### RowMaterializer

What the code emitted by `MaterializerFactoryCompiler` does, for one object and
for lists, with and without joins. A query is a list of tables, each joined to an
earlier one; `type`, `inverse` and `behaviour` are what `MaterializerSourceCompiler`
looks at. An object is known by its table and key, so that "one object per key"
is what `entities` and `result` say.

| TLA+ | code |
|---|---|
| `References`, `Collections`, `RequiresDBNullCheck`, `RequiresChangedLocal` | `SelfAssignedRelations`, `ForeignAssignedRelations` and the flags of a `QueryEntityHolder` |
| `last`, `entities`, `sets`, `lastSet`, `changed` | the fields `_last<Entity><Id>`, `_<Entity><Id>`, `_<Relation>`, `_last<Relation>_Map` and the `hasChanged` locals |
| `Outcome` | the jumps of the first half of the loop: null, same as last, found, created |
| `FindObjects`, `LinkObjects` | the two loops over the tables that emit the halves of the loop body |
| `FindFails`, `LinkFails`, `ReadFails`, `ClearFields` | what throws in them and in `ReadAsync`, and `setNullGhostIL` |

The rows are PostgreSQL's, not arbitrary: `MayFollow` admits what joins of that
type and behaviour can return, in any order. A materializer of one object has no
dictionary for the sets of that object; `PrimaryMap` stands for its key.

### CommandParameters

One command object. A query appends the arguments of interpolated strings
(`HandleValue`, `HandleList`: the loop that `FormattableSqlStringBuilder`,
`SetInterpolatedCommandText` and the query command's builder each have a copy
of), an update appends one statement for each object of a batch (`BaseUpdate`,
with the setter and `MakeDirty` of `ChangeTracking` in short), a delete the keys
(`BuildDelete`, forwards and backwards). `statement` has the placeholders with
the values that were meant, `Bound` is what the server gets. Names are strings
here, because whether two of them are equal is the question.

### ConfigurationCaches and WriteOnce

Four places have the same shape – look, lock, look again, build, add –:
`Database.Build`, `Database.Custom`, `GetOrCreateInserter` and
`BuildFromExpression`, of which the last two differ only in what they build.
What else tells them apart is in the constants: the dictionary
of configurations is a `ConcurrentDictionary` (`Concurrent`) and is added to with
`TryAdd`, the others are read without a lock while another thread may add to
them, in which case the read may also miss or throw (`Disturbed`). A custom
entity is built from the configuration of the Database it was asked for on
(`Configured`). `WriteOnce` is what all of this is for: whoever asks for a key is
given the first object that was stored for it.

Definitions named `X_Y` (for example `UndoCommand_Nothing`) are variants of `X`
with a mistake; no specification uses them, they document which property would
notice.

## 4. Runs, bounds and results

| Run | Instance | Shows | States |
|---|---|---|---|
| `command_scope` | one insert of two statements, one update, one query in any order; up to 3 transaction objects; all faults | seven safety and action properties, liveness | 991,616 |
| `command_refinement` | the same with statement, client and connection faults | `CommandScope` implements `AtomicCommands` | 84,201 |
| `materializer_cache` | five queries over three SQL texts: two relations to one entity, one SQL with two joins, one query that cannot be built; clock 0..3, spans 1 and 2, up to 3 nodes | both layers | 334,904 |
| `join_paths` | chains of up to four joins in a cyclic graph of four entities, with repeated joins and options in between; selections of keys and columns | building and splitting | 32,376 |
| `change_tracking` | 2 threads, each of which may or may not update, 3 assignments, failing updates; and the columns of every entity of 2 to 4 columns with one key | tracking, with and without the key in front, and the arrangement of columns | 165,134 |
| `insert_graph` | 12,288 inserts: three entities with every two relations between them (equal ones up to exchanging two of the entities) and every triangle; navigation properties on one side or both, every choice of generated keys, objects linked in pairs or sharing a principal, zero to two roots, limits of one to three rows, for one root also with fewer keys read at a time; `InsertWithAll` and every path of up to two relations | planning, the walk, which objects are stored, order of rows, foreign keys, keys read back, termination | 227,148 |
| `row_materializer` | 386 queries of one to three tables: every type, direction and (for two tables) behaviour of the joins, chains and stars, an entity joined twice, lists and single objects; two keys, results of up to four rows in every order | objects, references and collections against the rows; failing reads | 436,656 |
| `left_join` | violation, queries of two tables | a record without a match is linked to another row's record | – |
| `command_parameters` | up to four arguments with lists of 0, 1, 2 and 11 elements; batches of up to eleven objects in both orders, one of them not tracked; columns `Name`, `Name1` and `IdPK`; two assignments, two uses | names and values of parameters | 618,509 |
| `list_parameter` | violation | a value after a list gets the list's last element | – |
| `configuration_caches` | three threads, three dictionaries, four keys to ask for, all of whose builds may fail | one object for all, liveness, refinement of `WriteOnce` | 63,458 |
| `insert_two_relations` | violation | an entity that two relations lead to is entered by one of them | – |

Some invariants are conjunctions of parts that are defined, and named, one by one:

* `CacheConsistent` is `TypeOK`, `EntryHasNode` and `CompiledOnce`;
* `ColumnsAgree` is `TypeOK`, `ColumnsInSections` and `InsertMatchesColumnList`;
* `PlanIsWalked` is `TypeOK`, `EveryEntityPlannedOnce` and `WalkFollowsPlan`;
* `TreeIsStored` is `TreeIsInserted` and `LinksAreStored`. Both compare with the sides
  that the insert was asked to follow and are about trees only;
* `WalkIsStoredOnce` is `WalkIsStored`, which compares with the sides that the walk
  follows, whatever the shape, and `InsertedOnce`;
* `MatchedRowsAreMerged`, `ChangesAreKept` and `ColumnsSplitRight` begin with the
  `TypeOK` of `RowMaterializer`, `CommandParameters` and `JoinPaths`.

The type invariants of `CommandScope` and `ConfigurationCaches`, and
`BuildersAlone` and `NothingBuiltTwice`, are in no run: they are theorems
(section 6).

Why the bounds are enough:

* `CommandScope`: an insert of two statements is the smallest that can fail in
  between. A property speaks of one command and what came before or after it, so
  two writing commands in one transaction and a third one, the query, that can
  abort it, make all the interesting pairs; with three transaction objects a
  command can run after a transaction of its own, after one of the caller and
  inside one. Between them the runs have `ThrowLoggedExceptions` on and off.
* `MaterializerCache`: an eviction needs two nodes with different time stamps and
  one call, which may append a node of its own; three nodes allow one orphan, an
  entry and the one just added, or three entries whose order was changed by hits.
  The clock needs to pass the longer span once and to be set back. `homes` and
  `offices` share a key of the second layer, `homes` and `homesAsOffices` one of the
  first.
* `JoinPaths`: four joins allow two branches of depth two and every repetition of
  a prefix. The relations form cycles, so one entity may be joined twice.
* `ChangeTracking`: each assignment stores its own number, three of them are a
  value that is lost, one that overwrites it and one of another column. Two of
  the entities that are changed define their key first, one inherits it and so
  has it last, where the numbers of all its columns differ. Two
  threads are enough for each half of a setter to fall between any two steps of
  an update and for two updates to overtake each other.

* `insert_graph`: whether an entity waits depends on one relation, a loop needs
  two or three, and a second way to an entity needs two relations between two
  entities or a triangle: three entities have all of these. Three objects of an
  entity make two statements with a limit of two and three with a limit of one,
  so that the last one is full in one case and not in the other. Read one at a
  time, they are more keys than a result of three is read for, and after a
  limit of two the second object is given the key of the third. Behaviours do
  not branch: what varies is the insert that the initial state chooses.

* `row_materializer`: a record must be forgotten by `last` and found again, which
  takes three rows; the fourth lets a third table repeat meanwhile. Two keys are
  one record and another one; with three, more rows would be needed to tell
  anything apart. A third table gives a table two neighbours, and an entity that
  is joined twice shares sets.
* `command_parameters`: collisions need a number of two digits, so lists and
  batches have eleven elements, and a column that ends in a digit. Two uses are a
  command and its reuse.
* `configuration_caches`: one thread builds, one waits for the lock, one reads
  without it; with a fourth dictionary a fourth copy of the same would run. The
  theorems hold for any number.

CHECK_DEADLOCK is off where a caller may stop or the work is done (`CommandScope`,
`JoinPaths`, `ChangeTracking`, `InsertExecution`, `RowMaterializer`,
`CommandParameters`): a command is used at most once or twice, a query ends the
builder, rows end, and assignments are bounded. In `materializer_cache` and
`configuration_caches` deadlock is checked.

## 5. Fairness

`FairSpec` has one condition, `WF_vars(RunCommand)`: an await of a running
command eventually completes, with a result or an exception. The .NET runtime
schedules every continuation, and each awaited call of Npgsql ends (its command
and connection timeouts end those the server does not). The caller is not fair:
it may never commit, never dispose, never run another command. `CommandReturns`
then says that no path through the catch and finally blocks gets stuck, with
every kind of fault at every await.

`InsertExecution` has `WF_vars(Next)`: planning, emitting and the generated
method are sequential code, which runs on as long as it has a next statement.
`Terminates` then says that the recursions over cyclic schemas, the passes of
`BaseCompile` and the walk over cyclic objects all come to an end.

`ConfigurationCaches` has `WF_vars(Step(t))` for each thread – the runtime runs
it – and `SF_vars(EnterLock(t))`, because a lock is taken by others in between:
.NET's monitors keep a queue of waiting threads, so nobody is passed over for
ever. No thread has to make a call. `CallsReturn` then says that every call ends,
also when all builds fail, so that no failure keeps a lock.

## 6. Proofs

`CommandScopeProofs` proves for every set of commands, every number of
statements, every bound and every set of faults:

* `TypeCorrect`: `Spec => []TypeOK`;
* `ViewsAgree`: `Spec => []ServerTransactionIsActive`;
* `NoLeak`: `Spec => []NoLeakedAutoTransaction`;
* `OuterSurvives`: `Spec => OuterTransactionSurvives`;
* `Invariance`: `Spec => []IInv`, from which the others follow.

`ServerTransactionIsActive` and `NoLeakedAutoTransaction` are not inductive: they
say nothing of a command in the middle of its work. `IInv` adds that an open
transaction has a live connection (`Connected`), that transaction objects are
numbered in the order of their creation, so a new one is nobody's (`Numbered`),
and whose transaction is active at each point of a command (`Ownership`): outside
of a command's work it is the caller's, inside it is the command's own one
exactly if `auto` is set. The proof has one step per action; what the actions do
to the connection is factored into `SessionStep`, for which types and the fate of
the open transaction are proved once (`SessionTypes`, `SessionTransaction`).
Assumptions are those of the modules: `StatementsAssumption` and
`CommandsAssumption`, which only give the constants their types.

The second part of `CommandScopeProofs` is about what commands do to the data, again
for every set of commands, every number of statements and every set of faults:

* `InsertsAreAtomic`: `Spec => []AllOrNothing`;
* `FailuresAreClean`: `Spec => []FailureLeavesNothing`;
* `SuccessIsComplete`: `Spec => []SuccessMeansDone`;
* `EarlierWorkIsSafe`: `Spec => EarlierWorkSurvives`;
* `EffectInvariance`: `Spec => []EffectInv`, from which the others follow.

Each of these properties speaks of commands that have ended, and none says how a
command gets there. `EffectInv` has one part for every point of a command's work
(`NothingDone`, `PartlyDone`, `AllDone`, `Failed`, `Undone`, `Returning`), which says
where the effects of its statements are: `PartlyDone` that the statements sent are
pending at the current savepoint depth and the others nowhere. That a rollback then
takes away exactly these needs that everything else is below: nothing is pending above
the newest savepoint (`Levelled`), and the effects of other commands are below the
savepoint of the running one (`OwnScope`) – except where an aborted transaction is
still to refuse that savepoint (`poisoned`). `Settled` keeps of a command that has
ended what the properties need. An insert that failed with its reader open in the
caller's transaction is `Stranded`: nothing of it is durable, and what is pending of
it is so behind an open reader, which no commit gets past. `Blocked` is how it gets
there, as it cannot roll back.

Its last part is the refinement, `CommandsAreAtomic`: `NoInterference /\ Spec =>
ImplementsAtomicCommands`, where `NoInterference` is that no logger throws and no
token is triggered. The server, the client and the connection may fail as they
like. With interference the refinement is false, for the reason that `excuse`
records: a rollback or release that is cancelled leaves part of a command behind.
`UndisturbedInv` adds to `EffectInv` that clean-up is never cut short then, and that a
command which rolls back in the caller's scope has not finished. The
proof has one lemma for each step of `AtomicCommands` (when a step of
`CommandScope` is that step) and one for each action of `CommandScope`. The
hypothesis is met by the instance of `command_refinement`.

`MaterializerCacheProofs` proves for all queries, SQL texts, spans and bounds:

* `LayersAgree`: `Spec => []CacheConsistent`;
* `FreshIsKept`: `Spec => KeptWhileFresh`;
* `LeastRecentGoes`: `Spec => OldestIsEvicted`;
* `OwnMaterializer`: `Spec => []MaterializerFits`;
* `CacheInvariance`: `Spec => []CacheInv`, on which the others rest.

The list and the dictionary are only changed together, so `CacheInv` says of the
pair that an entry has exactly one live node (`Linked`, `Unambiguous`), that the
node expires when the entry does (`Timed`), and that nodes without an entry come
from SQL that cannot be built (`NoneLeft`); and of the second layer that whatever
was compiled is in it (`CompiledIsKept`), so nothing is compiled twice. The steps
are composed of three operations on the pair – take the first node out, move a
node to the end, append a node – for each of which `Kept` is proved once.
`OldestIsEvicted` speaks of calls, the list of time stamps; what connects them is
that the live nodes stand in the order of the last calls of their SQL
(`CallsInOrder`), which each of the three operations keeps, too. The keys of both
layers leave out part of what a materializer depends on. `MaterializerFits` says how
far that goes, for any queries and without a condition: whatever is cached for some
SQL has the key of a query with that SQL (`MadeFor`), so a wrong materializer is one
for the same columns and joined entities. Only a query that shares its SQL, or whose
entities are reached by other relations in another query, can get one.

`ChangeTrackingProofs` proves for any threads, entities and numbers of assignments:

* `NothingIsMissed`: `WellFormed /\ Spec => []EveryAssignmentSent`;
* `NothingIsInvented`: `WellFormed /\ Spec => []OnlyAssignedColumnsSent`;
* `CleanIsStored`: `WellFormed /\ Spec => []CleanMeansStored`;
* `TrackingInvariance`: `WellFormed /\ Spec => []TrackingInv`, from which the
  three above follow;
* `ColumnsFit`: `(\A l \in Definitions : FirstKeyGenerated(l)) /\ Spec =>
  [](ColumnsInSections /\ InsertMatchesColumnList)`;
* `AgreeingColumns`: under both hypotheses, `[]ColumnsAgree`.

`ColumnsFit` is about `EntityBuilder.Build` for entities of any number of columns,
keys and read-only properties, in any order. The loop's invariant is `Arranged`:
there is a one-to-one map from the definitions seen so far to the places of the
list, under which each section ends where the counters say, definitions of one
section keep their order, and the two nodes before which `Build` inserts are the
first of their sections (`OneMoreArranged`, with `AddedBehind` for the search and
the insertion). The functions that the modules define by recursion over a number
are first shown to satisfy their own equations (`ListIsBuilt`,
`PositionsAreListed`, `ColumnsAreListed`), by a least counterexample
(`LeastElement`, `CountUp`), as the library's induction takes an operator.
`FirstKeyGenerated`, that of several keys only the first has no setter, is needed:
the column list of an INSERT leaves out any other read-only column, and the values
are taken by position (section 7).

`EveryAssignmentSent` speaks of entities at rest. Until then, an assignment that no
update has read is `Pending`: its setter is between its two halves, its column is
marked in a dirty tracker, or it is marked and ahead of the scan of the thread that
holds the lock. That the flag is cleared at the beginning of a scan, that the array is
replaced only when the flag is clear and that both happen under the lock are what
keeps this (`Seen`, `Locked`). `Assigned` has the same for the other direction. For
`CleanMeansStored` a statement must carry what was last read, so it may not have a
column twice (`Behind`): the scan goes down and slots are distinct. `WellFormed` is
the hypothesis: the caller's entities are tracked, and those with their columns in
order do not track their key, as an update of an assigned key names no row. The
entities may be defined in any order. `Typed`, `Locked` and `Assigned` hold for all of
them, with `IsAssigned`: a column of a statement is the one at the mark of an assigned
property, whether that is its own column or not. `Seen`, `Behind` and `Alone` are
about entities that are `InOrder`: their columns are defined in the order of their
sections, in which `Build` then leaves them (`InOrderStays`), and there are at most
255, as the 256th would be marked with 0, which says unmarked. `PositionsInOrder` is
what they add: the mark of a property is the place of its column. Section 7 says what
happens to the others. That the proxy has one slot for each tracked column is proved
(`TrackedColumns`). The instance of `change_tracking` meets `WellFormed` for all the
entities that its threads change, and `FirstKeyGenerated` for all it defines, which
have one key. `ChangeAssumption` gives the constants their types; threads are finitely
many.

`CommandParametersProofs` proves for any objects, columns, batches and number of
executions of one command:

* `NoChangeIsForgotten`: `Spec => []ChangesAreKept`;
* `ParametersInvariance`: `Spec => []ParametersInv`, from which it follows;
* `QueriesGetTheirArguments`: `Spec => []ArgumentsReachTheirPlaces`;
* `RowsGetTheirValues`: `Spec => []WritesReachTheirRows`;
* `TextInvariance`: `Spec => []TextInv`, from which these two follow.

While an update is built the flags of the objects it has passed are cleared but
nothing is sent, so `ChangesAreKept` does not hold then. `PassedIsSaid` takes its
place: what is unsent of a passed object is what the statement sets for it, and the
statement speaks of no other object. That an object is passed once is that batches have no
repetitions (`ParametersAssumption`); with one, its second turn would find it clean.
The columns that an update retrieves are all marked ones because `SetToSeq` is a
bijection (`AllListed`).

That the values reach their places takes two facts: the parameters are those of
the statement one by one (`Corresponds`), and no two places of the same name mean
different values (`OneMeaning`); then it does not matter that the server takes the
first parameter of a name (`SentIsMeant`). In a query the names are numbers, and
until a list comes the counter is the number of parameters (`Counted`). A list sets
it back by one, so `Counted` ends with it, and `ListsComeLast` is what makes that
harmless (`NextArgument`). In an update a name is made of a column and the number of
an object, and `Unambiguous` is what its parts can be told by (`NamesTellObjects`);
`Said` keeps what each place is about. Afterwards the objects may be assigned to, so
the invariant keeps only `OneMeaning` of an update that was sent. An update or a
delete has no parameters before its first execution is built (`First`); of later
ones this is not true (`ReusedUpdatesReachTheirRows` in section 7).

These three theorems, and no others, have hypotheses about strings, which are atoms
to the provers: `TextLaws(STRING)`, that joining them is associative and can be
undone, and `NumberLaws(Nat)`, that no two numbers are written alike. Both are
facts of TLA+ strings and decimal notation rather than of the program;
`MCCommandParameters` assumes them for the texts and numbers of its instance, so TLC
evaluates them there.

`JoinPathsProofs` proves for any entities and relations and any number of joins:

* `JoinsAreReachable`: `Spec => []JoinsReachable`;
* `ReopenedJoinsStay`: `Spec => []ReopeningKeepsJoins`;
* `ChainsAreOrdered`: `Spec => []ChainsKeepOrder`;
* `ColumnsAreSplit`: `KeysComeFirst /\ Spec => []ColumnsSplitRight`;
* `TreeInvariance`: `Spec => []TreeInv`, on which the others rest.

`ReopeningKeepsJoins` compares sets of routes. What is inductive is more: the routes
of `flattenedPath` are the configured ones in the same order, as long as no option
returned the command's builder. `AddToPath` looks for a relation among the joins
that continue one path, and the caller thinks in routes from the root; that both
find the same join is that siblings differ (`SiblingsDiffer`), hence routes lead to
one join each (`RoutesDiffer`). Routes are a recursive function whose existence,
type and injectivity are proved from least counterexamples (`RoutesExist`,
`RouteTypes`, `RoutesDiffer`), and that a new join moves none of them likewise
(`RoutesStay`).

`ChainsKeepOrder` compares the walk over a tree with a list. What is inductive
(`OrderInv`) is that, unless a join was configured twice, every join continues the
one before it or the root (`Chained`), because the builder that was returned stands
at the last one; and that all routes in the tree were configured, also after an
option has started a new tree. The rest is about the walk: it exists for every tree
since a join comes after the one it continues (`VisitsExist`, from the last join
down), each chain is visited as the interval of its indices (`ChainOf`), and the
intervals of the root's chains follow each other (`ChainedOrder`). That these loops
are functions of the number of rounds is `Recursion`, proved once.

`ColumnsSplitRight` needs, besides `Separable`, what the guide asks of a query ("The
primary key always has to be present and it has to be the first column of any given
table", `docs/guides/operations/query.html:101`), and that the key is not selected
again: this is `KeysComeFirst`, the hypothesis of the theorem; the run satisfies it,
with the selections `MCKeyFirst`. The row is the selections one after the other
(`RowColumns` says where each column is), and the loop is followed table by table and
column by column: after k tables it holds these and awaits the key of the next
(`Complete`), and inside a table no column is taken for a key (`FirstColumn`,
`NextColumn`, `LastColumn`). At the last table the loop goes on waiting for that
table's own key; this is why the key must not be selected twice. `TypeOK`, part of
`ColumnsSplitRight`, bounds the joins by those the caller configured, as different
joins have different routes (`NoMoreThanConfigured`). `JoinAssumption` has the types
of the constants and that a selection consists of the entity's columns.

The first part of `InsertionProofs` is about `InsertionOrder`, for every schema, every
set of entities and every insert:

* `PlanTypeCorrect`: `PlanSpec => []PlanTypeOK`;
* `PrincipalsComeFirst`: `PlanSpec => []PrincipalsFirst`;
* `LoopsAreReal`: `PlanSpec => []LoopIsReal`;
* `PlanInvariance`: `PlanSpec => []PlanInv`, from which the others follow.

An entity is planned when everything it waits for is in `processedEntities`, so
`PrincipalsFirst` needs that these are planned (`Processed`). The converse
direction is what `LoopIsReal` rests on, and it does not hold of every planned
entity: only those with a relation to a visited entity are registered as
processed. But whatever an entity waits for has such a relation, the other side
of the one it is waited for by (`Siblings`), so it is not planned and, as it was
visited, remains (`Collected`). That every remaining entity waits is known when a
pass ends without progress, because nothing it passed has changed since
(`Waiting`, `GaveUp`). Assumptions are `InsertsAssumption`, the types of an
insert, and `SiblingsAssumption`: a relation is in the list of both of its
entities, which are different ones. `InsertExecution` takes the steps of `Plan`
as they are, so the theorems hold of the first part of each of its behaviours.

The second part carries them on to the end of the insert, and proves what
the inserter itself does, for every schema and insert, objects that refer to each
other in any way, and every parameter limit:

* `KeysReachTheirRows`: `Spec => []KeysFitRows`, where it excepts the commands in
  which statements are cut after more rows than keys are read (`Overrun`);
* `NothingIsInsertedTwice`: `Spec => []InsertedOnce`;
* `PrincipalsAreInsertedFirst`: `Spec => []PrincipalsFirst`;
* `LoopErrorsAreReal`: `Spec => []LoopIsReal`;
* `ExecutionTypes`: `Spec => []TypeOK`;
* `ExecutionInvariance`: `Spec => []ExecutionInv`, from which the others follow.

An object is inserted once because it is in the collection of its entity once and the
entity is in the plan once. The first rests on `FirstTime`: whatever a collection
holds was seen, so what is put into it is not there (`Sorted`). The second is what the
compiler's dictionary refuses otherwise (`PlannedTwice`), and keeps the entity to be
inserted next without rows (`RowsFollowPlan`). For `InsertedOnce` the objects given
must be distinct, as the list of roots is inserted as it is given, without a
collection. `KeysFitRows` is not inductive while a reader is open: then the stored
objects without key are those ahead of `iterator` (`StoredHaveKeys`), and the results
still to be read are these objects, cut where the statements were (`Cuts`). That the
generated `counter`, which starts again at each result, agrees with the cut that
`Statements` made is proved in `StatementsFit` (so it is at the start), `NextKey` and
`NextResult` (so it stays), for all numbers of objects and limits. Where the two
limits differ, the invariant says which key of the batch is read next (`NextRow`): the
one of the next object until the reader leaves a result early, and one further ahead
from then on. So `KeyRead` shows that a command of at most `ReadLimit` rows is read to
its end, every object with its key, and `OverrunNeverEnds` that no other one is: as
many objects are left as before and fewer keys, so the insert ends in `noRow` and
never in `done`. That is why the last part of `KeysFitRows` needs no exception.
Assumptions are those of `InsertionOrder` and `ObjectsAssumption`: types, finitely
many entities, a limit of at least one row, and no more keys read than rows cut.

The collections of a walk are flattened sequences of sequences, whose definition in
`SequencesExt` is recursive. That the result has the elements' type (`Flattened`)
is proved without an induction rule, from a least counterexample (`LeastNumber`).

The third part is about two recursions that the source keeps apart:
`InsertionSourceCompiler` collects the entities, and the generated
`EntitySeprator` walks from object to object. For every schema, with or without
cycles, and every way an insert is asked for:

* `PlanAndWalkAgree`: `Spec => []PlanIsWalked`;
* `WalkInvariance`: `Spec => []WalkInv`, from which it follows.

`WalkInv` is `PlanFitted`, what the collecting has made of the holders, and
`WalkFitted`, what the walk has entered. For `InsertWithAll` the two recursions are
the same function of their own state: `NextVisit` takes the sides still to be
followed, the entities entered and by which sides. What either has done is in
`Reached`, the states of that function from the root on, and as it has no choice they
end in the same state (`SameBeginning`, `SameEnd`) – so the sides walked are those
by which the compiler entered, one for each entity but the root. The case that does
not fit is a root without relations, which is planned without being collected
(`OnlyRoot`).

`InsertWith` follows paths, and the two recursions take them in different orders. Here
both are compared with the tree that the paths are: `from[n]` is the path that path
`n` continues and `at[n]` the entity it leads to (`PathTree`), and `Gathered` and
`Gathering`, or `WalkedTo` and `Walking`, say what has been done after the set `done`
of paths, which all lead from the root. Paths may lead to one entity twice, and then
no inserter is created: `PlannedTwice` is the exception of the compiler's dictionary,
so that the walk begins only when all paths lead to different entities, none of them
the root (`PathsApart`, by counting holders and paths). Here the assumption is
`PathsAssumption`, that the paths are such a tree. `AddToPath` makes it one, as it
continues the current path by a relation of the entity that it leads to, as long as
every builder is used once; kept builders are the hazard at
`RelationBuilderValues.cs:130`. TLC evaluates the assumption for every insert of
`insert_graph`.

The fourth part is about foreign keys, which are assigned in three places: while the
objects are split, before an entity is sent, and when its keys are read. For the
same inserts:

* `ForeignKeysAreKnown`: `Spec => []ReferencesExist`;
* `KeyInvariance`: `Spec => []KeyInv`, from which it follows.

Two of the places use keys of the server only, and these are known only once their
rows are stored (`KeysStored`, with `SelfGenerated` for the holders). The third
assigns keys of the client before anything is sent. Such a key is `Due`: its object is
in the collection of its entity, or given, and the relation is one that the plan
respects – because the relation that a holder assigns directly is the one by which the
walk came (`WalkHeld`, from the third part). When the row that refers to it is sent,
`PrincipalsFirst` has its entity before the current one, and the objects of earlier
entities are all stored (`BatchesStored`). So this needs the plan, the walk and the
agreement of the two. `LinksAssumption` is that navigation properties hold objects of
the entities that the relation is between.

The last part is about which objects are stored. An object may be found many times,
objects may be linked in circles, and the walk keeps a list of what it has still to
look at. For the same inserts:

* `WhatIsReachedIsStored`: `Spec => []WalkIsStoredOnce`;
* `ReachInvariance`: `Spec => []ReachInv`, from which it follows.

`WalkIsStored` says in the end that the stored objects are the smallest set with the
objects given that the walked sides do not lead out of. `FoundSoFar` is that of an
unfinished walk: what is found beside an object seen is seen or on the list (`Found`),
and every closed set with the objects given contains both. It also says that an object
seen is in its collection, or is given, and that its entity is planned, which needs
that the walk enters planned entities only, and no side leads back to the root's
(third part). `StoredSoFar`, with `BatchesStored`, says that the loop over the
entities sends their collections, and nothing else. The theorem is about the sides
walked, for schemas of any shape; that these are the sides asked for is what
`TreeIsStored` adds, if the relations form a tree.

`RowMaterializerProofs` proves for any queries – trees of tables of any size, with
joins of every type, direction and behaviour, for lists and single objects –, any
keys and any number of rows in every order that the joins allow:

* `CollectionsAreTheRows`: `Spec => []CollectionsMatchRows`;
* `ReferencesAreTheRows`: `Spec => []ReferencesMatchRows`;
* `ResultIsTheRows`: `Spec => []ResultFollowsRows`;
* `MatchedRowsMerge`: `Spec => []MatchedRowsAreMerged`;
* `RowInvariance`: `Spec => []RowInv`, from which the others follow.

All four speak of a query that has returned or failed. Between two rows the same
comparison holds with the rows that were linked so far (`LinkedTo`,
`CollectionsFollow`, `ReferencesFollow`, `ResultFollows`), but it is not
inductive: what a row adds depends on the fields that earlier rows left behind.
`FieldsFollow` says what they hold – the dictionary of a table has the keys seen
in it, the last object is one of them, and it is missing only if none was seen –
and `LastRowFound` that between the two halves of the loop the last objects are
those of the row, and that what did not change was in an earlier row, so that its
links are there already. `SetsFollow` is the central part: that a record is not
entered twice rests on the sets, which the generated code keeps in three ways, with
an invariant of its own for each. The sets of an owner that has a dictionary are
found by its key, and the set in use is that of the last owner (`OwnedSet`); the
single object has one set, which nothing exchanges (`PrimarySet`); and a collection
*in* which the single object stands has its set in a field that only the first row
may use (`MemberSet`). Why a set that was left in use is not the wrong one needs that
a row which skips the owner skips the member as well, and that a member determines
its owner. That is the condition `Fits`, the antecedents of `CollectionsMatchRows`.
It speaks of all rows read so far, and as it only ever turns from true to false, it can be
the premise of an inductive step. What remains true of collections without it is
the finding of section 7. `RowsFit` says that rows are those of one query, which is
kept by `MayFollow`. `QueriesAssumption` gives the types of a query and says that the
special values `Null`, `None` and `PrimaryMap` differ from each other and from keys.

`ConfigurationCachesProofs` proves for any threads, dictionaries, keys and
requests:

* `TypeCorrect`: `Spec => []TypeOK`;
* `MutualExclusion`: `Spec => []BuildersAlone`;
* `SameObject`: `Spec => []OneObject`;
* `ConfigurationsExist`: `Spec => []DatabasesAreConfigured`;
* `BuiltOnce`: `Spec => []NothingBuiltTwice`, for finite sets of threads,
  dictionaries and keys (`FiniteInstance`), as it counts;
* `Refinement`: `Spec => ImplementsWriteOnce`;
* `Invariance`: `Spec => []IInv`, from which the others follow.

`BuildersAlone` is nearly inductive: a thread that takes the lock must know that
nobody else is past it, so `IInv` has that only the holder of a lock is between
the second look and `Add`. That all threads get the same object then rests on
two facts: an entry never changes once it is there, as whoever adds has looked
under the same lock, and a read without the lock returns only what is stored,
whatever a concurrent change does to it. The refinement needs no mapping beyond
the variables of the same name; its proof shows that `Add` stores an object where
there was none, and that every other step returns what is stored or stutters.
Assumptions are `CachesAssumption`, the types of the constants.

Model-checked only:

* liveness (`CommandReturns`, `Terminates`, `CallsReturn`), which rests on fairness;
* `TreeIsStored` of `InsertExecution`. One half of what it takes is proved: what is
  stored are the objects that the walked sides lead to (`WhatIsReachedIsStored`). What
  is left is that in a tree these are the sides asked for, which `AskedAway` and
  `Asked` count and collect by recursions of their own, and that the rows of each walked
  relation refer to the objects that theirs were linked to (`LinksAreStored`).

## 7. Disagreements found

Each has a run that exhibits it and an entry under `findings`.

* A left join (`MaterializerFactoryCompiler.cs:1209`): a null key skips the
  table but leaves the object of an earlier row in the field the links use, so a
  record without a match refers to the match of another row.
* A value that follows a list in interpolated SQL (`FormattableSqlStringBuilder.cs:174`
  and its three copies) gets the name of the list's last element, because the
  counter is set back after a list; the guide's own example is built that way.
* `InsertWithAll` enters each entity by one relation only: of two relations
  between the same entities, or of two ways around a triangle, one is not walked,
  and objects that only it refers to are not inserted.

Met while modelling, and not runs of their own. Those stated as properties in a
module, or found by widening an instance:

* `Database.DisposeAsync` returns before its check for an open transaction as
  soon as a connection exists; `Dispose` does complain (`OpenTransactionReported`
  in `CommandScope`).
* Expired materializers: `LinkedList.Remove` clears `node.Next`, so at most one
  expired entry is removed per call, although `VenflowConfiguration.cs:14` says
  they are removed; and a call whose materializer cannot be built appends a node
  (`MaterializerFactory.cs:53`) and removes none, so that the list grows while
  builds fail. What does hold is which entry goes (`OldestIsEvicted`).
* `QueryCacheKey` compares columns, and hashes entities, not relations, and the
  first layer looks at the SQL only: two relations to one entity share a
  materializer, and so do two queries with one SQL and different joins. In
  `materializer_cache`, `homes` may be given the materializer of `offices`;
  `MaterializerFits` allows exactly this (`Alike`).
* A join configured after `TrackChanges`, `Log`, `LogTo` or `AddFormatter`
  discards the joins before it (`EveryJoinBuilt` in `JoinPaths`).
* An entity with a second key that has no setter: an INSERT leaves it out of its
  column list (`EntityFactory.cs:188`) but provides a value for it, as values are
  taken by position (`InsertMatchesColumnList`, where `FirstKeyGenerated` fails).
* With an inherited key, the change tracker's positions address other columns: of
  an entity with the columns a, b and the key, in this order, an UPDATE sets the
  key when a was assigned and a when b was. `change_tracking` has this entity
  (`KeyInherited`); without `InOrder(layout) =>` in it, `OnlyAssignedColumnsSent`
  and `EveryAssignmentSent` are violated there.
* An update command that is executed again sends the values of its first
  execution, as its parameters are never cleared (`ReusedUpdatesReachTheirRows`
  in `CommandParameters`).

A direct command can take effect and report a failure, as the result is cast or
materialized after the statement was executed (`DirectThrowsLate`; in
`FailureLeavesNothing` the excuse `clientThrew`). An insert that fails while it
reads keys drops its reader, so inside the caller's transaction the rollback to the
savepoint is refused, its rows remain until the caller disposes the transaction, and
nothing else can be done in it (`readerOpen`).

Custom entities are shared by all types of Databases, so an entity has the options of
the Database that asked first; the remark on `Custom` (`Database.cs:309`) says that
the model would be generated again. Expressed as conditions of the properties:
`JoinWith(A).JoinWith(B).JoinWith(A).ThenWith(C)` generates SQL in an order the
materializer does not expect (`ChainsKeepOrder` speaks of chains that continue no
earlier join); `Table.GetProxiedEntity` returns entities that are never tracked
(`change_tracking` with `Origins = {"GetProxiedEntity"}` violates
`EveryAssignmentSent`); keys of the client are set as foreign keys only for the first
dependent of a shared principal, and not along `InsertWith` paths (`LeftToCaller` in
`LinksAreStored`); a client-keyed dependent of a principal with a generated key is
written with the wrong setter (phase `undefined`); a path of `InsertWith` that returns
to an entity is refused with an `ArgumentException`; above the parameter limit the
statements of an entity with client keys are not separated (`SendMalformed`); when one
object is inserted with more objects of an entity behind it than `ushort.MaxValue /
columnCount`, the reader skips keys, the objects are given those of others, and the
insert fails for want of a row (`Overrun` in `KeysFitRows`), although all rows were
accepted by the server; a query that fails to build its materializer leaves a node
that later evicts a fresh entry of the same SQL (`ReliableSqls` in `KeptWhileFresh`);
statements of two Databases may be executed in the other order than they were built
(one updater in `CleanMeansStored`); a selection whose key is not its first column is
cut wrongly (the selections of `join_paths` have it first); assigning a virtual
primary key produces an UPDATE that matches no row (the layouts of `change_tracking`
have no virtual key); an entity that is joined twice and owns a collection makes the
materializer add one key twice (`OwnerIsUnique` in `CollectionsMatchRows`); a record
of the collection's side that comes without its owner, in a right or full join, is
collected by the owner of an earlier row or throws (`AlwaysWith`); names of parameters
of two columns may collide (`Unambiguous`); an object that is not tracked makes the
changes of those before it in a batch be forgotten (`refused`).

## 8. What is not modelled

* Preparing commands, and disposing `NpgsqlCommand`s. An update of a batch would
  prepare its command between beginning the transaction and the try block
  (`VenflowUpdateCommand.cs:97`), but only if it is prepared already, and nothing
  prepares an update command.
* Savepoints of the caller, and use of one Database by several threads, which the
  documentation excludes.
* Builder objects the caller keeps from before, and deep validation of joined
  rows.
* Entities of 256 and more columns, whose positions no longer fit the byte of the
  tracker.
* The emission of byte code: the generated inserters and materializers are
  modelled by what they do, not by how they are emitted; and the conversion of
  column values.
* In inserts: the same object twice in the given list, null elements, entities
  with a relation to themselves.
* In generated materializers: keys of different types. The dictionary of a
  relation's sets is declared with the key type of the entity, its sets with that of
  the related one (`MaterializerFactoryCompiler.cs:353`, 1138), whichever side is
  the owner; the model has one set of keys for all entities.
* In interpolated SQL: the placeholders for columns and joins, the conversion of
  expressions, and the type handlers, whose dictionaries have no lock at all
  (`ParameterTypeHandler.cs:64`: of two threads that first use an enum, one may
  get an exception).
* Key wrappers, JSON converters, source generators, ASP.NET Core and logging
  integration: pure functions or registrations without state of their own.
* The scripts under `src/docs`: third-party code of the documentation site. They
  are most of the repository's JavaScript and none of its program.

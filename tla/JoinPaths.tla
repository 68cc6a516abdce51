------------------------------- MODULE JoinPaths -------------------------------
(***************************************************************************)
(* How a query with joins is built and how its result is taken apart.  The *)
(* builder keeps the configured joins as a tree (TrailingPath) and as a    *)
(* list in the order of configuration (FlattenedPath).  The generated SQL  *)
(* follows the list; the materializer walks the tree, and cuts a row into  *)
(* tables wherever it meets the name of the next primary key.              *)
(***************************************************************************)
EXTENDS Naturals, Sequences, SequencesExt

CONSTANTS
  Root,         \* the entity that is queried
  LeftOf,       \* the entity a relation starts from
  RightOf,      \* the entity it leads to
  ColumnsOf,    \* the columns of an entity, its primary key first
  Selections,   \* what a query may select of an entity, as sequences of columns
  MaxJoins,     \* bound: how many joins are configured
  Styles        \* what the caller may do: "reopen" configures a join twice,
                \* "configure" calls an option between two joins

Relations == DOMAIN LeftOf
Entities == DOMAIN ColumnsOf
AllStyles == {"reopen", "configure"}

ASSUME JoinAssumption ==
  /\ RightOf \in [Relations -> Entities] /\ LeftOf \in [Relations -> Entities]
  /\ Root \in Entities
  /\ \A e \in Entities : /\ ColumnsOf[e] \in Seq(STRING) \ {<<>>}
                         /\ Selections[e] \subseteq Seq(ToSet(ColumnsOf[e]))
  /\ MaxJoins \in Nat
  /\ Styles \subseteq AllStyles

VARIABLES
  flattenedPath,  \* the joins, [relation, parent]; a join is known by its index,
                  \* and the TrailingPath of p are the joins with parent p
  currentPath,    \* _currentPath, 0 before the first join
  receiver,       \* the builder object the caller holds: "command" or "relation"
  configured,     \* history: the joins as the caller configured them
  used,           \* history: what of Styles the caller did
  asked,          \* what the query selected of each table, <<>> before it ran
  answer          \* how the row was cut into tables

vars == <<flattenedPath, currentPath, receiver, configured, used, asked, answer>>

PrimaryKey(e) == ColumnsOf[e][1]
RegularColumns(e) == ToSet(Tail(ColumnsOf[e]))

NoAnswer == [threw |-> FALSE, tables |-> <<>>]
Throws == [threw |-> TRUE, tables |-> <<>>]

Init ==
  /\ flattenedPath = <<>>
  /\ currentPath = 0
  /\ receiver = "command"
  /\ configured = <<>>
  /\ used = {}
  /\ asked = <<>>
  /\ answer = NoAnswer

-----------------------------------------------------------------------------
(* Building the query.                                                     *)

EntityAt(path, p) == IF p = 0 THEN Root ELSE RightOf[path[p].relation]

Trailing(path, p) == {i \in DOMAIN path : path[i].parent = p}

(* Definitions named X_Y are variants of X with a mistake.  No             *)
(* specification uses them; they show which property would notice.         *)
AddToPath_Again(path, p, r) ==
  /\ flattenedPath' = Append(path, [relation |-> r, parent |-> p])
  /\ currentPath' = Len(path) + 1

AddToPath_AtRoot(path, p, r) ==
  IF \E i \in Trailing(path, p) : path[i].relation = r
    THEN /\ currentPath' = CHOOSE i \in Trailing(path, p) : path[i].relation = r
         /\ flattenedPath' = path
    ELSE /\ flattenedPath' = Append(path, [relation |-> r, parent |-> 0])
         /\ currentPath' = Len(path) + 1

(* A join that is already there is continued, not added.                   *)
AddToPath(path, p, r) ==
  IF \E i \in Trailing(path, p) : path[i].relation = r
    THEN /\ currentPath' = CHOOSE i \in Trailing(path, p) : path[i].relation = r
         /\ flattenedPath' = path
    ELSE /\ flattenedPath' = Append(path, [relation |-> r, parent |-> p])
         /\ currentPath' = Len(path) + 1

PathOf(path) ==
  LET route[p \in 0 .. Len(path)] ==
        IF p = 0 THEN <<>> ELSE Append(route[path[p].parent], path[p].relation)
  IN route

Remember(route) ==
  IF Contains(configured, route)
    THEN used' = used \cup {"reopen"} /\ UNCHANGED configured
    ELSE configured' = Append(configured, route) /\ UNCHANGED used

Building == answer = NoAnswer /\ asked = <<>>
MayConfigure(route) ==
  Building /\ Len(configured) < MaxJoins
           /\ ("reopen" \in Styles \/ ~Contains(configured, route))

(* The builder of the command itself starts a new tree, the builder that a *)
(* join returned continues the one it has.                                 *)
JoinWith(r) ==
  /\ MayConfigure(<<r>>)
  /\ LeftOf[r] = Root
  /\ AddToPath(IF receiver = "command" THEN <<>> ELSE flattenedPath, 0, r)
  /\ receiver' = "relation"
  /\ Remember(<<r>>)
  /\ UNCHANGED <<asked, answer>>

ThenWith(r) ==
  LET route == Append(PathOf(flattenedPath)[currentPath], r) IN
  /\ receiver = "relation"
  /\ MayConfigure(route)
  /\ LeftOf[r] = EntityAt(flattenedPath, currentPath)
  /\ AddToPath(flattenedPath, currentPath, r)
  /\ Remember(route)
  /\ UNCHANGED <<receiver, asked, answer>>

(* TrackChanges, Log, LogTo and AddFormatter return the command's builder. *)
Configure ==
  /\ Building
  /\ "configure" \in Styles
  /\ receiver = "relation"
  /\ receiver' = "command"
  /\ used' = used \cup {"configure"}
  /\ UNCHANGED <<flattenedPath, currentPath, configured, asked, answer>>

-----------------------------------------------------------------------------
(* Running it.                                                             *)

(* The tables of the generated SQL, 0 for the root.                        *)
SqlOrder(path) == [i \in 1 .. Len(path) + 1 |-> i - 1]

(* The joins that continue p are visited in the order of its TrailingPath. *)
VisitTrailing_Reversed(path, p, visit) ==
  LET visited[n \in 0 .. Len(path)] ==
        IF n = 0 THEN <<>>
        ELSE IF path[n].parent = p THEN visit[n] \o visited[n - 1]
        ELSE visited[n - 1]
  IN visited[Len(path)]

VisitTrailing(path, p, visit) ==
  LET visited[n \in 0 .. Len(path)] ==
        IF n = 0 THEN <<>>
        ELSE IF path[n].parent = p THEN visited[n - 1] \o visit[n]
        ELSE visited[n - 1]
  IN visited[Len(path)]

(* The order in which MaterializerSourceCompiler visits the tree.          *)
GenerateSortedEntities(path) ==
  LET visit[p \in 0 .. Len(path)] == <<p>> \o VisitTrailing(path, p, visit)
  IN visit[0]

(* One column of the row: "next" is the table whose primary key is awaited,*)
(* "current" the one the columns belong to.                                *)
TakeColumn_NotAdvanced(path, generated, cut, name) ==
  LET starts == name = PrimaryKey(EntityAt(path, generated[cut.next]))
      tables == IF starts THEN Append(cut.tables, [join |-> generated[cut.next], columns |-> <<>>])
                ELSE cut.tables
  IN [cut EXCEPT !.threw  = @ \/ tables = <<>>,
                 !.tables = IF tables = <<>> THEN tables
                            ELSE [tables EXCEPT ![Len(tables)].columns = Append(@, name)]]

TakeColumn(path, generated, cut, name) ==
  LET starts  == name = PrimaryKey(EntityAt(path, generated[cut.next]))
      current == IF starts THEN cut.next ELSE cut.current
      entity  == EntityAt(path, generated[current])
      more    == starts /\ path # <<>> /\ cut.next < Len(generated)
      tables  == IF starts THEN Append(cut.tables, [join |-> generated[cut.next], columns |-> <<>>])
                 ELSE cut.tables
      ambiguous == more /\ PrimaryKey(EntityAt(path, generated[cut.next + 1]))
                             \in RegularColumns(entity)
      unknown == name \notin ToSet(ColumnsOf[entity])
  IN [threw   |-> cut.threw \/ ambiguous \/ unknown \/ tables = <<>>,
      tables  |-> IF tables = <<>> THEN tables
                  ELSE [tables EXCEPT ![Len(tables)].columns = Append(@, name)],
      current |-> current,
      next    |-> IF more THEN cut.next + 1 ELSE cut.next]

(* The row after each of its columns.                                      *)
Cut(path, row) ==
  LET generated == GenerateSortedEntities(path)
      cut[n \in 0 .. Len(row)] ==
        IF n = 0 THEN [threw |-> FALSE, tables |-> <<>>, current |-> 1, next |-> 1]
        ELSE TakeColumn(path, generated, cut[n - 1], row[n])
  IN cut

(* GetOrCreateDefaultMaterializer: cut the row, then compare the number of *)
(* tables with the number of joins.                                        *)
CutRow(path, row) ==
  LET cut == Cut(path, row)[Len(row)]
  IN IF cut.threw \/ Len(cut.tables) # Len(path) + 1
       THEN Throws
       ELSE [threw |-> FALSE, tables |-> cut.tables]

QueryAsync ==
  /\ Building
  /\ \E select \in [1 .. Len(flattenedPath) + 1 -> UNION {Selections[e] : e \in Entities}] :
       /\ \A i \in DOMAIN select : select[i] \in Selections[EntityAt(flattenedPath, i - 1)]
       /\ asked' = select
       /\ answer' = CutRow(flattenedPath, FlattenSeq(select))
  /\ UNCHANGED <<flattenedPath, currentPath, receiver, configured, used>>

Next ==
  \/ \E r \in Relations : JoinWith(r) \/ ThenWith(r)
  \/ Configure
  \/ QueryAsync

Spec == Init /\ [][Next]_vars

-----------------------------------------------------------------------------
(* Every variable has its type.                                            *)
TypeOK ==
  /\ flattenedPath \in Seq([relation : Relations, parent : 0 .. MaxJoins])
  /\ currentPath \in 0 .. Len(flattenedPath)
  /\ receiver \in {"command", "relation"}
  /\ configured \in Seq(Seq(Relations))
  /\ used \subseteq Styles
  /\ asked \in Seq(UNION {Selections[e] : e \in Entities})
  /\ answer.threw \in BOOLEAN
  /\ \A i \in DOMAIN answer.tables : answer.tables[i].join \in 0 .. Len(flattenedPath)

(* The SQL joins the tables in the order in which the materializer expects *)
(* them; otherwise the columns of one entity are read into another.        *)
OrdersAgree == GenerateSortedEntities(flattenedPath) = SqlOrder(flattenedPath)

(* As long as no join is configured a second time, the order of the SQL is *)
(* the one the materializer expects, wherever the chain branches.          *)
ChainsKeepOrder == "reopen" \notin used => OrdersAgree

(* Every join the caller configured is in the query, and only once, however*)
(* the calls were chained.                                                 *)
EveryJoinBuilt ==
  LET built == [i \in DOMAIN flattenedPath |-> PathOf(flattenedPath)[i]] IN
  ToSet(built) = ToSet(configured) /\ Len(built) = Len(configured)

(* Configuring a join again continues it and loses none of the others, as  *)
(* long as no option was set between two joins.                            *)
ReopeningKeepsJoins == "configure" \notin used => EveryJoinBuilt

(* The joins form a tree, however the calls are chained and whatever they  *)
(* repeat: a generated JOIN only refers to a table that comes before it in *)
(* the SQL, and to one that has its relation.                              *)
JoinsReachable ==
  \A i \in DOMAIN flattenedPath :
    \E p \in 0 .. i - 1 :
      /\ p = flattenedPath[i].parent
      /\ EntityAt(flattenedPath, p) = LeftOf[flattenedPath[i].relation]

(* The documented limits of a query: its tables are in the order of the    *)
(* joins, and none of them has a regular column with the name of the next  *)
(* table's primary key.                                                    *)
Separable ==
  /\ OrdersAgree
  /\ \A i \in DOMAIN flattenedPath :
       PrimaryKey(EntityAt(flattenedPath, i)) \notin RegularColumns(EntityAt(flattenedPath, i - 1))

(* Within the documented limits every column of the row ends up in the     *)
(* entity of the table it was selected from, whatever part of the columns  *)
(* was selected.                                                           *)
ColumnsSplitRight ==
  /\ TypeOK
  /\ asked # <<>> /\ Separable =>
       answer = [threw  |-> FALSE,
                 tables |-> [i \in DOMAIN asked |-> [join |-> i - 1, columns |-> asked[i]]]]
=============================================================================

----------------------------- MODULE EntityColumns -----------------------------
(***************************************************************************)
(* How EntityBuilder.Build arranges the columns of an entity: the primary  *)
(* key in front, read-only columns at the end, the rest in between.  The   *)
(* inserter and the updates address columns by their position.             *)
(***************************************************************************)
EXTENDS Naturals, Sequences, FiniteSets, SequencesExt

(* A column as it is defined, in the order of the type's properties.       *)
ColumnDefinition(name, key, readOnly, virtual) ==
  [name |-> name, key |-> key, readOnly |-> readOnly, virtual |-> virtual]

NoNode == "none"

(* Inserting before a node that was never set is appending.                *)
AddBefore(columns, node, name) ==
  LET at == IF node = NoNode THEN Len(columns) + 1 ELSE SelectInSeq(columns, LAMBDA c : c = node)
  IN InsertAt(columns, at, name)

EmptyList == [columns |-> <<>>, firstRegular |-> NoNode, firstReadOnly |-> NoNode]

(* Definitions named X_Y are variants of X with a mistake.  No             *)
(* specification uses them; they show which property would notice.         *)
PlaceColumn(list, d) ==
  IF d.key
    THEN [list EXCEPT !.columns = AddBefore(@, IF list.firstRegular # NoNode
                                                 THEN list.firstRegular
                                                 ELSE list.firstReadOnly, d.name)]
  ELSE IF d.readOnly
    THEN [list EXCEPT !.columns = Append(@, d.name),
                      !.firstReadOnly = IF @ = NoNode THEN d.name ELSE @]
    ELSE [list EXCEPT !.columns = AddBefore(@, list.firstReadOnly, d.name),
                      !.firstRegular = IF @ = NoNode THEN d.name ELSE @]

(* The list after each of the definitions.                                 *)
ListUpTo(layout) ==
  LET list[n \in 0 .. Len(layout)] ==
        IF n = 0 THEN EmptyList ELSE PlaceColumn(list[n - 1], layout[n])
  IN list

Build(layout) == ListUpTo(layout)[Len(layout)].columns

KeyCount(layout) == Cardinality({i \in DOMAIN layout : layout[i].key})
ReadOnlyCount(layout) == Cardinality({i \in DOMAIN layout : layout[i].readOnly /\ ~layout[i].key})

RegularColumnsOffset(layout) == KeyCount(layout)
LastRegularColumn_OneShort(layout) == Len(Build(layout)) - ReadOnlyCount(layout) - 1
LastRegularColumn(layout) == Len(Build(layout)) - ReadOnlyCount(layout)

(* The columns an INSERT names.  A read-only column is left out, unless it *)
(* is the very first, which is a key the database generates.               *)
ColumnListString(layout, includeKeys) ==
  LET columns  == Build(layout)
      readOnly == {layout[i].name : i \in {j \in DOMAIN layout : layout[j].readOnly}}
      first    == IF includeKeys THEN 1 ELSE RegularColumnsOffset(layout) + 1
      list[i \in 0 .. Len(columns)] ==
        IF i < first THEN <<>>
        ELSE IF i = 1 \/ columns[i] \notin readOnly THEN Append(list[i - 1], columns[i])
        ELSE list[i - 1]
  IN list[Len(columns)]

(* The columns whose values the generated inserter writes.                 *)
InsertedColumns(layout, skipPrimaryKey) ==
  SubSeq(Build(layout),
         IF skipPrimaryKey THEN RegularColumnsOffset(layout) + 1 ELSE 1,
         LastRegularColumn(layout))

(* The properties a proxy overrides, each with the position of its column  *)
(* in the order of definition, counted from 0.                             *)
Tracked(d) == d.virtual /\ ~d.readOnly
ChangeTrackingColumns(layout) ==
  LET list[n \in 0 .. Len(layout)] ==
        IF n = 0 THEN <<>>
        ELSE IF Tracked(layout[n]) THEN Append(list[n - 1], n - 1)
        ELSE list[n - 1]
  IN list[Len(layout)]

=============================================================================

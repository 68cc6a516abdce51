--------------------------- MODULE MCChangeTracking ---------------------------
(* Entities of a few columns.  C("k") is the key, "a" and "b" are virtual, *)
(* "p" is a plain property and "r" a read-only one.                        *)
EXTENDS ChangeTracking

C(name) == ColumnDefinition(name, name = "k", name = "r", name \in {"a", "b"})

(* Columns defined in the order in which Build leaves them.                *)
KeyFirst == {<<C("k"), C("a"), C("b"), C("r")>>, <<C("k"), C("p"), C("a"), C("b")>>}

(* An entity that inherits its key: inherited properties come last.        *)
KeyInherited == {<<C("a"), C("b"), C("k")>>}
ChangedLayouts == KeyFirst \cup KeyInherited

(* Every entity of at most four columns with one key.                      *)
Names4 == <<"a", "b", "c", "d">>
Shapes == [key : BOOLEAN, readOnly : BOOLEAN, virtual : BOOLEAN]
Layout(shape) ==
  [i \in DOMAIN shape |->
     ColumnDefinition(Names4[i], shape[i].key, shape[i].readOnly, shape[i].virtual)]
AllLayouts ==
  {l \in {Layout(shape) : shape \in UNION {[1 .. n -> Shapes] : n \in 2 .. 4}} : KeyCount(l) = 1}
EveryLayout == ChangedLayouts \cup AllLayouts
=============================================================================

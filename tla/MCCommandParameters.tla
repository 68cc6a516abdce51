------------------------- MODULE MCCommandParameters --------------------------
(* One command for queries, updates and deletes for TLC.                   *)
EXTENDS CommandParameters

(* A column that ends in a digit and one that looks like a key's parameter *)
AllColumns == {"Id", "Name", "Name1", "IdPK"}

(* Objects 1 and 2 in both orders, and with object 12 between them, which  *)
(* is not tracked; and eleven objects, whose numbers reach two digits.     *)
AllEntities == 1 .. 12
TrackedEntities == 1 .. 11
AllBatches == {<<>>, <<1>>, <<1, 2>>, <<2, 1>>, <<2, 12, 1>>, [i \in 1 .. 11 |-> i]}

(* The laws of strings that the proofs take for granted hold of the texts  *)
(* that occur.                                                             *)
AllNumbers == 0 .. 12
AllTexts == AllColumns \cup {"@p", "PK"} \cup {ToString(i) : i \in AllNumbers}
ASSUME TextLaws(AllTexts) /\ NumberLaws(AllNumbers)
=============================================================================

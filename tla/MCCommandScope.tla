--------------------------- MODULE MCCommandScope ---------------------------
(* Small instances of CommandScope for TLC: one insert of two statements,  *)
(* one update or delete and, in the larger instance, one query.            *)
EXTENDS CommandScope

MCKindOf == [c \in Commands |-> CASE c = "insert1" -> "insert"
                                  [] c = "insert2" -> "insert"
                                  [] c = "update1" -> "modify"
                                  [] c = "update2" -> "modify"
                                  [] c = "query1"  -> "direct"]
=============================================================================

--------------------------- MODULE MCRowMaterializer ---------------------------
(* Queries of one to three tables for TLC, in every shape.                 *)
EXTENDS RowMaterializer, TLC

CONSTANTS k1, k2

Symmetry == Permutations({k1, k2})

Alone == {[single |-> s, entity |-> <<"A">>, parent |-> [j \in {} |-> 0],
           type |-> [j \in {} |-> ""], inverse |-> [j \in {} |-> TRUE],
           behaviour |-> [j \in {} |-> ""]] : s \in BOOLEAN}

(* Two tables, with every behaviour.                                       *)
Pairs == {[single |-> s, entity |-> <<"A", "B">>, parent |-> (2 :> 1), type |-> (2 :> t),
           inverse |-> (2 :> i), behaviour |-> (2 :> b)] :
             s \in BOOLEAN, t \in Types, i \in BOOLEAN, b \in Behaviours}

(* Three tables: a chain or two joins to the first.  Only for one-to-one   *)
(* relations does the code for a left join differ from that for an inner   *)
(* join; the rows of an inner join are among those of a left join.         *)
Triples(names) ==
  {q \in [single : BOOLEAN, entity : {names}, parent : {2 :> 1 @@ 3 :> p : p \in {1, 2}},
          type : [{2, 3} -> Types], inverse : [{2, 3} -> BOOLEAN],
          behaviour : [{2, 3} -> {"InnerJoin", "LeftJoin"}]] :
     \A j \in {2, 3} : q.behaviour[j] = "InnerJoin" => q.type[j] = "OneToOne"}

(* A third table of the entity of the second.                              *)
Repeated == {q \in Triples(<<"A", "B", "B">>) : q.parent[3] = 1 /\ q.behaviour[2] = q.behaviour[3]}

AllQueries == Alone \cup Pairs \cup Triples(<<"A", "B", "C">>) \cup Repeated

(* For the search of a counterexample two tables are enough.               *)
PairQueries == Pairs
=============================================================================

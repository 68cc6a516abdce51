-------------------------- MODULE MCInsertExecution --------------------------
(* Three entities with every two relations between them, and every triangle*)
(* of three.  The root is always "A"; the others play all roles around it. *)
EXTENDS InsertExecution

Ends == {x \in Entities \X Entities : x[1] # x[2]}   \* <<dependent, principal>>

(* The first relation is one of "B", as "B" and "C" are alike; the third is*)
(* not configured.                                                         *)
Two == {<<x, y, x>> : x \in {z \in Ends : "B" \in {z[1], z[2]}}, y \in Ends}

Triangles == {<<x, y, z>> \in {<<"A", "B">>, <<"B", "A">>} \X {<<"B", "C">>, <<"C", "B">>}
                                \X {<<"A", "C">>, <<"C", "A">>} : TRUE}

Sides(ends, n) == UNION {{<<r, ends[r][1]>>, <<r, ends[r][2]>>} : r \in 1 .. n}

(* Objects are linked in pairs, other pairs for each relation, or all of   *)
(* them to the first.                                                      *)
Linkings == {"pairs", "shared"}

(* Trees are given as <<relation, parent>>, and 0 is the root.             *)
Children(tree, p) == SelectSeq([n \in DOMAIN tree |-> n], LAMBDA n : tree[n][2] = p)

Insert(ends, n, style, navigation, tree, generated, linking, size, limit, read) ==
  [root        |-> "A",
   style       |-> style,
   relationsOf |-> [e \in Entities |->
                      SelectSeq([r \in 1 .. n |-> r], LAMBDA r : e \in {ends[r][1], ends[r][2]})],
   dependent   |-> [r \in Relations |-> ends[r][1]],
   principal   |-> [r \in Relations |-> ends[r][2]],
   navigation  |-> navigation,
   generated   |-> generated,
   paths       |-> [p \in DOMAIN tree |->
                      [relation |-> tree[p][1], trailingPath |-> Children(tree, p)]],
   trailingPath |-> Children(tree, 0),
   roots       |-> [m \in 1 .. size |-> <<"A", m>>],
   single      |-> size = 1,
   links       |-> [r \in Relations |->
                      {<<<<ends[r][1], m>>,
                         <<ends[r][2], IF linking = "shared" THEN 1 ELSE ((m + r) % MaxObjects) + 1>>>> :
                         m \in 1 .. MaxObjects}],
   rowLimit    |-> limit,
   readLimit   |-> read]

(* InsertWithAll, with a property on one side of each relation or on both; *)
Navigated ==
  {y \in Two \X SUBSET ((1 .. 2) \X Entities) :
     /\ y[2] \subseteq Sides(y[1], 2)
     /\ \A r \in 1 .. 2 : \E e \in Entities : <<r, e>> \in y[2]}

AllInserts ==
  {Insert(y[1], 2, "all", y[2], <<>>, g, l, s, MaxObjects, MaxObjects) :
     y \in Navigated, g \in SUBSET Entities, l \in Linkings, s \in {1, 2}}

(* around a triangle, also with an empty list;                             *)
TriangleInserts ==
  {Insert(x, 3, "all", Sides(x, 3), <<>>, g, "pairs", s, MaxObjects, MaxObjects) :
     x \in Triangles, g \in SUBSET Entities, s \in {0, 2}}

(* with more objects than a statement takes.                               *)
LargeInserts ==
  {Insert(x, 2, "all", Sides(x, 2), <<>>, g, l, 2, m, m) :
     x \in Two, g \in SUBSET Entities, l \in Linkings, m \in {1, 2}}

(* One object, with more objects behind it than keys are read at a time.   *)
SkippingInserts ==
  {Insert(x, 2, "all", Sides(x, 2), <<>>, g, l, 1, m, 1) :
     x \in Two, g \in SUBSET Entities, l \in Linkings, m \in {2, 3}}

(* InsertWith, along no, one or two relations.                             *)
Trees == {<<>>} \cup {<<<<r, 0>>>> : r \in 1 .. 2}
         \cup {<<<<r, 0>>, <<q, p>>>> : r, q \in 1 .. 2, p \in 0 .. 1}

FromRoot(ends, tree) ==
  LET of(r) == {ends[r][1], ends[r][2]}
      parent(p) == IF tree[p][2] = 0 THEN {"A"} ELSE of(tree[1][1]) \ {"A"}
  IN /\ \A p \in DOMAIN tree : of(tree[p][1]) \cap parent(p) # {}
     /\ \A p, q \in DOMAIN tree : p # q => tree[p] # tree[q]

WithInserts ==
  {Insert(y[1], 2, "with", Sides(y[1], 2), y[2], g, l, s, MaxObjects, MaxObjects) :
     y \in {z \in Two \X Trees : FromRoot(z[1], z[2])},
     g \in SUBSET Entities, l \in Linkings, s \in {1, 2}}

(* Two relations, properties on both sides and keys of the server.         *)
GeneratedInserts ==
  {Insert(x, 2, "all", Sides(x, 2), <<>>, Entities, "pairs", 1, MaxObjects, MaxObjects) : x \in Two}

MCInserts == AllInserts \cup TriangleInserts \cup LargeInserts \cup SkippingInserts \cup WithInserts
=============================================================================

--------------------------- MODULE MaterializerCache ---------------------------
(***************************************************************************)
(* The two caches of a MaterializerFactory.  The first layer maps the SQL  *)
(* of a query to its materializer, and forgets SQL that was not executed   *)
(* for DynamicCacheExpirationTime; a linked list keeps the expirations.    *)
(* The second layer maps what the query returned to the materializer that  *)
(* was compiled for it, and never forgets.                                 *)
(*                                                                         *)
(* GetOrCreateMaterializer holds one lock from reading the clock to its    *)
(* return, so it is one step; the commands of all threads interleave as    *)
(* calls of it.  SQL stands for the whole SqlQueryCacheKey, and hashes of  *)
(* different data are taken to differ.                                     *)
(***************************************************************************)
EXTENDS Naturals, Sequences, FiniteSets

CONSTANTS
  Queries,      \* the query commands that the program executes
  SqlOf,        \* their SQL, return type and change tracking
  ColumnsOf,    \* the columns they return
  RelationsOf,  \* the relations they join, in order
  EntityOf,     \* the entity a relation leads to
  Matching,     \* the queries whose joins match their columns
  MaxTime,      \* bound: seconds the clock runs
  MaxNodes,     \* bound: length of the expiration list
  Spans,        \* the values DynamicCacheExpirationTime is set to
  None          \* no materializer

Sqls == {SqlOf[q] : q \in Queries}

(* A materializer is known by what it was compiled for.                    *)
Compiled(q) == [columns |-> ColumnsOf[q], relations |-> RelationsOf[q]]

Materializers == {Compiled(q) : q \in Queries}

(* What tells two keys of the second layer apart.  Equals compares the     *)
(* columns; only the hash looks at the relations, and of those it takes the*)
(* entities they lead to.                                                  *)
Joined(relations) == [i \in DOMAIN relations |-> EntityOf[relations[i]]]
SecondLayerKey(m) == <<m.columns, Joined(m.relations)>>

ASSUME CacheAssumption ==
  /\ \A q \in Queries : RelationsOf[q] \in Seq(DOMAIN EntityOf)
  /\ Matching \subseteq Queries
  /\ \A q \in Matching, r \in Queries \ Matching :
       SecondLayerKey(Compiled(q)) # SecondLayerKey(Compiled(r))
  /\ MaxTime \in Nat /\ MaxNodes \in Nat
  /\ Spans \subseteq Nat \ {0} /\ Spans # {}
  /\ None \notin Materializers

VARIABLES
  now,            \* the wall clock
  expirationTime, \* VenflowConfiguration.DynamicCacheExpirationTime
  primary,        \* _primaryMaterializerCache
  expirations,    \* _primaryExpirations, with "live" for the node that the
                  \* entry of its key refers to
  secondary,      \* _materializerCache
  returned,       \* the last call and what it returned, None if it threw
  freshUntil,     \* history: when the last call of each SQL expires
  calledBefore,   \* history: <<s, t>> if both are cached and the last call
                  \* of s was before that of t
  compilations    \* history: how often each query had to be compiled

vars == <<now, expirationTime, primary, expirations, secondary, returned,
          freshUntil, calledBefore, compilations>>

Init ==
  /\ now = 0
  /\ expirationTime \in Spans
  /\ primary = [s \in Sqls |-> None]
  /\ expirations = <<>>
  /\ secondary = {}
  /\ returned \in [query : Queries, materializer : {None}]
  /\ freshUntil = [s \in Sqls |-> 0]
  /\ calledBefore = {}
  /\ compilations = [q \in Queries |-> 0]

-----------------------------------------------------------------------------
LiveNodes(s) == {i \in DOMAIN expirations : expirations[i].live /\ expirations[i].key = s}

Node(s, live) == [key |-> s, timeStamp |-> now + expirationTime, live |-> live]

(* Definitions named X_Y are variants of X with a mistake.  No             *)
(* specification uses them; they show which property would notice.         *)
Renewed_InPlace(s) == expirations

Renewed_NotMoved(s) ==
  [i \in DOMAIN expirations |->
     IF i \in LiveNodes(s) THEN Node(s, TRUE) ELSE expirations[i]]

Without(list, k) == [i \in 1 .. Len(list) - 1 |-> IF i < k THEN list[i] ELSE list[i + 1]]

(* A hit moves the node of the entry to the end with a new time stamp.     *)
Renewed(s) ==
  LET k == CHOOSE i \in LiveNodes(s) : TRUE IN Append(Without(expirations, k), Node(s, TRUE))

(* A miss appends a node before it looks for the materializer.             *)
Added(s, live) == Append(expirations, Node(s, live))

Expired(list) == list # <<>> /\ now > Head(list).timeStamp

(* Only the first node is looked at: Remove clears node.Next, so the loop  *)
(* over the following nodes ends before it starts.  The entry of the key   *)
(* goes, even if it refers to a younger node.                              *)
ListEvicted(list) ==
  [i \in DOMAIN Tail(list) |->
     [Tail(list)[i] EXCEPT !.live = @ /\ Tail(list)[i].key # Head(list).key]]

EntryEvicted_Stays(cache, list) == cache

EntryEvicted(cache, list) == [cache EXCEPT ![Head(list).key] = None]

Evict(cache, list) ==
  IF Expired(list)
    THEN expirations' = ListEvicted(list) /\ primary' = EntryEvicted(cache, list)
    ELSE expirations' = list /\ primary' = cache

(* The second layer finds a materializer, or compiles and keeps one.       *)
SameKey_ColumnsOnly(q) == {m \in secondary : m.columns = ColumnsOf[q]}

SameKey(q) == {m \in secondary : SecondLayerKey(m) = SecondLayerKey(Compiled(q))}

Resolve(q) == IF SameKey(q) # {} THEN CHOOSE m \in SameKey(q) : TRUE ELSE Compiled(q)

Hit(q) ==
  /\ primary[SqlOf[q]] # None
  /\ returned' = [query |-> q, materializer |-> primary[SqlOf[q]]]
  /\ Evict(primary, Renewed(SqlOf[q]))
  /\ UNCHANGED <<secondary, compilations>>

Miss(q) ==
  /\ primary[SqlOf[q]] = None
  /\ Len(expirations) < MaxNodes
  /\ q \in Matching
  /\ returned' = [query |-> q, materializer |-> Resolve(q)]
  /\ Evict([primary EXCEPT ![SqlOf[q]] = Resolve(q)], Added(SqlOf[q], TRUE))
  /\ secondary' = secondary \cup {Resolve(q)}
  /\ compilations' = IF SameKey(q) = {} THEN [compilations EXCEPT ![q] = @ + 1] ELSE compilations

(* A query whose joins do not fit its columns throws while the materializer*)
(* is built: its node is already in the list, and no entry will refer to   *)
(* it.                                                                     *)
MissThrows(q) ==
  /\ primary[SqlOf[q]] = None
  /\ Len(expirations) < MaxNodes
  /\ q \notin Matching
  /\ returned' = [query |-> q, materializer |-> None]
  /\ expirations' = Added(SqlOf[q], FALSE)
  /\ UNCHANGED <<primary, secondary, compilations>>

(* The order of the last calls, of the SQL that stays cached.              *)
CalledNow(s) ==
  {p \in calledBefore : p[1] # s} \cup {<<t, s>> : t \in Sqls \ {s}}

GetOrCreateMaterializer(q) ==
  /\ Hit(q) \/ Miss(q) \/ MissThrows(q)
  /\ freshUntil' = [freshUntil EXCEPT ![SqlOf[q]] = now + expirationTime]
  /\ calledBefore' =
       {p \in CalledNow(SqlOf[q]) : primary'[p[1]] # None /\ primary'[p[2]] # None}
  /\ UNCHANGED <<now, expirationTime>>

(* The clock runs, and may be set back.                                    *)
ClockChanges ==
  /\ now' \in 0 .. MaxTime
  /\ now' # now
  /\ UNCHANGED <<expirationTime, primary, expirations, secondary, returned,
                 freshUntil, calledBefore, compilations>>

SetDynamicCacheExpirationTime ==
  /\ expirationTime' \in Spans \ {expirationTime}
  /\ UNCHANGED <<now, primary, expirations, secondary, returned, freshUntil,
                 calledBefore, compilations>>

Next ==
  \/ \E q \in Queries : GetOrCreateMaterializer(q)
  \/ ClockChanges
  \/ SetDynamicCacheExpirationTime

Spec == Init /\ [][Next]_vars

-----------------------------------------------------------------------------
(* Every variable has its type.                                            *)
TypeOK ==
  /\ now \in Nat
  /\ expirationTime \in Spans
  /\ primary \in [Sqls -> Materializers \cup {None}]
  /\ expirations \in Seq([key : Sqls, timeStamp : Nat, live : BOOLEAN])
  /\ secondary \subseteq Materializers
  /\ returned \in [query : Queries, materializer : Materializers \cup {None}]
  /\ freshUntil \in [Sqls -> Nat]
  /\ calledBefore \subseteq Sqls \X Sqls
  /\ compilations \in [Queries -> Nat]

(* An entry of the first layer and its node in the list come and go        *)
(* together.  A hit removes the node from the list, which throws when it is*)
(* not there; an entry without a node would never expire.                  *)
EntryHasNode ==
  \A s \in Sqls : Cardinality(LiveNodes(s)) = IF primary[s] = None THEN 0 ELSE 1

(* SQL of which every query can be built.  A query that fails leaves a node*)
(* behind that will evict the entry of another query with the same SQL.    *)
ReliableSqls == {s \in Sqls : \A q \in Queries : SqlOf[q] = s => q \in Matching}

(* SQL that was executed within the expiration time is still in the first  *)
(* layer, whatever the clock, the setting and the failures of queries with *)
(* other SQL did in between.                                               *)
KeptWhileFresh ==
  [][\A s \in ReliableSqls :
       primary[s] # None /\ primary'[s] = None => now > freshUntil[s]]_vars

(* A materializer is compiled once, also when its SQL expired in between.  *)
CompiledOnce == \A q \in Queries : compilations[q] <= 1

(* The two layers and the list are consistent.                             *)
CacheConsistent == TypeOK /\ EntryHasNode /\ CompiledOnce

(* The queries whose materializers the keys do not tell from that of q: the*)
(* first layer looks at the SQL only, the second at the columns and the    *)
(* entities that are joined, but not at the relations that join them.      *)
Alike(q) ==
  {r \in Matching : \E p \in Matching :
     SqlOf[p] = SqlOf[q] /\ SecondLayerKey(Compiled(p)) = SecondLayerKey(Compiled(r))}

(* Whatever was cached, forgotten and cached again in between, a query gets*)
(* a materializer of one of these queries: with the columns and the joined *)
(* entities of its own SQL.  It is its own if no other query has its SQL or*)
(* reaches its entities by other relations; one that shares its key, as    *)
(* "homes" and "offices" do, may get the other's.                          *)
MaterializerFits ==
  returned.materializer \in {None} \cup {Compiled(r) : r \in Alike(returned.query)}

(* The entry that a call evicts is the one that was called least recently: *)
(* whatever else stays cached was called after it, also when time stamps   *)
(* are out of order because the expiration time was changed or the clock   *)
(* set back.  (A call evicts one expired entry at most, and one that throws*)
(* none, so that more may stay than the documentation says.)               *)
OldestIsEvicted ==
  [][\A s \in ReliableSqls, t \in Sqls :
       /\ primary[s] # None /\ primary'[s] = None
       /\ <<t, s>> \in calledBefore
       => t = SqlOf[returned'.query]]_vars

=============================================================================

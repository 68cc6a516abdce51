------------------------- MODULE ConfigurationCaches --------------------------
(***************************************************************************)
(* The dictionaries that all Databases share: the configuration of each    *)
(* type of Database, custom entities, inserters, and the statements of     *)
(* interpolated expressions.  A thread looks for its key without a lock,   *)
(* takes the lock of the dictionary if it is missing, looks again, builds  *)
(* the object and adds it.                                                 *)
(***************************************************************************)
EXTENDS Naturals, FiniteSets

CONSTANTS
  Threads,        \* the threads, each with Databases of its own
  Caches,         \* the dictionaries
  Keys,           \* the keys of all of them; types of Databases among others
  Requests,       \* what the threads ask for: pairs of a dictionary and a key
  Configurations, \* the dictionary of configurations, keyed by such a type
  CustomEntities, \* the dictionary of custom entities
  Concurrent,     \* the dictionaries that may be read while they change
  MayFail         \* those whose objects may fail to be built

NoThread == "nobody"
None == "none"

ASSUME CachesAssumption ==
  /\ NoThread \notin Threads /\ None \notin Keys
  /\ Configurations \in Caches /\ CustomEntities \in Caches
  /\ Configurations # CustomEntities /\ Requests \subseteq Caches \X Keys
  /\ Concurrent \subseteq Caches /\ MayFail \subseteq Caches

VARIABLES
  pc,        \* what each thread is doing
  cache,     \* the dictionary it looks into
  key,       \* what it looks for, None outside of calls
  database,  \* the type of the Database that it uses
  lock,      \* the thread that holds the lock of a dictionary
  entries,   \* the object stored for a key, 0 if there is none
  object,    \* the object that a thread has built
  built,     \* history: the number of objects built, which tells them apart
  returned   \* history: the objects that calls returned

vars == <<pc, cache, key, database, lock, entries, object, built, returned>>

Init ==
  /\ pc = [t \in Threads |-> "idle"]
  /\ cache = [t \in Threads |-> Configurations]
  /\ key = [t \in Threads |-> None]
  /\ database = [t \in Threads |-> None]
  /\ lock = [c \in Caches |-> NoThread]
  /\ entries = [c \in Caches |-> [k \in Keys |-> 0]]
  /\ object = [t \in Threads |-> 0]
  /\ built = 0
  /\ returned = [c \in Caches |-> [k \in Keys |-> {}]]

At(t, label) == pc[t] = label
Goto(t, label) == pc' = [pc EXCEPT ![t] = label]
Stored(t) == entries[cache[t]][key[t]]

(* Whether somebody changes the dictionary that t reads.                   *)
Disturbed(t) ==
  /\ cache[t] \notin Concurrent
  /\ \E u \in Threads \ {t} : At(u, "adding") /\ cache[u] = cache[t]

(* A call ends with an object, or with an exception.  The constructor of a *)
(* Database is such a call.                                                *)
End(t) ==
  /\ Goto(t, "idle")
  /\ cache' = [cache EXCEPT ![t] = Configurations]
  /\ key' = [key EXCEPT ![t] = None]
  /\ object' = [object EXCEPT ![t] = 0]
Return(t, found) ==
  /\ End(t)
  /\ returned' = [returned EXCEPT ![cache[t]][key[t]] = @ \cup {found}]
  /\ database' = [database EXCEPT ![t] = IF cache[t] = Configurations THEN key[t] ELSE @]
Throw(t) == End(t) /\ UNCHANGED <<returned, database>>
Continue(t, label) == Goto(t, label) /\ UNCHANGED <<cache, key, object, returned, database>>

Release(t) == lock' = [lock EXCEPT ![cache[t]] = NoThread]

-----------------------------------------------------------------------------

(* Only the constructor of a Database asks for a configuration; all other  *)
(* calls are made on a Database.                                           *)
Call(t, c, k) ==
  /\ At(t, "idle") /\ Goto(t, "reading")
  /\ c # Configurations => database[t] # None
  /\ cache' = [cache EXCEPT ![t] = c]
  /\ key' = [key EXCEPT ![t] = k]
  /\ UNCHANGED <<database, lock, entries, object, built, returned>>

(* Definitions named X_Y are variants of X with a mistake.  No             *)
(* specification uses them; they show which property would notice.         *)

(* TryGetValue without the lock.  While a Dictionary is being changed it   *)
(* may miss what is there, or throw.                                       *)
ReadUnlocked(t) ==
  /\ At(t, "reading")
  /\ \/ Stored(t) # 0 /\ Return(t, Stored(t))
     \/ (Stored(t) = 0 \/ Disturbed(t)) /\ Continue(t, "waiting")
     \/ Disturbed(t) /\ Throw(t)
  /\ UNCHANGED <<lock, entries, built>>

EnterLock_Unguarded(t) ==
  /\ At(t, "waiting") /\ Continue(t, "checking")
  /\ lock' = [lock EXCEPT ![cache[t]] = t]
  /\ UNCHANGED <<entries, built>>
EnterLock(t) ==
  /\ At(t, "waiting") /\ Continue(t, "checking")
  /\ lock[cache[t]] = NoThread
  /\ lock' = [lock EXCEPT ![cache[t]] = t]
  /\ UNCHANGED <<entries, built>>

(* TryGetValue under the lock.                                             *)
ReadLocked_Skipped(t) ==
  /\ At(t, "checking") /\ Continue(t, "building")
  /\ UNCHANGED <<lock, entries, built>>
ReadLocked(t) ==
  /\ At(t, "checking")
  /\ IF Stored(t) # 0
     THEN Return(t, Stored(t)) /\ Release(t)
     ELSE Continue(t, "building") /\ UNCHANGED lock
  /\ UNCHANGED <<entries, built>>

(* A custom entity is built from the configuration of the Database that it *)
(* was asked for on.                                                       *)
Configured(t) ==
  cache[t] = CustomEntities => entries[Configurations][database[t]] # 0

Build(t) ==
  /\ At(t, "building") /\ Configured(t) /\ Goto(t, "adding")
  /\ built' = built + 1
  /\ object' = [object EXCEPT ![t] = built + 1]
  /\ UNCHANGED <<cache, key, database, lock, entries, returned>>

(* The caller's Configure, or an expression that is not supported, throws. *)
BuildFails_Retried(t) ==
  /\ At(t, "building") /\ (~Configured(t) \/ cache[t] \in MayFail)
  /\ Continue(t, "checking")
  /\ UNCHANGED <<lock, entries, built>>
BuildFails_Ignored(t) ==
  /\ At(t, "building") /\ (~Configured(t) \/ cache[t] \in MayFail)
  /\ End(t) /\ Release(t)
  /\ database' = [database EXCEPT ![t] = IF cache[t] = Configurations THEN key[t] ELSE @]
  /\ UNCHANGED <<entries, built, returned>>
BuildFails(t) ==
  /\ At(t, "building") /\ (~Configured(t) \/ cache[t] \in MayFail)
  /\ Throw(t) /\ Release(t)
  /\ UNCHANGED <<entries, built>>

(* Add throws when the key is there already; TryAdd, which configurations  *)
(* are added with, only returns false.                                     *)
Add(t) ==
  /\ At(t, "adding") /\ Release(t)
  /\ IF Stored(t) = 0
     THEN /\ entries' = [entries EXCEPT ![cache[t]][key[t]] = object[t]]
          /\ Return(t, object[t])
     ELSE /\ IF cache[t] = Configurations THEN Return(t, object[t]) ELSE Throw(t)
          /\ UNCHANGED entries
  /\ UNCHANGED built

Step(t) ==
  ReadUnlocked(t) \/ EnterLock(t) \/ ReadLocked(t) \/ Build(t) \/ BuildFails(t) \/ Add(t)

Next == \E t \in Threads : Step(t) \/ \E r \in Requests : Call(t, r[1], r[2])

Spec == Init /\ [][Next]_vars

(* Threads run, and one that waits for a lock is not passed over for ever  *)
(* by others that take it.                                                 *)
Fairness == \A t \in Threads : WF_vars(Step(t)) /\ SF_vars(EnterLock(t))

FairSpec == Spec /\ Fairness
-----------------------------------------------------------------------------
(* Properties.                                                             *)

Labels == {"idle", "reading", "waiting", "checking", "building", "adding"}

(* The variables have their types.                                         *)
TypeOK ==
  /\ pc \in [Threads -> Labels]
  /\ cache \in [Threads -> Caches] /\ key \in [Threads -> Keys \cup {None}]
  /\ \A t \in Threads : pc[t] # "idle" => key[t] \in Keys
  /\ database \in [Threads -> Keys \cup {None}]
  /\ lock \in [Caches -> Threads \cup {NoThread}]
  /\ entries \in [Caches -> [Keys -> Nat]]
  /\ object \in [Threads -> Nat] /\ built \in Nat
  /\ returned \in [Caches -> [Keys -> SUBSET (Nat \ {0})]]

(* At most one thread is between the second look at a dictionary and Add,  *)
(* and what it builds for has not been stored meanwhile, so that Add never *)
(* meets a key that is there.                                              *)
BuildersAlone ==
  \A t \in Threads :
    /\ pc[t] \in {"checking", "building", "adding"} => lock[cache[t]] = t
    /\ pc[t] \in {"building", "adding"} => Stored(t) = 0

(* Whoever asks for a key gets the same object.                            *)
OneObject ==
  \A c \in Caches, k \in Keys : returned[c][k] # {} => returned[c][k] = {entries[c][k]}

(* A Database whose constructor came back has its configuration, so that   *)
(* Custom can build from it.                                               *)
DatabasesAreConfigured ==
  \A t \in Threads : database[t] # None => entries[Configurations][database[t]] # 0

(* No object is built in vain: each of them is stored or about to be, also *)
(* if other threads failed to build one before.                            *)
NothingBuiltTwice ==
  built = Cardinality({e \in Caches \X Keys : entries[e[1]][e[2]] # 0})
            + Cardinality({t \in Threads : At(t, "adding")})

(* The dictionaries together are as good as one that is written once.      *)
Abstract == INSTANCE WriteOnce
ImplementsWriteOnce == Abstract!Spec

(* Every call comes back, be it with an exception; no lock is kept by a    *)
(* call that failed.                                                       *)
CallsReturn == \A t \in Threads : ~At(t, "idle") ~> At(t, "idle")
=============================================================================

---------------------- MODULE ConfigurationCachesProofs ----------------------
(***************************************************************************)
(* Proofs about ConfigurationCaches, for any threads, dictionaries, keys   *)
(* and requests: double-checked locking is enough for what the             *)
(* dictionaries promise, whatever a read that races with an Add comes back *)
(* with, and whichever builds fail.                                        *)
(***************************************************************************)
EXTENDS ConfigurationCaches, FiniteSetTheorems, TLAPS

(* What a thread is about to add is an object.                             *)
ObjectsAreBuilt == \A t \in Threads : At(t, "adding") => object[t] # 0

IInv == TypeOK /\ BuildersAlone /\ ObjectsAreBuilt /\ OneObject /\ DatabasesAreConfigured

(* The initial state satisfies the inductive invariant.                    *)
LEMMA InitIInv == Init => IInv
  BY CachesAssumption
     DEF Init, IInv, TypeOK, BuildersAlone, ObjectsAreBuilt, OneObject, DatabasesAreConfigured,
         Labels, At

(* How a call ends, as far as types are concerned.                         *)
LEMMA EndTypes ==
  ASSUME TypeOK, NEW t \in Threads, End(t)
  PROVE  /\ pc' \in [Threads -> Labels]
         /\ cache' \in [Threads -> Caches]
         /\ key' \in [Threads -> Keys \cup {None}]
         /\ \A u \in Threads : pc'[u] # "idle" => key'[u] \in Keys
         /\ object' \in [Threads -> Nat]
         /\ \A u \in Threads : pc'[u] # "idle" => u # t
         /\ \A u \in Threads \ {t} : /\ pc'[u] = pc[u] /\ cache'[u] = cache[u]
                                     /\ key'[u] = key[u] /\ object'[u] = object[u]
         /\ pc'[t] = "idle"
  BY CachesAssumption DEF TypeOK, End, Goto, Labels

(* The same for a step inside of a call.                                   *)
LEMMA ContinueTypes ==
  ASSUME TypeOK, NEW t \in Threads, NEW label \in Labels \ {"idle"}, pc[t] # "idle",
         Continue(t, label)
  PROVE  /\ pc' \in [Threads -> Labels]
         /\ \A u \in Threads : pc'[u] # "idle" => key[u] \in Keys
         /\ \A u \in Threads \ {t} : pc'[u] = pc[u]
         /\ pc'[t] = label
         /\ UNCHANGED <<cache, key, object, returned, database>>
  BY DEF TypeOK, Continue, Goto, Labels

(* A call that returns what is stored under its key keeps the invariant.   *)
LEMMA ReturnStored ==
  ASSUME IInv, NEW t \in Threads, pc[t] # "idle", Stored(t) # 0,
         Return(t, Stored(t)), UNCHANGED <<entries, built>>,
         \/ UNCHANGED lock /\ pc[t] \notin {"checking", "building", "adding"}
         \/ Release(t) /\ lock[cache[t]] = t
  PROVE  IInv'
<1>1. TypeOK /\ BuildersAlone /\ ObjectsAreBuilt /\ OneObject /\ DatabasesAreConfigured
  BY DEF IInv
<1>2. End(t)
  BY DEF Return
<1>3. cache[t] \in Caches /\ key[t] \in Keys /\ Stored(t) \in Nat \ {0}
  BY <1>1 DEF TypeOK, Stored
<1>4. TypeOK'
  <2>1. returned' \in [Caches -> [Keys -> SUBSET (Nat \ {0})]]
    BY <1>1, <1>3 DEF TypeOK, Return
  <2>2. database' \in [Threads -> Keys \cup {None}]
    BY <1>1, <1>3 DEF TypeOK, Return
  <2>3. lock' \in [Caches -> Threads \cup {NoThread}]
    BY <1>1 DEF TypeOK, Release
  <2> QED
    BY <1>1, <1>2, <2>1, <2>2, <2>3, EndTypes DEF TypeOK
<1>5. BuildersAlone'
  <2> SUFFICES ASSUME NEW u \in Threads
               PROVE  /\ pc'[u] \in {"checking", "building", "adding"} => lock'[cache'[u]] = u
                      /\ pc'[u] \in {"building", "adding"} => entries'[cache'[u]][key'[u]] = 0
    BY DEF BuildersAlone, Stored
  <2>1. CASE u = t
    BY <1>1, <1>2, <2>1, EndTypes
  <2>2. CASE u # t
    <3>1. pc'[u] = pc[u] /\ cache'[u] = cache[u] /\ key'[u] = key[u]
      BY <1>1, <1>2, <2>2, EndTypes
    <3>2. pc[u] \in {"checking", "building", "adding"} => lock[cache[u]] = u
      BY <1>1 DEF BuildersAlone
    <3>3. pc[u] \in {"building", "adding"} => entries[cache[u]][key[u]] = 0
      BY <1>1 DEF BuildersAlone, Stored
    <3>4. pc[u] \in {"checking", "building", "adding"} => lock'[cache[u]] = u
      BY <1>1, <1>3, <2>2, <3>2 DEF TypeOK, Release
    <3> QED
      BY <3>1, <3>3, <3>4
  <2> QED
    BY <2>1, <2>2
<1>6. ObjectsAreBuilt'
  BY <1>1, <1>2, EndTypes DEF ObjectsAreBuilt, At
<1>7. OneObject'
  BY <1>1, <1>3 DEF OneObject, Return, TypeOK, Stored
<1>8. DatabasesAreConfigured'
  BY <1>1, <1>3 DEF DatabasesAreConfigured, Return, TypeOK, Stored
<1> QED
  BY <1>4, <1>5, <1>6, <1>7, <1>8 DEF IInv

(* So does one that ends with an exception.                                *)
LEMMA ThrowKeeps ==
  ASSUME IInv, NEW t \in Threads, pc[t] # "idle", Throw(t), UNCHANGED <<entries, built>>,
         \/ UNCHANGED lock /\ pc[t] \notin {"checking", "building", "adding"}
         \/ Release(t) /\ lock[cache[t]] = t
  PROVE  IInv'
<1>1. TypeOK /\ BuildersAlone /\ ObjectsAreBuilt /\ OneObject /\ DatabasesAreConfigured
  BY DEF IInv
<1>2. End(t) /\ UNCHANGED <<returned, database>>
  BY DEF Throw
<1>3. cache[t] \in Caches
  BY <1>1 DEF TypeOK
<1>4. TypeOK'
  <2>1. lock' \in [Caches -> Threads \cup {NoThread}]
    BY <1>1 DEF TypeOK, Release
  <2> QED
    BY <1>1, <1>2, <2>1, EndTypes DEF TypeOK
<1>5. BuildersAlone'
  <2> SUFFICES ASSUME NEW u \in Threads
               PROVE  /\ pc'[u] \in {"checking", "building", "adding"} => lock'[cache'[u]] = u
                      /\ pc'[u] \in {"building", "adding"} => entries'[cache'[u]][key'[u]] = 0
    BY DEF BuildersAlone, Stored
  <2>1. CASE u = t
    BY <1>1, <1>2, <2>1, EndTypes
  <2>2. CASE u # t
    <3>1. pc'[u] = pc[u] /\ cache'[u] = cache[u] /\ key'[u] = key[u]
      BY <1>1, <1>2, <2>2, EndTypes
    <3>2. pc[u] \in {"checking", "building", "adding"} => lock[cache[u]] = u
      BY <1>1 DEF BuildersAlone
    <3>3. pc[u] \in {"building", "adding"} => entries[cache[u]][key[u]] = 0
      BY <1>1 DEF BuildersAlone, Stored
    <3>4. pc[u] \in {"checking", "building", "adding"} => lock'[cache[u]] = u
      BY <1>1, <1>3, <2>2, <3>2 DEF TypeOK, Release
    <3> QED
      BY <3>1, <3>3, <3>4
  <2> QED
    BY <2>1, <2>2
<1>6. ObjectsAreBuilt'
  BY <1>1, <1>2, EndTypes DEF ObjectsAreBuilt, At
<1>7. OneObject' /\ DatabasesAreConfigured'
  BY <1>1, <1>2 DEF OneObject, DatabasesAreConfigured
<1> QED
  BY <1>4, <1>5, <1>6, <1>7 DEF IInv

(* And a step that leaves the thread in its call, outside of the lock.     *)
LEMMA CallKeeps ==
  ASSUME IInv, NEW t \in Threads, NEW r \in Requests, Call(t, r[1], r[2])
  PROVE  IInv'
<1>1. TypeOK /\ BuildersAlone /\ ObjectsAreBuilt /\ OneObject /\ DatabasesAreConfigured
  BY DEF IInv
<1>2. r[1] \in Caches /\ r[2] \in Keys
  BY CachesAssumption
<1>3. TypeOK'
  BY <1>1, <1>2 DEF TypeOK, Call, Goto, Labels
<1>4. \A u \in Threads \ {t} : /\ pc'[u] = pc[u] /\ cache'[u] = cache[u]
                               /\ key'[u] = key[u] /\ object'[u] = object[u]
  BY <1>1 DEF TypeOK, Call, Goto
<1>5. pc'[t] = "reading" /\ UNCHANGED <<database, lock, entries, object, built, returned>>
  BY <1>1 DEF TypeOK, Call, Goto
<1>6. BuildersAlone' /\ ObjectsAreBuilt'
  BY <1>1, <1>4, <1>5 DEF BuildersAlone, ObjectsAreBuilt, Stored, At
<1>7. OneObject' /\ DatabasesAreConfigured'
  BY <1>1, <1>5 DEF OneObject, DatabasesAreConfigured
<1> QED
  BY <1>3, <1>6, <1>7 DEF IInv

LEMMA ReadUnlockedKeeps ==
  ASSUME IInv, NEW t \in Threads, ReadUnlocked(t)
  PROVE  IInv'
<1>1. TypeOK /\ BuildersAlone /\ ObjectsAreBuilt /\ OneObject /\ DatabasesAreConfigured
  BY DEF IInv
<1>2. pc[t] = "reading" /\ UNCHANGED <<lock, entries, built>>
  BY DEF ReadUnlocked, At
<1>3. CASE Stored(t) # 0 /\ Return(t, Stored(t))
  BY <1>2, <1>3, ReturnStored
<1>4. CASE Continue(t, "waiting")
  <2>1. /\ pc' \in [Threads -> Labels]
        /\ \A u \in Threads : pc'[u] # "idle" => key[u] \in Keys
        /\ \A u \in Threads \ {t} : pc'[u] = pc[u]
        /\ pc'[t] = "waiting"
        /\ UNCHANGED <<cache, key, object, returned, database>>
    BY <1>1, <1>2, <1>4, ContinueTypes DEF Labels
  <2>2. TypeOK'
    BY <1>1, <1>2, <2>1 DEF TypeOK
  <2>3. BuildersAlone' /\ ObjectsAreBuilt'
    BY <1>1, <1>2, <2>1 DEF BuildersAlone, ObjectsAreBuilt, Stored, At
  <2>4. OneObject' /\ DatabasesAreConfigured'
    BY <1>1, <1>2, <2>1 DEF OneObject, DatabasesAreConfigured
  <2> QED
    BY <2>2, <2>3, <2>4 DEF IInv
<1>5. CASE Throw(t)
  BY <1>2, <1>5, ThrowKeeps
<1> QED
  BY <1>3, <1>4, <1>5 DEF ReadUnlocked

(* The lock was free, so nobody else is inside.                            *)
LEMMA EnterLockKeeps ==
  ASSUME IInv, NEW t \in Threads, EnterLock(t)
  PROVE  IInv'
<1>1. TypeOK /\ BuildersAlone /\ ObjectsAreBuilt /\ OneObject /\ DatabasesAreConfigured
  BY DEF IInv
<1>2. /\ pc[t] = "waiting" /\ lock[cache[t]] = NoThread
      /\ lock' = [lock EXCEPT ![cache[t]] = t] /\ UNCHANGED <<entries, built>>
  BY DEF EnterLock, At
<1>3. /\ pc' \in [Threads -> Labels]
      /\ \A u \in Threads : pc'[u] # "idle" => key[u] \in Keys
      /\ \A u \in Threads \ {t} : pc'[u] = pc[u]
      /\ pc'[t] = "checking"
      /\ UNCHANGED <<cache, key, object, returned, database>>
  BY <1>1, <1>2, ContinueTypes DEF Labels, EnterLock
<1>4. cache[t] \in Caches
  BY <1>1 DEF TypeOK
<1>5. TypeOK'
  BY <1>1, <1>2, <1>3, <1>4 DEF TypeOK
<1>6. BuildersAlone'
  <2> SUFFICES ASSUME NEW u \in Threads
               PROVE  /\ pc'[u] \in {"checking", "building", "adding"} => lock'[cache[u]] = u
                      /\ pc'[u] \in {"building", "adding"} => entries[cache[u]][key[u]] = 0
    BY <1>2, <1>3 DEF BuildersAlone, Stored
  <2>1. CASE u = t
    BY <1>1, <1>2, <1>3, <1>4, <2>1 DEF TypeOK
  <2>2. CASE u # t
    <3>1. /\ pc[u] \in {"checking", "building", "adding"} => lock[cache[u]] = u
          /\ pc[u] \in {"building", "adding"} => entries[cache[u]][key[u]] = 0
      BY <1>1 DEF BuildersAlone, Stored
    <3>2. lock[cache[u]] = u => lock'[cache[u]] = u
      BY <1>1, <1>2, <1>4, CachesAssumption DEF TypeOK
    <3> QED
      BY <1>3, <2>2, <3>1, <3>2
  <2> QED
    BY <2>1, <2>2
<1>7. ObjectsAreBuilt'
  BY <1>1, <1>3 DEF ObjectsAreBuilt, At
<1>8. OneObject' /\ DatabasesAreConfigured'
  BY <1>1, <1>2, <1>3 DEF OneObject, DatabasesAreConfigured
<1> QED
  BY <1>5, <1>6, <1>7, <1>8 DEF IInv

LEMMA ReadLockedKeeps ==
  ASSUME IInv, NEW t \in Threads, ReadLocked(t)
  PROVE  IInv'
<1>1. TypeOK /\ BuildersAlone /\ ObjectsAreBuilt /\ OneObject /\ DatabasesAreConfigured
  BY DEF IInv
<1>2. pc[t] = "checking" /\ UNCHANGED <<entries, built>> /\ lock[cache[t]] = t
  BY <1>1 DEF ReadLocked, At, BuildersAlone
<1>3. CASE Stored(t) # 0
  BY <1>2, <1>3, ReturnStored DEF ReadLocked
<1>4. CASE Stored(t) = 0
  <2>1. Continue(t, "building") /\ UNCHANGED lock
    BY <1>4 DEF ReadLocked
  <2>2. /\ pc' \in [Threads -> Labels]
        /\ \A u \in Threads : pc'[u] # "idle" => key[u] \in Keys
        /\ \A u \in Threads \ {t} : pc'[u] = pc[u]
        /\ pc'[t] = "building"
        /\ UNCHANGED <<cache, key, object, returned, database>>
    BY <1>1, <1>2, <2>1, ContinueTypes DEF Labels
  <2>3. TypeOK'
    BY <1>1, <1>2, <2>1, <2>2 DEF TypeOK
  <2>4. BuildersAlone' /\ ObjectsAreBuilt'
    BY <1>1, <1>2, <1>4, <2>1, <2>2 DEF BuildersAlone, ObjectsAreBuilt, Stored, At
  <2>5. OneObject' /\ DatabasesAreConfigured'
    BY <1>1, <1>2, <2>2 DEF OneObject, DatabasesAreConfigured
  <2> QED
    BY <2>3, <2>4, <2>5 DEF IInv
<1> QED
  BY <1>3, <1>4

LEMMA BuildKeeps ==
  ASSUME IInv, NEW t \in Threads, Build(t)
  PROVE  IInv'
<1>1. TypeOK /\ BuildersAlone /\ ObjectsAreBuilt /\ OneObject /\ DatabasesAreConfigured
  BY DEF IInv
<1>2. /\ pc[t] = "building" /\ pc' = [pc EXCEPT ![t] = "adding"]
      /\ object' = [object EXCEPT ![t] = built + 1] /\ built' = built + 1
      /\ UNCHANGED <<cache, key, database, lock, entries, returned>>
  BY DEF Build, At, Goto
<1>3. TypeOK'
  BY <1>1, <1>2 DEF TypeOK, Labels
<1>4. BuildersAlone'
  BY <1>1, <1>2 DEF TypeOK, BuildersAlone, Stored
<1>5. ObjectsAreBuilt'
  BY <1>1, <1>2 DEF TypeOK, ObjectsAreBuilt, At
<1>6. OneObject' /\ DatabasesAreConfigured'
  BY <1>1, <1>2 DEF OneObject, DatabasesAreConfigured
<1> QED
  BY <1>3, <1>4, <1>5, <1>6 DEF IInv

LEMMA BuildFailsKeeps ==
  ASSUME IInv, NEW t \in Threads, BuildFails(t)
  PROVE  IInv'
<1>1. pc[t] = "building" /\ lock[cache[t]] = t
  BY DEF IInv, BuildFails, At, BuildersAlone
<1> QED
  BY <1>1, ThrowKeeps DEF BuildFails

(* What Add does: the key is absent, so it stores the object that the      *)
(* thread has built.                                                       *)
LEMMA AddStores ==
  ASSUME IInv, NEW t \in Threads, Add(t)
  PROVE  /\ pc[t] = "adding" /\ lock[cache[t]] = t /\ Stored(t) = 0
         /\ cache[t] \in Caches /\ key[t] \in Keys /\ object[t] \in Nat \ {0}
         /\ entries' = [entries EXCEPT ![cache[t]][key[t]] = object[t]]
         /\ Return(t, object[t]) /\ Release(t) /\ UNCHANGED built
<1>1. pc[t] = "adding" /\ lock[cache[t]] = t /\ Stored(t) = 0
  BY DEF IInv, Add, At, BuildersAlone
<1>2. cache[t] \in Caches /\ key[t] \in Keys /\ object[t] \in Nat \ {0}
  BY <1>1 DEF IInv, TypeOK, ObjectsAreBuilt, At
<1> QED
  BY <1>1, <1>2 DEF Add

LEMMA AddKeeps ==
  ASSUME IInv, NEW t \in Threads, Add(t)
  PROVE  IInv'
<1>1. TypeOK /\ BuildersAlone /\ ObjectsAreBuilt /\ OneObject /\ DatabasesAreConfigured
  BY DEF IInv
<1>2. /\ pc[t] = "adding" /\ lock[cache[t]] = t /\ Stored(t) = 0
      /\ cache[t] \in Caches /\ key[t] \in Keys /\ object[t] \in Nat \ {0}
      /\ entries' = [entries EXCEPT ![cache[t]][key[t]] = object[t]]
      /\ Return(t, object[t]) /\ Release(t) /\ UNCHANGED built
  BY AddStores
<1>3. End(t)
  BY <1>2 DEF Return
<1>4. TypeOK'
  <2>1. returned' \in [Caches -> [Keys -> SUBSET (Nat \ {0})]]
    BY <1>1, <1>2 DEF TypeOK, Return
  <2>2. database' \in [Threads -> Keys \cup {None}]
    BY <1>1, <1>2 DEF TypeOK, Return
  <2>3. lock' \in [Caches -> Threads \cup {NoThread}]
    BY <1>1, <1>2 DEF TypeOK, Release
  <2>4. entries' \in [Caches -> [Keys -> Nat]]
    BY <1>1, <1>2 DEF TypeOK
  <2> QED
    BY <1>1, <1>2, <1>3, <2>1, <2>2, <2>3, <2>4, EndTypes DEF TypeOK
<1>5. BuildersAlone'
  <2> SUFFICES ASSUME NEW u \in Threads, pc'[u] \in {"checking", "building", "adding"}
               PROVE  /\ lock'[cache'[u]] = u
                      /\ pc'[u] \in {"building", "adding"} => entries'[cache'[u]][key'[u]] = 0
    BY DEF BuildersAlone, Stored
  <2>1. u # t /\ pc'[u] = pc[u] /\ cache'[u] = cache[u] /\ key'[u] = key[u]
    BY <1>1, <1>3, EndTypes
  <2>2. lock[cache[u]] = u /\ (pc[u] \in {"building", "adding"} => entries[cache[u]][key[u]] = 0)
    BY <1>1, <2>1 DEF BuildersAlone, Stored
  <2>3. cache[u] # cache[t]
    BY <1>2, <2>1, <2>2
  <2>4. lock'[cache[u]] = lock[cache[u]] /\ entries'[cache[u]] = entries[cache[u]]
    BY <1>1, <1>2, <2>3 DEF TypeOK, Release
  <2> QED
    BY <2>1, <2>2, <2>4
<1>6. ObjectsAreBuilt'
  BY <1>1, <1>3, EndTypes DEF ObjectsAreBuilt, At
<1>7. OneObject'
  <2> SUFFICES ASSUME NEW c \in Caches, NEW k \in Keys, returned'[c][k] # {}
               PROVE  returned'[c][k] = {entries'[c][k]}
    BY DEF OneObject
  <2>1. CASE c = cache[t] /\ k = key[t]
    <3>1. returned[c][k] = {}
      <4>1. returned[c][k] \subseteq Nat \ {0} /\ entries[c][k] = 0
        BY <1>1, <1>2, <2>1 DEF Stored, TypeOK
      <4>2. returned[c][k] # {} => returned[c][k] = {0}
        BY <1>1, <4>1 DEF OneObject
      <4>3. 0 \notin returned[c][k]
        BY <4>1
      <4> QED
        BY <4>2, <4>3
    <3> QED
      BY <1>1, <1>2, <2>1, <3>1 DEF Return, TypeOK
  <2>2. CASE ~(c = cache[t] /\ k = key[t])
    <3>1. returned'[c][k] = returned[c][k] /\ entries'[c][k] = entries[c][k]
      BY <1>1, <1>2, <2>2 DEF Return, TypeOK
    <3> QED
      BY <1>1, <3>1 DEF OneObject
  <2> QED
    BY <2>1, <2>2
<1>8. DatabasesAreConfigured'
  <2>1. \A c \in Caches, k \in Keys : entries[c][k] # 0 => entries'[c][k] # 0
    BY <1>1, <1>2 DEF TypeOK, Stored
  <2>2. entries'[cache[t]][key[t]] # 0
    BY <1>1, <1>2 DEF TypeOK
  <2> QED
    BY <1>1, <1>2, <2>1, <2>2, CachesAssumption DEF DatabasesAreConfigured, Return, TypeOK
<1> QED
  BY <1>4, <1>5, <1>6, <1>7, <1>8 DEF IInv

(* The invariant is inductive.                                             *)
LEMMA NextIInv == IInv /\ [Next]_vars => IInv'
<1> SUFFICES ASSUME IInv, [Next]_vars PROVE IInv'
  OBVIOUS
<1>1. ASSUME NEW t \in Threads, Step(t) PROVE IInv'
  BY <1>1, ReadUnlockedKeeps, EnterLockKeeps, ReadLockedKeeps, BuildKeeps, BuildFailsKeeps, AddKeeps
     DEF Step
<1>2. ASSUME NEW t \in Threads, NEW r \in Requests, Call(t, r[1], r[2]) PROVE IInv'
  BY <1>2, CallKeeps
<1>3. CASE UNCHANGED vars
  BY <1>3 DEF IInv, TypeOK, BuildersAlone, ObjectsAreBuilt, OneObject, DatabasesAreConfigured,
              vars, Stored, At
<1> QED
  BY <1>1, <1>2, <1>3 DEF Next

(* IInv holds in every reachable state.                                    *)
THEOREM Invariance == Spec => []IInv
  BY InitIInv, NextIInv, PTL DEF Spec

(* The variables keep their types.                                         *)
THEOREM TypeCorrect == Spec => []TypeOK
<1>1. IInv => TypeOK
  BY DEF IInv
<1> QED
  BY <1>1, Invariance, PTL

(* Only one thread builds for a dictionary at a time, and never for a key  *)
(* that is there.                                                          *)
THEOREM MutualExclusion == Spec => []BuildersAlone
<1>1. IInv => BuildersAlone
  BY DEF IInv
<1> QED
  BY <1>1, Invariance, PTL

(* All calls for one key return one object.                                *)
THEOREM SameObject == Spec => []OneObject
<1>1. IInv => OneObject
  BY DEF IInv
<1> QED
  BY <1>1, Invariance, PTL

(* The configuration that Custom reads is always there.                    *)
THEOREM ConfigurationsExist == Spec => []DatabasesAreConfigured
<1>1. IInv => DatabasesAreConfigured
  BY DEF IInv
<1> QED
  BY <1>1, Invariance, PTL

-----------------------------------------------------------------------------
(* Counting: every object that was built is stored or about to be.         *)

StoredKeys == {e \in Caches \X Keys : entries[e[1]][e[2]] # 0}
Adding == {t \in Threads : At(t, "adding")}

FiniteInstance == IsFiniteSet(Threads) /\ IsFiniteSet(Caches) /\ IsFiniteSet(Keys)

LEMMA CountsAreFinite ==
  ASSUME FiniteInstance
  PROVE  IsFiniteSet(StoredKeys) /\ IsFiniteSet(Adding)
<1>1. IsFiniteSet(Caches \X Keys)
  BY FS_Product DEF FiniteInstance
<1>2. StoredKeys \subseteq Caches \X Keys /\ Adding \subseteq Threads
  BY DEF StoredKeys, Adding
<1> QED
  BY <1>1, <1>2, FS_Subset DEF FiniteInstance

(* A step that builds nothing and adds nothing changes neither count.      *)
LEMMA OthersKeepCounts ==
  ASSUME IInv, NEW t \in Threads, pc'[t] # "adding", pc[t] # "adding",
         \A u \in Threads \ {t} : pc'[u] = pc[u], UNCHANGED <<entries, built>>
  PROVE  StoredKeys' = StoredKeys /\ Adding' = Adding /\ built' = built
  BY DEF StoredKeys, Adding, At

LEMMA BuildCounts ==
  ASSUME IInv, FiniteInstance, NothingBuiltTwice, NEW t \in Threads, Build(t)
  PROVE  NothingBuiltTwice'
<1>1. t \notin Adding /\ Adding' = Adding \cup {t} /\ StoredKeys' = StoredKeys /\ built' = built + 1
  BY DEF IInv, TypeOK, Build, At, Goto, Adding, StoredKeys
<1>2. PICK now, next : now = Adding /\ next = Adding'
  OBVIOUS
<1>3. Cardinality(next) = Cardinality(now) + 1 /\ Cardinality(now) \in Nat
  BY <1>1, <1>2, CountsAreFinite, FS_AddElement, FS_CardinalityType
<1>4. PICK n : n = Cardinality(StoredKeys) /\ n \in Nat
  BY CountsAreFinite, FS_CardinalityType
<1>5. built = n + Cardinality(now)
  BY <1>2, <1>4 DEF NothingBuiltTwice, StoredKeys, Adding
<1>6. built' = n + Cardinality(next)
  BY <1>1, <1>3, <1>4, <1>5
<1> QED
  BY <1>1, <1>2, <1>4, <1>6 DEF NothingBuiltTwice, StoredKeys, Adding

LEMMA AddCounts ==
  ASSUME IInv, FiniteInstance, NothingBuiltTwice, NEW t \in Threads, Add(t)
  PROVE  NothingBuiltTwice'
<1>1. /\ pc[t] = "adding" /\ Stored(t) = 0
      /\ cache[t] \in Caches /\ key[t] \in Keys /\ object[t] \in Nat \ {0}
      /\ entries' = [entries EXCEPT ![cache[t]][key[t]] = object[t]]
      /\ Return(t, object[t]) /\ UNCHANGED built
  BY AddStores
<1> DEFINE entry == <<cache[t], key[t]>>
<1>2. t \in Adding /\ Adding' = Adding \ {t}
  <2>1. End(t) /\ TypeOK
    BY <1>1 DEF Return, IInv
  <2> QED
    BY <1>1, <2>1, EndTypes DEF Adding, At
<1>3. entry \notin StoredKeys /\ StoredKeys' = StoredKeys \cup {entry}
  BY <1>1 DEF StoredKeys, Stored, IInv, TypeOK
<1>4. PICK now, next : now = Adding /\ next = Adding'
  OBVIOUS
<1>5. PICK n, m : n = StoredKeys /\ m = StoredKeys'
  OBVIOUS
<1>6. Cardinality(next) = Cardinality(now) - 1 /\ Cardinality(now) \in Nat
  BY <1>2, <1>4, CountsAreFinite, FS_RemoveElement, FS_CardinalityType
<1>7. PICK e : e = entry
  OBVIOUS
<1>8. Cardinality(m) = Cardinality(n) + 1 /\ Cardinality(n) \in Nat
  BY <1>3, <1>5, <1>7, CountsAreFinite, FS_AddElement, FS_CardinalityType
<1>9. built = Cardinality(n) + Cardinality(now)
  BY <1>4, <1>5 DEF NothingBuiltTwice, StoredKeys, Adding
<1>10. built' = Cardinality(m) + Cardinality(next)
  BY <1>1, <1>6, <1>8, <1>9
<1> QED
  BY <1>4, <1>5, <1>10 DEF NothingBuiltTwice, StoredKeys, Adding

LEMMA StepCounts ==
  ASSUME IInv, FiniteInstance, NothingBuiltTwice, [Next]_vars
  PROVE  NothingBuiltTwice'
<1> USE DEF StoredKeys, Adding
<1>0. TypeOK
  BY DEF IInv
<1>1. ASSUME NEW t \in Threads, ReadUnlocked(t) PROVE NothingBuiltTwice'
  <2>1. End(t) \/ Continue(t, "waiting")
    BY <1>1 DEF ReadUnlocked, Return, Throw
  <2>2. pc[t] = "reading" /\ pc'[t] # "adding" /\ \A u \in Threads \ {t} : pc'[u] = pc[u]
    BY <1>0, <1>1, <2>1 DEF ReadUnlocked, At, End, Continue, Goto, TypeOK
  <2> QED
    BY <1>1, <2>2, OthersKeepCounts DEF NothingBuiltTwice, ReadUnlocked
<1>2. ASSUME NEW t \in Threads, EnterLock(t) PROVE NothingBuiltTwice'
  <2>1. pc[t] = "waiting" /\ pc'[t] # "adding" /\ \A u \in Threads \ {t} : pc'[u] = pc[u]
    BY <1>0, <1>2 DEF EnterLock, At, Continue, Goto, TypeOK
  <2> QED
    BY <1>2, <2>1, OthersKeepCounts DEF NothingBuiltTwice, EnterLock
<1>3. ASSUME NEW t \in Threads, ReadLocked(t) PROVE NothingBuiltTwice'
  <2>1. End(t) \/ Continue(t, "building")
    BY <1>3 DEF ReadLocked, Return
  <2>2. pc[t] = "checking" /\ pc'[t] # "adding" /\ \A u \in Threads \ {t} : pc'[u] = pc[u]
    BY <1>0, <1>3, <2>1 DEF ReadLocked, At, End, Continue, Goto, TypeOK
  <2> QED
    BY <1>3, <2>2, OthersKeepCounts DEF NothingBuiltTwice, ReadLocked
<1>4. ASSUME NEW t \in Threads, BuildFails(t) PROVE NothingBuiltTwice'
  <2>1. pc[t] = "building" /\ pc'[t] # "adding" /\ \A u \in Threads \ {t} : pc'[u] = pc[u]
    BY <1>0, <1>4 DEF BuildFails, At, Throw, End, Goto, TypeOK
  <2> QED
    BY <1>4, <2>1, OthersKeepCounts DEF NothingBuiltTwice, BuildFails
<1>5. ASSUME NEW t \in Threads, NEW r \in Requests, Call(t, r[1], r[2]) PROVE NothingBuiltTwice'
  <2>1. pc[t] = "idle" /\ pc'[t] # "adding" /\ \A u \in Threads \ {t} : pc'[u] = pc[u]
    BY <1>0, <1>5 DEF Call, At, Goto, TypeOK
  <2> QED
    BY <1>5, <2>1, OthersKeepCounts DEF NothingBuiltTwice, Call
<1>6. CASE UNCHANGED vars
  BY <1>6 DEF vars, NothingBuiltTwice, At
<1> QED
  BY <1>1, <1>2, <1>3, <1>4, <1>5, <1>6, BuildCounts, AddCounts DEF Next, Step

(* With finitely many threads and keys, every object that was ever built   *)
(* is stored or about to be: nothing is built twice.                       *)
THEOREM BuiltOnce == ASSUME FiniteInstance PROVE Spec => []NothingBuiltTwice
<1>1. Init => NothingBuiltTwice
  <2> SUFFICES ASSUME Init PROVE NothingBuiltTwice
    OBVIOUS
  <2>1. StoredKeys = {} /\ Adding = {}
    BY DEF Init, StoredKeys, Adding, At
  <2> QED
    <3>1. Cardinality({}) = 0
      BY FS_EmptySet
    <3>2. Cardinality(StoredKeys) = 0 /\ Cardinality(Adding) = 0 /\ built = 0
      BY <2>1, <3>1 DEF Init
    <3> QED
      BY <3>2 DEF NothingBuiltTwice, StoredKeys, Adding
<1>2. IInv /\ NothingBuiltTwice /\ [Next]_vars => NothingBuiltTwice'
  BY StepCounts
<1> QED
  BY <1>1, <1>2, Invariance, PTL DEF Spec

-----------------------------------------------------------------------------
(* The refinement.                                                         *)

(* Whoever returns what is stored takes an abstract Return step.           *)
LEMMA ReturnIsReturn ==
  ASSUME IInv, NEW t \in Threads, pc[t] # "idle", Stored(t) # 0, Return(t, Stored(t)),
         UNCHANGED entries
  PROVE  Abstract!Next
<1>1. cache[t] \in Caches /\ key[t] \in Keys
  BY DEF IInv, TypeOK
<1>2. Abstract!Return(cache[t], key[t])
  BY DEF Abstract!Return, Return, Stored
<1> QED
  BY <1>1, <1>2 DEF Abstract!Next

(* Add takes a Store step.                                                 *)
LEMMA AddIsStore ==
  ASSUME IInv, NEW t \in Threads, Add(t)
  PROVE  Abstract!Next
<1>1. /\ Stored(t) = 0 /\ cache[t] \in Caches /\ key[t] \in Keys /\ object[t] \in Nat \ {0}
      /\ entries' = [entries EXCEPT ![cache[t]][key[t]] = object[t]]
      /\ Return(t, object[t])
  BY AddStores
<1>2. entries'[cache[t]][key[t]] = object[t]
  BY <1>1 DEF IInv, TypeOK
<1>3. Abstract!Store(cache[t], key[t])
  BY <1>1, <1>2 DEF Abstract!Store, Return, Stored
<1> QED
  BY <1>1, <1>3 DEF Abstract!Next

(* Every step is one of the abstract specification, or changes nothing     *)
(* that it can see.                                                        *)
LEMMA StepRefines ==
  ASSUME IInv, [Next]_vars
  PROVE  [Abstract!Next]_<<entries, returned>>
<1>1. ASSUME NEW t \in Threads, ReadUnlocked(t) PROVE [Abstract!Next]_<<entries, returned>>
  BY <1>1, ReturnIsReturn DEF ReadUnlocked, At, Continue, Throw
<1>2. ASSUME NEW t \in Threads, ReadLocked(t) PROVE [Abstract!Next]_<<entries, returned>>
  BY <1>2, ReturnIsReturn DEF ReadLocked, At, Continue
<1>3. ASSUME NEW t \in Threads, EnterLock(t) \/ Build(t) \/ BuildFails(t)
      PROVE  UNCHANGED <<entries, returned>>
  BY <1>3 DEF EnterLock, Build, BuildFails, Continue, Throw
<1>4. ASSUME NEW t \in Threads, NEW r \in Requests, Call(t, r[1], r[2])
      PROVE  UNCHANGED <<entries, returned>>
  BY <1>4 DEF Call
<1>5. CASE UNCHANGED vars
  BY <1>5 DEF vars
<1> QED
  BY <1>1, <1>2, <1>3, <1>4, <1>5, AddIsStore DEF Next, Step

(* Threads that go through the locks see dictionaries that are written     *)
(* once.                                                                   *)
THEOREM Refinement == Spec => ImplementsWriteOnce
<1>1. Init => Abstract!Init
  BY DEF Init, Abstract!Init
<1>2. IInv /\ [Next]_vars => [Abstract!Next]_<<entries, returned>>
  BY StepRefines
<1> QED
  BY <1>1, <1>2, Invariance, PTL DEF Spec, ImplementsWriteOnce, Abstract!Spec
=============================================================================

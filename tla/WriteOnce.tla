------------------------------ MODULE WriteOnce -------------------------------
(***************************************************************************)
(* What the caches of Venflow promise to threads that share them: the      *)
(* first object that is stored for a key is the only one that anybody is   *)
(* ever given for it.                                                      *)
(***************************************************************************)
EXTENDS Naturals

CONSTANTS
  Caches,  \* the dictionaries
  Keys     \* the keys they are asked for

VARIABLES
  entries,   \* the object stored for each key, 0 if there is none
  returned   \* the objects given out for each key

Init ==
  /\ entries = [c \in Caches |-> [k \in Keys |-> 0]]
  /\ returned = [c \in Caches |-> [k \in Keys |-> {}]]

(* Some object becomes the object of the key; only this entry changes.     *)
Store(c, k) ==
  /\ entries[c][k] = 0 /\ entries'[c][k] # 0
  /\ entries' = [entries EXCEPT ![c][k] = entries'[c][k]]
  /\ returned' = [returned EXCEPT ![c][k] = @ \cup {entries'[c][k]}]

Return(c, k) ==
  /\ entries[c][k] # 0
  /\ returned' = [returned EXCEPT ![c][k] = @ \cup {entries[c][k]}]
  /\ UNCHANGED entries

Next == \E c \in Caches, k \in Keys : Store(c, k) \/ Return(c, k)

Spec == Init /\ [][Next]_<<entries, returned>>
=============================================================================

---------------------------- MODULE NpgsqlSession ----------------------------
(***************************************************************************)
(* The part of Npgsql and PostgreSQL that Venflow's commands depend on:    *)
(* one connection, at most one open transaction on it, and the savepoints  *)
(* inside that transaction.  None of this code is under src/; it is        *)
(* modelled from how src/ uses it.  Every operator is the effect of one    *)
(* call that reached the server, or of losing the connection.              *)
(*                                                                         *)
(* What a command changes is abstracted to effects: statement i of command *)
(* c is the effect <<c, i>>.  All of Venflow's savepoints have the same    *)
(* name, and PostgreSQL stacks savepoints of one name, so a pending effect *)
(* only needs the number of savepoints below it.                           *)
(***************************************************************************)
EXTENDS Naturals

CONSTANTS
  Commands,     \* the commands the caller may run, each at most once
  Statements    \* how many SQL statements an insert sends

ASSUME StatementsAssumption == Statements \in Nat \ {0}

VARIABLES
  connection,   \* "none": no NpgsqlConnection yet, "closed", "open", "disposed"
  serverTx,     \* the transaction object the open transaction belongs to, 0 if none
  aborted,      \* the open transaction only accepts a rollback
  poisoned,     \* a prepended SAVEPOINT will fail on the next round trip
  busy,         \* a reader of the open transaction was left open
  depth,        \* 0 without a transaction, else 1 + the number of savepoints
  level,        \* level[e]: depth at which effect e is pending, 0 if it is not
  durable       \* the effects that are committed

sessionVars == <<connection, serverTx, aborted, poisoned, busy, depth, level, durable>>

Effect == Commands \X (1 .. Statements)

Pending == {e \in Effect : level[e] > 0}

(* A transaction object stands for the open transaction of a live          *)
(* connection.  Npgsql refuses to use it while a reader is open.           *)
Owns(t) == connection = "open" /\ serverTx = t /\ t # 0
Usable(t) == Owns(t) /\ ~busy

NothingPending == level' = [e \in Effect |-> 0]

EndTransaction ==
  /\ serverTx' = 0
  /\ aborted' = FALSE
  /\ poisoned' = FALSE
  /\ busy' = FALSE
  /\ depth' = 0
  /\ NothingPending

SessionInit ==
  /\ connection = "none"
  /\ serverTx = 0
  /\ aborted = FALSE
  /\ poisoned = FALSE
  /\ busy = FALSE
  /\ depth = 0
  /\ level = [e \in Effect |-> 0]
  /\ durable = {}

OpenConnection ==
  /\ connection \in {"none", "closed"}
  /\ connection' = "open"
  /\ UNCHANGED <<serverTx, aborted, poisoned, busy, depth, level, durable>>

(* The server forgets the transaction of a connection that goes away.      *)
CloseConnection(how) ==
  /\ connection' = how
  /\ EndTransaction
  /\ UNCHANGED durable

LoseConnection == connection = "open" /\ CloseConnection("closed")

BeginWork(t) ==
  /\ connection = "open"
  /\ serverTx = 0
  /\ serverTx' = t
  /\ depth' = 1
  /\ UNCHANGED <<connection, aborted, poisoned, busy, level, durable>>

(* COMMIT of an aborted transaction is answered with ROLLBACK.             *)
CommitWork ==
  /\ ~poisoned /\ ~busy
  /\ durable' = IF aborted THEN durable ELSE durable \cup Pending
  /\ EndTransaction
  /\ UNCHANGED connection

(* Disposing a transaction closes the reader that is open first.           *)
RollbackWork ==
  /\ ~poisoned
  /\ EndTransaction
  /\ UNCHANGED <<connection, durable>>

(* Npgsql prepends SAVEPOINT to the next round trip, so the call itself    *)
(* never fails; in an aborted transaction that round trip will.            *)
Savepoint ==
  /\ ~busy
  /\ IF aborted
       THEN poisoned' = TRUE /\ UNCHANGED depth
       ELSE depth' = depth + 1 /\ UNCHANGED poisoned
  /\ UNCHANGED <<connection, serverTx, aborted, busy, level, durable>>

(* ROLLBACK TO SAVEPOINT undoes what is above the newest savepoint of that *)
(* name, ends the aborted state and keeps the savepoint.                   *)
RollbackToSavepoint ==
  /\ ~poisoned /\ ~busy /\ depth > 1
  /\ level' = [e \in Effect |-> IF level[e] = depth THEN 0 ELSE level[e]]
  /\ aborted' = FALSE
  /\ UNCHANGED <<connection, serverTx, poisoned, busy, depth, durable>>

ReleaseSavepoint ==
  /\ ~poisoned /\ ~aborted /\ ~busy /\ depth > 1
  /\ depth' = depth - 1
  /\ level' = [e \in Effect |-> IF level[e] = depth THEN depth - 1 ELSE level[e]]
  /\ UNCHANGED <<connection, serverTx, aborted, poisoned, busy, durable>>

(* A statement inside the open transaction.                                *)
ExecuteInTransaction(e) ==
  /\ ~poisoned /\ ~aborted /\ ~busy
  /\ level' = [level EXCEPT ![e] = depth]
  /\ UNCHANGED <<connection, serverTx, aborted, poisoned, busy, depth, durable>>

(* A statement outside any transaction is a transaction of its own.        *)
ExecuteAlone(e) ==
  /\ ~busy
  /\ durable' = durable \cup {e}
  /\ UNCHANGED <<connection, serverTx, aborted, poisoned, busy, depth, level>>

(* The answer to a COMMIT, or to a statement that is a transaction of its  *)
(* own, is lost with the connection; the server had carried it out.        *)
LoseCommitAnswer ==
  /\ ~poisoned /\ ~aborted /\ ~busy
  /\ durable' = durable \cup Pending
  /\ connection' = "closed"
  /\ EndTransaction

LoseStatementAnswer(e) ==
  /\ durable' = durable \cup {e}
  /\ connection' = "closed"
  /\ UNCHANGED <<serverTx, aborted, poisoned, busy, depth, level>>

(* The server answers a statement of the open transaction with an error.   *)
RejectStatement ==
  /\ ~poisoned /\ ~busy
  /\ aborted' = TRUE
  /\ UNCHANGED <<connection, serverTx, poisoned, busy, depth, level, durable>>

(* A reader that is dropped without being disposed keeps the connection    *)
(* busy.  The statement had taken effect, or was rejected while its results*)
(* were read.                                                              *)
LeaveReaderOpen(e) ==
  /\ ~poisoned /\ ~aborted /\ ~busy
  /\ busy' = TRUE
  /\ level' = [level EXCEPT ![e] = depth]
  /\ UNCHANGED <<connection, serverTx, aborted, poisoned, depth, durable>>

RejectWhileReading ==
  /\ ~poisoned /\ ~aborted /\ ~busy
  /\ busy' = TRUE
  /\ aborted' = TRUE
  /\ UNCHANGED <<connection, serverTx, poisoned, depth, level, durable>>

SessionTypeOK ==
  /\ connection \in {"none", "closed", "open", "disposed"}
  /\ serverTx \in Nat
  /\ aborted \in BOOLEAN
  /\ poisoned \in BOOLEAN
  /\ busy \in BOOLEAN
  /\ depth \in Nat
  /\ level \in [Effect -> Nat]
  /\ durable \subseteq Effect

=============================================================================

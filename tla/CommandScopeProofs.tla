-------------------------- MODULE CommandScopeProofs --------------------------
(***************************************************************************)
(* Proofs about CommandScope, for every set of commands, number of         *)
(* statements, set of faults and bound.  First the transaction: type       *)
(* correctness, that the Database's view of it matches the server's, that  *)
(* no command leaks its own and none ends the caller's.  Then the data: an *)
(* insert is durable as a whole or not at all, a failure leaves nothing    *)
(* behind, a success means that everything is there, and no command takes  *)
(* away the work of an earlier one.  Last, that the commands implement     *)
(* AtomicCommands.                                                         *)
(***************************************************************************)
EXTENDS CommandScope, TLAPS

(* What a step may do on the connection, short of beginning a transaction. *)
SessionStep ==
  \/ UNCHANGED sessionVars
  \/ OpenConnection
  \/ CloseConnection("closed") \/ CloseConnection("disposed")
  \/ CommitWork \/ RollbackWork \/ LoseCommitAnswer
  \/ Savepoint \/ RollbackToSavepoint \/ ReleaseSavepoint
  \/ RejectStatement
  \/ ExecuteInTransaction(<<cmd, sent + 1>>) \/ ExecuteInTransaction(<<cmd, 1>>)
  \/ LeaveReaderOpen(<<cmd, sent + 1>>) \/ RejectWhileReading
  \/ ExecuteAlone(<<cmd, 1>>)
  \/ serverTx = 0 /\ LoseStatementAnswer(<<cmd, 1>>)

(* A transaction needs a live connection.                                  *)
Connected == serverTx # 0 => connection = "open"

(* Transaction objects are numbered as they are created.                   *)
Numbered ==
  /\ isDisposed \subseteq 1 .. created
  /\ userTx \subseteq 1 .. created
  /\ activeTransaction \in 0 .. created

(* Where no transaction of a command's own can be open, and where the      *)
(* command's transaction is settled.                                       *)
Outside == {"idle", "validate", "begin", "direct", "return"}
Inside == {"save", "execute", "commit", "log", "rollback", "logError", "finally"}

(* Whose transaction is active: the caller's, except while a command runs  *)
(* in its own, which the caller does not know.                             *)
Ownership ==
  /\ pc \in Outside => (HasActiveTransaction => activeTransaction \in userTx)
  /\ pc \in Inside => HasActiveTransaction /\ (auto <=> activeTransaction \notin userTx)
  /\ pc = "save" => ~auto
  /\ pc = "commit" => auto

IInv == TypeOK /\ Connected /\ Numbered /\ ServerTransactionIsActive /\ Ownership

-----------------------------------------------------------------------------
(* Facts about the operators the steps are built from.                     *)

(* The labels and results that the steps assign.                           *)
LEMMA Labels ==
  /\ {"idle", "validate", "begin", "save", "execute", "commit", "log"} \subseteq PcLabels
  /\ {"rollback", "logError", "finally", "direct", "return"} \subseteq PcLabels
  /\ {"ok", "threw", "swallowed"} \subseteq Results
  /\ {"none", "answerLost", "clientThrew"} \subseteq Excuses
  /\ {"loggerThrew", "readerOpen", "cleanupCancelled"} \subseteq Excuses
BY DEF PcLabels, Results, Excuses

(* Where a statement leads, for the two kinds of transaction.              *)
LEMMA AfterStatementLabels ==
  ASSUME NEW n
  PROVE  /\ AfterStatement(n) \in {"execute", "commit", "finally", "log"}
         /\ AfterStatement(n) = "commit" => auto
BY DEF AfterStatement, AfterWork

LEMMA Successor == \A n \in Nat : n + 1 \in Nat
OBVIOUS

LEMMA LoggedFailureResult == LoggedFailure \in Results
BY DEF LoggedFailure, Results

(* Every session operation keeps the session's types.                      *)
LEMMA SessionTypes ==
  ASSUME SessionTypeOK, cmd \in Commands, SessionStep
  PROVE  SessionTypeOK'
<1> USE DEF SessionTypeOK, EndTransaction, NothingPending
<1>1. CASE UNCHANGED sessionVars
  BY <1>1 DEF sessionVars
<1>2. CASE OpenConnection
  BY <1>2 DEF OpenConnection
<1>3. ASSUME NEW how \in {"closed", "disposed"}, CloseConnection(how) PROVE SessionTypeOK'
  BY <1>3 DEF CloseConnection
<1>4. CASE CommitWork
  BY <1>4 DEF CommitWork, Pending
<1>5. CASE RollbackWork
  BY <1>5 DEF RollbackWork
<1>6. CASE LoseCommitAnswer
  BY <1>6 DEF LoseCommitAnswer, Pending
<1>7. CASE Savepoint
  <2>1. CASE aborted
    BY <1>7, <2>1 DEF Savepoint
  <2>2. CASE ~aborted
    BY <1>7, <2>2 DEF Savepoint
  <2> QED
    BY <2>1, <2>2
<1>8. CASE RollbackToSavepoint
  BY <1>8 DEF RollbackToSavepoint
<1>9. CASE ReleaseSavepoint
  BY <1>9 DEF ReleaseSavepoint
<1>10. CASE RejectStatement
  BY <1>10 DEF RejectStatement
<1>11. ASSUME NEW e, ExecuteInTransaction(e) PROVE SessionTypeOK'
  BY <1>11 DEF ExecuteInTransaction
<1>15. ASSUME NEW e, LeaveReaderOpen(e) PROVE SessionTypeOK'
  BY <1>15 DEF LeaveReaderOpen
<1>16. CASE RejectWhileReading
  BY <1>16 DEF RejectWhileReading
<1>12. <<cmd, 1>> \in Effect
  BY StatementsAssumption DEF Effect
<1>13. CASE ExecuteAlone(<<cmd, 1>>)
  BY <1>12, <1>13 DEF ExecuteAlone
<1>14. CASE LoseStatementAnswer(<<cmd, 1>>)
  BY <1>12, <1>14 DEF LoseStatementAnswer
<1> QED
  BY <1>1, <1>2, <1>3, <1>4, <1>5, <1>6, <1>7, <1>8, <1>9, <1>10, <1>11, <1>13, <1>14,
     <1>15, <1>16
     DEF SessionStep

(* No session operation starts or swaps the transaction.                   *)
LEMMA SessionTransaction ==
  ASSUME Connected, SessionStep
  PROVE  Connected' /\ serverTx' \in {0, serverTx}
BY DEF Connected, SessionStep, sessionVars, OpenConnection, CloseConnection, CommitWork,
       RollbackWork, LoseCommitAnswer, Savepoint, RollbackToSavepoint, ReleaseSavepoint,
       RejectStatement, ExecuteInTransaction, ExecuteAlone, LoseStatementAnswer,
       LeaveReaderOpen, RejectWhileReading, EndTransaction

(* Every step is a session operation, or begins the next transaction.      *)
LEMMA StepSession ==
  ASSUME [Next]_vars
  PROVE  SessionStep \/ CreateTransaction
<1> USE DEF ConnectionLost, LoseConnection, Interrupted, SessionStep
<1>1. CASE RunCommand
  <2>1. CASE ValidateConnection
    BY <2>1 DEF ValidateConnection
  <2>2. CASE GetTransaction
    BY <2>2 DEF GetTransaction
  <2>3. CASE SaveSavepoint
    BY <2>3 DEF SaveSavepoint
  <2>4. CASE ExecuteStatement
    BY <2>4 DEF ExecuteStatement, FailWhileReading
  <2>5. CASE CommitTransaction
    BY <2>5 DEF CommitTransaction
  <2>6. CASE LogSuccess \/ LogException \/ ReturnToCaller
    BY <2>6 DEF LogSuccess, LogException, ReturnToCaller
  <2>7. CASE RollbackCommand
    BY <2>7 DEF RollbackCommand, UndoCommand
  <2>8. CASE DisposeOwnTransaction
    BY <2>8 DEF DisposeOwnTransaction, DisposeTransaction
  <2>9. CASE ReleaseCommand
    BY <2>9 DEF ReleaseCommand, ReleaseFails
  <2>10. CASE RunDirect
    BY <2>10 DEF RunDirect, DirectSucceeds, DirectThrowsLate, DirectEffect, DirectFails
  <2> QED
    BY <1>1, <2>1, <2>2, <2>3, <2>4, <2>5, <2>6, <2>7, <2>8, <2>9, <2>10 DEF RunCommand
<1>2. CASE CancelToken
  BY <1>2 DEF CancelToken
<1>3. CASE Caller
  <2>1. ASSUME NEW c \in Commands, StartCommand(c) PROVE SessionStep
    BY <2>1 DEF StartCommand
  <2>2. CASE BeginTransaction
    BY <2>2 DEF BeginTransaction
  <2>3. ASSUME NEW t \in userTx, CommitByCaller(t) PROVE SessionStep
    BY <2>3 DEF CommitByCaller
  <2>4. ASSUME NEW t \in userTx, RollbackByCaller(t) PROVE SessionStep
    BY <2>4 DEF RollbackByCaller
  <2>5. ASSUME NEW t \in userTx, DisposeByCaller(t) PROVE SessionStep
    BY <2>5 DEF DisposeByCaller, DisposeTransaction
  <2>6. CASE DisposeDatabase
    BY <2>6 DEF DisposeDatabase
  <2>7. CASE DisposeDatabaseAsync
    BY <2>7 DEF DisposeDatabaseAsync
  <2> QED
    BY <1>3, <2>1, <2>2, <2>3, <2>4, <2>5, <2>6, <2>7 DEF Caller
<1>4. CASE UNCHANGED vars
  BY <1>4 DEF vars
<1> QED
  BY <1>1, <1>2, <1>3, <1>4 DEF Next

(* A step that leaves the Database's fields alone keeps its view right.    *)
LEMMA DatabaseKept ==
  ASSUME Connected, Numbered, ServerTransactionIsActive, SessionStep, UNCHANGED databaseVars
  PROVE  /\ Connected' /\ Numbered' /\ ServerTransactionIsActive'
         /\ HasActiveTransaction' <=> HasActiveTransaction
         /\ UNCHANGED <<activeTransaction, userTx>>
BY SessionTransaction
   DEF Numbered, ServerTransactionIsActive, HasActiveTransaction, databaseVars

(* Beginning a transaction.                                                *)
LEMMA TransactionCreated ==
  ASSUME TypeOK, Connected, Numbered, ServerTransactionIsActive, CreateTransaction
  PROVE  /\ SessionTypeOK' /\ Connected' /\ ServerTransactionIsActive'
         /\ HasActiveTransaction'
         /\ activeTransaction' = created + 1 /\ created' = created + 1
         /\ isDisposed' \subseteq 1 .. created'
         /\ activeTransaction' \notin userTx
         /\ userTx \subseteq 1 .. created'
<1> USE DEF CreateTransaction, BeginWork
<1>1. SessionTypeOK'
  BY DEF TypeOK, SessionTypeOK, DatabaseTypeOK
<1>2. created \in Nat
  BY DEF TypeOK, DatabaseTypeOK
<1> QED
  BY <1>1, <1>2 DEF Connected, Numbered, ServerTransactionIsActive, HasActiveTransaction

(* Disposing a transaction object ends its transaction, if it has one.     *)
LEMMA TransactionDisposed ==
  ASSUME TypeOK, Connected, Numbered, ServerTransactionIsActive,
         NEW t \in 1 .. created, DisposeTransaction(t),
         UNCHANGED <<activeTransaction, created, userTx>>
  PROVE  /\ Connected' /\ Numbered' /\ ServerTransactionIsActive'
         /\ HasActiveTransaction' => HasActiveTransaction
         /\ t = activeTransaction => ~HasActiveTransaction'
<1>1. SessionStep /\ isDisposed' = isDisposed \cup {t}
  BY DEF DisposeTransaction, SessionStep, ConnectionLost, LoseConnection
<1>2. serverTx = t => serverTx' = 0
  BY DEF DisposeTransaction, Owns, Connected, RollbackWork, ConnectionLost, LoseConnection,
         CloseConnection, EndTransaction
<1>3. Connected' /\ serverTx' \in {0, serverTx}
  BY <1>1, SessionTransaction
<1> QED
  BY <1>1, <1>2, <1>3 DEF Numbered, ServerTransactionIsActive, HasActiveTransaction

-----------------------------------------------------------------------------
(* The invariant.                                                          *)

LEMMA InitIInv == Init => IInv
<1> SUFFICES ASSUME Init PROVE IInv
  OBVIOUS
<1>1. SessionTypeOK
  BY DEF Init, SessionInit, SessionTypeOK
<1>2. DatabaseTypeOK /\ CommandTypeOK
  BY DEF Init, DatabaseTypeOK, CommandTypeOK, PcLabels, Results, Excuses
<1>3. Connected /\ Numbered /\ ServerTransactionIsActive
  BY DEF Init, SessionInit, Connected, Numbered, ServerTransactionIsActive
<1>4. Ownership
  BY DEF Init, Ownership, HasActiveTransaction, Outside, Inside
<1> QED
  BY <1>1, <1>2, <1>3, <1>4 DEF IInv, TypeOK

(* Each step of a running command and of the caller keeps the types.       *)
LEMMA TypeStep ==
  ASSUME IInv, [Next]_vars
  PROVE  TypeOK'
<1>1. /\ TypeOK /\ Connected /\ Numbered /\ ServerTransactionIsActive
      /\ SessionTypeOK /\ DatabaseTypeOK /\ CommandTypeOK
  BY DEF IInv, TypeOK
<1>created. CreateTransaction =>
      /\ created + 1 \in Nat
      /\ created' = created + 1 /\ activeTransaction' = created + 1
      /\ UNCHANGED <<isDisposed, disposeReport>>
  BY <1>1 DEF DatabaseTypeOK, CreateTransaction
<1>2. SessionTypeOK'
  BY <1>1, StepSession, SessionTypes, TransactionCreated DEF CommandTypeOK
<1> USE <1>1, Labels DEF DatabaseTypeOK, CommandTypeOK, At, Goto, databaseVars, historyVars
<1>3. DatabaseTypeOK' /\ CommandTypeOK'
  <2>1. CASE RunCommand
    <3>1. CASE ValidateConnection
      BY <3>1 DEF ValidateConnection, Throw
    <3>2. CASE GetTransaction
      <4>1. UNCHANGED databaseVars \/ (CreateTransaction /\ userTx' = userTx)
        BY <3>2 DEF GetTransaction
      <4>2. DatabaseTypeOK'
        BY <4>1, <1>created
      <4>3. CommandTypeOK'
        BY <3>2 DEF GetTransaction, HasActiveTransaction, Throw
      <4> QED
        BY <4>2, <4>3
    <3>3. CASE SaveSavepoint
      BY <3>3 DEF SaveSavepoint, Caught
    <3>4. CASE ExecuteStatement
      <4>1. pc' \in PcLabels
        BY <3>4, AfterStatementLabels DEF ExecuteStatement
      <4>2. sent' = sent + 1 \/ sent' = sent
        BY <3>4, Zenon DEF ExecuteStatement
      <4>3. UNCHANGED <<databaseVars, cmd, auto, cancelled, result, outcome>>
        BY <3>4 DEF ExecuteStatement
      <4>7. excuse' \in [Commands -> Excuses]
        BY <3>4 DEF ExecuteStatement, FailWhileReading, Excuse
      <4>4. sent' \in Nat
        BY <4>2, Successor, Zenon
      <4>5. DatabaseTypeOK'
        BY <4>3
      <4>6. CommandTypeOK'
        BY <4>1, <4>3, <4>4, <4>7
      <4> QED
        BY <4>5, <4>6
    <3>5. CASE CommitTransaction
      BY <3>5 DEF CommitTransaction, AfterWork, Excuse
    <3>6. CASE LogSuccess
      BY <3>6 DEF LogSuccess, Excuse
    <3>7. CASE RollbackCommand
      BY <3>7 DEF RollbackCommand, Excuse
    <3>8. CASE LogException
      BY <3>8, LoggedFailureResult DEF LogException
    <3>9. CASE DisposeOwnTransaction
      BY <3>9 DEF DisposeOwnTransaction, DisposeTransaction
    <3>10. CASE ReleaseCommand
      BY <3>10 DEF ReleaseCommand, ReleaseFails, Throw, Excuse
    <3>11. CASE RunDirect
      <4>1. sent' = sent + 1 /\ (DirectSucceeds \/ DirectThrowsLate \/ DirectFails)
        BY <3>11 DEF RunDirect
      <4>2. result' \in Results
        BY <4>1, LoggedFailureResult DEF DirectSucceeds, DirectThrowsLate, DirectFails, DirectFailed
      <4>3. excuse' \in [Commands -> Excuses]
        BY <4>1 DEF DirectSucceeds, DirectThrowsLate, DirectFails, Excuse
      <4>4. pc' = "return" /\ UNCHANGED <<databaseVars, cmd, auto, cancelled, outcome>>
        BY <3>11 DEF RunDirect
      <4>5. sent' \in Nat
        BY <4>1, Successor, Zenon
      <4>6. DatabaseTypeOK'
        BY <4>4
      <4>7. CommandTypeOK'
        BY <4>2, <4>3, <4>4, <4>5
      <4> QED
        BY <4>6, <4>7
    <3>12. CASE ReturnToCaller
      BY <3>12 DEF ReturnToCaller
    <3> QED
      BY <2>1, <3>1, <3>2, <3>3, <3>4, <3>5, <3>6, <3>7, <3>8, <3>9, <3>10, <3>11, <3>12
         DEF RunCommand
  <2>2. CASE CancelToken
    BY <2>2 DEF CancelToken
  <2>3. CASE Caller
    <3> USE DEF commandVars
    <3>1. ASSUME NEW c \in Commands, StartCommand(c) PROVE DatabaseTypeOK' /\ CommandTypeOK'
      BY <3>1 DEF StartCommand
    <3>2. CASE BeginTransaction
      <4>1. \/ UNCHANGED databaseVars
            \/ UNCHANGED <<activeTransaction, isDisposed, created, disposeReport>>
               /\ userTx' = userTx \cup {activeTransaction}
            \/ CreateTransaction /\ userTx' = userTx \cup {created + 1}
        BY <3>2 DEF BeginTransaction
      <4>2. DatabaseTypeOK'
        BY <4>1, <1>created
      <4> QED
        BY <3>2, <4>2 DEF BeginTransaction
    <3>3. ASSUME NEW t \in userTx, CommitByCaller(t) \/ RollbackByCaller(t)
          PROVE  DatabaseTypeOK' /\ CommandTypeOK'
      BY <3>3 DEF CommitByCaller, RollbackByCaller
    <3>4. ASSUME NEW t \in userTx, DisposeByCaller(t)
          PROVE  DatabaseTypeOK' /\ CommandTypeOK'
      BY <3>4 DEF DisposeByCaller, DisposeTransaction
    <3>5. CASE DisposeDatabase \/ DisposeDatabaseAsync
      BY <3>5 DEF DisposeDatabase, DisposeDatabaseAsync
    <3> QED
      BY <2>3, <3>1, <3>2, <3>3, <3>4, <3>5 DEF Caller
  <2>4. CASE UNCHANGED vars
    BY <2>4 DEF vars
  <2> QED
    BY <2>1, <2>2, <2>3, <2>4 DEF Next
<1> QED
  BY <1>2, <1>3 DEF TypeOK

(* A step of a command that leaves the Database's fields alone keeps the   *)
(* rest of the invariant when it keeps its owner of the transaction.       *)
LEMMA OwnershipKept ==
  ASSUME Connected, Numbered, ServerTransactionIsActive, Ownership, SessionStep,
         UNCHANGED databaseVars,
         \/ pc \in Inside /\ pc' \in Inside \ {"save", "commit"} /\ auto' = auto
         \/ pc = "execute" /\ pc' \in Inside \ {"save"} /\ (pc' = "commit" => auto)
            /\ auto' = auto
         \/ pc \in Outside /\ pc' \in Outside
         \/ UNCHANGED <<pc, auto>>
  PROVE  (Connected /\ Numbered /\ ServerTransactionIsActive /\ Ownership)'
<1>1. /\ Connected' /\ Numbered' /\ ServerTransactionIsActive'
      /\ HasActiveTransaction' <=> HasActiveTransaction
      /\ UNCHANGED <<activeTransaction, userTx>>
  BY DatabaseKept
<1> QED
  BY <1>1 DEF Ownership, Outside, Inside

(* Each step keeps the rest of the invariant.                              *)
LEMMA OwnershipStep ==
  ASSUME IInv, [Next]_vars
  PROVE  (Connected /\ Numbered /\ ServerTransactionIsActive /\ Ownership)'
<1> DEFINE Rest == Connected /\ Numbered /\ ServerTransactionIsActive /\ Ownership
<1>1. /\ TypeOK /\ Connected /\ Numbered /\ ServerTransactionIsActive /\ Ownership
  BY DEF IInv
<1>2. SessionStep \/ CreateTransaction
  BY StepSession
<1>3. UNCHANGED databaseVars => created' = created
  BY DEF databaseVars
<1>4. created \in Nat /\ created' = created + 1 => created' # created
  OBVIOUS
<1>5. UNCHANGED databaseVars => SessionStep
  BY <1>1, <1>2, <1>3 DEF CreateTransaction, TypeOK, DatabaseTypeOK
<1>6. CASE RunCommand
  <2> USE DEF At, Goto
  <2>1. CASE ValidateConnection
    BY <1>1, <1>5, <2>1, OwnershipKept DEF ValidateConnection, Throw, Outside
  <2>2. CASE GetTransaction
    <3>1. CASE HasActiveTransaction
      <4>1. /\ UNCHANGED databaseVars /\ pc' = "save" /\ auto' = FALSE
            /\ activeTransaction \in userTx
        BY <1>1, <2>2, <3>1 DEF GetTransaction, Ownership, Outside
      <4>2. /\ Connected' /\ Numbered' /\ ServerTransactionIsActive' /\ HasActiveTransaction'
            /\ UNCHANGED <<activeTransaction, userTx>>
        BY <1>1, <1>5, <3>1, <4>1, DatabaseKept
      <4> QED
        BY <4>1, <4>2 DEF Ownership, Outside, Inside
    <3>2. CASE ~HasActiveTransaction /\ CreateTransaction
      <4>1. /\ pc' = "execute" /\ auto' = TRUE /\ userTx' = userTx
        BY <2>2, <3>2, <1>4, <1>1, <1>3 DEF GetTransaction, TypeOK, DatabaseTypeOK, CreateTransaction
      <4>2. /\ Connected' /\ ServerTransactionIsActive' /\ HasActiveTransaction'
            /\ activeTransaction' = created' /\ created' \in Nat
            /\ isDisposed' \subseteq 1 .. created'
            /\ activeTransaction' \notin userTx
            /\ userTx \subseteq 1 .. created'
        BY <1>1, <3>2, TransactionCreated DEF TypeOK, DatabaseTypeOK
      <4> QED
        BY <4>1, <4>2 DEF Numbered, Ownership, Outside, Inside
    <3>3. CASE ~HasActiveTransaction /\ UNCHANGED databaseVars
      <4>1. pc = "begin" /\ pc' = "return"
        BY <1>1, <1>3, <2>2, <3>3 DEF GetTransaction, Throw, CreateTransaction, TypeOK,
           DatabaseTypeOK
      <4> QED
        BY <1>1, <1>5, <3>3, <4>1, OwnershipKept DEF Outside
    <3> QED
      BY <2>2, <3>1, <3>2, <3>3 DEF GetTransaction
  <2>3. CASE SaveSavepoint
    BY <1>1, <1>5, <2>3, OwnershipKept DEF SaveSavepoint, Caught, Inside
  <2>4. CASE ExecuteStatement
    BY <1>1, <1>5, <2>4, OwnershipKept, AfterStatementLabels DEF ExecuteStatement, Inside
  <2>5. CASE CommitTransaction
    BY <1>1, <1>5, <2>5, OwnershipKept DEF CommitTransaction, AfterWork, Inside
  <2>6. CASE LogSuccess \/ RollbackCommand \/ LogException
    BY <1>1, <1>5, <2>6, OwnershipKept DEF LogSuccess, RollbackCommand, LogException, Inside
  <2>7. CASE DisposeOwnTransaction
    <3>1. /\ pc = "finally" /\ pc' = "return" /\ auto /\ UNCHANGED <<activeTransaction, created, userTx>>
          /\ DisposeTransaction(activeTransaction)
      BY <2>7 DEF DisposeOwnTransaction
    <3>2. activeTransaction \in 1 .. created
      BY <1>1, <3>1 DEF Ownership, Inside, HasActiveTransaction, Numbered, TypeOK, DatabaseTypeOK
    <3>3. /\ Connected' /\ Numbered' /\ ServerTransactionIsActive' /\ ~HasActiveTransaction'
      BY <1>1, <3>1, <3>2, TransactionDisposed
    <3> QED
      BY <3>1, <3>3 DEF Ownership, Outside, Inside
  <2>8. CASE ReleaseCommand
    <3>1. /\ pc = "finally" /\ pc' = "return" /\ ~auto /\ UNCHANGED databaseVars
      BY <2>8 DEF ReleaseCommand, Throw
    <3>2. /\ Connected' /\ Numbered' /\ ServerTransactionIsActive'
          /\ UNCHANGED <<activeTransaction, userTx>>
      BY <1>1, <1>5, <3>1, DatabaseKept
    <3> QED
      BY <1>1, <3>1, <3>2 DEF Ownership, Outside, Inside
  <2>9. CASE RunDirect \/ ReturnToCaller
    BY <1>1, <1>5, <2>9, OwnershipKept DEF RunDirect, ReturnToCaller, Outside
  <2> QED
    BY <1>6, <2>1, <2>2, <2>3, <2>4, <2>5, <2>6, <2>7, <2>8, <2>9 DEF RunCommand
<1>7. CASE CancelToken
  BY <1>1, <1>5, <1>7, OwnershipKept DEF CancelToken
<1>8. CASE Caller
  <2> USE DEF At, Goto, commandVars
  <2>1. ASSUME NEW c \in Commands, StartCommand(c) PROVE Rest'
    BY <1>1, <1>5, <2>1, OwnershipKept DEF StartCommand, Outside
  <2>2. CASE BeginTransaction
    <3>1. pc = "idle" /\ pc' = "idle"
      BY <2>2 DEF BeginTransaction
    <3>2. CASE UNCHANGED databaseVars
      BY <1>1, <1>5, <3>1, <3>2, OwnershipKept DEF Outside
    <3>3. CASE CreateTransaction /\ userTx' = userTx \cup {created + 1}
      BY <1>1, <3>1, <3>3, TransactionCreated DEF Numbered, Ownership, Outside, Inside, TypeOK,
         DatabaseTypeOK
    <3>4. CASE /\ HasActiveTransaction /\ SessionStep
               /\ UNCHANGED <<activeTransaction, isDisposed, created, disposeReport>>
               /\ userTx' = userTx \cup {activeTransaction}
      <4>1. Connected' /\ serverTx' \in {0, serverTx}
        BY <1>1, <3>4, SessionTransaction
      <4> QED
        BY <1>1, <3>1, <3>4, <4>1 DEF Numbered, ServerTransactionIsActive, Ownership,
           HasActiveTransaction, Outside, Inside, TypeOK, DatabaseTypeOK
    <3> QED
      BY <2>2, <3>2, <3>3, <3>4 DEF BeginTransaction, SessionStep
  <2>3. ASSUME NEW t \in userTx, CommitByCaller(t) \/ RollbackByCaller(t) PROVE Rest'
    BY <1>1, <1>5, <2>3, OwnershipKept DEF CommitByCaller, RollbackByCaller
  <2>4. ASSUME NEW t \in userTx, DisposeByCaller(t) PROVE Rest'
    <3>1. /\ t \in 1 .. created /\ UNCHANGED <<activeTransaction, created, userTx, pc>>
          /\ pc = "idle" /\ DisposeTransaction(t)
      BY <1>1, <2>4 DEF DisposeByCaller, Numbered
    <3>2. /\ Connected' /\ Numbered' /\ ServerTransactionIsActive'
          /\ HasActiveTransaction' => HasActiveTransaction
      BY <1>1, <3>1, TransactionDisposed
    <3> QED
      BY <1>1, <3>1, <3>2 DEF Ownership, Outside, Inside
  <2>5. CASE DisposeDatabase \/ DisposeDatabaseAsync
    <3>1. /\ UNCHANGED <<activeTransaction, isDisposed, created, userTx, pc, auto>>
      BY <2>5 DEF DisposeDatabase, DisposeDatabaseAsync
    <3>2. ~CreateTransaction
      BY <1>1, <1>4, <3>1 DEF CreateTransaction, TypeOK, DatabaseTypeOK
    <3>3. Connected' /\ serverTx' \in {0, serverTx}
      BY <1>1, <1>2, <3>2, SessionTransaction
    <3> QED
      BY <1>1, <3>1, <3>3 DEF Numbered, ServerTransactionIsActive, Ownership, HasActiveTransaction
  <2> QED
    BY <1>8, <2>1, <2>2, <2>3, <2>4, <2>5 DEF Caller
<1>9. CASE UNCHANGED vars
  BY <1>1, <1>5, <1>9, OwnershipKept DEF vars
<1> QED
  BY <1>6, <1>7, <1>8, <1>9 DEF Next

(* One step of OuterTransactionSurvives: only a command that is in its own *)
(* transaction commits or rolls back, and then the server's transaction is *)
(* not the caller's.                                                       *)
LEMMA OuterStep ==
  ASSUME IInv, [Next]_vars, pc # "idle", serverTx \in userTx
  PROVE  serverTx' = serverTx \/ connection' = "closed"
<1> DEFINE Survives == serverTx' = serverTx \/ connection' = "closed"
<1>1. /\ serverTx # 0
      /\ serverTx = activeTransaction
      /\ HasActiveTransaction
      /\ pc \in Inside => ~auto
  BY DEF IInv, TypeOK, DatabaseTypeOK, Numbered, ServerTransactionIsActive, Ownership
<1>2. ConnectionLost => Survives
  BY DEF ConnectionLost, LoseConnection, CloseConnection
<1>3. UNCHANGED sessionVars => Survives
  BY DEF sessionVars
<1>4. RejectStatement => Survives
  BY DEF RejectStatement
<1>5. CASE RunCommand
  <2> USE DEF At
  <2>1. CASE ValidateConnection
    BY <1>3, <2>1 DEF ValidateConnection, OpenConnection
  <2>2. CASE GetTransaction
    BY <1>1, <1>3, <2>2 DEF GetTransaction
  <2>3. CASE SaveSavepoint
    BY <1>3, <2>3 DEF SaveSavepoint, Savepoint
  <2>4. CASE ExecuteStatement
    BY <1>2, <1>3, <1>4, <2>4 DEF ExecuteStatement, ExecuteInTransaction, Interrupted,
       FailWhileReading, LeaveReaderOpen, RejectWhileReading
  <2>5. CASE CommitTransaction
    BY <1>1, <2>5 DEF CommitTransaction, Inside, IInv, Ownership
  <2>6. CASE LogSuccess \/ LogException \/ ReturnToCaller
    BY <1>3, <2>6 DEF LogSuccess, LogException, ReturnToCaller
  <2>7. CASE RollbackCommand
    BY <1>1, <1>2, <1>3, <2>7 DEF RollbackCommand, UndoCommand, RollbackToSavepoint, Inside
  <2>8. CASE DisposeOwnTransaction
    BY <1>1, <2>8 DEF DisposeOwnTransaction, Inside
  <2>9. CASE ReleaseCommand
    BY <1>2, <1>3, <2>9 DEF ReleaseCommand, ReleaseFails, ReleaseSavepoint
  <2>10. CASE RunDirect
    BY <1>1, <1>2, <1>3, <1>4, <2>10
       DEF RunDirect, DirectSucceeds, DirectThrowsLate, DirectEffect, DirectFails,
           ExecuteInTransaction, Interrupted
  <2> QED
    BY <1>5, <2>1, <2>2, <2>3, <2>4, <2>5, <2>6, <2>7, <2>8, <2>9, <2>10 DEF RunCommand
<1>6. CASE CancelToken
  BY <1>3, <1>6 DEF CancelToken
<1>7. CASE Caller
  <2>1. ASSUME NEW c \in Commands, StartCommand(c) PROVE FALSE
    BY <2>1 DEF StartCommand, At
  <2>2. ASSUME NEW t \in userTx, CommitByCaller(t) \/ RollbackByCaller(t) \/ DisposeByCaller(t)
        PROVE  FALSE
    BY <2>2 DEF CommitByCaller, RollbackByCaller, DisposeByCaller, At
  <2>3. CASE BeginTransaction \/ DisposeDatabase \/ DisposeDatabaseAsync
    BY <2>3 DEF BeginTransaction, DisposeDatabase, DisposeDatabaseAsync, At
  <2> QED
    BY <1>7, <2>1, <2>2, <2>3 DEF Caller
<1>8. CASE UNCHANGED vars
  BY <1>3, <1>8 DEF vars
<1> QED
  BY <1>5, <1>6, <1>7, <1>8 DEF Next

-----------------------------------------------------------------------------
(* IInv holds in every reachable state.                                    *)
THEOREM Invariance == Spec => []IInv
<1>1. Init => IInv
  BY InitIInv
<1>2. IInv /\ [Next]_vars => IInv'
  BY TypeStep, OwnershipStep DEF IInv
<1> QED
  BY <1>1, <1>2, PTL DEF Spec

(* Every variable of the commands, the Database and the session keeps its  *)
(* type.                                                                   *)
THEOREM TypeCorrect == Spec => []TypeOK
<1>1. IInv => TypeOK
  BY DEF IInv
<1> QED
  BY <1>1, Invariance, PTL

(* HasActiveTransaction never misses the transaction that is open on the   *)
(* server, whatever fails and whatever the caller begins and disposes.     *)
THEOREM ViewsAgree == Spec => []ServerTransactionIsActive
<1>1. IInv => ServerTransactionIsActive
  BY DEF IInv
<1> QED
  BY <1>1, Invariance, PTL

(* The transaction a command begins for itself is over when it returns: no *)
(* later command ever joins it.                                            *)
THEOREM NoLeak == Spec => []NoLeakedAutoTransaction
<1>1. IInv => NoLeakedAutoTransaction
  BY DEF IInv, Ownership, Outside, NoLeakedAutoTransaction
<1> QED
  BY <1>1, Invariance, PTL

(* No command commits or rolls back the transaction its caller began.      *)
THEOREM OuterSurvives == Spec => OuterTransactionSurvives
<1>1. IInv /\ [Next]_vars =>
        [pc # "idle" /\ serverTx \in userTx =>
           serverTx' = serverTx \/ connection' = "closed"]_vars
  BY OuterStep
<1> QED
  BY <1>1, Invariance, PTL DEF Spec, OuterTransactionSurvives

-----------------------------------------------------------------------------
(* What the commands do to the data.                                       *)


(* Where the statements of a command are.                                  *)
Steps(c) == 1 .. StatementCount(c)

NotDurable(c) == \A i \in Steps(c) : <<c, i>> \notin durable
AllDurable(c) == \A i \in Steps(c) : <<c, i>> \in durable
NotPending(c) == \A i \in Steps(c) : level[<<c, i>>] = 0
AllPending(c) == \A i \in Steps(c) : level[<<c, i>>] > 0
SameLevel(c) == \A i, j \in Steps(c) : level[<<c, i>>] = level[<<c, j>>]

Untouched(c) == NotDurable(c) /\ NotPending(c)
Whole(c) == SameLevel(c) /\ (NotDurable(c) \/ AllDurable(c))

(* What is pending behind an open reader is never committed.               *)
Stranded(c) == NotDurable(c) /\ (NotPending(c) \/ busy)

(* No effect is pending above the newest savepoint, and without a          *)
(* transaction there is nothing to be pending in.                          *)
Levelled ==
  /\ \A e \in Effect : level[e] <= depth
  /\ serverTx = 0 => depth = 0 /\ ~aborted /\ ~poisoned /\ ~busy
  /\ serverTx # 0 => depth >= 1

(* A command that is not running: it has not been started, or its effects  *)
(* are together; and if it failed, there are none.                         *)
Settled(c) ==
  /\ outcome[c] = "none" => Untouched(c) /\ excuse[c] = "none"
  /\ excuse[c] \notin {"cleanupCancelled", "readerOpen"} => Whole(c)
  /\ excuse[c] = "readerOpen" => Stranded(c)
  /\ outcome[c] \in {"threw", "swallowed"} /\ excuse[c] = "none" => Untouched(c)

(* The running command works above everything that was there before it: in *)
(* a transaction of its own, or above its own savepoint, unless that is    *)
(* still to be refused by an aborted transaction.                          *)
OwnScope ==
  /\ auto => depth = 1 /\ ~poisoned
  /\ ~poisoned => /\ ~auto => depth > 1
                  /\ \A e \in Effect : e[1] # cmd => level[e] < depth

(* What the running command has done, at each point of its work.           *)
NothingDone == Untouched(cmd) /\ excuse[cmd] = "none" /\ sent = 0

PartlyDone ==
  /\ serverTx # 0 /\ ~busy
  /\ excuse[cmd] = "none"
  /\ auto => ~aborted
  /\ NotDurable(cmd)
  /\ \A i \in Steps(cmd) : level[<<cmd, i>>] = IF i <= sent THEN depth ELSE 0

AllDone ==
  /\ excuse[cmd] = "none"
  /\ auto => AllDurable(cmd) /\ NotPending(cmd)
  /\ ~auto => /\ serverTx # 0 /\ ~aborted /\ ~busy
              /\ NotDurable(cmd)
              /\ \A i \in Steps(cmd) : level[<<cmd, i>>] = depth

(* A failed command is durable only when nobody could know or help it.     *)
Failed ==
  \/ NotDurable(cmd)
  \/ AllDurable(cmd) /\ auto /\ excuse[cmd] \in {"answerLost", "loggerThrew"}

Undoable == \A i \in Steps(cmd) : level[<<cmd, i>>] \in {0, depth}

(* A command that could not begin to roll back, as a reader is open.       *)
Blocked ==
  /\ ~auto /\ excuse[cmd] = "readerOpen" => busy
  /\ ~auto /\ busy /\ excuse[cmd] # "readerOpen" => NotPending(cmd)

Undone ==
  /\ auto => excuse[cmd] # "cleanupCancelled"
  /\ ~auto /\ excuse[cmd] \notin {"cleanupCancelled", "readerOpen"} => NotPending(cmd)
  /\ ~auto /\ excuse[cmd] = "readerOpen" => Stranded(cmd)

Returning ==
  /\ excuse[cmd] \notin {"cleanupCancelled", "readerOpen"} => Whole(cmd)
  /\ excuse[cmd] = "readerOpen" => Stranded(cmd)
  /\ result # "ok" /\ excuse[cmd] = "none" => Untouched(cmd)
  /\ result = "ok" => /\ excuse[cmd] = "none"
                      /\ IF serverTx = 0 THEN AllDurable(cmd) ELSE AllPending(cmd)

Running ==
  /\ outcome[cmd] = "none"
  /\ pc \notin {"finally", "return"} => result = "ok"
  /\ pc \in {"validate", "begin", "save", "direct"} => NothingDone
  /\ pc = "direct" => KindOf[cmd] = "direct"
  /\ pc = "execute" => PartlyDone /\ sent < StatementCount(cmd)
  /\ pc = "commit" => PartlyDone /\ sent = StatementCount(cmd)
  /\ pc = "log" \/ (pc = "finally" /\ result = "ok") => AllDone
  /\ pc = "rollback" => Failed /\ Undoable /\ Blocked /\ excuse[cmd] # "cleanupCancelled"
  /\ pc = "logError" => Failed /\ NotPending(cmd) /\ excuse[cmd] # "cleanupCancelled"
  /\ pc = "finally" /\ result # "ok" => Failed /\ Undone
  /\ pc = "return" => Returning

EffectInv ==
  /\ Levelled
  /\ \A c \in Commands : pc = "idle" \/ c # cmd => Settled(c)
  /\ pc # "idle" => Running
  /\ pc \in Inside \ {"save"} /\ serverTx # 0 /\ ~busy => OwnScope

-----------------------------------------------------------------------------
(* Facts about effects and about the operations of the session.            *)

(* A command has statements, and their effects are effects.                *)
LEMMA StatementsOf ==
  ASSUME NEW c \in Commands
  PROVE  /\ StatementCount(c) \in Nat \ {0}
         /\ KindOf[c] = "direct" => StatementCount(c) = 1
         /\ \A i \in Steps(c) : /\ i \in Nat \ {0} /\ i <= StatementCount(c)
                                 /\ i \in 1 .. StatementCount(c) /\ <<c, i>> \in Effect
         /\ 1 \in Steps(c)
<1>1. /\ StatementCount(c) \in {Statements, 1}
      /\ KindOf[c] = "direct" => StatementCount(c) = 1
  BY DEF StatementCount
<1> QED
  BY <1>1, StatementsAssumption DEF Steps, Effect

(* The operations that send none of a command's statements.                *)
Idling ==
  \/ UNCHANGED sessionVars
  \/ OpenConnection
  \/ CloseConnection("closed") \/ CloseConnection("disposed")
  \/ CommitWork \/ RollbackWork \/ LoseCommitAnswer
  \/ Savepoint \/ RollbackToSavepoint \/ ReleaseSavepoint
  \/ RejectStatement
  \/ CreateTransaction

(* The effects of a command move together: to another level, or away, or   *)
(* all that are pending become durable.  What is stranded remains so.      *)
MoveTogether(c) ==
  /\ Stranded(c) => Stranded(c)'
  /\ SameLevel(c) => SameLevel(c)'
  /\ NotPending(c) => NotPending(c)'
  /\ \/ \A i \in Steps(c) : <<c, i>> \in durable' <=> <<c, i>> \in durable
     \/ \A i \in Steps(c) :
          <<c, i>> \in durable' <=> <<c, i>> \in durable \/ level[<<c, i>>] > 0

(* An operation that does not send the statements of a command moves what  *)
(* the command did together.                                               *)
LEMMA MovedTogether ==
  ASSUME SessionTypeOK, NEW c \in Commands, Idling \/ (c # cmd /\ SessionStep)
  PROVE  MoveTogether(c)
<1>1. \A i \in Steps(c) : <<c, i>> \in Effect /\ level[<<c, i>>] \in Nat
  BY StatementsOf DEF SessionTypeOK
<1>2. /\ depth \in Nat /\ Pending = {e \in Effect : level[e] > 0}
      /\ level \in [Effect -> Nat]
  BY DEF SessionTypeOK, Pending
<1> USE <1>1 DEF MoveTogether, SameLevel, NotPending, NotDurable, Stranded, EndTransaction,
                 NothingPending
<1>3. CASE \/ UNCHANGED sessionVars \/ OpenConnection \/ Savepoint \/ RejectStatement
           \/ CreateTransaction
  BY <1>3 DEF sessionVars, OpenConnection, Savepoint, RejectStatement, CreateTransaction, BeginWork
<1>4. CASE CloseConnection("closed") \/ CloseConnection("disposed") \/ RollbackWork
  BY <1>4 DEF CloseConnection, RollbackWork
<1>5. CASE CommitWork \/ LoseCommitAnswer
  BY <1>2, <1>5 DEF CommitWork, LoseCommitAnswer
<1>6. CASE RollbackToSavepoint
  BY <1>2, <1>6 DEF RollbackToSavepoint
<1>7. CASE ReleaseSavepoint
  BY <1>2, <1>7 DEF ReleaseSavepoint
<1>8. ASSUME c # cmd, NEW i, ExecuteInTransaction(<<cmd, i>>) PROVE MoveTogether(c)
  <2>1. \A j \in Steps(c) : level'[<<c, j>>] = level[<<c, j>>]
    BY <1>2, <1>8 DEF ExecuteInTransaction
  <2>2. durable' = durable /\ busy' = busy
    BY <1>8 DEF ExecuteInTransaction
  <2> QED
    BY <2>1, <2>2
<1>9. ASSUME c # cmd, ExecuteAlone(<<cmd, 1>>) \/ LoseStatementAnswer(<<cmd, 1>>)
      PROVE  MoveTogether(c)
  BY <1>9 DEF ExecuteAlone, LoseStatementAnswer
<1>10. CASE RejectWhileReading
  BY <1>10 DEF RejectWhileReading
<1>11. ASSUME c # cmd, NEW i, LeaveReaderOpen(<<cmd, i>>) PROVE MoveTogether(c)
  <2>1. \A j \in Steps(c) : level'[<<c, j>>] = level[<<c, j>>]
    BY <1>2, <1>11 DEF LeaveReaderOpen
  <2>2. durable' = durable /\ busy'
    BY <1>11 DEF LeaveReaderOpen
  <2> QED
    BY <2>1, <2>2
<1> HIDE DEF MoveTogether
<1> QED
  BY <1>3, <1>4, <1>5, <1>6, <1>7, <1>8, <1>9, <1>10, <1>11 DEF Idling, SessionStep

(* A settled command whose effects move together remains settled.          *)
LEMMA SettledKept ==
  ASSUME SessionTypeOK, NEW c \in Commands, Settled(c), MoveTogether(c),
         outcome'[c] = outcome[c], excuse'[c] = excuse[c]
  PROVE  Settled(c)'
<1>1. \A i \in Steps(c) : level[<<c, i>>] \in Nat
  BY StatementsOf DEF SessionTypeOK
<1>2. ASSUME Untouched(c) PROVE Untouched(c)'
  BY <1>1, <1>2 DEF Untouched, NotDurable, NotPending, MoveTogether
<1>3. ASSUME Whole(c) PROVE Whole(c)'
  <2>1. SameLevel(c)'
    BY <1>3 DEF Whole, MoveTogether
  <2>2. (\A i \in Steps(c) : level[<<c, i>>] > 0) \/ (\A i \in Steps(c) : ~(level[<<c, i>>] > 0))
    BY <1>3 DEF Whole, SameLevel
  <2>3. NotDurable(c)' \/ AllDurable(c)'
    BY <1>3, <2>2 DEF Whole, MoveTogether, NotDurable, AllDurable
  <2> QED
    BY <2>1, <2>3 DEF Whole
<1>4. Stranded(c) => Stranded(c)'
  BY DEF MoveTogether
<1> QED
  BY <1>2, <1>3, <1>4 DEF Settled

(* The operations of the session, where the commands use them; only        *)
(* RollbackToSavepoint takes something back from an open transaction.      *)
Advancing ==
  \/ UNCHANGED sessionVars
  \/ OpenConnection
  \/ CloseConnection("closed") \/ CloseConnection("disposed")
  \/ CommitWork \/ RollbackWork \/ LoseCommitAnswer
  \/ serverTx # 0 /\ (Savepoint \/ RejectStatement)
  \/ ReleaseSavepoint
  \/ CreateTransaction
  \/ serverTx # 0 /\ ExecuteInTransaction(<<cmd, sent + 1>>)
  \/ serverTx # 0 /\ ExecuteInTransaction(<<cmd, 1>>)
  \/ serverTx # 0 /\ (LeaveReaderOpen(<<cmd, sent + 1>>) \/ RejectWhileReading)
  \/ serverTx = 0 /\ (ExecuteAlone(<<cmd, 1>>) \/ LoseStatementAnswer(<<cmd, 1>>))

Guarded == Advancing \/ RollbackToSavepoint

(* They keep every effect below the newest savepoint.                      *)
LEMMA LevelledKept ==
  ASSUME SessionTypeOK, created \in Nat, Levelled, Guarded
  PROVE  Levelled'
<1>1. /\ depth \in Nat /\ level \in [Effect -> Nat] /\ serverTx \in Nat
      /\ aborted \in BOOLEAN /\ poisoned \in BOOLEAN /\ busy \in BOOLEAN
      /\ \A e \in Effect : level[e] <= depth
      /\ serverTx = 0 => depth = 0 /\ ~aborted /\ ~poisoned /\ ~busy
      /\ serverTx # 0 => depth >= 1
  BY DEF SessionTypeOK, Levelled
<1> USE DEF Levelled, EndTransaction, NothingPending
<1>2. CASE UNCHANGED sessionVars \/ OpenConnection
  BY <1>1, <1>2 DEF sessionVars, OpenConnection
<1>3. CASE \/ CloseConnection("closed") \/ CloseConnection("disposed")
           \/ CommitWork \/ RollbackWork \/ LoseCommitAnswer
  BY <1>3 DEF CloseConnection, CommitWork, RollbackWork, LoseCommitAnswer
<1>4. CASE serverTx # 0 /\ RejectStatement
  BY <1>1, <1>4 DEF RejectStatement
<1>5. CASE serverTx # 0 /\ Savepoint
  <2>1. /\ depth' \in {depth, depth + 1} /\ level' = level /\ serverTx' = serverTx
    BY <1>5 DEF Savepoint
  <2> QED
    BY <1>1, <1>5, <2>1
<1>6. CASE RollbackToSavepoint
  BY <1>1, <1>6 DEF RollbackToSavepoint
<1>7. CASE ReleaseSavepoint
  BY <1>1, <1>7 DEF ReleaseSavepoint
<1>8. CASE CreateTransaction
  BY <1>1, <1>8 DEF CreateTransaction, BeginWork
<1>9. ASSUME serverTx # 0, NEW e, ExecuteInTransaction(e) PROVE Levelled'
  BY <1>1, <1>9 DEF ExecuteInTransaction
<1>10. CASE serverTx = 0 /\ (ExecuteAlone(<<cmd, 1>>) \/ LoseStatementAnswer(<<cmd, 1>>))
  BY <1>1, <1>10 DEF ExecuteAlone, LoseStatementAnswer
<1>11. ASSUME serverTx # 0, NEW e, LeaveReaderOpen(e) PROVE Levelled'
  BY <1>1, <1>11 DEF LeaveReaderOpen
<1>12. CASE serverTx # 0 /\ RejectWhileReading
  BY <1>1, <1>12 DEF RejectWhileReading
<1> QED
  BY <1>2, <1>3, <1>4, <1>5, <1>6, <1>7, <1>8, <1>9, <1>10, <1>11, <1>12 DEF Guarded, Advancing

(* Every step is one of them, and only a step that executes a statement    *)
(* sends one.                                                              *)
LEMMA StepGuarded ==
  ASSUME IInv, EffectInv, [Next]_vars
  PROVE  /\ Advancing \/ (RollbackToSavepoint /\ RollbackCommand /\ ~auto)
         /\ Idling \/ (SessionStep /\ (ExecuteStatement \/ RunDirect))
<1> USE DEF ConnectionLost, LoseConnection, Interrupted, Advancing, Idling
<1>1. CASE RunCommand
  <2> USE DEF At
  <2>1. CASE ValidateConnection
    BY <2>1 DEF ValidateConnection
  <2>2. CASE GetTransaction
    BY <2>2 DEF GetTransaction
  <2>3. CASE SaveSavepoint
    BY <2>3 DEF SaveSavepoint, Usable, Owns
  <2>4. CASE ExecuteStatement
    <3>1. serverTx # 0
      BY <2>4 DEF ExecuteStatement, EffectInv, Running, PartlyDone
    <3>2. Advancing
      BY <2>4, <3>1 DEF ExecuteStatement, FailWhileReading
    <3> QED
      BY <2>4, <3>2 DEF SessionStep
  <2>5. CASE CommitTransaction
    BY <2>5 DEF CommitTransaction
  <2>6. CASE LogSuccess \/ LogException \/ ReturnToCaller
    BY <2>6 DEF LogSuccess, LogException, ReturnToCaller
  <2>7. CASE RollbackCommand
    BY <2>7 DEF RollbackCommand, UndoCommand
  <2>8. CASE DisposeOwnTransaction
    BY <2>8 DEF DisposeOwnTransaction, DisposeTransaction
  <2>9. CASE ReleaseCommand
    BY <2>9 DEF ReleaseCommand, ReleaseFails
  <2>10. CASE RunDirect
    <3>1. Advancing
      BY <2>10 DEF RunDirect, DirectSucceeds, DirectThrowsLate, DirectEffect, DirectFails
    <3> QED
      BY <2>10, <3>1 DEF SessionStep
  <2> QED
    BY <1>1, <2>1, <2>2, <2>3, <2>4, <2>5, <2>6, <2>7, <2>8, <2>9, <2>10 DEF RunCommand
<1>2. CASE CancelToken
  BY <1>2 DEF CancelToken
<1>3. CASE Caller
  <2>1. ASSUME NEW c \in Commands, StartCommand(c) PROVE UNCHANGED sessionVars
    BY <2>1 DEF StartCommand
  <2>2. CASE BeginTransaction
    BY <2>2 DEF BeginTransaction
  <2>3. ASSUME NEW t \in userTx, CommitByCaller(t) PROVE Advancing /\ Idling
    BY <2>3 DEF CommitByCaller
  <2>4. ASSUME NEW t \in userTx, RollbackByCaller(t) PROVE Advancing /\ Idling
    BY <2>4 DEF RollbackByCaller
  <2>5. ASSUME NEW t \in userTx, DisposeByCaller(t) PROVE Advancing /\ Idling
    BY <2>5 DEF DisposeByCaller, DisposeTransaction
  <2>6. CASE DisposeDatabase
    BY <2>6 DEF DisposeDatabase
  <2>7. CASE DisposeDatabaseAsync
    BY <2>7 DEF DisposeDatabaseAsync
  <2> QED
    BY <1>3, <2>1, <2>2, <2>3, <2>4, <2>5, <2>6, <2>7 DEF Caller
<1>4. CASE UNCHANGED vars
  BY <1>4 DEF vars
<1> QED
  BY <1>1, <1>2, <1>3, <1>4 DEF Next

-----------------------------------------------------------------------------
(* Steps of the whole specification.                                       *)

LEMMA LevelledStep ==
  ASSUME IInv, EffectInv, [Next]_vars
  PROVE  Levelled'
BY StepGuarded, LevelledKept DEF Guarded, IInv, TypeOK, DatabaseTypeOK, EffectInv

(* Who is running, and what has been said of the others.                   *)
LEMMA StepOfOne ==
  ASSUME IInv, [Next]_vars
  PROVE  \/ UNCHANGED <<cmd, outcome>> /\ (excuse' = excuse \/ \E r \in Excuses : Excuse(r))
            /\ (pc = "idle" => pc' = "idle" /\ excuse' = excuse) /\ (pc # "idle" => pc' # "idle")
         \/ \E c \in Commands : StartCommand(c)
         \/ ReturnToCaller
<1> USE Labels DEF At, Goto, historyVars
<1>1. CASE RunCommand
  <2>1. CASE ValidateConnection
    BY <2>1 DEF ValidateConnection, Throw
  <2>2. CASE GetTransaction
    BY <2>2 DEF GetTransaction, Throw
  <2>3. CASE SaveSavepoint
    BY <2>3 DEF SaveSavepoint, Caught
  <2>4. CASE ExecuteStatement
    BY <2>4, AfterStatementLabels DEF ExecuteStatement, FailWhileReading
  <2>5. CASE CommitTransaction
    BY <2>5 DEF CommitTransaction, AfterWork
  <2>6. CASE LogSuccess
    BY <2>6 DEF LogSuccess
  <2>7. CASE RollbackCommand
    BY <2>7 DEF RollbackCommand
  <2>8. CASE LogException
    BY <2>8 DEF LogException
  <2>9. CASE DisposeOwnTransaction
    BY <2>9 DEF DisposeOwnTransaction
  <2>10. CASE ReleaseCommand
    BY <2>10 DEF ReleaseCommand, ReleaseFails, Throw
  <2>11. CASE RunDirect
    BY <2>11 DEF RunDirect, DirectSucceeds, DirectThrowsLate, DirectFails
  <2> QED
    BY <1>1, <2>1, <2>2, <2>3, <2>4, <2>5, <2>6, <2>7, <2>8, <2>9, <2>10, <2>11 DEF RunCommand
<1>2. CASE CancelToken
  BY <1>2 DEF CancelToken
<1>3. CASE Caller /\ ~\E c \in Commands : StartCommand(c)
  BY <1>3 DEF Caller, BeginTransaction, CommitByCaller, RollbackByCaller, DisposeByCaller,
     DisposeDatabase, DisposeDatabaseAsync, commandVars
<1>4. CASE UNCHANGED vars
  BY <1>4 DEF vars
<1> QED
  BY <1>1, <1>2, <1>3, <1>4 DEF Next

LEMMA SettledStep ==
  ASSUME IInv, EffectInv, [Next]_vars, NEW c \in Commands, pc' = "idle" \/ c # cmd'
  PROVE  Settled(c)'
<1>1. /\ SessionTypeOK /\ cmd \in Commands
      /\ result \in Results
      /\ outcome \in [Commands -> Results \cup {"none"}] /\ excuse \in [Commands -> Excuses]
      /\ pc = "idle" \/ c # cmd => Settled(c)
  BY DEF IInv, TypeOK, CommandTypeOK, EffectInv
<1>2. CASE UNCHANGED <<cmd, outcome>> /\ (excuse' = excuse \/ \E r \in Excuses : Excuse(r))
             /\ (pc = "idle" => pc' = "idle" /\ excuse' = excuse) /\ (pc # "idle" => pc' # "idle")
  <2>1. /\ outcome'[c] = outcome[c] /\ excuse'[c] = excuse[c]
        /\ pc = "idle" \/ c # cmd
    BY <1>1, <1>2 DEF Excuse
  <2>2. Idling \/ (c # cmd /\ SessionStep)
    BY <2>1, StepGuarded DEF ExecuteStatement, RunDirect, At
  <2> QED
    BY <1>1, <2>1, <2>2, MovedTogether, SettledKept
<1>3. ASSUME NEW d \in Commands, StartCommand(d) PROVE Settled(c)'
  <2>1. /\ UNCHANGED sessionVars /\ UNCHANGED <<outcome, excuse>> /\ pc = "idle"
    BY <1>3 DEF StartCommand, historyVars, At
  <2> QED
    BY <1>1, <2>1, MovedTogether, SettledKept DEF Idling
<1>4. CASE ReturnToCaller
  <2>1. /\ UNCHANGED sessionVars /\ UNCHANGED <<excuse, cmd>> /\ pc = "return"
        /\ outcome' = [outcome EXCEPT ![cmd] = result]
    BY <1>4 DEF ReturnToCaller, At
  <2>2. CASE c # cmd
    <3>1. outcome'[c] = outcome[c] /\ excuse'[c] = excuse[c]
      BY <1>1, <2>1, <2>2
    <3> QED
      BY <1>1, <2>1, <2>2, <3>1, MovedTogether, SettledKept DEF Idling
  <2>3. CASE c = cmd
    <3>1. Returning
      BY <2>1 DEF EffectInv, Running
    <3>2. /\ outcome'[c] = result /\ excuse'[c] = excuse[c] /\ result # "none"
          /\ UNCHANGED <<level, durable, busy>>
      BY <1>1, <2>1, <2>3 DEF sessionVars, Results
    <3>3. /\ Whole(c) => Whole(c)'
          /\ Untouched(c) => Untouched(c)'
          /\ Stranded(c) => Stranded(c)'
      BY <3>2 DEF Whole, SameLevel, NotDurable, AllDurable, Untouched, NotPending, Stranded
    <3> QED
      BY <2>3, <3>1, <3>2, <3>3 DEF Returning, Settled
  <2> QED
    BY <2>2, <2>3
<1> QED
  BY <1>2, <1>3, <1>4, StepOfOne

(* While a command works in a transaction, that transaction is usable      *)
(* exactly if the server still has it and no reader is open; without it    *)
(* nothing is pending.                                                     *)
LEMMA TransactionInUse ==
  ASSUME IInv, EffectInv, pc \in Inside
  PROVE  /\ Owns(activeTransaction) <=> serverTx # 0
         /\ Usable(activeTransaction) <=> serverTx # 0 /\ ~busy
         /\ serverTx = 0 => NotPending(cmd) /\ depth = 0
<1>1. Owns(activeTransaction) <=> serverTx # 0
  BY DEF IInv, Ownership, HasActiveTransaction, Connected, ServerTransactionIsActive, Owns
<1>2. /\ cmd \in Commands /\ depth \in Nat /\ level \in [Effect -> Nat]
      /\ \A e \in Effect : level[e] <= depth
      /\ serverTx = 0 => depth = 0
  BY DEF IInv, TypeOK, CommandTypeOK, SessionTypeOK, EffectInv, Levelled
<1> QED
  BY <1>1, <1>2, StatementsOf DEF NotPending, Usable

(* The statements of the running command never reach what was there before.*)
LEMMA ScopeKept ==
  ASSUME SessionTypeOK, OwnScope, serverTx' # 0, UNCHANGED <<cmd, auto>>,
         \/ UNCHANGED sessionVars
         \/ RejectStatement
         \/ RollbackToSavepoint
         \/ ExecuteInTransaction(<<cmd, sent + 1>>)
  PROVE  OwnScope'
<1>1. /\ depth \in Nat /\ level \in [Effect -> Nat] /\ UNCHANGED <<depth, poisoned>>
  BY DEF SessionTypeOK, sessionVars, RejectStatement, RollbackToSavepoint, ExecuteInTransaction
<1>2. \A e \in Effect : e[1] # cmd => level'[e] \in {0, level[e]}
  <2>1. CASE UNCHANGED sessionVars \/ RejectStatement
    BY <2>1 DEF sessionVars, RejectStatement
  <2>2. CASE RollbackToSavepoint
    BY <2>2 DEF RollbackToSavepoint
  <2>3. CASE ExecuteInTransaction(<<cmd, sent + 1>>)
    <3>1. \A e \in Effect : e[1] # cmd => e # <<cmd, sent + 1>>
      OBVIOUS
    <3> QED
      BY <1>1, <2>3, <3>1 DEF ExecuteInTransaction
  <2> QED
    BY <2>1, <2>2, <2>3
<1> QED
  BY <1>1, <1>2 DEF OwnScope

LEMMA OwnScopeStep ==
  ASSUME IInv, EffectInv, [Next]_vars, pc' \in Inside \ {"save"}, serverTx' # 0, ~busy'
  PROVE  OwnScope'
<1>1. /\ SessionTypeOK /\ depth \in Nat /\ level \in [Effect -> Nat]
      /\ \A e \in Effect : level[e] <= depth
      /\ serverTx = 0 => depth = 0 /\ ~aborted /\ ~poisoned /\ ~busy
      /\ created \in Nat
  BY DEF IInv, TypeOK, SessionTypeOK, DatabaseTypeOK, EffectInv, Levelled
<1>2. ASSUME ConnectionLost \/ RollbackWork \/ CommitWork \/ LoseCommitAnswer PROVE FALSE
  BY <1>2 DEF ConnectionLost, LoseConnection, CloseConnection, RollbackWork, CommitWork,
     LoseCommitAnswer, EndTransaction
<1>3. pc \in Inside \ {"save"} /\ serverTx # 0 /\ ~busy => OwnScope
  BY DEF EffectInv
<1>4. ASSUME pc \in Inside \ {"save"}, UNCHANGED <<cmd, auto>>,
             \/ UNCHANGED sessionVars
             \/ serverTx # 0 /\ RejectStatement
             \/ RollbackToSavepoint
             \/ ExecuteInTransaction(<<cmd, sent + 1>>)
      PROVE  OwnScope'
  <2>1. serverTx' = serverTx /\ busy' = busy
    BY <1>4 DEF sessionVars, RejectStatement, RollbackToSavepoint, ExecuteInTransaction
  <2> QED
    BY <1>1, <1>3, <1>4, <2>1, ScopeKept
<1>5. CASE RunCommand
  <2> USE DEF At, Goto
  <2>1. CASE ValidateConnection \/ DisposeOwnTransaction \/ ReleaseCommand \/ RunDirect
             \/ ReturnToCaller
    BY <2>1 DEF ValidateConnection, DisposeOwnTransaction, ReleaseCommand, RunDirect,
       ReturnToCaller, Throw, Inside
  <2>2. CASE GetTransaction
    <3>1. CreateTransaction /\ auto' = TRUE
      BY <2>2 DEF GetTransaction, Throw, Inside
    <3>2. /\ serverTx = 0 /\ depth' = 1 /\ UNCHANGED <<poisoned, level>>
      BY <3>1 DEF CreateTransaction, BeginWork
    <3> QED
      BY <1>1, <3>1, <3>2 DEF OwnScope
  <2>3. CASE SaveSavepoint
    <3>1. pc \in Inside /\ auto' = auto /\ ~auto
      BY <2>3 DEF SaveSavepoint, Inside, IInv, Ownership
    <3>2. Savepoint
      BY <2>3, <3>1, TransactionInUse DEF SaveSavepoint, sessionVars
    <3>3. level' = level /\ (~poisoned' => depth' = depth + 1)
      BY <3>2 DEF Savepoint
    <3>4. depth' = depth + 1 /\ serverTx # 0 => depth' > 1
      BY <1>1 DEF EffectInv, Levelled
    <3>5. serverTx # 0
      BY <3>2 DEF Savepoint
    <3> QED
      BY <1>1, <3>1, <3>3, <3>4, <3>5 DEF OwnScope
  <2>4. CASE ExecuteStatement
    <3>1. pc \in Inside \ {"save"} /\ UNCHANGED <<cmd, auto>> /\ serverTx # 0
      BY <2>4 DEF ExecuteStatement, Inside, EffectInv, Running, PartlyDone
    <3> QED
      BY <1>2, <1>4, <2>4, <3>1 DEF ExecuteStatement, Interrupted, FailWhileReading,
         LeaveReaderOpen, RejectWhileReading
  <2>5. CASE CommitTransaction
    BY <1>2, <1>4, <2>5 DEF CommitTransaction, Interrupted, Inside
  <2>6. CASE LogSuccess \/ LogException
    BY <1>4, <2>6 DEF LogSuccess, LogException, Inside
  <2>7. CASE RollbackCommand
    BY <1>2, <1>4, <2>7 DEF RollbackCommand, UndoCommand, Inside
  <2> QED
    BY <1>5, <2>1, <2>2, <2>3, <2>4, <2>5, <2>6, <2>7 DEF RunCommand
<1>6. CASE CancelToken
  BY <1>4, <1>6 DEF CancelToken
<1>7. CASE Caller
  BY <1>7 DEF Caller, StartCommand, BeginTransaction, CommitByCaller, RollbackByCaller,
     DisposeByCaller, DisposeDatabase, DisposeDatabaseAsync, commandVars, At, Goto, Inside
<1>8. CASE UNCHANGED vars
  BY <1>4, <1>8 DEF vars
<1> QED
  BY <1>5, <1>6, <1>7, <1>8 DEF Next

(* What is known of the running command when a step of it begins.          *)
LEMMA RunningFacts ==
  ASSUME IInv, EffectInv, pc # "idle"
  PROVE  /\ cmd \in Commands /\ Running /\ outcome[cmd] = "none"
         /\ StatementCount(cmd) \in Nat \ {0}
         /\ KindOf[cmd] = "direct" => StatementCount(cmd) = 1
         /\ Steps(cmd) = 1 .. StatementCount(cmd)
         /\ \A i \in Steps(cmd) : i \in 1 .. StatementCount(cmd) /\ <<cmd, i>> \in Effect
         /\ \A i \in Steps(cmd) : i \in Nat \ {0} /\ i <= StatementCount(cmd)
         /\ 1 \in Steps(cmd)
         /\ sent \in Nat /\ depth \in Nat /\ level \in [Effect -> Nat]
         /\ serverTx \in Nat /\ aborted \in BOOLEAN /\ auto \in BOOLEAN
         /\ \A i \in Steps(cmd) : level[<<cmd, i>>] \in Nat /\ level[<<cmd, i>>] <= depth
         /\ busy \in BOOLEAN
         /\ serverTx = 0 => depth = 0 /\ ~aborted /\ ~poisoned /\ ~busy
         /\ serverTx # 0 => depth >= 1
         /\ result \in Results
         /\ excuse \in [Commands -> Excuses]
<1>1. /\ cmd \in Commands /\ SessionTypeOK /\ CommandTypeOK /\ Levelled /\ Running
  BY DEF IInv, TypeOK, CommandTypeOK, EffectInv
<1> QED
  BY <1>1, StatementsOf DEF Steps, SessionTypeOK, CommandTypeOK, Levelled, Running

(* The effects of losing the transaction, one way or another.              *)
LEMMA TransactionLost ==
  ASSUME NEW c \in Commands,
         RollbackWork \/ CloseConnection("closed") \/ LoseConnection \/ ConnectionLost
  PROVE  /\ NotPending(c)' /\ serverTx' = 0 /\ durable' = durable
         /\ NotDurable(c)' <=> NotDurable(c)
         /\ AllDurable(c)' <=> AllDurable(c)
         /\ ~busy'
BY StatementsOf DEF RollbackWork, CloseConnection, LoseConnection, ConnectionLost,
   EndTransaction, NothingPending, NotPending, NotDurable, AllDurable

(* A step that leaves the session alone, seen from a command.              *)
LEMMA SessionUnchanged ==
  ASSUME UNCHANGED sessionVars, NEW c
  PROVE  /\ NotPending(c)' <=> NotPending(c)
         /\ AllPending(c)' <=> AllPending(c)
         /\ SameLevel(c)' <=> SameLevel(c)
         /\ NotDurable(c)' <=> NotDurable(c)
         /\ AllDurable(c)' <=> AllDurable(c)
         /\ Untouched(c)' <=> Untouched(c)
         /\ Whole(c)' <=> Whole(c)
         /\ Stranded(c)' <=> Stranded(c)
BY DEF sessionVars, NotPending, AllPending, SameLevel, NotDurable, AllDurable, Untouched, Whole,
       Stranded

LEMMA UntouchedIsWhole == ASSUME NEW c, Untouched(c) PROVE Whole(c)
BY DEF Untouched, Whole, SameLevel, NotPending

LEMMA ValidateRuns ==
  ASSUME IInv, EffectInv, ValidateConnection
  PROVE  Running'
<1> USE DEF At, Goto, Throw, ValidateConnection
<1>1. pc = "validate" /\ NothingDone /\ outcome[cmd] = "none" /\ result = "ok"
  BY DEF EffectInv, Running
<1>2. /\ UNCHANGED <<cmd, sent, historyVars, level, durable>>
      /\ \/ pc' \in {"direct", "begin"} /\ result' = result
         \/ pc' = "return" /\ result' = "threw"
      /\ pc' = "direct" => KindOf[cmd] = "direct"
  BY DEF OpenConnection, sessionVars
<1>3. NothingDone'
  BY <1>1, <1>2 DEF NothingDone, Untouched, NotDurable, NotPending, historyVars
<1>4. pc' = "return" => Returning'
  BY <1>1, <1>2, <1>3, UntouchedIsWhole
     DEF NothingDone, Returning, Untouched, Whole, SameLevel, NotPending, NotDurable
<1> QED
  BY <1>1, <1>2, <1>3, <1>4 DEF Running, historyVars

LEMMA BeginRuns ==
  ASSUME IInv, EffectInv, GetTransaction
  PROVE  Running'
<1> USE DEF At, Goto, Throw, GetTransaction
<1>1. pc = "begin" /\ NothingDone /\ outcome[cmd] = "none" /\ result = "ok"
  BY DEF EffectInv, Running
<1>2. /\ UNCHANGED <<cmd, sent, historyVars>> /\ sent = 0
      /\ created \in Nat
  BY <1>1 DEF NothingDone, IInv, TypeOK, DatabaseTypeOK
<1>3. StatementCount(cmd) \in Nat \ {0} /\ (serverTx = 0 => ~aborted /\ ~busy)
      /\ \A i \in Steps(cmd) : i \in Nat \ {0}
  BY <1>1, RunningFacts
<1>4. NothingDone'
  <2>1. CASE UNCHANGED sessionVars \/ CreateTransaction
    BY <1>1, <1>2, <2>1 DEF sessionVars, CreateTransaction, BeginWork, NothingDone, Untouched,
       NotDurable, NotPending, historyVars
  <2>2. CASE ConnectionLost
    BY <1>1, <1>2, <2>2, RunningFacts, TransactionLost DEF NothingDone, Untouched, historyVars,
       NotDurable, NotPending
  <2> QED
    BY <2>1, <2>2 DEF Interrupted
<1>5. CASE pc' = "execute"
  <2>1. CreateTransaction /\ serverTx = 0 /\ result' = result
    BY <1>5 DEF CreateTransaction, BeginWork
  <2>2. serverTx' # 0 /\ ~aborted' /\ ~busy'
    BY <1>2, <1>3, <2>1 DEF CreateTransaction, BeginWork
  <2>3. PartlyDone'
    BY <1>2, <1>3, <1>4, <2>2 DEF PartlyDone, NothingDone, Untouched, NotPending, Steps
  <2> QED
    BY <1>1, <1>2, <1>3, <1>5, <2>1, <2>3 DEF Running, historyVars, StatementCount
<1>6. CASE pc' = "return"
  BY <1>1, <1>2, <1>4, <1>6, UntouchedIsWhole
     DEF NothingDone, Running, Returning, historyVars, Untouched, Whole, SameLevel, NotPending,
         NotDurable
<1>7. CASE pc' = "save"
  BY <1>1, <1>2, <1>4, <1>7 DEF Running, historyVars
<1> QED
  BY <1>5, <1>6, <1>7

LEMMA SaveRuns ==
  ASSUME IInv, EffectInv, SaveSavepoint
  PROVE  Running'
<1> USE DEF At, Goto, SaveSavepoint
<1>1. pc = "save" /\ NothingDone /\ outcome[cmd] = "none" /\ result = "ok" /\ ~auto
  BY DEF EffectInv, Running, IInv, Ownership
<1>2. /\ UNCHANGED <<cmd, auto, sent, result, historyVars, level, durable, serverTx>> /\ sent = 0
      /\ StatementCount(cmd) \in Nat \ {0}
      /\ \A i \in Steps(cmd) : i \in Nat \ {0}
  BY <1>1, RunningFacts DEF NothingDone, Savepoint, Caught, sessionVars
<1>3. NotDurable(cmd)' /\ NotPending(cmd)'
  BY <1>1, <1>2 DEF NothingDone, Untouched, NotDurable, NotPending
<1>4. CASE pc' = "execute"
  <2>1. serverTx' # 0 /\ ~busy'
    BY <1>2, <1>4 DEF Caught, Usable, Owns, Savepoint
  <2>2. PartlyDone'
    BY <1>1, <1>2, <1>3, <2>1 DEF PartlyDone, NothingDone, historyVars, NotPending
  <2> QED
    BY <1>1, <1>2, <1>4, <2>2 DEF Running, historyVars, StatementCount
<1>5. CASE pc' = "rollback"
  BY <1>1, <1>2, <1>3, <1>5
     DEF Running, historyVars, Failed, Undoable, Blocked, NotPending, NothingDone
<1> QED
  BY <1>4, <1>5 DEF Caught

LEMMA ExecuteRuns ==
  ASSUME IInv, EffectInv, ExecuteStatement
  PROVE  Running'
<1> USE DEF At, Goto
<1>1. /\ pc = "execute" /\ PartlyDone /\ sent < StatementCount(cmd) /\ outcome[cmd] = "none"
      /\ result = "ok" /\ excuse[cmd] = "none" /\ ~busy
  BY DEF ExecuteStatement, EffectInv, Running, PartlyDone
<1>2. /\ UNCHANGED <<cmd, auto, result, outcome>> /\ (auto' <=> auto)
      /\ cmd \in Commands /\ StatementCount(cmd) \in Nat \ {0} /\ sent \in Nat
      /\ Steps(cmd) = 1 .. StatementCount(cmd)
      /\ \A i \in Steps(cmd) : <<cmd, i>> \in Effect
      /\ level \in [Effect -> Nat] /\ depth \in Nat /\ excuse \in [Commands -> Excuses]
  BY <1>1, RunningFacts DEF ExecuteStatement
<1>12. Steps(cmd)' = Steps(cmd) /\ StatementCount(cmd)' = StatementCount(cmd)
  BY <1>2 DEF Steps, StatementCount
<1>3. CASE /\ ExecuteInTransaction(<<cmd, sent + 1>>) /\ sent' = sent + 1 /\ excuse' = excuse
           /\ pc' = AfterStatement(sent + 1) \/ pc' = "rollback"
  <2>1. /\ level' = [level EXCEPT ![<<cmd, sent + 1>>] = depth]
        /\ UNCHANGED <<serverTx, aborted, depth, durable, busy>> /\ ~aborted
    BY <1>3 DEF ExecuteInTransaction
  <2>2. sent + 1 \in Steps(cmd) /\ sent + 1 <= StatementCount(cmd)
    BY <1>1, <1>2
  <2>3. \A i \in Steps(cmd) :
          level'[<<cmd, i>>] = IF i = sent + 1 THEN depth ELSE level[<<cmd, i>>]
    BY <1>2, <2>1
  <2>4. \A i \in Steps(cmd) : level'[<<cmd, i>>] = IF i <= sent + 1 THEN depth ELSE 0
    BY <1>1, <1>2, <2>3 DEF PartlyDone
  <2>5. PartlyDone' /\ excuse'[cmd'] = "none" /\ ~busy'
    BY <1>1, <1>2, <1>3, <2>1, <2>4 DEF PartlyDone, NotDurable, Steps, StatementCount
  <2>6. CASE pc' = "rollback"
    <3>1. Undoable'
      BY <1>2, <2>1, <2>4 DEF Undoable, Steps, StatementCount
    <3> QED
      BY <1>1, <1>2, <2>5, <2>6, <3>1 DEF Running, PartlyDone, Failed, Blocked
  <2>7. CASE pc' = AfterStatement(sent + 1)
    <3>1. CASE sent + 1 < StatementCount(cmd)
      BY <1>1, <1>2, <1>12, <1>3, <2>5, <2>7, <3>1 DEF AfterStatement, Running
    <3>2. CASE sent + 1 = StatementCount(cmd) /\ auto
      BY <1>1, <1>2, <1>12, <1>3, <2>5, <2>7, <3>2 DEF AfterStatement, Running
    <3>3. CASE sent + 1 = StatementCount(cmd) /\ ~auto
      <4>1. AllDone'
        BY <1>2, <2>1, <2>4, <2>5, <3>3
           DEF AllDone, PartlyDone, Steps, StatementCount
      <4>2. pc' \in {"finally", "log"}
        BY <1>2, <2>7, <3>3 DEF AfterStatement, AfterWork
      <4> QED
        BY <1>1, <1>2, <4>1, <4>2 DEF Running
    <3> QED
      BY <1>2, <2>2, <3>1, <3>2, <3>3
  <2> QED
    BY <1>3, <2>6, <2>7
<1>4. CASE /\ UNCHANGED sessionVars \/ RejectStatement \/ ConnectionLost
           /\ pc' = "rollback" /\ excuse' = excuse
  <2>1. NotDurable(cmd)' /\ Undoable' /\ ~busy'
    <3>1. CASE UNCHANGED sessionVars \/ RejectStatement
      BY <1>1, <1>2, <3>1
         DEF PartlyDone, Undoable, NotDurable, sessionVars, RejectStatement, Steps, StatementCount
    <3>2. CASE ConnectionLost
      BY <1>1, <1>2, <3>2, TransactionLost
         DEF PartlyDone, Undoable, NotDurable, NotPending, Steps, StatementCount
    <3> QED
      BY <1>4, <3>1, <3>2
  <2> QED
    BY <1>1, <1>2, <1>4, <2>1 DEF Running, Failed, Blocked
<1>5. CASE FailWhileReading /\ pc' = "rollback"
  <2>1. /\ UNCHANGED <<serverTx, depth, durable>> /\ busy'
        /\ level' = level \/ level' = [level EXCEPT ![<<cmd, sent + 1>>] = depth]
        /\ IF auto THEN excuse' = excuse ELSE Excuse("readerOpen")
    BY <1>5 DEF FailWhileReading, LeaveReaderOpen, RejectWhileReading
  <2>2. NotDurable(cmd)'
    BY <1>1, <1>2, <2>1 DEF PartlyDone, NotDurable, Steps, StatementCount
  <2>3. \A i \in Steps(cmd) : level[<<cmd, i>>] \in {0, depth}
    BY <1>1 DEF PartlyDone
  <2>4. Undoable'
    BY <1>2, <2>1, <2>3 DEF Undoable, Steps, StatementCount
  <2>5. /\ auto => excuse'[cmd] = "none"
        /\ ~auto => excuse'[cmd] = "readerOpen"
    BY <1>1, <1>2, <2>1 DEF Excuse
  <2> QED
    BY <1>1, <1>2, <1>5, <2>1, <2>2, <2>4, <2>5 DEF Running, Failed, Blocked
<1> QED
  BY <1>3, <1>4, <1>5 DEF ExecuteStatement, Interrupted

LEMMA CommitRuns ==
  ASSUME IInv, EffectInv, CommitTransaction
  PROVE  Running'
<1> USE DEF At, Goto, CommitTransaction
<1>1. /\ pc = "commit" /\ PartlyDone /\ sent = StatementCount(cmd) /\ outcome[cmd] = "none"
      /\ result = "ok" /\ auto /\ ~aborted
  BY DEF EffectInv, Running, IInv, Ownership, PartlyDone
<1>2. /\ UNCHANGED <<cmd, auto, result, outcome>> /\ (auto' <=> auto)
      /\ cmd \in Commands /\ excuse \in [Commands -> Excuses]
      /\ \A i \in Steps(cmd) : <<cmd, i>> \in Effect /\ i <= StatementCount(cmd)
      /\ depth \in Nat /\ depth >= 1
  BY <1>1, RunningFacts DEF PartlyDone
<1>3. /\ \A i \in Steps(cmd) : level[<<cmd, i>>] = depth
      /\ NotDurable(cmd)
  BY <1>1, <1>2 DEF PartlyDone
<1>4. ASSUME CommitWork \/ LoseCommitAnswer PROVE AllDurable(cmd)' /\ NotPending(cmd)'
  <2>1. durable' = durable \cup Pending /\ level' = [e \in Effect |-> 0]
    BY <1>1, <1>4 DEF CommitWork, LoseCommitAnswer, EndTransaction, NothingPending
  <2>2. \A e \in Effect : level[e] = depth => e \in Pending
    <3>1. depth > 0
      BY <1>2
    <3> QED
      BY <3>1 DEF Pending
  <2> QED
    BY <1>2, <1>3, <2>1, <2>2 DEF AllDurable, NotPending, Steps, StatementCount
<1>5. CASE CommitWork /\ pc' = AfterWork /\ excuse' = excuse
  <2>1. AllDone'
    BY <1>1, <1>2, <1>4, <1>5 DEF AllDone, PartlyDone
  <2> QED
    BY <1>1, <1>2, <1>5, <2>1 DEF Running, AfterWork
<1>6. CASE LoseCommitAnswer /\ pc' = "rollback" /\ Excuse("answerLost")
  <2>1. excuse'[cmd] = "answerLost"
    BY <1>2, <1>6 DEF Excuse
  <2>2. auto' /\ Failed'
    BY <1>1, <1>2, <1>4, <1>6, <2>1 DEF Failed
  <2>3. Undoable'
    BY <1>4, <1>6 DEF Undoable, NotPending
  <2> QED
    BY <1>1, <1>2, <1>6, <2>1, <2>2, <2>3 DEF Running, Blocked
<1>7. CASE /\ RollbackWork \/ UNCHANGED sessionVars \/ ConnectionLost
           /\ pc' = "rollback" /\ excuse' = excuse
  <2>1. NotDurable(cmd)' /\ Undoable'
    <3>1. CASE UNCHANGED sessionVars
      BY <1>2, <1>3, <3>1 DEF Undoable, NotDurable, sessionVars, Steps, StatementCount
    <3>2. CASE RollbackWork \/ ConnectionLost
      BY <1>2, <1>3, <3>2, TransactionLost
         DEF Undoable, NotDurable, NotPending, Steps, StatementCount
    <3> QED
      BY <1>7, <3>1, <3>2
  <2> QED
    BY <1>1, <1>2, <1>7, <2>1 DEF Running, PartlyDone, Failed, Blocked
<1> QED
  BY <1>5, <1>6, <1>7 DEF Interrupted

LEMMA LogRuns ==
  ASSUME IInv, EffectInv, LogSuccess
  PROVE  Running'
<1> USE DEF At, Goto, LogSuccess
<1>1. /\ pc = "log" /\ AllDone /\ outcome[cmd] = "none" /\ result = "ok"
      /\ cmd \in Commands /\ excuse \in [Commands -> Excuses] /\ auto \in BOOLEAN
  BY RunningFacts DEF EffectInv, Running
<1>2. /\ UNCHANGED sessionVars /\ UNCHANGED <<cmd, auto, result, outcome>>
      /\ UNCHANGED <<serverTx, aborted, busy, depth, level, durable>>
      /\ auto' <=> auto
  BY <1>1 DEF sessionVars
<1>3. /\ NotPending(cmd)' <=> NotPending(cmd)
      /\ NotDurable(cmd)' <=> NotDurable(cmd)
      /\ AllDurable(cmd)' <=> AllDurable(cmd)
  BY <1>2 DEF NotPending, NotDurable, AllDurable
<1>4. CASE pc' = "finally" /\ excuse' = excuse
  BY <1>1, <1>2, <1>3, <1>4 DEF AllDone, Running, Steps, StatementCount
<1>5. CASE pc' = "rollback" /\ auto /\ Excuse("loggerThrew")
  <2>1. excuse'[cmd] = "loggerThrew"
    BY <1>1, <1>5 DEF Excuse
  <2>2. auto' /\ AllDurable(cmd)' /\ NotPending(cmd)'
    BY <1>1, <1>2, <1>3, <1>5 DEF AllDone
  <2>3. Failed'
    BY <1>2, <2>1, <2>2 DEF Failed
  <2>4. Undoable'
    BY <2>2 DEF Undoable, NotPending
  <2> QED
    BY <1>1, <1>2, <1>5, <2>1, <2>3, <2>4 DEF Running, Blocked
<1>6. CASE pc' = "rollback" /\ ~auto /\ excuse' = excuse
  BY <1>1, <1>2, <1>3, <1>6
     DEF AllDone, Running, Failed, Undoable, Blocked, Steps, StatementCount
<1> QED
  BY <1>1, <1>4, <1>5, <1>6

LEMMA RollbackRuns ==
  ASSUME IInv, EffectInv, RollbackCommand
  PROVE  Running'
<1> USE DEF At, Goto
<1>1. /\ pc = "rollback" /\ Failed /\ Undoable /\ Blocked /\ excuse[cmd] # "cleanupCancelled"
      /\ outcome[cmd] = "none" /\ result = "ok"
      /\ cmd \in Commands /\ excuse \in [Commands -> Excuses] /\ auto \in BOOLEAN
      /\ \A i \in Steps(cmd) : <<cmd, i>> \in Effect
  BY RunningFacts DEF RollbackCommand, EffectInv, Running
<1>2. UNCHANGED <<cmd, auto, outcome>> /\ (auto' <=> auto)
  BY <1>1 DEF RollbackCommand
<1>3. /\ Usable(activeTransaction) <=> serverTx # 0 /\ ~busy
      /\ serverTx = 0 => NotPending(cmd)
  BY <1>1, TransactionInUse DEF Inside
<1>4. ASSUME UndoCommand PROVE NotPending(cmd)' /\ durable' = durable
  <2>1. CASE RollbackToSavepoint
    BY <1>1, <1>2, <2>1 DEF RollbackToSavepoint, Undoable, NotPending, Steps, StatementCount
  <2> QED
    BY <1>1, <1>2, <1>4, <2>1, TransactionLost DEF UndoCommand
<1>5. ASSUME durable' = durable, excuse' = excuse PROVE Failed'
  <2>1. NotDurable(cmd)' <=> NotDurable(cmd)
    BY <1>2, <1>5 DEF NotDurable, Steps, StatementCount
  <2>2. AllDurable(cmd)' <=> AllDurable(cmd)
    BY <1>2, <1>5 DEF AllDurable, Steps, StatementCount
  <2>3. excuse'[cmd'] = excuse[cmd] /\ (auto' <=> auto)
    BY <1>1, <1>2, <1>5
  <2> QED
    BY <1>1, <2>1, <2>2, <2>3 DEF Failed
<1>6. CASE UndoCommand /\ pc' = "logError" /\ UNCHANGED <<result, excuse>>
  BY <1>1, <1>2, <1>4, <1>5, <1>6 DEF Running
<1>7. CASE /\ pc' = "finally" /\ result' = "threw" /\ excuse' = excuse /\ ConnectionLost
  <2>1. NotPending(cmd)' /\ durable' = durable
    BY <1>1, <1>2, <1>7, TransactionLost
  <2>2. Undone'
    <3>1. Stranded(cmd)' \/ (AllDurable(cmd)' /\ auto)
      <4>1. /\ NotDurable(cmd)' <=> NotDurable(cmd)
            /\ AllDurable(cmd)' <=> AllDurable(cmd)
        BY <1>2, <2>1 DEF NotDurable, AllDurable, Steps, StatementCount
      <4> QED
        BY <1>1, <2>1, <4>1 DEF Failed, Stranded
    <3> QED
      BY <1>1, <1>2, <1>7, <2>1, <3>1 DEF Undone
  <2> QED
    BY <1>1, <1>2, <1>5, <1>7, <2>1, <2>2 DEF Running
<1>10. CASE /\ pc' = "finally" /\ result' = "threw" /\ excuse' = excuse
            /\ ~Usable(activeTransaction) /\ UNCHANGED sessionVars
  <2>1. serverTx = 0 \/ busy
    BY <1>3, <1>10
  <2>2. ASSUME ~auto
        PROVE  IF excuse[cmd] = "readerOpen" THEN Stranded(cmd) ELSE NotPending(cmd)
    <3>1. NotDurable(cmd)
      BY <1>1, <2>2 DEF Failed
    <3> QED
      BY <1>1, <1>3, <2>1, <2>2, <3>1 DEF Blocked, Stranded
  <2>3. (NotPending(cmd)' <=> NotPending(cmd)) /\ (Stranded(cmd)' <=> Stranded(cmd))
        /\ durable' = durable
    BY <1>2, <1>10, SessionUnchanged DEF sessionVars
  <2>4. excuse'[cmd'] = excuse[cmd]
    BY <1>2, <1>10
  <2>5. Undone'
    BY <1>1, <1>2, <2>2, <2>3, <2>4 DEF Undone
  <2> QED
    BY <1>1, <1>2, <1>5, <1>10, <2>3, <2>5 DEF Running
<1>8. CASE /\ pc' = "finally" /\ result' = "threw" /\ UNCHANGED sessionVars
           /\ auto /\ excuse' = excuse
  BY <1>1, <1>2, <1>5, <1>8 DEF Running, Undone, sessionVars
<1>9. CASE /\ pc' = "finally" /\ result' = "threw" /\ UNCHANGED sessionVars
           /\ ~auto /\ Excuse("cleanupCancelled")
  <2>1. excuse'[cmd] = "cleanupCancelled"
    BY <1>1, <1>9 DEF Excuse
  <2>2. NotDurable(cmd)'
    BY <1>1, <1>2, <1>9, SessionUnchanged DEF Failed
  <2>3. Failed' /\ Undone'
    BY <1>2, <1>9, <2>1, <2>2 DEF Undone, Failed
  <2> QED
    BY <1>1, <1>2, <1>9, <2>3 DEF Running
<1> QED
  BY <1>1, <1>6, <1>7, <1>8, <1>9, <1>10 DEF RollbackCommand

LEMMA LogErrorRuns ==
  ASSUME IInv, EffectInv, LogException
  PROVE  Running'
<1>1. /\ pc = "logError" /\ Failed /\ NotPending(cmd) /\ excuse[cmd] # "cleanupCancelled"
      /\ outcome[cmd] = "none"
  BY DEF LogException, At, EffectInv, Running
<1>2. /\ pc' = "finally" /\ result' # "ok" /\ UNCHANGED <<cmd, auto, outcome, excuse>>
      /\ UNCHANGED sessionVars
  BY DEF LogException, Goto, LoggedFailure, historyVars
<1>3. Failed' /\ NotPending(cmd)'
  BY <1>1, <1>2, SessionUnchanged
     DEF Failed, NotDurable, AllDurable, NotPending, sessionVars, Steps, StatementCount
<1> QED
  <2>1. Undone'
    BY <1>1, <1>2, <1>3 DEF Undone, Stranded, Failed
  <2> QED
    BY <1>1, <1>2, <1>3, <2>1 DEF Running

LEMMA DisposeRuns ==
  ASSUME IInv, EffectInv, DisposeOwnTransaction
  PROVE  Running'
<1>1. /\ pc = "finally" /\ auto /\ outcome[cmd] = "none" /\ cmd \in Commands
      /\ result = "ok" => AllDone
      /\ result # "ok" => Failed
  BY RunningFacts DEF DisposeOwnTransaction, At, EffectInv, Running
<1>2. /\ pc' = "return" /\ UNCHANGED <<cmd, result, outcome, excuse>>
      /\ DisposeTransaction(activeTransaction)
  BY DEF DisposeOwnTransaction, Goto, historyVars
<1>3. NotPending(cmd)' /\ serverTx' = 0 /\ durable' = durable
  BY <1>1, <1>2, TransactionInUse, TransactionLost, SessionUnchanged
     DEF DisposeTransaction, Inside, sessionVars
<1>8. NotDurable(cmd) => Stranded(cmd)'
  BY <1>2, <1>3 DEF Stranded, NotDurable, Steps, StatementCount
<1>4. /\ NotDurable(cmd)' <=> NotDurable(cmd)
      /\ AllDurable(cmd)' <=> AllDurable(cmd)
  BY <1>2, <1>3 DEF NotDurable, AllDurable, Steps, StatementCount
<1>5. SameLevel(cmd)'
  BY <1>3 DEF SameLevel, NotPending, Steps, StatementCount
<1>6. CASE result = "ok"
  BY <1>1, <1>2, <1>3, <1>4, <1>5, <1>6 DEF Running, Returning, AllDone, Whole
<1>7. CASE result # "ok"
  BY <1>1, <1>2, <1>3, <1>4, <1>5, <1>7, <1>8 DEF Running, Returning, Failed, Whole, Untouched
<1> QED
  BY <1>6, <1>7

LEMMA ReleaseRuns ==
  ASSUME IInv, EffectInv, ReleaseCommand
  PROVE  Running'
<1> USE DEF At, Goto, Throw
<1>1. /\ pc = "finally" /\ ~auto /\ outcome[cmd] = "none" /\ cmd \in Commands
      /\ excuse \in [Commands -> Excuses]
      /\ result = "ok" => AllDone
      /\ result # "ok" =>
           /\ NotDurable(cmd)
           /\ excuse[cmd] \notin {"cleanupCancelled", "readerOpen"} => NotPending(cmd)
           /\ excuse[cmd] = "readerOpen" => Stranded(cmd)
      /\ \A i \in Steps(cmd) : <<cmd, i>> \in Effect
      /\ depth \in Nat
  BY RunningFacts DEF ReleaseCommand, EffectInv, Running, Failed, Undone
<1>2. /\ pc' = "return" /\ UNCHANGED <<cmd, auto, outcome>>
  BY DEF ReleaseCommand
<1>3. Usable(activeTransaction) <=> serverTx # 0 /\ ~busy
  BY <1>1, TransactionInUse DEF Inside
<1>4. NotDurable(cmd)
  BY <1>1 DEF AllDone
<1>10. ASSUME NotPending(cmd)', NotDurable(cmd)' PROVE Untouched(cmd)' /\ Whole(cmd)' /\ Stranded(cmd)'
  BY <1>10 DEF Untouched, Whole, SameLevel, NotPending, Stranded
<1>5. CASE ReleaseSavepoint /\ UNCHANGED <<result, excuse>>
  <2>1. /\ depth > 1 /\ durable' = durable /\ serverTx' = serverTx /\ ~busy
        /\ level' = [e \in Effect |-> IF level[e] = depth THEN depth - 1 ELSE level[e]]
    BY <1>5 DEF ReleaseSavepoint
  <2>2. NotDurable(cmd)'
    BY <1>2, <1>4, <2>1 DEF NotDurable, Steps, StatementCount
  <2>3. CASE result = "ok"
    <3>1. /\ excuse[cmd] = "none" /\ serverTx # 0
          /\ \A i \in Steps(cmd) : level[<<cmd, i>>] = depth
      BY <1>1, <2>3 DEF AllDone
    <3>2. \A i \in Steps(cmd) : level'[<<cmd, i>>] = depth - 1
      BY <1>1, <2>1, <3>1
    <3>3. SameLevel(cmd)' /\ AllPending(cmd)'
      BY <1>1, <1>2, <2>1, <3>2 DEF SameLevel, AllPending, Steps, StatementCount
    <3> QED
      BY <1>1, <1>2, <1>5, <2>1, <2>2, <2>3, <3>1, <3>3 DEF Running, Returning, Whole
  <2>4. CASE result # "ok"
    <3>1. ASSUME NotPending(cmd) PROVE Untouched(cmd)' /\ Whole(cmd)' /\ Stranded(cmd)'
      <4>1. NotPending(cmd)'
        BY <1>1, <1>2, <2>1, <3>1 DEF NotPending, Steps, StatementCount
      <4> QED
        BY <1>10, <2>2, <4>1
    <3>2. excuse[cmd] # "cleanupCancelled" => NotPending(cmd)
      BY <1>1, <2>1, <2>4 DEF Stranded
    <3> QED
      BY <1>1, <1>2, <1>5, <2>4, <3>1, <3>2 DEF Running, Returning
  <2> QED
    BY <2>3, <2>4
<1>6. CASE result' = "threw" /\ UNCHANGED excuse /\ ConnectionLost
  <2>1. NotPending(cmd)' /\ NotDurable(cmd)'
    BY <1>1, <1>2, <1>4, <1>6, TransactionLost
  <2>2. Untouched(cmd)' /\ Whole(cmd)' /\ Stranded(cmd)'
    BY <1>10, <2>1
  <2> QED
    BY <1>1, <1>2, <1>6, <2>2 DEF Running, Returning
<1>7. CASE result # "ok" /\ result' = "threw" /\ UNCHANGED excuse /\ UNCHANGED sessionVars
  <2>1. ASSUME excuse[cmd] \notin {"cleanupCancelled", "readerOpen"}
        PROVE  Untouched(cmd)' /\ Whole(cmd)'
    <3>1. Untouched(cmd) /\ Whole(cmd)
      BY <1>1, <1>4, <1>7, <2>1 DEF Untouched, Whole, SameLevel, NotPending
    <3> QED
      BY <1>2, <1>7, <3>1, SessionUnchanged
  <2>2. ASSUME excuse[cmd] = "readerOpen" PROVE Stranded(cmd)'
    BY <1>1, <1>2, <1>7, <2>2, SessionUnchanged
  <2> QED
    BY <1>1, <1>2, <1>7, <2>1, <2>2 DEF Running, Returning
<1>8. CASE /\ result = "ok" /\ result' = "threw" /\ UNCHANGED sessionVars
           /\ Excuse("cleanupCancelled")
  <2>1. excuse'[cmd] = "cleanupCancelled"
    BY <1>1, <1>8 DEF Excuse
  <2> QED
    BY <1>1, <1>2, <1>8, <2>1 DEF Running, Returning
<1>9. ASSUME ReleaseFails, result' = "threw" PROVE Running'
  <2>1. aborted \/ serverTx = 0 \/ busy => result # "ok"
    BY <1>1 DEF AllDone
  <2> QED
    BY <1>3, <1>6, <1>7, <1>8, <1>9, <2>1 DEF ReleaseFails
<1> QED
  BY <1>5, <1>9 DEF ReleaseCommand

LEMMA DirectRuns ==
  ASSUME IInv, EffectInv, RunDirect
  PROVE  Running'
<1> USE DEF At, Goto
<1>1. /\ pc = "direct" /\ NothingDone /\ outcome[cmd] = "none" /\ cmd \in Commands
      /\ StatementCount(cmd) = 1
      /\ <<cmd, 1>> \in Effect /\ level \in [Effect -> Nat] /\ depth \in Nat
      /\ serverTx # 0 => depth >= 1
      /\ excuse \in [Commands -> Excuses]
  BY RunningFacts DEF RunDirect, EffectInv, Running
<1>2. /\ pc' = "return" /\ UNCHANGED <<cmd, outcome>>
  BY DEF RunDirect
<1>3. Steps(cmd)' = {1} /\ Steps(cmd) = {1}
  BY <1>1, <1>2 DEF Steps, StatementCount
<1>4. Whole(cmd)'
  BY <1>2, <1>3 DEF Whole, SameLevel, NotDurable, AllDurable
<1>7. ASSUME DirectFailed PROVE result' # "ok"
  BY <1>7 DEF DirectFailed, LoggedFailure
<1>8. ASSUME NEW reason \in {"answerLost", "clientThrew", "loggerThrew"}, Excuse(reason),
             DirectFailed
      PROVE  Returning'
  <2>1. excuse'[cmd'] = reason
    BY <1>1, <1>2, <1>8 DEF Excuse
  <2> QED
    BY <1>4, <1>7, <1>8, <2>1 DEF Returning
<1>5. ASSUME DirectSucceeds PROVE Returning'
  <2>1. excuse'[cmd'] = "none" /\ result' = "ok"
    BY <1>1, <1>2, <1>5 DEF NothingDone, DirectSucceeds
  <2>2. CASE serverTx = 0 /\ ExecuteAlone(<<cmd, 1>>)
    <3>1. serverTx' = 0 /\ AllDurable(cmd)'
      BY <1>2, <1>3, <2>2 DEF ExecuteAlone, AllDurable
    <3> QED
      BY <1>4, <2>1, <3>1 DEF Returning
  <2>3. CASE serverTx # 0 /\ ExecuteInTransaction(<<cmd, 1>>)
    <3>1. serverTx' # 0 /\ level'[<<cmd, 1>>] = depth /\ depth > 0
      BY <1>1, <2>3 DEF ExecuteInTransaction
    <3>2. AllPending(cmd)'
      BY <1>2, <1>3, <3>1 DEF AllPending
    <3> QED
      BY <1>4, <2>1, <3>1, <3>2 DEF Returning
  <2> QED
    BY <1>5, <2>2, <2>3 DEF DirectSucceeds, DirectEffect
<1>6. ASSUME DirectFails PROVE Returning'
  <2>1. CASE UNCHANGED sessionVars \/ RejectStatement \/ ConnectionLost
    <3>1. durable' = durable /\ level'[<<cmd, 1>>] = 0
      <4>1. level[<<cmd, 1>>] = 0
        BY <1>1, <1>3 DEF NothingDone, Untouched, NotPending
      <4> QED
        BY <1>1, <2>1, <4>1
           DEF sessionVars, RejectStatement, ConnectionLost, LoseConnection, CloseConnection,
               EndTransaction, NothingPending
    <3>2. Untouched(cmd)'
      BY <1>1, <1>2, <1>3, <3>1 DEF NothingDone, Untouched, NotDurable, NotPending
    <3>3. Stranded(cmd)'
      BY <3>2 DEF Untouched, Stranded
    <3>4. result' # "ok"
      BY <1>6, <1>7 DEF DirectFails
    <3> QED
      BY <1>4, <3>2, <3>3, <3>4 DEF Returning
  <2> QED
    BY <1>6, <1>8, <2>1 DEF DirectFails, Interrupted
<1>9. ASSUME DirectThrowsLate PROVE Returning'
  BY <1>8, <1>9 DEF DirectThrowsLate
<1> QED
  BY <1>1, <1>2, <1>5, <1>6, <1>9 DEF RunDirect, Running

LEMMA RunningStep ==
  ASSUME IInv, EffectInv, [Next]_vars, pc' # "idle"
  PROVE  Running'
<1>1. ASSUME UNCHANGED <<sessionVars, pc, cmd, auto, sent, result, historyVars>>
      PROVE  Running'
  <2>1. UNCHANGED <<sessionVars, serverTx, aborted, busy, depth, level, durable, pc, cmd, auto,
                    sent, result, outcome, excuse>>
    BY <1>1 DEF sessionVars, historyVars
  <2>2. Running
    BY <2>1 DEF EffectInv
  <2>3. auto \in BOOLEAN /\ (auto' <=> auto) /\ (aborted' <=> aborted) /\ (busy' <=> busy)
    BY <2>1 DEF IInv, TypeOK, CommandTypeOK, SessionTypeOK
  <2>4. /\ NotPending(cmd)' <=> NotPending(cmd)
        /\ AllPending(cmd)' <=> AllPending(cmd)
        /\ NotDurable(cmd)' <=> NotDurable(cmd)
        /\ AllDurable(cmd)' <=> AllDurable(cmd)
        /\ SameLevel(cmd)' <=> SameLevel(cmd)
    BY <2>1 DEF NotPending, AllPending, NotDurable, AllDurable, SameLevel, Steps, StatementCount
  <2>5. (NothingDone => NothingDone') /\ (Failed => Failed') /\ (Undone => Undone')
        /\ (Returning => Returning') /\ (Blocked => Blocked')
    BY <2>1, <2>3, <2>4 DEF NothingDone, Failed, Undone, Returning, Blocked, Untouched, Whole,
       Stranded
  <2>6. (PartlyDone => PartlyDone') /\ (AllDone => AllDone') /\ (Undoable => Undoable')
    BY <2>1, <2>3, <2>4 DEF PartlyDone, AllDone, Undoable, Steps, StatementCount
  <2> QED
    BY <2>1, <2>2, <2>4, <2>5, <2>6 DEF Running, StatementCount
<1>2. CASE RunCommand
  BY <1>2, ValidateRuns, BeginRuns, SaveRuns, ExecuteRuns, CommitRuns, LogRuns, RollbackRuns,
     LogErrorRuns, DisposeRuns, ReleaseRuns, DirectRuns DEF RunCommand, ReturnToCaller, Goto
<1>3. CASE CancelToken
  BY <1>1, <1>3 DEF CancelToken
<1>4. CASE Caller
  <2>1. ASSUME NEW c \in Commands, StartCommand(c) PROVE Running'
    <3>1. /\ Settled(c) /\ outcome[c] = "none" /\ UNCHANGED <<level, durable, outcome, excuse>>
          /\ cmd' = c /\ sent' = 0 /\ result' = "ok" /\ pc' = "validate"
      BY <2>1 DEF StartCommand, At, Goto, EffectInv, sessionVars, historyVars
    <3>2. Untouched(c)'
      BY <3>1 DEF Settled, Untouched, NotDurable, NotPending
    <3>3. NothingDone'
      BY <3>1, <3>2 DEF NothingDone, Settled, Untouched, NotDurable, NotPending
    <3> QED
      BY <3>1, <3>3 DEF Running
  <2>2. ~(\E c \in Commands : StartCommand(c)) => pc' = "idle"
    BY <1>4 DEF Caller, BeginTransaction, CommitByCaller, RollbackByCaller, DisposeByCaller,
       DisposeDatabase, DisposeDatabaseAsync, commandVars, At
  <2> QED
    BY <2>1, <2>2
<1>5. CASE UNCHANGED vars
  BY <1>1, <1>5 DEF vars
<1> QED
  BY <1>2, <1>3, <1>4, <1>5 DEF Next

-----------------------------------------------------------------------------
(* The invariant, and what follows from it.                                *)

LEMMA InitEffects == Init => EffectInv
<1> SUFFICES ASSUME Init PROVE EffectInv
  OBVIOUS
<1>1. /\ pc = "idle" /\ serverTx = 0 /\ depth = 0 /\ ~aborted /\ ~poisoned /\ ~busy
      /\ durable = {} /\ level = [e \in Effect |-> 0]
      /\ outcome = [c \in Commands |-> "none"] /\ excuse = [c \in Commands |-> "none"]
  BY DEF Init, SessionInit
<1>2. Levelled
  BY <1>1 DEF Levelled
<1>3. ASSUME NEW c \in Commands PROVE Settled(c)
  <2>1. Untouched(c)
    BY <1>1, StatementsOf DEF Untouched, NotDurable, NotPending
  <2>2. Whole(c)
    BY <2>1 DEF Untouched, Whole, SameLevel, NotPending
  <2> QED
    BY <1>1, <2>1, <2>2 DEF Settled
<1> QED
  BY <1>1, <1>2, <1>3 DEF EffectInv, Inside

LEMMA EffectStep ==
  ASSUME IInv, EffectInv, [Next]_vars
  PROVE  EffectInv'
BY LevelledStep, SettledStep, RunningStep, OwnScopeStep DEF EffectInv, Inside

(* EffectInv holds in every reachable state.                               *)
THEOREM EffectInvariance == Spec => []EffectInv
<1>1. Init => EffectInv
  BY InitEffects
<1>2. IInv /\ EffectInv /\ [Next]_vars => EffectInv'
  BY EffectStep
<1> QED
  BY <1>1, <1>2, Invariance, PTL DEF Spec

(* While a command runs, its effects are durable together or not at all.   *)
LEMMA RunningTogether ==
  ASSUME IInv, EffectInv, pc # "idle", excuse[cmd] # "cleanupCancelled"
  PROVE  NotDurable(cmd) \/ AllDurable(cmd)
<1>1. Running /\ pc \in PcLabels /\ auto \in BOOLEAN
  BY DEF EffectInv, IInv, TypeOK, CommandTypeOK
<1> QED
  BY <1>1 DEF Running, NothingDone, Untouched, PartlyDone, AllDone, Failed, Returning, Whole,
     Stranded, PcLabels

(* An insert is durable as a whole or not at all, whatever fails between   *)
(* its statements, in its own transaction or in the caller's.              *)
THEOREM InsertsAreAtomic == Spec => []AllOrNothing
<1>1. ASSUME IInv, EffectInv PROVE AllOrNothing
  <2>1. ASSUME NEW c \in Commands, excuse[c] # "cleanupCancelled"
        PROVE  NotDurable(c) \/ AllDurable(c)
    BY <1>1, <2>1, RunningTogether DEF EffectInv, Settled, Whole, Stranded
  <2>2. \A c \in Commands :
          (NotDurable(c) => durable \cap EffectsOf(c) = {})
          /\ (AllDurable(c) => EffectsOf(c) \subseteq durable)
    BY DEF NotDurable, AllDurable, EffectsOf, Steps
  <2> QED
    BY <2>1, <2>2 DEF AllOrNothing
<1> QED
  BY <1>1, Invariance, EffectInvariance, PTL

(* A command that threw, or whose exception was swallowed, has left nothing*)
(* behind, neither durable nor pending in its caller's transaction.        *)
THEOREM FailuresAreClean == Spec => []FailureLeavesNothing
<1>1. ASSUME IInv, EffectInv PROVE FailureLeavesNothing
  <2>1. ASSUME NEW c \in Commands, outcome[c] \in {"threw", "swallowed"}
        PROVE  /\ excuse[c] = "none" => Untouched(c)
               /\ excuse[c] = "readerOpen" => NotDurable(c)
    BY <1>1, <2>1 DEF EffectInv, Settled, Running, Stranded
  <2>2. \A c \in Commands :
          /\ Untouched(c) => EffectsOf(c) \cap (durable \cup Pending) = {}
          /\ NotDurable(c) => EffectsOf(c) \cap durable = {}
    BY DEF Untouched, NotDurable, NotPending, EffectsOf, Pending, Steps
  <2> QED
    BY <2>1, <2>2 DEF FailureLeavesNothing
<1> QED
  BY <1>1, Invariance, EffectInvariance, PTL

(* When a command returns normally, all of its effects are durable, or     *)
(* pending in the transaction that the caller has still to commit.         *)
THEOREM SuccessIsComplete == Spec => SuccessMeansDone
<1> DEFINE Done(c) ==
      EffectsOf(c) \subseteq IF serverTx' = 0 THEN durable' ELSE Pending'
<1>1. ASSUME IInv, EffectInv, [Next]_vars, NEW c \in Commands,
             outcome[c] # "ok", outcome'[c] = "ok"
      PROVE  Done(c)
  <2>1. ReturnToCaller
    BY <1>1, StepOfOne DEF StartCommand, historyVars
  <2>2. /\ pc = "return" /\ Returning /\ UNCHANGED <<serverTx, durable, level>>
        /\ outcome' = [outcome EXCEPT ![cmd] = result]
    BY <1>1, <2>1 DEF ReturnToCaller, At, EffectInv, Running, sessionVars
  <2>3. c = cmd /\ result = "ok"
    BY <1>1, <2>2 DEF IInv, TypeOK, CommandTypeOK
  <2>4. IF serverTx = 0 THEN AllDurable(c) ELSE AllPending(c)
    BY <2>2, <2>3 DEF Returning
  <2>5. AllDurable(c) => EffectsOf(c) \subseteq durable
    BY DEF AllDurable, EffectsOf, Steps
  <2>6. AllPending(c) => EffectsOf(c) \subseteq Pending
    BY StatementsOf DEF AllPending, EffectsOf, Steps, Pending
  <2>7. Pending' = Pending
    BY <2>2 DEF Pending
  <2> QED
    BY <2>2, <2>4, <2>5, <2>6, <2>7
<1>2. IInv /\ EffectInv /\ [Next]_vars =>
        [\A c \in Commands : outcome[c] # "ok" /\ outcome'[c] = "ok" => Done(c)]_vars
  BY <1>1
<1> QED
  BY <1>2, Invariance, EffectInvariance, PTL DEF Spec, SuccessMeansDone

(* While a transaction stays open, no step takes away what an earlier      *)
(* command did in it, although all savepoints have one name.               *)
LEMMA PendingKept ==
  ASSUME IInv, EffectInv, [Next]_vars, serverTx # 0, serverTx' = serverTx,
         NEW e \in Effect, pc = "idle" \/ e[1] # cmd, level[e] > 0
  PROVE  level'[e] > 0
<1>1. depth \in Nat /\ level \in [Effect -> Nat]
  BY DEF IInv, TypeOK, SessionTypeOK
<1>2. CASE RollbackToSavepoint /\ RollbackCommand /\ ~auto
  <2>1. pc = "rollback" /\ ~poisoned /\ ~busy
    BY <1>2 DEF RollbackCommand, RollbackToSavepoint, At
  <2>2. level[e] < depth
    BY <2>1 DEF EffectInv, OwnScope, Inside
  <2> QED
    BY <1>1, <1>2, <2>2 DEF RollbackToSavepoint
<1>3. CASE ReleaseSavepoint
  BY <1>1, <1>3 DEF ReleaseSavepoint
<1>4. ASSUME serverTx # 0, NEW f, ExecuteInTransaction(f) \/ LeaveReaderOpen(f)
      PROVE  level'[e] > 0
  <2>1. depth > 0
    BY <1>1, <1>4 DEF EffectInv, Levelled
  <2> QED
    BY <1>1, <1>4, <2>1 DEF ExecuteInTransaction, LeaveReaderOpen
<1>5. CASE Savepoint \/ RejectStatement \/ RejectWhileReading \/ UNCHANGED sessionVars
           \/ OpenConnection
  BY <1>5 DEF Savepoint, RejectStatement, RejectWhileReading, OpenConnection, sessionVars
<1>6. ASSUME \/ CloseConnection("closed") \/ CloseConnection("disposed")
             \/ CommitWork \/ RollbackWork \/ LoseCommitAnswer \/ CreateTransaction
      PROVE  FALSE
  BY <1>6 DEF CloseConnection, CommitWork, RollbackWork, LoseCommitAnswer, EndTransaction,
     CreateTransaction, BeginWork
<1> QED
  BY <1>2, <1>3, <1>4, <1>5, <1>6, StepGuarded DEF Advancing

(* While the caller's transaction is open, no later command takes away the *)
(* work of an earlier one that succeeded, not even by rolling back to a    *)
(* savepoint of the same name.                                             *)
THEOREM EarlierWorkIsSafe == Spec => EarlierWorkSurvives
<1>1. ASSUME IInv, EffectInv, [Next]_vars, NEW c \in Commands, outcome[c] = "ok",
             serverTx # 0, serverTx' = serverTx
      PROVE  (EffectsOf(c) \cap Pending) \subseteq Pending'
  <2>1. pc = "idle" \/ c # cmd
    BY <1>1 DEF EffectInv, Running
  <2>2. ASSUME NEW e \in EffectsOf(c), e \in Pending PROVE e \in Pending'
    <3>1. e \in Effect /\ level[e] > 0 /\ e[1] = c
      BY <2>2 DEF EffectsOf, Pending
    <3>2. level'[e] > 0
      BY <1>1, <2>1, <3>1, PendingKept
    <3> QED
      BY <3>1, <3>2 DEF Pending
  <2> QED
    BY <2>2
<1>2. IInv /\ EffectInv /\ [Next]_vars =>
        [\A c \in Commands :
           /\ outcome[c] = "ok"
           /\ serverTx # 0 /\ serverTx' = serverTx
           => (EffectsOf(c) \cap Pending) \subseteq Pending']_vars
  BY <1>1
<1> QED
  BY <1>2, Invariance, EffectInvariance, PTL DEF Spec, EarlierWorkSurvives

-----------------------------------------------------------------------------
(* The refinement: CommandScope implements AtomicCommands, for every set of*)
(* commands, number of statements and bound, whatever the server, the      *)
(* client and the connection do: commands take effect as a whole, in the   *)
(* scope the caller opened or durably, and report what they did.           *)

(* Nobody cancels a command and no logger throws.                          *)
NoInterference == Faults \cap {"cancel", "logger"} = {}

(* What holds then, beyond EffectInv: clean-up is never cut short, and a   *)
(* command that can be rolled back in the caller's scope has not finished. *)
UndisturbedInv ==
  /\ ~cancelled
  /\ \A c \in Commands : excuse[c] \notin {"loggerThrew", "cleanupCancelled"}
  /\ pc = "rollback" /\ ~auto /\ ~busy => ~AllPending(cmd)

-----------------------------------------------------------------------------
(* UndisturbedInv is inductive.                                            *)

(* A step that does not lead to a rollback and records no excuse.          *)
LEMMA NotRollingBack ==
  ASSUME UndisturbedInv, UNCHANGED <<cancelled, excuse>>, pc' # "rollback"
  PROVE  UndisturbedInv'
BY DEF UndisturbedInv

LEMMA Undisturbed ==
  ASSUME NoInterference, IInv, EffectInv, UndisturbedInv, [Next]_vars
  PROVE  UndisturbedInv'
<1> USE DEF At, Goto
<1>1. ~LoggerThrows /\ "cancel" \notin Faults /\ ~cancelled
  BY DEF NoInterference, LoggerThrows, UndisturbedInv
<1>2. pc # "idle" =>
        /\ cmd \in Commands /\ Running
        /\ StatementCount(cmd) \in Steps(cmd) /\ excuse \in [Commands -> Excuses]
        /\ auto \in BOOLEAN
  BY RunningFacts
<1>3. CASE RunCommand
  <2>1. CASE \/ ValidateConnection \/ GetTransaction \/ LogSuccess \/ LogException
             \/ DisposeOwnTransaction \/ ReturnToCaller
    <3>1. pc' # "rollback" /\ UNCHANGED <<cancelled, excuse>>
      BY <1>1, <2>1 DEF ValidateConnection, GetTransaction, LogSuccess, LogException,
         DisposeOwnTransaction, ReturnToCaller, Throw, historyVars
    <3> QED
      BY <3>1, NotRollingBack
  <2>2. CASE RollbackCommand \/ ReleaseCommand
    <3>1. pc' # "rollback" /\ UNCHANGED <<cancelled, excuse>>
      BY <1>1, <2>2 DEF RollbackCommand, ReleaseCommand, ReleaseFails, Throw
    <3> QED
      BY <3>1, NotRollingBack
  <2>3. CASE SaveSavepoint
    <3>1. /\ excuse[cmd] = "none" /\ NotPending(cmd)
          /\ UNCHANGED <<cancelled, cmd, excuse, level>>
      BY <1>2, <2>3 DEF SaveSavepoint, Caught, Running, NothingDone, historyVars, Untouched,
         Savepoint, sessionVars
    <3>2. ~AllPending(cmd)'
      <4>1. StatementCount(cmd) \in Steps(cmd)' /\ cmd' = cmd
        BY <1>2, <2>3, <3>1 DEF SaveSavepoint, Steps, StatementCount
      <4>2. level'[<<cmd, StatementCount(cmd)>>] = 0
        BY <1>2, <2>3, <3>1 DEF SaveSavepoint, NotPending
      <4> QED
        BY <4>1, <4>2 DEF AllPending
    <3> QED
      BY <3>1, <3>2 DEF UndisturbedInv
  <2>4. CASE ExecuteStatement
    <3>1. /\ UNCHANGED <<cancelled, cmd, auto>> /\ pc = "execute"
          /\ PartlyDone /\ sent < StatementCount(cmd)
      BY <1>2, <2>4 DEF ExecuteStatement, Running, PartlyDone
    <3>2. \A c \in Commands : excuse'[c] \notin {"loggerThrew", "cleanupCancelled"}
      <4>1. excuse' = excuse \/ Excuse("readerOpen")
        BY <2>4 DEF ExecuteStatement, FailWhileReading
      <4> QED
        BY <1>2, <3>1, <4>1 DEF Excuse, UndisturbedInv
    <3>3. ASSUME pc' = "rollback", ~busy' PROVE ~AllPending(cmd)'
      <4>1. UNCHANGED level \/ NotPending(cmd)'
        BY <1>1, <1>2, <2>4, <3>3, AfterStatementLabels, TransactionLost DEF ExecuteStatement,
           RejectStatement, Interrupted, sessionVars, FailWhileReading, LeaveReaderOpen,
           RejectWhileReading
      <4>2. level[<<cmd, StatementCount(cmd)>>] = 0
        <5>1. ~(StatementCount(cmd) <= sent)
          BY <1>2, <2>4, <3>1, RunningFacts DEF ExecuteStatement
        <5> QED
          BY <1>2, <2>4, <3>1, <5>1 DEF PartlyDone, ExecuteStatement
      <4>3. cmd' = cmd
        BY <3>1
      <4> QED
        BY <1>2, <2>4, <4>1, <4>2, <4>3 DEF AllPending, NotPending, ExecuteStatement
    <3> QED
      BY <3>1, <3>2, <3>3 DEF UndisturbedInv
  <2>5. CASE CommitTransaction
    <3>1. /\ auto' /\ UNCHANGED <<cancelled, cmd>> /\ pc = "commit"
          /\ excuse' = excuse \/ Excuse("answerLost")
      BY <2>5 DEF CommitTransaction, IInv, Ownership
    <3> QED
      BY <1>2, <3>1 DEF UndisturbedInv, Excuse
  <2>6. CASE RunDirect
    <3>1. /\ pc = "direct" /\ pc' = "return" /\ UNCHANGED <<cancelled, cmd>>
          /\ excuse' = excuse \/ Excuse("answerLost") \/ Excuse("clientThrew")
      BY <1>1, <2>6 DEF RunDirect, DirectSucceeds, DirectThrowsLate, DirectFails
    <3> QED
      BY <1>2, <3>1 DEF UndisturbedInv, Excuse
  <2> QED
    BY <1>3, <2>1, <2>2, <2>3, <2>4, <2>5, <2>6 DEF RunCommand
<1>4. CASE CancelToken
  BY <1>1, <1>4 DEF CancelToken
<1>5. CASE Caller
  <2>1. /\ pc' \in {"idle", "validate"} /\ ~cancelled' /\ UNCHANGED excuse
    BY <1>1, <1>5 DEF Caller, StartCommand, BeginTransaction, CommitByCaller, RollbackByCaller,
       DisposeByCaller, DisposeDatabase, DisposeDatabaseAsync, commandVars, historyVars
  <2> QED
    BY <2>1 DEF UndisturbedInv
<1>6. CASE UNCHANGED vars
  BY <1>6 DEF vars, sessionVars, databaseVars, historyVars, UndisturbedInv, AllPending, Steps
<1> QED
  BY <1>3, <1>4, <1>5, <1>6 DEF Next

-----------------------------------------------------------------------------
(* The abstract state and steps, in terms of where a command's effects are.*)

Opened == serverTx \in userTx
Stuck == busy /\ Opened
Unsure(c) == excuse[c] # "none"

LEMMA Mapped ==
  ASSUME NEW c \in Commands
  PROVE  /\ InScope(c) <=> Opened /\ AllPending(c)
         /\ durable \cap EffectsOf(c) # {} <=> ~NotDurable(c)
         /\ InScope(c)' <=> Opened' /\ AllPending(c)'
         /\ durable' \cap EffectsOf(c) # {} <=> ~NotDurable(c)'
<1>1. \A i : i \in Steps(c) <=> i \in 1 .. StatementCount(c)
  BY DEF Steps
<1>2. \A e : e \in EffectsOf(c) <=> \E i \in 1 .. StatementCount(c) : e = <<c, i>>
  BY DEF EffectsOf
<1>3. \A i \in Steps(c) : <<c, i>> \in Effect
  BY StatementsOf
<1>4. EffectsOf(c) \subseteq Pending <=> AllPending(c)
  BY <1>1, <1>2, <1>3 DEF Pending, AllPending
<1>5. EffectsOf(c) \subseteq Pending' <=> AllPending(c)'
  BY <1>1, <1>2, <1>3 DEF Pending, AllPending, Steps, StatementCount
<1>6. durable \cap EffectsOf(c) # {} <=> ~NotDurable(c)
  BY <1>1, <1>2 DEF NotDurable
<1>7. durable' \cap EffectsOf(c) # {} <=> ~NotDurable(c)'
  BY <1>1, <1>2 DEF NotDurable, Steps, StatementCount
<1>8. EffectsOf(c)' = EffectsOf(c)
  BY DEF EffectsOf, StatementCount
<1> QED
  BY <1>4, <1>5, <1>6, <1>7, <1>8 DEF InScope, Opened

(* What a step leaves as it is, for a command.                             *)
SameFate(c) ==
  /\ InScope(c)' <=> InScope(c)
  /\ NotDurable(c)' <=> NotDurable(c)
  /\ Unsure(c)' <=> Unsure(c)

LEMMA NothingHappens ==
  ASSUME outcome' = outcome, Opened' <=> Opened, Stuck' <=> Stuck,
         \A c \in Commands : SameFate(c)
  PROVE  UNCHANGED Atomic!vars
BY Mapped DEF Atomic!vars, SameFate, Opened, Stuck, Unsure

LEMMA CommandTakesEffect ==
  ASSUME NEW d \in Commands, outcome[d] = "none", outcome' = outcome,
         ~InScope(d), NotDurable(d), Opened' <=> Opened, ~Stuck, ~Stuck',
         \A c \in Commands \ {d} : SameFate(c),
         Unsure(d)' <=> Unsure(d),
         IF Opened THEN InScope(d)' /\ NotDurable(d)' ELSE ~NotDurable(d)'
  PROVE  Atomic!TakeEffect(d)
BY Mapped DEF Atomic!TakeEffect, Atomic!Apply, Atomic!Fresh, SameFate, Opened, Stuck, Unsure

LEMMA CommandLosesResult ==
  ASSUME NEW d \in Commands, outcome[d] = "none", outcome' = outcome,
         ~InScope(d), NotDurable(d), Opened' <=> Opened, ~Stuck, ~Stuck',
         \A c \in Commands \ {d} : SameFate(c),
         Opened => KindOf[d] = "direct",
         Unsure(d)',
         IF Opened THEN InScope(d)' /\ NotDurable(d)' ELSE ~NotDurable(d)'
  PROVE  Atomic!LoseResult(d)
BY Mapped DEF Atomic!LoseResult, Atomic!Apply, Atomic!Fresh, SameFate, Opened, Stuck, Unsure

LEMMA ScopeGetsStuck ==
  ASSUME NEW d \in Commands, outcome[d] = "none", outcome' = outcome,
         ~InScope(d), NotDurable(d), Opened, Opened', ~busy, busy',
         \A c \in Commands \ {d} : SameFate(c),
         Unsure(d)', NotDurable(d)'
  PROVE  Atomic!GetStuck(d)
BY Mapped DEF Atomic!GetStuck, Atomic!Fresh, SameFate, Opened, Stuck, Unsure

LEMMA ScopeCloses ==
  ASSUME Opened, ~Opened', UNCHANGED <<outcome, excuse>>,
         \/ \A c \in Commands : NotDurable(c)' <=> NotDurable(c)
         \/ ~busy /\ \A c \in Commands : NotDurable(c)' <=> NotDurable(c) /\ ~InScope(c)
  PROVE  Atomic!CloseScope
BY Mapped DEF Atomic!CloseScope, Opened, Stuck

LEMMA ScopeOpens ==
  ASSUME ~Opened, Opened', UNCHANGED <<outcome, excuse, durable>>, ~busy',
         \A c \in Commands : ~InScope(c)'
  PROVE  Atomic!OpenScope
BY Mapped DEF Atomic!OpenScope, Opened, Stuck

Simulated == Atomic!Next \/ UNCHANGED Atomic!vars

LEMMA AbstractSteps ==
  /\ \A c \in Commands : Atomic!TakeEffect(c) => Simulated
  /\ \A c \in Commands : Atomic!LoseResult(c) \/ Atomic!GetStuck(c) => Simulated
  /\ \A c \in Commands : Atomic!ReportSuccess(c) \/ Atomic!ReportFailure(c) => Simulated
  /\ Atomic!OpenScope \/ Atomic!CloseScope => Simulated
BY DEF Simulated, Atomic!Next

(* Without a transaction there is no scope; and a command's transaction is *)
(* one exactly if the command did not create it.                           *)
LEMMA WhoseScope ==
  ASSUME IInv
  PROVE  /\ serverTx = 0 => ~Opened
         /\ pc \in Inside /\ serverTx # 0 => (Opened <=> ~auto)
         /\ pc \in Outside /\ serverTx # 0 => Opened
<1>1. /\ 0 \notin userTx
      /\ serverTx # 0 => serverTx = activeTransaction /\ HasActiveTransaction
      /\ auto \in BOOLEAN
  BY DEF IInv, Numbered, ServerTransactionIsActive, TypeOK, CommandTypeOK
<1> QED
  BY <1>1 DEF IInv, Ownership, Opened

(* Steps that send nothing that counts.                                    *)
LEMMA SessionStays ==
  ASSUME UNCHANGED <<serverTx, busy, level, durable, userTx, outcome, excuse>>
  PROVE  Simulated
<1>1. (Opened' <=> Opened) /\ (Stuck' <=> Stuck)
  BY DEF Opened, Stuck
<1>2. ASSUME NEW c \in Commands PROVE SameFate(c)
  <2>1. (AllPending(c)' <=> AllPending(c)) /\ (NotDurable(c)' <=> NotDurable(c))
    BY DEF AllPending, NotDurable, Steps, StatementCount
  <2>2. Unsure(c)' <=> Unsure(c)
    BY DEF Unsure
  <2> QED
    BY <1>1, <2>1, <2>2, Mapped DEF SameFate
<1> QED
  BY <1>1, <1>2, NothingHappens DEF Simulated

(* The transaction ends and what was pending in it is gone.                *)
LEMMA ScopeDropped ==
  ASSUME IInv, UNCHANGED <<userTx, outcome, excuse>>,
         RollbackWork \/ CloseConnection("closed") \/ CloseConnection("disposed")
         \/ ConnectionLost
  PROVE  Simulated
<1>1. durable' = durable /\ serverTx' = 0
  BY DEF RollbackWork, CloseConnection, ConnectionLost, LoseConnection, EndTransaction
<1>2. ~Opened'
  BY <1>1 DEF IInv, Numbered, Opened
<1>3. \A c \in Commands : NotDurable(c)' <=> NotDurable(c)
  BY <1>1 DEF NotDurable, Steps, StatementCount
<1>4. CASE Opened
  BY <1>2, <1>3, <1>4, ScopeCloses, AbstractSteps
<1>5. CASE ~Opened
  <2>1. \A c \in Commands : SameFate(c)
    BY <1>2, <1>3, <1>5, Mapped DEF SameFate, Unsure
  <2> QED
    BY <1>2, <1>5, <2>1, NothingHappens DEF Simulated, Stuck
<1> QED
  BY <1>4, <1>5

(* When the transaction is committed, what was pending in it is durable,   *)
(* for each command all of it or none.                                     *)
LEMMA CommitFate ==
  ASSUME IInv, EffectInv, CommitWork \/ LoseCommitAnswer,
         NEW c \in Commands, pc = "idle" \/ c # cmd, excuse[c] # "cleanupCancelled"
  PROVE  /\ aborted => (NotDurable(c)' <=> NotDurable(c))
         /\ ~aborted => (NotDurable(c)' <=> NotDurable(c) /\ ~AllPending(c))
<1>0. ~busy
  BY DEF CommitWork, LoseCommitAnswer
<1>1. SameLevel(c) /\ level \in [Effect -> Nat]
  BY <1>0 DEF EffectInv, Settled, Whole, Stranded, NotPending, SameLevel, IInv, TypeOK,
     SessionTypeOK
<1>2. \A i \in Steps(c) : <<c, i>> \in Effect
  BY StatementsOf
<1>3. 1 \in Steps(c)
  BY StatementsOf
<1>4. CASE aborted /\ durable' = durable
  BY <1>4 DEF NotDurable, Steps, StatementCount
<1>5. CASE ~aborted /\ durable' = durable \cup Pending
  <2>1. \A i \in Steps(c) : <<c, i>> \in durable' <=> <<c, i>> \in durable \/ level[<<c, i>>] > 0
    BY <1>2, <1>5 DEF Pending
  <2>2. NotDurable(c)' <=> \A i \in Steps(c) : <<c, i>> \notin durable'
    BY DEF NotDurable, Steps, StatementCount
  <2>3. AllPending(c) <=> \E i \in Steps(c) : level[<<c, i>>] > 0
    BY <1>1, <1>3 DEF AllPending, SameLevel
  <2> QED
    BY <1>5, <2>1, <2>2, <2>3 DEF NotDurable
<1> QED
  BY <1>4, <1>5 DEF CommitWork, LoseCommitAnswer

-----------------------------------------------------------------------------
(* The steps of a command that may be more than a stutter.                 *)

LEMMA OthersAreBelow ==
  ASSUME IInv, EffectInv, pc \in Inside \ {"save"}, serverTx # 0, ~poisoned, ~busy,
         NEW c \in Commands, c # cmd, NEW i \in Steps(c)
  PROVE  level[<<c, i>>] \in Nat /\ level[<<c, i>>] < depth
<1>1. <<c, i>> \in Effect /\ <<c, i>>[1] # cmd
  BY StatementsOf
<1> QED
  BY <1>1 DEF EffectInv, OwnScope, IInv, TypeOK, SessionTypeOK

LEMMA StatementSimulated ==
  ASSUME IInv, EffectInv, UndisturbedInv, ExecuteStatement
  PROVE  Simulated
<1> USE DEF At
<1>1. /\ pc = "execute" /\ PartlyDone /\ sent < StatementCount(cmd) /\ serverTx # 0
      /\ cmd \in Commands /\ sent \in Nat /\ depth \in Nat \ {0} /\ level \in [Effect -> Nat]
      /\ StatementCount(cmd) \in Nat \ {0}
      /\ Steps(cmd) = 1 .. StatementCount(cmd)
      /\ \A i \in Steps(cmd) : <<cmd, i>> \in Effect
      /\ UNCHANGED <<userTx, cmd, outcome>>
      /\ outcome[cmd] = "none" /\ excuse \in [Commands -> Excuses]
  BY RunningFacts DEF ExecuteStatement, Running, PartlyDone, historyVars, databaseVars
<1>4. NotDurable(cmd) /\ ~AllPending(cmd)
  <2>1. level[<<cmd, StatementCount(cmd)>>] = 0 /\ StatementCount(cmd) \in Steps(cmd)
    BY <1>1 DEF PartlyDone
  <2> QED
    BY <1>1, <2>1 DEF PartlyDone, AllPending
<1>5. ASSUME UNCHANGED <<serverTx, durable>>,
             level' = level \/ level' = [level EXCEPT ![<<cmd, sent + 1>>] = depth]
      PROVE  /\ Opened' <=> Opened
             /\ \A c \in Commands : NotDurable(c)' <=> NotDurable(c)
             /\ \A c \in Commands \ {cmd} : AllPending(c)' <=> AllPending(c)
  <2>1. /\ Opened' <=> Opened
        /\ \A c \in Commands : NotDurable(c)' <=> NotDurable(c)
    BY <1>1, <1>5 DEF Opened, NotDurable, Steps, StatementCount
  <2>2. ASSUME NEW c \in Commands, c # cmd PROVE AllPending(c)' <=> AllPending(c)
    <3>1. \A i : level'[<<c, i>>] = level[<<c, i>>] \/ <<c, i>> \notin Effect
      BY <1>1, <1>5, <2>2
    <3> QED
      BY <2>2, <3>1, StatementsOf DEF AllPending, Steps, StatementCount
  <2> QED
    BY <2>1, <2>2
<1>2. CASE ExecuteInTransaction(<<cmd, sent + 1>>) /\ excuse' = excuse
  <2>1. /\ UNCHANGED <<serverTx, durable, userTx, busy>> /\ ~busy
        /\ level' = [level EXCEPT ![<<cmd, sent + 1>>] = depth]
    BY <1>1, <1>2 DEF ExecuteInTransaction
  <2>2. /\ Opened' <=> Opened
        /\ ~Stuck /\ ~Stuck'
        /\ \A c \in Commands : NotDurable(c)' <=> NotDurable(c)
        /\ \A c \in Commands : Unsure(c)' <=> Unsure(c)
    BY <1>2, <1>5, <2>1 DEF Stuck, Unsure
  <2>3. ASSUME NEW c \in Commands, c # cmd PROVE SameFate(c)
    BY <1>5, <2>1, <2>2, <2>3, Mapped DEF SameFate
  <2>4. NotDurable(cmd) /\ ~AllPending(cmd)
    BY <1>4
  <2>5. CASE Opened /\ AllPending(cmd)'
    <3>1. NotDurable(cmd)' /\ InScope(cmd)' /\ ~InScope(cmd)
      BY <1>1, <2>2, <2>4, <2>5, Mapped
    <3>2. Atomic!TakeEffect(cmd)
      BY <1>1, <2>2, <2>3, <2>4, <2>5, <3>1, CommandTakesEffect
    <3> QED
      BY <1>1, <3>2, AbstractSteps
  <2>6. CASE ~(Opened /\ AllPending(cmd)')
    <3>1. SameFate(cmd)
      BY <1>1, <2>2, <2>4, <2>6, Mapped DEF SameFate
    <3> QED
      BY <1>1, <2>2, <2>3, <3>1, NothingHappens DEF Simulated
  <2> QED
    BY <2>5, <2>6
<1>3. CASE (RejectStatement \/ UNCHANGED sessionVars) /\ excuse' = excuse
  BY <1>1, <1>3, SessionStays DEF RejectStatement, sessionVars
<1>6. CASE ConnectionLost /\ excuse' = excuse
  BY <1>1, <1>6, ScopeDropped
<1>7. CASE FailWhileReading
  <2>1. /\ UNCHANGED <<serverTx, durable>> /\ ~busy /\ busy'
        /\ level' = level \/ level' = [level EXCEPT ![<<cmd, sent + 1>>] = depth]
        /\ IF auto THEN excuse' = excuse ELSE Excuse("readerOpen")
    BY <1>7 DEF FailWhileReading, LeaveReaderOpen, RejectWhileReading
  <2>2. /\ Opened' <=> Opened
        /\ Opened <=> ~auto
        /\ \A c \in Commands : NotDurable(c)' <=> NotDurable(c)
        /\ \A c \in Commands \ {cmd} : AllPending(c)' <=> AllPending(c)
    BY <1>1, <1>5, <2>1, WhoseScope DEF Inside
  <2>3. CASE auto
    <3>1. /\ ~Opened /\ ~Opened' /\ ~Stuck /\ ~Stuck'
          /\ \A c \in Commands : Unsure(c)' <=> Unsure(c)
      <4>1. ~Opened /\ ~Opened' /\ excuse' = excuse
        BY <2>1, <2>2, <2>3
      <4> QED
        BY <4>1 DEF Stuck, Unsure
    <3>2. \A c \in Commands : SameFate(c)
      BY <2>2, <3>1, Mapped DEF SameFate
    <3> QED
      BY <1>1, <3>1, <3>2, NothingHappens DEF Simulated
  <2>4. CASE ~auto
    <3> PICK d \in Commands : d = cmd
      BY <1>1
    <3>1. (\A c \in Commands \ {d} : Unsure(c)' <=> Unsure(c)) /\ Unsure(d)'
      BY <1>1, <2>1, <2>4 DEF Excuse, Unsure
    <3>2. ASSUME NEW c \in Commands \ {d} PROVE SameFate(c)
      <4>1. /\ AllPending(c)' <=> AllPending(c)
            /\ NotDurable(c)' <=> NotDurable(c)
            /\ Unsure(c)' <=> Unsure(c)
            /\ Opened' <=> Opened
        BY <2>2, <3>1, <3>2
      <4> QED
        BY <3>2, <4>1, Mapped DEF SameFate
    <3>3. NotDurable(d) /\ NotDurable(d)' /\ ~InScope(d)
      BY <1>4, <2>2, Mapped
    <3>4. Atomic!GetStuck(d)
      BY <1>1, <2>1, <2>2, <2>4, <3>1, <3>2, <3>3, ScopeGetsStuck
    <3> QED
      BY <3>4, AbstractSteps
  <2> QED
    BY <2>3, <2>4
<1> QED
  BY <1>2, <1>3, <1>6, <1>7 DEF ExecuteStatement, Interrupted

LEMMA CommitSimulated ==
  ASSUME IInv, EffectInv, UndisturbedInv, CommitTransaction
  PROVE  Simulated
<1> USE DEF At
<1>1. /\ pc = "commit" /\ auto /\ PartlyDone /\ sent = StatementCount(cmd) /\ serverTx # 0
      /\ cmd \in Commands /\ sent \in Nat /\ depth \in Nat \ {0}
      /\ Steps(cmd) = 1 .. StatementCount(cmd) /\ 1 \in Steps(cmd)
      /\ \A i \in Steps(cmd) : <<cmd, i>> \in Effect
      /\ UNCHANGED <<userTx, cmd, outcome>>
      /\ outcome[cmd] = "none" /\ ~aborted
      /\ excuse \in [Commands -> Excuses] /\ excuse[cmd] = "none"
  BY RunningFacts DEF CommitTransaction, Running, PartlyDone, historyVars, databaseVars,
     IInv, Ownership
<1>2. CASE CommitWork \/ LoseCommitAnswer
  <2>1. ~poisoned /\ ~busy /\ serverTx' = 0 /\ durable' = durable \cup Pending
    BY <1>1, <1>2 DEF CommitWork, LoseCommitAnswer, EndTransaction
  <2>2. ~Opened /\ ~Opened' /\ ~Stuck /\ ~Stuck'
    BY <1>1, <2>1, WhoseScope DEF Inside, IInv, Numbered, Opened, Stuck
  <2>3. ASSUME NEW c \in Commands, c # cmd
        PROVE  (NotDurable(c)' <=> NotDurable(c)) /\ ~InScope(c)' /\ ~InScope(c)
    <3>0. depth = 1
      BY <1>1, <2>1 DEF EffectInv, OwnScope, Inside
    <3>1. \A i \in Steps(c) : ~(level[<<c, i>>] > 0)
      BY <1>1, <2>1, <2>3, <3>0, OthersAreBelow DEF Inside
    <3>2. ~AllPending(c)
      BY <2>3, <3>1, StatementsOf DEF AllPending
    <3>3. NotDurable(c)' <=> NotDurable(c)
      BY <1>1, <1>2, <2>3, <3>2, CommitFate DEF UndisturbedInv
    <3> QED
      BY <2>2, <2>3, <3>3, Mapped
  <2>4. NotDurable(cmd) /\ ~NotDurable(cmd)' /\ ~InScope(cmd)
    <3>1. <<cmd, 1>> \in durable'
      <4>1. level[<<cmd, 1>>] = depth
        BY <1>1 DEF PartlyDone
      <4> QED
        BY <1>1, <2>1, <4>1 DEF Pending
    <3>2. cmd' = cmd /\ Steps(cmd)' = Steps(cmd)
      BY <1>1 DEF Steps, StatementCount
    <3> QED
      BY <1>1, <2>2, <3>1, <3>2, Mapped DEF PartlyDone, NotDurable
  <2>5. CASE excuse' = excuse
    <3>1. \A c \in Commands \ {cmd} : SameFate(c)
      BY <2>3, <2>5 DEF SameFate, Unsure
    <3>2. Atomic!TakeEffect(cmd)
      BY <1>1, <2>2, <2>4, <2>5, <3>1, CommandTakesEffect DEF Unsure
    <3> QED
      BY <1>1, <3>2, AbstractSteps
  <2>6. CASE Excuse("answerLost")
    <3> PICK d \in Commands : d = cmd
      BY <1>1
    <3>1. (\A c \in Commands \ {d} : Unsure(c)' <=> Unsure(c)) /\ Unsure(d)'
      BY <1>1, <2>6 DEF Excuse, Unsure
    <3>2. \A c \in Commands \ {d} : SameFate(c)
      BY <2>3, <3>1 DEF SameFate
    <3>3. NotDurable(d) /\ ~NotDurable(d)'
      BY <1>1, <2>4 DEF NotDurable, Steps, StatementCount
    <3>4. Atomic!LoseResult(d)
      BY <1>1, <2>2, <2>4, <3>1, <3>2, <3>3, CommandLosesResult
    <3> QED
      BY <3>4, AbstractSteps
  <2> QED
    BY <2>5, <2>6 DEF CommitTransaction
<1>3. CASE excuse' = excuse /\ (RollbackWork \/ ConnectionLost)
  BY <1>1, <1>3, ScopeDropped
<1>4. CASE excuse' = excuse /\ UNCHANGED sessionVars
  BY <1>1, <1>4, SessionStays DEF sessionVars
<1> QED
  BY <1>2, <1>3, <1>4 DEF CommitTransaction, Interrupted

LEMMA RollbackSimulated ==
  ASSUME IInv, EffectInv, UndisturbedInv, RollbackCommand
  PROVE  Simulated
<1> USE DEF At
<1>1. /\ pc = "rollback" /\ UNCHANGED <<userTx, cmd, outcome>> /\ cmd \in Commands
      /\ ~cancelled /\ excuse' = excuse
      /\ Failed /\ Undoable /\ level \in [Effect -> Nat] /\ depth \in Nat
  BY RunningFacts DEF RollbackCommand, databaseVars, UndisturbedInv, Running
<1>2. CASE RollbackWork \/ ConnectionLost
  BY <1>1, <1>2, ScopeDropped
<1>3. CASE UNCHANGED sessionVars
  BY <1>1, <1>3, SessionStays DEF sessionVars
<1>4. CASE ~auto /\ RollbackToSavepoint /\ Usable(activeTransaction)
  <2>1. /\ UNCHANGED <<serverTx, durable, busy>> /\ ~poisoned /\ ~busy /\ depth > 1
        /\ serverTx # 0
        /\ level' = [e \in Effect |-> IF level[e] = depth THEN 0 ELSE level[e]]
    BY <1>4 DEF RollbackToSavepoint, Usable, Owns
  <2>2. /\ Opened' <=> Opened
        /\ Stuck' <=> Stuck
        /\ \A c \in Commands : NotDurable(c)' <=> NotDurable(c)
        /\ \A c \in Commands : Unsure(c)' <=> Unsure(c)
    BY <1>1, <2>1 DEF Opened, Stuck, NotDurable, Unsure, Steps, StatementCount
  <2>3. ASSUME NEW c \in Commands, c # cmd PROVE AllPending(c)' <=> AllPending(c)
    <3>1. \A i \in Steps(c) : <<c, i>> \in Effect /\ level[<<c, i>>] < depth
                              /\ level[<<c, i>>] \in Nat
      BY <1>1, <2>1, <2>3, OthersAreBelow, StatementsOf DEF Inside
    <3>2. \A i \in Steps(c) : level'[<<c, i>>] = level[<<c, i>>]
      BY <1>1, <2>1, <3>1
    <3> QED
      BY <3>2 DEF AllPending, Steps, StatementCount
  <2>4. ~AllPending(cmd)' /\ ~AllPending(cmd)
    <3>1. ~AllPending(cmd)
      BY <1>1, <1>4, <2>1 DEF UndisturbedInv
    <3>2. PICK i \in Steps(cmd) : ~(level[<<cmd, i>>] > 0)
      BY <3>1 DEF AllPending
    <3>3. <<cmd, i>> \in Effect /\ i \in Steps(cmd)' /\ cmd' = cmd
      BY <1>1, <3>2, StatementsOf DEF Steps, StatementCount
    <3>4. ~(level'[<<cmd, i>>] > 0)
      BY <2>1, <3>2, <3>3
    <3> QED
      BY <3>1, <3>3, <3>4 DEF AllPending
  <2>5. ASSUME NEW c \in Commands PROVE AllPending(c)' <=> AllPending(c)
    <3>1. CASE c = cmd
      BY <1>1, <2>4, <3>1 DEF AllPending, Steps, StatementCount
    <3> QED
      BY <2>3, <2>5, <3>1
  <2>6. \A c \in Commands : SameFate(c)
    BY <2>2, <2>5, Mapped DEF SameFate
  <2> QED
    BY <1>1, <2>2, <2>6, NothingHappens DEF Simulated
<1> QED
  BY <1>1, <1>2, <1>3, <1>4 DEF RollbackCommand, UndoCommand

LEMMA ReleaseSimulated ==
  ASSUME IInv, EffectInv, UndisturbedInv, ReleaseCommand
  PROVE  Simulated
<1>1. /\ UNCHANGED <<userTx, outcome, excuse>>
      /\ level \in [Effect -> Nat] /\ depth \in Nat
      /\ ReleaseSavepoint \/ ConnectionLost \/ UNCHANGED sessionVars
  BY DEF ReleaseCommand, ReleaseFails, databaseVars, UndisturbedInv, IInv, TypeOK, SessionTypeOK
<1>2. CASE ReleaseSavepoint
  <2>1. /\ UNCHANGED <<serverTx, durable, busy>> /\ depth > 1
        /\ level' = [e \in Effect |-> IF level[e] = depth THEN depth - 1 ELSE level[e]]
    BY <1>2 DEF ReleaseSavepoint
  <2>2. /\ Opened' <=> Opened
        /\ Stuck' <=> Stuck
        /\ \A c \in Commands : NotDurable(c)' <=> NotDurable(c)
        /\ \A c \in Commands : Unsure(c)' <=> Unsure(c)
    BY <1>1, <2>1 DEF Opened, Stuck, NotDurable, Unsure, Steps, StatementCount
  <2>3. ASSUME NEW c \in Commands PROVE AllPending(c)' <=> AllPending(c)
    <3>1. \A i \in Steps(c) : <<c, i>> \in Effect
      BY <2>3, StatementsOf
    <3>2. \A i \in Steps(c) : level'[<<c, i>>] > 0 <=> level[<<c, i>>] > 0
      BY <1>1, <2>1, <3>1
    <3> QED
      BY <3>2 DEF AllPending, Steps, StatementCount
  <2>4. \A c \in Commands : SameFate(c)
    BY <2>2, <2>3, Mapped DEF SameFate
  <2> QED
    BY <1>1, <2>2, <2>4, NothingHappens DEF Simulated
<1>3. CASE UNCHANGED sessionVars
  BY <1>1, <1>3, SessionStays DEF sessionVars
<1> QED
  BY <1>1, <1>2, <1>3, ScopeDropped

LEMMA DirectSimulated ==
  ASSUME IInv, EffectInv, UndisturbedInv, RunDirect
  PROVE  Simulated
<1> USE DEF At
<1>1. /\ pc = "direct" /\ UNCHANGED <<userTx, cmd, outcome>> /\ cmd \in Commands
      /\ KindOf[cmd] = "direct" /\ NothingDone /\ outcome[cmd] = "none"
      /\ StatementCount(cmd) = 1 /\ Steps(cmd) = {1} /\ <<cmd, 1>> \in Effect
      /\ level \in [Effect -> Nat] /\ depth \in Nat
      /\ serverTx # 0 => depth >= 1
      /\ excuse \in [Commands -> Excuses]
  BY RunningFacts DEF RunDirect, databaseVars, Running, Steps
<1>2. PICK d \in Commands : d = cmd
  BY <1>1
<1>3. /\ NotDurable(d) /\ ~AllPending(d) /\ ~InScope(d)
      /\ Steps(d) = {1} /\ Steps(d)' = {1}
  <2>1. NotDurable(d) /\ ~AllPending(d) /\ Steps(d) = {1}
    BY <1>1, <1>2 DEF NothingDone, Untouched, NotDurable, NotPending, AllPending
  <2> QED
    BY <1>2, <2>1, Mapped DEF Steps, StatementCount
<1>4. \/ excuse' = excuse /\ \A c \in Commands : Unsure(c)' <=> Unsure(c)
      \/ (\A c \in Commands \ {d} : Unsure(c)' <=> Unsure(c)) /\ Unsure(d)'
  <2>1. excuse' = excuse \/ \E r \in Excuses \ {"none"} : Excuse(r)
    BY <1>1, Labels DEF RunDirect, DirectSucceeds, DirectThrowsLate, DirectFails
  <2> QED
    BY <1>1, <1>2, <2>1 DEF Excuse, Unsure
<1>5. ASSUME \A c \in Commands \ {d} : SameFate(c),
             Opened' <=> Opened, ~Stuck, ~Stuck',
             IF Opened THEN InScope(d)' /\ NotDurable(d)' ELSE ~NotDurable(d)'
      PROVE  Simulated
  <2>1. CASE \A c \in Commands : Unsure(c)' <=> Unsure(c)
    <3>1. Atomic!TakeEffect(d)
      BY <1>1, <1>2, <1>3, <1>5, <2>1, CommandTakesEffect
    <3> QED
      BY <3>1, AbstractSteps
  <2>2. CASE Unsure(d)'
    <3>1. Atomic!LoseResult(d)
      BY <1>1, <1>2, <1>3, <1>5, <2>2, CommandLosesResult
    <3> QED
      BY <3>1, AbstractSteps
  <2> QED
    BY <1>4, <2>1, <2>2
<1>6. CASE serverTx = 0 /\ (ExecuteAlone(<<cmd, 1>>) \/ LoseStatementAnswer(<<cmd, 1>>))
  <2>1. /\ durable' = durable \cup {<<d, 1>>} /\ UNCHANGED <<serverTx, level>>
        /\ ~Opened /\ ~Opened' /\ ~Stuck /\ ~Stuck' /\ ~NotDurable(d)'
    BY <1>1, <1>2, <1>3, <1>6, WhoseScope
       DEF ExecuteAlone, LoseStatementAnswer, Opened, Stuck, NotDurable
  <2>2. ASSUME NEW c \in Commands, c # d PROVE SameFate(c)
    BY <1>4, <2>1, <2>2, Mapped DEF SameFate, NotDurable, Steps, StatementCount
  <2> QED
    BY <1>5, <2>1, <2>2
<1>7. CASE serverTx # 0 /\ ExecuteInTransaction(<<cmd, 1>>)
  <2>1. /\ level' = [level EXCEPT ![<<d, 1>>] = depth] /\ UNCHANGED <<serverTx, durable, busy>>
        /\ ~busy
    BY <1>2, <1>7 DEF ExecuteInTransaction
  <2>2. Opened /\ Opened' /\ ~Stuck /\ ~Stuck'
    BY <1>1, <1>7, <2>1, WhoseScope DEF Outside, Opened, Stuck
  <2>3. \A c \in Commands : NotDurable(c)' <=> NotDurable(c)
    BY <2>1 DEF NotDurable, Steps, StatementCount
  <2>4. ASSUME NEW c \in Commands, c # d PROVE SameFate(c)
    <3>1. \A i : level'[<<c, i>>] = level[<<c, i>>] \/ <<c, i>> \notin Effect
      BY <1>1, <2>1, <2>4
    <3>2. AllPending(c)' <=> AllPending(c)
      BY <2>4, <3>1, StatementsOf DEF AllPending, Steps, StatementCount
    <3> QED
      BY <1>4, <2>2, <2>3, <2>4, <3>2, Mapped DEF SameFate
  <2>5. AllPending(d)'
    BY <1>1, <1>2, <1>3, <1>7, <2>1 DEF AllPending
  <2> QED
    BY <1>3, <1>5, <2>2, <2>3, <2>4, <2>5, Mapped
<1>8. CASE excuse' = excuse /\ ConnectionLost
  BY <1>1, <1>8, ScopeDropped
<1>9. CASE excuse' = excuse /\ (UNCHANGED sessionVars \/ RejectStatement)
  BY <1>1, <1>9, SessionStays DEF sessionVars, RejectStatement
<1> QED
  BY <1>1, <1>6, <1>7, <1>8, <1>9
     DEF RunDirect, DirectSucceeds, DirectThrowsLate, DirectEffect, DirectFails, Interrupted

LEMMA ReturnSimulated ==
  ASSUME IInv, EffectInv, UndisturbedInv, ReturnToCaller
  PROVE  Simulated
<1> USE DEF At
<1>1. /\ pc = "return" /\ Returning /\ outcome[cmd] = "none" /\ cmd \in Commands
      /\ result \in Results /\ UNCHANGED <<sessionVars, userTx, excuse>>
      /\ outcome' = [outcome EXCEPT ![cmd] = result]
      /\ 1 \in Steps(cmd)
  BY RunningFacts DEF ReturnToCaller, Running, databaseVars
<1>2. PICK d \in Commands : d = cmd
  BY <1>1
<1>3. /\ Opened' <=> Opened
      /\ Stuck' <=> Stuck
      /\ \A c \in Commands : SameFate(c)
  <2>1. ASSUME NEW c \in Commands
        PROVE  /\ AllPending(c)' <=> AllPending(c)
               /\ NotDurable(c)' <=> NotDurable(c)
               /\ Unsure(c)' <=> Unsure(c)
    BY <1>1, SessionUnchanged DEF Unsure
  <2>2. (Opened' <=> Opened) /\ (Stuck' <=> Stuck)
    BY <1>1 DEF Opened, Stuck, sessionVars
  <2> QED
    BY <2>1, <2>2, Mapped DEF SameFate
<1>4. CASE result = "ok"
  <2>1. ~Unsure(d) /\ IF Opened THEN AllPending(d) ELSE ~NotDurable(d)
    <3>1. serverTx # 0 => Opened
      BY <1>1, WhoseScope DEF Outside
    <3>2. AllDurable(cmd) => ~NotDurable(cmd)
      BY <1>1 DEF AllDurable, NotDurable
    <3> QED
      BY <1>1, <1>2, <1>4, <3>1, <3>2, WhoseScope DEF Returning, Unsure
  <2>2. Atomic!ReportSuccess(d)
    BY <1>1, <1>2, <1>3, <1>4, <2>1, Mapped
       DEF Atomic!ReportSuccess, SameFate, Opened, Stuck, Unsure
  <2> QED
    BY <2>2, AbstractSteps
<1>5. CASE result # "ok"
  <2>1. (~InScope(d) /\ NotDurable(d)) \/ Unsure(d)
    <3>1. CASE excuse[cmd] = "none"
      <4>1. NotDurable(d) /\ ~AllPending(d)
        <5>1. Untouched(d) /\ 1 \in Steps(d)
          BY <1>1, <1>2, <1>5, <3>1 DEF Returning
        <5>2. NotDurable(d) /\ level[<<d, 1>>] = 0
          BY <5>1 DEF Untouched, NotPending
        <5> QED
          BY <5>1, <5>2 DEF AllPending
      <4> QED
        BY <4>1, Mapped
    <3>2. CASE excuse[cmd] # "none"
      BY <1>2, <3>2 DEF Unsure
    <3> QED
      BY <3>1, <3>2
  <2>2. result \in {"threw", "swallowed"}
    BY <1>1, <1>5 DEF Results
  <2>3. \E r \in {"threw", "swallowed"} : outcome' = [outcome EXCEPT ![d] = r]
    BY <1>1, <1>2, <2>2
  <2>4. /\ outcome[d] = "none"
        /\ d \notin ({c \in Commands : InScope(c)}
                       \cup {c \in Commands : durable \cap EffectsOf(c) # {}})
                     \ {c \in Commands : excuse[c] # "none"}
    BY <1>1, <1>2, <2>1, Mapped DEF Unsure
  <2>5. /\ (serverTx \in userTx)' = (serverTx \in userTx)
        /\ (busy /\ serverTx \in userTx)' = (busy /\ serverTx \in userTx)
        /\ {c \in Commands : InScope(c)}' = {c \in Commands : InScope(c)}
        /\ {c \in Commands : durable \cap EffectsOf(c) # {}}'
             = {c \in Commands : durable \cap EffectsOf(c) # {}}
        /\ {c \in Commands : excuse[c] # "none"}' = {c \in Commands : excuse[c] # "none"}
    BY <1>3, Mapped DEF SameFate, Opened, Stuck, Unsure
  <2>6. Atomic!ReportFailure(d)
    BY <2>3, <2>4, <2>5 DEF Atomic!ReportFailure
  <2> QED
    BY <2>6, AbstractSteps
<1> QED
  BY <1>4, <1>5

-----------------------------------------------------------------------------
(* The steps of the caller.                                                *)

LEMMA BeginSimulated ==
  ASSUME IInv, EffectInv, BeginTransaction
  PROVE  Simulated
<1> USE DEF At
<1>1. /\ pc = "idle" /\ UNCHANGED <<outcome, excuse>>
      /\ created \in Nat /\ userTx \subseteq 1 .. created
      /\ HasActiveTransaction => activeTransaction \in userTx
  BY DEF BeginTransaction, commandVars, historyVars, IInv, TypeOK, DatabaseTypeOK, Numbered,
     Ownership, Outside
<1>2. CASE HasActiveTransaction
  <2>1. userTx' = userTx
    BY <1>1, <1>2 DEF BeginTransaction
  <2> QED
    BY <1>1, <1>2, <2>1, SessionStays DEF BeginTransaction, sessionVars, OpenConnection
<1>3. CASE OpenConnection /\ UNCHANGED databaseVars
  BY <1>1, <1>3, SessionStays DEF OpenConnection, databaseVars
<1>4. CASE CreateTransaction /\ userTx' = userTx \cup {created + 1}
  <2>1. /\ serverTx = 0 /\ serverTx' = created + 1 /\ UNCHANGED <<level, durable>>
        /\ ~busy'
    BY <1>4 DEF CreateTransaction, BeginWork, EffectInv, Levelled
  <2>2. ~Opened /\ Opened'
    BY <1>1, <1>4, <2>1, WhoseScope DEF Opened
  <2>3. ASSUME NEW c \in Commands PROVE ~InScope(c)'
    <3>1. 1 \in Steps(c) /\ <<c, 1>> \in Effect
      BY <2>3, StatementsOf
    <3>2. level[<<c, 1>>] \in Nat /\ level[<<c, 1>>] <= 0
      BY <2>1, <3>1 DEF EffectInv, Levelled, IInv, TypeOK, SessionTypeOK
    <3>3. ~(level'[<<c, 1>>] > 0) /\ 1 \in Steps(c)'
      BY <2>1, <3>1, <3>2 DEF Steps, StatementCount
    <3>4. ~AllPending(c)'
      BY <3>3 DEF AllPending
    <3> QED
      BY <2>3, <3>4, Mapped
  <2> QED
    BY <1>1, <2>1, <2>2, <2>3, ScopeOpens, AbstractSteps
<1> QED
  BY <1>2, <1>3, <1>4 DEF BeginTransaction

LEMMA CallerCommitSimulated ==
  ASSUME IInv, EffectInv, UndisturbedInv, NEW t \in userTx, CommitByCaller(t)
  PROVE  Simulated
<1> USE DEF At
<1>1. /\ pc = "idle" /\ UNCHANGED <<userTx, outcome, excuse>> /\ serverTx = t
  BY DEF CommitByCaller, commandVars, historyVars, databaseVars, Usable, Owns
<1>2. CASE CommitWork \/ LoseCommitAnswer
  <2>1. Opened /\ ~Opened' /\ ~busy
    BY <1>1, <1>2 DEF Opened, CommitWork, LoseCommitAnswer, EndTransaction, IInv, Numbered
  <2>2. ASSUME NEW c \in Commands
        PROVE  /\ aborted => (NotDurable(c)' <=> NotDurable(c))
               /\ ~aborted => (NotDurable(c)' <=> NotDurable(c) /\ ~InScope(c))
    BY <1>1, <1>2, <2>1, <2>2, CommitFate, Mapped DEF UndisturbedInv
  <2>3. Atomic!CloseScope
    <3>1. CASE aborted
      BY <1>1, <2>1, <2>2, <3>1, ScopeCloses
    <3>2. CASE ~aborted
      BY <1>1, <2>1, <2>2, <3>2, ScopeCloses
    <3> QED
      BY <3>1, <3>2
  <2> QED
    BY <2>3, AbstractSteps
<1>3. CASE ConnectionLost
  BY <1>1, <1>3, ScopeDropped
<1> QED
  BY <1>2, <1>3 DEF CommitByCaller

-----------------------------------------------------------------------------
(* The refinement.                                                         *)

LEMMA InitSimulated == NoInterference /\ Init => NoInterference /\ UndisturbedInv /\ Atomic!Init
<1> SUFFICES ASSUME NoInterference, Init PROVE UndisturbedInv /\ Atomic!Init
  OBVIOUS
<1>1. /\ pc = "idle" /\ ~cancelled /\ userTx = {} /\ durable = {}
      /\ outcome = [c \in Commands |-> "none"] /\ excuse = [c \in Commands |-> "none"]
  BY DEF Init, SessionInit
<1>2. UndisturbedInv
  BY <1>1 DEF UndisturbedInv
<1>3. Atomic!Init
  BY <1>1 DEF Atomic!Init, InScope
<1> QED
  BY <1>2, <1>3

LEMMA StepSimulated ==
  ASSUME NoInterference, IInv, EffectInv, UndisturbedInv, [Next]_vars
  PROVE  Simulated
<1> USE DEF databaseVars, historyVars
<1>1. CASE RunCommand
  <2>1. CASE ValidateConnection
    BY <2>1, SessionStays DEF ValidateConnection, OpenConnection, sessionVars
  <2>2. CASE GetTransaction
    <3>1. UNCHANGED <<userTx, outcome, excuse>>
      BY <2>2 DEF GetTransaction
    <3>2. CASE UNCHANGED sessionVars
      BY <3>1, <3>2, SessionStays DEF sessionVars
    <3>3. CASE CreateTransaction
      <4>1. UNCHANGED <<level, durable>> /\ ~Opened /\ ~Opened' /\ ~Stuck /\ ~Stuck'
        <5>1. serverTx = 0 /\ serverTx' = created + 1 /\ created \in Nat /\ userTx \subseteq 1 .. created
          BY <3>3 DEF CreateTransaction, BeginWork, IInv, Numbered, TypeOK, DatabaseTypeOK
        <5> QED
          BY <3>1, <3>3, <5>1 DEF CreateTransaction, BeginWork, Opened, Stuck
      <4>2. ASSUME NEW c \in Commands PROVE SameFate(c)
        BY <3>1, <4>1, <4>2, Mapped DEF SameFate, NotDurable, Unsure, Steps, StatementCount
      <4> QED
        BY <3>1, <4>1, <4>2, NothingHappens DEF Simulated
    <3>4. CASE ConnectionLost
      BY <3>1, <3>4, ScopeDropped
    <3> QED
      BY <2>2, <3>2, <3>3, <3>4 DEF GetTransaction, Interrupted
  <2>3. CASE SaveSavepoint
    BY <2>3, SessionStays DEF SaveSavepoint, Savepoint, sessionVars
  <2>4. CASE ExecuteStatement
    BY <2>4, StatementSimulated
  <2>5. CASE CommitTransaction
    BY <2>5, CommitSimulated
  <2>6. CASE LogSuccess
    BY <2>6, SessionStays DEF LogSuccess, NoInterference, LoggerThrows, sessionVars
  <2>7. CASE RollbackCommand
    BY <2>7, RollbackSimulated
  <2>8. CASE LogException
    BY <2>8, SessionStays DEF LogException, sessionVars
  <2>9. CASE DisposeOwnTransaction
    <3>1. UNCHANGED <<userTx, outcome, excuse>>
      BY <2>9 DEF DisposeOwnTransaction
    <3> QED
      BY <2>9, <3>1, SessionStays, ScopeDropped
         DEF DisposeOwnTransaction, DisposeTransaction, sessionVars
  <2>10. CASE ReleaseCommand
    BY <2>10, ReleaseSimulated
  <2>11. CASE RunDirect
    BY <2>11, DirectSimulated
  <2>12. CASE ReturnToCaller
    BY <2>12, ReturnSimulated
  <2> QED
    BY <1>1, <2>1, <2>2, <2>3, <2>4, <2>5, <2>6, <2>7, <2>8, <2>9, <2>10, <2>11, <2>12
       DEF RunCommand
<1>2. CASE CancelToken
  BY <1>2, SessionStays DEF CancelToken, sessionVars
<1>3. CASE Caller
  <2> USE DEF commandVars
  <2>1. ASSUME NEW c \in Commands, StartCommand(c) PROVE Simulated
    BY <2>1, SessionStays DEF StartCommand, sessionVars
  <2>2. CASE BeginTransaction
    BY <2>2, BeginSimulated
  <2>3. ASSUME NEW t \in userTx, CommitByCaller(t) PROVE Simulated
    BY <2>3, CallerCommitSimulated
  <2>4. ASSUME NEW t \in userTx, RollbackByCaller(t) PROVE Simulated
    BY <2>4, ScopeDropped DEF RollbackByCaller
  <2>5. ASSUME NEW t \in userTx, DisposeByCaller(t) PROVE Simulated
    <3>1. UNCHANGED <<userTx, outcome, excuse>>
      BY <2>5 DEF DisposeByCaller
    <3> QED
      BY <2>5, <3>1, SessionStays, ScopeDropped DEF DisposeByCaller, DisposeTransaction, sessionVars
  <2>6. CASE DisposeDatabase
    BY <2>6, SessionStays, ScopeDropped DEF DisposeDatabase, sessionVars
  <2>7. CASE DisposeDatabaseAsync
    BY <2>7, SessionStays, ScopeDropped DEF DisposeDatabaseAsync, sessionVars
  <2> QED
    BY <1>3, <2>1, <2>2, <2>3, <2>4, <2>5, <2>6, <2>7 DEF Caller
<1>4. CASE UNCHANGED vars
  BY <1>4, SessionStays DEF vars, sessionVars
<1> QED
  BY <1>1, <1>2, <1>3, <1>4 DEF Next

(* When nobody cancels a command and no logger throws, the commands        *)
(* implement AtomicCommands: each takes effect as a whole, durably or in   *)
(* the scope its caller opened, and reports what it did, whichever         *)
(* statement, client code or connection fails at whichever await.          *)
THEOREM CommandsAreAtomic == NoInterference /\ Spec => ImplementsAtomicCommands
<1>1. NoInterference /\ Init => NoInterference /\ UndisturbedInv /\ Atomic!Init
  BY InitSimulated
<1>2. NoInterference /\ UndisturbedInv /\ IInv /\ EffectInv /\ [Next]_vars
        => (NoInterference /\ UndisturbedInv)'
  BY Undisturbed DEF NoInterference
<1>3. NoInterference /\ UndisturbedInv /\ IInv /\ EffectInv /\ [Next]_vars
        => [Atomic!Next]_(Atomic!vars)
  BY StepSimulated DEF Simulated
<1> QED
  BY <1>1, <1>2, <1>3, Invariance, EffectInvariance, PTL
     DEF Spec, ImplementsAtomicCommands, Atomic!Spec

=============================================================================

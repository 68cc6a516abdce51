----------------------------- MODULE CommandScope -----------------------------
(***************************************************************************)
(* A Database and the commands one caller runs on it, one after the other  *)
(* (a Database does not support concurrent use).  Insert, update and delete*)
(* commands each run in a transaction: their own one, committed at the end,*)
(* or, when the Database has an active transaction, a savepoint of it.     *)
(* Query and ExecuteAsync run on the connection as it is.                  *)
(*                                                                         *)
(* Every await of a command is a step of its own (pc), because that is     *)
(* where the server, the connection, the caller's cancellation token or a  *)
(* logger may make the rest of the method unwind through catch and finally.*)
(***************************************************************************)
EXTENDS NpgsqlSession

CONSTANTS
  KindOf,               \* KindOf[c]: which command c is
  MaxTransactions,      \* bound: how many DatabaseTransaction objects are created
  ThrowLoggedExceptions,\* the VenflowConfiguration switch
  Faults                \* which kinds of failure may happen

Kinds == {"insert", "modify", "direct"}   \* modify: update or delete
AllFaults == {"statement", "client", "connection", "cancel", "logger"}

ASSUME CommandsAssumption ==
  /\ KindOf \in [Commands -> Kinds]
  /\ MaxTransactions \in Nat
  /\ ThrowLoggedExceptions \in BOOLEAN
  /\ Faults \subseteq AllFaults

VARIABLES
  activeTransaction,  \* Database._activeTransaction, 0 for null
  isDisposed,         \* the transaction objects whose IsDisposed is set
  created,            \* how many transaction objects exist
  userTx,             \* those that BeginTransactionAsync handed to the caller
  disposeReport,      \* what disposing the Database did: "none", "silent", "threw"
  pc, cmd,            \* the running command and where it is
  auto,               \* its ShouldAutoCommit
  sent,               \* statements of it that succeeded
  cancelled,          \* its cancellation token was triggered
  result,             \* how it will return
  outcome,            \* how each command has returned
  excuse              \* what kept a command from cleaning up or reporting right

databaseVars == <<activeTransaction, isDisposed, created, userTx, disposeReport>>
historyVars == <<outcome, excuse>>
vars == <<sessionVars, databaseVars, pc, cmd, auto, sent, cancelled, result,
          historyVars>>

StatementCount(c) == IF KindOf[c] = "insert" THEN Statements ELSE 1
EffectsOf(c) == {<<c, i>> : i \in 1 .. StatementCount(c)}

HasActiveTransaction == activeTransaction # 0 /\ activeTransaction \notin isDisposed

Init ==
  /\ SessionInit
  /\ activeTransaction = 0
  /\ isDisposed = {}
  /\ created = 0
  /\ userTx = {}
  /\ disposeReport = "none"
  /\ pc = "idle"
  /\ cmd \in Commands
  /\ auto = TRUE
  /\ sent = 0
  /\ cancelled = FALSE
  /\ result = "ok"
  /\ outcome = [c \in Commands |-> "none"]
  /\ excuse = [c \in Commands |-> "none"]

-----------------------------------------------------------------------------
(* Building blocks of the steps.                                           *)

At(label) == pc = label
Goto(label) == pc' = label

(* An exception reaches the catch block of the running method.             *)
Caught == Goto("rollback") /\ UNCHANGED result

(* An exception leaves the method.                                         *)
Throw == Goto("return") /\ result' = "threw"

Excuse(reason) == excuse' = [excuse EXCEPT ![cmd] = reason]

(* An awaited call that takes the token throws without having had effect,  *)
(* or takes the connection with it.                                        *)
ConnectionLost == (poisoned \/ "connection" \in Faults) /\ LoseConnection
Interrupted == (cancelled /\ UNCHANGED sessionVars) \/ ConnectionLost

LoggerThrows == "logger" \in Faults

(* Definitions named X_Y are variants of X with a mistake.  No             *)
(* specification uses them; they show which property would notice.         *)
LoggedFailure_Unreported == IF ThrowLoggedExceptions THEN "threw" ELSE "none"

(* A logged exception is rethrown unless ThrowLoggedExceptions is off.     *)
LoggedFailure == IF ThrowLoggedExceptions THEN "threw" ELSE "swallowed"

-----------------------------------------------------------------------------
(* Running a command.                                                      *)

StartCommand(c) ==
  /\ At("idle") /\ outcome[c] = "none"
  /\ created < MaxTransactions
  /\ cmd' = c
  /\ auto' = TRUE /\ sent' = 0 /\ cancelled' = FALSE /\ result' = "ok"
  /\ Goto("validate")
  /\ UNCHANGED <<sessionVars, databaseVars, historyVars>>

CancelToken ==
  /\ "cancel" \in Faults
  /\ ~At("idle") /\ ~cancelled
  /\ cancelled' = TRUE
  /\ UNCHANGED <<sessionVars, databaseVars, pc, cmd, auto, sent, result, historyVars>>

(* An insert also resolves its inserter here, which may not compile.       *)
ValidateConnection ==
  /\ At("validate")
  /\ \/ /\ IF connection = "open" THEN UNCHANGED sessionVars ELSE OpenConnection
        /\ Goto(IF KindOf[cmd] = "direct" THEN "direct" ELSE "begin")
        /\ UNCHANGED result
     \/ /\ \/ connection = "disposed"
           \/ connection # "open" /\ "connection" \in Faults
           \/ KindOf[cmd] = "insert" /\ "client" \in Faults
        /\ Throw
        /\ UNCHANGED sessionVars
  /\ UNCHANGED <<databaseVars, cmd, auto, sent, cancelled, historyVars>>

CreateTransaction ==
  /\ BeginWork(created + 1)
  /\ created' = created + 1
  /\ activeTransaction' = created + 1
  /\ UNCHANGED <<isDisposed, disposeReport>>

GetTransaction ==
  /\ At("begin")
  /\ auto' = ~HasActiveTransaction
  /\ \/ /\ HasActiveTransaction
        /\ Goto("save")
        /\ UNCHANGED <<sessionVars, databaseVars, result>>
     \/ /\ ~HasActiveTransaction
        /\ CreateTransaction
        /\ Goto("execute")
        /\ UNCHANGED <<userTx, result>>
     \/ /\ ~HasActiveTransaction
        /\ (serverTx # 0 /\ UNCHANGED sessionVars) \/ Interrupted
        /\ Throw
        /\ UNCHANGED databaseVars
  /\ UNCHANGED <<cmd, sent, cancelled, historyVars>>

SaveSavepoint_Once ==
  /\ At("save")
  /\ \/ Usable(activeTransaction) /\ depth = 1 /\ Savepoint /\ Goto("execute")
     \/ (~Usable(activeTransaction) \/ depth > 1) /\ Goto("execute") /\ UNCHANGED sessionVars
  /\ UNCHANGED <<databaseVars, cmd, auto, sent, cancelled, result, historyVars>>

SaveSavepoint ==
  /\ At("save")
  /\ IF Usable(activeTransaction)
       THEN Savepoint /\ Goto("execute") /\ UNCHANGED result
       ELSE Caught /\ UNCHANGED sessionVars
  /\ UNCHANGED <<databaseVars, cmd, auto, sent, cancelled, historyVars>>

(* What follows the last statement: an insert has logged each statement    *)
(* itself and returns, an update or delete logs once.                      *)
AfterWork == IF KindOf[cmd] = "insert" THEN "finally" ELSE "log"
AfterStatement_TooEarly(n) == IF n + 1 < StatementCount(cmd) THEN "execute"
                              ELSE IF auto THEN "commit" ELSE AfterWork
AfterStatement_NoCommit(n) == IF n < StatementCount(cmd) THEN "execute" ELSE AfterWork

AfterStatement(n) == IF n < StatementCount(cmd) THEN "execute"
                     ELSE IF auto THEN "commit" ELSE AfterWork

(* The generated inserter reads the keys of a statement from a reader,     *)
(* which it only disposes when nothing fails; its catch block drops it.    *)
FailWhileReading ==
  /\ KindOf[cmd] = "insert"
  /\ \/ ("client" \in Faults \/ cancelled) /\ LeaveReaderOpen(<<cmd, sent + 1>>)
     \/ ("statement" \in Faults \/ cancelled) /\ RejectWhileReading
  /\ IF auto THEN UNCHANGED excuse ELSE Excuse("readerOpen")

ExecuteStatement ==
  /\ At("execute")
  /\ \/ /\ ExecuteInTransaction(<<cmd, sent + 1>>)
        /\ sent' = sent + 1
        /\ \/ Goto(AfterStatement(sent + 1))
           \/ KindOf[cmd] = "insert" /\ LoggerThrows /\ Goto("rollback")
        /\ UNCHANGED excuse
     \/ /\ \/ "statement" \in Faults /\ RejectStatement
           \/ "client" \in Faults /\ UNCHANGED sessionVars
           \/ cancelled /\ RejectStatement
           \/ Interrupted
        /\ Goto("rollback")
        /\ UNCHANGED <<sent, excuse>>
     \/ FailWhileReading /\ Goto("rollback") /\ UNCHANGED sent
  /\ UNCHANGED <<databaseVars, cmd, auto, cancelled, result, outcome>>

(* A lost answer to COMMIT leaves open whether the server has committed.   *)
CommitTransaction ==
  /\ At("commit")
  /\ \/ CommitWork /\ Goto(AfterWork) /\ UNCHANGED excuse
     \/ /\ \/ "statement" \in Faults /\ RollbackWork
           \/ Interrupted
        /\ Goto("rollback")
        /\ UNCHANGED excuse
     \/ /\ "connection" \in Faults /\ LoseCommitAnswer
        /\ Goto("rollback")
        /\ Excuse("answerLost")
  /\ UNCHANGED <<databaseVars, cmd, auto, sent, cancelled, result, outcome>>

(* Logging the success is inside the try block, after the commit.          *)
LogSuccess ==
  /\ At("log")
  /\ \/ Goto("finally") /\ UNCHANGED excuse
     \/ /\ LoggerThrows
        /\ Goto("rollback")
        /\ IF auto THEN Excuse("loggerThrew") ELSE UNCHANGED excuse
  /\ UNCHANGED <<sessionVars, databaseVars, cmd, auto, sent, cancelled, result, outcome>>

-----------------------------------------------------------------------------
UndoCommand_Nothing == IF auto THEN RollbackWork ELSE UNCHANGED sessionVars
UndoCommand_Everything == RollbackWork

UndoCommand == IF auto THEN RollbackWork ELSE RollbackToSavepoint

(* The catch block: roll back, then log the exception.  When the rollback  *)
(* itself throws, the exception is neither logged nor rethrown.            *)
RollbackCommand ==
  /\ At("rollback")
  /\ \/ /\ Usable(activeTransaction)
        /\ UndoCommand
        /\ Goto("logError")
        /\ UNCHANGED <<result, excuse>>
     \/ /\ \/ ~Usable(activeTransaction) /\ UNCHANGED <<sessionVars, excuse>>
           \/ Usable(activeTransaction) /\ ConnectionLost /\ UNCHANGED excuse
           \/ /\ Usable(activeTransaction) /\ cancelled
              /\ UNCHANGED sessionVars
              /\ IF auto THEN UNCHANGED excuse ELSE Excuse("cleanupCancelled")
        /\ result' = "threw"
        /\ Goto("finally")
  /\ UNCHANGED <<databaseVars, cmd, auto, sent, cancelled, outcome>>

LogException ==
  /\ At("logError")
  /\ result' \in {LoggedFailure} \cup (IF LoggerThrows THEN {"threw"} ELSE {})
  /\ Goto("finally")
  /\ UNCHANGED <<sessionVars, databaseVars, cmd, auto, sent, cancelled, historyVars>>

(* Disposing a transaction object sets IsDisposed first, then lets Npgsql  *)
(* close an open reader and roll back what is still open.                  *)
DisposeTransaction_OnlyMarked(t) ==
  /\ isDisposed' = isDisposed \cup {t}
  /\ UNCHANGED sessionVars

DisposeTransaction_NotMarked(t) ==
  /\ isDisposed' = IF result = "ok" THEN isDisposed \cup {t} ELSE isDisposed
  /\ IF Owns(t) THEN RollbackWork \/ ConnectionLost ELSE UNCHANGED sessionVars

DisposeTransaction(t) ==
  /\ isDisposed' = isDisposed \cup {t}
  /\ IF Owns(t) THEN RollbackWork \/ ConnectionLost ELSE UNCHANGED sessionVars

(* The finally block of a command that created its transaction.            *)
DisposeOwnTransaction ==
  /\ At("finally") /\ auto
  /\ DisposeTransaction(activeTransaction)
  /\ Goto("return")
  /\ UNCHANGED <<activeTransaction, created, userTx, disposeReport,
                 cmd, auto, sent, cancelled, result, historyVars>>

(* A release that throws replaces whatever the command would have returned.*)
ReleaseFails_Never == FALSE /\ UNCHANGED <<sessionVars, excuse>>

ReleaseFails ==
  \/ ~Usable(activeTransaction) /\ UNCHANGED <<sessionVars, excuse>>
  \/ Usable(activeTransaction) /\ ConnectionLost /\ UNCHANGED excuse
  \/ /\ Usable(activeTransaction) /\ aborted /\ ~poisoned
     /\ UNCHANGED <<sessionVars, excuse>>
  \/ /\ Usable(activeTransaction) /\ cancelled
     /\ UNCHANGED sessionVars
     /\ IF result = "ok" THEN Excuse("cleanupCancelled") ELSE UNCHANGED excuse

(* The finally block of a command inside the caller's transaction.         *)
ReleaseCommand ==
  /\ At("finally") /\ ~auto
  /\ \/ /\ Usable(activeTransaction)
        /\ ReleaseSavepoint
        /\ Goto("return")
        /\ UNCHANGED <<result, excuse>>
     \/ ReleaseFails /\ Throw
  /\ UNCHANGED <<databaseVars, cmd, auto, sent, cancelled, outcome>>

-----------------------------------------------------------------------------
(* A query or ExecuteAsync: one statement, no transaction of its own and   *)
(* no savepoint.  Inside a transaction a rejected statement aborts it.     *)
DirectEffect ==
  IF serverTx = 0 THEN ExecuteAlone(<<cmd, 1>>) ELSE ExecuteInTransaction(<<cmd, 1>>)

DirectSucceeds == DirectEffect /\ result' = "ok" /\ UNCHANGED excuse

DirectFailed == result' \in {LoggedFailure, "threw"}

(* The statement took effect, and then its scalar cannot be cast, the      *)
(* materializer cannot be built or read a row, or a logger throws.         *)
DirectThrowsLate ==
  /\ DirectEffect
  /\ \/ ("client" \in Faults \/ cancelled) /\ Excuse("clientThrew")
     \/ LoggerThrows /\ Excuse("loggerThrew")
  /\ DirectFailed

DirectFails ==
  /\ \/ /\ "statement" \in Faults \/ cancelled \/ aborted
        /\ IF serverTx = 0 THEN UNCHANGED sessionVars ELSE RejectStatement
        /\ UNCHANGED excuse
     \/ ("client" \in Faults \/ busy) /\ UNCHANGED <<sessionVars, excuse>>
     \/ Interrupted /\ UNCHANGED excuse
     \/ /\ "connection" \in Faults /\ serverTx = 0
        /\ LoseStatementAnswer(<<cmd, 1>>)
        /\ Excuse("answerLost")
  /\ DirectFailed

RunDirect ==
  /\ At("direct")
  /\ DirectSucceeds \/ DirectThrowsLate \/ DirectFails
  /\ sent' = sent + 1
  /\ Goto("return")
  /\ UNCHANGED <<databaseVars, cmd, auto, cancelled, outcome>>

ReturnToCaller ==
  /\ At("return")
  /\ outcome' = [outcome EXCEPT ![cmd] = result]
  /\ Goto("idle")
  /\ UNCHANGED <<sessionVars, databaseVars, cmd, auto, sent, cancelled, result, excuse>>

RunCommand ==
  \/ ValidateConnection \/ GetTransaction \/ SaveSavepoint \/ ExecuteStatement
  \/ CommitTransaction \/ LogSuccess \/ RollbackCommand \/ LogException
  \/ DisposeOwnTransaction \/ ReleaseCommand \/ RunDirect \/ ReturnToCaller

-----------------------------------------------------------------------------
(* What the caller does between two commands.                              *)

commandVars == <<pc, cmd, auto, sent, cancelled, result, historyVars>>

(* BeginTransactionAsync hands out the active transaction if there is one. *)
BeginTransaction ==
  /\ At("idle") /\ created < MaxTransactions
  /\ connection # "disposed"
  /\ \/ /\ HasActiveTransaction
        /\ IF connection = "open" THEN UNCHANGED sessionVars ELSE OpenConnection
        /\ userTx' = userTx \cup {activeTransaction}
        /\ UNCHANGED <<activeTransaction, isDisposed, created, disposeReport>>
     \/ /\ ~HasActiveTransaction
        /\ connection = "open"
        /\ CreateTransaction
        /\ userTx' = userTx \cup {created + 1}
     \/ /\ ~HasActiveTransaction        \* opened, but BEGIN was not possible yet
        /\ OpenConnection
        /\ UNCHANGED databaseVars
  /\ UNCHANGED commandVars

CallerHolds(t) == t \in userTx /\ t \notin isDisposed

CommitByCaller(t) ==
  /\ At("idle") /\ CallerHolds(t) /\ Usable(t)
  /\ \/ CommitWork
     \/ ConnectionLost
     \/ "connection" \in Faults /\ LoseCommitAnswer
  /\ UNCHANGED <<databaseVars, commandVars>>

RollbackByCaller(t) ==
  /\ At("idle") /\ CallerHolds(t) /\ Usable(t)
  /\ RollbackWork \/ ConnectionLost
  /\ UNCHANGED <<databaseVars, commandVars>>

DisposeByCaller(t) ==
  /\ At("idle") /\ CallerHolds(t)
  /\ DisposeTransaction(t)
  /\ UNCHANGED <<activeTransaction, created, userTx, disposeReport, commandVars>>

(* Dispose closes the connection, then complains about an active           *)
(* transaction.                                                            *)
DisposeDatabase ==
  /\ At("idle") /\ disposeReport = "none"
  /\ IF connection = "none" THEN UNCHANGED sessionVars ELSE CloseConnection("disposed")
  /\ disposeReport' = IF HasActiveTransaction THEN "threw" ELSE "silent"
  /\ UNCHANGED <<activeTransaction, isDisposed, created, userTx, commandVars>>

(* DisposeAsync returns as soon as it has a connection to dispose.         *)
DisposeDatabaseAsync ==
  /\ At("idle") /\ disposeReport = "none"
  /\ IF connection # "none"
       THEN CloseConnection("disposed") /\ disposeReport' = "silent"
       ELSE /\ UNCHANGED sessionVars
            /\ disposeReport' = IF HasActiveTransaction THEN "threw" ELSE "silent"
  /\ UNCHANGED <<activeTransaction, isDisposed, created, userTx, commandVars>>

Caller ==
  \/ \E c \in Commands : StartCommand(c)
  \/ BeginTransaction
  \/ \E t \in userTx : CommitByCaller(t) \/ RollbackByCaller(t) \/ DisposeByCaller(t)
  \/ DisposeDatabase
  \/ DisposeDatabaseAsync

Next == RunCommand \/ CancelToken \/ Caller

Spec == Init /\ [][Next]_vars

(* An await of a running command eventually completes, one way or another. *)
FairSpec == Spec /\ WF_vars(RunCommand)

-----------------------------------------------------------------------------
(* Properties.                                                             *)

PcLabels == {"idle", "validate", "begin", "save", "execute", "commit", "log",
             "rollback", "logError", "finally", "direct", "return"}
Results == {"ok", "threw", "swallowed"}
Excuses == {"none", "answerLost", "clientThrew", "loggerThrew", "readerOpen",
            "cleanupCancelled"}

DatabaseTypeOK ==
  /\ activeTransaction \in Nat
  /\ isDisposed \subseteq Nat
  /\ created \in Nat
  /\ userTx \subseteq Nat
  /\ disposeReport \in {"none", "silent", "threw"}

CommandTypeOK ==
  /\ pc \in PcLabels
  /\ cmd \in Commands
  /\ auto \in BOOLEAN
  /\ sent \in Nat
  /\ cancelled \in BOOLEAN
  /\ result \in Results
  /\ outcome \in [Commands -> Results \cup {"none"}]
  /\ excuse \in [Commands -> Excuses]

(* Every variable has its type.                                            *)
TypeOK == SessionTypeOK /\ DatabaseTypeOK /\ CommandTypeOK

(* Database.HasActiveTransaction never misses an open transaction: what is *)
(* open on the server is the transaction object the Database holds, and it *)
(* is not marked as disposed.  Otherwise the next BEGIN would be refused.  *)
ServerTransactionIsActive ==
  serverTx # 0 => serverTx = activeTransaction /\ HasActiveTransaction

(* A command's own transaction does not outlive the command: whatever      *)
(* failed on the way, the active transaction that the next command will    *)
(* join with a savepoint is one the caller began.                          *)
NoLeakedAutoTransaction ==
  pc \in {"idle", "validate", "begin", "direct"} =>
    (HasActiveTransaction => activeTransaction \in userTx)

(* An insert's statements become durable together or not at all, even when *)
(* it fails between two of them inside the caller's transaction.  The only *)
(* way around it is a cancelled rollback to the savepoint.                 *)
AllOrNothing ==
  \A c \in Commands :
    excuse[c] # "cleanupCancelled" =>
      (durable \cap EffectsOf(c) # {} => EffectsOf(c) \subseteq durable)

(* A command that threw, or whose exception was swallowed, has left        *)
(* nothing behind: nothing durable and nothing in the caller's transaction.*)
(* The exceptions are a lost answer, a logger that throws after the commit,*)
(* a clean-up call that was cancelled, and a query or ExecuteAsync whose   *)
(* result could not be used after the statement had taken effect.  An      *)
(* insert that failed while it read keys in the caller's transaction left  *)
(* its reader open and its rows in there, but they never become durable.   *)
FailureLeavesNothing ==
  \A c \in Commands :
    outcome[c] \in {"threw", "swallowed"} =>
      /\ excuse[c] = "none" => EffectsOf(c) \cap (durable \cup Pending) = {}
      /\ excuse[c] = "readerOpen" => EffectsOf(c) \cap durable = {}

(* A command that returns normally has done all of its work: it is durable,*)
(* or it is pending in the transaction the caller still has to commit.     *)
SuccessMeansDone ==
  [][\A c \in Commands :
       outcome[c] # "ok" /\ outcome'[c] = "ok" =>
         EffectsOf(c) \subseteq IF serverTx' = 0 THEN durable' ELSE Pending']_vars

(* While the caller's transaction is open, no later command takes away the *)
(* work of an earlier one that succeeded, although all commands use the    *)
(* same savepoint name and failed ones may leave theirs behind.            *)
EarlierWorkSurvives ==
  [][\A c \in Commands :
       /\ outcome[c] = "ok"
       /\ serverTx # 0 /\ serverTx' = serverTx
       => (EffectsOf(c) \cap Pending) \subseteq Pending']_vars

(* A command never ends the caller's transaction, not even by failing; only*)
(* losing the connection does.                                             *)
OuterTransactionSurvives ==
  [][pc # "idle" /\ serverTx \in userTx =>
       serverTx' = serverTx \/ connection' = "closed"]_vars

(* Every command that was started returns.                                 *)
CommandReturns == pc # "idle" ~> pc = "idle"

(* The exception in Database.DisposeAsync says that a transaction which    *)
(* was never disposed is reported when the Database is.  DisposeDatabase   *)
(* does report it, DisposeDatabaseAsync only without a connection, so no   *)
(* run checks this one.                                                    *)
OpenTransactionReported ==
  [][disposeReport = "none" /\ disposeReport' # "none" /\ HasActiveTransaction =>
       disposeReport' = "threw"]_vars

-----------------------------------------------------------------------------
(* The mapping to the abstract specification: a command counts as a whole, *)
(* and the transaction that a command creates for itself is not a scope.   *)
InScope(c) == serverTx \in userTx /\ EffectsOf(c) \subseteq Pending

Atomic == INSTANCE AtomicCommands WITH
  Direct  <- {c \in Commands : KindOf[c] = "direct"},
  open    <- serverTx \in userTx,
  stuck   <- busy /\ serverTx \in userTx,
  scope   <- {c \in Commands : InScope(c)},
  durable <- {c \in Commands : durable \cap EffectsOf(c) # {}},
  unsure  <- {c \in Commands : excuse[c] # "none"},
  status  <- outcome

(* Without cancellation and throwing loggers the commands implement        *)
(* AtomicCommands, whatever the server, the client and the connection do.  *)
ImplementsAtomicCommands == Atomic!Spec

=============================================================================

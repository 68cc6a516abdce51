-------------------------- MODULE CommandParameters ---------------------------
(***************************************************************************)
(* The text and the parameters of one command object.  The text refers to  *)
(* a parameter by a name that is made of a column and of a counter; the    *)
(* server gets the value of the first parameter of that name.  Queries get *)
(* their parameters from interpolated strings, updates and deletes from    *)
(* the entities given to them.  A command that is not disposed after its   *)
(* execution may be used for another one.                                  *)
(***************************************************************************)
EXTENDS Integers, Sequences, FiniteSets, SequencesExt, TLC

CONSTANTS
  Columns,        \* names of the columns of the entity
  PrimaryColumn,  \* its primary key
  Entities,       \* objects of the entity, numbered
  Tracked,        \* those of them that are change tracked
  Assignable,     \* bound: those of them whose properties are set
  Batches,        \* the sequences of objects given to one call
  ListSizes,      \* the sizes of interpolated lists
  MaxArguments,   \* bound: arguments of an interpolated string
  MaxAssignments, \* bound: assignments to properties
  MaxUses         \* bound: executions of the command

ASSUME ParametersAssumption ==
  /\ IsFiniteSet(Columns) /\ Columns \subseteq STRING /\ PrimaryColumn \in Columns
  /\ Entities \subseteq Nat \ {0} /\ Tracked \subseteq Entities /\ Assignable \subseteq Tracked
  /\ Batches \subseteq Seq(Entities) /\ \A b \in Batches : IsInjective(b)
  /\ ListSizes \subseteq Nat
  /\ {MaxArguments, MaxAssignments} \subseteq Nat /\ MaxUses \in Nat \ {0}

(* What the names of parameters owe to strings: joining them is            *)
(* associative and can be undone, and no two numbers are written alike.    *)
TextLaws(texts) ==
  /\ {"@p", "PK"} \subseteq texts
  /\ \A s, t \in texts : s \o t \in STRING
  /\ \A s, t, u \in texts : (s \o t) \o u = s \o (t \o u)
  /\ \A s, t, u \in texts : s \o t = s \o u => t = u
NumberLaws(numbers) ==
  /\ \A i \in numbers : ToString(i) \in STRING
  /\ \A i, j \in numbers : ToString(i) = ToString(j) => i = j

VARIABLES
  use,            \* what the command is for: "query", "update" or "delete"
  disposeCommand,
  phase,          \* "idle", "building", "sent", "disposed"
  uses,           \* history: how often the command was executed
  parameters,     \* UnderlyingCommand.Parameters
  statement,      \* the placeholders in the text, each with the value meant
  parameterIndex, \* the counter of interpolated parameters
  arguments,      \* history: the arguments of a query, the size of a list and
                  \* -1 for any other value
  batch,          \* the objects given to an update
  index,          \* the next of them
  entity,         \* the properties of the objects
  marked,         \* the changed columns in the objects' ChangeTrackers
  isDirty,        \* their flags
  refused,        \* history: whether an untracked object was given
  unsent          \* history: assigned columns that no execution has had since

commandVars == <<use, disposeCommand, uses, parameters, statement, parameterIndex, arguments, batch, index>>
entityVars == <<entity, marked, isDirty, unsent>>
vars == <<commandVars, phase, entityVars, refused>>

Settable == Columns \ {PrimaryColumn}

(* All values differ: those of an argument by its position, those of a     *)
(* property by the assignment they stem from.                              *)
Argument(i) == <<0, "argument", i>>
Property(e, c) == <<e, c, IF c = PrimaryColumn THEN 0 ELSE entity[e][c]>>
NoValue == <<0, "none", 0>>

Parameter(name, value) == [name |-> name, value |-> value]
Placeholder(name, value) == [name |-> name, meant |-> value]

Init ==
  /\ use \in {"query", "update", "delete"}
  /\ disposeCommand \in BOOLEAN
  /\ phase = "idle"
  /\ uses = 0
  /\ parameters = <<>> /\ statement = <<>>
  /\ parameterIndex = 0
  /\ arguments = <<>>
  /\ batch = <<>> /\ index = 0
  /\ entity = [e \in Entities |-> [c \in Settable |-> 0]]
  /\ \E columns \in SUBSET Settable :
       /\ marked = [e \in Entities |-> IF e \in Tracked THEN columns ELSE {}]
       /\ isDirty = [e \in Entities |-> marked[e] # {}]
       /\ unsent = marked
  /\ refused = FALSE

-----------------------------------------------------------------------------
(* Queries: the arguments of an interpolated string, one after the other.  *)

(* A name made from a negative number is not read as one: the sign ends it. *)
Written(i) == IF i < 0 THEN "@p" ELSE "@p" \o ToString(i)

Add(names, values) ==
  /\ parameters' = parameters \o [i \in DOMAIN names |-> Parameter("@p" \o ToString(names[i]), values[i])]
  /\ statement' = statement \o [i \in DOMAIN names |-> Placeholder(Written(names[i]), values[i])]

NewArguments(n) == [i \in 1 .. n |-> Argument(Len(statement) + i)]

HandleValue_Kept ==
  /\ Add(<<parameterIndex>>, NewArguments(1))
  /\ arguments' = Append(arguments, -1)
  /\ UNCHANGED parameterIndex

HandleValue ==
  /\ Add(<<parameterIndex>>, NewArguments(1))
  /\ arguments' = Append(arguments, -1)
  /\ parameterIndex' = parameterIndex + 1

(* After a list the counter is set back, after an empty one too.           *)
HandleList(n) ==
  /\ Add([i \in 1 .. n |-> parameterIndex + i - 1], NewArguments(n))
  /\ arguments' = Append(arguments, n)
  /\ parameterIndex' = parameterIndex + n - 1

HandleParameter ==
  /\ use = "query" /\ uses = 0 /\ phase \in {"idle", "building"}
  /\ phase' = "building"
  /\ Len(arguments) < MaxArguments
  /\ HandleValue \/ \E n \in ListSizes : HandleList(n)
  /\ UNCHANGED <<use, disposeCommand, uses, batch, index, entityVars, refused>>

-----------------------------------------------------------------------------
(* Updates and deletes.                                                    *)

(* What the value retriever of a column returns.                           *)
ValueRetriever(e, c, suffix) == Parameter("@p" \o c \o suffix, Property(e, c))

Names(retrieved) == [i \in DOMAIN retrieved |-> Placeholder(retrieved[i].name, retrieved[i].value)]

(* A first change of an object that is not dirty starts a new array.       *)
MakeDirty_Kept(e, c) ==
  /\ marked' = [marked EXCEPT ![e] = @ \cup {c}]
  /\ isDirty' = [isDirty EXCEPT ![e] = TRUE]
MakeDirty(e, c) ==
  /\ marked' = [marked EXCEPT ![e] = (IF isDirty[e] THEN @ ELSE {}) \cup {c}]
  /\ isDirty' = [isDirty EXCEPT ![e] = TRUE]

Assigned == UNION {{entity[e][c] : c \in Settable} : e \in Assignable}

(* The setter of a tracked object.                                         *)
Assign(e, c) ==
  /\ phase \in {"idle", "sent"} /\ use = "update"
  /\ Max(Assigned) < MaxAssignments
  /\ entity' = [entity EXCEPT ![e][c] = Max(Assigned) + 1]
  /\ MakeDirty(e, c)
  /\ unsent' = [unsent EXCEPT ![e] = @ \cup {c}]
  /\ UNCHANGED <<commandVars, phase, refused>>

MayStart == phase \in {"idle", "sent"} /\ uses < MaxUses

StartUpdate ==
  /\ use = "update" /\ MayStart
  /\ phase' = "building"
  /\ batch' \in Batches /\ index' = 0
  /\ statement' = <<>>
  /\ UNCHANGED <<use, disposeCommand, uses, parameters, parameterIndex, arguments, entityVars, refused>>

(* The statement for one object: its changed columns, and its key.         *)
Retrieved_OneName(e, i) ==
  [j \in 1 .. Cardinality(marked[e]) |-> ValueRetriever(e, SetToSeq(marked[e])[j], ToString(i))]
    \o <<ValueRetriever(e, PrimaryColumn, "PK")>>
Retrieved(e, i) ==
  [j \in 1 .. Cardinality(marked[e]) |-> ValueRetriever(e, SetToSeq(marked[e])[j], ToString(i))]
    \o <<ValueRetriever(e, PrimaryColumn, "PK" \o ToString(i))>>

(* An object that was not changed is passed over; one that is not tracked  *)
(* ends the call with an exception, whatever came before it.               *)
BaseUpdate ==
  LET e == batch[index + 1] IN
  /\ use = "update" /\ phase = "building" /\ index < Len(batch)
  /\ IF e \notin Tracked
     THEN /\ phase' = "idle" /\ refused' = TRUE
          /\ UNCHANGED <<index, parameters, statement, isDirty>>
     ELSE /\ index' = index + 1
          /\ IF isDirty[e]
             THEN /\ parameters' = parameters \o Retrieved(e, index)
                  /\ statement' = statement \o Names(Retrieved(e, index))
                  /\ isDirty' = [isDirty EXCEPT ![e] = FALSE]
             ELSE UNCHANGED <<parameters, statement, isDirty>>
          /\ UNCHANGED <<phase, refused>>
  /\ UNCHANGED <<use, disposeCommand, uses, parameterIndex, arguments, batch, entity, marked, unsent>>

(* The keys of the objects, forwards for an IEnumerable and backwards for  *)
(* lists and arrays.                                                       *)
DeleteParameters_OneName(objects, forwards) ==
  [i \in DOMAIN objects |-> ValueRetriever(objects[i], PrimaryColumn, ToString(0))]
DeleteParameters(objects, forwards) ==
  LET ascending == [i \in DOMAIN objects |-> ValueRetriever(objects[i], PrimaryColumn, ToString(i - 1))]
  IN IF forwards THEN ascending ELSE Reverse(ascending)

BuildDelete ==
  /\ use = "delete" /\ MayStart
  /\ \E objects \in Batches, forwards \in BOOLEAN :
       /\ objects # <<>>
       /\ parameters' = parameters \o DeleteParameters(objects, forwards)
       /\ statement' = Names(DeleteParameters(objects, forwards))
  /\ phase' = "building"
  /\ UNCHANGED <<use, disposeCommand, uses, parameterIndex, arguments, batch, index, entityVars, refused>>

-----------------------------------------------------------------------------

(* The columns that the statement sets for an object.                      *)
SetColumns(e) ==
  {statement[i].meant[2] : i \in {j \in DOMAIN statement : statement[j].meant[1] = e}} \ {PrimaryColumn}

(* A query may be executed again as it is.  At its end an execution        *)
(* disposes the command if it was told to.                                 *)
Execute ==
  /\ \/ phase = "building" /\ (use = "update" => index = Len(batch) /\ statement # <<>>)
     \/ phase = "sent" /\ use = "query" /\ uses < MaxUses
  /\ phase' = IF disposeCommand THEN "disposed" ELSE "sent"
  /\ uses' = uses + 1
  /\ unsent' = [e \in Entities |-> IF use = "update" THEN unsent[e] \ SetColumns(e) ELSE unsent[e]]
  /\ UNCHANGED <<use, disposeCommand, parameters, statement, parameterIndex, arguments,
                 batch, index, entity, marked, isDirty, refused>>

(* Without a changed object there is nothing to execute.                   *)
NothingToUpdate ==
  /\ use = "update" /\ phase = "building" /\ index = Len(batch) /\ statement = <<>>
  /\ phase' = "idle"
  /\ UNCHANGED <<commandVars, entityVars, refused>>

Next ==
  \/ HandleParameter
  \/ \E e \in Assignable, c \in Settable : Assign(e, c)
  \/ StartUpdate \/ BaseUpdate \/ BuildDelete
  \/ Execute \/ NothingToUpdate

Spec == Init /\ [][Next]_vars
-----------------------------------------------------------------------------
(* Properties.                                                             *)

(* The variables have the types of the fields they stand for.              *)
TypeOK ==
  /\ use \in {"query", "update", "delete"} /\ disposeCommand \in BOOLEAN /\ refused \in BOOLEAN
  /\ phase \in {"idle", "building", "sent", "disposed"}
  /\ uses \in 0 .. MaxUses /\ parameterIndex \in Int
  /\ Len(statement) <= Len(parameters)
  /\ batch \in Batches \cup {<<>>} /\ index \in 0 .. Len(batch)
  /\ \A e \in Entities : marked[e] \cup unsent[e] \subseteq Settable /\ isDirty[e] \in BOOLEAN

(* What the server gets in a placeholder's place: Npgsql takes the first   *)
(* parameter of its name.                                                  *)
Bound(placeholder) ==
  LET i == SelectInSeq(parameters, LAMBDA p : p.name = placeholder.name)
  IN IF i = 0 THEN NoValue ELSE parameters[i].value

Sent == phase \in {"sent", "disposed"}
SentAsMeant == \A i \in DOMAIN statement : Bound(statement[i]) = statement[i].meant

(* Nothing but empty lists follows a list.                                 *)
ListsComeLast ==
  \A i, j \in DOMAIN arguments : i < j /\ arguments[i] >= 0 => arguments[j] = 0

(* No column is named like another one with a number behind it, for the    *)
(* numbers that a batch of n objects uses.                                 *)
Unambiguous(columns, n) ==
  LET numbers == {ToString(i) : i \in 0 .. n - 1} IN
  \A c, d \in columns, s, t \in numbers :
    /\ c # d => c \o s # d \o t
    /\ c \o s # PrimaryColumn \o "PK" \o t

UsedColumns == {statement[i].meant[2] : i \in DOMAIN statement} \ {PrimaryColumn}

(* Every argument of an interpolated string reaches the place it was       *)
(* written at, however many values and how long a list there are, and in   *)
(* every execution, if only the list is the last argument.                 *)
ArgumentsReachTheirPlaces == use = "query" /\ Sent /\ ListsComeLast => SentAsMeant

(* An UPDATE of several objects gives each row its own values, and a       *)
(* DELETE names each row, if names cannot be confused and the command was  *)
(* not used before.                                                        *)
WritesReachTheirRows ==
  use # "query" /\ Sent /\ uses = 1 /\ ~refused /\ Unambiguous(UsedColumns, Len(batch)) => SentAsMeant

(* No assignment is forgotten: what no execution has had is marked, and    *)
(* the next update of the object will send it, and nothing but that.  An   *)
(* object that is not tracked spoils this for those before it in a batch:  *)
(* their flags are cleared and nothing is executed.                        *)
ChangesAreKept ==
  /\ TypeOK
  /\ phase # "building" /\ ~refused =>
       \A e \in Tracked : unsent[e] = IF isDirty[e] THEN marked[e] ELSE {}

(* The guide's example continues the string after a list: "if names would  *)
(* be provided, it would only query those and additionally they would need *)
(* to be longer than 5 characters" (guides/advanced/interpolation.md).     *)
ListsMayBeFollowed == use = "query" /\ Sent => SentAsMeant

(* "Asynchronously updates the provided entity by its defined primary      *)
(* keys" (Table.cs) with a command that was created earlier.               *)
ReusedUpdatesReachTheirRows ==
  use = "update" /\ Sent /\ ~refused /\ Unambiguous(UsedColumns, Len(batch)) => SentAsMeant
=============================================================================

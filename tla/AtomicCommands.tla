---------------------------- MODULE AtomicCommands ----------------------------
(***************************************************************************)
(* What Venflow's commands promise, without transaction objects,           *)
(* savepoints or awaits.  A command takes effect as a whole: durably, or   *)
(* inside the scope the caller opened, where it stays until the caller     *)
(* commits the scope or the scope is discarded.  It reports success only   *)
(* after it took effect, and failure only when it did not, with three      *)
(* exceptions: the answer to what made it durable was lost; it was a       *)
(* direct command, whose result may be of no use to the client after it    *)
(* took effect; or it failed half-way in the caller's scope and left it    *)
(* stuck, so that nothing more happens in it and it is never committed.    *)
(***************************************************************************)
CONSTANTS
  Commands,
  Direct     \* those that neither begin a transaction nor set a savepoint

VARIABLES
  open,      \* the caller has a scope
  stuck,     \* it can only be discarded
  scope,     \* commands that took effect in it
  durable,   \* commands that took effect durably
  unsure,    \* commands whose effect nobody has confirmed
  status     \* what each command reported: "none", "ok", "threw", "swallowed"

vars == <<open, stuck, scope, durable, unsure, status>>

Init ==
  /\ open = FALSE
  /\ stuck = FALSE
  /\ scope = {}
  /\ durable = {}
  /\ unsure = {}
  /\ status = [c \in Commands |-> "none"]

Fresh(c) == status[c] = "none" /\ c \notin scope \cup durable

Apply(c) ==
  /\ Fresh(c) /\ ~stuck
  /\ IF open
       THEN scope' = scope \cup {c} /\ UNCHANGED durable
       ELSE durable' = durable \cup {c} /\ UNCHANGED scope
  /\ UNCHANGED <<open, stuck, status>>

TakeEffect(c) == Apply(c) /\ UNCHANGED unsure

(* In the caller's scope only a direct command fails after it took effect. *)
LoseResult(c) ==
  /\ open => c \in Direct
  /\ Apply(c)
  /\ unsure' = unsure \cup {c}

GetStuck(c) ==
  /\ Fresh(c) /\ open /\ ~stuck
  /\ stuck' = TRUE
  /\ scope' \in {scope, scope \cup {c}}
  /\ unsure' = unsure \cup {c}
  /\ UNCHANGED <<open, durable, status>>

ReportSuccess(c) ==
  /\ status[c] = "none"
  /\ c \in (IF open THEN scope ELSE durable) \ unsure
  /\ status' = [status EXCEPT ![c] = "ok"]
  /\ UNCHANGED <<open, stuck, scope, durable, unsure>>

ReportFailure(c) ==
  /\ status[c] = "none"
  /\ c \notin (scope \cup durable) \ unsure
  /\ \E r \in {"threw", "swallowed"} : status' = [status EXCEPT ![c] = r]
  /\ UNCHANGED <<open, stuck, scope, durable, unsure>>

OpenScope == ~open /\ open' = TRUE /\ UNCHANGED <<stuck, scope, durable, unsure, status>>

CloseScope ==
  /\ open
  /\ open' = FALSE /\ stuck' = FALSE
  /\ scope' = {}
  /\ durable' \in {durable} \cup (IF stuck THEN {} ELSE {durable \cup scope})
  /\ UNCHANGED <<unsure, status>>

Next ==
  \/ \E c \in Commands :
       \/ TakeEffect(c) \/ LoseResult(c) \/ GetStuck(c)
       \/ ReportSuccess(c) \/ ReportFailure(c)
  \/ OpenScope
  \/ CloseScope

Spec == Init /\ [][Next]_vars

=============================================================================

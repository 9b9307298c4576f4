-------------------------- MODULE ActionLifecycle --------------------------
(***************************************************************************)
(* What tq allows the status of an action to do, whoever works on it: the  *)
(* state machine of README.md, "Action State Machine", with the worker's   *)
(* way back to pending (docs/dispatch.md, "Action lifecycle"); and the     *)
(* promise made to whoever completes an action with a result: once told    *)
(* that it is done, it is done for good, or its result is kept in the      *)
(* metadata.                                                               *)
(*                                                                         *)
(* Module Dispatch is shown to implement this specification.               *)
(***************************************************************************)
EXTENDS Integers

CONSTANT Actions

VARIABLES
    status,    \* the status of each action
    kept,      \* actions whose metadata keeps a successful result
    told       \* actions some caller was told are done, with a result

vars == <<status, kept, told>>

Live     == {"pending", "running", "dispatched"}
Terminal == {"done", "failed", "cancelled"}

Init ==
    /\ status = [a \in Actions |-> "pending"]
    /\ kept = {}
    /\ told = {}

Move(a, from, to) ==
    /\ status[a] = from
    /\ status' = [status EXCEPT ![a] = to]
    /\ UNCHANGED <<kept, told>>

\* A worker or `tq action dispatch` takes the action.
Claim(a) == Move(a, "pending", "running")

\* The worker finds no free slot.
Defer(a) == Move(a, "running", "pending")

\* The action runs in a remote session now.
HandOver(a) == Move(a, "running", "dispatched")

\* Several live actions may end at a time; the callers in T, whose actions
\* are done now or were done already, are told so.
Conclude(S, st, T) ==
    /\ \A a \in S : status[a] \in Live
    /\ status' = [a \in Actions |-> IF a \in S THEN st ELSE status[a]]
    /\ \A a \in T : status'[a] = "done"
    /\ told' = told \cup T
    /\ UNCHANGED kept

\* A result that came too late is kept, and only then is its caller told.
Archive(a) ==
    /\ kept' = kept \cup {a}
    /\ told' = told \cup {a}
    /\ UNCHANGED status

\* `tq action reset`.
Revive(a) ==
    /\ status[a] \in {"failed", "cancelled"}
    /\ status' = [status EXCEPT ![a] = "pending"]
    /\ UNCHANGED <<kept, told>>

\* `tq action cancel` of a failed action.  Dispatch never takes this step: the
\* command lets the action through (cmd/cancel.go:42) and says it is cancelled,
\* but the store leaves what is terminal alone (db/action.go:300).
Abandon(a) == Move(a, "failed", "cancelled")

Next ==
    \/ \E a \in Actions :
          Claim(a) \/ Defer(a) \/ HandOver(a) \/ Abandon(a) \/ Archive(a) \/ Revive(a)
    \/ \E S, T \in SUBSET Actions, st \in Terminal : Conclude(S, st, T)

Spec == Init /\ [][Next]_vars
=============================================================================

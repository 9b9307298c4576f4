----------------------------- MODULE MCDispatch -----------------------------
(* Instances of Dispatch for TLC: constants that a .cfg cannot spell, and   *)
(* the symmetry of interchangeable model values (used for safety only).     *)
EXTENDS Dispatch, TLC

CONSTANTS a1, a2

AllInteractive               == [a \in Actions |-> "interactive"]
InteractiveAndNonInteractive == a1 :> "interactive" @@ a2 :> "noninteractive"
NonInteractiveAndRemote      == a1 :> "noninteractive" @@ a2 :> "remote"

Resets              == [o \in Operators |-> {"reset"}]
CancelReset         == [o \in Operators |-> {"cancel", "reset"}]
DoneCancelReset     == [o \in Operators |-> {"done", "cancel", "reset"}]
CancelResetDispatch == [o \in Operators |-> {"cancel", "reset", "dispatch"}]
FailDispatch        == [o \in Operators |-> {"fail", "dispatch"}]

SessionSymmetry == Permutations(Sessions)
FullSymmetry    == SessionSymmetry \cup Permutations(Workers) \cup Permutations(Actions)
=============================================================================

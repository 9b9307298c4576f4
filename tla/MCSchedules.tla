---------------------------- MODULE MCSchedules ----------------------------
(***************************************************************************)
(* Instances of Schedules for TLC.                                         *)
(***************************************************************************)
EXTENDS Schedules, TLC

CONSTANTS p1, p2, t1, t2, s1, s2, a1, a2, a3, o1, w1

TaskSymmetry == Permutations({t1, t2})

\* Cron expressions: at the first instant, at both.
Once       == {{1}}
BothInstants == {{1, 2}}
=============================================================================

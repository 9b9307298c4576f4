--------------------------- MODULE MCDependencies ---------------------------
(* Instance of Dependencies for TLC: constants that a .cfg cannot spell.    *)
EXTENDS Dependencies, TLC

CONSTANTS t1, t2, p1, p2

MCHome  == t1 :> p1 @@ t2 :> p2
MCOwner == 1 :> t1 @@ 2 :> t2 @@ 3 :> t1

=============================================================================

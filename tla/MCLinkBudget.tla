---------------------------- MODULE MCLinkBudget ----------------------------
(* The constants of LinkBudget and the symmetry of its movers.             *)
EXTENDS LinkBudget, TLC

CONSTANTS m1, m2
Movers == Permutations(Mover)
=============================================================================

---------------------------- MODULE MCBindPolicy ----------------------------
(* Small instances of BindPolicy for TLC: for the premium at hand the senior  *)
(* needs a co-sign and the CUO does not.                                      *)
EXTENDS BindPolicy, TLC

CONSTANTS c1, c2, senior, cuo

MCTierOf == [u \in Users |-> IF u = senior THEN "senior" ELSE "cuo"]

MCVerdict == [u \in Users |-> IF u = senior THEN "needs_co_sign" ELSE "approved"]

CallerSymmetry == Permutations(Callers)
=============================================================================

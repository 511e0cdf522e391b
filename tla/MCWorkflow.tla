----------------------------- MODULE MCWorkflow -----------------------------
(* Small instances of Workflow for TLC: a junior, a senior and the CUO.      *)
EXTENDS Workflow, TLC

CONSTANTS c1, c2, junior, senior, cuo

MCTierOf == [u \in {junior, senior, cuo} |->
                CASE u = junior -> "junior"
                  [] u = senior -> "senior"
                  [] u = cuo -> "cuo"]

\* Callers are interchangeable, and no property of these runs is a liveness one.
CallerSymmetry == Permutations(Callers)
=============================================================================

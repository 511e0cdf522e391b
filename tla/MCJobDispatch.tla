--------------------------- MODULE MCJobDispatch ---------------------------
(* Small instances of JobDispatch for TLC.  No symmetry: the runs have        *)
(* liveness properties.                                                       *)
EXTENDS JobDispatch, TLC

CONSTANTS j1, j2, j3
=============================================================================

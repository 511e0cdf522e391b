--------------------------- MODULE MCRecordStore ---------------------------
(* Small instances of RecordStore for TLC.  No symmetry: the runs have        *)
(* liveness properties.                                                       *)
EXTENDS RecordStore, TLC

CONSTANTS s1, s2, s3, s4
=============================================================================

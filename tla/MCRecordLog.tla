----------------------------- MODULE MCRecordLog -----------------------------
(* Instances of RecordLog: a few interchangeable records and two crashes. *)
EXTENDS RecordLog, TLC

CONSTANTS r1, r2, r3

Interchangeable == Permutations(Records)
=============================================================================

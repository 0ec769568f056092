------------------------------ MODULE MCRunRow ------------------------------
(***************************************************************************)
(* Model values for the runs of RunRow: a user run u, a validation run v,  *)
(* two calls of run_job.                                                   *)
(***************************************************************************)
EXTENDS RunRow, TLC

CONSTANTS u, v, a, b

\* The two calls are interchangeable.
Symmetry == Permutations(Workers)
=============================================================================

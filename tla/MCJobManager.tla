---------------------------- MODULE MCJobManager ----------------------------
(***************************************************************************)
(* Model values for the runs of JobManager: user runs u1, u2, an owned     *)
(* upload v1 and an internal one n1.                                       *)
(***************************************************************************)
EXTENDS JobManager

CONSTANTS u1, u2, v1, n1

(* Nobody cancels the run that hangs, and it is refused nothing.           *)
LeftAlone ==
    \A j \in Hangs : j \notin acked /\ (req[j] = "done" => job[j].future # "none" \/ Down)
=============================================================================

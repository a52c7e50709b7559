---------------------------- MODULE MCJobRuntime ----------------------------
(* Instances of JobRuntime for TLC. *)
EXTENDS JobRuntime, TLC

CONSTANTS j1, m1, s1, s2

\* A manual and a scheduled run, and two scheduled runs, of one job.
ManualAndScheduled == m1 :> j1 @@ s1 :> j1
TwoScheduled == s1 :> j1 @@ s2 :> j1
=============================================================================

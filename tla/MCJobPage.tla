------------------------------ MODULE MCJobPage -----------------------------
(* Instances of JobPage for TLC; Jobs, items and drops are bounded by the   *)
(* constants of the specification.                                          *)
EXTENDS JobPage
=============================================================================

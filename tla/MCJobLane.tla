------------------------------ MODULE MCJobLane -----------------------------
(* Instances of JobLane for TLC; Jobs and items are bounded by the          *)
(* constants MaxJobs and MaxItems of the specification.                     *)
EXTENDS JobLane
=============================================================================

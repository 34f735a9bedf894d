----------------------------- MODULE MCJobRunner -----------------------------
(* Instances of JobRunner: the intervals of four jobs.                     *)
EXTENDS JobRunner

FourJobs == <<1, 2, 1, 1>>
=============================================================================

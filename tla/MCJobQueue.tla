------------------------------ MODULE MCJobQueue ------------------------------
(* A small instance of the job queue for TLC.                              *)
EXTENDS JobQueue

\* One of the workers was started with --max-jobs 1.
OneLeaves == LET v == CHOOSE w \in Workers : TRUE
             IN  [w \in Workers |-> IF w = v THEN 1 ELSE 0]
=============================================================================

---------------------------- MODULE MCReviewGraph ----------------------------
(* Small instances of one review and the processes that run it, for TLC.   *)
EXTENDS ReviewGraph, TLC

\* Processes are interchangeable in every action and safety property.
ProcSymmetry == Permutations(Procs)
=============================================================================

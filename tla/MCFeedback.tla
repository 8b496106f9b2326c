------------------------------ MODULE MCFeedback ------------------------------
(* Feedback with two processes and two ratings. *)
EXTENDS Feedback, TLC

CONSTANTS p, q

Interchangeable == Permutations(Procs)
===============================================================================

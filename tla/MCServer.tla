------------------------------ MODULE MCServer ------------------------------
(* A small instance of Server: every worker, and every request, is like the  *)
(* next.                                                                     *)
EXTENDS Server, TLC

WorkerSymmetry == Permutations(Worker)
=============================================================================

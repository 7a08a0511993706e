-------------------------- MODULE MCWorkerService --------------------------
(***************************************************************************)
(* Instances of WorkerService for TLC.  Workers and operators are model    *)
(* values that the specification only compares, so permuting them is sound *)
(* for the runs that check safety alone.                                   *)
(***************************************************************************)
EXTENDS WorkerService, TLC

Symmetry == Permutations(Workers) \cup Permutations(Operators)
=============================================================================

------------------------------ MODULE MCOmp ------------------------------
(* The omp extension for model checking: tasks are interchangeable. *)
EXTENDS OmpExtension, TLC

TaskSymmetry == Permutations(Tasks)

=============================================================================

------------------------------ MODULE MCPlugin ------------------------------
(* The OpenCode plugin for model checking: tasks are interchangeable. *)
EXTENDS OpencodePlugin, TLC

TaskSymmetry == Permutations(Tasks)

=============================================================================

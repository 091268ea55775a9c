------------------------------ MODULE MCEditor ------------------------------
(* One source root, in which a key can have two files, or two. *)
EXTENDS Editor

CONSTANTS r1, r2

OneRoot == <<r1>>
TwoRoots == <<r1, r2>>

=============================================================================

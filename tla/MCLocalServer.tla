---------------------------- MODULE MCLocalServer ----------------------------
(* Small instances of LocalServer for TLC. *)
EXTENDS LocalServer, TLC

(* Calls are interchangeable, and so are recordings. *)
Symmetry == Permutations(Calls) \cup Permutations(Contents)

=============================================================================

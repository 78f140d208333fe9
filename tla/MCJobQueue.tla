----------------------------- MODULE MCJobQueue -----------------------------
(* Small instances of JobQueue for TLC.                                     *)
EXTENDS JobQueue, TLC

(* Calls and worker threads are interchangeable. *)
Symmetry == Permutations(Calls) \cup Permutations(Workers)

=============================================================================

----------------------------- MODULE MCChunking -----------------------------
(* Small instances of Chunking for TLC. *)
EXTENDS Chunking

(* Voices are interchangeable. *)
Symmetry == Permutations(Voices)

=============================================================================

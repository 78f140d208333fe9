------------------------------ MODULE MCIngest ------------------------------
(* Small instances of Ingest for TLC. *)
EXTENDS Ingest, TLC

(* Uploads are interchangeable. *)
Symmetry == Permutations(Uploads)

=============================================================================

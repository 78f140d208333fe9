--------------------------- MODULE MCPortalCalls ---------------------------
(* Small instances of PortalCalls for TLC. *)
EXTENDS PortalCalls, TLC

(* Uploads are interchangeable. *)
Symmetry == Permutations(Uploads)

=============================================================================

---------------------------- MODULE MCTranscript ----------------------------
(* A small instance of Transcript for TLC. *)
EXTENDS Transcript

=============================================================================

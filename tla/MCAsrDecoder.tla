---------------------------- MODULE MCAsrDecoder ----------------------------
(* Small instances of AsrDecoder for TLC.                                   *)
EXTENDS AsrDecoder
=============================================================================

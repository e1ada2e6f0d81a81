---------------------------- MODULE MCWrapSweep ----------------------------
(* Drives that claim 6 to 140 bytes. *)
EXTENDS WrapSweep

MCClaims == 6 .. 140
=============================================================================

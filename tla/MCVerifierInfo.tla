---------------------------- MODULE MCVerifierInfo ----------------------------
(* Instances of VerifierInfo for TLC. *)
EXTENDS VerifierInfo
CONSTANTS t1, t2
===============================================================================

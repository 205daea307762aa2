------------------------------ MODULE MCStream ------------------------------
(* Instances of the bulk streams. *)
EXTENDS Stream

CONSTANTS p, q
=============================================================================

------------------------------- MODULE MCShim -------------------------------
(* Instances of Shim for TLC. *)
EXTENDS Shim
=============================================================================

--------------------------- MODULE MCCodexAttach ---------------------------
(* Instances of CodexAttach for TLC. *)
EXTENDS CodexAttach, TLC

Symm == Permutations(Deliveries)
=============================================================================

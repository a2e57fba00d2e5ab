----------------------------- MODULE MCChannels -----------------------------
(* Instances of Channels for TLC. *)
EXTENDS Channels, TLC

Symm == Permutations(Handlers) \cup Permutations(Principals) \cup Permutations(Ids)
          \cup Permutations(Names) \cup Permutations(Msgs)
=============================================================================

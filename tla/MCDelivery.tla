----------------------------- MODULE MCDelivery -----------------------------
(* Instances of Delivery for TLC. *)
EXTENDS Delivery, TLC

CONSTANTS alice, bob

\* alice is registered from a Claude session and bob from a Codex one; or alice
\* is an admin, and the tap sends her what she is not addressed in.
ClaudeAndCodex == {[name |-> alice, admin |-> FALSE, codex |-> FALSE],
                   [name |-> bob,   admin |-> FALSE, codex |-> TRUE]}
AdminAndCodex  == {[name |-> alice, admin |-> TRUE,  codex |-> FALSE],
                   [name |-> bob,   admin |-> FALSE, codex |-> TRUE]}

\* Only bob is written to; or either of them by the other; or bob or nobody, and
\* then only the tap sends something.
ToBob == {{bob}}
ToEither == {{alice}, {bob}}
ToBobOrNobody == {{bob}, {}}

\* alice registers once, bob twice.
Claims2 == (alice :> 1) @@ (bob :> 2)

Symm == Permutations(Sessions) \cup Permutations(Tasks)
=============================================================================

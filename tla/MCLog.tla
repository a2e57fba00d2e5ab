------------------------------- MODULE MCLog -------------------------------
(* Instances of Log for TLC. *)
EXTENDS Log

CONSTANTS a, b, w, n1, n2

MCNaming == <<n1, n2>>
MCPairs == {{a, b}}
MCMembers == {<<b, 1>>, <<a, 2>>}
MCTargets == {<<{n2}, {}>>, <<{n1, n2}, {}>>, <<{n1, n2}, {b}>>, <<{}, {b, w}>>}
=============================================================================

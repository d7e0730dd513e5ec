------------------------------ MODULE MCGateway ------------------------------
(* Small instances of Gateway for TLC. *)
EXTENDS Gateway, TLC

CONSTANTS r1, r2, r3, r4, n1, n2

\* A request alone that is answered with chunks, or two that share the node and get none.
AloneOrPair == {{r1}, {r2}, {r3, r4}}
TwoOneNone == [r \in Requests |-> CASE r = r1 -> 2 [] r = r2 -> 1 [] OTHER -> 0]

AllTogether == {Requests}
OneChunk == [r \in Requests |-> 1]

\* The nodes are alike; only runs without a liveness property use this.
AlikeNodes == Permutations(Nodes)
=============================================================================

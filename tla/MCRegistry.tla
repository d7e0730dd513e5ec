------------------------------ MODULE MCRegistry ------------------------------
(* Small instances of Registry for TLC. *)
EXTENDS Registry

CONSTANTS n1, n2, p1, p2, s1, s2, s3, c1

\* n1 connects twice, n2 once.
TwiceAndOnce == [s \in Sockets |-> IF s = s3 THEN n2 ELSE n1]
\* n1 comes back to another router; the others are all with p1.
MovesOn == [s \in Sockets |-> IF s = s2 THEN p2 ELSE p1]
ComesBack == [s \in Sockets |-> p1]
MarkFirst == [c \in Calls |-> n1]
=============================================================================

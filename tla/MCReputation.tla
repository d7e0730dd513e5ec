----------------------------- MODULE MCReputation -----------------------------
(***************************************************************************)
(* Two routers, one node: one router has two challenges and a single place *)
(* for them, the other has one.  Each answers a request of the same key.   *)
(***************************************************************************)
EXTENDS Reputation, TLC

CONSTANTS n1, p1, p2, k1, c1, c2, c3, r1, r2

Owners == (c1 :> p1) @@ (c2 :> p1) @@ (c3 :> p2)
OneTarget == [c \in Challenges |-> n1]
Servers == (r1 :> p1) @@ (r2 :> p2)
OneKey == [r \in Requests |-> k1]
OneNode == [r \in Requests |-> n1]
=============================================================================

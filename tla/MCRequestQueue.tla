--------------------------- MODULE MCRequestQueue ---------------------------
(* Small instances of RequestQueue for TLC. *)
EXTENDS RequestQueue

CONSTANTS r1, r2, r3, n1, n2, m1, m2, rt1, rt2

\* r3 asks for another model than the rest.
OddModel == [r \in Requests |-> IF r = r3 THEN m2 ELSE m1]
OneModel == [r \in Requests |-> m1]
OneRouter == [r \in Requests |-> rt1]
NoChallenge == [r \in Requests |-> {}]
\* r2 may be a verifier challenge of n1.
Challenge == [r \in Requests |-> IF r = r2 THEN {n1} ELSE {}]
\* r2 is handled by another replica.
TwoRouters == [r \in Requests |-> IF r = r2 THEN rt2 ELSE rt1]
=============================================================================

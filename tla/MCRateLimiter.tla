---------------------------- MODULE MCRateLimiter ----------------------------
(* A small instance of RateLimiter for TLC. *)
EXTENDS RateLimiter, TLC

CONSTANTS r1, r2, r3, r4, r5, r6, k1, k2

\* r1 to r4 have the key k1, the others k2; each key allows two per window.
TwoKeys == [r \in Requests |-> IF r \in {r1, r2, r3, r4} THEN k1 ELSE k2]
TwoEach == [k \in Keys |-> 2]

\* Requests of one key are alike.
AlikeRequests == Permutations({r1, r2, r3, r4}) \cup Permutations({r5, r6})
=============================================================================

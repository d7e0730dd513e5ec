---------------------------- MODULE SlidingWindow ----------------------------
(***************************************************************************)
(* What the rate limiter promises (rate-limiter.js:1-7), with no arrays,   *)
(* no filtering and no clean-up: a request is accepted if and only if the  *)
(* window that ends now has room for one more of its key, and for one more *)
(* of all keys, counting every request accepted in it and nothing else.    *)
(* RateLimiter is shown to implement this.                                 *)
(***************************************************************************)
EXTENDS Integers, FiniteSets

CONSTANTS Requests, Keys, KeyOf, Rpm, GlobalRpm, Window, MaxTime

VARIABLES now, verdict, at
vars == <<now, verdict, at>>

Init == /\ now = 0
        /\ verdict = [r \in Requests |-> "new"]
        /\ at = [r \in Requests |-> 0]

\* The requests accepted in the window that ends now.
Counted == {q \in Requests : verdict[q] = "accepted" /\ now - at[q] < Window}

HasRoom(r) == /\ Cardinality(Counted) < GlobalRpm
              /\ Cardinality({q \in Counted : KeyOf[q] = KeyOf[r]}) < Rpm[KeyOf[r]]

Decide(r) ==
    /\ verdict[r] = "new"
    /\ verdict' = [verdict EXCEPT ![r] = IF HasRoom(r) THEN "accepted" ELSE "refused"]
    /\ at' = [at EXCEPT ![r] = now]
    /\ UNCHANGED now

Tick ==
    /\ now < MaxTime
    /\ now' = now + 1
    /\ UNCHANGED <<verdict, at>>

Next == Tick \/ \E r \in Requests : Decide(r)

Spec == Init /\ [][Next]_vars
=============================================================================

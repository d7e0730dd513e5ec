----------------------------- MODULE RateLimiter -----------------------------
(***************************************************************************)
(* The sliding windows of rate-limiter.js in one router process: a window  *)
(* per API key and one for all keys together, and their periodic clean-up. *)
(*                                                                         *)
(* A timestamp array is the set of the requests that were pushed, at[r]    *)
(* being the timestamp of r: the array is in the order of its timestamps,  *)
(* and all the code takes from it are its length, its first element and    *)
(* the elements young enough.  A key that is not in the map and one with   *)
(* an empty array are the same to the middleware, which has no awaits and  *)
(* so is one step.  Requests with a key are modelled: those without one,   *)
(* which auth.js lets through as upgrades, are pushed to no array.         *)
(* Date.now() is taken to be monotone.                                     *)
(***************************************************************************)
EXTENDS Integers, FiniteSets

CONSTANTS
    Requests,    \* requests to /v1/chat
    Keys,        \* API keys
    KeyOf,       \* the key of each request
    Rpm,         \* rate_limit_rpm of each key
    GlobalRpm,   \* RATE_LIMIT_GLOBAL_RPM
    Window,      \* 60000 ms
    Second,      \* 1000 ms
    MaxTime      \* bound on the clock

ASSUME LimiterAssumption ==
    /\ KeyOf \in [Requests -> Keys]
    /\ Rpm \in [Keys -> Nat \ {0}]
    /\ GlobalRpm \in Nat \ {0}
    /\ Window \in Nat \ {0}
    /\ Second \in Nat \ {0}
    /\ MaxTime \in Nat

VARIABLES
    now,                \* Date.now()
    windows,            \* Keys -> the timestamps of the key
    globalTimestamps,
    verdict,            \* what became of each request
    at,                 \* when the middleware saw it
    retryAt             \* when a refused client may try again by its Retry-After

history == <<verdict, at, retryAt>>
vars == <<now, windows, globalTimestamps, history>>

Verdicts == {"new", "accepted", "key_rate_limit", "global_rate_limit"}

Init ==
    /\ now = 0
    /\ windows = [k \in Keys |-> {}]
    /\ globalTimestamps = {}
    /\ verdict = [r \in Requests |-> "new"]
    /\ at = [r \in Requests |-> 0]
    /\ retryAt = [r \in Requests |-> 0]

\* Mutant of Fresh: an element exactly as old as the window stays.
FreshInclusive(S) == {r \in S : now - at[r] <= Window}

\* timestamps.filter((t) => now - t < 60000)
Fresh(S) == {r \in S : now - at[r] < Window}

\* Mutant of RetryTime: the rest of a second is cut off.
RetryTimeFloor(S) ==
    LET oldest == CHOOSE r \in S : \A q \in S : at[r] <= at[q]
    IN now + ((at[oldest] + Window - now) \div Second) * Second

\* Math.ceil((timestamps[0] + 60000 - now) / 1000) seconds from now.
RetryTime(S) ==
    LET oldest == CHOOSE r \in S : \A q \in S : at[r] <= at[q]
    IN now + ((at[oldest] + Window - now + Second - 1) \div Second) * Second

Judge(r, v) ==
    /\ verdict' = [verdict EXCEPT ![r] = v]
    /\ at' = [at EXCEPT ![r] = now]

\* The global window is full: 429, nothing is recorded.
GlobalRefusal(r) ==
    LET fresh == Fresh(globalTimestamps) IN
    /\ verdict[r] = "new"
    /\ Cardinality(fresh) >= GlobalRpm
    /\ globalTimestamps' = fresh
    /\ Judge(r, "global_rate_limit")
    /\ retryAt' = [retryAt EXCEPT ![r] = RetryTime(fresh)]
    /\ UNCHANGED <<now, windows>>

\* Mutant of KeyRefusal: the request is recorded before its key's limit is tested.
KeyRefusalRecorded(r) ==
    LET k == KeyOf[r]
        fresh == Fresh(windows[k])
    IN
    /\ verdict[r] = "new"
    /\ Cardinality(Fresh(globalTimestamps)) < GlobalRpm
    /\ Cardinality(fresh) >= Rpm[k]
    /\ globalTimestamps' = Fresh(globalTimestamps)
    /\ windows' = [windows EXCEPT ![k] = fresh \cup {r}]
    /\ Judge(r, "key_rate_limit")
    /\ retryAt' = [retryAt EXCEPT ![r] = RetryTime(fresh)]
    /\ UNCHANGED now

\* The key's window is full: 429, nothing is recorded.
KeyRefusal(r) ==
    LET k == KeyOf[r]
        fresh == Fresh(windows[k])
    IN
    /\ verdict[r] = "new"
    /\ Cardinality(Fresh(globalTimestamps)) < GlobalRpm
    /\ Cardinality(fresh) >= Rpm[k]
    /\ globalTimestamps' = Fresh(globalTimestamps)
    /\ windows' = [windows EXCEPT ![k] = fresh]
    /\ Judge(r, "key_rate_limit")
    /\ retryAt' = [retryAt EXCEPT ![r] = RetryTime(fresh)]
    /\ UNCHANGED now

\* Room in both windows: the request is recorded in both and goes on.
Accept(r) ==
    LET k == KeyOf[r]
        fresh == Fresh(windows[k])
    IN
    /\ verdict[r] = "new"
    /\ Cardinality(Fresh(globalTimestamps)) < GlobalRpm
    /\ Cardinality(fresh) < Rpm[k]
    /\ globalTimestamps' = Fresh(globalTimestamps) \cup {r}
    /\ windows' = [windows EXCEPT ![k] = fresh \cup {r}]
    /\ Judge(r, "accepted")
    /\ UNCHANGED <<now, retryAt>>

\* Mutant of CleanUp: the clean-up forgets after half a window.
CleanUpHalf ==
    LET Young(S) == {r \in S : 2 * (now - at[r]) < Window} IN
    /\ windows' = [k \in Keys |-> Young(windows[k])]
    /\ globalTimestamps' = Young(globalTimestamps)
    /\ UNCHANGED <<now, history>>

\* The interval timer drops what has left the windows, of all keys.
CleanUp ==
    /\ windows' = [k \in Keys |-> Fresh(windows[k])]
    /\ globalTimestamps' = Fresh(globalTimestamps)
    /\ UNCHANGED <<now, history>>

\* Time passes.
Tick ==
    /\ now < MaxTime
    /\ now' = now + 1
    /\ UNCHANGED <<windows, globalTimestamps, history>>

Next ==
    \/ \E r \in Requests : GlobalRefusal(r) \/ KeyRefusal(r) \/ Accept(r)
    \/ CleanUp
    \/ Tick

Spec == Init /\ [][Next]_vars
-----------------------------------------------------------------------------
(* Properties *)

Accepted == {r \in Requests : verdict[r] = "accepted"}
AcceptedFor(k) == {r \in Accepted : KeyOf[r] = k}

\* The members of S seen in the window that ends at time t.
Within(S, t) == {r \in S : t - Window < at[r] /\ at[r] <= t}

\* Every variable has its type, and the arrays hold accepted requests only.
TypeOK ==
    /\ now \in 0..MaxTime
    /\ windows \in [Keys -> SUBSET Accepted]
    /\ globalTimestamps \in SUBSET Accepted
    /\ verdict \in [Requests -> Verdicts]
    /\ at \in [Requests -> 0..MaxTime]
    /\ retryAt \in [Requests -> Nat]

\* In no window of 60 s, wherever it begins, are more than rate_limit_rpm requests
\* of a key accepted (rate-limiter.js:57).
KeyRateBound ==
    \A k \in Keys : \A t \in 0..MaxTime :
        Cardinality(Within(AcceptedFor(k), t)) <= Rpm[k]

\* Nor more than RATE_LIMIT_GLOBAL_RPM of all keys together (rate-limiter.js:32).
GlobalRateBound ==
    \A t \in 0..MaxTime : Cardinality(Within(Accepted, t)) <= GlobalRpm

\* Both limits hold, whichever refuses first and whenever the clean-up runs.
RateBounds == KeyRateBound /\ GlobalRateBound

\* Retry-After tells the truth (rate-limiter.js:33, 58): a client that waits as long
\* as it was told finds room in the window that was full, unless others of that
\* window were accepted since.
RetryAfterIsHonest ==
    \A r \in Requests : now >= retryAt[r] =>
        LET k == KeyOf[r]
            NoneSince(S) == \A q \in S : at[q] <= at[r]
        IN
        /\ (verdict[r] = "key_rate_limit" /\ NoneSince(AcceptedFor(k)))
              => Cardinality(Fresh(windows[k])) < Rpm[k]
        /\ (verdict[r] = "global_rate_limit" /\ NoneSince(Accepted))
              => Cardinality(Fresh(globalTimestamps)) < GlobalRpm

\* The arrays, their filtering and the clean-up decide nothing of their own: the limiter
\* accepts and refuses as one that remembers every accepted request would, whatever was
\* refused before, in whichever order keys come and whenever the clean-up runs.
Ideal == INSTANCE SlidingWindow
    WITH verdict <- [r \in Requests |-> IF verdict[r] \in {"new", "accepted"} THEN verdict[r]
                                        ELSE "refused"]

DecidesExactly == Ideal!Spec
=============================================================================

----------------------------- MODULE Acquisition -----------------------------
(***************************************************************************)
(* What the gateway's attempt loop expects of acquireOrQueue (queue.js),   *)
(* with no table, no queue and no timers: a request that asks for a node   *)
(* is eventually granted one or turned away; one that was granted a node   *)
(* may ask again a bounded number of times; one that is over stays over.   *)
(* RequestQueue is shown to implement this.                                *)
(***************************************************************************)
EXTENDS Naturals

CONSTANTS Requests, MaxRetries

VARIABLES phase, retries
vars == <<phase, retries>>

Phases == {"new", "asking", "granted", "over"}

Init == /\ phase = [r \in Requests |-> "new"]
        /\ retries = [r \in Requests |-> 0]

Move(r, from, to) == /\ phase[r] = from
                     /\ phase' = [phase EXCEPT ![r] = to]

Ask(r) == Move(r, "new", "asking") /\ UNCHANGED retries

\* acquireOrQueue settles its promise, with a node or with null: once.
Grant(r) == Move(r, "asking", "granted") /\ UNCHANGED retries
TurnAway(r) == Move(r, "asking", "over") /\ UNCHANGED retries

AskAgain(r) == /\ retries[r] < MaxRetries
               /\ Move(r, "granted", "asking")
               /\ retries' = [retries EXCEPT ![r] = @ + 1]

End(r) == Move(r, "granted", "over") /\ UNCHANGED retries

\* A router process dies with the requests it was handling.
Crash == /\ \E S \in SUBSET {r \in Requests : phase[r] # "new"} :
               phase' = [r \in Requests |-> IF r \in S THEN "over" ELSE phase[r]]
         /\ UNCHANGED retries

Next == \/ \E r \in Requests : Ask(r) \/ Grant(r) \/ TurnAway(r) \/ AskAgain(r) \/ End(r)
        \/ Crash

Fairness == \A r \in Requests : /\ WF_vars(Grant(r) \/ TurnAway(r))
                                /\ WF_vars(AskAgain(r) \/ End(r))

Spec == Init /\ [][Next]_vars /\ Fairness
=============================================================================

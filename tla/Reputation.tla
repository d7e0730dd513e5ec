------------------------------ MODULE Reputation ------------------------------
(***************************************************************************)
(* What several routers write to the one SQLite file they share: the       *)
(* challenges of verifier.js with the strikes of db.js, and the usage log  *)
(* with the totals kept beside it.                                         *)
(*                                                                         *)
(* A router runs on one thread and its statements are synchronous: between *)
(* the two statements of addProviderStrike() or the three that follow an   *)
(* answer, nothing else of that router happens, but anything of another    *)
(* may.  Each statement may fail, and the handlers swallow what it throws. *)
(*                                                                         *)
(* A challenge is an ordinary request to the router's own gateway, with    *)
(* ADMIN_SECRET for its API key: where that is none, each is aborted.  The *)
(* gateway does not read the header that names the node, so the answer     *)
(* judged may be anybody's, and the verdict is left open.                  *)
(***************************************************************************)
EXTENDS Integers, FiniteSets

CONSTANTS
    Nodes, Routers, Keys,
    Challenges,      \* slots for challenges, each used again
    Owner, Target,   \* the router that runs it and the node it is meant for
    Requests,        \* requests that are answered, each once
    ServedBy, KeyOf, NodeOf,
    MaxConcurrent,   \* MAX_CONCURRENT_CHALLENGES
    Full, Penalty, Reward,   \* of reputation: 100, 33 and 10
    Legacy,          \* provider_stats has the column balance_usd of an older schema
    MaxFailures      \* bound: failed challenges of one node

ASSUME ReputationAssumption ==
    /\ IsFiniteSet(Challenges) /\ IsFiniteSet(Requests)
    /\ Owner \in [Challenges -> Routers] /\ Target \in [Challenges -> Nodes]
    /\ ServedBy \in [Requests -> Routers]
    /\ KeyOf \in [Requests -> Keys] /\ NodeOf \in [Requests -> Nodes]
    /\ MaxConcurrent \in Nat \ {0}
    /\ Full \in Nat /\ Penalty \in Nat /\ Reward \in Nat
    /\ Legacy \in BOOLEAN
    /\ MaxFailures \in Nat

VARIABLES
    (* provider_stats *)
    rows,          \* the nodes that have one
    strikes, reputation,
    blacklisted,
    (* usage_log and api_keys *)
    stage,         \* how far the three statements for a request have come
    total,         \* api_keys.total_requests
    (* Redis *)
    listed,        \* the nodes the registry shows
    (* Routers *)
    active,        \* activeChallenges
    step,          \* where challengeNode() is
    read,          \* the strikes it has SELECTed
    (* History *)
    failures,      \* challenges graded as failed
    missed,        \* nodes of which some failure was not written, or read with another
    excused        \* nodes listed again since they were slashed, or never removed

stats == <<rows, strikes, reputation, blacklisted>>
usage == <<stage, total>>
challenge == <<active, step, read>>
history == <<failures, missed, excused>>
vars == <<stats, usage, listed, challenge, history>>

InFlight == {"asking", "striking", "removing"}
Of(p, steps) == {c \in Challenges : Owner[c] = p /\ step[c] \in steps}
For(n, steps) == {c \in Challenges : Target[c] = n /\ step[c] \in steps}

Init ==
    /\ rows \in IF Legacy THEN SUBSET Nodes ELSE {{}}
    /\ strikes = [n \in Nodes |-> 0]
    /\ reputation = [n \in Nodes |-> Full]
    /\ blacklisted = {}
    /\ stage = [r \in Requests |-> "new"]
    /\ total = [k \in Keys |-> 0]
    /\ listed = {}
    /\ active = [p \in Routers |-> 0]
    /\ step = [c \in Challenges |-> "idle"]
    /\ read = [c \in Challenges |-> 0]
    /\ failures = [n \in Nodes |-> 0]
    /\ missed = {} /\ excused = {}

\* p is between two statements.
Midway(p) ==
    \/ Of(p, {"striking"}) # {}
    \/ \E r \in Requests : ServedBy[r] = p /\ stage[r] \in {"inserted", "counted"}

\* A timer or a reply lets c go on, for which its router must be free.
At(c, s) == step[c] = s /\ ~Midway(Owner[c])

\* challengeNode() goes on to s; at its end, the finally block gives its place back.
Goto(c, s) == step' = [step EXCEPT ![c] = s]
Finish(c) ==
    /\ Goto(c, "idle")
    /\ active' = [active EXCEPT ![Owner[c]] = @ - 1]
    /\ read' = [read EXCEPT ![c] = 0]

-----------------------------------------------------------------------------
(* The registry, as far as verifier.js reads and writes it *)

\* A registration, which does not look at the blacklist, or a heartbeat that has read
\* the record before it was removed and writes it back.
Join(n) ==
    /\ n \notin listed
    /\ listed' = listed \cup {n}
    /\ excused' = excused \cup ({n} \cap blacklisted)
    /\ UNCHANGED <<stats, usage, challenge, failures, missed>>

Leave(n) ==
    /\ n \in listed
    /\ listed' = listed \ {n}
    /\ UNCHANGED <<stats, usage, challenge, history>>

-----------------------------------------------------------------------------
(* startVerificationDispatcher() and challengeNode() *)

\* The timer fires and sends getActiveNodes(), whose reply will show the node.
Survey(c) ==
    /\ At(c, "idle")
    /\ Target[c] \in listed
    /\ Goto(c, "seen")
    /\ UNCHANGED <<stats, usage, listed, active, read, history>>

Admit(c) ==
    /\ At(c, "seen")
    /\ Target[c] \notin blacklisted
    /\ Goto(c, "asking")
    /\ active' = [active EXCEPT ![Owner[c]] = @ + 1]
    /\ UNCHANGED <<stats, usage, listed, read, history>>

\* Mutant of Dispatch: the places are not counted.
DispatchAlways(c) == Admit(c)

Dispatch(c) == active[Owner[c]] < MaxConcurrent /\ Admit(c)

\* The node is blacklisted, or all places are taken, or the SELECT fails.
Dismiss(c) ==
    /\ At(c, "seen")
    /\ Goto(c, "idle")
    /\ UNCHANGED <<stats, usage, listed, active, read, history>>

\* Mutant of Abort: the place is given back after a verdict only.
AbortKeepsPlace(c) ==
    /\ At(c, "asking")
    /\ Goto(c, "idle")
    /\ UNCHANGED <<stats, usage, listed, active, read, history>>

\* The gateway refuses or fails the request, or the UPDATE after a pass fails.
\* Neither fetch has a timeout: it may as well never come to this.
Abort(c) ==
    /\ At(c, "asking")
    /\ Finish(c)
    /\ UNCHANGED <<stats, usage, listed, history>>

Recovered(n) == IF reputation[n] + Reward > Full THEN Full ELSE reputation[n] + Reward
Lowered(n) == IF reputation[n] < Penalty THEN 0 ELSE reputation[n] - Penalty

\* Mutant of Rewardable: the UPDATE does not ask whether the node is blacklisted.
EveryRow == rows

Rewardable == rows \ blacklisted

\* The verifier finds the answer valid, or cannot be reached.
Pass(c) ==
    LET n == Target[c] IN
    /\ At(c, "asking")
    /\ reputation' = IF n \in Rewardable
                     THEN [reputation EXCEPT ![n] = Recovered(n)] ELSE reputation
    /\ Finish(c)
    /\ UNCHANGED <<rows, strikes, blacklisted, usage, listed, history>>

\* The verifier finds it invalid.
Fail(n) ==
    /\ failures[n] < MaxFailures
    /\ failures' = [failures EXCEPT ![n] = @ + 1]

\* addProviderStrike() of a node without a row, or whose SELECT fails: no strike.
Unread(c) ==
    /\ At(c, "asking")
    /\ Fail(Target[c])
    /\ missed' = missed \cup {Target[c]}
    /\ Finish(c)
    /\ UNCHANGED <<stats, usage, listed, excused>>

\* Its SELECT.
StrikeRead(c) ==
    LET n == Target[c] IN
    /\ At(c, "asking")
    /\ n \in rows
    /\ Fail(n)
    /\ read' = [read EXCEPT ![c] = strikes[n]]
    /\ missed' = IF For(n, {"striking"}) = {} THEN missed ELSE missed \cup {n}
    /\ Goto(c, "striking")
    /\ UNCHANGED <<stats, usage, listed, active, excused>>

\* Its UPDATE: a strike, or the last one.
Strike(c) ==
    /\ strikes' = [strikes EXCEPT ![Target[c]] = read[c] + 1]
    /\ reputation' = [reputation EXCEPT ![Target[c]] = Lowered(Target[c])]
    /\ Finish(c)
    /\ UNCHANGED blacklisted

\* Mutant of Slash: the node is not removed.
SlashOnly(c) ==
    /\ strikes' = [strikes EXCEPT ![Target[c]] = read[c] + 1]
    /\ reputation' = [reputation EXCEPT ![Target[c]] = 0]
    /\ blacklisted' = blacklisted \cup {Target[c]}
    /\ Finish(c)

Slash(c) ==
    /\ strikes' = [strikes EXCEPT ![Target[c]] = read[c] + 1]
    /\ reputation' = [reputation EXCEPT ![Target[c]] = 0]
    /\ blacklisted' = blacklisted \cup {Target[c]}
    /\ Goto(c, "removing")
    /\ read' = [read EXCEPT ![c] = 0]
    /\ UNCHANGED active

WriteAt(c, limit) ==
    /\ step[c] = "striking"
    /\ IF read[c] + 1 >= limit THEN Slash(c) ELSE Strike(c)
    /\ UNCHANGED <<rows, usage, listed, history>>

\* Mutants of StrikeWrite: slashed one strike too early, or too late.
SlashEarly(c) == WriteAt(c, 2)
SlashLate(c) == WriteAt(c, 4)

StrikeWrite(c) == WriteAt(c, 3)

StrikeFails(c) ==
    /\ step[c] = "striking"
    /\ missed' = missed \cup {Target[c]}
    /\ Finish(c)
    /\ UNCHANGED <<stats, usage, listed, failures, excused>>

\* The socket is closed, if it is this router's, and removeNode() has done its work.
Remove(c) ==
    /\ At(c, "removing")
    /\ listed' = listed \ {Target[c]}
    /\ Finish(c)
    /\ UNCHANGED <<stats, usage, history>>

RemoveFails(c) ==
    /\ At(c, "removing")
    /\ excused' = excused \cup {Target[c]}
    /\ Finish(c)
    /\ UNCHANGED <<stats, usage, listed, failures, missed>>

-----------------------------------------------------------------------------
(* logUsage() and updateProviderStats(), after an answer *)

Advance(r, s) == stage' = [stage EXCEPT ![r] = s]

Insert(r) ==
    /\ stage[r] = "new" /\ ~Midway(ServedBy[r])
    /\ Advance(r, "inserted")
    /\ UNCHANGED <<stats, total, listed, challenge, history>>

\* Mutant of InsertFails: the totals are updated all the same.
CountUnlogged(r) ==
    /\ stage[r] = "new" /\ ~Midway(ServedBy[r])
    /\ Advance(r, "unlogged")
    /\ total' = [total EXCEPT ![KeyOf[r]] = @ + 1]
    /\ UNCHANGED <<stats, listed, challenge, history>>

InsertFails(r) ==
    /\ stage[r] = "new" /\ ~Midway(ServedBy[r])
    /\ Advance(r, "unlogged")
    /\ UNCHANGED <<stats, total, listed, challenge, history>>

Count(r) ==
    /\ stage[r] = "inserted"
    /\ Advance(r, "counted")
    /\ total' = [total EXCEPT ![KeyOf[r]] = @ + 1]
    /\ UNCHANGED <<stats, listed, challenge, history>>

CountFails(r) ==
    /\ stage[r] = "inserted"
    /\ Advance(r, "uncounted")
    /\ UNCHANGED <<stats, total, listed, challenge, history>>

\* The upsert is what gives a node its row.
Credit(r) ==
    /\ stage[r] = "counted" /\ Legacy
    /\ Advance(r, "done")
    /\ rows' = rows \cup {NodeOf[r]}
    /\ UNCHANGED <<strikes, reputation, blacklisted, total, listed, challenge, history>>

\* In the present schema there is no such column.
CreditFails(r) ==
    /\ stage[r] = "counted"
    /\ Advance(r, "done")
    /\ UNCHANGED <<stats, total, listed, challenge, history>>

-----------------------------------------------------------------------------
\* A router dies and is started again.
Crash(p) ==
    LET mine == {c \in Challenges : Owner[c] = p}
        struck == {Target[c] : c \in Of(p, {"striking"})}
        kept == {Target[c] : c \in Of(p, {"removing"})}
    IN
    /\ active' = [active EXCEPT ![p] = 0]
    /\ step' = [c \in Challenges |-> IF c \in mine THEN "idle" ELSE step[c]]
    /\ read' = [c \in Challenges |-> IF c \in mine THEN 0 ELSE read[c]]
    /\ missed' = missed \cup struck
    /\ excused' = excused \cup kept
    /\ stage' = [r \in Requests |->
            IF ServedBy[r] # p THEN stage[r]
            ELSE CASE stage[r] = "inserted" -> "uncounted"
                   [] stage[r] = "counted" -> "done"
                   [] OTHER -> stage[r]]
    /\ UNCHANGED <<stats, total, listed, failures>>

Next ==
    \/ \E n \in Nodes : Join(n) \/ Leave(n)
    \/ \E c \in Challenges :
        \/ Survey(c) \/ Dispatch(c) \/ Dismiss(c) \/ Abort(c) \/ Pass(c)
        \/ Unread(c) \/ StrikeRead(c) \/ StrikeWrite(c) \/ StrikeFails(c)
        \/ Remove(c) \/ RemoveFails(c)
    \/ \E r \in Requests :
        \/ Insert(r) \/ InsertFails(r) \/ Count(r) \/ CountFails(r)
        \/ Credit(r) \/ CreditFails(r)
    \/ \E p \in Routers : Crash(p)

Spec == Init /\ [][Next]_vars

-----------------------------------------------------------------------------
(* Properties *)

\* The values the state can take: no router has more challenges under way than it has
\* places, and a reputation stays between nothing and full.
TypeOK ==
    /\ rows \subseteq Nodes /\ blacklisted \subseteq Nodes /\ listed \subseteq Nodes
    /\ strikes \in [Nodes -> Nat] /\ reputation \in [Nodes -> 0 .. Full]
    /\ stage \in [Requests ->
            {"new", "unlogged", "inserted", "uncounted", "counted", "done"}]
    /\ total \in [Keys -> Nat]
    /\ active \in [Routers -> 0 .. MaxConcurrent]
    /\ step \in [Challenges -> {"idle", "seen"} \cup InFlight]
    /\ read \in [Challenges -> Nat]
    /\ failures \in [Nodes -> Nat]
    /\ missed \subseteq Nodes /\ excused \subseteq Nodes

\* activeChallenges is the number of challenges under way, whichever way those before
\* ended: no place is lost for good, and none is given back twice.
PlacesAddUp == \A p \in Routers : active[p] = Cardinality(Of(p, InFlight))

\* A node is slashed for no less than three failed challenges, however many challenges
\* of however many routers judge it at once.
SlashedForThree == \A n \in blacklisted : failures[n] >= 3

\* As long as no two routers have struck a node at the same time and no strike was lost,
\* provider_stats has exactly its failures, and the third has blacklisted it.
StrikesAddUp ==
    \A n \in Nodes \ missed : For(n, {"striking"}) = {} =>
        /\ strikes[n] = failures[n]
        /\ n \in blacklisted <=> failures[n] >= 3

\* A slashed node stays blacklisted with no reputation, also when challenges that were
\* under way at the time pass or fail later, with strikes read before.
SlashedIsFinal ==
    [][\A n \in blacklisted : n \in blacklisted' /\ reputation'[n] = 0]_vars

\* A slashed node that is listed is about to be removed, or it has registered again, or
\* the router has died or lost Redis on the way.
SlashedIsRemoved ==
    \A n \in blacklisted \cap listed : n \in excused \/ For(n, {"removing"}) # {}

\* A key's total is the number of its rows in the log, short of those whose second
\* statement is still to come or has failed.
Logged(k) == {r \in Requests : KeyOf[r] = k /\ stage[r] \notin {"new", "unlogged"}}
Short(k) == {r \in Logged(k) : stage[r] \in {"inserted", "uncounted"}}
TotalsFollowLog == \A k \in Keys : total[k] = Cardinality(Logged(k) \ Short(k))
=============================================================================

--------------------------- MODULE ReputationProofs ---------------------------
(***************************************************************************)
(* Proofs about Reputation, for any number of routers, nodes, keys,        *)
(* challenges and requests, any limits, and either schema.                 *)
(***************************************************************************)
EXTENDS Reputation, FiniteSetTheorems, TLAPS

USE ReputationAssumption DEF At, Admit, Rewardable

Steps == {"idle", "seen"} \cup InFlight
Stages == {"new", "unlogged", "inserted", "uncounted", "counted", "done"}

StatsType ==
    /\ rows \subseteq Nodes /\ blacklisted \subseteq Nodes /\ listed \subseteq Nodes
    /\ strikes \in [Nodes -> Nat] /\ reputation \in [Nodes -> 0 .. Full]
UsageType == stage \in [Requests -> Stages] /\ total \in [Keys -> Nat]
ChallengeType ==
    /\ active \in [Routers -> 0 .. MaxConcurrent]
    /\ step \in [Challenges -> Steps]
    /\ read \in [Challenges -> Nat]
HistoryType ==
    /\ failures \in [Nodes -> Nat]
    /\ missed \subseteq Nodes /\ excused \subseteq Nodes

LEMMA TypeParts == TypeOK <=> StatsType /\ UsageType /\ ChallengeType /\ HistoryType
BY Zenon DEF TypeOK, StatsType, UsageType, ChallengeType, HistoryType, Steps, Stages

(* ------------------------- The steps, by what they do ------------------ *)

\* Those that leave the challenges alone.
UsageStep ==
    \E r \in Requests :
        \/ Insert(r) \/ InsertFails(r) \/ Count(r) \/ CountFails(r)
        \/ Credit(r) \/ CreditFails(r)
ListStep == \E n \in Nodes : Join(n) \/ Leave(n)

\* Those of one challenge: before it is under way, at its end, and between.
Waits(c) == Survey(c) \/ Dismiss(c)
Strikes(c) == StrikeWrite(c) /\ read[c] + 1 < 3
Slashes(c) == StrikeWrite(c) /\ read[c] + 1 >= 3
Ends(c) ==
    \/ Abort(c) \/ Pass(c) \/ Unread(c) \/ Strikes(c) \/ StrikeFails(c)
    \/ Remove(c) \/ RemoveFails(c)

LEMMA ByKind ==
    ASSUME [Next]_vars, ChallengeType
    PROVE  \/ UNCHANGED vars \/ UsageStep \/ ListStep
           \/ \E c \in Challenges :
                Waits(c) \/ Dispatch(c) \/ StrikeRead(c) \/ Slashes(c) \/ Ends(c)
           \/ \E p \in Routers : Crash(p)
<1>1. \A c \in Challenges : StrikeWrite(c) => Strikes(c) \/ Slashes(c)
  BY DEF Strikes, Slashes, ChallengeType
<1> QED  BY <1>1 DEF Next, UsageStep, ListStep, Waits, Ends

LEMMA StrikesDef ==
    ASSUME NEW c \in Challenges, ChallengeType, Strikes(c)
    PROVE  step[c] = "striking" /\ Strike(c) /\ UNCHANGED <<rows, usage, listed, history>>
BY DEF Strikes, StrikeWrite, WriteAt, ChallengeType

LEMMA SlashesDef ==
    ASSUME NEW c \in Challenges, Slashes(c)
    PROVE  step[c] = "striking" /\ Slash(c) /\ UNCHANGED <<rows, usage, listed, history>>
BY DEF Slashes, StrikeWrite, WriteAt

LEMMA EndsDef ==
    ASSUME NEW c \in Challenges, ChallengeType, Ends(c)
    PROVE  step[c] \in InFlight /\ Finish(c) /\ UNCHANGED usage
BY StrikesDef DEF Ends, Abort, Pass, Unread, StrikeFails, Remove, RemoveFails, InFlight, Strike

(* --------------------------- The places ------------------------------- *)

ChallengeInv == ChallengeType /\ PlacesAddUp

LEMMA OfFinite ==
    ASSUME NEW p, NEW S
    PROVE  IsFiniteSet(Of(p, S)) /\ Cardinality(Of(p, S)) \in Nat
BY FS_Subset, FS_CardinalityType DEF Of

\* A challenge that is under way takes a place of its router.
LEMMA PlaceTaken ==
    ASSUME ChallengeInv, NEW c \in Challenges, step[c] \in InFlight
    PROVE  active[Owner[c]] >= 1
<1>1. c \in Of(Owner[c], InFlight)
  BY DEF Of
<1>2. Cardinality(Of(Owner[c], InFlight)) # 0
  BY <1>1, OfFinite, FS_EmptySet
<1> QED  BY <1>2, OfFinite DEF ChallengeInv, ChallengeType, PlacesAddUp

\* The challenges of a router that are under way, when one of them changes.
LEMMA OfNext ==
    ASSUME ChallengeType, NEW c \in Challenges, NEW s \in Steps, Goto(c, s)
    PROVE  /\ step' \in [Challenges -> Steps]
           /\ \A p \in Routers : Of(p, InFlight)' =
                IF p # Owner[c] THEN Of(p, InFlight)
                ELSE IF s \in InFlight THEN Of(p, InFlight) \cup {c}
                ELSE Of(p, InFlight) \ {c}
BY DEF ChallengeType, Goto, Of

LEMMA StaysInv ==
    ASSUME ChallengeInv, NEW c \in Challenges, NEW s \in Steps, Goto(c, s), UNCHANGED active,
           step[c] \in InFlight <=> s \in InFlight, read' \in [Challenges -> Nat]
    PROVE  ChallengeInv'
<1>1. \A p \in Routers : Of(p, InFlight)' = Of(p, InFlight)
  BY OfNext DEF ChallengeInv, Of
<1> QED  BY <1>1, OfNext DEF ChallengeInv, ChallengeType, PlacesAddUp

LEMMA DispatchInv ==
    ASSUME ChallengeInv, NEW c \in Challenges, Dispatch(c)
    PROVE  ChallengeInv'
<1>1. step[c] = "seen" /\ Goto(c, "asking") /\ active[Owner[c]] < MaxConcurrent
  BY DEF Dispatch
<1>2. /\ step' \in [Challenges -> Steps]
      /\ \A p \in Routers : Of(p, InFlight)' =
           IF p # Owner[c] THEN Of(p, InFlight) ELSE Of(p, InFlight) \cup {c}
  BY <1>1, OfNext DEF ChallengeInv, Steps, InFlight
<1>3. active' \in [Routers -> 0 .. MaxConcurrent] /\ read' \in [Challenges -> Nat]
  BY <1>1 DEF Dispatch, ChallengeInv, ChallengeType
<1>4. ASSUME NEW p \in Routers PROVE active'[p] = Cardinality(Of(p, InFlight)')
  <2>1. CASE p = Owner[c]
    <3>1. c \notin Of(p, InFlight)
      BY <1>1 DEF Of, InFlight
    <3>2. Cardinality(Of(p, InFlight)') = Cardinality(Of(p, InFlight)) + 1
      BY <1>2, <2>1, <3>1, OfFinite, FS_AddElement
    <3> QED  BY <2>1, <3>2 DEF Dispatch, ChallengeInv, ChallengeType, PlacesAddUp
  <2>2. CASE p # Owner[c]
    BY <1>2, <2>2 DEF Dispatch, ChallengeInv, ChallengeType, PlacesAddUp
  <2> QED  BY <2>1, <2>2
<1> QED  BY <1>2, <1>3, <1>4 DEF ChallengeInv, ChallengeType, PlacesAddUp

LEMMA FinishInv ==
    ASSUME ChallengeInv, NEW c \in Challenges, step[c] \in InFlight, Finish(c)
    PROVE  ChallengeInv'
<1>1. /\ step' \in [Challenges -> Steps]
      /\ \A p \in Routers : Of(p, InFlight)' =
           IF p # Owner[c] THEN Of(p, InFlight) ELSE Of(p, InFlight) \ {c}
  <2>1. Goto(c, "idle") /\ "idle" \in Steps /\ "idle" \notin InFlight
    BY DEF Finish, Steps, InFlight
  <2> QED  BY <2>1, OfNext DEF ChallengeInv
<1>2. active' \in [Routers -> 0 .. MaxConcurrent] /\ read' \in [Challenges -> Nat]
  BY PlaceTaken DEF Finish, ChallengeInv, ChallengeType
<1>3. ASSUME NEW p \in Routers PROVE active'[p] = Cardinality(Of(p, InFlight)')
  <2>1. CASE p = Owner[c]
    <3>1. c \in Of(p, InFlight)
      BY <2>1 DEF Of
    <3>2. Of(p, InFlight)' = Of(p, InFlight) \ {c}
      BY <1>1, <2>1
    <3>3. Cardinality(Of(p, InFlight) \ {c}) = Cardinality(Of(p, InFlight)) - 1
      BY <3>1, OfFinite, FS_RemoveElement
    <3> QED  BY <2>1, <3>2, <3>3 DEF Finish, ChallengeInv, ChallengeType, PlacesAddUp
  <2>2. CASE p # Owner[c]
    BY <1>1, <2>2 DEF Finish, ChallengeInv, ChallengeType, PlacesAddUp
  <2> QED  BY <2>1, <2>2
<1> QED  BY <1>1, <1>2, <1>3 DEF ChallengeInv, ChallengeType, PlacesAddUp

LEMMA CrashPlaces ==
    ASSUME ChallengeInv, NEW p \in Routers, Crash(p)
    PROVE  ChallengeInv'
<1>1. ChallengeType'
  BY DEF Crash, ChallengeInv, ChallengeType, Steps
<1>2. ASSUME NEW q \in Routers PROVE active'[q] = Cardinality(Of(q, InFlight)')
  <2>1. CASE q = p
    <3>1. Of(q, InFlight)' = {}
      BY <2>1 DEF Crash, Of, InFlight
    <3> QED  BY <2>1, <3>1, FS_EmptySet DEF Crash, ChallengeInv, ChallengeType
  <2>2. CASE q # p
    <3>1. Of(q, InFlight)' = Of(q, InFlight)
      BY <2>2 DEF Crash, Of
    <3> QED  BY <2>2, <3>1 DEF Crash, ChallengeInv, ChallengeType, PlacesAddUp
  <2> QED  BY <2>1, <2>2
<1> QED  BY <1>1, <1>2 DEF ChallengeInv, PlacesAddUp

LEMMA ChallengeStep ==
    ASSUME ChallengeInv, StatsType, [Next]_vars
    PROVE  ChallengeInv'
<1>1. CASE UNCHANGED vars \/ UsageStep \/ ListStep
  <2>1. UNCHANGED challenge
    BY <1>1 DEF vars, UsageStep, Insert, InsertFails, Count, CountFails, Credit, CreditFails,
                ListStep, Join, Leave
  <2> QED  BY <2>1 DEF challenge, ChallengeInv, ChallengeType, PlacesAddUp, Of
<1>2. ASSUME NEW c \in Challenges, Waits(c) PROVE ChallengeInv'
  <2>1. CASE Survey(c)
    BY <2>1, StaysInv DEF Survey, Steps, InFlight, ChallengeInv, ChallengeType
  <2>2. CASE Dismiss(c)
    BY <2>2, StaysInv DEF Dismiss, Steps, InFlight, ChallengeInv, ChallengeType
  <2> QED  BY <1>2, <2>1, <2>2 DEF Waits
<1>3. ASSUME NEW c \in Challenges, StrikeRead(c) PROVE ChallengeInv'
  <2>1. read' \in [Challenges -> Nat]
    BY <1>3 DEF StrikeRead, StatsType, ChallengeInv, ChallengeType
  <2> QED  BY <1>3, <2>1, StaysInv DEF StrikeRead, Steps, InFlight
<1>4. ASSUME NEW c \in Challenges, Slashes(c) PROVE ChallengeInv'
  <2>1. step[c] = "striking" /\ Slash(c)
    BY <1>4, SlashesDef
  <2>2. read' \in [Challenges -> Nat]
    BY <2>1 DEF Slash, ChallengeInv, ChallengeType
  <2> QED  BY <2>1, <2>2, StaysInv DEF Slash, Steps, InFlight
<1> QED
  BY <1>1, <1>2, <1>3, <1>4, ByKind, DispatchInv, EndsDef, FinishInv, CrashPlaces
     DEF ChallengeInv

(* ---------------------------- The totals ------------------------------ *)

Counted(k) == {r \in Requests : KeyOf[r] = k /\ stage[r] \in {"counted", "done"}}
UsageInv == UsageType /\ \A k \in Keys : total[k] = Cardinality(Counted(k))

LEMMA CountedFacts ==
    ASSUME UsageType, NEW k \in Keys
    PROVE  Counted(k) = Logged(k) \ Short(k) /\ IsFiniteSet(Counted(k))
<1>1. Counted(k) = Logged(k) \ Short(k)
  BY DEF Counted, Logged, Short, UsageType, Stages
<1>2. Counted(k) \in SUBSET Requests
  BY DEF Counted
<1> QED  BY <1>1, <1>2, FS_Subset

LEMMA CountUsage ==
    ASSUME UsageInv, NEW r \in Requests, Count(r)
    PROVE  UsageInv'
<1>1. UsageType'
  BY DEF Count, Advance, UsageInv, UsageType, Stages
<1>2. ASSUME NEW k \in Keys PROVE total'[k] = Cardinality(Counted(k)')
  <2>1. CASE k = KeyOf[r]
    <3>1. r \notin Counted(k) /\ Counted(k)' = Counted(k) \cup {r}
      BY <2>1 DEF Count, Advance, Counted, UsageInv, UsageType
    <3>2. Cardinality(Counted(k) \cup {r}) = Cardinality(Counted(k)) + 1
      BY <3>1, CountedFacts, FS_AddElement DEF UsageInv
    <3> QED  BY <2>1, <3>1, <3>2 DEF Count, UsageInv, UsageType
  <2>2. CASE k # KeyOf[r]
    <3>1. Counted(k)' = Counted(k)
      BY <2>2 DEF Count, Advance, Counted, UsageInv, UsageType
    <3> QED  BY <2>2, <3>1 DEF Count, UsageInv, UsageType
  <2> QED  BY <2>1, <2>2
<1> QED  BY <1>1, <1>2 DEF UsageInv

\* A request that is not counted by the step was not before, or still is.
LEMMA UncountedUsage ==
    ASSUME UsageInv, stage' \in [Requests -> Stages], UNCHANGED total,
           \A r \in Requests :
               stage'[r] \in {"counted", "done"} <=> stage[r] \in {"counted", "done"}
    PROVE  UsageInv'
<1>1. \A k \in Keys : Counted(k)' = Counted(k)
  BY DEF Counted
<1> QED  BY <1>1 DEF UsageInv, UsageType

LEMMA UsageStepInv ==
    ASSUME UsageInv, ChallengeType, [Next]_vars
    PROVE  UsageInv'
<1>1. ASSUME UNCHANGED usage PROVE UsageInv'
  BY <1>1 DEF usage, UsageInv, UsageType, Counted
<1>2. ASSUME NEW r \in Requests, Insert(r) \/ InsertFails(r) \/ CountFails(r) PROVE UsageInv'
  <2>1. PICK s \in {"inserted", "unlogged", "uncounted"} :
            /\ stage' = [stage EXCEPT ![r] = s] /\ UNCHANGED total
            /\ stage[r] \in {"new", "inserted"}
    BY <1>2 DEF Insert, InsertFails, CountFails, Advance
  <2>2. stage' \in [Requests -> Stages]
    BY <2>1 DEF UsageInv, UsageType, Stages
  <2>3. \A q \in Requests :
            stage'[q] \in {"counted", "done"} <=> stage[q] \in {"counted", "done"}
    BY <2>1 DEF UsageInv, UsageType, Stages
  <2> QED  BY <2>1, <2>2, <2>3, UncountedUsage
<1>3. ASSUME NEW r \in Requests, Credit(r) \/ CreditFails(r) PROVE UsageInv'
  <2>1. /\ stage' = [stage EXCEPT ![r] = "done"] /\ UNCHANGED total
        /\ stage[r] = "counted"
    BY <1>3 DEF Credit, CreditFails, Advance
  <2>2. stage' \in [Requests -> Stages]
    BY <2>1 DEF UsageInv, UsageType, Stages
  <2>3. \A q \in Requests :
            stage'[q] \in {"counted", "done"} <=> stage[q] \in {"counted", "done"}
    BY <2>1 DEF UsageInv, UsageType, Stages
  <2> QED  BY <2>1, <2>2, <2>3, UncountedUsage
<1>4. ASSUME NEW p \in Routers, Crash(p) PROVE UsageInv'
  <2>1. \A r \in Requests :
            /\ stage'[r] \in Stages
            /\ stage'[r] \in {"counted", "done"} <=> stage[r] \in {"counted", "done"}
    BY <1>4 DEF Crash, UsageInv, UsageType, Stages
  <2>2. stage' \in [Requests -> Stages]
    BY <1>4, <2>1 DEF Crash
  <2>3. UNCHANGED total
    BY <1>4 DEF Crash
  <2> QED  BY <2>1, <2>2, <2>3, UncountedUsage
<1>5. ASSUME NEW c \in Challenges, Waits(c) \/ Dispatch(c) \/ StrikeRead(c) \/ Slashes(c)
      PROVE  UNCHANGED usage
  BY <1>5, SlashesDef DEF Waits, Survey, Dismiss, Dispatch, StrikeRead
<1>6. CASE UNCHANGED vars \/ ListStep
  BY <1>1, <1>6 DEF vars, ListStep, Join, Leave
<1>7. CASE UsageStep
  BY <1>2, <1>3, <1>7, CountUsage DEF UsageStep
<1> QED  BY <1>1, <1>4, <1>5, <1>6, <1>7, ByKind, EndsDef

(* ---------------------------- The strikes ----------------------------- *)

SlashedHasNone == \A n \in blacklisted : reputation[n] = 0

Bounded ==
    /\ \A n \in Nodes : strikes[n] <= failures[n]
    /\ \A n \in blacklisted : failures[n] >= 3
    /\ \A c \in Challenges : step[c] = "striking" => read[c] + 1 <= failures[Target[c]]

\* Of a node that no strike was missed of, one challenge at most is between its two
\* statements, and it has read what is still there.
Exact ==
    \A n \in Nodes \ missed :
        /\ \A c, d \in For(n, {"striking"}) : c = d
        /\ \A c \in For(n, {"striking"}) : read[c] = strikes[n] /\ failures[n] = strikes[n] + 1
        /\ For(n, {"striking"}) = {} => strikes[n] = failures[n]
        /\ n \in blacklisted <=> strikes[n] >= 3

StrikeInv == StatsType /\ HistoryType /\ SlashedHasNone /\ Bounded /\ Exact

LEMMA ForNext ==
    ASSUME ChallengeType, NEW c \in Challenges, NEW s, Goto(c, s), NEW n, NEW t
    PROVE  For(n, {t})' = IF Target[c] # n THEN For(n, {t})
                          ELSE IF s = t THEN For(n, {t}) \cup {c}
                          ELSE For(n, {t}) \ {c}
BY DEF ChallengeType, Goto, For

\* A step that neither begins nor ends a strike.
LEMMA NoStrike ==
    ASSUME StrikeInv, StatsType', HistoryType', SlashedHasNone',
           UNCHANGED <<strikes, blacklisted, failures, missed>>,
           \A c \in Challenges : /\ step'[c] = "striking" <=> step[c] = "striking"
                                 /\ step[c] = "striking" => read'[c] = read[c]
    PROVE  StrikeInv'
<1>1. \A n : For(n, {"striking"})' = For(n, {"striking"})
  BY DEF For
<1>2. \A n : \A c \in For(n, {"striking"}) : read'[c] = read[c]
  BY DEF For
<1>3. Bounded'
  BY DEF StrikeInv, Bounded
<1>4. Exact'
  BY <1>1, <1>2 DEF StrikeInv, Exact
<1> QED  BY <1>3, <1>4 DEF StrikeInv

LEMMA ReadStrike ==
    ASSUME StrikeInv, ChallengeType, NEW c \in Challenges, StrikeRead(c)
    PROVE  StrikeInv'
<1> DEFINE n == Target[c]
<1>1. /\ step[c] = "asking" /\ Goto(c, "striking") /\ n \in Nodes
      /\ failures' = [failures EXCEPT ![n] = @ + 1]
      /\ read' = [read EXCEPT ![c] = strikes[n]]
      /\ missed' = IF For(n, {"striking"}) = {} THEN missed ELSE missed \cup {n}
      /\ UNCHANGED <<stats, listed, excused>>
  BY DEF StrikeRead, Fail
<1>2. StatsType' /\ HistoryType' /\ SlashedHasNone'
  BY <1>1 DEF stats, StrikeInv, StatsType, HistoryType, SlashedHasNone
<1>3. Bounded'
  BY <1>1 DEF stats, StrikeInv, Bounded, HistoryType, StatsType, ChallengeType, Goto
<1>4. ASSUME NEW m \in Nodes \ missed'
      PROVE  /\ \A b, d \in For(m, {"striking"})' : b = d
             /\ \A b \in For(m, {"striking"})' :
                    read'[b] = strikes'[m] /\ failures'[m] = strikes'[m] + 1
             /\ For(m, {"striking"})' = {} => strikes'[m] = failures'[m]
             /\ m \in blacklisted' <=> strikes'[m] >= 3
  <2>1. m \in Nodes \ missed
    BY <1>1, <1>4
  <2>2. CASE m = n
    <3>1. For(m, {"striking"}) = {}
      BY <1>1, <1>4, <2>2
    <3>2. For(m, {"striking"})' = {c}
      <4>1. For(m, {"striking"})' = For(m, {"striking"}) \cup {c}
        BY <1>1, <2>2, ForNext
      <4> QED  BY <3>1, <4>1
    <3>3. strikes[m] = failures[m]
      BY <2>1, <3>1 DEF StrikeInv, Exact
    <3>4. strikes' = strikes /\ blacklisted' = blacklisted
      BY <1>1 DEF stats
    <3>5. read'[c] = strikes'[m] /\ failures'[m] = strikes'[m] + 1
      BY <1>1, <2>2, <3>3, <3>4 DEF StrikeInv, HistoryType, ChallengeType
    <3>6. m \in blacklisted' <=> strikes'[m] >= 3
      BY <2>1, <3>4 DEF StrikeInv, Exact
    <3> QED  BY <3>2, <3>5, <3>6
  <2>3. CASE m # n
    <3>1. For(m, {"striking"})' = For(m, {"striking"})
      BY <1>1, <2>3, ForNext
    <3>2. \A b \in For(m, {"striking"}) : read'[b] = read[b]
      BY <1>1, <2>3 DEF For, ChallengeType
    <3> QED
      BY <1>1, <2>1, <2>3, <3>1, <3>2 DEF stats, StrikeInv, Exact, HistoryType
  <2> QED  BY <2>2, <2>3
<1> QED  BY <1>2, <1>3, <1>4 DEF StrikeInv, Exact

LEMMA ReputationFacts ==
    ASSUME StatsType, NEW n \in Nodes
    PROVE  /\ Recovered(n) \in 0 .. Full
           /\ Lowered(n) \in 0 .. Full
           /\ reputation[n] = 0 => Lowered(n) = 0
BY DEF StatsType, Recovered, Lowered

\* The second statement, whichever it is.
LEMMA WriteStrike ==
    ASSUME StrikeInv, ChallengeType, NEW c \in Challenges, Strikes(c) \/ Slashes(c)
    PROVE  StrikeInv'
<1> DEFINE n == Target[c]
<1>1. PICK s \in {"idle", "removing"}, v \in 0 .. Full :
        /\ step[c] = "striking" /\ Goto(c, s) /\ n \in Nodes
        /\ strikes' = [strikes EXCEPT ![n] = read[c] + 1]
        /\ reputation' = [reputation EXCEPT ![n] = v]
        /\ blacklisted' = IF read[c] + 1 >= 3 THEN blacklisted \cup {n} ELSE blacklisted
        /\ n \in blacklisted' => v = 0
        /\ read' = [read EXCEPT ![c] = 0]
        /\ UNCHANGED <<rows, listed, failures, missed, excused>>
  <2>1. CASE Strikes(c)
    <3>1. /\ step[c] = "striking" /\ Goto(c, "idle") /\ n \in Nodes
          /\ strikes' = [strikes EXCEPT ![n] = read[c] + 1]
          /\ reputation' = [reputation EXCEPT ![n] = Lowered(n)]
          /\ blacklisted' = blacklisted /\ read[c] + 1 < 3
          /\ read' = [read EXCEPT ![c] = 0]
          /\ UNCHANGED <<rows, listed, failures, missed, excused>>
      BY <2>1, StrikesDef DEF Strikes, Strike, Finish, history
    <3>2. Lowered(n) \in 0 .. Full /\ (n \in blacklisted => Lowered(n) = 0)
      BY <3>1, ReputationFacts DEF StrikeInv, SlashedHasNone
    <3>3. ~(read[c] + 1 >= 3)
      BY <3>1 DEF ChallengeType
    <3> QED  BY <3>1, <3>2, <3>3
  <2>2. CASE Slashes(c)
    <3>1. /\ step[c] = "striking" /\ Goto(c, "removing") /\ n \in Nodes
          /\ strikes' = [strikes EXCEPT ![n] = read[c] + 1]
          /\ reputation' = [reputation EXCEPT ![n] = 0]
          /\ blacklisted' = blacklisted \cup {n} /\ read[c] + 1 >= 3
          /\ read' = [read EXCEPT ![c] = 0]
          /\ UNCHANGED <<rows, listed, failures, missed, excused>>
      BY <2>2, SlashesDef DEF Slashes, Slash, history
    <3>2. 0 \in 0 .. Full
      OBVIOUS
    <3> QED  BY <3>1, <3>2
  <2> QED  BY <2>1, <2>2
<1>2. StatsType' /\ HistoryType' /\ SlashedHasNone'
  BY <1>1 DEF StrikeInv, StatsType, HistoryType, SlashedHasNone, ChallengeType
<1>3. read[c] + 1 <= failures[n]
  BY <1>1 DEF StrikeInv, Bounded
<1>4. Bounded'
  <2>1. \A m \in Nodes : strikes'[m] <= failures'[m]
    BY <1>1, <1>3 DEF StrikeInv, Bounded, StatsType
  <2>2. \A m \in blacklisted' : failures'[m] >= 3
    BY <1>1, <1>3 DEF StrikeInv, Bounded, HistoryType, ChallengeType
  <2>3. \A d \in Challenges : step'[d] = "striking" => read'[d] + 1 <= failures'[Target[d]]
    BY <1>1 DEF StrikeInv, Bounded, ChallengeType, Goto
  <2> QED  BY <2>1, <2>2, <2>3 DEF Bounded
<1>5. ASSUME NEW m \in Nodes \ missed'
      PROVE  /\ \A b, d \in For(m, {"striking"})' : b = d
             /\ \A b \in For(m, {"striking"})' :
                    read'[b] = strikes'[m] /\ failures'[m] = strikes'[m] + 1
             /\ For(m, {"striking"})' = {} => strikes'[m] = failures'[m]
             /\ m \in blacklisted' <=> strikes'[m] >= 3
  <2>1. m \in Nodes \ missed
    BY <1>1, <1>5
  <2>2. CASE m = n
    <3>1. c \in For(m, {"striking"})
      BY <1>1, <2>2 DEF For
    <3>2. For(m, {"striking"})' = {}
      <4>1. For(m, {"striking"})' = For(m, {"striking"}) \ {c}
        BY <1>1, <2>2, ForNext
      <4> QED  BY <2>1, <3>1, <4>1 DEF StrikeInv, Exact
    <3>3. read[c] = strikes[m] /\ failures[m] = strikes[m] + 1
      BY <2>1, <3>1 DEF StrikeInv, Exact
    <3>4. m \in blacklisted <=> strikes[m] >= 3
      BY <2>1 DEF StrikeInv, Exact
    <3>5. strikes'[m] = strikes[m] + 1 /\ failures'[m] = strikes[m] + 1 /\ strikes[m] \in Nat
      BY <1>1, <2>2, <3>3 DEF StrikeInv, StatsType
    <3>6. m \in blacklisted' <=> strikes'[m] >= 3
      BY <1>1, <2>2, <3>3, <3>4, <3>5
    <3> QED  BY <3>2, <3>5, <3>6
  <2>3. CASE m # n
    <3>1. For(m, {"striking"})' = For(m, {"striking"})
      BY <1>1, <2>3, ForNext
    <3>2. \A b \in For(m, {"striking"}) : read'[b] = read[b]
      BY <1>1, <2>3 DEF For, ChallengeType
    <3> QED
      BY <1>1, <2>1, <2>3, <3>1, <3>2 DEF StrikeInv, Exact, StatsType
  <2> QED  BY <2>2, <2>3
<1> QED  BY <1>2, <1>4, <1>5 DEF StrikeInv, Exact

LEMMA MissStrike ==
    ASSUME StrikeInv, ChallengeType, NEW c \in Challenges,
           Unread(c) \/ StrikeFails(c)
    PROVE  StrikeInv'
<1> DEFINE n == Target[c]
<1>1. /\ Goto(c, "idle") /\ n \in Nodes /\ UNCHANGED <<stats, listed, excused>>
      /\ missed' = missed \cup {n}
      /\ read' = [read EXCEPT ![c] = 0]
      /\ failures' \in {failures, [failures EXCEPT ![n] = @ + 1]}
  BY DEF Unread, StrikeFails, Fail, Finish
<1>2. StatsType' /\ HistoryType' /\ SlashedHasNone'
  BY <1>1 DEF stats, StrikeInv, StatsType, HistoryType, SlashedHasNone
<1>3. \A m \in Nodes : failures'[m] >= failures[m] /\ (m # n => failures'[m] = failures[m])
  BY <1>1 DEF StrikeInv, HistoryType
<1>4. Bounded'
  <2>1. strikes' = strikes /\ blacklisted' = blacklisted
    BY <1>1 DEF stats
  <2>2. failures \in [Nodes -> Nat] /\ failures' \in [Nodes -> Nat] /\ strikes \in [Nodes -> Nat]
        /\ blacklisted \subseteq Nodes
    BY <1>2 DEF StrikeInv, HistoryType, StatsType
  <2>3. \A d \in Challenges : step'[d] = "striking" => step[d] = "striking" /\ read'[d] = read[d]
    BY <1>1 DEF Goto, ChallengeType
  <2>4. \A d \in Challenges : step'[d] = "striking" => read'[d] + 1 <= failures'[Target[d]]
    BY <1>3, <2>2, <2>3 DEF StrikeInv, Bounded, ChallengeType
  <2> QED  BY <1>3, <2>1, <2>2, <2>4 DEF StrikeInv, Bounded
<1>5. ASSUME NEW m \in Nodes \ missed'
      PROVE  /\ \A b, d \in For(m, {"striking"})' : b = d
             /\ \A b \in For(m, {"striking"})' :
                    read'[b] = strikes'[m] /\ failures'[m] = strikes'[m] + 1
             /\ For(m, {"striking"})' = {} => strikes'[m] = failures'[m]
             /\ m \in blacklisted' <=> strikes'[m] >= 3
  <2>1. m \in Nodes \ missed /\ m # n
    BY <1>1, <1>5
  <2>2. For(m, {"striking"})' = For(m, {"striking"})
    BY <1>1, <2>1, ForNext
  <2>3. \A b \in For(m, {"striking"}) : read'[b] = read[b]
    BY <1>1, <2>1 DEF For, ChallengeType
  <2>4. failures'[m] = failures[m] /\ strikes' = strikes /\ blacklisted' = blacklisted
    BY <1>1, <1>3, <2>1 DEF stats
  <2> QED  BY <2>1, <2>2, <2>3, <2>4 DEF StrikeInv, Exact
<1> QED  BY <1>2, <1>4, <1>5 DEF StrikeInv, Exact

LEMMA CrashStrike ==
    ASSUME StrikeInv, ChallengeType, NEW p \in Routers, Crash(p)
    PROVE  StrikeInv'
<1>1. /\ UNCHANGED <<stats, listed, failures>>
      /\ missed' = missed \cup {Target[c] : c \in Of(p, {"striking"})}
      /\ excused' = excused \cup {Target[c] : c \in Of(p, {"removing"})}
      /\ \A c \in Challenges :
            IF Owner[c] = p THEN step'[c] = "idle"
            ELSE step'[c] = step[c] /\ read'[c] = read[c]
  BY DEF Crash
<1>2. StatsType' /\ HistoryType' /\ SlashedHasNone'
  <2>1. \A S : {Target[c] : c \in Of(p, S)} \subseteq Nodes
    BY DEF Of
  <2> QED  BY <1>1, <2>1 DEF stats, StrikeInv, StatsType, HistoryType, SlashedHasNone
<1>3. \A c \in Challenges :
        step'[c] = "striking" => step[c] = "striking" /\ read'[c] = read[c]
  BY <1>1
<1>4. Bounded'
  BY <1>1, <1>3 DEF stats, StrikeInv, Bounded
<1>5. ASSUME NEW m \in Nodes \ missed'
      PROVE  /\ \A b, d \in For(m, {"striking"})' : b = d
             /\ \A b \in For(m, {"striking"})' :
                    read'[b] = strikes'[m] /\ failures'[m] = strikes'[m] + 1
             /\ For(m, {"striking"})' = {} => strikes'[m] = failures'[m]
             /\ m \in blacklisted' <=> strikes'[m] >= 3
  <2>1. m \in Nodes \ missed
    BY <1>1, <1>5
  <2>2. \A c \in Challenges : Target[c] = m /\ step[c] = "striking" => Owner[c] # p
    BY <1>1, <1>5 DEF Of
  <2>3. For(m, {"striking"})' = For(m, {"striking"})
    BY <1>1, <2>2 DEF For
  <2>4. \A b \in For(m, {"striking"}) : read'[b] = read[b]
    BY <1>1, <2>2 DEF For
  <2> QED  BY <1>1, <2>1, <2>3, <2>4 DEF stats, StrikeInv, Exact
<1> QED  BY <1>2, <1>4, <1>5 DEF StrikeInv, Exact

LEMMA PassStrike ==
    ASSUME StrikeInv, ChallengeType, NEW c \in Challenges, Pass(c)
    PROVE  StrikeInv'
<1> DEFINE n == Target[c]
<1>1. /\ step[c] = "asking" /\ Goto(c, "idle") /\ read' = [read EXCEPT ![c] = 0]
      /\ reputation' = IF n \in rows \ blacklisted
                       THEN [reputation EXCEPT ![n] = Recovered(n)] ELSE reputation
      /\ UNCHANGED <<rows, strikes, blacklisted, listed, failures, missed, excused>>
      /\ n \in Nodes
  BY DEF Pass, Finish, history
<1>2. StatsType' /\ HistoryType' /\ SlashedHasNone'
  <2>1. Recovered(n) \in 0 .. Full
    BY <1>1, ReputationFacts DEF StrikeInv
  <2> QED  BY <1>1, <2>1 DEF StrikeInv, StatsType, HistoryType, SlashedHasNone
<1>3. \A d \in Challenges : /\ step'[d] = "striking" <=> step[d] = "striking"
                            /\ step[d] = "striking" => read'[d] = read[d]
  BY <1>1 DEF Goto, ChallengeType
<1> QED  BY <1>1, <1>2, <1>3, NoStrike

\* Every other step of a challenge.
LEMMA OtherStrike ==
    ASSUME StrikeInv, ChallengeType, NEW c \in Challenges,
           Waits(c) \/ Dispatch(c) \/ Abort(c) \/ Remove(c) \/ RemoveFails(c)
    PROVE  StrikeInv'
<1>1. PICK s \in {"seen", "idle", "asking"} :
        /\ step[c] # "striking" /\ Goto(c, s)
        /\ read' \in {read, [read EXCEPT ![c] = 0]}
        /\ UNCHANGED <<stats, failures, missed>>
  BY DEF Waits, Survey, Dismiss, Dispatch, Abort, Remove, RemoveFails, Finish, history
<1>2. listed' \subseteq Nodes /\ excused' \subseteq Nodes
  BY DEF Waits, Survey, Dismiss, Dispatch, Abort, Remove, RemoveFails, history,
         StrikeInv, StatsType, HistoryType
<1>3. StatsType' /\ HistoryType' /\ SlashedHasNone'
  BY <1>1, <1>2 DEF stats, StrikeInv, StatsType, HistoryType, SlashedHasNone
<1>4. \A d \in Challenges : /\ step'[d] = "striking" <=> step[d] = "striking"
                            /\ step[d] = "striking" => read'[d] = read[d]
  BY <1>1 DEF Goto, ChallengeType
<1>5. UNCHANGED <<strikes, blacklisted, failures, missed>>
  BY <1>1 DEF stats
<1> QED  BY <1>3, <1>4, <1>5, NoStrike

LEMMA IdleStrike ==
    ASSUME StrikeInv, UNCHANGED vars \/ UsageStep \/ ListStep
    PROVE  StrikeInv'
<1>1. UNCHANGED <<strikes, reputation, blacklisted, challenge, failures, missed>>
  BY DEF vars, stats, history, UsageStep, Insert, InsertFails, Count, CountFails, Credit,
         CreditFails, ListStep, Join, Leave
<1>2. rows' \subseteq Nodes /\ listed' \subseteq Nodes /\ excused' \subseteq Nodes
  BY DEF vars, stats, history, UsageStep, Insert, InsertFails, Count, CountFails, Credit,
         CreditFails, ListStep, Join, Leave, StrikeInv, StatsType, HistoryType
<1>3. StatsType' /\ HistoryType' /\ SlashedHasNone'
  BY <1>1, <1>2 DEF StrikeInv, StatsType, HistoryType, SlashedHasNone
<1> QED  BY <1>1, <1>3, NoStrike DEF challenge

LEMMA StrikeStep ==
    ASSUME StrikeInv, ChallengeType, [Next]_vars
    PROVE  StrikeInv'
BY ByKind, IdleStrike, OtherStrike, PassStrike, MissStrike, ReadStrike, WriteStrike,
   CrashStrike DEF Ends

(* ---------------------------- The removal ----------------------------- *)

LEMMA RemovalKept ==
    ASSUME SlashedIsRemoved, UNCHANGED blacklisted, listed' \subseteq listed,
           excused \subseteq excused',
           \A n \in Nodes : For(n, {"removing"}) \subseteq For(n, {"removing"})',
           blacklisted \subseteq Nodes
    PROVE  SlashedIsRemoved'
BY DEF SlashedIsRemoved

LEMMA RemovalStep ==
    ASSUME SlashedIsRemoved, StrikeInv, ChallengeType, [Next]_vars
    PROVE  SlashedIsRemoved'
<1>1. blacklisted \subseteq Nodes
  BY DEF StrikeInv, StatsType
<1>2. CASE UNCHANGED vars \/ UsageStep \/ \E n \in Nodes : Leave(n)
  <2>1. UNCHANGED <<blacklisted, challenge, excused>> /\ listed' \subseteq listed
    BY <1>2 DEF vars, stats, history, UsageStep, Insert, InsertFails, Count, CountFails,
                Credit, CreditFails, Leave
  <2>2. \A n : For(n, {"removing"})' = For(n, {"removing"})
    BY <2>1 DEF For, challenge
  <2> QED  BY <1>1, <2>1, <2>2, RemovalKept
<1>3. ASSUME NEW n \in Nodes, Join(n) PROVE SlashedIsRemoved'
  <2>1. \A m : For(m, {"removing"})' = For(m, {"removing"})
    BY <1>3 DEF Join, For, challenge
  <2> QED  BY <1>3, <2>1 DEF Join, stats, SlashedIsRemoved
<1>4. ASSUME NEW c \in Challenges,
             Waits(c) \/ Dispatch(c) \/ StrikeRead(c) \/ Abort(c) \/ Pass(c) \/ Unread(c)
             \/ Strikes(c) \/ StrikeFails(c)
      PROVE  SlashedIsRemoved'
  <2>1. PICK s : step[c] # "removing" /\ Goto(c, s)
    BY <1>4, StrikesDef DEF Waits, Survey, Dismiss, Dispatch, StrikeRead, Abort, Pass, Unread,
                Strike, StrikeFails, Finish
  <2>2. UNCHANGED <<blacklisted, listed, excused>>
    BY <1>4, StrikesDef DEF Waits, Survey, Dismiss, Dispatch, StrikeRead, Abort, Pass, Unread,
                Strike, StrikeFails, stats, history
  <2>3. \A n : For(n, {"removing"}) \subseteq For(n, {"removing"})'
    BY <2>1 DEF For, Goto, ChallengeType
  <2> QED  BY <1>1, <2>2, <2>3, RemovalKept
<1>5. ASSUME NEW c \in Challenges, Slashes(c) PROVE SlashedIsRemoved'
  <2>1. /\ step[c] = "striking" /\ Goto(c, "removing") /\ UNCHANGED <<listed, excused>>
        /\ blacklisted' = blacklisted \cup {Target[c]}
    BY <1>5, SlashesDef DEF Slash, history
  <2>2. c \in For(Target[c], {"removing"})'
    BY <2>1 DEF For, Goto, ChallengeType
  <2>3. \A n : For(n, {"removing"}) \subseteq For(n, {"removing"})'
    BY <2>1 DEF For, Goto, ChallengeType
  <2> QED  BY <2>1, <2>2, <2>3 DEF SlashedIsRemoved
<1>6. ASSUME NEW c \in Challenges, Remove(c) \/ RemoveFails(c) PROVE SlashedIsRemoved'
  <2>1. /\ Goto(c, "idle") /\ UNCHANGED blacklisted
        /\ listed' \subseteq listed /\ excused \subseteq excused'
        /\ Target[c] \notin listed' \/ Target[c] \in excused'
    BY <1>6 DEF Remove, RemoveFails, Finish, stats, history
  <2>2. \A n : n # Target[c] => For(n, {"removing"})' = For(n, {"removing"})
    BY <2>1, ForNext
  <2> QED  BY <2>1, <2>2 DEF SlashedIsRemoved
<1>7. ASSUME NEW p \in Routers, Crash(p) PROVE SlashedIsRemoved'
  <2>1. /\ UNCHANGED <<blacklisted, listed>>
        /\ excused' = excused \cup {Target[c] : c \in Of(p, {"removing"})}
        /\ \A c \in Challenges : Owner[c] # p => step'[c] = step[c]
    BY <1>7 DEF Crash, stats
  <2>2. ASSUME NEW n, NEW c \in For(n, {"removing"})
        PROVE  n \in excused' \/ c \in For(n, {"removing"})'
    BY <2>1, <2>2 DEF For, Of
  <2> QED  BY <2>1, <2>2 DEF SlashedIsRemoved
<1> QED  BY <1>2, <1>3, <1>4, <1>5, <1>6, <1>7, ByKind DEF ListStep, Ends

(* ------------------------------ Together ------------------------------ *)

ReputationInv == ChallengeInv /\ UsageInv /\ StrikeInv /\ SlashedIsRemoved

LEMMA InitInv == ASSUME Init PROVE ReputationInv
<1>1. ChallengeInv
  <2>1. ChallengeType
    BY DEF Init, ChallengeType, Steps
  <2>2. \A p \in Routers : Of(p, InFlight) = {}
    BY DEF Init, Of, InFlight
  <2> QED  BY <2>1, <2>2, FS_EmptySet DEF ChallengeInv, PlacesAddUp, Init
<1>2. UsageInv
  <2>1. UsageType
    BY DEF Init, UsageType, Stages
  <2>2. \A k \in Keys : Counted(k) = {}
    BY DEF Init, Counted
  <2> QED  BY <2>1, <2>2, FS_EmptySet DEF UsageInv, Init
<1>3. StrikeInv
  <2>1. rows \subseteq Nodes
    BY DEF Init
  <2>2. StatsType /\ HistoryType /\ SlashedHasNone
    BY <2>1 DEF Init, StatsType, HistoryType, SlashedHasNone
  <2>3. \A n : For(n, {"striking"}) = {}
    BY DEF Init, For
  <2>4. Bounded /\ Exact
    BY <2>3 DEF Init, Bounded, Exact
  <2> QED  BY <2>2, <2>4 DEF StrikeInv
<1>4. SlashedIsRemoved
  BY DEF Init, SlashedIsRemoved
<1> QED  BY <1>1, <1>2, <1>3, <1>4 DEF ReputationInv

LEMMA StepInv ==
    ASSUME ReputationInv, [Next]_vars
    PROVE  ReputationInv'
<1>1. ChallengeType /\ StatsType
  BY DEF ReputationInv, ChallengeInv, StrikeInv
<1> QED
  BY <1>1, ChallengeStep, UsageStepInv, StrikeStep, RemovalStep DEF ReputationInv

LEMMA Safety == Spec => []ReputationInv
BY InitInv, StepInv, PTL DEF Spec

-----------------------------------------------------------------------------
\* The state is always of the stated types: no router goes beyond its places, and a
\* reputation never leaves its range.
THEOREM TypeCorrect == Spec => []TypeOK
<1>1. ReputationInv => TypeOK
  BY TypeParts DEF ReputationInv, ChallengeInv, UsageInv, StrikeInv
<1> QED  BY <1>1, Safety, PTL

\* activeChallenges is the number of challenges under way.
THEOREM PlacesCorrect == Spec => []PlacesAddUp
<1>1. ReputationInv => PlacesAddUp
  BY DEF ReputationInv, ChallengeInv
<1> QED  BY <1>1, Safety, PTL

\* Nobody is slashed for fewer than three failures.
THEOREM SlashedCorrect == Spec => []SlashedForThree
<1>1. ReputationInv => SlashedForThree
  BY DEF ReputationInv, StrikeInv, Bounded, SlashedForThree
<1> QED  BY <1>1, Safety, PTL

\* Without overlaps and losses the strikes are the failures, and the third slashes.
THEOREM StrikesCorrect == Spec => []StrikesAddUp
<1>1. ASSUME ReputationInv, NEW n \in Nodes \ missed, For(n, {"striking"}) = {}
      PROVE  strikes[n] = failures[n] /\ (n \in blacklisted <=> failures[n] >= 3)
  BY <1>1 DEF ReputationInv, StrikeInv, Exact
<1>2. ReputationInv => StrikesAddUp
  BY <1>1 DEF StrikesAddUp
<1> QED  BY <1>2, Safety, PTL

\* A slashed node is unlisted, or about to be, or there is a reason.
THEOREM RemovedCorrect == Spec => []SlashedIsRemoved
<1>1. ReputationInv => SlashedIsRemoved
  BY DEF ReputationInv
<1> QED  BY <1>1, Safety, PTL

\* A key's total is its log, short of what was not counted.
THEOREM TotalsCorrect == Spec => []TotalsFollowLog
<1>1. ReputationInv => TotalsFollowLog
  BY CountedFacts DEF ReputationInv, UsageInv, TotalsFollowLog
<1> QED  BY <1>1, Safety, PTL

\* Nobody leaves the blacklist.
LEMMA BlacklistGrows ==
    ASSUME ChallengeType, [Next]_vars
    PROVE  blacklisted \subseteq blacklisted'
<1>1. CASE UNCHANGED vars \/ UsageStep \/ ListStep
  BY <1>1 DEF vars, stats, UsageStep, Insert, InsertFails, Count, CountFails, Credit,
              CreditFails, ListStep, Join, Leave
<1>2. ASSUME NEW c \in Challenges, Waits(c) \/ Dispatch(c) \/ StrikeRead(c) \/ Slashes(c)
      PROVE  blacklisted \subseteq blacklisted'
  BY <1>2, SlashesDef DEF Waits, Survey, Dismiss, Dispatch, StrikeRead, Slash, stats
<1>3. ASSUME NEW c \in Challenges, Ends(c) PROVE blacklisted \subseteq blacklisted'
  BY <1>3, StrikesDef DEF Ends, Abort, Pass, Unread, Strike, StrikeFails, Remove, RemoveFails, stats
<1>4. ASSUME NEW p \in Routers, Crash(p) PROVE blacklisted \subseteq blacklisted'
  BY <1>4 DEF Crash, stats
<1> QED  BY <1>1, <1>2, <1>3, <1>4, ByKind

\* Nothing that was under way gives a slashed node its reputation back.
THEOREM SlashingCorrect == Spec => SlashedIsFinal
<1>1. ASSUME ReputationInv, [Next]_vars
      PROVE  \A n \in blacklisted : n \in blacklisted' /\ reputation'[n] = 0
  <2>1. ReputationInv'
    BY <1>1, StepInv
  <2>2. blacklisted \subseteq blacklisted'
    BY <1>1, BlacklistGrows DEF ReputationInv, ChallengeInv
  <2> QED  BY <2>1, <2>2 DEF ReputationInv, StrikeInv, SlashedHasNone
<1>2. ReputationInv /\ [Next]_vars =>
        [\A n \in blacklisted : n \in blacklisted' /\ reputation'[n] = 0]_vars
  BY <1>1
<1> QED  BY <1>2, Safety, PTL DEF Spec, SlashedIsFinal
=============================================================================

-------------------------- MODULE RateLimiterProofs --------------------------
(***************************************************************************)
(* Proofs about RateLimiter, for any set of requests and keys, any limits, *)
(* and any length of the window, the second and the run.                   *)
(***************************************************************************)
EXTENDS RateLimiter, FiniteSetTheorems, WellFoundedInduction, TLAPS

USE LimiterAssumption

(* ------------------------------ Arithmetic ---------------------------- *)

LEMMA LeastNat ==
    ASSUME NEW S, S \subseteq Nat, S # {}
    PROVE  \E m \in S : \A x \in S : m <= x
<1>1. PICK m \in S : \A x \in S : ~ (<<x, m>> \in OpToRel(<, Nat))
  BY WFMin, NatLessThanWellFounded
<1>2. \A x \in S : ~ (x < m)
  BY <1>1 DEF OpToRel
<1> QED  BY <1>2

LEMMA RoundedUp ==
    ASSUME NEW x \in Int, NEW s \in Nat \ {0}
    PROVE  ((x + s - 1) \div s) * s >= x
<1> DEFINE y == x + s - 1
<1>1. y \in Int /\ s > 0
  OBVIOUS
<1> HIDE DEF y
<1>2. y = s * (y \div s) + (y % s) /\ y % s \in 0..(s - 1) /\ y \div s \in Int
  BY <1>1
<1> QED  BY <1>2 DEF y

(* --------------------------- What the steps do ------------------------ *)

\* The arrays hold accepted requests, and every accepted request still in its
\* window is in the arrays: CountsExactly, element by element.
Counts ==
    /\ \A k \in Keys : windows[k] \subseteq AcceptedFor(k)
    /\ globalTimestamps \subseteq Accepted
    /\ \A r \in Accepted : now - at[r] < Window =>
          r \in windows[KeyOf[r]] /\ r \in globalTimestamps

\* Nobody was seen in the future, and finitely many were accepted.
Seen == /\ \A r \in Requests : at[r] <= now
        /\ IsFiniteSet(Accepted)

LimiterInv == TypeOK /\ Counts /\ Seen

LEMMA AcceptedType == Accepted \subseteq Requests /\ \A k \in Keys : AcceptedFor(k) \subseteq Accepted
BY DEF Accepted, AcceptedFor

\* A step that judges no request accepts nobody.
LEMMA NobodyJudged ==
    ASSUME UNCHANGED history
    PROVE  /\ Accepted' = Accepted
           /\ \A k \in Keys : AcceptedFor(k)' = AcceptedFor(k)
           /\ \A S, t : Within(S, t)' = Within(S, t)
BY DEF history, Accepted, AcceptedFor, Within

\* Neither does a refusal; only the refused request's time changes.
LEMMA Refused ==
    ASSUME TypeOK, NEW r \in Requests, NEW v \in Verdicts \ {"accepted"},
           verdict[r] = "new", Judge(r, v)
    PROVE  /\ Accepted' = Accepted
           /\ \A k \in Keys : AcceptedFor(k)' = AcceptedFor(k)
           /\ r \notin Accepted
           /\ \A q \in Requests : q # r => at'[q] = at[q] /\ verdict'[q] = verdict[q]
           /\ at'[r] = now /\ verdict'[r] = v
           /\ \A S \in SUBSET Accepted, t \in Nat : Within(S, t)' = Within(S, t)
<1>1. /\ \A q \in Requests : q # r => at'[q] = at[q] /\ verdict'[q] = verdict[q]
      /\ at'[r] = now /\ verdict'[r] = v
  BY DEF Judge, TypeOK
<1>2. Accepted' = Accepted /\ r \notin Accepted
  BY <1>1 DEF Accepted
<1>3. \A k \in Keys : AcceptedFor(k)' = AcceptedFor(k)
  BY <1>2 DEF AcceptedFor
<1>4. \A S \in SUBSET Accepted, t \in Nat : Within(S, t)' = Within(S, t)
  BY <1>1, <1>2 DEF Within, Accepted
<1> QED  BY <1>1, <1>2, <1>3, <1>4

LEMMA AcceptedOne ==
    ASSUME TypeOK, NEW r \in Requests, Accept(r)
    PROVE  /\ r \notin Accepted
           /\ Accepted' = Accepted \cup {r}
           /\ \A k \in Keys : AcceptedFor(k)' = IF k = KeyOf[r] THEN AcceptedFor(k) \cup {r}
                                                                ELSE AcceptedFor(k)
           /\ \A q \in Requests : q # r => at'[q] = at[q] /\ verdict'[q] = verdict[q]
           /\ at'[r] = now /\ verdict'[r] = "accepted"
<1>1. /\ \A q \in Requests : q # r => at'[q] = at[q] /\ verdict'[q] = verdict[q]
      /\ at'[r] = now /\ verdict'[r] = "accepted" /\ verdict[r] = "new"
  BY DEF Accept, Judge, TypeOK
<1>2. r \notin Accepted /\ Accepted' = Accepted \cup {r}
  BY <1>1 DEF Accepted
<1>3. \A k \in Keys : AcceptedFor(k)' = IF k = KeyOf[r] THEN AcceptedFor(k) \cup {r}
                                                        ELSE AcceptedFor(k)
  BY <1>2 DEF AcceptedFor
<1> QED  BY <1>1, <1>2, <1>3

\* Retry-After names a time at which the oldest of a non-empty set has left.
LEMMA RetryTimeIsEnough ==
    ASSUME TypeOK, NEW S \in SUBSET Requests, S # {},
           \A q \in S : now - at[q] < Window
    PROVE  /\ RetryTime(S) \in Nat
           /\ RetryTime(S) >= now
           /\ \E o \in S : at[o] + Window <= RetryTime(S)
<1> DEFINE Times == {at[q] : q \in S}
           o == CHOOSE r \in S : \A q \in S : at[r] <= at[q]
           x == at[o] + Window - now
           w == ((x + Second - 1) \div Second) * Second
<1>1. Times \subseteq Nat /\ Times # {}
  BY DEF TypeOK
<1>2. PICK m \in Times : \A y \in Times : m <= y
  BY <1>1, LeastNat
<1>3. \E r \in S : \A q \in S : at[r] <= at[q]
  BY <1>2
<1>4. o \in S
  BY <1>3
<1>5. x \in Int /\ x > 0 /\ now \in Nat /\ at[o] \in Nat
  BY <1>4 DEF TypeOK
<1>6. w >= x /\ w \in Int
  <2> HIDE DEF x
  <2> QED  BY <1>5, RoundedUp
<1>7. RetryTime(S) = now + w
  BY DEF RetryTime
<1>8. at[o] + Window = now + x
  BY <1>5
<1> HIDE DEF o, x, w
<1>9. RetryTime(S) \in Nat /\ RetryTime(S) >= now
  BY <1>5, <1>6, <1>7
<1>10. at[o] + Window <= RetryTime(S)
  BY <1>5, <1>6, <1>7, <1>8
<1> QED  BY <1>4, <1>9, <1>10

LEMMA FullIsNotEmpty ==
    ASSUME NEW S, NEW n \in Nat \ {0}, Cardinality(S) >= n
    PROVE  S # {}
BY FS_EmptySet

(* -------------------------- The inductive invariant ------------------- *)

LEMMA InitInv == Init => LimiterInv
<1> SUFFICES ASSUME Init PROVE LimiterInv
  OBVIOUS
<1>1. Accepted = {} /\ \A k \in Keys : AcceptedFor(k) = {}
  BY DEF Init, Accepted, AcceptedFor
<1>2. TypeOK
  BY <1>1 DEF Init, TypeOK, Verdicts
<1>3. Counts
  BY <1>1 DEF Init, Counts
<1>4. Seen
  BY <1>1, FS_EmptySet DEF Init, Seen
<1> QED  BY <1>2, <1>3, <1>4 DEF LimiterInv

\* Filtering an array loses nothing that counts and adds nothing.
LEMMA FreshSubset == \A S : Fresh(S) \subseteq S /\ \A r \in S : now - at[r] < Window => r \in Fresh(S)
BY DEF Fresh

LEMMA GlobalRefusalInv ==
    ASSUME LimiterInv, NEW r \in Requests, GlobalRefusal(r)
    PROVE  LimiterInv'
<1> USE DEF LimiterInv
<1>1. /\ Accepted' = Accepted
      /\ \A k \in Keys : AcceptedFor(k)' = AcceptedFor(k)
      /\ r \notin Accepted
      /\ \A q \in Requests : q # r => at'[q] = at[q]
      /\ at'[r] = now
  BY Refused DEF GlobalRefusal, Verdicts
<1>2. /\ now' = now /\ windows' = windows /\ globalTimestamps' = Fresh(globalTimestamps)
  BY DEF GlobalRefusal
<1>3. RetryTime(Fresh(globalTimestamps)) \in Nat
  <2>1. Fresh(globalTimestamps) # {}
    BY FullIsNotEmpty DEF GlobalRefusal
  <2>2. Fresh(globalTimestamps) \subseteq Requests
    BY FreshSubset, AcceptedType DEF TypeOK
  <2> QED  BY <2>1, <2>2, RetryTimeIsEnough DEF Fresh
<1>4. TypeOK'
  BY <1>1, <1>2, <1>3, FreshSubset, AcceptedType DEF TypeOK, GlobalRefusal, Judge, Verdicts
<1>5. Counts'
  BY <1>1, <1>2, FreshSubset, AcceptedType DEF Counts
<1>6. Seen'
  BY <1>1, <1>2 DEF Seen, TypeOK
<1> QED  BY <1>4, <1>5, <1>6

LEMMA KeyRefusalInv ==
    ASSUME LimiterInv, NEW r \in Requests, KeyRefusal(r)
    PROVE  LimiterInv'
<1> USE DEF LimiterInv
<1> DEFINE k == KeyOf[r]
<1>0. k \in Keys
  OBVIOUS
<1>1. /\ Accepted' = Accepted
      /\ \A j \in Keys : AcceptedFor(j)' = AcceptedFor(j)
      /\ r \notin Accepted
      /\ \A q \in Requests : q # r => at'[q] = at[q]
      /\ at'[r] = now
  BY Refused DEF KeyRefusal, Verdicts
<1>2. /\ now' = now
      /\ windows' = [windows EXCEPT ![k] = Fresh(windows[k])]
      /\ globalTimestamps' = Fresh(globalTimestamps)
  BY DEF KeyRefusal
<1>3. RetryTime(Fresh(windows[k])) \in Nat
  <2>1. Fresh(windows[k]) # {}
    BY <1>0, FullIsNotEmpty DEF KeyRefusal
  <2>2. Fresh(windows[k]) \subseteq Requests
    BY <1>0, FreshSubset, AcceptedType DEF TypeOK
  <2> QED  BY <2>1, <2>2, RetryTimeIsEnough DEF Fresh
<1>4. TypeOK'
  <2>1. windows' \in [Keys -> SUBSET Accepted'] /\ globalTimestamps' \in SUBSET Accepted'
    BY <1>0, <1>1, <1>2, FreshSubset DEF TypeOK
  <2>2. retryAt' \in [Requests -> Nat]
    BY <1>3 DEF TypeOK, KeyRefusal
  <2>3. verdict' \in [Requests -> Verdicts] /\ at' \in [Requests -> 0..MaxTime]
    BY DEF TypeOK, KeyRefusal, Judge, Verdicts
  <2> QED  BY <1>2, <2>1, <2>2, <2>3 DEF TypeOK
<1>5. Counts'
  <2>1. \A j \in Keys : windows'[j] \subseteq AcceptedFor(j)'
    BY <1>0, <1>1, <1>2, FreshSubset DEF Counts, TypeOK
  <2>2. globalTimestamps' \subseteq Accepted'
    BY <1>1, <1>2, FreshSubset DEF Counts
  <2>3. ASSUME NEW q \in Accepted', now' - at'[q] < Window
        PROVE  q \in windows'[KeyOf[q]] /\ q \in globalTimestamps'
    <3>1. q \in Accepted /\ q \in Requests /\ at'[q] = at[q] /\ KeyOf[q] \in Keys
      BY <1>1, AcceptedType
    <3>2. q \in windows[KeyOf[q]] /\ q \in globalTimestamps /\ now - at[q] < Window
      BY <1>2, <2>3, <3>1 DEF Counts
    <3> QED  BY <1>0, <1>2, <3>1, <3>2, FreshSubset DEF TypeOK
  <2> QED  BY <2>1, <2>2, <2>3 DEF Counts
<1>6. Seen'
  BY <1>1, <1>2 DEF Seen, TypeOK
<1> QED  BY <1>4, <1>5, <1>6

LEMMA AcceptInv ==
    ASSUME LimiterInv, NEW r \in Requests, Accept(r)
    PROVE  LimiterInv'
<1> USE DEF LimiterInv
<1> DEFINE k == KeyOf[r]
<1>0. k \in Keys
  OBVIOUS
<1>1. /\ r \notin Accepted
      /\ Accepted' = Accepted \cup {r}
      /\ \A j \in Keys : AcceptedFor(j)' = IF j = k THEN AcceptedFor(j) \cup {r} ELSE AcceptedFor(j)
      /\ \A q \in Requests : q # r => at'[q] = at[q]
      /\ at'[r] = now
  BY AcceptedOne
<1>2. /\ now' = now
      /\ windows' = [windows EXCEPT ![k] = Fresh(windows[k]) \cup {r}]
      /\ globalTimestamps' = Fresh(globalTimestamps) \cup {r}
  BY DEF Accept
<1>3. TypeOK'
  <2>1. windows' \in [Keys -> SUBSET Accepted'] /\ globalTimestamps' \in SUBSET Accepted'
    BY <1>0, <1>1, <1>2, FreshSubset DEF TypeOK
  <2>2. verdict' \in [Requests -> Verdicts] /\ at' \in [Requests -> 0..MaxTime]
    BY DEF TypeOK, Accept, Judge, Verdicts
  <2> QED  BY <1>2, <2>1, <2>2 DEF TypeOK, Accept
<1>4. Counts'
  <2>1. \A j \in Keys : windows'[j] \subseteq AcceptedFor(j)'
    BY <1>0, <1>1, <1>2, FreshSubset DEF Counts, TypeOK
  <2>2. globalTimestamps' \subseteq Accepted'
    BY <1>1, <1>2, FreshSubset DEF Counts
  <2>3. ASSUME NEW q \in Accepted', now' - at'[q] < Window, q # r
        PROVE  q \in windows'[KeyOf[q]] /\ q \in globalTimestamps'
    <3>1. q \in Accepted /\ q \in Requests /\ at'[q] = at[q] /\ KeyOf[q] \in Keys
      BY <1>1, <2>3, AcceptedType
    <3>2. q \in windows[KeyOf[q]] /\ q \in globalTimestamps /\ now - at[q] < Window
      BY <1>2, <2>3, <3>1 DEF Counts
    <3> QED  BY <1>0, <1>2, <3>1, <3>2, FreshSubset DEF TypeOK
  <2>4. r \in windows'[KeyOf[r]] /\ r \in globalTimestamps'
    BY <1>0, <1>2 DEF TypeOK
  <2> QED  BY <2>1, <2>2, <2>3, <2>4 DEF Counts
<1>5. Seen'
  <2>1. IsFiniteSet(Accepted')
    BY <1>1, FS_AddElement DEF Seen
  <2> QED  BY <1>1, <1>2, <2>1 DEF Seen, TypeOK
<1> QED  BY <1>3, <1>4, <1>5

LEMMA CleanUpInv ==
    ASSUME LimiterInv, CleanUp
    PROVE  LimiterInv'
<1> USE DEF LimiterInv
<1>1. /\ Accepted' = Accepted
      /\ \A k \in Keys : AcceptedFor(k)' = AcceptedFor(k)
      /\ now' = now /\ at' = at
  BY NobodyJudged DEF CleanUp, history
<1>2. windows' = [j \in Keys |-> Fresh(windows[j])] /\ globalTimestamps' = Fresh(globalTimestamps)
  BY DEF CleanUp
<1>3. TypeOK'
  BY <1>1, <1>2, FreshSubset DEF TypeOK, CleanUp, history
<1>4. Counts'
  <2>1. ASSUME NEW q \in Accepted', now' - at'[q] < Window
        PROVE  q \in windows'[KeyOf[q]] /\ q \in globalTimestamps'
    <3>1. q \in Accepted /\ KeyOf[q] \in Keys
      BY <1>1, AcceptedType
    <3> QED  BY <1>1, <1>2, <2>1, <3>1, FreshSubset DEF Counts
  <2>2. (\A k \in Keys : windows'[k] \subseteq AcceptedFor(k)') /\ globalTimestamps' \subseteq Accepted'
    BY <1>1, <1>2, FreshSubset DEF Counts
  <2> QED  BY <2>1, <2>2 DEF Counts
<1>5. Seen'
  BY <1>1 DEF Seen
<1> QED  BY <1>3, <1>4, <1>5

LEMMA TickInv ==
    ASSUME LimiterInv, Tick
    PROVE  LimiterInv'
<1> USE DEF LimiterInv
<1>1. /\ Accepted' = Accepted
      /\ \A k \in Keys : AcceptedFor(k)' = AcceptedFor(k)
      /\ at' = at /\ windows' = windows /\ globalTimestamps' = globalTimestamps
      /\ now' = now + 1 /\ now < MaxTime
  BY NobodyJudged DEF Tick, history
<1>2. TypeOK'
  BY <1>1 DEF TypeOK, Tick, history
<1>3. Counts'
  <2>1. ASSUME NEW q \in Accepted', now' - at'[q] < Window
        PROVE  now - at[q] < Window
    <3>1. q \in Requests
      BY <1>1, AcceptedType
    <3> QED  BY <1>1, <2>1, <3>1 DEF TypeOK
  <2> QED  BY <1>1, <2>1 DEF Counts
<1>4. Seen'
  BY <1>1 DEF Seen, TypeOK
<1> QED  BY <1>2, <1>3, <1>4

LEMMA StutterInv ==
    ASSUME LimiterInv, UNCHANGED vars
    PROVE  LimiterInv'
BY DEF LimiterInv, TypeOK, Counts, Seen, Accepted, AcceptedFor, vars, history

LEMMA StepInv == LimiterInv /\ [Next]_vars => LimiterInv'
BY GlobalRefusalInv, KeyRefusalInv, AcceptInv, CleanUpInv, TickInv, StutterInv DEF Next

LEMMA InvHolds == Spec => []LimiterInv
<1> QED  BY InitInv, StepInv, PTL DEF Spec

\* The arrays hold accepted requests only, and every variable has its type.
THEOREM TypeCorrect == Spec => []TypeOK
<1>1. LimiterInv => TypeOK
  BY DEF LimiterInv
<1> QED  BY <1>1, InvHolds, PTL

\* What the arrays mean, whatever has been filtered and cleaned up: their fresh
\* elements are the accepted requests of the last window, neither fewer nor more
\* (rate-limiter.js:31, 55, 76-77, 88-97).
CountsExactly ==
    /\ \A k \in Keys : /\ windows[k] \subseteq AcceptedFor(k)
                       /\ Fresh(windows[k]) = Fresh(AcceptedFor(k))
    /\ Fresh(globalTimestamps) = Fresh(Accepted)

LEMMA InvCountsExactly == LimiterInv => CountsExactly
<1> SUFFICES ASSUME LimiterInv PROVE CountsExactly
  OBVIOUS
<1> USE DEF LimiterInv
<1>1. ASSUME NEW k \in Keys
      PROVE  windows[k] \subseteq AcceptedFor(k) /\ Fresh(windows[k]) = Fresh(AcceptedFor(k))
  BY AcceptedType DEF Counts, Fresh, AcceptedFor
<1>2. Fresh(globalTimestamps) = Fresh(Accepted)
  BY DEF Counts, Fresh
<1> QED  BY <1>1, <1>2 DEF CountsExactly

\* The fresh elements of the arrays are the accepted requests of the last window,
\* after any filtering and clean-up.
THEOREM CountsAreExact == Spec => []CountsExactly
<1> QED  BY InvCountsExactly, InvHolds, PTL

(* ------------------------------ The rate bounds ----------------------- *)

LEMMA WithinFinite ==
    ASSUME LimiterInv, NEW S \in SUBSET Accepted, NEW t
    PROVE  /\ IsFiniteSet(S) /\ Cardinality(S) \in Nat
           /\ IsFiniteSet(Within(S, t)) /\ Cardinality(Within(S, t)) \in Nat
<1>1. IsFiniteSet(Accepted)
  BY DEF LimiterInv, Seen
<1>2. IsFiniteSet(S)
  BY <1>1, FS_Subset
<1>3. Within(S, t) \in SUBSET S
  BY DEF Within
<1>4. IsFiniteSet(Within(S, t))
  BY <1>2, <1>3, FS_Subset
<1> QED  BY <1>2, <1>4, FS_CardinalityType

\* One more request is accepted out of S, when fewer than n of S are fresh.
LEMMA OneMoreFits ==
    ASSUME LimiterInv, NEW r \in Requests, Accept(r),
           NEW S \in SUBSET Accepted, NEW F \in SUBSET S, NEW n \in Nat,
           \A q \in S : now - at[q] < Window => q \in F,
           Cardinality(F) < n,
           NEW t \in Nat, Cardinality(Within(S, t)) <= n
    PROVE  Cardinality(Within(S \cup {r}, t)') <= n
<1>1. /\ r \notin Accepted /\ S \subseteq Requests
      /\ \A q \in Requests : q # r => at'[q] = at[q]
      /\ at'[r] = now
  BY AcceptedOne, AcceptedType DEF LimiterInv
<1>2. now \in Nat /\ \A q \in Requests : at[q] \in Nat /\ at[q] <= now
  BY DEF LimiterInv, TypeOK, Seen
<1>3. CASE t < now
  <2>1. Within(S \cup {r}, t)' = Within(S, t)
    BY <1>1, <1>2, <1>3 DEF Within
  <2> QED  BY <2>1
<1>4. CASE t >= now
  <2>1. Within(S \cup {r}, t)' \subseteq F \cup {r}
    BY <1>1, <1>2, <1>4 DEF Within
  <2>2. IsFiniteSet(F) /\ Cardinality(F) \in Nat
    BY WithinFinite
  <2>3. IsFiniteSet(F \cup {r}) /\ Cardinality(F \cup {r}) = Cardinality(F) + 1
    BY <1>1, <2>2, FS_AddElement
  <2>4. IsFiniteSet(Within(S \cup {r}, t)') /\ Cardinality(Within(S \cup {r}, t)') <= Cardinality(F \cup {r})
    BY <2>1, <2>3, FS_Subset
  <2>5. Cardinality(Within(S \cup {r}, t)') \in Nat
    BY <2>4, FS_CardinalityType
  <2> QED  BY <2>2, <2>3, <2>4, <2>5
<1> QED  BY <1>2, <1>3, <1>4

LEMMA KeyBoundStep ==
    ASSUME LimiterInv, KeyRateBound, [Next]_vars
    PROVE  KeyRateBound'
<1> SUFFICES ASSUME NEW k \in Keys, NEW t \in 0..MaxTime
             PROVE  Cardinality(Within(AcceptedFor(k), t)') <= Rpm[k]
  BY DEF KeyRateBound
<1>0. AcceptedFor(k) \in SUBSET Accepted /\ Cardinality(Within(AcceptedFor(k), t)) <= Rpm[k] /\ t \in Nat
  BY AcceptedType DEF KeyRateBound
<1>1. ASSUME NEW r \in Requests, GlobalRefusal(r) \/ KeyRefusal(r)
      PROVE  Within(AcceptedFor(k), t)' = Within(AcceptedFor(k), t)
  <2>1. AcceptedFor(k)' = AcceptedFor(k)
    BY <1>1, Refused DEF LimiterInv, GlobalRefusal, KeyRefusal, Verdicts
  <2>2. r \notin Accepted /\ \A q \in Requests : q # r => at'[q] = at[q]
    BY <1>1, Refused DEF LimiterInv, GlobalRefusal, KeyRefusal, Verdicts
  <2> QED  BY <1>0, <2>1, <2>2, AcceptedType DEF Within
<1>2. ASSUME CleanUp \/ Tick \/ UNCHANGED vars
      PROVE  Within(AcceptedFor(k), t)' = Within(AcceptedFor(k), t)
  BY <1>2, NobodyJudged DEF CleanUp, Tick, vars, history, Within
<1>3. ASSUME NEW r \in Requests, Accept(r)
      PROVE  Cardinality(Within(AcceptedFor(k), t)') <= Rpm[k]
  <2>1. r \notin Accepted /\ \A q \in Requests : q # r => at'[q] = at[q]
    BY <1>3, AcceptedOne DEF LimiterInv
  <2>2. CASE k # KeyOf[r]
    <3>1. AcceptedFor(k)' = AcceptedFor(k)
      BY <1>3, <2>2, AcceptedOne DEF LimiterInv
    <3>2. Within(AcceptedFor(k), t)' = Within(AcceptedFor(k), t)
      BY <1>0, <2>1, <3>1, AcceptedType DEF Within
    <3> QED  BY <1>0, <3>2
  <2>3. CASE k = KeyOf[r]
    <3>1. AcceptedFor(k)' = AcceptedFor(k) \cup {r}
      BY <1>3, <2>3, AcceptedOne DEF LimiterInv
    <3>a. PICK S, F : S = AcceptedFor(k) /\ F = Fresh(windows[k])
      OBVIOUS
    <3>2. F \subseteq S /\ \A q \in S : now - at[q] < Window => q \in F
      BY <1>0, <3>a, AcceptedType DEF LimiterInv, Counts, Fresh, AcceptedFor
    <3>3. Cardinality(F) < Rpm[k] /\ Rpm[k] \in Nat
      BY <1>3, <2>3, <3>a DEF Accept
    <3>4. Within(AcceptedFor(k), t)' = Within(S \cup {r}, t)'
      BY <3>1, <3>a DEF Within
    <3>5. S \in SUBSET Accepted /\ Cardinality(Within(S, t)) <= Rpm[k]
      BY <1>0, <3>a
    <3>6. Cardinality(Within(S \cup {r}, t)') <= Rpm[k]
      BY <1>0, <1>3, <3>2, <3>3, <3>5, OneMoreFits
    <3> QED  BY <3>4, <3>6
  <2> QED  BY <2>2, <2>3
<1> QED  BY <1>0, <1>1, <1>2, <1>3 DEF Next

LEMMA NothingAccepted ==
    Init => \A t : Within(Accepted, t) = {} /\ \A k \in Keys : Within(AcceptedFor(k), t) = {}
BY DEF Init, Accepted, AcceptedFor, Within

\* In no window of a minute are more requests of a key accepted than it may make,
\* wherever the window begins and whenever the clean-up ran.
THEOREM KeyRateBounded == Spec => []KeyRateBound
<1>1. Init => KeyRateBound
  BY NothingAccepted, FS_EmptySet DEF KeyRateBound
<1>2. LimiterInv /\ KeyRateBound /\ [Next]_vars => KeyRateBound'
  BY KeyBoundStep
<1> QED  BY <1>1, <1>2, InvHolds, PTL DEF Spec

LEMMA GlobalBoundStep ==
    ASSUME LimiterInv, GlobalRateBound, [Next]_vars
    PROVE  GlobalRateBound'
<1> SUFFICES ASSUME NEW t \in 0..MaxTime
             PROVE  Cardinality(Within(Accepted, t)') <= GlobalRpm
  BY DEF GlobalRateBound
<1>0. Cardinality(Within(Accepted, t)) <= GlobalRpm /\ t \in Nat
  BY DEF GlobalRateBound
<1>1. ASSUME NEW r \in Requests, GlobalRefusal(r) \/ KeyRefusal(r)
      PROVE  Within(Accepted, t)' = Within(Accepted, t)
  <2>1. /\ Accepted' = Accepted /\ r \notin Accepted
        /\ \A q \in Requests : q # r => at'[q] = at[q]
    BY <1>1, Refused DEF LimiterInv, GlobalRefusal, KeyRefusal, Verdicts
  <2> QED  BY <2>1, AcceptedType DEF Within
<1>2. ASSUME CleanUp \/ Tick \/ UNCHANGED vars
      PROVE  Within(Accepted, t)' = Within(Accepted, t)
  BY <1>2, NobodyJudged DEF CleanUp, Tick, vars, history, Within
<1>3. ASSUME NEW r \in Requests, Accept(r)
      PROVE  Cardinality(Within(Accepted, t)') <= GlobalRpm
  <2>a. PICK S, F : S = Accepted /\ F = Fresh(globalTimestamps)
    OBVIOUS
  <2>1. F \subseteq S /\ \A q \in S : now - at[q] < Window => q \in F
    BY <2>a DEF LimiterInv, Counts, Fresh
  <2>2. Cardinality(F) < GlobalRpm
    BY <1>3, <2>a DEF Accept
  <2>3. Within(Accepted, t)' = Within(S \cup {r}, t)'
    BY <1>3, <2>a, AcceptedOne DEF LimiterInv, Within
  <2>4. S \in SUBSET Accepted /\ Cardinality(Within(S, t)) <= GlobalRpm
    BY <1>0, <2>a
  <2>5. Cardinality(Within(S \cup {r}, t)') <= GlobalRpm
    BY <1>0, <1>3, <2>1, <2>2, <2>4, OneMoreFits
  <2> QED  BY <2>3, <2>5
<1> QED  BY <1>0, <1>1, <1>2, <1>3 DEF Next

\* Nor more of all keys together than the router takes.
THEOREM GlobalRateBounded == Spec => []GlobalRateBound
<1>1. Init => GlobalRateBound
  BY NothingAccepted, FS_EmptySet DEF GlobalRateBound
<1>2. LimiterInv /\ GlobalRateBound /\ [Next]_vars => GlobalRateBound'
  BY GlobalBoundStep
<1> QED  BY <1>1, <1>2, InvHolds, PTL DEF Spec

\* So the limiter keeps both limits in every window.
THEOREM RatesBounded == Spec => []RateBounds
<1> QED  BY KeyRateBounded, GlobalRateBounded, PTL DEF RateBounds

(* ------------------------------- Refusals ----------------------------- *)

Refusals == {"key_rate_limit", "global_rate_limit"}

\* The accepted requests a refused one competed with, and their limit.
Rivals(r) == IF verdict[r] = "key_rate_limit" THEN AcceptedFor(KeyOf[r]) ELSE Accepted
LimitOf(r) == IF verdict[r] = "key_rate_limit" THEN Rpm[KeyOf[r]] ELSE GlobalRpm

\* At a refusal the window was full, and its oldest will have left by the time the
\* client was told.
RefusalInv ==
    \A r \in Requests : verdict[r] \in Refusals =>
        /\ Cardinality(Within(Rivals(r), at[r])) >= LimitOf(r)
        /\ \E o \in Within(Rivals(r), at[r]) : at[o] + Window <= retryAt[r]
        /\ at[r] <= retryAt[r]

LEMMA RivalsType == \A r \in Requests : Rivals(r) \subseteq Accepted /\ LimitOf(r) \in Nat
BY AcceptedType DEF Rivals, LimitOf

\* What has been judged stays judged.
LEMMA JudgedStays ==
    ASSUME LimiterInv, [Next]_vars, NEW r \in Requests, verdict[r] # "new"
    PROVE  verdict'[r] = verdict[r] /\ at'[r] = at[r] /\ retryAt'[r] = retryAt[r]
<1> USE DEF LimiterInv, TypeOK
<1>1. ASSUME NEW q \in Requests, GlobalRefusal(q)
      PROVE  verdict'[r] = verdict[r] /\ at'[r] = at[r] /\ retryAt'[r] = retryAt[r]
  BY <1>1 DEF GlobalRefusal, Judge
<1>2. ASSUME NEW q \in Requests, KeyRefusal(q)
      PROVE  verdict'[r] = verdict[r] /\ at'[r] = at[r] /\ retryAt'[r] = retryAt[r]
  BY <1>2 DEF KeyRefusal, Judge
<1>3. ASSUME NEW q \in Requests, Accept(q)
      PROVE  verdict'[r] = verdict[r] /\ at'[r] = at[r] /\ retryAt'[r] = retryAt[r]
  BY <1>3 DEF Accept, Judge
<1>4. CASE CleanUp \/ Tick \/ UNCHANGED vars
  BY <1>4 DEF CleanUp, Tick, vars, history
<1> QED  BY <1>1, <1>2, <1>3, <1>4 DEF Next

LEMMA AcceptedStays ==
    ASSUME LimiterInv, [Next]_vars
    PROVE  /\ Accepted \subseteq Accepted' /\ \A q \in Accepted : at'[q] = at[q]
           /\ \A k \in Keys : AcceptedFor(k) \subseteq AcceptedFor(k)'
BY JudgedStays DEF Accepted, AcceptedFor

\* A request refused before: the step adds to its rivals at most.
LEMMA OldRefusal ==
    ASSUME LimiterInv, [Next]_vars, RefusalInv,
           NEW r \in Requests, verdict[r] \in Refusals
    PROVE  /\ Cardinality(Within(Rivals(r), at[r])') >= LimitOf(r)'
           /\ \E o \in Within(Rivals(r), at[r])' : at'[o] + Window <= retryAt'[r]
           /\ at'[r] <= retryAt'[r]
<1> DEFINE W == Within(Rivals(r), at[r])
<1>1. verdict'[r] = verdict[r] /\ at'[r] = at[r] /\ retryAt'[r] = retryAt[r]
  BY JudgedStays DEF Refusals
<1>2. Rivals(r) \subseteq Rivals(r)' /\ LimitOf(r)' = LimitOf(r)
  BY <1>1, AcceptedStays DEF Rivals, LimitOf
<1>3. \A q \in Rivals(r) : at'[q] = at[q]
  BY AcceptedStays, RivalsType
<1>4. W \subseteq W'
  BY <1>1, <1>2, <1>3 DEF Within
<1>5. IsFiniteSet(W) /\ IsFiniteSet(W')
  <2>1. IsFiniteSet(Accepted) /\ IsFiniteSet(Accepted')
    BY StepInv DEF LimiterInv, Seen
  <2>2. W \subseteq Accepted /\ W' \subseteq Accepted'
    BY RivalsType, AcceptedType DEF Within, Rivals, AcceptedFor
  <2> QED  BY <2>1, <2>2, FS_Subset
<1>6. Cardinality(W) <= Cardinality(W')
  BY <1>4, <1>5, FS_Subset
<1>7. Cardinality(W) \in Nat /\ Cardinality(W') \in Nat /\ LimitOf(r) \in Nat
  BY <1>5, FS_CardinalityType, RivalsType
<1>8. Cardinality(W) >= LimitOf(r)
  BY DEF RefusalInv
<1>9. Cardinality(W') >= LimitOf(r)'
  BY <1>2, <1>6, <1>7, <1>8
<1>10. PICK o \in W : at[o] + Window <= retryAt[r]
  BY DEF RefusalInv
<1>11. o \in W' /\ at'[o] = at[o]
  BY <1>3, <1>4, <1>10 DEF Within
<1>12. at'[r] <= retryAt'[r]
  BY <1>1 DEF RefusalInv
<1> QED  BY <1>1, <1>9, <1>10, <1>11, <1>12

\* A request refused now: the fresh part F of the array is the window before it.
LEMMA NewRefusal ==
    ASSUME LimiterInv, NEW r \in Requests, NEW v \in Refusals, verdict[r] = "new",
           Judge(r, v), NEW S \in SUBSET Accepted, NEW F,
           F = {q \in S : now - at[q] < Window}, NEW n \in Nat \ {0},
           Cardinality(F) >= n, retryAt'[r] = RetryTime(F), NEW t, t = now
    PROVE  /\ Cardinality(Within(S, t)') >= n
           /\ \E o \in Within(S, t)' : at'[o] + Window <= retryAt'[r]
           /\ at'[r] = t /\ t <= retryAt'[r]
<1>1. /\ r \notin Accepted /\ at'[r] = now
      /\ \A q \in Requests : q # r => at'[q] = at[q]
  BY Refused DEF LimiterInv, Refusals, Verdicts
<1>2. S \subseteq Requests /\ now \in Nat /\ \A q \in S : at[q] \in Nat /\ at[q] <= now /\ at'[q] = at[q]
  BY <1>1, AcceptedType DEF LimiterInv, TypeOK, Seen
<1>3. Within(S, t)' = F
  BY <1>1, <1>2 DEF Within
<1>4. F # {}
  BY FullIsNotEmpty
<1>5. /\ RetryTime(F) >= now
      /\ \E o \in F : at[o] + Window <= RetryTime(F)
  BY <1>2, <1>4, RetryTimeIsEnough DEF LimiterInv
<1>6. \A o \in F : at'[o] = at[o]
  BY <1>2
<1> QED  BY <1>1, <1>3, <1>5, <1>6

LEMMA RefusalStep ==
    ASSUME LimiterInv, RefusalInv, [Next]_vars
    PROVE  RefusalInv'
<1> SUFFICES ASSUME NEW r \in Requests, verdict'[r] \in Refusals
             PROVE  /\ Cardinality(Within(Rivals(r), at[r])') >= LimitOf(r)'
                    /\ \E o \in Within(Rivals(r), at[r])' : at'[o] + Window <= retryAt'[r]
                    /\ at'[r] <= retryAt'[r]
  BY DEF RefusalInv
<1>1. CASE verdict[r] \in Refusals
  BY <1>1, OldRefusal
<1>2. CASE verdict[r] \notin Refusals
  <2>1. verdict[r] = "new"
    BY <1>2, JudgedStays DEF Refusals
  <2>2. GlobalRefusal(r) \/ KeyRefusal(r)
    <3>1. ASSUME NEW q \in Requests, GlobalRefusal(q) \/ KeyRefusal(q) \/ Accept(q)
          PROVE  q = r
      BY <2>1, <3>1 DEF GlobalRefusal, KeyRefusal, Accept, Judge, LimiterInv, TypeOK, Refusals
    <3>2. ~ Accept(r)
      BY DEF Accept, Judge, LimiterInv, TypeOK, Refusals
    <3>3. ~ (CleanUp \/ Tick \/ UNCHANGED vars)
      BY <2>1 DEF CleanUp, Tick, vars, history, Refusals
    <3> QED  BY <3>1, <3>2, <3>3 DEF Next
  <2>3. CASE GlobalRefusal(r)
    <3>1. PICK S, F, t : S = Accepted /\ F = Fresh(globalTimestamps) /\ t = now
      OBVIOUS
    <3>2. F = {q \in S : now - at[q] < Window}
      BY <3>1 DEF Fresh, LimiterInv, Counts
    <3>3. /\ Judge(r, "global_rate_limit") /\ Cardinality(F) >= GlobalRpm
          /\ retryAt'[r] = RetryTime(F)
      BY <2>3, <3>1 DEF GlobalRefusal, LimiterInv, TypeOK
    <3>4. Rivals(r)' = S /\ LimitOf(r)' = GlobalRpm
      BY <2>1, <3>1, <3>3, Refused DEF Rivals, LimitOf, LimiterInv, Verdicts
    <3>5. /\ Cardinality(Within(S, t)') >= GlobalRpm
          /\ \E o \in Within(S, t)' : at'[o] + Window <= retryAt'[r]
          /\ at'[r] = t /\ t <= retryAt'[r]
      BY <2>1, <3>1, <3>2, <3>3, NewRefusal DEF Refusals
    <3>6. Within(Rivals(r), at[r])' = Within(S, t)'
      BY <3>4, <3>5 DEF Within
    <3> QED  BY <3>4, <3>5, <3>6
  <2>4. CASE KeyRefusal(r)
    <3>1. PICK S, F, t : S = AcceptedFor(KeyOf[r]) /\ F = Fresh(windows[KeyOf[r]]) /\ t = now
      OBVIOUS
    <3>0. KeyOf[r] \in Keys /\ Rpm[KeyOf[r]] \in Nat \ {0} /\ S \in SUBSET Accepted
      BY <3>1, AcceptedType
    <3>2. F = {q \in S : now - at[q] < Window}
      BY <3>0, <3>1 DEF Fresh, LimiterInv, Counts, AcceptedFor
    <3>3. /\ Judge(r, "key_rate_limit") /\ Cardinality(F) >= Rpm[KeyOf[r]]
          /\ retryAt'[r] = RetryTime(F)
      BY <2>4, <3>1 DEF KeyRefusal, LimiterInv, TypeOK
    <3>4. Rivals(r)' = S /\ LimitOf(r)' = Rpm[KeyOf[r]]
      BY <2>1, <3>0, <3>1, <3>3, Refused DEF Rivals, LimitOf, LimiterInv, Verdicts
    <3>5. /\ Cardinality(Within(S, t)') >= Rpm[KeyOf[r]]
          /\ \E o \in Within(S, t)' : at'[o] + Window <= retryAt'[r]
          /\ at'[r] = t /\ t <= retryAt'[r]
      BY <2>1, <3>1, <3>0, <3>2, <3>3, NewRefusal DEF Refusals
    <3>6. Within(Rivals(r), at[r])' = Within(S, t)'
      BY <3>4, <3>5 DEF Within
    <3> QED  BY <3>4, <3>5, <3>6
  <2> QED  BY <2>2, <2>3, <2>4
<1> QED  BY <1>1, <1>2

LEMMA RefusalInvHolds == Spec => []RefusalInv
<1>1. Init => RefusalInv
  BY DEF Init, RefusalInv, Refusals
<1>2. LimiterInv /\ RefusalInv /\ [Next]_vars => RefusalInv'
  BY RefusalStep
<1> QED  BY <1>1, <1>2, InvHolds, PTL DEF Spec

\* Nobody is refused for requests that were refused themselves, or have left the
\* window: a refusal means that the window before it is full of accepted ones.
RefusalIsJustified ==
    \A r \in Requests :
        /\ verdict[r] = "key_rate_limit" =>
              Cardinality(Within(AcceptedFor(KeyOf[r]), at[r])) >= Rpm[KeyOf[r]]
        /\ verdict[r] = "global_rate_limit" =>
              Cardinality(Within(Accepted, at[r])) >= GlobalRpm

\* A refusal means that the window before it was full of accepted requests.
THEOREM RefusalsJustified == Spec => []RefusalIsJustified
<1>1. RefusalInv => RefusalIsJustified
  BY DEF RefusalInv, RefusalIsJustified, Refusals, Rivals, LimitOf
<1> QED  BY <1>1, RefusalInvHolds, PTL

LEMMA RoomAgain ==
    ASSUME LimiterInv, RefusalInv, NEW r \in Requests, verdict[r] \in Refusals,
           now >= retryAt[r],
           Cardinality(Within(Rivals(r), at[r])) <= LimitOf(r),
           \A q \in Rivals(r) : at[q] <= at[r],
           NEW F, F = {q \in Rivals(r) : now - at[q] < Window}
    PROVE  Cardinality(F) < LimitOf(r)
<1>1. PICK W : W = Within(Rivals(r), at[r])
  OBVIOUS
<1>2. PICK o \in W : at[o] + Window <= retryAt[r]
  BY <1>1 DEF RefusalInv
<1>3. Rivals(r) \subseteq Requests /\ now \in Nat /\ retryAt[r] \in Nat /\ at[r] <= retryAt[r]
      /\ \A q \in Requests : at[q] \in Nat
  BY RivalsType, AcceptedType DEF LimiterInv, TypeOK, RefusalInv
<1>4. F \subseteq W \ {o}
  BY <1>1, <1>2, <1>3 DEF Within
<1>5. IsFiniteSet(W) /\ Cardinality(W) \in Nat
  <2>1. IsFiniteSet(Accepted) /\ W \in SUBSET Accepted
    BY <1>1, RivalsType DEF LimiterInv, Seen, Within
  <2> QED  BY <2>1, FS_Subset, FS_CardinalityType
<1>6. IsFiniteSet(W \ {o}) /\ Cardinality(W \ {o}) = Cardinality(W) - 1
  BY <1>2, <1>5, FS_RemoveElement
<1>7. IsFiniteSet(F) /\ Cardinality(F) <= Cardinality(W \ {o})
  BY <1>4, <1>6, FS_Subset
<1>8. Cardinality(F) \in Nat
  BY <1>7, FS_CardinalityType
<1> QED  BY <1>1, <1>5, <1>6, <1>7, <1>8, RivalsType

\* A client that waits as long as it was told finds room in the window that was full,
\* unless others were accepted since.
THEOREM RetryAfterHonest == Spec => []RetryAfterIsHonest
<1>1. LimiterInv /\ RefusalInv /\ KeyRateBound /\ GlobalRateBound => RetryAfterIsHonest
  <2> SUFFICES ASSUME LimiterInv, RefusalInv, KeyRateBound, GlobalRateBound,
                      NEW r \in Requests, now >= retryAt[r]
               PROVE  /\ (/\ verdict[r] = "key_rate_limit"
                          /\ \A q \in AcceptedFor(KeyOf[r]) : at[q] <= at[r])
                         => Cardinality(Fresh(windows[KeyOf[r]])) < Rpm[KeyOf[r]]
                      /\ (/\ verdict[r] = "global_rate_limit"
                          /\ \A q \in Accepted : at[q] <= at[r])
                         => Cardinality(Fresh(globalTimestamps)) < GlobalRpm
    BY DEF RetryAfterIsHonest
  <2>0. at[r] \in 0..MaxTime /\ KeyOf[r] \in Keys
    BY DEF LimiterInv, TypeOK
  <2>1. ASSUME verdict[r] = "key_rate_limit", \A q \in AcceptedFor(KeyOf[r]) : at[q] <= at[r]
        PROVE  Cardinality(Fresh(windows[KeyOf[r]])) < Rpm[KeyOf[r]]
    <3>1. Rivals(r) = AcceptedFor(KeyOf[r]) /\ LimitOf(r) = Rpm[KeyOf[r]]
      BY <2>1 DEF Rivals, LimitOf
    <3>2. Fresh(windows[KeyOf[r]]) = {q \in Rivals(r) : now - at[q] < Window}
      BY <2>0, <3>1 DEF Fresh, LimiterInv, Counts, AcceptedFor
    <3>3. Cardinality(Within(Rivals(r), at[r])) <= LimitOf(r)
      BY <2>0, <3>1 DEF KeyRateBound
    <3> QED  BY <2>1, <3>1, <3>2, <3>3, RoomAgain DEF Refusals
  <2>2. ASSUME verdict[r] = "global_rate_limit", \A q \in Accepted : at[q] <= at[r]
        PROVE  Cardinality(Fresh(globalTimestamps)) < GlobalRpm
    <3>1. Rivals(r) = Accepted /\ LimitOf(r) = GlobalRpm
      BY <2>2 DEF Rivals, LimitOf
    <3>2. Fresh(globalTimestamps) = {q \in Rivals(r) : now - at[q] < Window}
      BY <3>1 DEF Fresh, LimiterInv, Counts
    <3>3. Cardinality(Within(Rivals(r), at[r])) <= LimitOf(r)
      BY <2>0, <3>1 DEF GlobalRateBound
    <3> QED  BY <2>2, <3>1, <3>2, <3>3, RoomAgain DEF Refusals
  <2> QED  BY <2>1, <2>2
<1> QED  BY <1>1, InvHolds, RefusalInvHolds, KeyRateBounded, GlobalRateBounded, PTL
(* ----------------------- The ideal sliding window --------------------- *)

\* To tlapm the cardinality of the instance is an operator of its own.
LEMMA SameCardinality == \A S : Ideal!Cardinality(S) = Cardinality(S)
BY DEF Ideal!Cardinality, Cardinality

\* The arrays count what the ideal limiter counts.
LEMMA CountedIs ==
    ASSUME LimiterInv
    PROVE  /\ Ideal!Counted = Fresh(globalTimestamps)
           /\ \A k \in Keys : {q \in Ideal!Counted : KeyOf[q] = k} = Fresh(windows[k])
<1>1. Ideal!Counted = Fresh(Accepted)
  BY DEF Ideal!Counted, Fresh, Accepted
<1>2. CountsExactly
  BY InvCountsExactly
<1>3. \A k \in Keys : {q \in Fresh(Accepted) : KeyOf[q] = k} = Fresh(AcceptedFor(k))
  BY DEF Fresh, AcceptedFor
<1> QED  BY <1>1, <1>2, <1>3 DEF CountsExactly

\* The verdict the ideal limiter sees.
SeenVerdict == [r \in Requests |-> IF verdict[r] \in {"new", "accepted"} THEN verdict[r] ELSE "refused"]

LEMMA JudgeSeen ==
    ASSUME TypeOK, NEW r \in Requests, NEW v \in Verdicts \ {"new"}, Judge(r, v), verdict[r] = "new"
    PROVE  /\ SeenVerdict[r] = "new" /\ at' = [at EXCEPT ![r] = now]
           /\ SeenVerdict' = [SeenVerdict EXCEPT ![r] = IF v = "accepted" THEN "accepted" ELSE "refused"]
BY DEF Judge, SeenVerdict, Verdicts, TypeOK

LEMMA DecideSeen ==
    ASSUME LimiterInv, NEW r \in Requests, GlobalRefusal(r) \/ KeyRefusal(r) \/ Accept(r)
    PROVE  Ideal!Decide(r)
<1>1. KeyOf[r] \in Keys
  OBVIOUS
<1>2. /\ Ideal!HasRoom(r) <=> /\ Cardinality(Fresh(globalTimestamps)) < GlobalRpm
                              /\ Cardinality(Fresh(windows[KeyOf[r]])) < Rpm[KeyOf[r]]
  BY <1>1, CountedIs, SameCardinality DEF Ideal!HasRoom
<1>3. /\ Cardinality(Fresh(globalTimestamps)) \in Nat
      /\ Cardinality(Fresh(windows[KeyOf[r]])) \in Nat
  <2>1. Fresh(globalTimestamps) \subseteq Accepted /\ Fresh(windows[KeyOf[r]]) \subseteq Accepted
    BY <1>1, FreshSubset, AcceptedType DEF LimiterInv, Counts
  <2> QED  BY <2>1, FS_Subset, FS_CardinalityType DEF LimiterInv, Seen
<1>4. CASE Accept(r)
  <2>1. Ideal!HasRoom(r)
    BY <1>2, <1>4 DEF Accept
  <2>2. verdict[r] = "new" /\ Judge(r, "accepted") /\ now' = now
    BY <1>4 DEF Accept
  <2>3. SeenVerdict[r] = "new" /\ SeenVerdict' = [SeenVerdict EXCEPT ![r] = "accepted"]
    BY <2>2, JudgeSeen DEF LimiterInv, Verdicts
  <2> QED  BY <2>1, <2>2, <2>3, JudgeSeen DEF LimiterInv, Verdicts, Ideal!Decide, SeenVerdict
<1>5. CASE GlobalRefusal(r) \/ KeyRefusal(r)
  <2>1. ~Ideal!HasRoom(r)
    BY <1>1, <1>2, <1>3, <1>5 DEF GlobalRefusal, KeyRefusal
  <2>2. PICK v \in Refusals : verdict[r] = "new" /\ Judge(r, v) /\ now' = now
    BY <1>5 DEF GlobalRefusal, KeyRefusal, Refusals
  <2>3. /\ SeenVerdict[r] = "new" /\ SeenVerdict' = [SeenVerdict EXCEPT ![r] = "refused"]
        /\ at' = [at EXCEPT ![r] = now]
    BY <2>2, JudgeSeen DEF LimiterInv, Refusals, Verdicts
  <2> QED  BY <2>1, <2>2, <2>3 DEF Ideal!Decide, SeenVerdict
<1> QED  BY <1>4, <1>5

\* The limiter implements the ideal sliding windows: what it has filtered away, cleaned
\* up and refused never shows in what it decides.
THEOREM DecisionsAreIdeal == Spec => DecidesExactly
<1>1. Init => Ideal!Init
  BY DEF Init, Ideal!Init
<1>2. LimiterInv /\ [Next]_vars => [Ideal!Next]_(Ideal!vars)
  <2> SUFFICES ASSUME LimiterInv, [Next]_vars PROVE [Ideal!Next]_(Ideal!vars)
    OBVIOUS
  <2>1. ASSUME NEW r \in Requests, GlobalRefusal(r) \/ KeyRefusal(r) \/ Accept(r)
        PROVE  Ideal!Next
    BY <2>1, DecideSeen DEF Ideal!Next
  <2>2. CASE Tick
    <3>1. Ideal!Tick
      BY <2>2 DEF Tick, history, Ideal!Tick
    <3> QED  BY <3>1 DEF Ideal!Next
  <2>3. CASE CleanUp \/ UNCHANGED vars
    <3>1. UNCHANGED <<now, verdict, at>>
      BY <2>3 DEF CleanUp, vars, history
    <3> QED  BY <3>1 DEF Ideal!vars
  <2> QED  BY <2>1, <2>2, <2>3 DEF Next
<1> QED  BY <1>1, <1>2, InvHolds, PTL DEF Spec, DecidesExactly, Ideal!Spec

=============================================================================

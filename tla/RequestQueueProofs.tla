------------------------- MODULE RequestQueueProofs -------------------------
(***************************************************************************)
(* Proofs about RequestQueue, for any number of requests, nodes, models    *)
(* and routers and any queue capacity.                                     *)
(***************************************************************************)
EXTENDS RequestQueue, SequenceTheorems, TLAPS

(* ---------------------- Removing from a sequence ---------------------- *)

\* What Array.prototype.splice(i, 1) leaves behind.
LEMMA RemoveAtProperties ==
    ASSUME NEW S, NEW s \in Seq(S), NEW i \in 1..Len(s)
    PROVE  /\ RemoveAt(s, i) \in Seq(S)
           /\ Len(RemoveAt(s, i)) = Len(s) - 1
           /\ \A k \in 1..(Len(s) - 1) :
                 RemoveAt(s, i)[k] = IF k < i THEN s[k] ELSE s[k + 1]
<1> DEFINE a == SubSeq(s, 1, i - 1)
           b == SubSeq(s, i + 1, Len(s))
<1>1. /\ a \in Seq(S)
      /\ Len(a) = i - 1
      /\ \A k \in 1..(i - 1) : a[k] = s[k]
  BY SubSeqProperties, LenProperties
<1>2. /\ b \in Seq(S)
      /\ Len(b) = Len(s) - i
      /\ \A k \in 1..(Len(s) - i) : b[k] = s[i + k]
  BY SubSeqProperties, LenProperties
<1>3. RemoveAt(s, i) = a \o b
  BY DEF RemoveAt
<1> HIDE DEF a, b
<1>4. /\ a \o b \in Seq(S)
      /\ Len(a \o b) = Len(a) + Len(b)
      /\ \A k \in 1..(Len(a) + Len(b)) :
            (a \o b)[k] = IF k <= Len(a) THEN a[k] ELSE b[k - Len(a)]
  BY <1>1, <1>2, ConcatProperties
<1>5. Len(s) \in Nat
  BY LenProperties
<1>6. ASSUME NEW k \in 1..(Len(s) - 1)
      PROVE  (a \o b)[k] = IF k < i THEN s[k] ELSE s[k + 1]
  <2>1. CASE k < i
    <3>1. k \in 1..(i - 1) /\ k <= Len(a) /\ k \in 1..(Len(a) + Len(b))
      BY <2>1, <1>1, <1>2, <1>5
    <3> QED  BY <3>1, <2>1, <1>1, <1>4
  <2>2. CASE ~(k < i)
    <3>1. ~(k <= Len(a)) /\ k \in 1..(Len(a) + Len(b)) /\ k - Len(a) = k - (i - 1)
      BY <2>2, <1>1, <1>2, <1>5
    <3>2. k - (i - 1) \in 1..(Len(s) - i) /\ i + (k - (i - 1)) = k + 1
      BY <2>2, <1>5
    <3> QED  BY <3>1, <3>2, <2>2, <1>2, <1>4
  <2> QED  BY <2>1, <2>2
<1> QED  BY <1>1, <1>2, <1>3, <1>4, <1>5, <1>6

\* A function with one value replaced.
LEMMA ExceptIn ==
    ASSUME NEW S, NEW T, NEW f \in [S -> T], NEW x \in S, NEW v \in T,
           NEW g, g = [f EXCEPT ![x] = v]
    PROVE  g \in [S -> T]
OBVIOUS

(* --------------------------- Type correctness ------------------------- *)

USE ConstantsAssumption

LEMMA InitType == Init => TypeOK
BY EmptySeq DEF Init, TypeOK, NoTable, Labels

\* Where each label belongs.
LEMMA LabelFacts ==
    \A l \in {"queued", "done", "forced", "forcedClaim", "find", "claim", "counts",
              "surveyBusy", "survey", "any", "claimSwitch", "switch", "admit", "serving",
              "wsDone", "finished", "wsError", "unsent", "failed", "release", "scan",
              "dequeue", "hold"} : l \in Labels
BY DEF Labels, Searching, Using, Dequeuing

LEMMA GotoType ==
    ASSUME TypeOK, NEW r \in Requests, NEW l \in Labels, Goto(r, l)
    PROVE  pc' \in [Requests -> Labels]
BY DEF Goto, TypeOK

LEMMA IdleAreNodes ==
    ASSUME NEW t
    PROVE  /\ Idle(t) \subseteq Nodes
           /\ \A m : IdleWith(t, m) \subseteq Nodes
BY DEF Idle, IdleWith, Listed

LEMMA WithStatusType ==
    ASSUME NEW rec \in NodeRecord, NEW s \in {"idle", "busy"}
    PROVE  WithStatus(rec, s) \in NodeRecord
BY DEF WithStatus, NodeRecord

LEMMA WriteType ==
    ASSUME TypeOK, NEW r \in Requests, NEW s \in {"idle", "busy"}, WriteStatus(r, s)
    PROVE  table' \in [Nodes -> NodeRecord \cup {Offline}]
<1>1. CASE got[r] \in Nodes /\ snap[r][got[r]] # Offline
  <2>1. snap[r][got[r]] \in NodeRecord
    BY <1>1 DEF TypeOK
  <2> QED  BY <2>1, <1>1, WithStatusType DEF WriteStatus, TypeOK
<1>2. CASE ~(got[r] \in Nodes /\ snap[r][got[r]] # Offline)
  <2>1. table' = table
    BY <1>2 DEF WriteStatus, TypeOK
  <2> QED  BY <2>1 DEF TypeOK
<1> QED  BY <1>1, <1>2

LEMMA ReadType ==
    ASSUME TypeOK, NEW r \in Requests, ReadTable(r)
    PROVE  snap' \in [Requests -> [Nodes -> NodeRecord \cup {Offline}]]
BY DEF ReadTable, TypeOK

LEMMA DropType ==
    ASSUME TypeOK, NEW r \in Requests, DropTable(r)
    PROVE  snap' \in [Requests -> [Nodes -> NodeRecord \cup {Offline}]]
BY DEF DropTable, NoTable, TypeOK

\* The steps of acquireOrQueue up to its queue.
LEMMA HandlerType ==
    ASSUME TypeOK, NEW r \in Requests,
           \/ Arrive(r) \/ ForcedFound(r) \/ NoneIdle(r) \/ FoundIdle(r)
           \/ Claim(r) \/ Survey(r) \/ LookForAny(r) \/ FoundAny(r)
           \/ ClaimSwitch(r) \/ SwitchModel(r)
    PROVE  TypeOK'
<1>force. force \in [Requests -> Nodes \cup {NoNode}]
  BY DEF TypeOK
<1>got. got \in [Requests -> Nodes \cup {NoNode}]
  BY DEF TypeOK
<1>1. CASE Arrive(r)
  <2>1. force' \in [Requests -> Nodes \cup {NoNode}]
    BY <1>1, <1>force DEF Arrive
  <2>2. pc' \in [Requests -> Labels]
    BY <1>1, LabelFacts, GotoType DEF Arrive, BeginAcquire
  <2>3. snap' \in [Requests -> [Nodes -> NodeRecord \cup {Offline}]]
    BY <1>1, ReadType DEF Arrive, BeginAcquire
  <2>4. got' \in [Requests -> Nodes \cup {NoNode}]
    BY <1>1, <1>got DEF Arrive, BeginAcquire
  <2> QED  BY <2>1, <2>2, <2>3, <2>4, <1>1 DEF Arrive, TypeOK, nodeVars
<1>2. CASE ForcedFound(r)
  <2>1. pc' \in [Requests -> Labels]
    BY <1>2, LabelFacts, GotoType DEF ForcedFound, Refuse
  <2>2. snap' \in [Requests -> [Nodes -> NodeRecord \cup {Offline}]]
    BY <1>2, ReadType, DropType DEF ForcedFound, Refuse
  <2>3. got' \in [Requests -> Nodes \cup {NoNode}]
    BY <1>2, <1>got, IdleAreNodes DEF ForcedFound, Refuse
  <2> QED  BY <2>1, <2>2, <2>3, <1>2 DEF ForcedFound, TypeOK, nodeVars
<1>3. CASE NoneIdle(r)
  <2>1. pc' \in [Requests -> Labels]
    BY <1>3, LabelFacts, GotoType DEF NoneIdle
  <2>2. snap' \in [Requests -> [Nodes -> NodeRecord \cup {Offline}]]
    BY <1>3, ReadType DEF NoneIdle
  <2> QED  BY <2>1, <2>2, <1>3 DEF NoneIdle, TypeOK, nodeVars
<1>4. CASE FoundIdle(r)
  <2>1. pc' \in [Requests -> Labels]
    BY <1>4, LabelFacts, GotoType DEF FoundIdle
  <2>2. snap' \in [Requests -> [Nodes -> NodeRecord \cup {Offline}]]
    BY <1>4, ReadType DEF FoundIdle
  <2>3. got' \in [Requests -> Nodes \cup {NoNode}]
    BY <1>4, <1>got, IdleAreNodes DEF FoundIdle
  <2> QED  BY <2>1, <2>2, <2>3, <1>4 DEF FoundIdle, TypeOK, nodeVars
<1>5. CASE Claim(r)
  <2>1. pc' \in [Requests -> Labels]
    BY <1>5, LabelFacts, GotoType DEF Claim
  <2>2. snap' \in [Requests -> [Nodes -> NodeRecord \cup {Offline}]]
    BY <1>5, DropType DEF Claim
  <2>3. table' \in [Nodes -> NodeRecord \cup {Offline}]
    BY <1>5, WriteType DEF Claim
  <2> QED  BY <2>1, <2>2, <2>3, <1>5 DEF Claim, TypeOK, nodeVars
<1>6. CASE Survey(r)
  <2>1. pc' \in [Requests -> Labels]
    BY <1>6, LabelFacts, GotoType DEF Survey
  <2>2. snap' \in [Requests -> [Nodes -> NodeRecord \cup {Offline}]]
    BY <1>6, ReadType DEF Survey
  <2> QED  BY <2>1, <2>2, <1>6 DEF Survey, TypeOK, nodeVars
<1>7. CASE LookForAny(r)
  <2>1. pc' \in [Requests -> Labels]
    BY <1>7, LabelFacts, GotoType DEF LookForAny
  <2>2. snap' \in [Requests -> [Nodes -> NodeRecord \cup {Offline}]]
    BY <1>7, ReadType DEF LookForAny
  <2> QED  BY <2>1, <2>2, <1>7 DEF LookForAny, TypeOK, nodeVars
<1>8. CASE FoundAny(r)
  <2>1. pc' \in [Requests -> Labels]
    BY <1>8, LabelFacts, GotoType DEF FoundAny
  <2>2. snap' \in [Requests -> [Nodes -> NodeRecord \cup {Offline}]]
    BY <1>8, ReadType DEF FoundAny
  <2>3. got' \in [Requests -> Nodes \cup {NoNode}]
    BY <1>8, <1>got, IdleAreNodes DEF FoundAny
  <2> QED  BY <2>1, <2>2, <2>3, <1>8 DEF FoundAny, TypeOK, nodeVars
<1>9. CASE ClaimSwitch(r)
  <2>1. pc' \in [Requests -> Labels]
    BY <1>9, LabelFacts, GotoType DEF ClaimSwitch
  <2>2. snap' \in [Requests -> [Nodes -> NodeRecord \cup {Offline}]]
    BY <1>9, DropType DEF ClaimSwitch
  <2>3. table' \in [Nodes -> NodeRecord \cup {Offline}]
    BY <1>9, WriteType DEF ClaimSwitch
  <2> QED  BY <2>1, <2>2, <2>3, <1>9 DEF ClaimSwitch, TypeOK, nodeVars
<1>10. CASE SwitchModel(r)
  <2>1. pc' \in [Requests -> Labels]
    BY <1>10, LabelFacts, GotoType DEF SwitchModel
  <2>2. snap' \in [Requests -> [Nodes -> NodeRecord \cup {Offline}]]
    BY <1>10, ReadType DEF SwitchModel
  <2>3. got' \in [Requests -> Nodes \cup {NoNode}]
    BY <1>10, <1>got DEF SwitchModel
  <2> QED  BY <2>1, <2>2, <2>3, <1>10 DEF SwitchModel, TypeOK, nodeVars
<1> QED  BY <1>1, <1>2, <1>3, <1>4, <1>5, <1>6, <1>7, <1>8, <1>9, <1>10

\* The steps of an attempt and of what follows it.
LEMMA AttemptType ==
    ASSUME TypeOK, NEW r \in Requests,
           \/ NodeReports(r) \/ WsRelease(r) \/ Finish(r) \/ AttemptLost(r)
           \/ Unsent(r) \/ ReleaseUnsent(r) \/ Retry(r) \/ Release(r)
    PROVE  TypeOK'
<1>attempt. attempt \in [Requests -> 0..MaxRetries]
  BY DEF TypeOK
<1>got. got \in [Requests -> Nodes \cup {NoNode}]
  BY DEF TypeOK
<1>1. CASE NodeReports(r)
  <2>1. pc' \in [Requests -> Labels]
    BY <1>1, LabelFacts, GotoType DEF NodeReports
  <2>2. snap' \in [Requests -> [Nodes -> NodeRecord \cup {Offline}]]
    BY <1>1, ReadType DEF NodeReports
  <2> QED  BY <2>1, <2>2, <1>1 DEF NodeReports, TypeOK, nodeVars
<1>2. CASE WsRelease(r)
  <2>1. pc' \in [Requests -> Labels]
    BY <1>2, LabelFacts, GotoType DEF WsRelease
  <2>2. snap' \in [Requests -> [Nodes -> NodeRecord \cup {Offline}]]
    BY <1>2, DropType DEF WsRelease
  <2>3. table' \in [Nodes -> NodeRecord \cup {Offline}]
    BY <1>2, WriteType DEF WsRelease
  <2> QED  BY <2>1, <2>2, <2>3, <1>2 DEF WsRelease, TypeOK, nodeVars
<1>3. CASE Finish(r)
  <2>1. pc' \in [Requests -> Labels]
    BY <1>3, LabelFacts, GotoType DEF Finish
  <2>2. snap' \in [Requests -> [Nodes -> NodeRecord \cup {Offline}]]
    BY <1>3, ReadType DEF Finish
  <2> QED  BY <2>1, <2>2, <1>3 DEF Finish, TypeOK, nodeVars
<1>4. CASE AttemptLost(r)
  <2>1. pc' \in [Requests -> Labels]
    BY <1>4, LabelFacts, GotoType DEF AttemptLost
  <2> QED  BY <2>1, <1>4 DEF AttemptLost, TypeOK, nodeVars
<1>5. CASE Unsent(r)
  <2>1. pc' \in [Requests -> Labels]
    BY <1>5, LabelFacts, GotoType DEF Unsent
  <2>2. snap' \in [Requests -> [Nodes -> NodeRecord \cup {Offline}]]
    BY <1>5, ReadType DEF Unsent
  <2> QED  BY <2>1, <2>2, <1>5 DEF Unsent, TypeOK, nodeVars
<1>6. CASE ReleaseUnsent(r)
  <2>1. pc' \in [Requests -> Labels]
    BY <1>6, LabelFacts, GotoType DEF ReleaseUnsent
  <2>2. snap' \in [Requests -> [Nodes -> NodeRecord \cup {Offline}]]
    BY <1>6, DropType DEF ReleaseUnsent
  <2>3. table' \in [Nodes -> NodeRecord \cup {Offline}]
    BY <1>6, WriteType DEF ReleaseUnsent
  <2> QED  BY <2>1, <2>2, <2>3, <1>6 DEF ReleaseUnsent, TypeOK, nodeVars
<1>7. CASE Retry(r)
  <2>1. attempt' \in [Requests -> 0..MaxRetries]
    BY <1>7, <1>attempt DEF Retry
  <2>2. pc' \in [Requests -> Labels]
    BY <1>7, LabelFacts, GotoType DEF Retry, BeginAcquire, Refuse
  <2>3. snap' \in [Requests -> [Nodes -> NodeRecord \cup {Offline}]]
    BY <1>7, ReadType, DropType DEF Retry, BeginAcquire, Refuse
  <2>4. got' \in [Requests -> Nodes \cup {NoNode}]
    BY <1>7, <1>got DEF Retry, BeginAcquire, Refuse
  <2> QED  BY <2>1, <2>2, <2>3, <2>4, <1>7 DEF Retry, TypeOK, nodeVars
<1>8. CASE Release(r)
  <2>1. pc' \in [Requests -> Labels]
    BY <1>8, LabelFacts, GotoType DEF Release
  <2>2. snap' \in [Requests -> [Nodes -> NodeRecord \cup {Offline}]]
    BY <1>8, DropType DEF Release
  <2>3. table' \in [Nodes -> NodeRecord \cup {Offline}]
    BY <1>8, WriteType DEF Release
  <2>4. got' \in [Requests -> Nodes \cup {NoNode}]
    BY <1>8, <1>got DEF Release
  <2> QED  BY <2>1, <2>2, <2>3, <2>4, <1>8 DEF Release, TypeOK, nodeVars
<1> QED  BY <1>1, <1>2, <1>3, <1>4, <1>5, <1>6, <1>7, <1>8

\* The steps that change a queue, or read it by index.
LEMMA QueueType ==
    ASSUME TypeOK, NEW r \in Requests,
           \/ Admit(r) \/ Timeout(r) \/ Scan(r) \/ Dequeue(r)
           \/ Grant(r) \/ CrashOnMissingEntry(r)
    PROVE  TypeOK'
<1>got. got \in [Requests -> Nodes \cup {NoNode}]
  BY DEF TypeOK
<1>held. held \in [Requests -> Requests \cup {NoRequest}]
  BY DEF TypeOK
<1>idx. idx \in [Requests -> Nat \ {0}]
  BY DEF TypeOK
<1>pc. pc \in [Requests -> Labels]
  BY DEF TypeOK
<1>queue. queue \in [Routers -> Seq(Requests)]
  BY DEF TypeOK
<1>snap. snap \in [Requests -> [Nodes -> NodeRecord \cup {Offline}]]
  BY DEF TypeOK
<1>a. Append(queue[RouterOf[r]], r) \in Seq(Requests)
  BY AppendProperties DEF TypeOK
<1>b. \A i \in 1..Len(queue[RouterOf[r]]) :
         /\ RemoveAt(queue[RouterOf[r]], i) \in Seq(Requests)
         /\ queue[RouterOf[r]][i] \in Requests
  BY RemoveAtProperties, ElementOfSeq DEF TypeOK
<1>d. idx[r] <= Len(queue[RouterOf[r]]) => idx[r] \in 1..Len(queue[RouterOf[r]])
  BY <1>idx, <1>queue, LenProperties
<1>c. held[r] # NoRequest => held[r] \in Requests
  BY DEF TypeOK
<1>1. CASE Admit(r)
  <2>1. queue' \in [Routers -> Seq(Requests)]
    BY <1>1, <1>queue, <1>a DEF Admit
  <2>2. pc' \in [Requests -> Labels]
    BY <1>1, LabelFacts, GotoType DEF Admit, Refuse
  <2>3. snap' \in [Requests -> [Nodes -> NodeRecord \cup {Offline}]]
    BY <1>1, DropType DEF Admit, Refuse
  <2>4. got' \in [Requests -> Nodes \cup {NoNode}]
    BY <1>1, <1>got DEF Admit, Refuse
  <2> QED  BY <2>1, <2>2, <2>3, <2>4, <1>1 DEF Admit, TypeOK, nodeVars
<1>2. CASE Timeout(r)
  <2>1. queue' \in [Routers -> Seq(Requests)]
    <3>1. CASE UNCHANGED queue
      BY <3>1, <1>queue
    <3>2. ASSUME NEW i \in 1..Len(queue[RouterOf[r]]),
                 queue' = [queue EXCEPT ![RouterOf[r]] = RemoveAt(@, i)]
          PROVE  queue' \in [Routers -> Seq(Requests)]
      <4>1. RouterOf[r] \in Routers /\ RemoveAt(queue[RouterOf[r]], i) \in Seq(Requests)
        BY <1>b
      <4> QED  BY <3>2, <4>1, <1>queue, ExceptIn
    <3> QED  BY <1>2, <3>1, <3>2 DEF Timeout
  <2>2. pc' \in [Requests -> Labels]
    BY <1>2, LabelFacts, GotoType DEF Timeout, Refuse
  <2>3. snap' \in [Requests -> [Nodes -> NodeRecord \cup {Offline}]]
    BY <1>2, DropType DEF Timeout, Refuse
  <2>4. got' \in [Requests -> Nodes \cup {NoNode}]
    BY <1>2, <1>got DEF Timeout, Refuse
  <2> QED  BY <2>1, <2>2, <2>3, <2>4, <1>2 DEF Timeout, TypeOK, nodeVars
<1>3. CASE Scan(r)
  <2>1. idx' \in [Requests -> Nat \ {0}]
    BY <1>3, <1>idx DEF Scan
  <2>2. pc' \in [Requests -> Labels]
    BY <1>3, LabelFacts, GotoType DEF Scan
  <2>3. snap' \in [Requests -> [Nodes -> NodeRecord \cup {Offline}]]
    BY <1>3, <1>snap, ReadType DEF Scan
  <2> QED  BY <2>1, <2>2, <2>3, <1>3 DEF Scan, TypeOK, nodeVars
<1>4. CASE Dequeue(r)
  <2>a. \/ UNCHANGED <<queue, held, got>>
        \/ /\ \E n \in Nodes : got' = [got EXCEPT ![r] = n]
           /\ idx[r] <= Len(queue[RouterOf[r]])
           /\ queue' = [queue EXCEPT ![RouterOf[r]] = RemoveAt(@, idx[r])]
           /\ held' = [held EXCEPT ![r] = queue[RouterOf[r]][idx[r]]]
        \/ /\ \E n \in Nodes : got' = [got EXCEPT ![r] = n]
           /\ queue' = queue
           /\ held' = [held EXCEPT ![r] = NoRequest]
    BY <1>4, <1>queue, IdleAreNodes DEF Dequeue
  <2>1. queue' \in [Routers -> Seq(Requests)]
    <3>1. CASE queue' = queue
      BY <3>1, <1>queue
    <3>2. CASE /\ idx[r] <= Len(queue[RouterOf[r]])
               /\ queue' = [queue EXCEPT ![RouterOf[r]] = RemoveAt(@, idx[r])]
      <4>1. RouterOf[r] \in Routers /\ RemoveAt(queue[RouterOf[r]], idx[r]) \in Seq(Requests)
        BY <3>2, <1>b, <1>d
      <4> QED  BY <3>2, <4>1, <1>queue, ExceptIn
    <3> QED  BY <2>a, <3>1, <3>2
  <2>2. held' \in [Requests -> Requests \cup {NoRequest}]
    BY <2>a, <1>held, <1>b, <1>d
  <2>3. idx' \in [Requests -> Nat \ {0}]
    BY <1>4, <1>idx DEF Dequeue
  <2>4. pc' \in [Requests -> Labels]
    BY <1>4, LabelFacts, GotoType DEF Dequeue
  <2>5. snap' \in [Requests -> [Nodes -> NodeRecord \cup {Offline}]]
    BY <1>4, ReadType, DropType DEF Dequeue
  <2>6. got' \in [Requests -> Nodes \cup {NoNode}]
    BY <2>a, <1>got
  <2> QED  BY <2>1, <2>2, <2>3, <2>4, <2>5, <2>6, <1>4 DEF Dequeue, TypeOK, nodeVars
<1>5. CASE Grant(r)
  <2>1. table' \in [Nodes -> NodeRecord \cup {Offline}]
    BY <1>5, WriteType DEF Grant
  <2>2. snap' \in [Requests -> [Nodes -> NodeRecord \cup {Offline}]]
    BY <1>5, DropType DEF Grant
  <2>3. pc' \in [Requests -> Labels]
    BY <1>5, <1>pc, LabelFacts, GotoType, <1>c DEF Grant, Goto
  <2>4. got' \in [Requests -> Nodes \cup {NoNode}]
    BY <1>5, <1>got, <1>c DEF Grant
  <2>5. held' \in [Requests -> Requests \cup {NoRequest}]
    BY <1>5, <1>held DEF Grant
  <2> QED  BY <2>1, <2>2, <2>3, <2>4, <2>5, <1>5 DEF Grant, TypeOK, nodeVars
<1>6. CASE CrashOnMissingEntry(r)
  <2>1. table' \in [Nodes -> NodeRecord \cup {Offline}]
    BY <1>6, WriteType DEF CrashOnMissingEntry
  <2>2. queue' \in [Routers -> Seq(Requests)]
    BY <1>6, <1>queue, EmptySeq DEF CrashOnMissingEntry
  <2>3. pc' \in [Requests -> Labels]
    BY <1>6, <1>pc, LabelFacts DEF CrashOnMissingEntry
  <2>4. snap' \in [Requests -> [Nodes -> NodeRecord \cup {Offline}]]
    BY <1>6, <1>snap DEF CrashOnMissingEntry, NoTable
  <2>5. got' \in [Requests -> Nodes \cup {NoNode}]
    BY <1>6, <1>got DEF CrashOnMissingEntry
  <2>6. idx' \in [Requests -> Nat \ {0}]
    BY <1>6, <1>idx DEF CrashOnMissingEntry
  <2>7. held' \in [Requests -> Requests \cup {NoRequest}]
    BY <1>6, <1>held DEF CrashOnMissingEntry
  <2> QED  BY <2>1, <2>2, <2>3, <2>4, <2>5, <2>6, <2>7, <1>6 DEF CrashOnMissingEntry, TypeOK, nodeVars
<1> QED  BY <1>1, <1>2, <1>3, <1>4, <1>5, <1>6

\* The steps of the providers and of the handlers working for them.
LEMMA NodeType ==
    ASSUME TypeOK, NEW n \in Nodes,
           \/ RegisterNode(n) \/ RemoveNode(n) \/ HeartbeatRead(n) \/ HeartbeatWrite(n)
    PROVE  TypeOK'
<1>beat. beat \in [Nodes -> NodeRecord \cup {Offline}]
  BY DEF TypeOK
<1>conn. conn \in [Nodes -> BOOLEAN]
  BY DEF TypeOK
<1>table. table \in [Nodes -> NodeRecord \cup {Offline}]
  BY DEF TypeOK
<1>c. \A s \in Beats : beat[n] # Offline => WithStatus(beat[n], s) \in NodeRecord
  BY <1>beat, WithStatusType
<1>1. CASE RegisterNode(n)
  <2>1. table' \in [Nodes -> NodeRecord \cup {Offline}]
    BY <1>1, <1>table DEF RegisterNode, NodeRecord
  <2>2. conn' \in [Nodes -> BOOLEAN]
    BY <1>1, <1>conn DEF RegisterNode
  <2> QED  BY <2>1, <2>2, <1>1 DEF RegisterNode, TypeOK, nodeVars
<1>2. CASE RemoveNode(n)
  <2>1. table' \in [Nodes -> NodeRecord \cup {Offline}]
    BY <1>2, <1>table DEF RemoveNode
  <2>2. conn' \in [Nodes -> BOOLEAN]
    BY <1>2, <1>conn DEF RemoveNode
  <2> QED  BY <2>1, <2>2, <1>2 DEF RemoveNode, TypeOK, nodeVars
<1>3. CASE HeartbeatRead(n)
  <2>1. beat' \in [Nodes -> NodeRecord \cup {Offline}]
    BY <1>3, <1>beat, <1>table DEF HeartbeatRead
  <2> QED  BY <2>1, <1>3 DEF HeartbeatRead, TypeOK, nodeVars
<1>4. CASE HeartbeatWrite(n)
  <2>1. table' \in [Nodes -> NodeRecord \cup {Offline}]
    BY <1>4, <1>table, <1>c DEF HeartbeatWrite
  <2>2. beat' \in [Nodes -> NodeRecord \cup {Offline}]
    BY <1>4, <1>beat DEF HeartbeatWrite
  <2> QED  BY <2>1, <2>2, <1>4 DEF HeartbeatWrite, TypeOK, nodeVars
<1> QED  BY <1>1, <1>2, <1>3, <1>4

\* Every variable keeps its type in every reachable state.
THEOREM TypeCorrect == Spec => []TypeOK
<1>1. TypeOK /\ [Next]_vars => TypeOK'
  <2> SUFFICES ASSUME TypeOK, [Next]_vars PROVE TypeOK'
    OBVIOUS
  <2>1. CASE Next
    BY <2>1, HandlerType, AttemptType, QueueType, NodeType DEF Next, Handler
  <2>2. CASE UNCHANGED vars
    BY <2>2 DEF TypeOK, vars
  <2> QED  BY <2>1, <2>2
<1> QED  BY <1>1, InitType, PTL DEF Spec

(* --------------------- Nobody is lost in the queue -------------------- *)

\* Why: who may refer to a request, and how.  Every queue entry is a pending
\* request of that router, at one position only; an entry held by a tryDequeue was
\* taken from its own router's queue, by nobody else, and its request is pending or
\* has timed out; and a pending request is referred to by one or the other.
QueueInv ==
    /\ \A p \in Routers : \A i \in 1..Len(queue[p]) :
          /\ pc[queue[p][i]] = "queued"
          /\ RouterOf[queue[p][i]] = p
          /\ \A j \in 1..Len(queue[p]) : queue[p][i] = queue[p][j] => i = j
          /\ \A h \in Requests : held[h] # queue[p][i]
    /\ \A h \in Requests : held[h] # NoRequest =>
          /\ pc[h] = "hold"
          /\ RouterOf[held[h]] = RouterOf[h]
          /\ pc[held[h]] \in {"queued", "done"}
          /\ \A g \in Requests : held[g] = held[h] => g = h
    /\ \A r \in Requests : pc[r] = "queued" =>
          \/ \E i \in 1..Len(queue[RouterOf[r]]) : queue[RouterOf[r]][i] = r
          \/ \E h \in Requests : held[h] = r

LEMMA InitQueue == Init => QueueInv
BY EmptySeq DEF Init, QueueInv

\* A step that touches neither queue nor held and moves nobody into or out of
\* "queued", nor out of "hold" or "done".
LEMMA QuietStep ==
    ASSUME TypeOK, QueueInv, UNCHANGED <<queue, held>>,
           \A r \in Requests : /\ pc'[r] = "queued" <=> pc[r] = "queued"
                               /\ pc[r] = "hold" => pc'[r] = "hold"
                               /\ pc[r] = "done" => pc'[r] = "done"
    PROVE  QueueInv'
<1>1. \A p \in Routers : \A i \in 1..Len(queue[p]) : queue[p][i] \in Requests
  BY ElementOfSeq DEF TypeOK
<1>2. \A h \in Requests : held[h] # NoRequest => held[h] \in Requests
  BY DEF TypeOK
<1> QED  BY <1>1, <1>2 DEF QueueInv

LEMMA QuietGoto ==
    ASSUME TypeOK, QueueInv, UNCHANGED <<queue, held>>,
           NEW r \in Requests, NEW l, Goto(r, l), l # "queued",
           pc[r] # "queued", pc[r] # "hold", pc[r] # "done"
    PROVE  QueueInv'
<1>1. pc \in [Requests -> Labels]
  BY DEF TypeOK
<1> QED  BY <1>1, QuietStep DEF Goto

LEMMA QuietActions ==
    ASSUME TypeOK, QueueInv, NEW r \in Requests,
           \/ Arrive(r) \/ ForcedFound(r) \/ NoneIdle(r) \/ FoundIdle(r) \/ Claim(r)
           \/ Survey(r) \/ LookForAny(r) \/ FoundAny(r) \/ ClaimSwitch(r) \/ SwitchModel(r)
           \/ NodeReports(r) \/ WsRelease(r) \/ Finish(r) \/ AttemptLost(r) \/ Unsent(r)
           \/ ReleaseUnsent(r) \/ Retry(r) \/ Release(r) \/ Scan(r)
    PROVE  QueueInv'
<1>1. CASE Arrive(r)  BY <1>1, QuietGoto DEF Arrive, BeginAcquire
<1>2. CASE ForcedFound(r)  BY <1>2, QuietGoto DEF ForcedFound, Refuse
<1>3. CASE NoneIdle(r)  BY <1>3, QuietGoto DEF NoneIdle
<1>4. CASE FoundIdle(r)  BY <1>4, QuietGoto DEF FoundIdle
<1>5. CASE Claim(r)  BY <1>5, QuietGoto DEF Claim
<1>6. CASE Survey(r)  BY <1>6, QuietGoto DEF Survey
<1>7. CASE LookForAny(r)  BY <1>7, QuietGoto DEF LookForAny
<1>8. CASE FoundAny(r)  BY <1>8, QuietGoto DEF FoundAny
<1>9. CASE ClaimSwitch(r)  BY <1>9, QuietGoto DEF ClaimSwitch
<1>10. CASE SwitchModel(r)  BY <1>10, QuietGoto DEF SwitchModel
<1>11. CASE NodeReports(r)  BY <1>11, QuietGoto DEF NodeReports
<1>12. CASE WsRelease(r)  BY <1>12, QuietGoto DEF WsRelease
<1>13. CASE Finish(r)  BY <1>13, QuietGoto DEF Finish
<1>14. CASE AttemptLost(r)  BY <1>14, QuietGoto DEF AttemptLost
<1>15. CASE Unsent(r)  BY <1>15, QuietGoto DEF Unsent
<1>16. CASE ReleaseUnsent(r)  BY <1>16, QuietGoto DEF ReleaseUnsent
<1>17. CASE Retry(r)  BY <1>17, QuietGoto DEF Retry, BeginAcquire, Refuse
<1>18. CASE Release(r)  BY <1>18, QuietGoto DEF Release
<1>19. CASE Scan(r)  BY <1>19, QuietGoto DEF Scan
<1> QED  BY <1>1, <1>2, <1>3, <1>4, <1>5, <1>6, <1>7, <1>8, <1>9, <1>10,
            <1>11, <1>12, <1>13, <1>14, <1>15, <1>16, <1>17, <1>18, <1>19

\* A push: the request was in no queue and held by nobody.
LEMMA AdmitQueue ==
    ASSUME TypeOK, QueueInv, NEW r \in Requests, Admit(r)
    PROVE  QueueInv'
<1> DEFINE p == RouterOf[r]
<1>1. /\ p \in Routers
      /\ pc \in [Requests -> Labels]
      /\ queue \in [Routers -> Seq(Requests)]
      /\ queue[p] \in Seq(Requests)
      /\ \A o \in Routers : \A i \in 1..Len(queue[o]) : queue[o][i] \in Requests
      /\ \A h \in Requests : held[h] # NoRequest => held[h] \in Requests
  BY ElementOfSeq DEF TypeOK
<1>2. CASE UNCHANGED queue
  <2>1. Goto(r, "done")
    <3>1. Append(queue[p], r) # queue[p]
      BY <1>1, AppendProperties, LenProperties
    <3> QED  BY <1>2, <1>1, <3>1 DEF Admit, Refuse
  <2> QED  BY <2>1, <1>2, QuietGoto DEF Admit
<1>3. CASE ~ UNCHANGED queue
  <2>1. /\ queue' = [queue EXCEPT ![p] = Append(queue[p], r)]
        /\ pc' = [pc EXCEPT ![r] = "queued"]
        /\ pc[r] = "admit"
        /\ held' = held
    BY <1>3 DEF Admit, Goto
  <2>2. /\ Len(queue'[p]) = Len(queue[p]) + 1
        /\ Len(queue[p]) \in Nat
        /\ \A i \in 1..Len(queue[p]) : queue'[p][i] = queue[p][i]
        /\ queue'[p][Len(queue[p]) + 1] = r
        /\ \A o \in Routers : o # p => queue'[o] = queue[o]
    BY <2>1, <1>1, AppendProperties, LenProperties
  <2>3. /\ \A o \in Routers : \A i \in 1..Len(queue[o]) : queue[o][i] # r
        /\ \A h \in Requests : held[h] # r
    BY <2>1 DEF QueueInv
  <2>4. ASSUME NEW o \in Routers, NEW i \in 1..Len(queue'[o])
        PROVE  /\ pc'[queue'[o][i]] = "queued"
               /\ RouterOf[queue'[o][i]] = o
               /\ \A j \in 1..Len(queue'[o]) : queue'[o][i] = queue'[o][j] => i = j
               /\ \A h \in Requests : held'[h] # queue'[o][i]
    <3>1. CASE o # p
      BY <3>1, <2>1, <2>2, <2>3, <1>1 DEF QueueInv
    <3>2. CASE o = p /\ i = Len(queue[p]) + 1
      BY <3>2, <2>1, <2>2, <2>3, <1>1
    <3>3. CASE o = p /\ i # Len(queue[p]) + 1
      <4>1. i \in 1..Len(queue[p]) /\ queue'[p][i] = queue[p][i]
        BY <3>3, <2>2
      <4>2. /\ pc[queue[p][i]] = "queued"
            /\ RouterOf[queue[p][i]] = p
            /\ \A j \in 1..Len(queue[p]) : queue[p][i] = queue[p][j] => i = j
            /\ \A h \in Requests : held[h] # queue[p][i]
            /\ queue[p][i] # r
            /\ queue[p][i] \in Requests
        BY <4>1, <1>1, <2>3 DEF QueueInv
      <4>3. ASSUME NEW j \in 1..Len(queue'[p]), queue'[p][i] = queue'[p][j]
            PROVE  i = j
        <5>1. j \in 1..Len(queue[p]) \/ j = Len(queue[p]) + 1
          BY <2>2
        <5> QED  BY <5>1, <4>1, <4>2, <4>3, <2>2
      <4> QED  BY <4>1, <4>2, <4>3, <3>3, <2>1
    <3> QED  BY <3>1, <3>2, <3>3
  <2>5. ASSUME NEW h \in Requests, held'[h] # NoRequest
        PROVE  /\ pc'[h] = "hold"
               /\ RouterOf[held'[h]] = RouterOf[h]
               /\ pc'[held'[h]] \in {"queued", "done"}
               /\ \A g \in Requests : held'[g] = held'[h] => g = h
    BY <2>5, <2>1, <2>3, <1>1 DEF QueueInv
  <2>6. ASSUME NEW q \in Requests, pc'[q] = "queued"
        PROVE  \/ \E i \in 1..Len(queue'[RouterOf[q]]) : queue'[RouterOf[q]][i] = q
               \/ \E h \in Requests : held'[h] = q
    <3>1. CASE q = r
      <4>1. Len(queue[p]) + 1 \in 1..Len(queue'[p])
        BY <2>2
      <4> QED  BY <3>1, <4>1, <2>2
    <3>2. CASE q # r
      <4>1. pc[q] = "queued" /\ RouterOf[q] \in Routers
        BY <3>2, <2>6, <2>1, <1>1
      <4>2. \A i \in 1..Len(queue[RouterOf[q]]) :
               /\ i \in 1..Len(queue'[RouterOf[q]])
               /\ queue'[RouterOf[q]][i] = queue[RouterOf[q]][i]
        BY <4>1, <2>2
      <4> QED  BY <4>1, <4>2, <2>1 DEF QueueInv
    <3> QED  BY <3>1, <3>2
  <2> QED  BY <2>4, <2>5, <2>6 DEF QueueInv
<1> QED  BY <1>2, <1>3

\* Entry i has been taken out of p's queue: what is left is in a queue still, at
\* one position, and the entry taken out is in no queue any more.
Spliced(p, i) ==
    /\ \A o \in Routers : \A k \in 1..Len(queue'[o]) :
          /\ \E m \in 1..Len(queue[o]) : queue'[o][k] = queue[o][m]
          /\ queue'[o][k] # queue[p][i]
          /\ \A j \in 1..Len(queue'[o]) : queue'[o][k] = queue'[o][j] => k = j
    /\ \A o \in Routers : \A m \in 1..Len(queue[o]) :
          queue[o][m] # queue[p][i] =>
             \E k \in 1..Len(queue'[o]) : queue'[o][k] = queue[o][m]

LEMMA SpliceFacts ==
    ASSUME TypeOK, QueueInv, NEW p \in Routers, NEW i \in 1..Len(queue[p]),
           queue' = [queue EXCEPT ![p] = RemoveAt(queue[p], i)]
    PROVE  Spliced(p, i)
<1>1. /\ queue \in [Routers -> Seq(Requests)]
      /\ queue[p] \in Seq(Requests)
      /\ Len(queue[p]) \in Nat
  BY LenProperties DEF TypeOK
<1>2. /\ Len(queue'[p]) = Len(queue[p]) - 1
      /\ \A k \in 1..(Len(queue[p]) - 1) :
            queue'[p][k] = IF k < i THEN queue[p][k] ELSE queue[p][k + 1]
  <2>1. queue'[p] = RemoveAt(queue[p], i)
    BY <1>1
  <2>2. /\ Len(RemoveAt(queue[p], i)) = Len(queue[p]) - 1
        /\ \A k \in 1..(Len(queue[p]) - 1) :
              RemoveAt(queue[p], i)[k] = IF k < i THEN queue[p][k] ELSE queue[p][k + 1]
    <3> DEFINE s == queue[p]
    <3>1. s \in Seq(Requests) /\ i \in 1..Len(s)
      BY <1>1
    <3> HIDE DEF s
    <3>2. /\ Len(RemoveAt(s, i)) = Len(s) - 1
          /\ \A k \in 1..(Len(s) - 1) :
                RemoveAt(s, i)[k] = IF k < i THEN s[k] ELSE s[k + 1]
      BY <3>1, RemoveAtProperties
    <3> QED  BY <3>2 DEF s
  <2> QED  BY <2>1, <2>2
<1>3. \A o \in Routers : o # p => queue'[o] = queue[o]
  BY <1>1
<1>4. \A o \in Routers : \A m \in 1..Len(queue[o]) :
         /\ RouterOf[queue[o][m]] = o
         /\ \A j \in 1..Len(queue[o]) : queue[o][m] = queue[o][j] => m = j
  BY DEF QueueInv
<1>5. ASSUME NEW k \in 1..Len(queue'[p])
      PROVE  /\ \E m \in 1..Len(queue[p]) : queue'[p][k] = queue[p][m]
             /\ queue'[p][k] # queue[p][i]
             /\ \A j \in 1..Len(queue'[p]) : queue'[p][k] = queue'[p][j] => k = j
  <2> DEFINE Old(j) == IF j < i THEN j ELSE j + 1
  <2>1. \A j \in 1..Len(queue'[p]) : /\ Old(j) \in 1..Len(queue[p])
                                     /\ Old(j) # i
                                     /\ queue'[p][j] = queue[p][Old(j)]
    BY <1>1, <1>2
  <2>2. \A j \in 1..Len(queue'[p]) : Old(k) = Old(j) => k = j
    BY <1>1, <1>2
  <2> HIDE DEF Old
  <2>3. /\ \E m \in 1..Len(queue[p]) : queue'[p][k] = queue[p][m]
        /\ queue'[p][k] # queue[p][i]
    BY <2>1, <1>4
  <2>4. ASSUME NEW j \in 1..Len(queue'[p]), queue'[p][k] = queue'[p][j] PROVE k = j
    <3>1. queue[p][Old(k)] = queue[p][Old(j)]
      BY <2>1, <2>4
    <3>2. Old(k) = Old(j)
      BY <2>1, <3>1, <1>4
    <3> QED  BY <2>2, <3>2
  <2> QED  BY <2>3, <2>4
<1>6. ASSUME NEW m \in 1..Len(queue[p]), queue[p][m] # queue[p][i]
      PROVE  \E k \in 1..Len(queue'[p]) : queue'[p][k] = queue[p][m]
  <2>1. CASE m < i
    <3>1. m \in 1..Len(queue'[p]) /\ m \in 1..(Len(queue[p]) - 1)
      BY <2>1, <1>1, <1>2
    <3>2. queue'[p][m] = queue[p][m]
      BY <2>1, <3>1, <1>2
    <3> QED  BY <3>1, <3>2
  <2>2. CASE m > i
    <3>1. m - 1 \in 1..Len(queue'[p]) /\ queue'[p][m - 1] = queue[p][m]
      BY <2>2, <1>1, <1>2
    <3> QED  BY <3>1
  <2> QED  BY <2>1, <2>2, <1>6
<1>7. ASSUME NEW o \in Routers, o # p, NEW k \in 1..Len(queue'[o])
      PROVE  /\ \E m \in 1..Len(queue[o]) : queue'[o][k] = queue[o][m]
             /\ queue'[o][k] # queue[p][i]
             /\ \A j \in 1..Len(queue'[o]) : queue'[o][k] = queue'[o][j] => k = j
  <2>1. queue'[o] = queue[o] /\ k \in 1..Len(queue[o])
    BY <1>3, <1>7
  <2>2. queue[o][k] # queue[p][i]
    BY <1>4, <1>7, <2>1
  <2>3. \A j \in 1..Len(queue[o]) : queue[o][k] = queue[o][j] => k = j
    BY <1>4, <2>1
  <2> QED  BY <2>1, <2>2, <2>3
<1>8. \A o \in Routers : \A k \in 1..Len(queue'[o]) :
         /\ \E m \in 1..Len(queue[o]) : queue'[o][k] = queue[o][m]
         /\ queue'[o][k] # queue[p][i]
         /\ \A j \in 1..Len(queue'[o]) : queue'[o][k] = queue'[o][j] => k = j
  BY <1>5, <1>7
<1>9. \A o \in Routers : \A m \in 1..Len(queue[o]) :
         queue[o][m] # queue[p][i] => \E k \in 1..Len(queue'[o]) : queue'[o][k] = queue[o][m]
  BY <1>3, <1>6
<1> QED  BY <1>8, <1>9 DEF Spliced

\* The timer: the entry's request leaves "queued" with the entry.
LEMMA TimeoutQueue ==
    ASSUME TypeOK, QueueInv, NEW r \in Requests, Timeout(r)
    PROVE  QueueInv'
<1> DEFINE p == RouterOf[r]
<1>1. /\ p \in Routers
      /\ pc \in [Requests -> Labels]
      /\ \A o \in Routers : \A i \in 1..Len(queue[o]) : queue[o][i] \in Requests
      /\ \A h \in Requests : held[h] # NoRequest => held[h] \in Requests
  BY ElementOfSeq DEF TypeOK
<1>2. /\ pc[r] = "queued"
      /\ pc' = [pc EXCEPT ![r] = "done"]
      /\ held' = held
  BY DEF Timeout, Refuse, Goto
<1>3. CASE r \notin ToSet(queue[p]) /\ UNCHANGED queue
  <2>1. \A o \in Routers : \A i \in 1..Len(queue[o]) : queue[o][i] # r
    <3>1. \A i \in 1..Len(queue[p]) : queue[p][i] # r
      <4>1. DOMAIN queue[p] = 1..Len(queue[p])
        BY <1>1, LenProperties DEF TypeOK
      <4> QED  BY <4>1, <1>3 DEF ToSet
    <3> QED  BY <3>1 DEF QueueInv
  <2> QED  BY <2>1, <1>1, <1>2, <1>3 DEF QueueInv
<1>4. CASE \E i \in 1..Len(queue[p]) :
              /\ IsFirst(queue[p], i, {r})
              /\ queue' = [queue EXCEPT ![p] = RemoveAt(@, i)]
  <2>1. PICK i \in 1..Len(queue[p]) :
              /\ queue[p][i] = r
              /\ queue' = [queue EXCEPT ![p] = RemoveAt(queue[p], i)]
    BY <1>4 DEF IsFirst
  <2>2. Spliced(p, i)
    BY <2>1, <1>1, SpliceFacts, Zenon
  <2>3. queue[p][i] = r
    BY <2>1
  <2>4. ASSUME NEW o \in Routers, NEW k \in 1..Len(queue'[o])
        PROVE  /\ pc'[queue'[o][k]] = "queued"
               /\ RouterOf[queue'[o][k]] = o
               /\ \A j \in 1..Len(queue'[o]) : queue'[o][k] = queue'[o][j] => k = j
               /\ \A h \in Requests : held'[h] # queue'[o][k]
    <3>1. PICK m \in 1..Len(queue[o]) : queue'[o][k] = queue[o][m]
      BY <2>2 DEF Spliced
    <3>2. /\ pc[queue[o][m]] = "queued"
          /\ RouterOf[queue[o][m]] = o
          /\ \A h \in Requests : held[h] # queue[o][m]
          /\ queue[o][m] \in Requests
      BY <1>1 DEF QueueInv
    <3>0. queue'[o][k] # queue[p][i]
      BY <2>2 DEF Spliced
    <3>3. queue'[o][k] # r
      BY <2>3, <3>0
    <3>4. \A j \in 1..Len(queue'[o]) : queue'[o][k] = queue'[o][j] => k = j
      BY <2>2 DEF Spliced
    <3> QED  BY <3>1, <3>2, <3>3, <3>4, <1>1, <1>2
  <2>5. ASSUME NEW h \in Requests, held'[h] # NoRequest
        PROVE  /\ pc'[h] = "hold"
               /\ RouterOf[held'[h]] = RouterOf[h]
               /\ pc'[held'[h]] \in {"queued", "done"}
               /\ \A g \in Requests : held'[g] = held'[h] => g = h
    BY <2>5, <1>1, <1>2 DEF QueueInv
  <2>6. ASSUME NEW q \in Requests, pc'[q] = "queued"
        PROVE  \/ \E k \in 1..Len(queue'[RouterOf[q]]) : queue'[RouterOf[q]][k] = q
               \/ \E h \in Requests : held'[h] = q
    <3>1. q # r /\ pc[q] = "queued" /\ RouterOf[q] \in Routers
      BY <2>6, <1>1, <1>2
    <3>2. CASE \E m \in 1..Len(queue[RouterOf[q]]) : queue[RouterOf[q]][m] = q
      BY <3>1, <3>2, <2>2, <2>3 DEF Spliced
    <3>3. CASE \E h \in Requests : held[h] = q
      BY <3>3, <1>2
    <3> QED  BY <3>1, <3>2, <3>3 DEF QueueInv
  <2> QED  BY <2>4, <2>5, <2>6 DEF QueueInv
<1> QED  BY <1>3, <1>4 DEF Timeout

\* The splice of tryDequeue: whatever entry is at the index is now held.
LEMMA DequeueQueue ==
    ASSUME TypeOK, QueueInv, NEW r \in Requests, Dequeue(r)
    PROVE  QueueInv'
<1> DEFINE p == RouterOf[r]
<1>1. /\ p \in Routers
      /\ pc \in [Requests -> Labels]
      /\ held \in [Requests -> Requests \cup {NoRequest}]
      /\ queue \in [Routers -> Seq(Requests)]
      /\ \A o \in Routers : \A i \in 1..Len(queue[o]) : queue[o][i] \in Requests
      /\ idx[r] <= Len(queue[p]) => idx[r] \in 1..Len(queue[p])
  BY ElementOfSeq, LenProperties DEF TypeOK
<1>2. pc[r] = "dequeue" /\ held[r] = NoRequest
  BY DEF Dequeue, QueueInv
<1>3. CASE IdleWith(snap[r], ModelOf[r]) = {}
  BY <1>2, <1>3, QuietGoto DEF Dequeue
<1>4. CASE IdleWith(snap[r], ModelOf[r]) # {} /\ ~(idx[r] <= Len(queue[p]))
  <2>1. UNCHANGED <<queue, held>>
    BY <1>1, <1>2, <1>4 DEF Dequeue
  <2> QED  BY <2>1, <1>2, <1>4, QuietGoto DEF Dequeue
<1>5. CASE IdleWith(snap[r], ModelOf[r]) # {} /\ idx[r] <= Len(queue[p])
  <2>0. PICK i \in 1..Len(queue[p]) : i = idx[r]
    BY <1>1, <1>5
  <2> DEFINE x == queue[p][i]
  <2>1. /\ queue' = [queue EXCEPT ![p] = RemoveAt(queue[p], i)]
        /\ held' = [held EXCEPT ![r] = x]
        /\ pc' = [pc EXCEPT ![r] = "hold"]
    BY <2>0, <1>1, <1>5 DEF Dequeue, Goto
  <2>2. /\ x \in Requests
        /\ pc[x] = "queued"
        /\ RouterOf[x] = p
        /\ \A h \in Requests : held[h] # x
        /\ x # r
    BY <2>0, <1>1, <1>2 DEF QueueInv
  <2>3. Spliced(p, i)
    BY <2>1, <1>1, SpliceFacts, Zenon
  <2>4. x = queue[p][i]
    OBVIOUS
  <2> HIDE DEF x
  <2>5. ASSUME NEW o \in Routers, NEW k \in 1..Len(queue'[o])
        PROVE  /\ pc'[queue'[o][k]] = "queued"
               /\ RouterOf[queue'[o][k]] = o
               /\ \A j \in 1..Len(queue'[o]) : queue'[o][k] = queue'[o][j] => k = j
               /\ \A h \in Requests : held'[h] # queue'[o][k]
    <3>1. PICK m \in 1..Len(queue[o]) : queue'[o][k] = queue[o][m]
      BY <2>3 DEF Spliced
    <3>2. /\ pc[queue[o][m]] = "queued"
          /\ RouterOf[queue[o][m]] = o
          /\ \A h \in Requests : held[h] # queue[o][m]
          /\ queue[o][m] \in Requests
      BY <1>1 DEF QueueInv
    <3>3. queue'[o][k] # x
      BY <2>3, <2>4 DEF Spliced
    <3>4. \A j \in 1..Len(queue'[o]) : queue'[o][k] = queue'[o][j] => k = j
      BY <2>3 DEF Spliced
    <3> QED  BY <3>1, <3>2, <3>3, <3>4, <2>1, <1>1, <1>2
  <2>6. ASSUME NEW h \in Requests, held'[h] # NoRequest
        PROVE  /\ pc'[h] = "hold"
               /\ RouterOf[held'[h]] = RouterOf[h]
               /\ pc'[held'[h]] \in {"queued", "done"}
               /\ \A g \in Requests : held'[g] = held'[h] => g = h
    <3>1. CASE h = r
      BY <3>1, <2>1, <2>2, <1>1
    <3>2. CASE h # r
      <4>1. held'[h] = held[h] /\ held[h] \in Requests
        BY <3>2, <2>6, <2>1, <1>1
      <4>2. /\ pc[h] = "hold"
            /\ RouterOf[held[h]] = RouterOf[h]
            /\ pc[held[h]] \in {"queued", "done"}
            /\ \A g \in Requests : held[g] = held[h] => g = h
        BY <4>1, <2>6 DEF QueueInv
      <4> QED  BY <4>1, <4>2, <3>2, <2>1, <2>2, <1>1, <1>2
    <3> QED  BY <3>1, <3>2
  <2>7. ASSUME NEW q \in Requests, pc'[q] = "queued"
        PROVE  \/ \E k \in 1..Len(queue'[RouterOf[q]]) : queue'[RouterOf[q]][k] = q
               \/ \E h \in Requests : held'[h] = q
    <3>1. CASE q = x
      BY <3>1, <2>1, <1>1
    <3>2. CASE q # x
      <4>1. pc[q] = "queued" /\ RouterOf[q] \in Routers
        BY <2>7, <2>1, <1>1
      <4>2. CASE \E m \in 1..Len(queue[RouterOf[q]]) : queue[RouterOf[q]][m] = q
        <5>1. PICK m \in 1..Len(queue[RouterOf[q]]) : queue[RouterOf[q]][m] = q
          BY <4>2
        <5>2. \E k \in 1..Len(queue'[RouterOf[q]]) :
                 queue'[RouterOf[q]][k] = queue[RouterOf[q]][m]
          BY <5>1, <4>1, <3>2, <2>3, <2>4 DEF Spliced
        <5> QED  BY <5>1, <5>2
      <4>3. CASE \E h \in Requests : held[h] = q
        <5>1. PICK h \in Requests : held[h] = q
          BY <4>3
        <5>2. h # r
          BY <5>1, <1>2
        <5>3. held'[h] = q
          BY <5>1, <5>2, <2>1, <1>1
        <5> QED  BY <5>3
      <4> QED  BY <4>1, <4>2, <4>3 DEF QueueInv
    <3> QED  BY <3>1, <3>2
  <2> QED  BY <2>5, <2>6, <2>7 DEF QueueInv
<1> QED  BY <1>3, <1>4, <1>5

\* The entry is resolved: if its promise is pending, its request gets the node.
LEMMA GrantQueue ==
    ASSUME TypeOK, QueueInv, NEW r \in Requests, Grant(r)
    PROVE  QueueInv'
<1> DEFINE x == held[r]
<1>1. /\ pc \in [Requests -> Labels]
      /\ held \in [Requests -> Requests \cup {NoRequest}]
      /\ \A o \in Routers : \A i \in 1..Len(queue[o]) : queue[o][i] \in Requests
  BY ElementOfSeq DEF TypeOK
<1>2. /\ pc[r] = "hold"
      /\ x \in Requests
      /\ pc[x] \in {"queued", "done"}
      /\ x # r
      /\ \A g \in Requests : held[g] = x => g = r
      /\ \A o \in Routers : \A i \in 1..Len(queue[o]) : queue[o][i] # x
  BY <1>1 DEF Grant, QueueInv
<1>3. /\ queue' = queue
      /\ held' = [held EXCEPT ![r] = NoRequest]
      /\ pc' = [pc EXCEPT ![r] = "done", ![x] = IF pc[x] = "queued" THEN "serving" ELSE @]
  <2>1. CASE pc[x] = "queued"
    BY <2>1, <1>1, <1>2 DEF Grant
  <2>2. CASE pc[x] # "queued"
    BY <2>2, <1>1, <1>2 DEF Grant, Goto
  <2> QED  BY <2>1, <2>2
<1> HIDE DEF x
<1>4. ASSUME NEW o \in Routers, NEW i \in 1..Len(queue'[o])
      PROVE  /\ pc'[queue'[o][i]] = "queued"
             /\ RouterOf[queue'[o][i]] = o
             /\ \A j \in 1..Len(queue'[o]) : queue'[o][i] = queue'[o][j] => i = j
             /\ \A h \in Requests : held'[h] # queue'[o][i]
  BY <1>1, <1>2, <1>3 DEF QueueInv
<1>5. ASSUME NEW h \in Requests, held'[h] # NoRequest
      PROVE  /\ pc'[h] = "hold"
             /\ RouterOf[held'[h]] = RouterOf[h]
             /\ pc'[held'[h]] \in {"queued", "done"}
             /\ \A g \in Requests : held'[g] = held'[h] => g = h
  <2>1. h # r /\ held'[h] = held[h] /\ held[h] \in Requests /\ held[h] # x
    BY <1>5, <1>1, <1>2, <1>3
  <2>2. /\ pc[h] = "hold"
        /\ RouterOf[held[h]] = RouterOf[h]
        /\ pc[held[h]] \in {"queued", "done"}
        /\ \A g \in Requests : held[g] = held[h] => g = h
    BY <2>1 DEF QueueInv
  <2> QED  BY <2>1, <2>2, <1>1, <1>2, <1>3
<1>6. ASSUME NEW q \in Requests, pc'[q] = "queued"
      PROVE  \/ \E i \in 1..Len(queue'[RouterOf[q]]) : queue'[RouterOf[q]][i] = q
             \/ \E h \in Requests : held'[h] = q
  <2>1. pc[q] = "queued" /\ q # x
    BY <1>6, <1>1, <1>2, <1>3
  <2>2. CASE \E h \in Requests : held[h] = q
    <3>1. PICK h \in Requests : held[h] = q
      BY <2>2
    <3>2. h # r /\ held'[h] = q
      BY <3>1, <2>1, <1>1, <1>3 DEF x
    <3> QED  BY <3>2
  <2> QED  BY <2>1, <2>2, <1>3 DEF QueueInv
<1> QED  BY <1>4, <1>5, <1>6 DEF QueueInv

\* The router dies: its requests are over, its queue and its entries are gone;
\* entries are never shared between routers, so the others are not concerned.
LEMMA CrashQueue ==
    ASSUME TypeOK, QueueInv, NEW r \in Requests, CrashOnMissingEntry(r)
    PROVE  QueueInv'
<1> DEFINE p == RouterOf[r]
           Alive(q) == RouterOf[q] = p /\ pc[q] # "new"
<1>1. /\ p \in Routers
      /\ pc \in [Requests -> Labels]
      /\ held \in [Requests -> Requests \cup {NoRequest}]
      /\ queue \in [Routers -> Seq(Requests)]
      /\ \A o \in Routers : \A i \in 1..Len(queue[o]) : queue[o][i] \in Requests
  BY ElementOfSeq DEF TypeOK
<1>2. /\ pc' = [q \in Requests |-> IF Alive(q) THEN "done" ELSE pc[q]]
      /\ held' = [q \in Requests |-> IF Alive(q) THEN NoRequest ELSE held[q]]
      /\ queue' = [queue EXCEPT ![p] = << >>]
  BY DEF CrashOnMissingEntry
<1>3. ASSUME NEW o \in Routers, NEW i \in 1..Len(queue'[o])
      PROVE  /\ pc'[queue'[o][i]] = "queued"
             /\ RouterOf[queue'[o][i]] = o
             /\ \A j \in 1..Len(queue'[o]) : queue'[o][i] = queue'[o][j] => i = j
             /\ \A h \in Requests : held'[h] # queue'[o][i]
  <2>1. o # p
    <3>1. Len(<< >>) = 0  BY EmptySeq
    <3> QED  BY <3>1, <1>1, <1>2
  <2>2. /\ queue'[o] = queue[o]
        /\ queue[o][i] \in Requests
        /\ pc[queue[o][i]] = "queued"
        /\ RouterOf[queue[o][i]] = o
        /\ \A j \in 1..Len(queue[o]) : queue[o][i] = queue[o][j] => i = j
        /\ \A h \in Requests : held[h] # queue[o][i]
    BY <2>1, <1>1, <1>2 DEF QueueInv
  <2> QED  BY <2>1, <2>2, <1>2
<1>4. ASSUME NEW h \in Requests, held'[h] # NoRequest
      PROVE  /\ pc'[h] = "hold"
             /\ RouterOf[held'[h]] = RouterOf[h]
             /\ pc'[held'[h]] \in {"queued", "done"}
             /\ \A g \in Requests : held'[g] = held'[h] => g = h
  <2>1. ~Alive(h) /\ held'[h] = held[h] /\ held[h] \in Requests
    BY <1>4, <1>1, <1>2
  <2>2. /\ pc[h] = "hold"
        /\ RouterOf[held[h]] = RouterOf[h]
        /\ pc[held[h]] \in {"queued", "done"}
        /\ \A g \in Requests : held[g] = held[h] => g = h
    BY <2>1 DEF QueueInv
  <2> QED  BY <2>1, <2>2, <1>1, <1>2
<1>5. ASSUME NEW q \in Requests, pc'[q] = "queued"
      PROVE  \/ \E i \in 1..Len(queue'[RouterOf[q]]) : queue'[RouterOf[q]][i] = q
             \/ \E h \in Requests : held'[h] = q
  <2>1. pc[q] = "queued" /\ RouterOf[q] # p /\ RouterOf[q] \in Routers
    BY <1>5, <1>1, <1>2
  <2>2. queue'[RouterOf[q]] = queue[RouterOf[q]]
    BY <2>1, <1>1, <1>2
  <2>3. CASE \E h \in Requests : held[h] = q
    <3>1. PICK h \in Requests : held[h] = q
      BY <2>3
    <3>2. RouterOf[h] = RouterOf[q]
      BY <3>1 DEF QueueInv
    <3> QED  BY <3>1, <3>2, <2>1, <1>2
  <2> QED  BY <2>1, <2>2, <2>3 DEF QueueInv
<1> QED  BY <1>3, <1>4, <1>5 DEF QueueInv

LEMMA NodeQueue ==
    ASSUME TypeOK, QueueInv, NEW n \in Nodes,
           RegisterNode(n) \/ RemoveNode(n) \/ HeartbeatRead(n) \/ HeartbeatWrite(n)
    PROVE  QueueInv'
<1>1. UNCHANGED <<queue, held, pc>>
  BY DEF RegisterNode, RemoveNode, HeartbeatRead, HeartbeatWrite
<1> QED  BY <1>1, QuietStep

LEMMA QueueInvNext == TypeOK /\ QueueInv /\ [Next]_vars => QueueInv'
<1> SUFFICES ASSUME TypeOK, QueueInv, [Next]_vars PROVE QueueInv'
  OBVIOUS
<1>1. CASE Next
  BY <1>1, QuietActions, AdmitQueue, TimeoutQueue, DequeueQueue, GrantQueue, CrashQueue,
     NodeQueue DEF Next, Handler
<1>2. CASE UNCHANGED vars
  BY <1>2, QuietStep DEF vars
<1> QED  BY <1>1, <1>2

\* The bookkeeping of queue entries is right in every reachable state.
THEOREM QueueConsistent == Spec => []QueueInv
BY InitQueue, QueueInvNext, TypeCorrect, PTL DEF Spec

LEMMA QueueInvSuffices == TypeOK /\ QueueInv => NoLostRequest
<1> SUFFICES ASSUME TypeOK, QueueInv, NEW r \in Requests, pc[r] = "queued"
             PROVE  LET here == r \in ToSet(queue[RouterOf[r]])
                        Holders == {h \in Requests : Holds(h, r)}
                    IN /\ here => Holders = {}
                       /\ ~here => \E h \in Requests : /\ Holders = {h}
                                                       /\ RouterOf[h] = RouterOf[r]
  BY DEF NoLostRequest
<1> DEFINE q == queue[RouterOf[r]]
<1>1. DOMAIN q = 1..Len(q) /\ RouterOf[r] \in Routers /\ r # NoRequest
  BY LenProperties DEF TypeOK
<1>2. r \in ToSet(q) <=> \E i \in 1..Len(q) : q[i] = r
  BY <1>1 DEF ToSet
<1>3. ASSUME r \in ToSet(q) PROVE {h \in Requests : Holds(h, r)} = {}
  BY <1>1, <1>2, <1>3 DEF QueueInv, Holds
<1>4. ASSUME r \notin ToSet(q)
      PROVE  \E h \in Requests : /\ {g \in Requests : Holds(g, r)} = {h}
                                 /\ RouterOf[h] = RouterOf[r]
  <2>1. PICK h \in Requests : held[h] = r
    BY <1>2, <1>4 DEF QueueInv
  <2>2. /\ pc[h] = "hold"
        /\ RouterOf[h] = RouterOf[r]
        /\ \A g \in Requests : held[g] = r => g = h
    BY <2>1, <1>1 DEF QueueInv
  <2> QED  BY <2>1, <2>2 DEF Holds
<1> QED  BY <1>3, <1>4

\* No request is lost or served twice by the queue, however the awaits of the
\* handlers of all routers interleave.
THEOREM NobodyLost == Spec => []NoLostRequest
BY QueueConsistent, TypeCorrect, QueueInvSuffices, PTL

(* ---------------------------- The capacity ---------------------------- *)

LEMMA BoundNext == TypeOK /\ QueueBound /\ [Next]_vars => QueueBound'
<1> SUFFICES ASSUME TypeOK, QueueBound, [Next]_vars PROVE QueueBound'
  OBVIOUS
<1>1. /\ queue \in [Routers -> Seq(Requests)]
      /\ \A p \in Routers : queue[p] \in Seq(Requests) /\ Len(queue[p]) \in Nat
      /\ \A r \in Requests : RouterOf[r] \in Routers
  BY LenProperties DEF TypeOK
<1>2. CASE UNCHANGED queue
  BY <1>2 DEF QueueBound
<1>3. ASSUME NEW r \in Requests, Admit(r) PROVE QueueBound'
  <2>1. Len(Append(queue[RouterOf[r]], r)) = Len(queue[RouterOf[r]]) + 1
    BY <1>1, AppendProperties
  <2>2. \/ UNCHANGED queue
        \/ /\ ~(Len(queue[RouterOf[r]]) >= MaxQueue)
           /\ queue' = [queue EXCEPT ![RouterOf[r]] = Append(@, r)]
    BY <1>3 DEF Admit
  <2>3. \A p \in Routers : p # RouterOf[r] => queue'[p] = queue[p]
    BY <2>2, <1>1
  <2>4. Len(queue'[RouterOf[r]]) <= MaxQueue
    <3>1. Len(queue[RouterOf[r]]) \in Nat /\ Len(queue[RouterOf[r]]) <= MaxQueue
      BY <1>1 DEF QueueBound
    <3>2. \/ queue'[RouterOf[r]] = queue[RouterOf[r]]
          \/ /\ queue'[RouterOf[r]] = Append(queue[RouterOf[r]], r)
             /\ ~(Len(queue[RouterOf[r]]) >= MaxQueue)
      BY <2>2, <1>1
    <3> QED  BY <2>1, <3>1, <3>2
  <2> QED  BY <2>3, <2>4 DEF QueueBound
<1>4. ASSUME NEW r \in Requests, Timeout(r) PROVE QueueBound'
  <2>1. \A i \in 1..Len(queue[RouterOf[r]]) :
           Len(RemoveAt(queue[RouterOf[r]], i)) = Len(queue[RouterOf[r]]) - 1
    BY <1>1, RemoveAtProperties
  <2>2. \/ UNCHANGED queue
        \/ \E i \in 1..Len(queue[RouterOf[r]]) :
              queue' = [queue EXCEPT ![RouterOf[r]] = RemoveAt(@, i)]
    BY <1>4 DEF Timeout
  <2>3. \A o \in Routers : \/ queue'[o] = queue[o]
                            \/ Len(queue'[o]) = Len(queue[o]) - 1
    BY <2>1, <2>2, <1>1
  <2> SUFFICES ASSUME NEW o \in Routers PROVE Len(queue'[o]) <= MaxQueue
    BY DEF QueueBound
  <2>5. Len(queue[o]) \in Nat /\ Len(queue[o]) <= MaxQueue /\ MaxQueue \in Nat
    BY <1>1 DEF QueueBound
  <2> QED  BY <2>3, <2>5
<1>5. ASSUME NEW r \in Requests, Dequeue(r) PROVE QueueBound'
  <2>1. \A i \in 1..Len(queue[RouterOf[r]]) :
           Len(RemoveAt(queue[RouterOf[r]], i)) = Len(queue[RouterOf[r]]) - 1
    BY <1>1, RemoveAtProperties
  <2>2. idx[r] <= Len(queue[RouterOf[r]]) => idx[r] \in 1..Len(queue[RouterOf[r]])
    BY <1>1 DEF TypeOK
  <2>3. \/ UNCHANGED queue
        \/ /\ idx[r] <= Len(queue[RouterOf[r]])
           /\ queue' = [queue EXCEPT ![RouterOf[r]] = RemoveAt(@, idx[r])]
    BY <1>5 DEF Dequeue, TypeOK
  <2>4. \A o \in Routers : \/ queue'[o] = queue[o]
                            \/ Len(queue'[o]) = Len(queue[o]) - 1
    BY <2>1, <2>2, <2>3, <1>1
  <2> SUFFICES ASSUME NEW o \in Routers PROVE Len(queue'[o]) <= MaxQueue
    BY DEF QueueBound
  <2>5. Len(queue[o]) \in Nat /\ Len(queue[o]) <= MaxQueue /\ MaxQueue \in Nat
    BY <1>1 DEF QueueBound
  <2> QED  BY <2>4, <2>5
<1>6. ASSUME NEW r \in Requests, CrashOnMissingEntry(r) PROVE QueueBound'
  BY <1>1, <1>6, EmptySeq DEF CrashOnMissingEntry, QueueBound, TypeOK
<1>7. UNCHANGED queue \/ \E r \in Requests : \/ Admit(r) \/ Timeout(r) \/ Dequeue(r)
                                            \/ CrashOnMissingEntry(r)
  BY DEF Next, Handler, vars, Arrive, ForcedFound, NoneIdle, FoundIdle, Claim, Survey,
         LookForAny, FoundAny, ClaimSwitch, SwitchModel, NodeReports, WsRelease, Finish,
         AttemptLost, Unsent, ReleaseUnsent, Retry, Release, Scan, Grant,
         RegisterNode, RemoveNode, HeartbeatRead, HeartbeatWrite
<1> QED  BY <1>2, <1>3, <1>4, <1>5, <1>6, <1>7

\* A router never has more than QUEUE_MAX_SIZE requests waiting.
THEOREM QueueStaysBounded == Spec => []QueueBound
<1>1. Init => QueueBound
  BY EmptySeq DEF Init, QueueBound
<1> QED  BY <1>1, BoundNext, TypeCorrect, PTL DEF Spec

(* ------------------- RequestQueue implements Acquisition -------------- *)

\* What the gateway sees of each label.
LEMMA PhaseFacts ==
    /\ Phase("new") = "new"
    /\ \A l \in {"forced", "forcedClaim", "find", "claim", "counts", "surveyBusy", "survey",
                 "any", "claimSwitch", "switch", "admit", "queued"} : Phase(l) = "asking"
    /\ \A l \in {"serving", "wsDone", "finished", "wsError", "unsent", "failed", "release"} :
          Phase(l) = "granted"
    /\ \A l \in {"scan", "dequeue", "hold", "done"} : Phase(l) = "over"
BY DEF Phase, Searching, Using

Seen == [r \in Requests |-> Phase(pc[r])]

LEMMA GotoSeen ==
    ASSUME pc \in [Requests -> Labels], NEW r \in Requests, NEW l, Goto(r, l)
    PROVE  /\ Seen[r] = Phase(pc[r])
           /\ Seen' = [Seen EXCEPT ![r] = Phase(l)]
BY DEF Goto, Seen

\* A step between two labels that look alike to the gateway is a stutter.
LEMMA StutterSeen ==
    ASSUME pc \in [Requests -> Labels], NEW r \in Requests, NEW l, Goto(r, l),
           Phase(l) = Phase(pc[r]), UNCHANGED attempt
    PROVE  UNCHANGED Promise!vars
<1>1. Seen' = [Seen EXCEPT ![r] = Seen[r]]
  BY GotoSeen
<1>2. Seen' = Seen
  BY <1>1 DEF Seen
<1> QED  BY <1>2 DEF Promise!vars, Seen

LEMMA MoveSeen ==
    ASSUME pc \in [Requests -> Labels], NEW r \in Requests, NEW l, Goto(r, l)
    PROVE  Promise!Move(r, Phase(pc[r]), Phase(l))
BY GotoSeen DEF Promise!Move, Seen

LEMMA SearchSeen ==
    ASSUME TypeOK, NEW r \in Requests,
           \/ Arrive(r) \/ ForcedFound(r) \/ NoneIdle(r) \/ FoundIdle(r) \/ Claim(r)
           \/ Survey(r) \/ LookForAny(r) \/ FoundAny(r) \/ ClaimSwitch(r) \/ SwitchModel(r)
           \/ Admit(r) \/ Timeout(r)
    PROVE  [Promise!Next]_(Promise!vars)
<1> USE PhaseFacts
<1>0. pc \in [Requests -> Labels]
  BY DEF TypeOK
<1>1. CASE Arrive(r)
  <2>1. PICK l \in {"forced", "find"} : Goto(r, l) /\ pc[r] = "new" /\ UNCHANGED attempt
    BY <1>1 DEF Arrive, BeginAcquire
  <2>2. Promise!Ask(r)
    BY <2>1, <1>0, MoveSeen DEF Promise!Ask
  <2> QED  BY <2>2 DEF Promise!Next
<1>2. CASE ForcedFound(r) \/ Admit(r) \/ Timeout(r)
  <2>1. PICK l \in {"forcedClaim", "queued", "done"} :
           Goto(r, l) /\ pc[r] \in {"forced", "admit", "queued"} /\ UNCHANGED attempt
    BY <1>2 DEF ForcedFound, Admit, Timeout, Refuse
  <2>2. CASE l = "done"
    <3>1. Promise!TurnAway(r)
      BY <2>1, <2>2, <1>0, MoveSeen DEF Promise!TurnAway
    <3> QED  BY <3>1 DEF Promise!Next
  <2>3. CASE l # "done"
    BY <2>1, <2>3, <1>0, StutterSeen
  <2> QED  BY <2>2, <2>3
<1>3. CASE NoneIdle(r) \/ FoundIdle(r) \/ Survey(r) \/ LookForAny(r) \/ FoundAny(r)
           \/ ClaimSwitch(r) \/ SwitchModel(r)
  <2>1. PICK l \in {"counts", "claim", "admit", "surveyBusy", "survey", "any", "claimSwitch",
                    "switch"} :
           /\ Goto(r, l)
           /\ pc[r] \in {"find", "counts", "surveyBusy", "survey", "any", "claimSwitch", "switch"}
           /\ UNCHANGED attempt
    BY <1>3 DEF NoneIdle, FoundIdle, Survey, LookForAny, FoundAny, ClaimSwitch, SwitchModel
  <2> QED  BY <2>1, <1>0, StutterSeen
<1>4. CASE Claim(r)
  <2>1. Promise!Grant(r)
    BY <1>4, <1>0, MoveSeen DEF Claim, Promise!Grant
  <2> QED  BY <2>1 DEF Promise!Next
<1> QED  BY <1>1, <1>2, <1>3, <1>4

LEMMA AttemptSeen ==
    ASSUME TypeOK, NEW r \in Requests,
           \/ NodeReports(r) \/ WsRelease(r) \/ Finish(r) \/ AttemptLost(r) \/ Unsent(r)
           \/ ReleaseUnsent(r) \/ Retry(r) \/ Release(r) \/ Scan(r) \/ Dequeue(r)
    PROVE  [Promise!Next]_(Promise!vars)
<1> USE PhaseFacts
<1>0. pc \in [Requests -> Labels]
  BY DEF TypeOK
<1>1. CASE NodeReports(r) \/ WsRelease(r) \/ Finish(r) \/ AttemptLost(r) \/ Unsent(r)
           \/ ReleaseUnsent(r)
  <2>1. PICK l \in {"wsDone", "release", "wsError", "failed", "finished", "unsent"} :
           /\ Goto(r, l)
           /\ pc[r] \in {"serving", "wsDone", "wsError", "finished", "unsent"}
           /\ UNCHANGED attempt
    BY <1>1 DEF NodeReports, WsRelease, Finish, AttemptLost, Unsent, ReleaseUnsent
  <2> QED  BY <2>1, <1>0, StutterSeen
<1>2. CASE Retry(r)
  <2>1. CASE UNCHANGED attempt /\ Goto(r, "done")
    <3>1. Promise!End(r)
      BY <2>1, <1>2, <1>0, MoveSeen DEF Retry, Promise!End
    <3> QED  BY <3>1 DEF Promise!Next
  <2>2. CASE /\ attempt[r] < MaxRetries
             /\ attempt' = [attempt EXCEPT ![r] = @ + 1]
             /\ Goto(r, "forced") \/ Goto(r, "find")
    <3>1. Promise!Move(r, "granted", "asking")
      BY <2>2, <1>2, <1>0, MoveSeen DEF Retry
    <3>2. Promise!AskAgain(r)
      BY <3>1, <2>2 DEF Promise!AskAgain
    <3> QED  BY <3>2 DEF Promise!Next
  <2> QED  BY <2>1, <2>2, <1>2 DEF Retry, Refuse, BeginAcquire
<1>3. CASE Release(r)
  <2>1. Promise!End(r)
    BY <1>3, <1>0, MoveSeen DEF Release, Promise!End
  <2> QED  BY <2>1 DEF Promise!Next
<1>4. CASE Scan(r) \/ Dequeue(r)
  <2>1. PICK l \in {"done", "dequeue", "hold"} :
           Goto(r, l) /\ pc[r] \in {"scan", "dequeue"} /\ UNCHANGED attempt
    BY <1>4 DEF Scan, Dequeue
  <2> QED  BY <2>1, <1>0, StutterSeen
<1> QED  BY <1>1, <1>2, <1>3, <1>4

\* Resolving an entry is the grant of its request; a late resolve is a stutter.
LEMMA GrantSeen ==
    ASSUME TypeOK, NEW r \in Requests, Grant(r)
    PROVE  [Promise!Next]_(Promise!vars)
<1> USE PhaseFacts
<1> DEFINE x == held[r]
<1>1. pc \in [Requests -> Labels] /\ x \in Requests /\ pc[r] = "hold" /\ UNCHANGED attempt
  BY DEF TypeOK, Grant
<1>2. CASE pc[x] = "queued"
  <2>1. pc' = [pc EXCEPT ![r] = "done", ![x] = "serving"] /\ x # r
    BY <1>1, <1>2 DEF Grant
  <2>2. Seen[x] = "asking" /\ Seen' = [Seen EXCEPT ![x] = "granted"]
    BY <2>1, <1>1, <1>2 DEF Seen
  <2>3. Promise!Grant(x)
    BY <2>2, <1>1 DEF Promise!Grant, Promise!Move, Seen
  <2> QED  BY <2>3, <1>1 DEF Promise!Next
<1>3. CASE pc[x] # "queued"
  <2>1. Goto(r, "done")
    BY <1>3 DEF Grant
  <2> QED  BY <2>1, <1>1, StutterSeen
<1> QED  BY <1>2, <1>3

LEMMA CrashSeen ==
    ASSUME TypeOK, NEW r \in Requests, CrashOnMissingEntry(r)
    PROVE  [Promise!Next]_(Promise!vars)
<1> USE PhaseFacts
<1> DEFINE S == {q \in Requests : RouterOf[q] = RouterOf[r] /\ pc[q] # "new"}
<1>1. /\ pc \in [Requests -> Labels]
      /\ UNCHANGED attempt
      /\ pc' = [q \in Requests |-> IF q \in S THEN "done" ELSE pc[q]]
  BY DEF TypeOK, CrashOnMissingEntry
<1>2. S \in SUBSET {q \in Requests : Seen[q] # "new"}
  BY <1>1 DEF Seen, Phase, Labels, Searching, Using, Dequeuing
<1>3. Seen' = [q \in Requests |-> IF q \in S THEN "over" ELSE Seen[q]]
  BY <1>1 DEF Seen
<1> HIDE DEF S
<1>4. Promise!Crash
  BY <1>1, <1>2, <1>3 DEF Promise!Crash, Seen
<1> QED  BY <1>4 DEF Promise!Next

LEMMA NodeSeen ==
    ASSUME NEW n \in Nodes,
           RegisterNode(n) \/ RemoveNode(n) \/ HeartbeatRead(n) \/ HeartbeatWrite(n)
    PROVE  UNCHANGED Promise!vars
BY DEF RegisterNode, RemoveNode, HeartbeatRead, HeartbeatWrite, Promise!vars

\* Every request that asks is answered once, and nothing revives it afterwards:
\* the safety half of AnsweredOnce, for any number of requests and routers.
THEOREM ImplementsAcquisition == Spec => Promise!Init /\ [][Promise!Next]_(Promise!vars)
<1>1. Init => Promise!Init
  BY PhaseFacts DEF Init, Promise!Init
<1>2. TypeOK /\ [Next]_vars => [Promise!Next]_(Promise!vars)
  <2> SUFFICES ASSUME TypeOK, [Next]_vars PROVE [Promise!Next]_(Promise!vars)
    OBVIOUS
  <2>1. CASE Next
    BY <2>1, SearchSeen, AttemptSeen, GrantSeen, CrashSeen, NodeSeen DEF Next, Handler
  <2>2. CASE UNCHANGED vars
    BY <2>2 DEF vars, Promise!vars
  <2> QED  BY <2>1, <2>2
<1> QED  BY <1>1, <1>2, TypeCorrect, PTL DEF Spec
=============================================================================

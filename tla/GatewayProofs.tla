---------------------------- MODULE GatewayProofs ----------------------------
(***************************************************************************)
(* Proofs about Gateway, for any number of requests, nodes, connections,   *)
(* retries and chunks.                                                     *)
(***************************************************************************)
EXTENDS Gateway, SequenceTheorems, TLAPS

USE GatewayAssumption

(* --------------------------- Type correctness ------------------------- *)

HandlerType ==
    /\ pc \in [Requests -> Labels]
    /\ attempt \in [Requests -> 0..MaxRetries]
    /\ node \in [Requests -> Nodes \cup {NoNode}]
    /\ client \in [Requests -> BOOLEAN]
    /\ body \in [Requests -> Seq(Tokens)]
    /\ status \in [Requests -> {"open", "success", "error"}]

TrackingType ==
    /\ activeRequests \in [Nodes -> Requests \cup {NoRequest}]
    /\ requestToNode \in [Requests -> Nodes \cup {NoNode}]

ProviderType ==
    /\ marking \in SUBSET Events
    /\ line \in [Nodes -> 0..MaxConnections]
    /\ open \in [Nodes -> SUBSET Connections]
    /\ local \in [Nodes -> 0..MaxConnections]
    /\ jobs \in SUBSET Jobs
    /\ behind \in SUBSET Parts

LEMMA TypeParts == TypeOK <=> HandlerType /\ TrackingType /\ ProviderType
BY DEF TypeOK, HandlerType, TrackingType, ProviderType

LEMMA TypePartsNext == HandlerType' /\ TrackingType' /\ ProviderType' => TypeOK'
BY DEF TypeOK, HandlerType, TrackingType, ProviderType

LEMMA GotoType ==
    ASSUME HandlerType, NEW r \in Requests, NEW l \in Labels, Goto(r, l)
    PROVE  pc' \in [Requests -> Labels]
BY DEF Goto, HandlerType

LEMMA AnswerType ==
    ASSUME HandlerType, NEW r \in Requests, NEW s \in {"open", "success", "error"}, Answer(r, s)
    PROVE  status' \in [Requests -> {"open", "success", "error"}]
BY DEF Answer, HandlerType

LEMMA NextAttemptType ==
    ASSUME HandlerType, NEW r \in Requests, NextAttempt(r)
    PROVE  HandlerType'
<1>1. pc' \in [Requests -> Labels]
  BY GotoType DEF NextAttempt, Labels
<1>2. attempt' \in [Requests -> 0..MaxRetries]
  <2>1. attempt[r] \in 0..MaxRetries /\ attempt \in [Requests -> 0..MaxRetries]
    BY DEF HandlerType
  <2>2. CASE UNCHANGED attempt
    BY <2>2, <2>1
  <2>3. CASE attempt[r] < MaxRetries /\ attempt' = [attempt EXCEPT ![r] = @ + 1]
    BY <2>3, <2>1
  <2> QED  BY <2>2, <2>3 DEF NextAttempt
<1>3. status' \in [Requests -> {"open", "success", "error"}]
  BY AnswerType DEF NextAttempt, HandlerType
<1>4. node' \in [Requests -> Nodes \cup {NoNode}]
  BY DEF NextAttempt, HandlerType
<1>5. body' \in [Requests -> Seq(Tokens)]
  BY EmptySeq DEF NextAttempt, HandlerType
<1> QED  BY <1>1, <1>2, <1>3, <1>4, <1>5 DEF NextAttempt, HandlerType

LEMMA SucceedType ==
    ASSUME HandlerType, NEW r \in Requests, Succeed(r)
    PROVE  HandlerType'
<1>1. pc' \in [Requests -> Labels]
  BY GotoType DEF Succeed, Labels
<1>2. status' \in [Requests -> {"open", "success", "error"}]
  BY AnswerType DEF Succeed
<1> QED  BY <1>1, <1>2 DEF Succeed, HandlerType

LEMMA ReactType ==
    ASSUME HandlerType, NEW r \in Requests, NEW type, React(type, r)
    PROVE  HandlerType'
<1>1. CASE UNCHANGED handler
  BY <1>1 DEF HandlerType, handler
<1> QED  BY <1>1, NextAttemptType, SucceedType DEF React

LEMMA ClearType ==
    ASSUME TrackingType, NEW r \in Requests, ClearTracking(r)
    PROVE  TrackingType'
BY DEF ClearTracking, TrackingType

LEMMA HandlerStepType ==
    ASSUME TypeOK, NEW r \in Requests,
           \/ Begin(r) \/ Denied(r) \/ Unsent(r) \/ Leave(r) \/ Timeout(r) \/ ClientGone(r)
           \/ \E n \in Nodes : NotSent(r, n)
    PROVE  TypeOK'
<1> USE TypeParts, TypePartsNext
<1>1. ProviderType'
  <2>1. UNCHANGED <<marking, channel>>
    BY DEF Begin, Denied, Unsent, Leave, Timeout, ClientGone, NotSent
  <2> QED  BY <2>1 DEF channel, sockets, ProviderType
<1>2. CASE Begin(r)
  <2>1. pc' \in [Requests -> Labels]
    BY <1>2, GotoType DEF Begin, Labels
  <2> QED  BY <1>1, <2>1, <1>2 DEF Begin, tracking, HandlerType, TrackingType
<1>3. CASE Denied(r)
  <2>1. pc' \in [Requests -> Labels]
    BY <1>3, GotoType DEF Denied, Labels
  <2>2. status' \in [Requests -> {"open", "success", "error"}]
    BY <1>3, AnswerType DEF Denied, HandlerType
  <2> QED  BY <1>1, <2>1, <2>2, <1>3 DEF Denied, tracking, HandlerType, TrackingType
<1>4. CASE Unsent(r)
  BY <1>1, <1>4, NextAttemptType DEF Unsent, tracking, TrackingType
<1>5. CASE Leave(r)
  <2>1. pc' \in [Requests -> Labels]
    BY <1>5, GotoType DEF Leave, Labels
  <2> QED  BY <1>1, <2>1, <1>5 DEF Leave, tracking, HandlerType, TrackingType
<1>6. CASE Timeout(r)
  BY <1>1, <1>6, NextAttemptType, ClearType DEF Timeout
<1>7. CASE ClientGone(r)
  <2>1. client' \in [Requests -> BOOLEAN]
    BY <1>7 DEF ClientGone, HandlerType
  <2> QED  BY <1>1, <2>1, <1>7 DEF ClientGone, tracking, HandlerType, TrackingType
<1>8. ASSUME NEW n \in Nodes, NotSent(r, n) PROVE TypeOK'
  <2>1. pc' \in [Requests -> Labels]
    BY <1>8, GotoType DEF NotSent, Labels
  <2>2. node' \in [Requests -> Nodes \cup {NoNode}]
    BY <1>8 DEF NotSent, HandlerType
  <2> QED  BY <1>1, <2>1, <2>2, <1>8 DEF NotSent, tracking, HandlerType, TrackingType
<1> QED  BY <1>2, <1>3, <1>4, <1>5, <1>6, <1>7, <1>8

\* A job is one of some request, of some of the chunks that the answer to it has.
JobOf(r) == [req : {r}, run : 0..MaxRetries, node : Nodes, on : Connections,
             sent : 0..Chunks[r], upto : 0..Chunks[r], ends : BOOLEAN]

LEMMA JobsAre == \A j : j \in Jobs <=> \E r \in Requests : j \in JobOf(r)
BY DEF Jobs, JobOf

LEMMA JobParts ==
    ASSUME NEW j \in Jobs
    PROVE  /\ j.req \in Requests /\ j.run \in 0..MaxRetries
           /\ j.node \in Nodes /\ j.on \in Connections
           /\ j.sent \in 0..Chunks[j.req] /\ j.upto \in 0..Chunks[j.req] /\ j.ends \in BOOLEAN
           /\ Chunks[j.req] \in Nat
<1>1. PICK r \in Requests : j \in JobOf(r)
  BY JobsAre
<1> QED  BY <1>1 DEF JobOf

\* One chunk further; the two pieces of a job that goes on in another connection.
LEMMA MoreIsJob ==
    ASSUME NEW j \in Jobs, j.sent < j.upto
    PROVE  LET more == [j EXCEPT !.sent = @ + 1] IN
           /\ more \in Jobs
           /\ more.req = j.req /\ more.run = j.run
           /\ more.sent = j.sent + 1 /\ more.upto = j.upto /\ more.ends = j.ends
<1> DEFINE more == [j EXCEPT !.sent = @ + 1]
<1>1. PICK r \in Requests : j \in JobOf(r)
  BY JobsAre
<1>2. Chunks[r] \in Nat
  OBVIOUS
<1>3. more \in JobOf(r)
  BY <1>1, <1>2 DEF JobOf
<1>4. /\ more.req = j.req /\ more.run = j.run
      /\ more.sent = j.sent + 1 /\ more.upto = j.upto /\ more.ends = j.ends
  BY <1>1 DEF JobOf
<1> QED  BY <1>3, <1>4, JobsAre

LEMMA PiecesAreJobs ==
    ASSUME NEW j \in Jobs, NEW c \in Connections, NEW k \in j.sent..j.upto
    PROVE  /\ [j EXCEPT !.on = c, !.sent = k] \in Jobs
           /\ [j EXCEPT !.upto = k, !.ends = FALSE] \in Jobs
<1>1. PICK r \in Requests : j \in JobOf(r)
  BY JobsAre
<1>2. k \in 0..Chunks[r]
  BY <1>1 DEF JobOf
<1>3. /\ [j EXCEPT !.on = c, !.sent = k] \in JobOf(r)
      /\ [j EXCEPT !.upto = k, !.ends = FALSE] \in JobOf(r)
  BY <1>1, <1>2 DEF JobOf
<1> QED  BY <1>3, JobsAre

LEMMA NewIsJob ==
    ASSUME NEW r \in Requests, NEW run \in 0..MaxRetries, NEW n \in Nodes, NEW c \in Connections
    PROVE  [req |-> r, run |-> run, node |-> n, on |-> c,
            sent |-> 0, upto |-> Chunks[r], ends |-> TRUE] \in Jobs
<1>1. [req |-> r, run |-> run, node |-> n, on |-> c,
       sent |-> 0, upto |-> Chunks[r], ends |-> TRUE] \in JobOf(r)
  BY DEF JobOf
<1> QED  BY <1>1, JobsAre

LEMMA SentType ==
    ASSUME TypeOK, NEW r \in Requests, NEW n \in Nodes, Sent(r, n)
    PROVE  TypeOK'
<1> USE TypeParts, TypePartsNext
<1>1. pc' \in [Requests -> Labels]
  BY GotoType DEF Sent, Labels
<1>2. node' \in [Requests -> Nodes \cup {NoNode}]
  BY DEF Sent, HandlerType
<1>3. HandlerType'
  BY <1>1, <1>2 DEF Sent, HandlerType
<1>4. TrackingType'
  BY DEF Sent, TrackingType
<1>5. jobs' \in SUBSET Jobs
  <2>1. attempt[r] \in 0..MaxRetries /\ local[n] \in Connections
    BY DEF Sent, HandlerType, ProviderType, Connections
  <2>2. [req |-> r, run |-> attempt[r], node |-> n, on |-> local[n],
         sent |-> 0, upto |-> Chunks[r], ends |-> TRUE] \in Jobs
    BY <2>1, NewIsJob
  <2> QED  BY <2>2 DEF Sent, ProviderType
<1>6. ProviderType'
  BY <1>5 DEF Sent, sockets, ProviderType
<1> QED  BY <1>3, <1>4, <1>6

LEMMA ChunkType ==
    ASSUME TypeOK, NEW j \in Jobs, Chunk(j)
    PROVE  TypeOK'
<1> USE TypeParts, TypePartsNext
<1> DEFINE token == [run |-> j.run, part |-> j.sent + 1]
           more == [j EXCEPT !.sent = @ + 1]
<1>1. /\ j.req \in Requests /\ j.run \in 0..MaxRetries
      /\ j.sent \in Nat /\ j.sent < j.upto
  BY JobParts DEF Chunk, Read
<1>2. token \in Tokens
  BY <1>1 DEF Tokens
<1>3. more \in Jobs
  BY <1>1, MoreIsJob
<1>4. jobs' \in SUBSET Jobs
  BY <1>3 DEF Chunk, Read, ProviderType
<1>5. body' = body \/ body' = [body EXCEPT ![j.req] = Append(@, token)]
  BY DEF Chunk
<1> HIDE DEF token, more
<1>6. Append(body[j.req], token) \in Seq(Tokens)
  BY <1>1, <1>2, AppendProperties DEF HandlerType
<1>7. body' \in [Requests -> Seq(Tokens)]
  <2>1. body \in [Requests -> Seq(Tokens)]
    BY DEF HandlerType
  <2>2. CASE body' = [body EXCEPT ![j.req] = Append(@, token)]
    <3>1. body' = [body EXCEPT ![j.req] = Append(body[j.req], token)]
      BY <1>1, <2>1, <2>2
    <3> HIDE DEF HandlerType, TypeOK
    <3> QED  BY <1>1, <1>6, <2>1, <3>1
  <2> QED  BY <1>5, <2>1, <2>2
<1>8. HandlerType'
  BY <1>7 DEF Chunk, HandlerType
<1>9. TrackingType' /\ ProviderType'
  BY <1>4 DEF Chunk, tracking, sockets, TrackingType, ProviderType
<1> QED  BY <1>8, <1>9

LEMMA ReportedType ==
    ASSUME TypeOK, NEW j \in Jobs, Reported(j)
    PROVE  TypeOK'
<1> USE TypeParts, TypePartsNext
<1>1. j.req \in Requests /\ j.run \in 0..MaxRetries
  BY JobParts
<1>2. TrackingType'
  BY <1>1, ClearType DEF Reported
<1>3. PICK t \in {"inference_done", "inference_error"} :
        \/ /\ marking' = marking \cup {[type |-> t, req |-> j.req, run |-> j.run]}
           /\ UNCHANGED handler
        \/ React(t, j.req) /\ UNCHANGED marking
  BY DEF Reported
<1>4. [type |-> t, req |-> j.req, run |-> j.run] \in Events
  BY <1>1 DEF Events
<1>5. marking' \in SUBSET Events
  BY <1>3, <1>4 DEF ProviderType
<1>6. HandlerType'
  <2>1. CASE UNCHANGED handler
    BY <2>1 DEF handler, HandlerType
  <2> QED  BY <2>1, <1>1, <1>3, ReactType
<1>7. ProviderType'
  BY <1>5 DEF Reported, sockets, ProviderType
<1> QED  BY <1>2, <1>6, <1>7

LEMMA GoOnType ==
    ASSUME TypeOK, NEW j \in Jobs, NEW k \in 0..j.upto, GoOn(j, k)
    PROVE  TypeOK'
<1> USE TypeParts, TypePartsNext
<1> DEFINE next == [j EXCEPT !.on = line[j.node], !.sent = k]
           rest == [j EXCEPT !.upto = k, !.ends = FALSE]
<1>1. /\ j.req \in Requests /\ j.run \in 0..MaxRetries /\ j.node \in Nodes
      /\ j.on \in Connections /\ j.sent \in Nat
  BY JobParts
<1>2. line[j.node] \in Connections
  BY <1>1 DEF GoOn, ProviderType, Connections
<1>3. next \in Jobs /\ rest \in Jobs
  BY <1>2, PiecesAreJobs DEF GoOn
<1>4. jobs' \in SUBSET Jobs
  BY <1>3 DEF GoOn, ProviderType
<1>5. behind' \in SUBSET Parts
  <2>1. \A p \in j.sent + 1..k : [req |-> j.req, run |-> j.run, part |-> p] \in Parts
    BY <1>1 DEF Parts
  <2> QED  BY <2>1 DEF GoOn, ProviderType
<1> HIDE DEF next, rest
<1> QED  BY <1>4, <1>5
         DEF GoOn, handler, tracking, sockets, HandlerType, TrackingType, ProviderType

LEMMA SocketType ==
    ASSUME TypeOK, NEW n \in Nodes, Connect(n) \/ Remove(n)
    PROVE  TypeOK'
<1>1. line[n] \in 0..MaxConnections /\ UNCHANGED <<handler, tracking, marking, jobs, behind>>
  BY DEF TypeOK, Connect, Remove
<1>2. CASE Connect(n)
  <2>1. line[n] + 1 \in Connections /\ line[n] + 1 \in 0..MaxConnections
    BY <1>1, <1>2 DEF Connect, Connections
  <2>2. line' \in [Nodes -> 0..MaxConnections] /\ local' \in [Nodes -> 0..MaxConnections]
    BY <1>2, <2>1 DEF Connect, TypeOK
  <2>3. open' \in [Nodes -> SUBSET Connections]
    BY <1>2, <2>1 DEF Connect, TypeOK
  <2> QED  BY <1>1, <2>2, <2>3 DEF TypeOK, handler, tracking
<1>3. CASE Remove(n)
  <2>1. local' \in [Nodes -> 0..MaxConnections] /\ UNCHANGED <<line, open>>
    BY <1>3 DEF Remove, TypeOK
  <2> QED  BY <1>1, <2>1 DEF TypeOK, handler, tracking
<1> QED  BY <1>2, <1>3

LEMMA CloseType ==
    ASSUME TypeOK, NEW n \in Nodes, NEW c \in Connections, Close(n, c)
    PROVE  TypeOK'
<1> USE TypeParts, TypePartsNext
<1>1. ProviderType'
  BY DEF Close, ProviderType
<1>2. CASE activeRequests[n] = NoRequest
  BY <1>1, <1>2 DEF Close, handler, tracking, HandlerType, TrackingType
<1>3. CASE activeRequests[n] # NoRequest
  <2>1. activeRequests[n] \in Requests
    BY <1>3 DEF TrackingType
  <2>2. HandlerType'
    BY <1>3, <2>1, ReactType DEF Close
  <2>3. TrackingType'
    BY <1>3, <2>1 DEF Close, TrackingType
  <2> QED  BY <1>1, <2>2, <2>3
<1> QED  BY <1>2, <1>3

LEMMA EmitType ==
    ASSUME TypeOK, NEW e \in Events, Emit(e)
    PROVE  TypeOK'
<1> USE TypeParts, TypePartsNext
<1>1. e.req \in Requests
  BY DEF Events
<1>2. HandlerType'
  BY <1>1, ReactType DEF Emit
<1>3. TrackingType'
  BY <1>1, ClearType DEF Emit, tracking, TrackingType
<1> QED  BY <1>2, <1>3 DEF Emit, channel, sockets, ProviderType

LEMMA TypeNext == TypeOK /\ [Next]_vars => TypeOK'
<1> SUFFICES ASSUME TypeOK, [Next]_vars PROVE TypeOK'
  OBVIOUS
<1>1. CASE Next
  BY <1>1, HandlerStepType, SentType, ChunkType, ReportedType, GoOnType, SocketType, CloseType,
     EmitType DEF Next, Acquired
<1>2. CASE UNCHANGED vars
  BY <1>2 DEF vars, handler, tracking, channel, sockets, TypeOK
<1> QED  BY <1>1, <1>2

\* The state always has its type: no attempt beyond MaxRetries is ever made.
THEOREM TypeCorrect == Spec => []TypeOK
<1>1. Init => TypeOK
  BY EmptySeq DEF Init, TypeOK, Labels
<1> QED  BY <1>1, TypeNext, PTL DEF Spec

(* --------------------------- Request tracking ------------------------- *)

Tracks == ActiveIsTracked /\ TrackedIsCurrent

\* Clearing a request frees both of its entries and no other request's.
LEMMA ClearFacts ==
    ASSUME TypeOK, Tracks, NEW r \in Requests, ClearTracking(r)
    PROVE  /\ ActiveIsTracked'
           /\ requestToNode'[r] = NoNode
           /\ \A q \in Requests : q # r => requestToNode'[q] = requestToNode[q]
<1>1. /\ requestToNode' = [requestToNode EXCEPT ![r] = NoNode]
      /\ requestToNode \in [Requests -> Nodes \cup {NoNode}]
      /\ activeRequests \in [Nodes -> Requests \cup {NoRequest}]
  BY DEF ClearTracking, TypeOK
<1>2. \A n \in Nodes : activeRequests'[n] # NoRequest =>
         activeRequests'[n] = activeRequests[n] /\ n # requestToNode[r]
  BY <1>1 DEF ClearTracking, Tracks, ActiveIsTracked
<1>3. ASSUME NEW n \in Nodes, activeRequests'[n] # NoRequest
      PROVE  requestToNode'[activeRequests'[n]] = n
  <2> DEFINE q == activeRequests[n]
  <2>1. activeRequests'[n] = q /\ n # requestToNode[r] /\ q \in Requests
    BY <1>1, <1>2, <1>3
  <2>2. requestToNode[q] = n
    BY <1>3, <2>1 DEF Tracks, ActiveIsTracked
  <2> QED  BY <1>1, <2>1, <2>2
<1> QED  BY <1>1, <1>3 DEF ActiveIsTracked

\* One handler moves; its tracking is cleared or it may keep it where it goes.
LEMMA MoveTracks ==
    ASSUME TypeOK, Tracks, NEW r \in Requests,
           ActiveIsTracked',
           \A q \in Requests : q # r =>
              /\ requestToNode'[q] = requestToNode[q]
              /\ node'[q] = node[q]
              /\ pc'[q] = pc[q],
           requestToNode'[r] # NoNode => /\ requestToNode'[r] = node'[r]
                                         /\ pc'[r] \in {"waiting", "releasing", "done"}
    PROVE  Tracks'
BY DEF Tracks, TrackedIsCurrent

LEMMA NextAttemptFrame ==
    ASSUME TypeOK, NEW r \in Requests, NextAttempt(r) \/ Succeed(r)
    PROVE  \A q \in Requests : q # r => node'[q] = node[q] /\ pc'[q] = pc[q]
BY DEF NextAttempt, Succeed, Goto, TypeOK

LEMMA ReactTracks ==
    ASSUME TypeOK, Tracks, NEW r \in Requests, NEW type, React(type, r), ActiveIsTracked',
           requestToNode'[r] = NoNode,
           \A q \in Requests : q # r => requestToNode'[q] = requestToNode[q]
    PROVE  Tracks'
<1>1. \A q \in Requests : q # r => node'[q] = node[q] /\ pc'[q] = pc[q]
  BY NextAttemptFrame DEF React, handler
<1> QED  BY <1>1, MoveTracks

LEMMA HandlerStepTracks ==
    ASSUME TypeOK, Tracks, NEW r \in Requests,
           \/ Begin(r) \/ Denied(r) \/ Unsent(r) \/ Leave(r) \/ Timeout(r) \/ ClientGone(r)
    PROVE  Tracks'
<1>1. CASE Begin(r) \/ Denied(r) \/ Leave(r) \/ ClientGone(r)
  <2>1. UNCHANGED <<node, activeRequests, requestToNode>>
    BY <1>1 DEF Begin, Denied, Leave, ClientGone, tracking
  <2>2. ActiveIsTracked'
    BY <2>1 DEF Tracks, ActiveIsTracked
  <2>3. \A q \in Requests : q # r => pc'[q] = pc[q]
    BY <1>1 DEF Begin, Denied, Leave, ClientGone, Goto, TypeOK
  <2>4. requestToNode[r] # NoNode => pc[r] \in {"waiting", "releasing", "done"}
    BY DEF Tracks, TrackedIsCurrent
  <2>5. requestToNode[r] # NoNode => pc'[r] \in {"waiting", "releasing", "done"}
    BY <1>1, <2>4 DEF Begin, Denied, Leave, ClientGone, Goto, TypeOK
  <2>6. requestToNode[r] # NoNode => requestToNode[r] = node[r]
    BY DEF Tracks, TrackedIsCurrent
  <2> QED  BY <2>1, <2>2, <2>3, <2>5, <2>6, MoveTracks
<1>2. CASE Unsent(r)
  <2>1. NextAttempt(r) /\ pc[r] = "unsent" /\ UNCHANGED <<activeRequests, requestToNode>>
    BY <1>2 DEF Unsent, tracking
  <2>2. requestToNode[r] = NoNode
    BY <2>1 DEF Tracks, TrackedIsCurrent
  <2>3. ActiveIsTracked'
    BY <2>1 DEF Tracks, ActiveIsTracked
  <2> QED  BY <2>1, <2>2, <2>3, NextAttemptFrame, MoveTracks
<1>3. CASE Timeout(r)
  <2>1. NextAttempt(r) /\ ClearTracking(r)
    BY <1>3 DEF Timeout
  <2> QED  BY <2>1, ClearFacts, NextAttemptFrame, MoveTracks
<1> QED  BY <1>1, <1>2, <1>3

\* A request that is sent has no entries yet, so nobody else's entry is orphaned.
LEMMA SendTracks ==
    ASSUME TypeOK, Tracks, NEW r \in Requests, NEW n \in Nodes, Sent(r, n) \/ NotSent(r, n)
    PROVE  Tracks'
<1>1. /\ pc[r] = "acquiring"
      /\ node' = [node EXCEPT ![r] = n]
      /\ \A q \in Requests : q # r => node'[q] = node[q] /\ pc'[q] = pc[q]
  BY DEF Sent, NotSent, Goto, TypeOK
<1>2. requestToNode[r] = NoNode
  BY <1>1 DEF Tracks, TrackedIsCurrent
<1>3. \A m \in Nodes : activeRequests[m] # r
  BY <1>2 DEF Tracks, ActiveIsTracked
<1>4. CASE NotSent(r, n)
  <2>1. UNCHANGED <<activeRequests, requestToNode>>
    BY <1>4 DEF NotSent, tracking
  <2>2. ActiveIsTracked'
    BY <2>1 DEF Tracks, ActiveIsTracked
  <2> QED  BY <1>1, <1>2, <2>1, <2>2, MoveTracks
<1>5. CASE Sent(r, n)
  <2>1. /\ activeRequests' = [activeRequests EXCEPT ![n] = r]
        /\ requestToNode' = [requestToNode EXCEPT ![r] = n]
        /\ pc'[r] = "waiting" /\ node'[r] = n
    BY <1>5 DEF Sent, Goto, TypeOK
  <2>2. /\ activeRequests \in [Nodes -> Requests \cup {NoRequest}]
        /\ requestToNode \in [Requests -> Nodes \cup {NoNode}]
    BY DEF TypeOK
  <2>3. ASSUME NEW m \in Nodes, activeRequests'[m] # NoRequest
        PROVE  requestToNode'[activeRequests'[m]] = m
    <3>1. CASE m = n
      BY <3>1, <2>1, <2>2
    <3>2. CASE m # n
      <4>1. activeRequests'[m] = activeRequests[m] /\ activeRequests[m] # r
        BY <3>2, <2>1, <2>2, <1>3
      <4>2. activeRequests[m] \in Requests /\ requestToNode[activeRequests[m]] = m
        BY <4>1, <2>3, <2>2 DEF Tracks, ActiveIsTracked
      <4> QED  BY <4>1, <4>2, <2>1, <2>2
    <3> QED  BY <3>1, <3>2
  <2>4. ActiveIsTracked'
    BY <2>3 DEF ActiveIsTracked
  <2>5. /\ requestToNode'[r] = n
        /\ \A q \in Requests : q # r => requestToNode'[q] = requestToNode[q]
    BY <2>1, <2>2
  <2> QED  BY <1>1, <2>1, <2>4, <2>5, MoveTracks
<1> QED  BY <1>4, <1>5

LEMMA StutterTracks ==
    ASSUME Tracks, UNCHANGED <<pc, node, activeRequests, requestToNode>>
    PROVE  Tracks'
BY DEF Tracks, ActiveIsTracked, TrackedIsCurrent

LEMMA SocketTracks ==
    ASSUME Tracks, NEW n \in Nodes, Connect(n) \/ Remove(n)
    PROVE  Tracks'
BY StutterTracks DEF Connect, Remove, handler, tracking

LEMMA CloseTracks ==
    ASSUME TypeOK, Tracks, NEW n \in Nodes, NEW c \in Connections, Close(n, c)
    PROVE  Tracks'
<1> DEFINE r == activeRequests[n]
<1>1. CASE r = NoRequest
  BY <1>1, StutterTracks DEF Close, handler, tracking
<1>2. CASE r # NoRequest
  <2>1. r \in Requests /\ requestToNode[r] = n
    BY <1>2 DEF TypeOK, Tracks, ActiveIsTracked
  <2>2. ClearTracking(r)
    BY <1>2, <2>1 DEF Close, ClearTracking
  <2>3. React("node_disconnect", r)
    BY <1>2 DEF Close
  <2> QED  BY <2>1, <2>2, <2>3, ClearFacts, ReactTracks
<1> QED  BY <1>1, <1>2

LEMMA JobTracks ==
    ASSUME TypeOK, Tracks, NEW j \in Jobs, Chunk(j) \/ Reported(j) \/ \E k \in 0..j.upto : GoOn(j, k)
    PROVE  Tracks'
<1>1. CASE Chunk(j) \/ \E k \in 0..j.upto : GoOn(j, k)
  BY <1>1, StutterTracks DEF Chunk, GoOn, handler, tracking
<1>2. CASE Reported(j)
  <2>1. j.req \in Requests
    BY JobParts
  <2>2. ClearTracking(j.req)
    BY <1>2 DEF Reported
  <2>3. CASE UNCHANGED handler
    BY <2>1, <2>2, <2>3, ClearFacts, MoveTracks DEF handler
  <2>4. CASE \E t : React(t, j.req)
    BY <2>1, <2>2, <2>4, ClearFacts, ReactTracks
  <2> QED  BY <2>3, <2>4, <1>2 DEF Reported
<1> QED  BY <1>1, <1>2

LEMMA EmitTracks ==
    ASSUME TypeOK, Tracks, NEW e \in Events, Emit(e)
    PROVE  Tracks'
<1> DEFINE r == e.req
<1>0. r \in Requests /\ e.type \in {"inference_done", "inference_error"}
  BY DEF Events
<1>1. CASE pc[r] = "waiting" /\ e.type = "inference_error"
  <2>1. React(e.type, r) /\ ClearTracking(r)
    BY <1>1 DEF Emit
  <2> QED  BY <2>1, <1>0, ClearFacts, ReactTracks
<1>2. CASE pc[r] = "waiting" /\ e.type = "inference_done"
  <2>1. Succeed(r) /\ UNCHANGED <<activeRequests, requestToNode>>
    BY <1>2 DEF Emit, React, tracking
  <2>2. ActiveIsTracked'
    BY <2>1 DEF Tracks, ActiveIsTracked
  <2>3. node' = node /\ pc'[r] = "releasing"
    BY <2>1, <1>0 DEF Succeed, Goto, TypeOK
  <2>4. requestToNode[r] # NoNode => requestToNode[r] = node[r]
    BY <1>0 DEF Tracks, TrackedIsCurrent
  <2> QED  BY <2>1, <2>2, <2>3, <2>4, <1>0, NextAttemptFrame, MoveTracks
<1>3. CASE pc[r] # "waiting"
  BY <1>3, StutterTracks DEF Emit, React, handler, tracking
<1> QED  BY <1>0, <1>1, <1>2, <1>3

LEMMA TracksNext == TypeOK /\ Tracks /\ [Next]_vars => Tracks'
<1> SUFFICES ASSUME TypeOK, Tracks, [Next]_vars PROVE Tracks'
  OBVIOUS
<1>1. CASE Next
  BY <1>1, HandlerStepTracks, SendTracks, SocketTracks, CloseTracks, JobTracks, EmitTracks
     DEF Next, Acquired
<1>2. CASE UNCHANGED vars
  BY <1>2, StutterTracks DEF vars, handler, tracking
<1> QED  BY <1>1, <1>2

LEMMA TracksAlways == Spec => []Tracks
<1>1. Init => Tracks
  BY DEF Init, Tracks, ActiveIsTracked, TrackedIsCurrent
<1> QED  BY <1>1, TracksNext, TypeCorrect, PTL DEF Spec

\* However many requests share a node and however late its events are, the node's
\* entry names a request that is tracked for this very node.
THEOREM ActiveTracked == Spec => []ActiveIsTracked
BY TracksAlways, PTL DEF Tracks

\* No request is tracked for a node it has given up.
THEOREM TrackedCurrent == Spec => []TrackedIsCurrent
BY TracksAlways, PTL DEF Tracks

(* ------------------------ An answer, once ended ----------------------- *)

\* Only a handler that is through with its attempts has ended its answer.
EndedLast == \A r \in Requests : status[r] # "open" => pc[r] \in {"releasing", "done"}

\* What a handler may do to the answers: nothing to another's, and nothing at all
\* unless it is looking for a node, or waiting for one.
Restrained(r) ==
    /\ \A q \in Requests : q # r =>
          pc'[q] = pc[q] /\ status'[q] = status[q] /\ body'[q] = body[q]
    /\ status'[r] # "open" => pc'[r] \in {"releasing", "done"}
    /\ \/ pc[r] \in {"acquiring", "unsent", "waiting"}
       \/ status'[r] = status[r] /\ body'[r] = body[r]

Untouched == [\A r \in Requests : status[r] # "open" =>
                 status'[r] = status[r] /\ body'[r] = body[r]]_vars

LEMMA RestrainedSuffices ==
    ASSUME EndedLast, NEW r \in Requests, Restrained(r)
    PROVE  EndedLast' /\ Untouched
BY DEF EndedLast, Restrained, Untouched

LEMMA FrozenSuffices ==
    ASSUME EndedLast, UNCHANGED <<pc, status, body>>
    PROVE  EndedLast' /\ Untouched
BY DEF EndedLast, Untouched

LEMMA MoveRestrained ==
    ASSUME TypeOK, EndedLast, NEW r \in Requests,
           NextAttempt(r) \/ Succeed(r),
           pc[r] \in {"acquiring", "unsent", "waiting"}
    PROVE  Restrained(r)
<1>1. status[r] = "open"
  BY DEF EndedLast, TypeOK
<1>2. \A q \in Requests : q # r =>
         pc'[q] = pc[q] /\ status'[q] = status[q] /\ body'[q] = body[q]
  BY DEF NextAttempt, Succeed, Goto, Answer, TypeOK
<1>3. status'[r] # "open" => pc'[r] \in {"releasing", "done"}
  BY <1>1 DEF NextAttempt, Succeed, Goto, Answer, TypeOK
<1> QED  BY <1>2, <1>3 DEF Restrained

LEMMA ReactRestrained ==
    ASSUME TypeOK, EndedLast, NEW r \in Requests, NEW type, React(type, r)
    PROVE  EndedLast' /\ Untouched
<1>1. CASE UNCHANGED handler
  BY <1>1, FrozenSuffices DEF handler
<1>2. CASE pc[r] = "waiting"
  BY <1>2, MoveRestrained, RestrainedSuffices DEF React
<1> QED  BY <1>1, <1>2 DEF React

LEMMA HandlerStepRestrained ==
    ASSUME TypeOK, EndedLast, NEW r \in Requests,
           \/ Begin(r) \/ Denied(r) \/ Unsent(r) \/ Leave(r) \/ Timeout(r) \/ ClientGone(r)
           \/ \E n \in Nodes : Sent(r, n) \/ NotSent(r, n)
    PROVE  EndedLast' /\ Untouched
<1>1. CASE Unsent(r) \/ Timeout(r)
  BY <1>1, MoveRestrained, RestrainedSuffices DEF Unsent, Timeout
<1>2. CASE ClientGone(r)
  BY <1>2, FrozenSuffices DEF ClientGone
<1>3. CASE \/ Begin(r) \/ Denied(r) \/ Leave(r)
           \/ \E n \in Nodes : Sent(r, n) \/ NotSent(r, n)
  <2>1. PICK l \in Labels : Goto(r, l) /\ (status[r] # "open" => pc[r] \in {"releasing", "done"})
    BY <1>3 DEF Begin, Denied, Leave, Sent, NotSent, Labels, EndedLast
  <2>2. \A q \in Requests : q # r => pc'[q] = pc[q]
    BY <2>1 DEF Goto, TypeOK
  <2>3. UNCHANGED body
    BY <1>3 DEF Begin, Denied, Leave, Sent, NotSent
  <2>4. \A q \in Requests : q # r => status'[q] = status[q]
    BY <1>3 DEF Begin, Denied, Leave, Sent, NotSent, Answer, TypeOK
  <2>5. status'[r] # "open" => pc'[r] \in {"releasing", "done"}
    BY <1>3, <2>1 DEF Begin, Denied, Leave, Sent, NotSent, Goto, Answer, TypeOK
  <2>6. pc[r] = "acquiring" \/ UNCHANGED status
    BY <1>3 DEF Begin, Denied, Leave, Sent, NotSent
  <2>7. Restrained(r)
    BY <2>2, <2>3, <2>4, <2>5, <2>6 DEF Restrained
  <2> QED  BY <2>7, RestrainedSuffices
<1> QED  BY <1>1, <1>2, <1>3

LEMMA SocketRestrained ==
    ASSUME TypeOK, EndedLast, NEW n \in Nodes,
           Connect(n) \/ Remove(n) \/ \E c \in Connections : Close(n, c)
    PROVE  EndedLast' /\ Untouched
<1>1. CASE UNCHANGED handler
  BY <1>1, FrozenSuffices DEF handler
<1>2. CASE activeRequests[n] # NoRequest /\ React("node_disconnect", activeRequests[n])
  <2>1. activeRequests[n] \in Requests
    BY <1>2 DEF TypeOK
  <2> QED  BY <1>2, <2>1, ReactRestrained
<1> QED  BY <1>1, <1>2 DEF Connect, Remove, Close

LEMMA JobRestrained ==
    ASSUME TypeOK, EndedLast, NEW j \in Jobs,
           Chunk(j) \/ Reported(j) \/ \E k \in 0..j.upto : GoOn(j, k)
    PROVE  EndedLast' /\ Untouched
<1> DEFINE r == j.req
<1>1. r \in Requests
  BY JobParts
<1>2. CASE Chunk(j)
  <2>1. UNCHANGED <<pc, status>>
    BY <1>2 DEF Chunk
  <2>2. \A q \in Requests : q # r => body'[q] = body[q]
    BY <1>2 DEF Chunk, TypeOK
  <2>3. pc[r] = "waiting" \/ UNCHANGED body
    BY <1>2 DEF Chunk
  <2>4. status[r] # "open" => pc[r] \in {"releasing", "done"}
    BY <1>1 DEF EndedLast
  <2>5. Restrained(r)
    BY <1>1, <2>1, <2>2, <2>3, <2>4 DEF Restrained
  <2> QED  BY <1>1, <2>5, RestrainedSuffices
<1>3. CASE UNCHANGED handler
  BY <1>3, FrozenSuffices DEF handler
<1>4. CASE \E t : React(t, r)
  BY <1>1, <1>4, ReactRestrained
<1> QED  BY <1>2, <1>3, <1>4 DEF Reported, GoOn

LEMMA EmitRestrained ==
    ASSUME TypeOK, EndedLast, NEW e \in Events, Emit(e)
    PROVE  EndedLast' /\ Untouched
<1>1. e.req \in Requests /\ React(e.type, e.req)
  BY DEF Emit, Events
<1> QED  BY <1>1, ReactRestrained

LEMMA RestrainedNext == TypeOK /\ EndedLast /\ [Next]_vars => EndedLast' /\ Untouched
<1> SUFFICES ASSUME TypeOK, EndedLast, [Next]_vars PROVE EndedLast' /\ Untouched
  OBVIOUS
<1>1. CASE Next
  BY <1>1, HandlerStepRestrained, SocketRestrained, JobRestrained, EmitRestrained
     DEF Next, Acquired
<1>2. CASE UNCHANGED vars
  BY <1>2, FrozenSuffices DEF vars, handler
<1> QED  BY <1>1, <1>2

LEMMA EndedLastAlways == Spec => []EndedLast
<1>1. Init => EndedLast
  BY DEF Init, EndedLast
<1> QED  BY <1>1, RestrainedNext, TypeCorrect, PTL DEF Spec

\* No late chunk, event or timer changes an answer that has ended.
THEOREM AnswersStayEnded == Spec => NothingAfterTheEnd
BY EndedLastAlways, RestrainedNext, TypeCorrect, PTL DEF Spec, NothingAfterTheEnd, Untouched

(* -------------------- The contract with acquireOrQueue ---------------- *)

Phase(label) == CASE label = "new" -> "new"
                  [] label = "acquiring" -> "asking"
                  [] label = "done" -> "over"
                  [] OTHER -> "granted"

Seen == [r \in Requests |-> Phase(pc[r])]

LEMMA PhaseFacts ==
    /\ Phase("new") = "new" /\ Phase("acquiring") = "asking" /\ Phase("done") = "over"
    /\ \A l \in {"unsent", "waiting", "releasing"} : Phase(l) = "granted"
BY DEF Phase

LEMMA SeenIs == AsAcquisition!vars = <<Seen, attempt>>
BY DEF AsAcquisition!vars, Seen, Phase

LEMMA MoveSeen ==
    ASSUME pc \in [Requests -> Labels], NEW r \in Requests, NEW l, Goto(r, l)
    PROVE  /\ AsAcquisition!Move(r, Phase(pc[r]), Phase(l))
           /\ Seen' = [Seen EXCEPT ![r] = Phase(l)]
BY DEF Goto, Seen, Phase, AsAcquisition!Move

LEMMA StutterSeen ==
    ASSUME pc \in [Requests -> Labels], NEW r \in Requests, NEW l, Goto(r, l),
           Phase(l) = Phase(pc[r]), UNCHANGED attempt
    PROVE  UNCHANGED AsAcquisition!vars
<1>1. Seen' = [Seen EXCEPT ![r] = Seen[r]]
  BY MoveSeen DEF Seen
<1>2. Seen' = Seen
  BY <1>1 DEF Seen
<1> QED  BY <1>2, SeenIs DEF Seen, Phase, AsAcquisition!vars

LEMMA FrozenSeen ==
    ASSUME UNCHANGED <<pc, attempt>>
    PROVE  UNCHANGED AsAcquisition!vars
BY DEF AsAcquisition!vars

\* The attempt loop gives up, or asks again within its bound.
LEMMA NextAttemptSeen ==
    ASSUME TypeOK, NEW r \in Requests, NextAttempt(r), pc[r] \in {"unsent", "waiting"}
    PROVE  AsAcquisition!Next
<1> USE PhaseFacts
<1>0. pc \in [Requests -> Labels] /\ Phase(pc[r]) = "granted"
  BY DEF TypeOK
<1>1. CASE Goto(r, "done") /\ UNCHANGED attempt
  <2>1. AsAcquisition!End(r)
    BY <1>1, <1>0, MoveSeen DEF AsAcquisition!End
  <2> QED  BY <2>1 DEF AsAcquisition!Next
<1>2. CASE /\ Goto(r, "acquiring")
           /\ attempt[r] < MaxRetries
           /\ attempt' = [attempt EXCEPT ![r] = @ + 1]
  <2>1. AsAcquisition!AskAgain(r)
    BY <1>2, <1>0, MoveSeen DEF AsAcquisition!AskAgain
  <2> QED  BY <2>1 DEF AsAcquisition!Next
<1> QED  BY <1>1, <1>2 DEF NextAttempt

LEMMA ReactSeen ==
    ASSUME TypeOK, NEW r \in Requests, NEW type, React(type, r)
    PROVE  [AsAcquisition!Next]_(AsAcquisition!vars)
<1> USE PhaseFacts
<1>0. pc \in [Requests -> Labels]
  BY DEF TypeOK
<1>1. CASE UNCHANGED handler
  BY <1>1, FrozenSeen DEF handler
<1>2. CASE pc[r] = "waiting" /\ Succeed(r)
  BY <1>2, <1>0, StutterSeen DEF Succeed
<1>3. CASE pc[r] = "waiting" /\ NextAttempt(r)
  BY <1>3, NextAttemptSeen
<1> QED  BY <1>1, <1>2, <1>3 DEF React

LEMMA HandlerStepSeen ==
    ASSUME TypeOK, NEW r \in Requests,
           \/ Begin(r) \/ Denied(r) \/ Unsent(r) \/ Leave(r) \/ Timeout(r) \/ ClientGone(r)
           \/ \E n \in Nodes : Sent(r, n) \/ NotSent(r, n)
    PROVE  [AsAcquisition!Next]_(AsAcquisition!vars)
<1> USE PhaseFacts
<1>0. pc \in [Requests -> Labels]
  BY DEF TypeOK
<1>1. CASE Begin(r)
  <2>1. AsAcquisition!Ask(r)
    BY <1>1, <1>0, MoveSeen DEF Begin, AsAcquisition!Ask
  <2> QED  BY <2>1 DEF AsAcquisition!Next
<1>2. CASE Denied(r)
  <2>1. AsAcquisition!TurnAway(r)
    BY <1>2, <1>0, MoveSeen DEF Denied, AsAcquisition!TurnAway
  <2> QED  BY <2>1 DEF AsAcquisition!Next
<1>3. CASE Unsent(r) \/ Timeout(r)
  BY <1>3, NextAttemptSeen DEF Unsent, Timeout
<1>4. CASE Leave(r)
  <2>1. AsAcquisition!End(r)
    BY <1>4, <1>0, MoveSeen DEF Leave, AsAcquisition!End
  <2> QED  BY <2>1 DEF AsAcquisition!Next
<1>5. CASE ClientGone(r)
  BY <1>5, FrozenSeen DEF ClientGone
<1>6. CASE \E n \in Nodes : Sent(r, n) \/ NotSent(r, n)
  <2>1. PICK l \in {"waiting", "unsent"} :
           Goto(r, l) /\ pc[r] = "acquiring" /\ UNCHANGED attempt
    BY <1>6 DEF Sent, NotSent
  <2>2. AsAcquisition!Grant(r)
    BY <2>1, <1>0, MoveSeen DEF AsAcquisition!Grant
  <2> QED  BY <2>2 DEF AsAcquisition!Next
<1> QED  BY <1>1, <1>2, <1>3, <1>4, <1>5, <1>6

LEMMA SocketSeen ==
    ASSUME TypeOK, NEW n \in Nodes,
           Connect(n) \/ Remove(n) \/ \E c \in Connections : Close(n, c)
    PROVE  [AsAcquisition!Next]_(AsAcquisition!vars)
<1>1. CASE UNCHANGED handler
  BY <1>1, FrozenSeen DEF handler
<1>2. CASE activeRequests[n] # NoRequest /\ React("node_disconnect", activeRequests[n])
  <2>1. activeRequests[n] \in Requests
    BY <1>2 DEF TypeOK
  <2> QED  BY <1>2, <2>1, ReactSeen
<1> QED  BY <1>1, <1>2 DEF Connect, Remove, Close

LEMMA JobSeen ==
    ASSUME TypeOK, NEW j \in Jobs, Chunk(j) \/ Reported(j) \/ \E k \in 0..j.upto : GoOn(j, k)
    PROVE  [AsAcquisition!Next]_(AsAcquisition!vars)
<1>1. j.req \in Requests
  BY JobParts
<1>2. CASE Chunk(j)
  BY <1>2, FrozenSeen DEF Chunk
<1>3. CASE UNCHANGED handler
  BY <1>3, FrozenSeen DEF handler
<1>4. CASE \E t : React(t, j.req)
  BY <1>1, <1>4, ReactSeen
<1> QED  BY <1>2, <1>3, <1>4 DEF Reported, GoOn

LEMMA EmitSeen ==
    ASSUME TypeOK, NEW e \in Events, Emit(e)
    PROVE  [AsAcquisition!Next]_(AsAcquisition!vars)
<1>1. e.req \in Requests /\ React(e.type, e.req)
  BY DEF Emit, Events
<1> QED  BY <1>1, ReactSeen

\* The gateway never acquires twice at a time, nor more often than it may, nor
\* after a request is over: the safety half of AcquiresInTurn.
THEOREM KeepsContract == Spec => AsAcquisition!Init /\ [][AsAcquisition!Next]_(AsAcquisition!vars)
<1>1. Init => AsAcquisition!Init
  BY DEF Init, AsAcquisition!Init
<1>2. TypeOK /\ [Next]_vars => [AsAcquisition!Next]_(AsAcquisition!vars)
  <2> SUFFICES ASSUME TypeOK, [Next]_vars PROVE [AsAcquisition!Next]_(AsAcquisition!vars)
    OBVIOUS
  <2>1. CASE Next
    BY <2>1, HandlerStepSeen, SocketSeen, JobSeen, EmitSeen DEF Next, Acquired
  <2>2. CASE UNCHANGED vars
    BY <2>2, FrozenSeen DEF vars, handler
  <2> QED  BY <2>1, <2>2
<1> QED  BY <1>1, <1>2, TypeCorrect, PTL DEF Spec

(* -------------------- Chunks, and the end of an answer ---------------- *)

\* The attempt of r with this number has asked a node, or will not any more.
Used(r, run) ==
    \/ run < attempt[r]
    \/ run = attempt[r] /\ pc[r] \notin {"new", "acquiring"}

\* The chunks that r is sent now are added to its answer.
Listening(r) == pc[r] = "waiting" /\ (r \in Streaming => client[r])

\* The first k chunks of what was computed for an attempt are in the answer, but for those
\* left behind; they are it.
Has(r, run, k) ==
    \A p \in 1..k :
        LeftBehind(r, run, p) \/ \E i \in 1..Len(body[r]) : body[r][i] = [run |-> run, part |-> p]
First(k) == [p \in 1..k |-> [run |-> 0, part |-> p]]

\* No chunk of the first attempt has been left behind.
NoneBehind(r) == \A p \in 1..Chunks[r] : ~LeftBehind(r, 0, p)

\* Two jobs hold pieces of one inference; the end of it is in one of them at most, and what
\* is unread of the other was sent before.
Same(j, k) == j.req = k.req /\ j.run = k.run
Apart(j, k) == \/ ~j.ends /\ j.upto <= k.sent
               \/ ~k.ends /\ k.upto <= j.sent

\* A job holds the rest of its answer, or chunks that were left behind.
Kept(j) ==
    IF j.ends THEN j.upto = Chunks[j.req]
    ELSE \A p \in (j.sent + 1)..j.upto : LeftBehind(j.req, j.run, p)

\* Chunk p does not come on j's connection any more, or never will.
Passed(j, p) == p <= j.sent \/ (~j.ends /\ j.upto < p)

\* There is at most one inference for an attempt, of an attempt that was made, and the
\* pieces of it do not overlap.
JobsInv ==
    /\ \A j \in jobs : Used(j.req, j.run) /\ Kept(j)
    /\ \A j, k \in jobs : Same(j, k) => j = k \/ Apart(j, k)
    /\ \A e \in marking : Used(e.req, e.run)

\* A chunk in an answer is of an attempt that was made, and is not on its way any more.
TokensInv ==
    \A r \in Requests : \A i \in 1..Len(body[r]) :
        /\ Used(r, body[r][i].run)
        /\ \A j \in jobs : j.req = r /\ j.run = body[r][i].run => Passed(j, body[r][i].part)

\* The current attempt has everything its inference has sent, but what was left behind.
WholeInv ==
    /\ \A j \in jobs :
          j.ends /\ j.run = attempt[j.req] /\ Listening(j.req) => Has(j.req, j.run, j.sent)
    /\ \A e \in marking :
          e.type = "inference_done" /\ e.run = attempt[e.req] /\ Listening(e.req) =>
              Has(e.req, e.run, Chunks[e.req])

\* The first attempt has nothing else, and has it in order unless something was left behind.
FirstInv ==
    /\ \A r \in Requests : attempt[r] = 0 /\ pc[r] \in {"new", "acquiring"} => body[r] = <<>>
    /\ \A j \in jobs :
          j.ends /\ attempt[j.req] = 0 /\ Listening(j.req) /\ NoneBehind(j.req) =>
              body[j.req] = First(j.sent)
    /\ \A e \in marking :
          e.type = "inference_done" /\ attempt[e.req] = 0 /\ Listening(e.req) /\ NoneBehind(e.req) =>
              body[e.req] = First(Chunks[e.req])

ChunkInv == JobsInv /\ TokensInv /\ WholeInv /\ FirstInv

\* A request other than r is where it was.
Others(r) ==
    \A q \in Requests : q # r => /\ pc'[q] = pc[q] /\ attempt'[q] = attempt[q]
                                 /\ client'[q] = client[q] /\ body'[q] = body[q]
                                 /\ status'[q] = status[q]

\* What a handler does besides taking a chunk: it stays at its attempt, or begins the next.
GoesOn(r) ==
    /\ client'[r] => client[r]
    /\ \/ /\ attempt'[r] = attempt[r]
          /\ pc[r] \notin {"new", "acquiring"} => pc'[r] \notin {"new", "acquiring"}
          /\ pc'[r] = "waiting" => pc[r] \in {"waiting", "acquiring"}
          /\ body'[r] = body[r] \/ (body'[r] = <<>> /\ pc'[r] = "done")
       \/ /\ attempt'[r] = attempt[r] + 1
          /\ pc[r] \notin {"new", "acquiring"} /\ pc'[r] = "acquiring"
          /\ body'[r] \in {body[r], <<>>}

\* Nothing is added to what is on its way.
Calm(r) == /\ Others(r) /\ GoesOn(r)
           /\ jobs' \subseteq jobs
           /\ marking' \subseteq marking
           /\ behind' = behind

LEMMA UsedStays ==
    ASSUME TypeOK, NEW r \in Requests, Others(r), GoesOn(r),
           NEW q \in Requests, NEW run \in Int, Used(q, run)
    PROVE  Used(q, run)'
<1>1. attempt[q] \in Int
  BY DEF TypeOK
<1>2. CASE q = r
  BY <1>1, <1>2 DEF GoesOn, Used
<1>3. CASE q # r
  BY <1>3 DEF Others, Used
<1> QED  BY <1>2, <1>3

LEMMA EventParts ==
    ASSUME NEW e \in Events
    PROVE  e.req \in Requests /\ e.run \in 0..MaxRetries /\ e.type \in {"inference_done", "inference_error"}
BY DEF Events

LEMMA TokenParts ==
    ASSUME TypeOK, NEW r \in Requests, NEW i \in 1..Len(body[r])
    PROVE  body[r][i].run \in 0..MaxRetries /\ body[r][i].part \in Nat \ {0}
<1>1. body[r] \in Seq(Tokens)
  BY DEF TypeOK
<1>2. body[r][i] \in Tokens
  BY <1>1
<1> QED  BY <1>2 DEF Tokens

LEMMA BehindStays ==
    ASSUME behind' = behind
    PROVE  /\ \A r, run, p : LeftBehind(r, run, p)' <=> LeftBehind(r, run, p)
           /\ \A r : NoneBehind(r)' <=> NoneBehind(r)
           /\ \A j : Kept(j)' <=> Kept(j)
BY DEF LeftBehind, NoneBehind, Kept

LEMMA CalmJobs ==
    ASSUME TypeOK, JobsInv, NEW r \in Requests, Calm(r)
    PROVE  JobsInv'
<1>1. ASSUME NEW j \in jobs' PROVE Used(j.req, j.run)' /\ Kept(j)'
  <2>1. j \in jobs /\ j \in Jobs
    BY <1>1 DEF Calm, TypeOK
  <2>2. j.req \in Requests /\ j.run \in Int /\ Used(j.req, j.run) /\ Kept(j)
    BY <2>1, JobParts DEF JobsInv
  <2> QED  BY <2>2, UsedStays, BehindStays DEF Calm
<1>2. ASSUME NEW e \in marking' PROVE Used(e.req, e.run)'
  <2>1. e \in marking /\ e \in Events
    BY <1>2 DEF Calm, TypeOK
  <2>2. e.req \in Requests /\ e.run \in Int /\ Used(e.req, e.run)
    BY <2>1, EventParts DEF JobsInv
  <2> QED  BY <2>2, UsedStays DEF Calm
<1>3. \A j, k \in jobs' : Same(j, k) => j = k \/ Apart(j, k)
  BY DEF Calm, JobsInv
<1> QED  BY <1>1, <1>2, <1>3 DEF JobsInv, Same, Apart

LEMMA CalmTokens ==
    ASSUME TypeOK, TokensInv, NEW r \in Requests, Calm(r)
    PROVE  TokensInv'
<1>1. ASSUME NEW q \in Requests, NEW i \in 1..Len(body'[q])
      PROVE  body'[q] = body[q] /\ i \in 1..Len(body[q])
  <2>1. body'[q] = body[q] \/ body'[q] = <<>>
    BY DEF Calm, Others, GoesOn
  <2>2. body'[q] # <<>>
    <3>1. Len(<<>>) = 0
      OBVIOUS
    <3> QED  BY <1>1, <3>1
  <2> QED  BY <1>1, <2>1, <2>2
<1>2. ASSUME NEW q \in Requests, NEW i \in 1..Len(body[q]), body'[q] = body[q]
      PROVE  Used(q, body[q][i].run)'
  <2>1. Used(q, body[q][i].run) /\ body[q][i].run \in Int
    BY TokenParts DEF TokensInv
  <2>2. \A run \in Int : Used(q, run) => Used(q, run)'
    BY UsedStays DEF Calm
  <2> QED  BY <1>2, <2>1, <2>2 DEF Used
<1>3. \A q \in Requests : \A i \in 1..Len(body[q]) : \A j \in jobs' :
         j.req = q /\ j.run = body[q][i].run => Passed(j, body[q][i].part)
  BY DEF Calm, TokensInv
<1> QED  BY <1>1, <1>2, <1>3 DEF TokensInv, Used, Passed

\* Who listens after a calm step did so before, at the same attempt, or has just come to
\* wait for an inference that nobody was asked for.
LEMMA CalmListens ==
    ASSUME TypeOK, NEW r \in Requests, Calm(r), NEW q \in Requests, Listening(q)'
    PROVE  /\ attempt'[q] = attempt[q] /\ body'[q] = body[q]
           /\ Listening(q) \/ pc[q] = "acquiring"
BY DEF Calm, Others, GoesOn, Listening

LEMMA CalmWhole ==
    ASSUME TypeOK, JobsInv, WholeInv, FirstInv, NEW r \in Requests, Calm(r)
    PROVE  WholeInv' /\ FirstInv'
<1>0. /\ \A q, run, p : LeftBehind(q, run, p)' <=> LeftBehind(q, run, p)
      /\ \A q : NoneBehind(q)' <=> NoneBehind(q)
  BY BehindStays DEF Calm
<1>1. ASSUME NEW j \in jobs', j.ends, j.run = attempt'[j.req], Listening(j.req)'
      PROVE  Has(j.req, j.run, j.sent)'
  <2>1. j \in jobs /\ j.req \in Requests
    BY <1>1, JobParts DEF Calm, TypeOK
  <2>2. attempt[j.req] \in Int /\ Used(j.req, j.run)
    BY <2>1 DEF JobsInv, TypeOK
  <2>3. Listening(j.req) /\ j.run = attempt[j.req] /\ body'[j.req] = body[j.req]
    BY <1>1, <2>1, <2>2, CalmListens DEF Used
  <2>4. Has(j.req, j.run, j.sent)
    BY <1>1, <2>1, <2>3 DEF WholeInv
  <2> QED  BY <1>0, <2>3, <2>4 DEF Has
<1>2. ASSUME NEW e \in marking', e.type = "inference_done",
             e.run = attempt'[e.req], Listening(e.req)'
      PROVE  Has(e.req, e.run, Chunks[e.req])'
  <2>1. e \in marking /\ e.req \in Requests
    BY <1>2, EventParts DEF Calm, TypeOK
  <2>2. attempt[e.req] \in Int /\ Used(e.req, e.run)
    BY <2>1 DEF JobsInv, TypeOK
  <2>3. Listening(e.req) /\ e.run = attempt[e.req] /\ body'[e.req] = body[e.req]
    BY <1>2, <2>1, <2>2, CalmListens DEF Used
  <2>4. Has(e.req, e.run, Chunks[e.req])
    BY <1>2, <2>1, <2>3 DEF WholeInv
  <2> QED  BY <1>0, <2>3, <2>4 DEF Has
<1>3. ASSUME NEW q \in Requests, attempt'[q] = 0, pc'[q] \in {"new", "acquiring"}
      PROVE  body'[q] = <<>>
  <2>1. attempt[q] \in Nat
    BY DEF TypeOK
  <2>2. attempt[q] = 0 /\ pc[q] \in {"new", "acquiring"} /\ body'[q] \in {body[q], <<>>}
    BY <1>3, <2>1 DEF Calm, Others, GoesOn
  <2> QED  BY <2>2 DEF FirstInv
<1>4. ASSUME NEW j \in jobs', j.ends, attempt'[j.req] = 0, Listening(j.req)', NoneBehind(j.req)
      PROVE  body'[j.req] = First(j.sent)
  <2>1. j \in jobs /\ j.req \in Requests /\ j.run \in Nat
    BY <1>4, JobParts DEF Calm, TypeOK
  <2>2. Used(j.req, j.run)
    BY <2>1 DEF JobsInv
  <2>3. Listening(j.req) /\ attempt[j.req] = 0 /\ body'[j.req] = body[j.req]
    BY <1>4, <2>1, <2>2, CalmListens DEF Used
  <2> QED  BY <1>4, <2>1, <2>3 DEF FirstInv
<1>5. ASSUME NEW e \in marking', e.type = "inference_done", attempt'[e.req] = 0,
             Listening(e.req)', NoneBehind(e.req)
      PROVE  body'[e.req] = First(Chunks[e.req])
  <2>1. e \in marking /\ e.req \in Requests /\ e.run \in Nat
    BY <1>5, EventParts DEF Calm, TypeOK
  <2>2. Used(e.req, e.run)
    BY <2>1 DEF JobsInv
  <2>3. Listening(e.req) /\ attempt[e.req] = 0 /\ body'[e.req] = body[e.req]
    BY <1>5, <2>1, <2>2, CalmListens DEF Used
  <2> QED  BY <1>5, <2>1, <2>3 DEF FirstInv
<1>6. WholeInv'
  BY <1>1, <1>2 DEF WholeInv
<1>7. FirstInv'
  BY <1>0, <1>3, <1>4, <1>5 DEF FirstInv, First
<1> QED  BY <1>6, <1>7

LEMMA CalmInv ==
    ASSUME TypeOK, ChunkInv, NEW r \in Requests, Calm(r)
    PROVE  ChunkInv'
BY CalmJobs, CalmTokens, CalmWhole DEF ChunkInv

\* Whatever is no longer on its way, if nobody moves.
LEMMA FrozenChunks ==
    ASSUME ChunkInv, UNCHANGED <<handler, marking, behind>>, jobs' \subseteq jobs
    PROVE  ChunkInv'
<1>1. JobsInv'
  BY BehindStays DEF ChunkInv, JobsInv, Used, handler, Same, Apart
<1>2. TokensInv'
  BY DEF ChunkInv, TokensInv, Used, Passed, handler
<1>3. WholeInv'
  BY BehindStays DEF ChunkInv, WholeInv, Listening, Has, handler
<1>4. FirstInv'
  BY BehindStays DEF ChunkInv, FirstInv, Listening, First, handler
<1> QED  BY <1>1, <1>2, <1>3, <1>4 DEF ChunkInv

LEMMA NextAttemptGoesOn ==
    ASSUME TypeOK, NEW r \in Requests, NextAttempt(r), pc[r] \in {"unsent", "waiting"}
    PROVE  Others(r) /\ GoesOn(r)
<1>1. /\ pc \in [Requests -> Labels] /\ attempt \in [Requests -> 0..MaxRetries]
      /\ body \in [Requests -> Seq(Tokens)] /\ status \in [Requests -> {"open", "success", "error"}]
  BY DEF TypeOK
<1>2. Others(r)
  BY <1>1 DEF NextAttempt, Goto, Answer, Others
<1>3. body'[r] \in {body[r], <<>>}
  BY <1>1 DEF NextAttempt
<1>4. client'[r] = client[r]
  BY DEF NextAttempt
<1>5. \/ attempt'[r] = attempt[r] /\ pc'[r] = "done"
      \/ attempt'[r] = attempt[r] + 1 /\ pc'[r] = "acquiring"
  BY <1>1 DEF NextAttempt, Goto
<1> QED  BY <1>2, <1>3, <1>4, <1>5 DEF GoesOn

LEMMA MoveGoesOn ==
    ASSUME TypeOK, NEW r \in Requests, NEW label, Goto(r, label),
           UNCHANGED <<attempt, client, body>>,
           status' = status \/ \E s : Answer(r, s),
           pc[r] \notin {"new", "acquiring"} => label \notin {"new", "acquiring"},
           label = "waiting" => pc[r] = "acquiring"
    PROVE  Others(r) /\ GoesOn(r)
<1>1. pc \in [Requests -> Labels] /\ status \in [Requests -> {"open", "success", "error"}]
  BY DEF TypeOK
<1>2. Others(r)
  BY <1>1 DEF Goto, Answer, Others
<1>3. pc'[r] = label
  BY <1>1 DEF Goto
<1> QED  BY <1>2, <1>3 DEF GoesOn

LEMMA FrozenGoesOn ==
    ASSUME NEW r \in Requests, UNCHANGED handler
    PROVE  Others(r) /\ GoesOn(r)
<1>1. UNCHANGED <<pc, attempt, client, body, status>>
  BY DEF handler
<1>2. Others(r)
  BY <1>1 DEF Others
<1>3. client'[r] => client[r]
  BY <1>1, Zenon
<1> QED  BY <1>1, <1>2, <1>3 DEF GoesOn

LEMMA ReactGoesOn ==
    ASSUME TypeOK, NEW r \in Requests, NEW type, React(type, r)
    PROVE  Others(r) /\ GoesOn(r)
<1>1. CASE UNCHANGED handler
  BY <1>1, FrozenGoesOn
<1>2. CASE pc[r] = "waiting" /\ Succeed(r)
  BY <1>2, MoveGoesOn DEF Succeed
<1>3. CASE pc[r] = "waiting" /\ NextAttempt(r)
  BY <1>3, NextAttemptGoesOn
<1> QED  BY <1>1, <1>2, <1>3 DEF React

LEMMA HandlerStepGoesOn ==
    ASSUME TypeOK, NEW r \in Requests,
           \/ Begin(r) \/ Denied(r) \/ Unsent(r) \/ Leave(r) \/ Timeout(r) \/ ClientGone(r)
           \/ \E n \in Nodes : NotSent(r, n)
    PROVE  Others(r) /\ GoesOn(r)
<1>1. CASE Begin(r)
  BY <1>1, MoveGoesOn DEF Begin
<1>2. CASE Leave(r)
  BY <1>2, MoveGoesOn DEF Leave
<1>3. CASE Denied(r)
  BY <1>3, MoveGoesOn DEF Denied
<1>4. CASE Unsent(r) \/ Timeout(r)
  BY <1>4, NextAttemptGoesOn DEF Unsent, Timeout
<1>5. CASE ClientGone(r)
  <2>1. client \in [Requests -> BOOLEAN]
    BY DEF TypeOK
  <2>2. Others(r)
    BY <1>5, <2>1 DEF ClientGone, Others
  <2>3. client'[r] = FALSE
    BY <1>5, <2>1 DEF ClientGone
  <2> QED  BY <1>5, <2>2, <2>3 DEF ClientGone, GoesOn
<1>6. CASE \E n \in Nodes : NotSent(r, n)
  BY <1>6, MoveGoesOn DEF NotSent
<1> QED  BY <1>1, <1>2, <1>3, <1>4, <1>5, <1>6

LEMMA HandlerStepChunks ==
    ASSUME TypeOK, ChunkInv, NEW r \in Requests,
           \/ Begin(r) \/ Denied(r) \/ Unsent(r) \/ Leave(r) \/ Timeout(r) \/ ClientGone(r)
           \/ \E n \in Nodes : NotSent(r, n)
    PROVE  ChunkInv'
<1>1. UNCHANGED <<marking, jobs, behind>>
  BY DEF Begin, Denied, Unsent, Leave, Timeout, ClientGone, NotSent, channel
<1> QED  BY <1>1, HandlerStepGoesOn, CalmInv DEF Calm

LEMMA SocketChunks ==
    ASSUME TypeOK, ChunkInv, NEW n \in Nodes,
           Connect(n) \/ Remove(n) \/ \E c \in Connections : Close(n, c)
    PROVE  ChunkInv'
<1>1. marking' = marking /\ behind' = behind /\ jobs' \subseteq jobs
  BY DEF Close, Connect, Remove
<1>2. CASE UNCHANGED handler
  BY <1>1, <1>2, FrozenChunks
<1>3. CASE activeRequests[n] # NoRequest /\ React("node_disconnect", activeRequests[n])
  <2>1. activeRequests[n] \in Requests
    BY <1>3 DEF TypeOK
  <2> QED  BY <1>1, <1>3, <2>1, ReactGoesOn, CalmInv DEF Calm
<1> QED  BY <1>2, <1>3 DEF Close, Connect, Remove

LEMMA EmitChunks ==
    ASSUME TypeOK, ChunkInv, NEW e \in Events, Emit(e)
    PROVE  ChunkInv'
<1>1. /\ marking' \subseteq marking /\ jobs' = jobs /\ behind' = behind
      /\ React(e.type, e.req) /\ e.req \in Requests
  BY EventParts DEF Emit, channel
<1> QED  BY <1>1, ReactGoesOn, CalmInv DEF Calm

(* Sent: the attempt's inference is new, and the attempt has got nothing so far. *)

LEMMA SentNew ==
    ASSUME TypeOK, ChunkInv, NEW r \in Requests, NEW n \in Nodes, Sent(r, n)
    PROVE  /\ Others(r) /\ GoesOn(r)
           /\ \A j \in jobs : ~(j.req = r /\ j.run = attempt[r])
           /\ \A e \in marking : ~(e.req = r /\ e.run = attempt[r])
           /\ \A i \in 1..Len(body[r]) : body[r][i].run # attempt[r]
           /\ Used(r, attempt[r])'
<1>1. Others(r) /\ GoesOn(r)
  BY MoveGoesOn DEF Sent
<1>2. ~Used(r, attempt[r])
  BY DEF Used, Sent, TypeOK
<1>3. pc'[r] = "waiting" /\ attempt' = attempt
  BY DEF Sent, Goto, TypeOK
<1>4. Used(r, attempt[r])'
  BY <1>3 DEF Used
<1> QED  BY <1>1, <1>2, <1>4 DEF ChunkInv, JobsInv, TokensInv

LEMMA SentInv ==
    ASSUME TypeOK, ChunkInv, NEW r \in Requests, NEW n \in Nodes, Sent(r, n)
    PROVE  ChunkInv'
<1> DEFINE new == [req |-> r, run |-> attempt[r], node |-> n, on |-> local[n],
                   sent |-> 0, upto |-> Chunks[r], ends |-> TRUE]
<1>1. jobs' = jobs \cup {new}
  BY DEF Sent
<1>2. marking' = marking /\ attempt' = attempt /\ body' = body /\ client' = client
  BY DEF Sent
<1>3. new.req = r /\ new.run = attempt[r] /\ new.sent = 0 /\ new.upto = Chunks[r] /\ new.ends
  OBVIOUS
<1>4. \A j \in jobs : j \in Jobs
  BY DEF TypeOK
<1>5. \A q \in Requests : q # r => pc'[q] = pc[q] /\ (Listening(q)' <=> Listening(q))
  BY <1>2, SentNew DEF Others, Listening
<1>6. /\ \A q, run, p : LeftBehind(q, run, p)' <=> LeftBehind(q, run, p)
      /\ \A q : NoneBehind(q)' <=> NoneBehind(q)
      /\ \A j : Kept(j)' <=> Kept(j)
  BY BehindStays DEF Sent
<1> HIDE DEF new
<1>7. JobsInv'
  <2>1. ASSUME NEW j \in jobs' PROVE Used(j.req, j.run)' /\ Kept(j)'
    <3>1. CASE j \in jobs
      <4>1. j.req \in Requests /\ j.run \in Int /\ Used(j.req, j.run) /\ Kept(j)
        BY <1>4, <3>1, JobParts DEF ChunkInv, JobsInv
      <4> QED  BY <1>6, <4>1, UsedStays, SentNew
    <3>2. CASE j = new
      <4>1. Used(j.req, j.run)'
        BY <1>2, <1>3, <3>2, SentNew DEF Used
      <4>2. Kept(j)
        BY <1>3, <3>2 DEF Kept
      <4> QED  BY <1>6, <4>1, <4>2
    <3> QED  BY <1>1, <2>1, <3>1, <3>2
  <2>2. ASSUME NEW e \in marking' PROVE Used(e.req, e.run)'
    <3>1. e.req \in Requests /\ e.run \in Int /\ Used(e.req, e.run)
      BY <1>2, <2>2, EventParts DEF ChunkInv, JobsInv, TypeOK
    <3> QED  BY <3>1, UsedStays, SentNew
  <2>3. \A i, j \in jobs' : Same(i, j) => i = j \/ Apart(i, j)
    BY <1>1, <1>3, SentNew DEF ChunkInv, JobsInv, Same
  <2> QED  BY <2>1, <2>2, <2>3 DEF JobsInv, Same, Apart
<1>8. TokensInv'
  <2>1. ASSUME NEW q \in Requests, NEW i \in 1..Len(body[q]) PROVE Used(q, body[q][i].run)'
    <3>1. Used(q, body[q][i].run) /\ body[q][i].run \in Int
      BY TokenParts DEF ChunkInv, TokensInv
    <3>2. \A run \in Int : Used(q, run) => Used(q, run)'
      BY UsedStays, SentNew
    <3> QED  BY <1>2, <3>1, <3>2 DEF Used
  <2>2. ASSUME NEW q \in Requests, NEW i \in 1..Len(body[q]), NEW j \in jobs',
               j.req = q, j.run = body[q][i].run
        PROVE  Passed(j, body[q][i].part)
    BY <1>1, <1>3, <2>2, SentNew DEF ChunkInv, TokensInv
  <2> QED  BY <1>2, <2>1, <2>2 DEF TokensInv, Passed
<1>9. WholeInv'
  <2>1. ASSUME NEW j \in jobs', j.ends, j.run = attempt[j.req], Listening(j.req)'
        PROVE  Has(j.req, j.run, j.sent)
    <3>1. CASE j \in jobs
      BY <1>4, <1>5, <2>1, <3>1, SentNew, JobParts DEF ChunkInv, WholeInv
    <3>2. CASE j = new
      BY <1>3, <3>2 DEF Has
    <3> QED  BY <1>1, <2>1, <3>1, <3>2
  <2>2. ASSUME NEW e \in marking, e.type = "inference_done", e.run = attempt[e.req], Listening(e.req)'
        PROVE  Has(e.req, e.run, Chunks[e.req])
    <3>1. e.req \in Requests /\ e.req # r
      BY <2>2, EventParts, SentNew DEF TypeOK
    <3> QED  BY <1>5, <2>2, <3>1 DEF ChunkInv, WholeInv
  <2> QED  BY <1>2, <1>6, <2>1, <2>2 DEF WholeInv, Has
<1>10. FirstInv'
  <2>1. ASSUME NEW q \in Requests, attempt[q] = 0, pc'[q] \in {"new", "acquiring"}
        PROVE  body[q] = <<>>
    <3>1. pc'[r] = "waiting"
      BY DEF Sent, Goto, TypeOK
    <3> QED  BY <1>5, <2>1, <3>1 DEF ChunkInv, FirstInv
  <2>2. ASSUME NEW j \in jobs', j.ends, attempt[j.req] = 0, Listening(j.req)', NoneBehind(j.req)
        PROVE  body[j.req] = First(j.sent)
    <3>1. CASE j \in jobs /\ j.req # r
      BY <1>4, <1>5, <2>2, <3>1, JobParts DEF ChunkInv, FirstInv
    <3>2. CASE j \in jobs /\ j.req = r
      <4>1. j.run \in Nat /\ Used(r, j.run) /\ pc[r] = "acquiring"
        BY <1>4, <3>2, JobParts DEF ChunkInv, JobsInv, Sent
      <4> QED  BY <2>2, <3>2, <4>1 DEF Used
    <3>3. CASE j = new
      <4>1. body[r] = <<>>
        BY <1>3, <2>2, <3>3 DEF ChunkInv, FirstInv, Sent
      <4>2. First(0) = <<>>
        BY DEF First
      <4> QED  BY <1>3, <3>3, <4>1, <4>2
    <3> QED  BY <1>1, <2>2, <3>1, <3>2, <3>3
  <2>3. ASSUME NEW e \in marking, e.type = "inference_done", attempt[e.req] = 0,
               Listening(e.req)', NoneBehind(e.req)
        PROVE  body[e.req] = First(Chunks[e.req])
    <3>1. e.req \in Requests /\ e.run \in Nat /\ Used(e.req, e.run)
      BY <2>3, EventParts DEF ChunkInv, JobsInv, TypeOK
    <3>2. e.req # r
      BY <2>3, <3>1, SentNew DEF Used, Sent
    <3> QED  BY <1>5, <2>3, <3>1, <3>2 DEF ChunkInv, FirstInv
  <2> QED  BY <1>2, <1>6, <2>1, <2>2, <2>3 DEF FirstInv, First
<1> QED  BY <1>7, <1>8, <1>9, <1>10 DEF ChunkInv

(* Reported: what is marked as done had everything sent. *)

LEMMA ReportedInv ==
    ASSUME TypeOK, ChunkInv, NEW j \in Jobs, Reported(j)
    PROVE  ChunkInv'
<1>1. j.req \in Requests /\ j.run \in 0..MaxRetries /\ j \in jobs /\ j.ends
  BY JobParts DEF Reported
<1>2. jobs' \subseteq jobs /\ behind' = behind
  BY DEF Reported
<1>3. CASE marking' = marking /\ \E t : React(t, j.req)
  BY <1>1, <1>2, <1>3, ReactGoesOn, CalmInv DEF Calm
<1>4. ASSUME NEW e \in Events, marking' = marking \cup {e}, UNCHANGED handler,
             e.req = j.req, e.run = j.run, e.type = "inference_done" => j.sent = Chunks[j.req]
      PROVE  ChunkInv'
  <2>1. UNCHANGED <<pc, attempt, client, body>>
    BY <1>4 DEF handler
  <2>2. JobsInv'
    BY <1>1, <1>2, <1>4, <2>1, BehindStays DEF ChunkInv, JobsInv, Used, Same, Apart
  <2>3. TokensInv'
    BY <1>2, <2>1 DEF ChunkInv, TokensInv, Used, Passed
  <2>4. WholeInv'
    <3>1. \A k \in jobs' :
             k.ends /\ k.run = attempt[k.req] /\ Listening(k.req) => Has(k.req, k.run, k.sent)
      BY <1>2 DEF ChunkInv, WholeInv
    <3>2. \A f \in marking' :
             f.type = "inference_done" /\ f.run = attempt[f.req] /\ Listening(f.req) =>
                 Has(f.req, f.run, Chunks[f.req])
      BY <1>1, <1>4 DEF ChunkInv, WholeInv
    <3>3. \A q : Listening(q)' <=> Listening(q)
      BY <2>1 DEF Listening
    <3>4. \A q, run, k : Has(q, run, k)' <=> Has(q, run, k)
      BY <1>2, <2>1, BehindStays DEF Has
    <3> QED  BY <2>1, <3>1, <3>2, <3>3, <3>4 DEF WholeInv
  <2>5. FirstInv'
    <3>1. \A f \in marking' :
             f.type = "inference_done" /\ attempt[f.req] = 0 /\ Listening(f.req) /\ NoneBehind(f.req) =>
                 body[f.req] = First(Chunks[f.req])
      BY <1>1, <1>4 DEF ChunkInv, FirstInv
    <3>2. \A q : Listening(q)' <=> Listening(q)
      BY <2>1 DEF Listening
    <3>3. \A q : NoneBehind(q)' <=> NoneBehind(q)
      BY <1>2, BehindStays
    <3> QED  BY <1>2, <2>1, <3>1, <3>2, <3>3 DEF ChunkInv, FirstInv, First
  <2> QED  BY <2>2, <2>3, <2>4, <2>5 DEF ChunkInv
<1>5. ASSUME NEW t \in {"inference_done", "inference_error"},
             t = "inference_done" => j.sent = Chunks[j.req],
             marking' = marking \cup {[type |-> t, req |-> j.req, run |-> j.run]},
             UNCHANGED handler
      PROVE  ChunkInv'
  <2>1. [type |-> t, req |-> j.req, run |-> j.run] \in Events
    BY <1>1 DEF Events
  <2> QED  BY <1>4, <1>5, <2>1
<1> QED  BY <1>3, <1>5 DEF Reported

(* Chunk: its connection has brought one more, and who listens has one more. *)

LEMMA ChunkStep ==
    ASSUME TypeOK, ChunkInv, NEW j \in Jobs, Chunk(j)
    PROVE  LET more == [j EXCEPT !.sent = @ + 1]
               token == [run |-> j.run, part |-> j.sent + 1]
           IN  /\ j.req \in Requests /\ j \in jobs /\ j.sent < j.upto
               /\ UNCHANGED <<pc, attempt, client, status, marking, behind>>
               /\ \A k \in jobs' : (k \in jobs /\ k # j) \/ k = more
               /\ \A q \in Requests :
                     \/ body'[q] = body[q] /\ ~(q = j.req /\ Listening(q))
                     \/ q = j.req /\ Listening(q) /\ body'[q] = Append(body[q], token)
<1>1. j.req \in Requests
  BY JobParts
<1>2. j \in jobs /\ j.sent < j.upto /\ \A k \in jobs' : (k \in jobs /\ k # j) \/ k = [j EXCEPT !.sent = @ + 1]
  BY DEF Chunk, Read
<1>3. UNCHANGED <<pc, attempt, client, status, marking, behind>>
  BY DEF Chunk
<1>4. ASSUME NEW q \in Requests
      PROVE  \/ body'[q] = body[q] /\ ~(q = j.req /\ Listening(q))
             \/ /\ q = j.req /\ Listening(q)
                /\ body'[q] = Append(body[q], [run |-> j.run, part |-> j.sent + 1])
  BY <1>1 DEF Chunk, Listening, TypeOK
<1> QED  BY <1>1, <1>2, <1>3, <1>4

\* An answer to which a chunk was added.
LEMMA Appended ==
    ASSUME TypeOK, NEW r \in Requests, NEW token \in Tokens, body'[r] = Append(body[r], token)
    PROVE  /\ Len(body[r]) \in Nat /\ Len(body'[r]) = Len(body[r]) + 1
           /\ \A i \in 1..Len(body[r]) : body'[r][i] = body[r][i]
           /\ body'[r][Len(body[r]) + 1] = token
<1>1. body[r] \in Seq(Tokens)
  BY DEF TypeOK
<1> QED  BY <1>1

LEMMA HasStays ==
    ASSUME TypeOK, NEW r \in Requests, NEW token \in Tokens, behind' = behind,
           body'[r] = body[r] \/ body'[r] = Append(body[r], token),
           NEW run, NEW k \in Nat, Has(r, run, k)
    PROVE  Has(r, run, k)'
<1>0. \A p : LeftBehind(r, run, p)' <=> LeftBehind(r, run, p)
  BY BehindStays
<1>1. CASE body'[r] = body[r]
  BY <1>0, <1>1 DEF Has
<1>2. CASE body'[r] = Append(body[r], token)
  <2>1. /\ Len(body[r]) \in Nat /\ Len(body'[r]) = Len(body[r]) + 1
        /\ \A i \in 1..Len(body[r]) : body'[r][i] = body[r][i]
    BY <1>2, Appended
  <2>2. ASSUME NEW p \in 1..k, ~LeftBehind(r, run, p)
        PROVE  \E i \in 1..Len(body'[r]) : body'[r][i] = [run |-> run, part |-> p]
    <3>1. PICK i \in 1..Len(body[r]) : body[r][i] = [run |-> run, part |-> p]
      BY <2>2 DEF Has
    <3>2. i \in 1..Len(body'[r]) /\ body'[r][i] = body[r][i]
      BY <2>1, <3>1
    <3> QED  BY <3>1, <3>2
  <2> QED  BY <1>0, <2>2 DEF Has
<1> QED  BY <1>1, <1>2

\* Of a piece that does not hold the end of its inference, what is read was left behind.
LEMMA RestBehind ==
    ASSUME TypeOK, ChunkInv, NEW j \in jobs, j.sent < j.upto, ~j.ends
    PROVE  /\ LeftBehind(j.req, j.run, j.sent + 1)
           /\ j.run = 0 => ~NoneBehind(j.req)
<1>1. j \in Jobs
  BY DEF TypeOK
<1>2. j.sent \in Nat /\ j.upto \in 0..Chunks[j.req] /\ Chunks[j.req] \in Nat
  BY <1>1, JobParts
<1>3. j.sent + 1 \in (j.sent + 1)..j.upto /\ j.sent + 1 \in 1..Chunks[j.req]
  BY <1>2
<1>4. LeftBehind(j.req, j.run, j.sent + 1)
  BY <1>3 DEF ChunkInv, JobsInv, Kept
<1> QED  BY <1>3, <1>4 DEF NoneBehind

LEMMA ChunkStepInv ==
    ASSUME TypeOK, ChunkInv, NEW j \in Jobs, Chunk(j)
    PROVE  ChunkInv'
<1> DEFINE more == [j EXCEPT !.sent = @ + 1]
           token == [run |-> j.run, part |-> j.sent + 1]
           r == j.req
<1>1. /\ r \in Requests /\ j \in jobs /\ j.sent < j.upto
      /\ UNCHANGED <<pc, attempt, client, status, marking, behind>>
  BY ChunkStep
<1>2. \A k \in jobs' : (k \in jobs /\ k # j) \/ k = more
  BY ChunkStep
<1>3. \A q \in Requests : \/ body'[q] = body[q] /\ ~(q = r /\ Listening(q))
                          \/ q = r /\ Listening(q) /\ body'[q] = Append(body[q], token)
  BY ChunkStep
<1>4. j.run \in 0..MaxRetries /\ j.sent \in Nat /\ j.upto \in Nat /\ Chunks[r] \in Nat
  BY JobParts
<1>5. token \in Tokens /\ token.run = j.run /\ token.part = j.sent + 1
  BY <1>4 DEF Tokens
<1>6. more.req = r /\ more.run = j.run /\ more.sent = j.sent + 1 /\ more.upto = j.upto /\ more.ends = j.ends
  BY <1>1, MoreIsJob
<1>7. \A k \in jobs : /\ k.req \in Requests /\ k.run \in Nat /\ k.sent \in Nat /\ k.upto \in Nat
                      /\ Used(k.req, k.run) /\ Kept(k)
                      /\ Same(j, k) => k = j \/ Apart(j, k)
  BY <1>1, JobParts DEF TypeOK, ChunkInv, JobsInv
<1>8. \A q \in Requests : (Listening(q)' <=> Listening(q))
  BY <1>1 DEF Listening
<1>9. \A q \in Requests : \A run : Used(q, run)' <=> Used(q, run)
  BY <1>1 DEF Used
<1>10. /\ \A q : NoneBehind(q)' <=> NoneBehind(q)
       /\ \A k : Kept(k)' <=> Kept(k)
  BY <1>1, BehindStays
<1>11. Used(r, j.run) /\ Kept(j)
  BY <1>1, <1>7
<1> HIDE DEF more, token
<1>12. JobsInv'
  <2>1. ASSUME NEW k \in jobs' PROVE Used(k.req, k.run) /\ Kept(k)
    <3>1. CASE k \in jobs
      BY <1>7, <3>1
    <3>2. CASE k = more
      <4>1. Kept(more)
        BY <1>4, <1>6, <1>11 DEF Kept
      <4> QED  BY <1>6, <1>11, <3>2, <4>1
    <3> QED  BY <1>2, <2>1, <3>1, <3>2
  <2>2. ASSUME NEW i \in jobs', NEW k \in jobs', Same(i, k), i # k PROVE Apart(i, k)
    <3>1. CASE i \in jobs /\ k \in jobs
      BY <2>2, <3>1 DEF ChunkInv, JobsInv
    <3>2. ASSUME NEW m \in jobs, m # j, Same(j, m) PROVE Apart(more, m) /\ Apart(m, more)
      <4>1. Apart(j, m) /\ m.upto \in Nat
        BY <1>7, <3>2
      <4> QED  BY <1>4, <1>6, <4>1 DEF Apart
    <3>3. CASE i = more \/ k = more
      BY <1>2, <1>6, <2>2, <3>2, <3>3 DEF Same
    <3> QED  BY <1>2, <2>2, <3>1, <3>3
  <2>3. \A e \in marking : Used(e.req, e.run) /\ e.req \in Requests
    BY EventParts DEF ChunkInv, JobsInv, TypeOK
  <2>4. \A k \in jobs' : k.req \in Requests
    BY <1>1, <1>2, <1>6, <1>7
  <2> QED  BY <1>1, <1>9, <1>10, <2>1, <2>2, <2>3, <2>4 DEF JobsInv, Same, Apart
<1>13. TokensInv'
  <2>1. ASSUME NEW q \in Requests, NEW i \in 1..Len(body'[q])
        PROVE  \/ i \in 1..Len(body[q]) /\ body'[q][i] = body[q][i]
               \/ q = r /\ body'[q][i] = token
    <3>1. CASE body'[q] = body[q]
      BY <2>1, <3>1
    <3>2. CASE q = r /\ body'[q] = Append(body[q], token)
      BY <1>5, <2>1, <3>2, Appended
    <3> QED  BY <1>3, <3>1, <3>2
  <2>2. ASSUME NEW q \in Requests, NEW i \in 1..Len(body'[q]) PROVE Used(q, body'[q][i].run)
    BY <1>5, <1>11, <2>1 DEF ChunkInv, TokensInv
  <2>3. ASSUME NEW k \in jobs', k.req = r, k.run = j.run PROVE Passed(k, j.sent + 1)
    <3>1. CASE k \in jobs /\ k # j
      BY <1>1, <1>4, <1>7, <2>3, <3>1 DEF Apart, Passed, Same
    <3>2. CASE k = more
      BY <1>4, <1>6, <3>2 DEF Passed
    <3> QED  BY <1>2, <2>3, <3>1, <3>2
  <2>4. ASSUME NEW q \in Requests, NEW i \in 1..Len(body[q]), NEW k \in jobs',
               k.req = q, k.run = body[q][i].run
        PROVE  Passed(k, body[q][i].part)
    <3>1. CASE k \in jobs
      BY <2>4, <3>1 DEF ChunkInv, TokensInv
    <3>2. CASE k = more
      <4>1. Passed(j, body[q][i].part) /\ body[q][i].part \in Nat
        BY <1>1, <1>6, <2>4, <3>2, TokenParts DEF ChunkInv, TokensInv
      <4> QED  BY <1>4, <1>6, <3>2, <4>1 DEF Passed
    <3> QED  BY <1>2, <2>4, <3>1, <3>2
  <2>5. ASSUME NEW q \in Requests, NEW i \in 1..Len(body'[q]), NEW k \in jobs',
               k.req = q, k.run = body'[q][i].run
        PROVE  Passed(k, body'[q][i].part)
    BY <1>5, <2>1, <2>3, <2>4, <2>5
  <2> QED  BY <1>1, <2>2, <2>5 DEF TokensInv, Used, Passed
<1>14. \A q \in Requests : \A run : \A k \in Nat : Has(q, run, k) => Has(q, run, k)'
  BY <1>1, <1>3, <1>5, HasStays
<1>15. WholeInv'
  <2>1. ASSUME NEW k \in jobs', k.ends, k.run = attempt[k.req], Listening(k.req)
        PROVE  Has(k.req, k.run, k.sent)'
    <3>1. CASE k \in jobs
      <4>1. Has(k.req, k.run, k.sent)
        BY <2>1, <3>1 DEF ChunkInv, WholeInv
      <4> QED  BY <1>7, <1>14, <3>1, <4>1
    <3>2. CASE k = more
      <4>1. Has(r, j.run, j.sent) /\ body'[r] = Append(body[r], token)
        BY <1>1, <1>3, <1>6, <2>1, <3>2 DEF ChunkInv, WholeInv
      <4>2. Has(r, j.run, j.sent)'
        BY <1>1, <1>4, <1>14, <4>1
      <4>3. body'[r][Len(body[r]) + 1] = [run |-> j.run, part |-> j.sent + 1]
            /\ Len(body[r]) + 1 \in 1..Len(body'[r])
        BY <1>1, <1>5, <4>1, Appended DEF token
      <4>4. \A p \in 1..(j.sent + 1) : p \in 1..j.sent \/ p = j.sent + 1
        BY <1>4
      <4>5. Has(r, j.run, j.sent + 1)'
        BY <4>2, <4>3, <4>4 DEF Has
      <4> QED  BY <1>6, <3>2, <4>5
    <3> QED  BY <1>2, <2>1, <3>1, <3>2
  <2>2. ASSUME NEW e \in marking, e.type = "inference_done", e.run = attempt[e.req], Listening(e.req)
        PROVE  Has(e.req, e.run, Chunks[e.req])'
    <3>1. e.req \in Requests /\ Chunks[e.req] \in Nat
      BY EventParts DEF TypeOK
    <3> QED  BY <1>14, <2>2, <3>1 DEF ChunkInv, WholeInv
  <2> QED  BY <1>1, <2>1, <2>2 DEF WholeInv, Listening, Has
<1>16. FirstInv'
  <2>1. ASSUME NEW q \in Requests, attempt[q] = 0, pc[q] \in {"new", "acquiring"}
        PROVE  body'[q] = <<>>
    BY <1>3, <2>1 DEF ChunkInv, FirstInv, Listening
  <2>2. ASSUME attempt[r] = 0, NoneBehind(r) PROVE j.ends /\ j.run = 0
    <3>1. j.run = 0
      BY <1>4, <1>11, <2>2 DEF Used
    <3> QED  BY <1>1, <2>2, <3>1, RestBehind
  <2>3. ASSUME NEW k \in jobs', k.ends, attempt[k.req] = 0, Listening(k.req), NoneBehind(k.req)
        PROVE  body'[k.req] = First(k.sent)
    <3>1. CASE k \in jobs /\ k # j
      <4>1. k.req \in Requests /\ k.run = 0
        BY <1>7, <2>3, <3>1 DEF Used
      <4>2. k.req # r
        BY <1>7, <2>2, <2>3, <3>1, <4>1 DEF Same, Apart
      <4> QED  BY <1>3, <2>3, <3>1, <4>1, <4>2 DEF ChunkInv, FirstInv
    <3>2. CASE k = more
      <4>1. j.run = 0 /\ j.ends
        BY <1>6, <2>2, <2>3, <3>2
      <4>2. body[r] = First(j.sent) /\ body'[r] = Append(body[r], token)
        BY <1>1, <1>3, <1>6, <2>3, <3>2, <4>1 DEF ChunkInv, FirstInv
      <4>3. First(j.sent + 1) = Append(First(j.sent), [run |-> 0, part |-> j.sent + 1])
        BY <1>4 DEF First
      <4> QED  BY <1>6, <3>2, <4>1, <4>2, <4>3 DEF token
    <3> QED  BY <1>2, <2>3, <3>1, <3>2
  <2>4. ASSUME NEW e \in marking, e.type = "inference_done", attempt[e.req] = 0,
               Listening(e.req), NoneBehind(e.req)
        PROVE  body'[e.req] = First(Chunks[e.req])
    <3>1. e.req \in Requests /\ body[e.req] = First(Chunks[e.req])
      BY <2>4, EventParts DEF TypeOK, ChunkInv, FirstInv
    <3>2. CASE e.req = r
      <4>1. j.ends /\ j.upto = Chunks[r]
        BY <1>11, <2>2, <2>4, <3>2 DEF Kept
      <4>2. First(j.sent) = First(Chunks[r])
        BY <1>1, <2>4, <3>1, <3>2, <4>1 DEF ChunkInv, FirstInv
      <4>3. Len(First(j.sent)) = j.sent /\ Len(First(Chunks[r])) = Chunks[r]
        BY <1>4 DEF First
      <4> QED  BY <1>1, <1>4, <4>1, <4>2, <4>3
    <3>3. CASE e.req # r
      BY <1>3, <3>1, <3>3
    <3> QED  BY <3>2, <3>3
  <2> QED  BY <1>1, <1>10, <2>1, <2>3, <2>4 DEF FirstInv, Listening, First
<1> QED  BY <1>12, <1>13, <1>15, <1>16 DEF ChunkInv

(* GoOn: the rest of an inference comes on another connection; nobody is sent anything. *)

LEMMA GoOnStep ==
    ASSUME TypeOK, ChunkInv, NEW j \in Jobs, NEW k \in 0..j.upto, GoOn(j, k)
    PROVE  /\ j \in jobs /\ j.ends /\ j.sent <= k
           /\ UNCHANGED <<handler, marking>>
           /\ \A q, run, p : LeftBehind(q, run, p) => LeftBehind(q, run, p)'
           /\ \A p \in (j.sent + 1)..k : LeftBehind(j.req, j.run, p)'
           /\ \E next, rest \in Jobs :
                 /\ \A i \in jobs' : (i \in jobs /\ i # j) \/ i = next \/ i = rest
                 /\ next.req = j.req /\ next.run = j.run
                 /\ next.sent = k /\ next.upto = j.upto /\ next.ends
                 /\ rest.req = j.req /\ rest.run = j.run
                 /\ rest.sent = j.sent /\ rest.upto = k /\ ~rest.ends
<1> DEFINE next == [j EXCEPT !.on = line[j.node], !.sent = k]
           rest == [j EXCEPT !.upto = k, !.ends = FALSE]
<1>1. j \in jobs /\ j.ends /\ k \in j.sent..j.upto /\ UNCHANGED <<handler, marking>>
  BY DEF GoOn
<1>2. j.sent <= k
  BY <1>1, JobParts
<1>3. /\ \A q, run, p : LeftBehind(q, run, p) => LeftBehind(q, run, p)'
      /\ \A p \in (j.sent + 1)..k : LeftBehind(j.req, j.run, p)'
  BY DEF GoOn, LeftBehind
<1>4. \A i \in jobs' : (i \in jobs /\ i # j) \/ i = next \/ i = rest
  BY DEF GoOn
<1>5. line[j.node] \in Connections
  BY JobParts DEF GoOn, TypeOK, Connections
<1>6. /\ next \in Jobs /\ rest \in Jobs
      /\ next.req = j.req /\ next.run = j.run
      /\ next.sent = k /\ next.upto = j.upto /\ next.ends = j.ends
      /\ rest.req = j.req /\ rest.run = j.run
      /\ rest.sent = j.sent /\ rest.upto = k /\ rest.ends = FALSE
  <2>1. PICK r \in Requests : j \in JobOf(r)
    BY JobsAre
  <2>2. next \in Jobs /\ rest \in Jobs
    BY <1>1, <1>5, PiecesAreJobs
  <2> QED  BY <2>1, <2>2 DEF JobOf
<1> HIDE DEF next, rest
<1> QED  BY <1>1, <1>2, <1>3, <1>4, <1>6

LEMMA GoOnInv ==
    ASSUME TypeOK, ChunkInv, NEW j \in Jobs, NEW k \in 0..j.upto, GoOn(j, k)
    PROVE  ChunkInv'
<1> DEFINE r == j.req
<1>1. /\ j \in jobs /\ j.ends /\ j.sent <= k
      /\ UNCHANGED <<pc, attempt, client, body, marking>>
      /\ \A q, run, p : LeftBehind(q, run, p) => LeftBehind(q, run, p)'
      /\ \A p \in (j.sent + 1)..k : LeftBehind(r, j.run, p)'
  BY GoOnStep DEF handler
<1>2. PICK next, rest \in Jobs :
         /\ \A i \in jobs' : (i \in jobs /\ i # j) \/ i = next \/ i = rest
         /\ next.req = r /\ next.run = j.run
         /\ next.sent = k /\ next.upto = j.upto /\ next.ends
         /\ rest.req = r /\ rest.run = j.run
         /\ rest.sent = j.sent /\ rest.upto = k /\ ~rest.ends
  BY GoOnStep
<1>3. /\ r \in Requests /\ j.run \in Nat /\ j.sent \in Nat /\ j.upto \in Nat /\ k \in Nat
      /\ k <= j.upto
  BY JobParts
<1>4. \A i \in jobs : /\ i.req \in Requests /\ i.run \in Nat /\ i.sent \in Nat /\ i.upto \in Nat
                      /\ Used(i.req, i.run) /\ Kept(i)
                      /\ Same(j, i) => i = j \/ (~i.ends /\ i.upto <= j.sent)
  BY <1>1, JobParts DEF TypeOK, ChunkInv, JobsInv, Apart
<1>5. \A q \in Requests : (Listening(q)' <=> Listening(q))
  BY <1>1 DEF Listening
<1>6. \A q \in Requests : \A run : Used(q, run)' <=> Used(q, run)
  BY <1>1 DEF Used
<1>7. Used(r, j.run) /\ j.upto = Chunks[r]
  BY <1>1, <1>4 DEF Kept
<1>8. JobsInv'
  <2>1. ASSUME NEW i \in jobs' PROVE Used(i.req, i.run)' /\ Kept(i)'
    <3>1. CASE i \in jobs
      BY <1>1, <1>4, <1>6, <3>1 DEF Kept
    <3>2. CASE i = next
      BY <1>2, <1>3, <1>6, <1>7, <3>2 DEF Kept
    <3>3. CASE i = rest
      BY <1>1, <1>2, <1>3, <1>6, <1>7, <3>3 DEF Kept
    <3> QED  BY <1>2, <2>1, <3>1, <3>2, <3>3
  <2>2. ASSUME NEW i \in jobs', NEW m \in jobs', Same(i, m), i # m PROVE Apart(i, m)
    <3>1. ASSUME NEW p \in jobs, p # j, Same(j, p)
          PROVE  Apart(next, p) /\ Apart(p, next) /\ Apart(rest, p) /\ Apart(p, rest)
      BY <1>1, <1>2, <1>3, <1>4, <3>1 DEF Apart
    <3>2. Apart(next, rest) /\ Apart(rest, next)
      BY <1>2, <1>3 DEF Apart
    <3>3. CASE i \in jobs /\ m \in jobs
      BY <2>2, <3>3 DEF ChunkInv, JobsInv
    <3>4. CASE i \in {next, rest} /\ m \in jobs /\ m # j
      BY <1>2, <2>2, <3>1, <3>4 DEF Same
    <3>5. CASE m \in {next, rest} /\ i \in jobs /\ i # j
      BY <1>2, <2>2, <3>1, <3>5 DEF Same
    <3> QED  BY <1>2, <2>2, <3>2, <3>3, <3>4, <3>5
  <2>3. ASSUME NEW e \in marking' PROVE Used(e.req, e.run)'
    <3>1. e.req \in Requests /\ Used(e.req, e.run)
      BY <1>1, <2>3, EventParts DEF ChunkInv, JobsInv, TypeOK
    <3> QED  BY <1>6, <3>1
  <2> QED  BY <2>1, <2>2, <2>3 DEF JobsInv, Same, Apart
<1>9. TokensInv'
  <2>1. ASSUME NEW q \in Requests, NEW i \in 1..Len(body[q]), NEW m \in jobs',
               m.req = q, m.run = body[q][i].run
        PROVE  Passed(m, body[q][i].part)
    <3>1. body[q][i].part \in Nat
      BY TokenParts
    <3>2. CASE m \in jobs
      BY <2>1, <3>2 DEF ChunkInv, TokensInv
    <3>3. CASE m \in {next, rest}
      <4>1. Passed(j, body[q][i].part)
        BY <1>1, <1>2, <2>1, <3>3 DEF ChunkInv, TokensInv
      <4>2. body[q][i].part <= j.sent
        BY <1>1, <4>1 DEF Passed
      <4> QED  BY <1>1, <1>2, <1>3, <3>1, <3>3, <4>2 DEF Passed
    <3> QED  BY <1>2, <2>1, <3>2, <3>3
  <2>2. \A q \in Requests : \A i \in 1..Len(body[q]) : Used(q, body[q][i].run)
    BY DEF ChunkInv, TokensInv
  <2> QED  BY <1>1, <2>1, <2>2 DEF TokensInv, Used, Passed
<1>10. \A q, run, n : Has(q, run, n) => Has(q, run, n)'
  BY <1>1 DEF Has
<1>11. WholeInv'
  <2>1. ASSUME NEW i \in jobs', i.ends, i.run = attempt[i.req], Listening(i.req)
        PROVE  Has(i.req, i.run, i.sent)'
    <3>1. CASE i \in jobs
      BY <1>10, <2>1, <3>1 DEF ChunkInv, WholeInv
    <3>2. CASE i = next
      <4>1. Has(r, j.run, j.sent)'
        BY <1>1, <1>2, <1>10, <2>1, <3>2 DEF ChunkInv, WholeInv
      <4>2. \A p \in 1..k : p \in 1..j.sent \/ p \in (j.sent + 1)..k
        BY <1>3
      <4>3. Has(r, j.run, k)'
        BY <1>1, <4>1, <4>2 DEF Has
      <4> QED  BY <1>2, <3>2, <4>3
    <3> QED  BY <1>2, <2>1, <3>1, <3>2
  <2>2. ASSUME NEW e \in marking, e.type = "inference_done", e.run = attempt[e.req], Listening(e.req)
        PROVE  Has(e.req, e.run, Chunks[e.req])'
    BY <1>10, <2>2 DEF ChunkInv, WholeInv
  <2> QED  BY <1>1, <2>1, <2>2 DEF WholeInv, Listening, Has
<1>12. FirstInv'
  <2>1. \A q : NoneBehind(q)' => NoneBehind(q)
    BY <1>1 DEF NoneBehind
  <2>2. ASSUME NEW i \in jobs', i.ends, attempt[i.req] = 0, Listening(i.req), NoneBehind(i.req)'
        PROVE  body[i.req] = First(i.sent)
    <3>1. CASE i \in jobs
      BY <2>1, <2>2, <3>1 DEF ChunkInv, FirstInv
    <3>2. CASE i = next
      <4>1. j.run = 0
        BY <1>2, <1>3, <1>7, <2>2, <3>2 DEF Used
      <4>2. k = j.sent
        <5>1. CASE j.sent < k
          <6>1. k \in (j.sent + 1)..k /\ k \in 1..Chunks[r]
            BY <1>3, <1>7, <5>1
          <6>2. LeftBehind(r, 0, k)'
            BY <1>1, <4>1, <6>1
          <6> QED  BY <1>2, <2>2, <3>2, <6>1, <6>2 DEF NoneBehind
        <5> QED  BY <1>1, <1>3, <5>1
      <4>3. body[r] = First(j.sent)
        BY <1>1, <1>2, <2>1, <2>2, <3>2 DEF ChunkInv, FirstInv
      <4> QED  BY <1>2, <3>2, <4>2, <4>3
    <3> QED  BY <1>2, <2>2, <3>1, <3>2
  <2>3. ASSUME NEW e \in marking, e.type = "inference_done", attempt[e.req] = 0,
               Listening(e.req), NoneBehind(e.req)'
        PROVE  body[e.req] = First(Chunks[e.req])
    BY <2>1, <2>3 DEF ChunkInv, FirstInv
  <2>4. \A q \in Requests : attempt[q] = 0 /\ pc[q] \in {"new", "acquiring"} => body[q] = <<>>
    BY DEF ChunkInv, FirstInv
  <2>5. \A q : Listening(q)' <=> Listening(q)
    BY <1>1 DEF Listening
  <2> QED  BY <1>1, <2>2, <2>3, <2>4, <2>5 DEF FirstInv, First
<1> QED  BY <1>8, <1>9, <1>11, <1>12 DEF ChunkInv

(* The specification's steps, as far as the answers are concerned. *)

LEMMA NextGoesOn ==
    ASSUME TypeOK, ChunkInv, [Next]_vars
    PROVE  \/ UNCHANGED handler
           \/ \E r \in Requests : Others(r) /\ GoesOn(r)
           \/ \E j \in Jobs : Chunk(j)
<1>1. ASSUME NEW r \in Requests, NEW n \in Nodes, Sent(r, n) PROVE Others(r) /\ GoesOn(r)
  BY <1>1, SentNew
<1>2. ASSUME NEW n \in Nodes, Connect(n) \/ Remove(n) \/ \E c \in Connections : Close(n, c)
      PROVE  UNCHANGED handler \/ \E r \in Requests : Others(r) /\ GoesOn(r)
  <2>1. CASE UNCHANGED handler
    BY <2>1
  <2>2. CASE activeRequests[n] # NoRequest /\ React("node_disconnect", activeRequests[n])
    <3>1. activeRequests[n] \in Requests
      BY <2>2 DEF TypeOK
    <3> QED  BY <2>2, <3>1, ReactGoesOn
  <2> QED  BY <1>2, <2>1, <2>2 DEF Close, Connect, Remove
<1>3. ASSUME NEW j \in Jobs, Reported(j) \/ \E k \in 0..j.upto : GoOn(j, k)
      PROVE  UNCHANGED handler \/ \E r \in Requests : Others(r) /\ GoesOn(r)
  BY <1>3, JobParts, ReactGoesOn DEF Reported, GoOn
<1>4. ASSUME NEW e \in Events, Emit(e) PROVE \E r \in Requests : Others(r) /\ GoesOn(r)
  BY <1>4, EventParts, ReactGoesOn DEF Emit
<1>5. CASE UNCHANGED vars
  BY <1>5 DEF vars
<1> QED  BY <1>1, <1>2, <1>3, <1>4, <1>5, HandlerStepGoesOn DEF Next, Acquired

LEMMA ChunkInvNext ==
    ASSUME TypeOK, ChunkInv, [Next]_vars
    PROVE  ChunkInv'
<1>1. CASE UNCHANGED vars
  BY <1>1, FrozenChunks DEF vars, channel
<1> QED  BY <1>1, HandlerStepChunks, SocketChunks, SentInv, ChunkStepInv, GoOnInv, ReportedInv, EmitChunks
         DEF Next, Acquired

LEMMA ChunksAlways == Spec => [](TypeOK /\ ChunkInv)
<1>1. Init => ChunkInv
  BY DEF Init, ChunkInv, JobsInv, TokensInv, WholeInv, FirstInv
<1>2. TypeOK /\ ChunkInv /\ [Next]_vars => ChunkInv'
  BY ChunkInvNext
<1> QED  BY <1>1, <1>2, TypeCorrect, PTL DEF Spec

\* What was left behind stays so: the excuse of a chunk is never taken back.
LEMMA BehindGrows ==
    ASSUME [Next]_vars
    PROVE  \A r, run, p : LeftBehind(r, run, p) => LeftBehind(r, run, p)'
<1>1. ASSUME NEW j \in Jobs, Chunk(j) \/ Reported(j) \/ \E k \in 0..j.upto : GoOn(j, k)
      PROVE  behind \subseteq behind'
  BY <1>1 DEF Chunk, Reported, GoOn
<1>2. ASSUME NEW n \in Nodes, Connect(n) \/ Remove(n) \/ \E c \in Connections : Close(n, c)
      PROVE  behind \subseteq behind'
  BY <1>2 DEF Connect, Remove, Close
<1>3. ASSUME NEW r \in Requests,
             \/ Begin(r) \/ Denied(r) \/ Unsent(r) \/ Leave(r) \/ Timeout(r) \/ ClientGone(r)
             \/ \E n \in Nodes : Sent(r, n) \/ NotSent(r, n)
      PROVE  behind \subseteq behind'
  BY <1>3 DEF Begin, Denied, Unsent, Leave, Timeout, ClientGone, Sent, NotSent, channel
<1>4. ASSUME NEW e \in Events, Emit(e) PROVE behind \subseteq behind'
  BY <1>4 DEF Emit, channel
<1>5. ASSUME UNCHANGED vars PROVE behind \subseteq behind'
  BY <1>5 DEF vars, channel
<1>6. behind \subseteq behind'
  BY <1>1, <1>2, <1>3, <1>4, <1>5 DEF Next, Acquired
<1> QED  BY <1>6 DEF LeftBehind

\* Two chunks of one inference, one delivered after the other.
Ordered(t, u, r) == \/ t.part < u.part
                    \/ t.part # u.part /\ LeftBehind(r, u.run, u.part)

LEMMA InOrderNext ==
    ASSUME TypeOK, ChunkInv, ChunksInOrder, [Next]_vars
    PROVE  ChunksInOrder'
<1>0. \A r, run, p : LeftBehind(r, run, p) => LeftBehind(r, run, p)'
  BY BehindGrows
<1>1. ASSUME NEW r \in Requests, body'[r] = body[r] \/ body'[r] = <<>>,
             NEW i \in 1..Len(body'[r]), NEW k \in 1..Len(body'[r]),
             i < k, body'[r][i].run = body'[r][k].run
      PROVE  Ordered(body[r][i], body[r][k], r)'
  <2>1. Len(<<>>) = 0
    OBVIOUS
  <2>2. body'[r] = body[r]
    BY <1>1, <2>1
  <2>3. Ordered(body[r][i], body[r][k], r)
    BY <1>1, <2>2 DEF ChunksInOrder, Ordered
  <2> QED  BY <1>0, <2>2, <2>3 DEF Ordered
<1>2. ASSUME NEW j \in Jobs, Chunk(j) PROVE ChunksInOrder'
  <2> DEFINE token == [run |-> j.run, part |-> j.sent + 1]
  <2>1. ASSUME NEW r \in Requests, r = j.req, body'[r] = Append(body[r], token),
               NEW i \in 1..Len(body'[r]), NEW k \in 1..Len(body'[r]),
               i < k, body'[r][i].run = body'[r][k].run
        PROVE  Ordered(body[r][i], body[r][k], r)'
    <3>1. token \in Tokens /\ j.sent \in Nat /\ j.upto \in Nat /\ j \in jobs /\ j.sent < j.upto
      <4>1. j.run \in 0..MaxRetries /\ j.sent \in Nat /\ j.upto \in Nat
        BY JobParts
      <4>2. j \in jobs /\ j.sent < j.upto
        BY <1>2, ChunkStep
      <4> QED  BY <4>1, <4>2 DEF Tokens
    <3>2. /\ Len(body[r]) \in Nat /\ Len(body'[r]) = Len(body[r]) + 1
          /\ \A p \in 1..Len(body[r]) : body'[r][p] = body[r][p]
          /\ body'[r][Len(body[r]) + 1] = token
      <4> HIDE DEF token
      <4> QED  BY <2>1, <3>1, Appended
    <3>3. i \in 1..Len(body[r]) /\ body'[r][i] = body[r][i]
      BY <2>1, <3>2
    <3>4. CASE k \in 1..Len(body[r])
      <4>1. body'[r][k] = body[r][k] /\ body[r][i].run = body[r][k].run
        BY <2>1, <3>2, <3>3, <3>4
      <4>2. Ordered(body[r][i], body[r][k], r)
        BY <2>1, <3>3, <3>4, <4>1 DEF ChunksInOrder, Ordered
      <4> QED  BY <1>0, <3>3, <4>1, <4>2 DEF Ordered
    <3>5. CASE k = Len(body[r]) + 1
      <4>1. body'[r][k] = token
        BY <3>2, <3>5
      <4>2. body[r][i].run = j.run
        BY <2>1, <3>3, <4>1
      <4>3. Passed(j, body[r][i].part)
        BY <2>1, <3>1, <3>3, <4>2 DEF ChunkInv, TokensInv
      <4>4. body[r][i].part \in Nat
        BY <3>3, TokenParts
      <4>5. CASE body[r][i].part <= j.sent
        BY <3>1, <3>3, <4>1, <4>4, <4>5 DEF Ordered
      <4>6. CASE ~j.ends /\ j.upto < body[r][i].part
        <5>1. LeftBehind(r, j.run, j.sent + 1)'
          BY <1>0, <2>1, <3>1, <4>6, RestBehind
        <5> QED  BY <3>1, <3>3, <4>1, <4>4, <4>6, <5>1 DEF Ordered
      <4> QED  BY <4>3, <4>5, <4>6 DEF Passed
    <3> QED  BY <2>1, <3>2, <3>4, <3>5
  <2>2. \A r \in Requests : body'[r] = body[r] \/ (r = j.req /\ body'[r] = Append(body[r], token))
    BY <1>2, ChunkStep
  <2> QED  BY <1>1, <2>1, <2>2 DEF ChunksInOrder, Ordered
<1>3. CASE \E r \in Requests : Others(r) /\ GoesOn(r)
  <2>1. \A r \in Requests : body'[r] = body[r] \/ body'[r] = <<>>
    BY <1>3 DEF Others, GoesOn
  <2> QED  BY <1>1, <2>1 DEF ChunksInOrder, Ordered
<1>4. CASE UNCHANGED handler
  <2>1. \A r \in Requests : body'[r] = body[r]
    BY <1>4 DEF handler
  <2> QED  BY <1>1, <2>1 DEF ChunksInOrder, Ordered
<1> QED  BY <1>2, <1>3, <1>4, NextGoesOn

\* Whatever is retried, abandoned and late, and on whichever connections the pieces of an
\* inference come, no client gets a chunk twice, nor one after a later one of the same
\* inference, unless it was left behind as the inference went on in another connection.
THEOREM ChunksOrdered == Spec => []ChunksInOrder
<1>1. Init => ChunksInOrder
  BY DEF Init, ChunksInOrder
<1>2. TypeOK /\ ChunkInv /\ ChunksInOrder /\ [Next]_vars => ChunksInOrder'
  BY InOrderNext
<1> QED  BY <1>1, <1>2, ChunksAlways, PTL DEF Spec


(* How an answer can end as a success. *)

LEMMA NextAttemptFails ==
    ASSUME TypeOK, NEW q \in Requests, NextAttempt(q), NEW r \in Requests
    PROVE  status'[r] \in {status[r], "error"}
BY DEF NextAttempt, Answer, TypeOK

\* The step in which the answer to r ends as a success is a reaction to an inference_done
\* for r, which one of r's inferences has sent, or which waited in markIdle.
DoneFor(r) ==
    \/ \E e \in marking \ marking' : e.req = r /\ e.type = "inference_done"
    \/ \E j \in jobs \ jobs' : j.req = r /\ j.ends /\ j.sent = Chunks[r]

Ending(r) == /\ pc[r] = "waiting" /\ client[r]
             /\ attempt'[r] = attempt[r] /\ body'[r] = body[r]

LEMMA ReactEnds ==
    ASSUME TypeOK, NEW q \in Requests, NEW type, React(type, q),
           NEW r \in Requests, status[r] = "open", status'[r] = "success"
    PROVE  q = r /\ type = "inference_done" /\ Ending(r)
<1>1. CASE UNCHANGED handler
  BY <1>1 DEF handler
<1>2. CASE pc[q] = "waiting" /\ type = "inference_done" /\ Succeed(q)
  <2>1. q = r /\ client[r]
    BY <1>2 DEF Succeed, Answer, TypeOK
  <2> QED  BY <1>2, <2>1 DEF Succeed, Ending
<1>3. CASE NextAttempt(q)
  BY <1>3, NextAttemptFails
<1> QED  BY <1>1, <1>2, <1>3 DEF React

LEMMA SuccessStep ==
    ASSUME TypeOK, [Next]_vars, NEW r \in Requests, status[r] = "open", status'[r] = "success"
    PROVE  Ending(r) /\ DoneFor(r)
<1>0. ~UNCHANGED handler
  BY DEF handler
<1>1. ASSUME NEW q \in Requests,
             \/ Begin(q) \/ Denied(q) \/ Unsent(q) \/ Leave(q) \/ Timeout(q) \/ ClientGone(q)
             \/ \E n \in Nodes : Sent(q, n) \/ NotSent(q, n)
      PROVE  FALSE
  <2>1. CASE Unsent(q) \/ Timeout(q)
    BY <2>1, NextAttemptFails DEF Unsent, Timeout
  <2>2. CASE Denied(q)
    <3>1. status' = status \/ Answer(q, "error")
      BY <2>2 DEF Denied
    <3>2. status \in [Requests -> {"open", "success", "error"}]
      BY DEF TypeOK
    <3> QED  BY <3>1, <3>2 DEF Answer
  <2>3. CASE Begin(q) \/ Leave(q) \/ ClientGone(q) \/ \E n \in Nodes : Sent(q, n) \/ NotSent(q, n)
    BY <2>3 DEF Begin, Leave, ClientGone, Sent, NotSent
  <2> QED  BY <1>1, <2>1, <2>2, <2>3
<1>2. ASSUME NEW n \in Nodes, Connect(n) \/ Remove(n) \/ \E c \in Connections : Close(n, c)
      PROVE  FALSE
  <2>1. activeRequests[n] # NoRequest /\ React("node_disconnect", activeRequests[n])
    BY <1>0, <1>2 DEF Connect, Remove, Close
  <2>2. activeRequests[n] \in Requests
    BY <2>1 DEF TypeOK
  <2> QED  BY <2>1, <2>2, ReactEnds
<1>3. ASSUME NEW j \in Jobs, Chunk(j) \/ \E k \in 0..j.upto : GoOn(j, k) PROVE FALSE
  BY <1>0, <1>3 DEF Chunk, GoOn
<1>4. ASSUME NEW j \in Jobs, Reported(j) PROVE Ending(r) /\ DoneFor(r)
  <2>1. j.req \in Requests /\ j \in jobs /\ j \notin jobs' /\ j.ends
    BY <1>4, JobParts DEF Reported
  <2>2. PICK t : React(t, j.req) /\ (t = "inference_done" => j.sent = Chunks[j.req])
    BY <1>0, <1>4 DEF Reported
  <2>3. j.req = r /\ j.sent = Chunks[r] /\ Ending(r)
    BY <2>1, <2>2, ReactEnds
  <2> QED  BY <2>1, <2>3 DEF DoneFor
<1>5. ASSUME NEW e \in Events, Emit(e) PROVE Ending(r) /\ DoneFor(r)
  <2>1. e \in marking /\ e \notin marking' /\ e.req \in Requests /\ React(e.type, e.req)
    BY <1>5, EventParts DEF Emit
  <2> QED  BY <2>1, ReactEnds DEF DoneFor
<1>6. CASE UNCHANGED vars
  BY <1>6 DEF vars, handler
<1> QED  BY <1>1, <1>2, <1>3, <1>4, <1>5, <1>6 DEF Next, Acquired

\* In the step that ends it as a success, an answer has all that the inference of its
\* attempt has computed and that was not left behind on an old connection, or the step is
\* the late report of an inference given up before.
THEOREM SuccessWhole == Spec => SuccessIsWhole
<1>1. ASSUME TypeOK, ChunkInv, [Next]_vars,
             NEW r \in Requests, status[r] = "open", status'[r] = "success"
      PROVE  Delivered(r, attempt[r])' \/ LateReport(r)
  <2>1. Ending(r) /\ DoneFor(r) /\ Listening(r)
    BY <1>1, SuccessStep DEF Ending, Listening
  <2>2. Has(r, attempt[r], Chunks[r]) => Delivered(r, attempt[r])'
    <3>1. Has(r, attempt[r], Chunks[r]) =>
             \A p \in 1..Chunks[r] : LeftBehind(r, attempt[r], p)'
                \/ \E i \in 1..Len(body'[r]) : body'[r][i] = [run |-> attempt[r], part |-> p]
      BY <1>1, <2>1, BehindGrows DEF Has, Ending
    <3>2. attempt'[r] = attempt[r]
      BY <2>1 DEF Ending
    <3> QED  BY <3>1, <3>2 DEF Delivered, LeftBehind
  <2>3. ASSUME NEW e \in marking \ marking', e.req = r, e.type = "inference_done"
        PROVE  Has(r, attempt[r], Chunks[r]) \/ LateReport(r)
    <3>1. CASE e.run = attempt[r]
      BY <1>1, <2>1, <2>3, <3>1 DEF ChunkInv, WholeInv
    <3>2. CASE e.run < attempt[r]
      BY <2>3, <3>2 DEF LateReport
    <3> QED  BY <1>1, <2>3, <3>1, <3>2 DEF ChunkInv, JobsInv, Used
  <2>4. ASSUME NEW j \in jobs \ jobs', j.req = r, j.ends, j.sent = Chunks[r]
        PROVE  Has(r, attempt[r], Chunks[r]) \/ LateReport(r)
    <3>1. CASE j.run = attempt[r]
      BY <1>1, <2>1, <2>4, <3>1 DEF ChunkInv, WholeInv
    <3>2. CASE j.run < attempt[r]
      BY <2>4, <3>2 DEF LateReport
    <3> QED  BY <1>1, <2>4, <3>1, <3>2 DEF ChunkInv, JobsInv, Used
  <2> QED  BY <2>1, <2>2, <2>3, <2>4 DEF DoneFor
<1>2. TypeOK /\ ChunkInv /\ [Next]_vars =>
         [\A r \in Requests : status[r] = "open" /\ status'[r] = "success" =>
             Delivered(r, attempt[r])' \/ LateReport(r)]_vars
  BY <1>1
<1> QED  BY <1>2, ChunksAlways, PTL DEF Spec, SuccessIsWhole


(* The first attempt. *)

LEMMA AttemptGrows ==
    ASSUME TypeOK, ChunkInv, [Next]_vars, NEW r \in Requests, attempt'[r] = 0
    PROVE  attempt[r] = 0
<1>1. attempt[r] \in Nat
  BY DEF TypeOK
<1>2. CASE UNCHANGED handler
  BY <1>2 DEF handler
<1>3. CASE \E q \in Requests : Others(q) /\ GoesOn(q)
  BY <1>1, <1>3 DEF Others, GoesOn
<1>4. CASE \E j \in Jobs : Chunk(j)
  BY <1>4 DEF Chunk
<1> QED  BY <1>2, <1>3, <1>4, NextGoesOn

\* The answer to r is complete, or misses at most what was left behind, if anything was.
FirstWhole(r) ==
    \/ CompleteAnswer(r)
    \/ Delivered(r, 0) /\ \E p \in 1..Chunks[r] : LeftBehind(r, 0, p)

LEMMA FirstWholeStays ==
    ASSUME [Next]_vars, NEW r, FirstWhole(r), body'[r] = body[r]
    PROVE  FirstWhole(r)'
<1>1. \A run, p : LeftBehind(r, run, p) => LeftBehind(r, run, p)'
  BY BehindGrows
<1>2. CASE CompleteAnswer(r)
  BY <1>2 DEF FirstWhole, CompleteAnswer
<1>3. CASE Delivered(r, 0) /\ \E p \in 1..Chunks[r] : LeftBehind(r, 0, p)
  <2>1. Delivered(r, 0)'
    BY <1>1, <1>3 DEF Delivered
  <2> QED  BY <1>1, <1>3, <2>1 DEF FirstWhole
<1> QED  BY <1>2, <1>3 DEF FirstWhole

LEMMA FirstAttemptNext ==
    ASSUME TypeOK, ChunkInv, EndedLast, FirstAttemptIsWhole, [Next]_vars
    PROVE  FirstAttemptIsWhole'
<1> SUFFICES ASSUME NEW r \in Requests, status'[r] = "success", attempt'[r] = 0
             PROVE  FirstWhole(r)'
  BY DEF FirstAttemptIsWhole, FirstWhole
<1>1. attempt[r] = 0 /\ MaxRetries \in Nat
  BY AttemptGrows
<1>2. CASE status[r] # "open"
  <2>1. body'[r] = body[r] /\ status'[r] = status[r]
    BY <1>2, RestrainedNext DEF Untouched, vars, handler
  <2>2. FirstWhole(r)
    BY <1>1, <2>1 DEF FirstAttemptIsWhole, FirstWhole
  <2> QED  BY <2>1, <2>2, FirstWholeStays
<1>3. CASE status[r] = "open"
  <2>1. Ending(r) /\ DoneFor(r) /\ Listening(r)
    BY <1>3, SuccessStep DEF Ending, Listening
  <2>2. CASE NoneBehind(r)
    <3>1. body[r] = First(Chunks[r])
      BY <1>1, <2>1, <2>2 DEF DoneFor, ChunkInv, FirstInv
    <3>2. CompleteAnswer(r)
      BY <1>1, <3>1 DEF CompleteAnswer, First
    <3> QED  BY <2>1, <3>2, FirstWholeStays DEF Ending, FirstWhole
  <2>3. CASE ~NoneBehind(r)
    <3>1. Has(r, 0, Chunks[r])
      <4>1. ASSUME NEW e \in marking, e.req = r, e.type = "inference_done"
            PROVE  Has(r, 0, Chunks[r])
        <5>1. e.run \in Nat /\ Used(r, e.run)
          BY <4>1, EventParts DEF TypeOK, ChunkInv, JobsInv
        <5>2. e.run = 0
          BY <1>1, <5>1 DEF Used
        <5> QED  BY <1>1, <2>1, <4>1, <5>2 DEF ChunkInv, WholeInv
      <4>2. ASSUME NEW j \in jobs, j.req = r, j.ends, j.sent = Chunks[r]
            PROVE  Has(r, 0, Chunks[r])
        <5>1. j.run \in Nat /\ Used(r, j.run)
          BY <4>2, JobParts DEF TypeOK, ChunkInv, JobsInv
        <5>2. j.run = 0
          BY <1>1, <5>1 DEF Used
        <5> QED  BY <1>1, <2>1, <4>2, <5>2 DEF ChunkInv, WholeInv
      <4> QED  BY <2>1, <4>1, <4>2 DEF DoneFor
    <3>2. Delivered(r, 0)
      BY <3>1 DEF Has, Delivered
    <3> QED  BY <2>1, <2>3, <3>2, FirstWholeStays DEF Ending, FirstWhole, NoneBehind
  <2> QED  BY <2>2, <2>3
<1> QED  BY <1>2, <1>3

\* Without a retry, a successful answer is the answer of the node: all its chunks, in
\* order, and nothing else; or the node has gone on with it in another connection while
\* chunks were unread, and those apart it has all of them.
THEOREM FirstAttemptWhole == Spec => []FirstAttemptIsWhole
<1>1. Init => FirstAttemptIsWhole
  BY DEF Init, FirstAttemptIsWhole
<1>2. TypeOK /\ ChunkInv /\ EndedLast /\ FirstAttemptIsWhole /\ [Next]_vars => FirstAttemptIsWhole'
  BY FirstAttemptNext
<1> QED  BY <1>1, <1>2, ChunksAlways, EndedLastAlways, PTL DEF Spec

(* ------------------------ Who gets no answer ------------------------- *)

\* A handler that is through with its attempts, its client waiting, has answered it, or has
\* a retried stream without a chunk.
Excused(r) ==
    pc[r] \in {"releasing", "done"} /\ client[r] /\ status[r] = "open" =>
        r \in Streaming /\ attempt[r] > 0 /\ body[r] = <<>>
AllExcused == \A r \in Requests : Excused(r)

LEMMA OthersExcused ==
    ASSUME AllExcused, NEW r \in Requests, Others(r), Excused(r)'
    PROVE  AllExcused'
BY DEF AllExcused, Excused, Others

LEMMA NextAttemptExcused ==
    ASSUME TypeOK, NEW r \in Requests, NextAttempt(r)
    PROVE  Excused(r)'
BY DEF NextAttempt, Goto, Answer, Excused, TypeOK

LEMMA ReactExcused ==
    ASSUME TypeOK, AllExcused, NEW r \in Requests, NEW type, React(type, r)
    PROVE  AllExcused'
<1>1. CASE UNCHANGED handler
  BY <1>1 DEF handler, AllExcused, Excused
<1>2. CASE Succeed(r)
  <2>1. Excused(r)'
    BY <1>2 DEF Succeed, Goto, Answer, Excused, TypeOK
  <2> QED  BY <2>1, ReactGoesOn, OthersExcused
<1>3. CASE NextAttempt(r)
  BY <1>3, NextAttemptExcused, ReactGoesOn, OthersExcused
<1> QED  BY <1>1, <1>2, <1>3 DEF React

LEMMA HandlerStepExcused ==
    ASSUME TypeOK, AllExcused, NEW r \in Requests,
           \/ Begin(r) \/ Denied(r) \/ Unsent(r) \/ Leave(r) \/ Timeout(r) \/ ClientGone(r)
           \/ \E n \in Nodes : NotSent(r, n)
    PROVE  AllExcused'
<1>1. ASSUME Begin(r) \/ \E n \in Nodes : NotSent(r, n) PROVE Excused(r)'
  BY <1>1 DEF Begin, NotSent, Goto, Excused, TypeOK
<1>2. ASSUME Denied(r) PROVE Excused(r)'
  BY <1>2 DEF Denied, Goto, Answer, Excused, TypeOK
<1>3. ASSUME Unsent(r) \/ Timeout(r) PROVE Excused(r)'
  BY <1>3, NextAttemptExcused DEF Unsent, Timeout
<1>4. ASSUME Leave(r) PROVE Excused(r)'
  BY <1>4 DEF Leave, Goto, AllExcused, Excused, TypeOK
<1>5. ASSUME ClientGone(r) PROVE Excused(r)'
  BY <1>5 DEF ClientGone, Excused, TypeOK
<1> QED  BY <1>1, <1>2, <1>3, <1>4, <1>5, HandlerStepGoesOn, OthersExcused


LEMMA FrozenExcused ==
    ASSUME AllExcused, UNCHANGED handler
    PROVE  AllExcused'
BY DEF AllExcused, Excused, handler

LEMMA SentExcused ==
    ASSUME TypeOK, ChunkInv, AllExcused, NEW r \in Requests, NEW n \in Nodes, Sent(r, n)
    PROVE  AllExcused'
<1>1. Excused(r)'
  BY DEF Sent, Goto, Excused, TypeOK
<1> QED  BY <1>1, SentNew, OthersExcused

LEMMA SocketExcused ==
    ASSUME TypeOK, AllExcused, NEW n \in Nodes,
           Connect(n) \/ Remove(n) \/ \E c \in Connections : Close(n, c)
    PROVE  AllExcused'
<1>1. CASE UNCHANGED handler
  BY <1>1, FrozenExcused
<1>2. CASE activeRequests[n] # NoRequest /\ React("node_disconnect", activeRequests[n])
  <2>1. activeRequests[n] \in Requests
    BY <1>2 DEF TypeOK
  <2> QED  BY <1>2, <2>1, ReactExcused
<1> QED  BY <1>1, <1>2 DEF Close, Connect, Remove

LEMMA JobExcused ==
    ASSUME TypeOK, ChunkInv, AllExcused, NEW j \in Jobs,
           Chunk(j) \/ Reported(j) \/ \E k \in 0..j.upto : GoOn(j, k)
    PROVE  AllExcused'
<1>1. ASSUME Chunk(j) PROVE AllExcused'
  <2>1. UNCHANGED <<pc, attempt, client, status>>
    BY <1>1 DEF Chunk
  <2>2. \A q \in Requests : body'[q] = body[q] \/ pc[q] = "waiting"
    BY <1>1, ChunkStep DEF Listening
  <2> QED  BY <2>1, <2>2 DEF AllExcused, Excused
<1>2. ASSUME Reported(j) \/ \E k \in 0..j.upto : GoOn(j, k) PROVE AllExcused'
  BY <1>2, JobParts, ReactExcused, FrozenExcused DEF Reported, GoOn
<1> QED  BY <1>1, <1>2

LEMMA ExcusedNext ==
    ASSUME TypeOK, ChunkInv, AllExcused, [Next]_vars
    PROVE  AllExcused'
<1>1. ASSUME NEW e \in Events, Emit(e) PROVE AllExcused'
  BY <1>1, EventParts, ReactExcused DEF Emit
<1>2. CASE UNCHANGED vars
  BY <1>2, FrozenExcused DEF vars
<1> QED  BY <1>1, <1>2, HandlerStepExcused, SentExcused, SocketExcused, JobExcused
         DEF Next, Acquired

\* No way out of the attempt loop leaves a client waiting, but for a retried stream
\* that has sent it nothing.
THEOREM UnansweredRetried == Spec => []UnansweredIsRetriedStream
<1>1. Init => AllExcused
  BY DEF Init, AllExcused, Excused
<1>2. TypeOK /\ ChunkInv /\ AllExcused /\ [Next]_vars => AllExcused'
  BY ExcusedNext
<1>3. AllExcused => UnansweredIsRetriedStream
  BY DEF AllExcused, Excused, UnansweredIsRetriedStream
<1> QED  BY <1>1, <1>2, <1>3, ChunksAlways, PTL DEF Spec

=============================================================================

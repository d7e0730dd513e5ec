------------------------------- MODULE Gateway -------------------------------
(***************************************************************************)
(* Failover: the attempt loops of gateway.js (handleStreamingWithFailover, *)
(* handleNonStreamingWithFailover, waitForInference) together with the     *)
(* tracking maps and the event emitter of ws-handler.js, in one router.    *)
(*                                                                         *)
(* How a node is found is not modelled here: acquireOrQueue keeps the      *)
(* promise of Acquisition (RequestQueue implements it) and may hand out    *)
(* any node, also one that is in use (ExclusiveAcquire fails there) or     *)
(* whose socket is closed or belongs to another router.                    *)
(*                                                                         *)
(* Events are matched by request id alone, so what an abandoned node still *)
(* sends reaches whichever attempt is listening.                           *)
(*                                                                         *)
(* A node's messages keep their order within a connection, where a slow    *)
(* network and a slow node look the same to the router: a message is made  *)
(* when it is read.  A connection loses what is unread when it closes, and *)
(* an inference goes on into the node's next connection from wherever it   *)
(* is by then (ws_client.py sends to self.ws, whichever that is).  The     *)
(* router may know the old socket as open long after, and reads what is    *)
(* left in it beside the new one.  A request or an inference that gets     *)
(* lost is one that never reports.                                         *)
(***************************************************************************)
EXTENDS Integers, Sequences

CONSTANTS
    Requests,
    Streaming,     \* the requests with stream = true
    Nodes,
    MaxRetries,
    Chunks,        \* the number of chunks in the complete answer to each
    MaxConnections, \* bound: the connections a node makes
    Together,      \* bound: the sets of requests one of which all that arrive are from
    Leaving,       \* bound: the requests whose clients may leave
    NoNode, NoRequest

ASSUME GatewayAssumption ==
    /\ Streaming \subseteq Requests
    /\ MaxRetries \in Nat
    /\ Chunks \in [Requests -> Nat]
    /\ NoNode \notin Nodes
    /\ NoRequest \notin Requests
    /\ MaxConnections \in Nat
    /\ Together \subseteq SUBSET Requests
    /\ Leaving \subseteq Requests

VARIABLES
    (* Per request handler *)
    pc,              \* where the handler is suspended
    attempt,         \* the attempt it is at, from 0
    node,            \* the node of this attempt
    client,          \* is the client still connected?
    body,            \* streaming: what the client was sent; else: this attempt's chunks
    status,          \* the answer: "open", "success" or "error"
    (* ws-handler.js *)
    activeRequests,  \* Nodes -> the request tracked for the node
    requestToNode,   \* Requests -> the node tracked for the request
    marking,         \* done/error handlers suspended in markIdle, before they emit
    (* The sockets and the providers *)
    line,            \* the node's self.ws: the number of its latest connection, or 0
    open,            \* of each node's connections, those whose close handler has not run
    local,           \* localConnections: the connection to send to the node on, or 0
    jobs,            \* inferences, by the connection their messages come on
    behind           \* history: chunks unread as their inference went on in another one

handler == <<pc, attempt, node, client, body, status>>
tracking == <<activeRequests, requestToNode>>
sockets == <<line, open, local>>
channel == <<sockets, jobs, behind>>
vars == <<handler, tracking, marking, channel>>

Connections == 1..MaxConnections
Labels == {"new", "acquiring", "unsent", "waiting", "releasing", "done"}
\* The n-th chunk of the answer computed for an attempt.
Tokens == [run : 0..MaxRetries, part : Nat \ {0}]
\* What comes on a connection of the inference for an attempt: chunks sent+1..upto, and
\* the report if the inference is there to its end (else it went on in another one).
Jobs == UNION {[req : {r}, run : 0..MaxRetries, node : Nodes, on : Connections,
                sent : 0..Chunks[r], upto : 0..Chunks[r], ends : BOOLEAN] : r \in Requests}
\* The same chunks, of all requests.
Parts == [req : Requests, run : 0..MaxRetries, part : Nat \ {0}]
Events == [type : {"inference_done", "inference_error"}, req : Requests, run : 0..MaxRetries]

Init ==
    /\ pc = [r \in Requests |-> "new"]
    /\ attempt = [r \in Requests |-> 0]
    /\ node = [r \in Requests |-> NoNode]
    /\ client = [r \in Requests |-> TRUE]
    /\ body = [r \in Requests |-> <<>>]
    /\ status = [r \in Requests |-> "open"]
    /\ activeRequests = [n \in Nodes |-> NoRequest]
    /\ requestToNode = [r \in Requests |-> NoNode]
    /\ marking = {}
    /\ line = [n \in Nodes |-> 0]
    /\ open = [n \in Nodes |-> {}]
    /\ local = [n \in Nodes |-> 0]
    /\ jobs = {}
    /\ behind = {}

Goto(r, label) == pc' = [pc EXCEPT ![r] = label]

\* The response is ended, if there is still somebody to read it.
Answer(r, s) == status' = [status EXCEPT ![r] = IF client[r] THEN s ELSE @]

\* Mutant of ClearTracking: only the request's entry is deleted.
ClearHalf(r) ==
    /\ requestToNode' = [requestToNode EXCEPT ![r] = NoNode]
    /\ UNCHANGED activeRequests

\* clearRequestTracking; the done and error handlers delete the same entries.
ClearTracking(r) ==
    /\ activeRequests' = IF requestToNode[r] = NoNode THEN activeRequests
                         ELSE [activeRequests EXCEPT ![requestToNode[r]] = NoRequest]
    /\ requestToNode' = [requestToNode EXCEPT ![r] = NoNode]

-----------------------------------------------------------------------------
(* The attempt loop *)

Begin(r) ==
    /\ pc[r] = "new"
    /\ \E S \in Together : {r} \cup {q \in Requests : pc[q] # "new"} \subseteq S
    /\ Goto(r, "acquiring")
    /\ UNCHANGED <<attempt, node, client, body, status, tracking, marking, channel>>

\* Mutants of NextAttempt: the loop makes one attempt too many; it forgets attempt++.
NextAttemptOneMore(r) ==
    /\ attempt' = [attempt EXCEPT ![r] = @ + 1]
    /\ IF attempt[r] > MaxRetries THEN Answer(r, "error") /\ Goto(r, "done")
       ELSE Goto(r, "acquiring") /\ UNCHANGED status
    /\ UNCHANGED <<node, client, body>>

NextAttemptUncounted(r) ==
    /\ Goto(r, IF client[r] THEN "acquiring" ELSE "done")
    /\ UNCHANGED <<attempt, node, client, body, status>>

\* attempt++ and the loop's tests: out of attempts, nobody to answer, or once more.
\* The chunks of the failed attempt are dropped, unless the client has them already.
NextAttempt(r) ==
    /\ \/ /\ attempt[r] = MaxRetries
          /\ Answer(r, "error")
          /\ Goto(r, "done")
          /\ UNCHANGED attempt
       \/ /\ attempt[r] < MaxRetries
          /\ ~client[r]
          /\ Goto(r, "done")
          /\ UNCHANGED <<attempt, status>>
       \/ /\ attempt[r] < MaxRetries
          /\ client[r]
          /\ attempt' = [attempt EXCEPT ![r] = @ + 1]
          /\ Goto(r, "acquiring")
          /\ UNCHANGED status
    /\ node' = [node EXCEPT ![r] = NoNode]
    /\ body' = [body EXCEPT ![r] = IF r \in Streaming THEN @ ELSE <<>>]
    /\ UNCHANGED client

\* Mutant of Denied: whoever is at a retry has been told already.
DeniedQuietly(r) ==
    /\ pc[r] = "acquiring"
    /\ IF attempt[r] = 0 \/ body[r] # <<>> THEN Answer(r, "error") ELSE UNCHANGED status
    /\ Goto(r, "done")
    /\ UNCHANGED <<attempt, node, client, body, tracking, marking, channel>>

\* acquireOrQueue has no node: 503 or 502, or an error chunk in an open stream; but
\* a retried stream that has sent nothing yet is left as it is.
Denied(r) ==
    /\ pc[r] = "acquiring"
    /\ IF attempt[r] = 0 \/ r \notin Streaming \/ body[r] # <<>>
       THEN Answer(r, "error")
       ELSE UNCHANGED status
    /\ Goto(r, "done")
    /\ UNCHANGED <<attempt, node, client, body, tracking, marking, channel>>

\* A node, and sendInferenceRequest sends: the maps are set, waitForInference listens.
Sent(r, n) ==
    /\ pc[r] = "acquiring"
    /\ local[n] # 0
    /\ node' = [node EXCEPT ![r] = n]
    /\ activeRequests' = [activeRequests EXCEPT ![n] = r]
    /\ requestToNode' = [requestToNode EXCEPT ![r] = n]
    /\ jobs' = jobs \cup {[req |-> r, run |-> attempt[r], node |-> n, on |-> local[n],
                           sent |-> 0, upto |-> Chunks[r], ends |-> TRUE]}
    /\ Goto(r, "waiting")
    /\ UNCHANGED <<attempt, client, body, status, marking, sockets, behind>>

\* A node without an open local socket: it is another router's, or has none, or the one it
\* has is closing.  The streaming handler releases it and goes on; the other one does not
\* await the answer of sendInferenceRequest, takes the promise for success and waits for
\* an inference nobody was asked for.
NotSent(r, n) ==
    /\ pc[r] = "acquiring"
    /\ node' = [node EXCEPT ![r] = n]
    /\ Goto(r, IF r \in Streaming THEN "unsent" ELSE "waiting")
    /\ UNCHANGED <<attempt, client, body, status, tracking, marking, channel>>

Unsent(r) ==
    /\ pc[r] = "unsent"
    /\ NextAttempt(r)
    /\ UNCHANGED <<tracking, marking, channel>>

\* waitForInference resolves with success: the answer ends, the node is released.
Succeed(r) ==
    /\ Answer(r, "success")
    /\ Goto(r, "releasing")
    /\ UNCHANGED <<attempt, node, client, body>>

\* releaseNode and tryDequeue are through.
Leave(r) ==
    /\ pc[r] = "releasing"
    /\ Goto(r, "done")
    /\ UNCHANGED <<attempt, node, client, body, status, tracking, marking, channel>>

\* Mutant of Timeout: the request stays tracked for the node it gives up.
TimeoutTracked(r) ==
    /\ pc[r] = "waiting"
    /\ NextAttempt(r)
    /\ UNCHANGED <<tracking, marking, channel>>

\* The first-token timer or the total timer.
Timeout(r) ==
    /\ pc[r] = "waiting"
    /\ NextAttempt(r)
    /\ ClearTracking(r)
    /\ UNCHANGED <<marking, channel>>

ClientGone(r) ==
    /\ r \in Leaving
    /\ pc[r] \notin {"new", "done"}
    /\ client[r]
    /\ client' = [client EXCEPT ![r] = FALSE]
    /\ UNCHANGED <<pc, attempt, node, body, status, tracking, marking, channel>>

-----------------------------------------------------------------------------
(* Messages from the nodes, and the events ws-handler emits for them *)

\* A chunk of j is read from its connection.  A part that does not hold the end of its
\* inference is gone when its last chunk is read.
Read(j) ==
    /\ j \in jobs
    /\ j.on \in open[j.node]
    /\ j.sent < j.upto
    /\ jobs' = (jobs \ {j}) \cup
               {i \in {[j EXCEPT !.sent = @ + 1]} : i.ends \/ i.sent < i.upto}

\* Mutant of Chunk: the chunk listener is not removed when its attempt is settled.
ChunkAlways(j) ==
    /\ Read(j)
    /\ body' = [body EXCEPT ![j.req] = Append(@, [run |-> j.run, part |-> j.sent + 1])]
    /\ UNCHANGED <<pc, attempt, node, client, status, tracking, marking, sockets, behind>>

\* Mutants of Chunk: the listener of the attempt before is still there, and adds the
\* chunk as well; the chunk that opens the stream is not written.
ChunkTwice(j) ==
    LET r == j.req
        token == [run |-> j.run, part |-> j.sent + 1]
        again == IF attempt[r] > 0 THEN <<token, token>> ELSE <<token>>
    IN
    /\ Read(j)
    /\ body' = IF pc[r] = "waiting" /\ (r \in Streaming => client[r])
               THEN [body EXCEPT ![r] = @ \o again] ELSE body
    /\ UNCHANGED <<pc, attempt, node, client, status, tracking, marking, sockets, behind>>

ChunkUnopened(j) ==
    LET r == j.req
        token == [run |-> j.run, part |-> j.sent + 1]
    IN
    /\ Read(j)
    /\ body' = IF pc[r] = "waiting" /\ j.sent > 0 /\ (r \in Streaming => client[r])
               THEN [body EXCEPT ![r] = Append(@, token)] ELSE body
    /\ UNCHANGED <<pc, attempt, node, client, status, tracking, marking, sockets, behind>>

\* inference_chunk: whoever listens for the request takes it for its own.
Chunk(j) ==
    LET r == j.req
        token == [run |-> j.run, part |-> j.sent + 1]
    IN
    /\ Read(j)
    /\ body' = IF pc[r] = "waiting" /\ (r \in Streaming => client[r])
               THEN [body EXCEPT ![r] = Append(@, token)] ELSE body
    /\ UNCHANGED <<pc, attempt, node, client, status, tracking, marking, sockets, behind>>

\* Mutant of React: the listeners of done and error outlive their attempt.
ReactAlways(type, r) ==
    IF type = "inference_done" THEN Succeed(r) ELSE NextAttempt(r)

\* Another: the end of the connection is taken for the end of the answer.
ReactToClose(type, r) ==
    IF pc[r] # "waiting" THEN UNCHANGED handler
    ELSE IF type # "inference_error" THEN Succeed(r) ELSE NextAttempt(r)

\* The listener's reaction to inference_done or inference_error.
React(type, r) ==
    IF pc[r] # "waiting" THEN UNCHANGED handler
    ELSE IF type = "inference_done" THEN Succeed(r) ELSE NextAttempt(r)

\* inference_done or inference_error.  If the request is tracked its entries are
\* deleted and markIdle is awaited before the event is emitted.
Reported(j) ==
    /\ j \in jobs
    /\ j.on \in open[j.node]
    /\ j.ends
    /\ jobs' = jobs \ {j}
    /\ ClearTracking(j.req)
    /\ \E t \in {"inference_done", "inference_error"} :
          /\ t = "inference_done" => j.sent = Chunks[j.req]
          /\ IF requestToNode[j.req] # NoNode
             THEN /\ marking' = marking \cup {[type |-> t, req |-> j.req, run |-> j.run]}
                  /\ UNCHANGED handler
             ELSE /\ React(t, j.req)
                  /\ UNCHANGED marking
    /\ UNCHANGED <<sockets, behind>>

\* markIdle is through: the event is emitted, whoever listens by now.  An attempt
\* that fails clears the tracking of its request; one that succeeds does not.
Emit(e) ==
    /\ e \in marking
    /\ marking' = marking \ {e}
    /\ React(e.type, e.req)
    /\ IF pc[e.req] = "waiting" /\ e.type = "inference_error"
       THEN ClearTracking(e.req)
       ELSE UNCHANGED tracking
    /\ UNCHANGED channel

-----------------------------------------------------------------------------
(* The connections *)

\* The node's next connection registers; the one before it may still count as open.
Connect(n) ==
    /\ line[n] < MaxConnections
    /\ line' = [line EXCEPT ![n] = @ + 1]
    /\ open' = [open EXCEPT ![n] = @ \cup {line[n] + 1}]
    /\ local' = [local EXCEPT ![n] = line[n] + 1]
    /\ UNCHANGED <<handler, tracking, marking, jobs, behind>>

\* After chunk k an inference goes on in the node's latest connection.  What the router has
\* not read of the chunks before can still come, if it has not closed the old one.
GoOn(j, k) ==
    /\ j \in jobs
    /\ j.ends
    /\ j.on < line[j.node]
    /\ k \in j.sent..j.upto
    /\ jobs' = (jobs \ {j}) \cup {[j EXCEPT !.on = line[j.node], !.sent = k]} \cup
               {i \in {[j EXCEPT !.upto = k, !.ends = FALSE]} :
                   i.on \in open[i.node] /\ i.sent < i.upto}
    /\ behind' = behind \cup {[req |-> j.req, run |-> j.run, part |-> p] : p \in j.sent + 1..k}
    /\ UNCHANGED <<handler, tracking, marking, sockets>>

\* A connection closes, the latest or an old one: the request tracked for the node, if any,
\* is told, and the node's entry in localConnections goes, whichever socket it has.
Close(n, c) ==
    LET r == activeRequests[n] IN
    /\ c \in open[n]
    /\ open' = [open EXCEPT ![n] = @ \ {c}]
    /\ local' = [local EXCEPT ![n] = 0]
    /\ jobs' = {j \in jobs : j.node = n /\ j.on = c => j.ends}
    /\ IF r = NoRequest
       THEN UNCHANGED <<handler, tracking>>
       ELSE /\ requestToNode' = [requestToNode EXCEPT ![r] = NoNode]
            /\ activeRequests' = [activeRequests EXCEPT ![n] = NoRequest]
            /\ React("node_disconnect", r)
    /\ UNCHANGED <<marking, line, behind>>

\* The monitor, or the verifier, removes a node: its socket is still read until it closes.
Remove(n) ==
    /\ local[n] # 0
    /\ local' = [local EXCEPT ![n] = 0]
    /\ UNCHANGED <<handler, tracking, marking, line, open, jobs, behind>>

-----------------------------------------------------------------------------
Acquired(r) == Denied(r) \/ \E n \in Nodes : Sent(r, n) \/ NotSent(r, n)

Next ==
    \/ \E r \in Requests : \/ Begin(r) \/ Acquired(r) \/ Unsent(r) \/ Leave(r)
                           \/ Timeout(r) \/ ClientGone(r)
    \/ \E j \in Jobs : Chunk(j) \/ Reported(j) \/ \E k \in 0..j.upto : GoOn(j, k)
    \/ \E n \in Nodes : Connect(n) \/ Remove(n) \/ \E c \in Connections : Close(n, c)
    \/ \E e \in Events : Emit(e)

\* acquireOrQueue answers, Redis answers, and the total timer fires; nodes owe nothing.
Fairness == \A r \in Requests : /\ WF_vars(Acquired(r))
                                /\ WF_vars(Unsent(r) \/ Leave(r))
                                /\ WF_vars(Timeout(r))

Spec == Init /\ [][Next]_vars /\ Fairness
-----------------------------------------------------------------------------
(* Properties *)

\* Every variable has its type.
TypeOK ==
    /\ pc \in [Requests -> Labels]
    /\ attempt \in [Requests -> 0..MaxRetries]
    /\ node \in [Requests -> Nodes \cup {NoNode}]
    /\ client \in [Requests -> BOOLEAN]
    /\ body \in [Requests -> Seq(Tokens)]
    /\ status \in [Requests -> {"open", "success", "error"}]
    /\ activeRequests \in [Nodes -> Requests \cup {NoRequest}]
    /\ requestToNode \in [Requests -> Nodes \cup {NoNode}]
    /\ marking \in SUBSET Events
    /\ line \in [Nodes -> 0..MaxConnections]
    /\ open \in [Nodes -> SUBSET Connections]
    /\ local \in [Nodes -> 0..MaxConnections]
    /\ jobs \in SUBSET Jobs
    /\ behind \in SUBSET Parts

\* The two tracking maps are kept apart by five pieces of code (ws-handler.js:128-131,
\* 147-150, 188-189, 244-245, 270-275) and are not inverses: a second request on a
\* node takes its entry.  But an entry of a node is always backed by the entry of
\* its request, so a disconnect is never reported to a request that has moved on.
ActiveIsTracked ==
    \A n \in Nodes : activeRequests[n] # NoRequest =>
        requestToNode[activeRequests[n]] = n

\* A request that is looking for another node is not tracked for the one it gave
\* up, and a tracked request is tracked for the node of its current attempt
\* (gateway.js:271, 438), whatever the abandoned nodes still report.
TrackedIsCurrent ==
    \A r \in Requests : requestToNode[r] # NoNode =>
        /\ requestToNode[r] = node[r]
        /\ pc[r] \in {"waiting", "releasing", "done"}

\* Once an answer has ended nothing is added to it, by late chunks, late events or
\* a second ending (gateway.js:221-224, 385, 484-493).
NothingAfterTheEnd ==
    [][\A r \in Requests : status[r] # "open" =>
          status'[r] = status[r] /\ body'[r] = body[r]]_vars

\* Chunk p of the inference for an attempt was left unread on an old connection when the
\* inference went on in a new one: it may be lost, or come after later ones.
LeftBehind(r, run, p) == [req |-> r, run |-> run, part |-> p] \in behind

\* No chunk is delivered twice, and of one inference none comes after a later one unless it
\* was left behind, however many attempts the request has had, whichever nodes still send
\* to it and however many connections the pieces come on: a retry starts the answer from
\* its beginning (gateway.js:276) but by an inference of its own.
ChunksInOrder ==
    \A r \in Requests : \A i, k \in 1..Len(body[r]) :
        i < k /\ body[r][i].run = body[r][k].run =>
            \/ body[r][i].part < body[r][k].part
            \/ /\ body[r][i].part # body[r][k].part
               /\ LeftBehind(r, body[r][k].run, body[r][k].part)

\* The chunks of the answer computed for an attempt have been delivered, all that were
\* not left behind.
Delivered(r, run) ==
    \A p \in 1..Chunks[r] :
        LeftBehind(r, run, p) \/ \E i \in 1..Len(body[r]) : body[r][i] = [run |-> run, part |-> p]

\* In this step something that an earlier attempt of r has asked for is over.
LateReport(r) ==
    \/ \E e \in marking \ marking' : e.req = r /\ e.run < attempt[r]
    \/ \E j \in jobs \ jobs' : j.req = r /\ j.run < attempt[r]

\* How far CompleteResponse holds, for streams too: an answer that ends as a success misses
\* no chunk of its attempt but those left behind on an old connection (ws_client.py:316),
\* unless the inference_done of a node it has given up ends it (gateway.js:536); that
\* others fail or share the node, or that the node reconnects in a pause, costs no chunk.
SuccessIsWhole ==
    [][\A r \in Requests : status[r] = "open" /\ status'[r] = "success" =>
          Delivered(r, attempt[r])' \/ LateReport(r)]_vars

\* The gateway uses acquireOrQueue as Acquisition allows: one acquisition at a time
\* per request, at most MaxRetries more after the first, none after the end.
AsAcquisition == INSTANCE Acquisition
    WITH phase <- [r \in Requests |-> CASE pc[r] = "new" -> "new"
                                        [] pc[r] = "acquiring" -> "asking"
                                        [] pc[r] = "done" -> "over"
                                        [] OTHER -> "granted"],
         retries <- attempt

AcquiresInTurn == AsAcquisition!Spec

\* Every request handler returns, whatever the nodes do or fail to do.
EveryHandlerReturns == \A r \in Requests : pc[r] # "new" ~> pc[r] = "done"

\* The client got the chunks of one inference, all of them and in order.
CompleteAnswer(r) ==
    \E run \in 0..MaxRetries :
        body[r] = [k \in 1..Chunks[r] |-> [run |-> run, part |-> k]]

\* A request that needs no retry gets exactly the answer of its node, in order and with
\* nothing else, streamed or not.  If a chunk of it was left behind on a connection the
\* node has lost, those chunks may be missing or late, and no others.
FirstAttemptIsWhole ==
    \A r \in Requests : status[r] = "success" /\ attempt[r] = 0 =>
        \/ CompleteAnswer(r)
        \/ Delivered(r, 0) /\ \E p \in 1..Chunks[r] : LeftBehind(r, 0, p)

\* gateway.js:316, "Buffers all tokens, retries on failure, returns complete
\* response": a successful non-streaming answer is complete.
CompleteResponse ==
    \A r \in Requests \ Streaming : status[r] = "success" => CompleteAnswer(r)

\* README.md:230, "Returns 503 with clear error messages when no nodes are
\* available": a handler does not return with its client waiting for an answer.
ClientIsAnswered ==
    \A r \in Requests : pc[r] = "done" /\ client[r] => status[r] # "open"

\* How far it holds: whoever is left without an answer has a stream that was retried and
\* has got nothing yet (gateway.js:168-179); all other ways out of the loop answer.
UnansweredIsRetriedStream ==
    \A r \in Requests : pc[r] = "done" /\ client[r] /\ status[r] = "open" =>
        r \in Streaming /\ attempt[r] > 0 /\ body[r] = <<>>
=============================================================================

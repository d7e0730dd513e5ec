---------------------------- MODULE RequestQueue ----------------------------
(***************************************************************************)
(* How a chat-completion request gets a provider node, and how the node is *)
(* given back: queue.js (acquireOrQueue, tryDequeue), load-balancer.js     *)
(* (acquireNode, releaseNode) and the node table of registry.js that both  *)
(* read and write, driven by the acquire/serve/retry loop of gateway.js.   *)
(*                                                                         *)
(* Every handler is an async function: it runs without interruption from   *)
(* one "await" to the next and anything may happen in between.  A request  *)
(* is therefore a process whose program counter names the await it is      *)
(* suspended at, and one action is the code between two awaits, ending     *)
(* with the Redis command that code sends.  A router has one Redis         *)
(* connection, which answers in order, so a command takes effect when it   *)
(* is sent and its reply is used by the next action.                       *)
(*                                                                         *)
(* Several router replicas share the node table; each has its own queue.   *)
(***************************************************************************)
EXTENDS Integers, Sequences, SequencesExt

CONSTANTS
    Requests,     \* chat-completion requests, one HTTP handler each
    Nodes,        \* provider nodes
    Models,       \* model names
    Routers,      \* router processes sharing one Redis
    ModelOf,      \* the model each request asks for
    RouterOf,     \* the router that handles each request
    Challenges,   \* the nodes a request may insist on, as a verifier challenge
    MaxQueue,     \* QUEUE_MAX_SIZE
    MaxRetries,   \* MAX_RETRIES of the gateway
    Beats,        \* the statuses a heartbeat may carry
    Offline, NoNode, NoRequest

\* A node table entry: the two fields of the metadata record that steer control.
NodeRecord == [status : {"idle", "busy"}, model : Models]

ASSUME ConstantsAssumption ==
    /\ ModelOf \in [Requests -> Models]
    /\ RouterOf \in [Requests -> Routers]
    /\ Challenges \in [Requests -> SUBSET Nodes]
    /\ MaxQueue \in Nat
    /\ MaxRetries \in Nat
    /\ Beats \subseteq {"idle", "busy"}
    /\ Offline \notin NodeRecord
    /\ NoNode \notin Nodes
    /\ NoRequest \notin Requests

VARIABLES
    (* Shared, in Redis *)
    table,    \* Nodes -> the record of a listed node, or Offline
    (* The providers, and the heartbeat handlers working for them *)
    conn,     \* does a router hold an open connection of the node?
    beat,     \* the record a suspended updateHeartbeat has read, or Offline
    (* Per router *)
    queue,    \* the FIFO array of waiting entries, named by their requests
    (* Per request handler *)
    pc,       \* the await the handler is suspended at
    attempt,  \* the gateway's retry counter
    force,    \* the node the request must run on (a challenge), or NoNode
    got,      \* the node being claimed, used or released
    snap,     \* the last reply of redis.getAllNodes
    idx,      \* tryDequeue's index of the entry to serve (1 when it has none)
    held      \* the entry tryDequeue has spliced out of the queue

nodeVars == <<conn, beat>>
vars == <<table, conn, beat, queue, pc, attempt, force, got, snap, idx, held>>

\* The handler is inside acquireOrQueue, its caller awaiting the outcome.
Searching == {"forced", "forcedClaim", "find", "claim", "counts", "surveyBusy",
              "survey", "any", "claimSwitch", "switch", "admit"}
\* The handler owns a node as far as the gateway knows.
Using == {"serving", "wsDone", "finished", "wsError", "unsent", "failed", "release"}
\* The handler has answered its client and looks for a waiter to serve.
Dequeuing == {"scan", "dequeue", "hold"}

Labels == {"new", "queued", "done"} \cup Searching \cup Using \cup Dequeuing

NoTable == [n \in Nodes |-> Offline]
Listed(t) == {n \in Nodes : t[n] # Offline}
Idle(t) == {n \in Listed(t) : t[n].status = "idle"}
IdleWith(t, m) == {n \in Idle(t) : t[n].model = m}
Busy(t) == Listed(t) \ Idle(t)

\* Array.prototype.indexOf / findIndex: i is the first position of s that is in S.
IsFirst(s, i, S) == /\ i \in 1..Len(s)
                    /\ s[i] \in S
                    /\ \A j \in 1..(i - 1) : s[j] \notin S

SameModel(r) == {q \in Requests : ModelOf[q] = ModelOf[r]}

-----------------------------------------------------------------------------
Init ==
    /\ table = NoTable
    /\ conn = [n \in Nodes |-> FALSE]
    /\ beat = NoTable
    /\ queue = [p \in Routers |-> <<>>]
    /\ pc = [r \in Requests |-> "new"]
    /\ attempt = [r \in Requests |-> 0]
    /\ force = [r \in Requests |-> NoNode]
    /\ got = [r \in Requests |-> NoNode]
    /\ snap = [r \in Requests |-> NoTable]
    /\ idx = [r \in Requests |-> 1]
    /\ held = [r \in Requests |-> NoRequest]

(* Pieces the actions are made of. *)

Goto(r, label) == pc' = [pc EXCEPT ![r] = label]

\* redis.getAllNodes: the handler will continue with the table as it is now.
ReadTable(r) == snap' = [snap EXCEPT ![r] = table]
DropTable(r) == snap' = [snap EXCEPT ![r] = NoTable]

WithStatus(record, status) == [record EXCEPT !.status = status]

\* The write half of markBusy and markIdle: the record read earlier, with its
\* status replaced, overwrites whatever the table holds by now.
WriteStatus(r, status) ==
    LET n == got[r] IN
    table' = IF snap[r][n] = Offline THEN table
             ELSE [table EXCEPT ![n] = WithStatus(snap[r][n], status)]

-----------------------------------------------------------------------------
(* queue.js acquireOrQueue and load-balancer.js acquireNode *)

\* acquireOrQueue(model, f) is entered: by a new request, or by a retry.
BeginAcquire(r, f) ==
    /\ Goto(r, IF f # NoNode THEN "forced" ELSE "find")
    /\ ReadTable(r)
    /\ got' = [got EXCEPT ![r] = NoNode]

Arrive(r) ==
    /\ pc[r] = "new"
    /\ \E f \in Challenges[r] \cup {NoNode} :
          /\ force' = [force EXCEPT ![r] = f]
          /\ BeginAcquire(r, f)
    /\ UNCHANGED <<table, nodeVars, queue, attempt, idx, held>>

\* acquireOrQueue answers { node: null }: the gateway answers the client and stops.
Refuse(r) ==
    /\ Goto(r, "done")
    /\ DropTable(r)
    /\ got' = [got EXCEPT ![r] = NoNode]

\* A challenge takes its node if that is listed idle, and is never queued.
ForcedFound(r) ==
    /\ pc[r] = "forced"
    /\ IF force[r] \in Idle(snap[r])
       THEN /\ got' = [got EXCEPT ![r] = force[r]]
            /\ ReadTable(r)
            /\ Goto(r, "forcedClaim")
       ELSE Refuse(r)
    /\ UNCHANGED <<table, nodeVars, queue, attempt, force, idx, held>>

\* getIdleNode found nobody: count the nodes.
NoneIdle(r) ==
    /\ pc[r] = "find"
    /\ IdleWith(snap[r], ModelOf[r]) = {}
    /\ ReadTable(r)
    /\ Goto(r, "counts")
    /\ UNCHANGED <<table, nodeVars, queue, attempt, force, got, idx, held>>

\* getIdleNode found n: markBusy(n) starts by reading the table again.
FoundIdle(r) ==
    /\ pc[r] = "find"
    /\ \E n \in IdleWith(snap[r], ModelOf[r]) : got' = [got EXCEPT ![r] = n]
    /\ ReadTable(r)
    /\ Goto(r, "claim")
    /\ UNCHANGED <<table, nodeVars, queue, attempt, force, idx, held>>

\* markBusy writes and acquireOrQueue returns the node.
Claim(r) ==
    /\ pc[r] \in {"claim", "forcedClaim"}
    /\ WriteStatus(r, "busy")
    /\ DropTable(r)
    /\ Goto(r, "serving")
    /\ UNCHANGED <<nodeVars, queue, attempt, force, got, idx, held>>

\* acquireNode with no idle node: fail if nobody is listed, else look again.
Survey(r) ==
    /\ pc[r] = "counts"
    /\ ReadTable(r)
    /\ Goto(r, CASE Listed(snap[r]) = {} -> "admit"
                 [] Busy(snap[r]) # {} -> "surveyBusy"
                 [] OTHER -> "survey")
    /\ UNCHANGED <<table, nodeVars, queue, attempt, force, got, idx, held>>

\* All busy: give up.  Otherwise ask for a node to repurpose.
LookForAny(r) ==
    /\ pc[r] \in {"surveyBusy", "survey"}
    /\ ReadTable(r)
    /\ Goto(r, IF pc[r] = "surveyBusy" /\ IdleWith(snap[r], ModelOf[r]) = {}
               THEN "admit" ELSE "any")
    /\ UNCHANGED <<table, nodeVars, queue, attempt, force, got, idx, held>>

\* Any idle node will do, whatever its model; it is marked busy first.
FoundAny(r) ==
    /\ pc[r] = "any"
    /\ ReadTable(r)
    /\ IF Idle(snap[r]) = {}
       THEN /\ Goto(r, "admit")
            /\ UNCHANGED got
       ELSE /\ \E n \in Idle(snap[r]) : got' = [got EXCEPT ![r] = n]
            /\ Goto(r, "claimSwitch")
    /\ UNCHANGED <<table, nodeVars, queue, attempt, force, idx, held>>

ClaimSwitch(r) ==
    /\ pc[r] = "claimSwitch"
    /\ WriteStatus(r, "busy")
    /\ DropTable(r)
    /\ Goto(r, "switch")
    /\ UNCHANGED <<nodeVars, queue, attempt, force, got, idx, held>>

\* sendSwitchModelCommand: either the node is not connected here, or the send
\* refers to an undeclared variable and the exception is caught; nothing is sent.
SwitchModel(r) ==
    /\ pc[r] = "switch"
    /\ got' = [got EXCEPT ![r] = NoNode]
    /\ ReadTable(r)
    /\ Goto(r, "admit")
    /\ UNCHANGED <<table, nodeVars, queue, attempt, force, idx, held>>

\* Mutant of Admit: the capacity test lets one entry too many in.
AdmitOneMore(r) ==
    LET p == RouterOf[r] IN
    /\ pc[r] = "admit"
    /\ IF Listed(snap[r]) = {} \/ Len(queue[p]) > MaxQueue
       THEN Refuse(r) /\ UNCHANGED queue
       ELSE /\ queue' = [queue EXCEPT ![p] = Append(@, r)]
            /\ Goto(r, "queued") /\ DropTable(r) /\ UNCHANGED got
    /\ UNCHANGED <<table, nodeVars, attempt, force, idx, held>>

\* The last part of acquireOrQueue: fail fast, refuse at capacity, or wait.
Admit(r) ==
    LET p == RouterOf[r] IN
    /\ pc[r] = "admit"
    /\ IF Listed(snap[r]) = {} \/ Len(queue[p]) >= MaxQueue
       THEN /\ Refuse(r)
            /\ UNCHANGED queue
       ELSE /\ queue' = [queue EXCEPT ![p] = Append(@, r)]
            /\ Goto(r, "queued")
            /\ DropTable(r)
            /\ UNCHANGED got
    /\ UNCHANGED <<table, nodeVars, attempt, force, idx, held>>

\* The entry's timer: take the entry out if it is still there, resolve with null.
Timeout(r) ==
    LET p == RouterOf[r] IN
    /\ pc[r] = "queued"
    /\ \/ /\ r \notin ToSet(queue[p])
          /\ UNCHANGED queue
       \/ \E i \in 1..Len(queue[p]) :
             /\ IsFirst(queue[p], i, {r})
             /\ queue' = [queue EXCEPT ![p] = RemoveAt(@, i)]
    /\ Refuse(r)
    /\ UNCHANGED <<table, nodeVars, attempt, force, idx, held>>

-----------------------------------------------------------------------------
(* gateway.js: one attempt on the acquired node, and what follows it *)

\* The node reports inference_done or inference_error.  If the request is still
\* tracked, ws-handler marks the node idle before it tells the gateway.
NodeReports(r) ==
    /\ pc[r] = "serving"
    /\ ReadTable(r)
    /\ \E label \in {"wsDone", "release", "wsError", "failed"} : Goto(r, label)
    /\ UNCHANGED <<table, nodeVars, queue, attempt, force, got, idx, held>>

WsRelease(r) ==
    /\ pc[r] \in {"wsDone", "wsError"}
    /\ WriteStatus(r, "idle")
    /\ DropTable(r)
    /\ Goto(r, IF pc[r] = "wsDone" THEN "finished" ELSE "failed")
    /\ UNCHANGED <<nodeVars, queue, attempt, force, got, idx, held>>

\* The gateway has the result and releases the node once more.
Finish(r) ==
    /\ pc[r] = "finished"
    /\ ReadTable(r)
    /\ Goto(r, "release")
    /\ UNCHANGED <<table, nodeVars, queue, attempt, force, got, idx, held>>

\* First-token timeout, total timeout or node_disconnect: the node is not released.
AttemptLost(r) ==
    /\ pc[r] = "serving"
    /\ Goto(r, "failed")
    /\ UNCHANGED <<table, nodeVars, queue, attempt, force, got, snap, idx, held>>

\* sendInferenceRequest finds no open local socket: the node is released.
Unsent(r) ==
    /\ pc[r] = "serving"
    /\ ReadTable(r)
    /\ Goto(r, "unsent")
    /\ UNCHANGED <<table, nodeVars, queue, attempt, force, got, idx, held>>

ReleaseUnsent(r) ==
    /\ pc[r] = "unsent"
    /\ WriteStatus(r, "idle")
    /\ DropTable(r)
    /\ Goto(r, "failed")
    /\ UNCHANGED <<nodeVars, queue, attempt, force, got, idx, held>>

\* Mutants of Retry: one attempt too many; attempts that are not counted.
RetryOneMore(r) ==
    /\ pc[r] = "failed"
    /\ \/ /\ attempt[r] <= MaxRetries
          /\ attempt' = [attempt EXCEPT ![r] = @ + 1]
          /\ BeginAcquire(r, force[r])
       \/ Refuse(r) /\ UNCHANGED attempt
    /\ UNCHANGED <<table, nodeVars, queue, force, idx, held>>

RetryUncounted(r) ==
    /\ pc[r] = "failed"
    /\ BeginAcquire(r, force[r]) \/ Refuse(r)
    /\ UNCHANGED <<table, nodeVars, queue, attempt, force, idx, held>>

\* Another attempt, unless the retries are used up or the client has gone.
Retry(r) ==
    /\ pc[r] = "failed"
    /\ \/ /\ attempt[r] < MaxRetries
          /\ attempt' = [attempt EXCEPT ![r] = @ + 1]
          /\ BeginAcquire(r, force[r])
       \/ /\ Refuse(r)
          /\ UNCHANGED attempt
    /\ UNCHANGED <<table, nodeVars, queue, force, idx, held>>

\* releaseNode writes; the client has its answer, tryDequeue(model) comes next.
Release(r) ==
    /\ pc[r] = "release"
    /\ WriteStatus(r, "idle")
    /\ DropTable(r)
    /\ got' = [got EXCEPT ![r] = NoNode]
    /\ Goto(r, "scan")
    /\ UNCHANGED <<nodeVars, queue, attempt, force, idx, held>>

-----------------------------------------------------------------------------
(* queue.js tryDequeue *)

\* Find the index of the first entry for the model, then await an idle node.
Scan(r) ==
    LET q == queue[RouterOf[r]] IN
    /\ pc[r] = "scan"
    /\ \/ /\ ToSet(q) \cap SameModel(r) = {}
          /\ Goto(r, "done")
          /\ UNCHANGED <<snap, idx>>
       \/ \E i \in 1..Len(q) :
             /\ IsFirst(q, i, SameModel(r))
             /\ idx' = [idx EXCEPT ![r] = i]
             /\ ReadTable(r)
             /\ Goto(r, "dequeue")
    /\ UNCHANGED <<table, nodeVars, queue, attempt, force, got, held>>

\* Mutant of Dequeue: the entry is spliced out before the reply is looked at, and
\* lost if no node is idle.
DequeueTooSoon(r) ==
    LET p == RouterOf[r]
        found == idx[r] <= Len(queue[p])
    IN
    /\ pc[r] = "dequeue"
    /\ queue' = [queue EXCEPT ![p] = IF found THEN RemoveAt(@, idx[r]) ELSE @]
    /\ IF IdleWith(snap[r], ModelOf[r]) = {}
       THEN Goto(r, "done") /\ DropTable(r) /\ UNCHANGED <<got, held>>
       ELSE /\ \E n \in IdleWith(snap[r], ModelOf[r]) : got' = [got EXCEPT ![r] = n]
            /\ held' = [held EXCEPT ![r] = IF found THEN queue[p][idx[r]] ELSE NoRequest]
            /\ ReadTable(r) /\ Goto(r, "hold")
    /\ idx' = [idx EXCEPT ![r] = 1]
    /\ UNCHANGED <<table, nodeVars, attempt, force>>

\* Splice the entry out by the index found before the await; markBusy begins.
Dequeue(r) ==
    LET p == RouterOf[r]
        found == idx[r] <= Len(queue[p])
    IN
    /\ pc[r] = "dequeue"
    /\ IF IdleWith(snap[r], ModelOf[r]) = {}
       THEN /\ Goto(r, "done")
            /\ DropTable(r)
            /\ UNCHANGED <<queue, got, held>>
       ELSE /\ \E n \in IdleWith(snap[r], ModelOf[r]) : got' = [got EXCEPT ![r] = n]
            /\ held' = [held EXCEPT ![r] = IF found THEN queue[p][idx[r]] ELSE NoRequest]
            /\ queue' = [queue EXCEPT ![p] = IF found THEN RemoveAt(@, idx[r]) ELSE @]
            /\ ReadTable(r)
            /\ Goto(r, "hold")
    /\ idx' = [idx EXCEPT ![r] = 1]
    /\ UNCHANGED <<table, nodeVars, attempt, force>>

\* Mutant of Grant: the resolve is not stopped by the timer having fired.
GrantTooLate(r) ==
    LET q == held[r] IN
    /\ pc[r] = "hold" /\ q # NoRequest
    /\ WriteStatus(r, "busy") /\ DropTable(r)
    /\ pc' = [pc EXCEPT ![r] = "done", ![q] = "serving"]
    /\ got' = [got EXCEPT ![r] = NoNode, ![q] = got[r]]
    /\ held' = [held EXCEPT ![r] = NoRequest]
    /\ UNCHANGED <<nodeVars, queue, attempt, force, idx>>

\* markBusy writes and the entry is resolved with the node.  Resolving an entry
\* whose timer has fired does nothing: its promise is settled already.
Grant(r) ==
    LET q == held[r] IN
    /\ pc[r] = "hold"
    /\ q # NoRequest
    /\ WriteStatus(r, "busy")
    /\ DropTable(r)
    /\ IF pc[q] = "queued"
       THEN /\ pc' = [pc EXCEPT ![r] = "done", ![q] = "serving"]
            /\ got' = [got EXCEPT ![r] = NoNode, ![q] = got[r]]
       ELSE /\ Goto(r, "done")
            /\ got' = [got EXCEPT ![r] = NoNode]
    /\ held' = [held EXCEPT ![r] = NoRequest]
    /\ UNCHANGED <<nodeVars, queue, attempt, force, idx>>

\* There was no entry at the index: reading entry.enqueuedAt throws, the
\* rejection is unhandled and ends the router process, every handler with it, and
\* the connections it held; nothing removes their nodes from the table.
CrashOnMissingEntry(r) ==
    LET p == RouterOf[r]
        Alive(q) == RouterOf[q] = p /\ pc[q] # "new"
    IN
    /\ pc[r] = "hold"
    /\ held[r] = NoRequest
    /\ WriteStatus(r, "busy")
    /\ pc' = [q \in Requests |-> IF Alive(q) THEN "done" ELSE pc[q]]
    /\ got' = [q \in Requests |-> IF Alive(q) THEN NoNode ELSE got[q]]
    /\ snap' = [q \in Requests |-> IF Alive(q) THEN NoTable ELSE snap[q]]
    /\ idx' = [q \in Requests |-> IF Alive(q) THEN 1 ELSE idx[q]]
    /\ held' = [q \in Requests |-> IF Alive(q) THEN NoRequest ELSE held[q]]
    /\ queue' = [queue EXCEPT ![p] = <<>>]
    /\ \E Lost \in SUBSET Nodes :
          /\ conn' = [n \in Nodes |-> conn[n] /\ n \notin Lost]
          /\ beat' = [n \in Nodes |-> IF n \in Lost THEN Offline ELSE beat[n]]
    /\ UNCHANGED <<attempt, force>>

-----------------------------------------------------------------------------
(* registry.js: providers come, beat and go *)

\* registerNode lists the node idle with its model, over whatever was there: a
\* provider may be back before its old connection is seen to be gone.
RegisterNode(n) ==
    /\ conn' = [conn EXCEPT ![n] = TRUE]
    /\ \E m \in Models : table' = [table EXCEPT ![n] = [status |-> "idle", model |-> m]]
    /\ UNCHANGED <<beat, queue, pc, attempt, force, got, snap, idx, held>>

\* removeNode, after a close or a heartbeat timeout.
RemoveNode(n) ==
    /\ conn[n]
    /\ conn' = [conn EXCEPT ![n] = FALSE]
    /\ table' = [table EXCEPT ![n] = Offline]
    /\ UNCHANGED <<beat, queue, pc, attempt, force, got, snap, idx, held>>

\* updateHeartbeat of a node this router knows reads the table ...
HeartbeatRead(n) ==
    /\ Beats # {}
    /\ conn[n]
    /\ beat[n] = Offline
    /\ table[n] # Offline
    /\ beat' = [beat EXCEPT ![n] = table[n]]
    /\ UNCHANGED <<table, conn, queue, pc, attempt, force, got, snap, idx, held>>

\* ... and writes the record back with the status the node reports.
HeartbeatWrite(n) ==
    /\ beat[n] # Offline
    /\ \E s \in Beats : table' = [table EXCEPT ![n] = WithStatus(beat[n], s)]
    /\ beat' = [beat EXCEPT ![n] = Offline]
    /\ UNCHANGED <<conn, queue, pc, attempt, force, got, snap, idx, held>>

-----------------------------------------------------------------------------
\* What the handler does of its own accord, one continuation at a time.
Handler(r) ==
    \/ ForcedFound(r) \/ NoneIdle(r) \/ FoundIdle(r) \/ Claim(r)
    \/ Survey(r) \/ LookForAny(r) \/ FoundAny(r) \/ ClaimSwitch(r) \/ SwitchModel(r)
    \/ Admit(r) \/ WsRelease(r) \/ Finish(r) \/ ReleaseUnsent(r) \/ Retry(r)
    \/ Release(r) \/ Scan(r) \/ Dequeue(r) \/ Grant(r) \/ CrashOnMissingEntry(r)

Next ==
    \/ \E r \in Requests : \/ Arrive(r) \/ Handler(r) \/ Timeout(r)
                           \/ NodeReports(r) \/ AttemptLost(r) \/ Unsent(r)
    \/ \E n \in Nodes : \/ RegisterNode(n) \/ RemoveNode(n)
                        \/ HeartbeatRead(n) \/ HeartbeatWrite(n)

\* Redis replies arrive and timers fire: the entry's timer, and the gateway's
\* total timer behind AttemptLost.  Clients and providers owe nothing.
Fairness == \A r \in Requests : /\ WF_vars(Handler(r))
                                /\ WF_vars(Timeout(r))
                                /\ WF_vars(AttemptLost(r))

Spec == Init /\ [][Next]_vars /\ Fairness
-----------------------------------------------------------------------------
(* Properties *)

\* Every variable has its type.
TypeOK ==
    /\ table \in [Nodes -> NodeRecord \cup {Offline}]
    /\ conn \in [Nodes -> BOOLEAN]
    /\ beat \in [Nodes -> NodeRecord \cup {Offline}]
    /\ queue \in [Routers -> Seq(Requests)]
    /\ pc \in [Requests -> Labels]
    /\ attempt \in [Requests -> 0..MaxRetries]
    /\ force \in [Requests -> Nodes \cup {NoNode}]
    /\ got \in [Requests -> Nodes \cup {NoNode}]
    /\ snap \in [Requests -> [Nodes -> NodeRecord \cup {Offline}]]
    /\ idx \in [Requests -> Nat \ {0}]
    /\ held \in [Requests -> Requests \cup {NoRequest}]

\* The length check and the push of acquireOrQueue are on the same side of every
\* await (queue.js:71-111), so however many requests were found waiting at
\* once, a queue never holds more than QUEUE_MAX_SIZE entries.
QueueBound == \A p \in Routers : Len(queue[p]) <= MaxQueue

\* h's tryDequeue has spliced r's entry out and not yet resolved it.
Holds(h, r) == pc[h] = "hold" /\ held[h] = r

\* A request whose promise is pending can still be reached: its entry is in its
\* own router's queue, or exactly one tryDequeue of that router holds it, never
\* both.  The stale index of tryDequeue may serve the wrong entry, but loses
\* and duplicates none (queue.js:90-109, 131-148).
NoLostRequest ==
    \A r \in Requests : pc[r] = "queued" =>
        LET here == r \in ToSet(queue[RouterOf[r]])
            Holders == {h \in Requests : Holds(h, r)}
        IN /\ here => Holders = {}
           /\ ~here => \E h \in Requests : /\ Holders = {h}
                                           /\ RouterOf[h] = RouterOf[r]

\* What the gateway sees of the above (Acquisition): each time a request asks for
\* a node it is answered exactly once, by a node or by a refusal, a request that
\* is over is never revived by a late resolve, and the retries are bounded.
Phase(label) == CASE label = "new" -> "new"
                  [] label \in Searching \cup {"queued"} -> "asking"
                  [] label \in Using -> "granted"
                  [] OTHER -> "over"

Promise == INSTANCE Acquisition
              WITH phase <- [r \in Requests |-> Phase(pc[r])], retries <- attempt

AnsweredOnce == Promise!Spec

\* Every request that arrives is eventually through: found a node and finished,
\* or was refused; no handler waits for ever, whatever the other routers, the
\* providers and the heartbeats do to the table.
EveryRequestEnds == \A r \in Requests : pc[r] # "new" ~> pc[r] = "done"

\* load-balancer.js:16-17, "Marks the node as 'busy' before returning it so no
\* other request can grab it in a race condition": no two requests use one node.
ExclusiveAcquire ==
    \A r, q \in Requests :
        pc[r] = "serving" /\ pc[q] = "serving" /\ got[r] = got[q] => r = q

\* queue.js:125, 130: tryDequeue(model) serves the next matching request: the
\* entry it takes is for the model of the node it takes.
ServesMatchingModel ==
    \A r \in Requests :
        pc[r] = "hold" /\ held[r] # NoRequest => ModelOf[held[r]] = ModelOf[r]

\* queue.js:122-123, tryDequeue is "called when a node becomes idle" and "should be
\* called whenever a node finishes an inference": a handler that is through with its node does not leave a
\* request to its timer with an idle node of its model listed and nobody active.
NobodyStranded ==
    [][\A q \in Requests :
          pc[q] \in Using /\ pc'[q] = "done" =>
             ~ \E r \in Requests :
                  /\ pc'[r] = "queued"
                  /\ IdleWith(table', ModelOf[r]) # {}
                  /\ \A o \in Requests : pc'[o] \in {"new", "queued", "done"}]_vars
=============================================================================

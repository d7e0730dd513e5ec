# A TLA+ model of the P2P inference router

The repository is a gateway for large-language-model inference on volunteered
machines. Clients send OpenAI-style chat-completion requests to a *central
router* (`src/central-router`, Node.js, any number of replicas behind nginx that
share one Redis). *Provider nodes* (`src/provider-node`, Python) keep a WebSocket
to one router, announce one loaded model and run one inference after another. A
*verification engine* inside each router now and then puts a question to a node, has
the answer graded by a *trusted verifier* service, and punishes failures through the
*accounts database*, one SQLite file.
A *desktop application* (`src/provider-desktop`) starts and stops a provider process.

## Inventory

| Component (source) | State it keeps | Operations | Talks to |
|---|---|---|---|
| Request queue, load balancer (`queue.js`, `load-balancer.js`) | a FIFO array of waiting entries per router, a timer per entry | `acquireOrQueue`, `acquireNode`, `releaseNode`, `tryDequeue`, entry timeout | registry, called by gateway |
| Gateway (`gateway.js`) and request tracking (`ws-handler.js`) | attempt loop of each request, buffered chunks, `activeRequests`, `requestToNode`, event emitter | acquire, send, wait for chunk/done/error/disconnect/timers, retry, answer, release | queue, sockets of the nodes, database |
| Node registry (`registry.js`, `redis.js`) | Redis hash of node records, set of ids, routing hash; local connection map; heartbeat clock | `registerNode`, `removeNode`, `updateHeartbeat`, `markBusy`, `markIdle`, heartbeat monitor, queries | Redis, sockets |
| Rate limiter (`rate-limiter.js`) | per-key and global arrays of timestamps, per router | middleware, periodic clean-up | called before the gateway |
| Verification engine (`verifier.js`, `trusted-verifier`) | number of challenges in flight | pick a node, ask, grade, reward, strike, slash and remove | its own gateway and the trusted verifier over HTTP, database, registry |
| Accounts and usage (`db.js`) | keys with totals, usage log, provider strikes, reputation, blacklist, balances | `addProviderStrike`, `passVerificationChallenge`, `logUsage`, `updateProviderStats`, key management | called by gateway, verifier, ws-handler |
| Provider client (`ws_client.py`) | status, model, set of tasks, back-off | connect/register, heartbeat, inference, switch model, reconnect | router, local model server |
| Provider shell, desktop application | a dashboard; the child process handle | start, stop | provider process |
| Edge proxy (`nginx.conf`, `/internal/allocate`) | none | allocation in front of the routers | registry |
| Authentication, billing, logging, pairwise comparison | none | checks, stubs, formatting | - |

How they interact: a request handler awaits `acquireOrQueue`, which awaits the
registry, which awaits Redis; the gateway then sends over the node's socket and
listens for events that `ws-handler` emits for the messages coming back; when the
attempt is over it awaits `releaseNode` and calls `tryDequeue` for whoever waits.
Everything in a router runs on one thread, so what interleaves is the code
between two `await`s, of all the handlers, timers and socket callbacks, and the
Redis commands of all the routers.

What is hard, and what makes each part correct:

* **Queue and load balancer.** The node table is read, an await passes, and the
  node is written; `tryDequeue` keeps an array index over an await; a timer may
  fire between a splice and a resolve. Correct means: the queue is bounded, no
  pending request is lost or referred to twice, each promise is settled once,
  every request ends; nodes are exclusive; the entry served is one for the model.
* **Gateway.** Events are matched by request id while attempts share the id; the
  done handler awaits before it emits; a socket may close at any time, or be known as open
  long after the node is back on another, and an inference goes on from one to the next,
  losing what was unread in the first. Correct
  means: tracking never names a node the request has left, nothing changes an
  answer that has ended, every handler returns, a successful answer is complete,
  every client is answered.
* **Registry.** One logical write is several Redis commands; two writers
  read-modify-write one record; a stale socket's close handler deletes a newer
  registration; the monitor awaits between evictions. Correct means: a listed
  node has a connection somewhere, and a live registration is not undone by the
  end of an older one.
* **Rate limiter.** No window of a minute holds more than the allowed number of
  accepted requests, with the clean-up running in between.
* **Verifier and database.** Routers share one file and write it in several
  statements, each of which may fail and none of which is in a transaction; a challenge
  may be aborted at any await. Correct means: three failed challenges slash, and no
  fewer; slashing is final and takes the node off the list; the number of challenges
  in flight is bounded and exact; a key's totals follow its log.
* **Provider client, desktop.** Several tasks set one status and outlive the
  connection; the connection ends in three ways and the loop has to survive each; a
  close event comes after its process was replaced. Correct means: the status is never
  stuck, the router hears of it, no request is dropped silently while connected, the
  client keeps trying, and what runs is what the application can stop.

The hazards, each at its line, are listed in `PROJECT.json`.

## Modules

| Module | What it is |
|---|---|
| `Acquisition` | abstract: what the gateway's loop may expect of `acquireOrQueue` |
| `RequestQueue` | queue, load balancer and the node table, several routers |
| `Gateway` | attempt loops, tracking maps, events, the nodes' connections and what inferences send on them, in one router |
| `Registry` | who is listed: Redis commands, connection maps, closes, monitor, several routers |
| `SlidingWindow` | abstract: what the rate limiter promises, a limiter that remembers every accepted request |
| `RateLimiter` | the sliding windows of one router |
| `ProviderNode` | one provider process: reconnect loop, heartbeats, inferences and model switches |
| `Desktop` | extends `ProviderNode`: the application that starts, kills and forgets the process |
| `Reputation` | what several routers write to the database: strikes, slashing, usage log and totals |
| `MCRequestQueue`, `MCGateway`, `MCRegistry`, `MCRateLimiter`, `MCProviderNode`, `MCReputation` | small instances for TLC |
| `RequestQueueProofs`, `GatewayProofs`, `RegistryProofs`, `RateLimiterProofs`, `ProviderNodeProofs`, `DesktopProofs`, `ReputationProofs` | theorems and their proofs |

`Acquisition` is the seam between the two detailed modules. `RequestQueue`
implements it from below (each question gets one answer), and `Gateway` uses it
from above (it asks in turn, a bounded number of times, never after the end), so
neither has to carry the state of the other. `SlidingWindow` has no arrays and nothing to
clean up; `RateLimiter` implements it. `Desktop` composes its own variables with
those of `ProviderNode`: the death of a process is `Die` of the client, and a client
takes its other steps only while its process lives. `Reputation` sees the registry as
the set of listed nodes, which registrations and heartbeats enlarge (`Join`).

### RequestQueue and the code

A handler is a process and `pc[r]` names the `await` it is suspended at. One
action is the code from one await to the next, ending with the Redis command it
sends; since a router's Redis connection answers in order, a command takes effect
as it is sent, its reply being `snap[r]`. `table` is the Redis hash (status and
model of a record, the rest of it steers nothing here), `queue[p]` the array of
router `p`, `held[r]` the entry `tryDequeue` has spliced out, `idx[r]` the index
it keeps over the await. `WriteStatus` is the write half of `markBusy` and
`markIdle`: it puts back the record *as read*, which is how one writer loses the
other's update.

* `Arrive`, `ForcedFound`, `NoneIdle`, `FoundIdle`, `Claim`: `acquireOrQueue` and
  the first half of `acquireNode`; a challenge insists on its node.
* `Survey` to `SwitchModel`: the second half of `acquireNode`, which counts nodes
  and takes any idle one to switch its model. The switch command is never sent
  (the function refers to an undeclared `ws` and its exception is caught), so
  the node stays marked busy until somebody marks it idle.
* `Admit`, `Timeout`: the capacity test and the push; the entry's timer.
* `NodeReports`, `WsRelease`, `Finish`, `Release`, `AttemptLost`, `Unsent`,
  `ReleaseUnsent`, `Retry`: one attempt of the gateway as far as it touches the
  table; the gateway's own detail is in `Gateway`.
* `Scan`, `Dequeue`, `Grant`, `CrashOnMissingEntry`: `tryDequeue`. The last one is
  the index found before the await pointing past the end: `entry.enqueuedAt`
  throws, the rejection is unhandled, Node ends the process.
* `RegisterNode`, `RemoveNode`, `HeartbeatRead`, `HeartbeatWrite`: the registry.

### Gateway and the code

`pc`, `attempt`, `node`, `body`, `status` are the local variables of the two
handlers and what has been written to the response; `activeRequests` and
`requestToNode` are the two maps of `ws-handler.js`; `marking` holds the done and
error handlers that await `markIdle` before they emit. `Sent`, `NotSent`, `Denied` are
the outcomes of an acquisition; `Chunk`, `Reported`, `Emit`, `Close` are messages and the
listener's `React`ion; `NextAttempt` is `attempt++` with the loop's tests. The differences
between the two handlers are kept: a retried stream that has sent nothing and
finds no node returns without an answer, and the non-streaming handler does not
await `sendInferenceRequest`, so a node without a socket makes it wait for its
timer.

The connections of a node are numbered. `line[n]` is the one in the node's `self.ws`,
`open[n]` are those whose close handler has not run at the router, `local[n]` is the one
in `localConnections`. They need not agree: a half-open socket stays open at the
router beside the next one (`Connect`), the close of either empties the map (`Close`), and so
does the monitor (`Remove`). Within a connection messages keep their order.
`jobs` are inferences by the connection their messages come on, stamped with the attempt that
asked for them, a stamp the router does not see; the chunks in `body` carry the same stamp.
A job stands for what its connection still holds of an inference and, if it `ends` there, for
the inference itself. `Read` takes the next chunk of it, when the router reads it: whether it
was the network or the model that took its time is the same to the router.

* `GoOn`: after chunk `k` an inference goes on in the node's latest connection
  (`ws_client.py:306-316` looks at `self.ws` anew for each chunk). What the router had not read
  of chunks up to `k` is left in the old connection, as a job of its own that does not
  end: it may come later than what follows in the new one, or be lost. `behind` records it.
* `Close`: whatever is unread in the connection is lost. An inference whose messages came on it
  may go on in the next one, from a later chunk, or never report.

What the client gets is told by properties that say exactly how far the code goes, as
the plain wishes (`CompleteResponse`, `ClientIsAnswered`) do not hold. No chunk comes twice, and
of one inference none comes after a later one unless it was left behind; a retried stream may
have the chunks of several inferences one after the other, which `gateway.js:276` accepts
(`ChunksInOrder`). A success has all of its attempt's answer but the chunks left behind, unless
in that very step something an earlier attempt asked for is over (`SuccessIsWhole`); a request
with no retry gets exactly its node's answer, or some of it was left behind and the rest is
there (`FirstAttemptIsWhole`). So a hole in a success takes an inference that changed
connections, or an abandoned node's report. And whoever is left without an answer
has a retried stream that got nothing (`UnansweredIsRetriedStream`).

### Registry and the code

`RequestQueue` treats a read or a write of the node table as one step and looks at
what the records say. `Registry` looks at whether they are there, and takes the
steps apart: `metadata`, `active` and `routing` are the three Redis keys, and one
action is one command with the code that follows the reply before it. `local[p]` is
`localConnections` of router `p`; of the time of a last heartbeat only whether it is
older than `HEARTBEAT_TIMEOUT` matters (`late`, set by `Silence`).

* `Connect`, `Disconnect`: the provider and the network. A node has one connection
  as far as *it* knows; the router may learn of the old one's end much later
  (`"closing"`), when the node is back on a new one, here or at another router.
* `Register`, `Registered`: `registerNode`, the map entry and three commands.
* `Close`, `Removed`: the close handler and `removeNodeState`. The handler removes
  the node by its id, whatever socket it has by then.
* `Heartbeat`, `Mark`, then `Fetched`, `Updated`: the two commands that read a
  record and the two that put it back. A slot of `Calls` is a `markBusy` or `markIdle`
  call; `Reporting` are the sockets whose heartbeats carry something to store.
* `MonitorScan`, `Evict`, `Evicted`, `MonitorNext`: the loop over the stale nodes,
  with the awaits of each removal.
* `Crash`: a router dies and comes back with an empty map; Redis keeps its nodes.

`clean[s]` and `strays` are history: no removal of the node has overlapped the registration on
`s` or followed it; the nodes that a router died with, or that were removed while an update
was between reading their record and putting it back. What holds is stated with it. The stronger wishes do not hold,
and the properties are worded so as to say exactly how far the code goes: the late
close of an old socket removes the new registration (`ws-handler.js:201`), and
an update that has read the record before the removal lists the node again, with
no connection, until it registers (`registry.js:110`). `ListedIsConnected` says that these
updates and deaths are the only ways to a record whose node no router will ever evict.

### RateLimiter and the code

An array of timestamps is the set of requests pushed to it, `at[r]` being the
timestamp; the arrays are sorted, so the first element is the oldest. The
middleware has no await and is one step with three outcomes. `CleanUp` is the
30-second timer, at any time. `retryAt` turns `Retry-After` into the moment it
names. `DecidesExactly` is the refinement of `SlidingWindow`: both refusals are its refusal, and
the clean-up is a stutter.

### ProviderNode and the code

`client` is where `run()` is suspended, `ws` the object in `self.ws`: nothing, an open
connection, or one that has ended with a clean close frame or without. The difference
matters: `async for` ends without an exception after codes 1000 and 1001, and `run()`
reconnects at once; otherwise the exception leads to `_backoff_delay()`. Each slot of
`inference` and `switch` is a task of its own, reused when it ends. `told` is the status
the router has heard last on this connection.

* `Connect`, `Refused`, `Retry`, `Registered`, `RegisterFails`, `Leave`, `Heartbeat`: `run()`
  and `_connect_and_serve()`. `RegisterFails` leaves before the `try` and so keeps the
  closed object in `self.ws`. `Backoff` has the limit of Python's floats: at the
  1025th attempt in a row `2.0 * 2 ** 1024` raises `OverflowError` inside the handler,
  and `run()` ends (`"gone"`) while the process lives on.
* `Receive`, `Report`, `Ended`, `Unreported`: an inference, from its request to its `finally`
  block, which sets the status to idle whatever else is running. What it sends in between is
  in `Gateway`.
* `StartSwitch`, `Loaded`, `LoadFails`, `Settled`: a model switch; the heartbeat at its end
  still says `loading`.
* `Boot`, `Die`: the process. `Drop`: the connection.

`cut`, `overlapped` and `refused` are history. The plain wishes do not hold: with two tasks
at once the first to end declares the node idle (`ws_client.py:342`), so `StatusTellsTruth`
is exact only while no two have met, and says of all other cases that the status is
never stuck.

### Desktop and the code

`handle` is `pythonProcess`, `proc[p]` a process slot (`"dead"` until its close event is
delivered), `app` whether the application's main process is there. `StartNode`,
`StopNode`, `Closed`, `Quit` are the functions and events of `main.cjs`; `Exit` and `AppDies`
are deaths from outside. A close event sets the handle to null whichever process it
belongs to, so a stop and a quick start leave a running process without a handle
(`main.cjs:108`): `forgotten` has those, and `RunningIsKnown` says that there are no others.

### Reputation and the code

A router is one thread and `better-sqlite3` is synchronous, so what interleaves between two
statements is the other routers (`Midway` holds the own one back). Every statement may
fail; the handlers catch and log. `step[c]` is where a `challengeNode()` is: `"seen"` while
the dispatcher awaits the list, `"asking"` from its two requests to the verdict (they
are one wait: nothing of the router's state changes in between), `"striking"` between
SELECT and UPDATE, `"removing"` while Redis is asked to forget the node. `stage[r]` says how
many of the three statements after an answer have been executed.

* `Survey`, `Dispatch`, `Dismiss`: the timer's callback, with the limit tested in
  `challengeNode()`; `Abort`, `Pass`, `Unread`, `StrikeRead`: the ends of the wait. Both
  verdicts are always possible: the trusted verifier looks for words in the text, and a
  verifier that cannot be reached counts as a pass. The header that names the node to
  be asked is not read by the gateway, so the answer may even be another node's; and
  its API key is `ADMIN_SECRET`, so that where that is no key every challenge is `Abort`ed.
* `StrikeWrite`, `StrikeFails`, `Remove`, `RemoveFails`: three strikes slash.
* `Insert`, `Count`, `Credit` and their failures: `logUsage()` and `updateProviderStats()`. With
  the present schema the last one always fails, as it names a column that only an
  older database has (`Legacy`), and then no node ever has a row to be struck in.

`missed` and `excused` are history and say how far the code goes. Two routers that
read before either writes count one strike for two failures; `StrikesAddUp` says that
without that and without failed statements strikes are failures. "Permanently
slashed" is true of the database (`SlashedIsFinal`), but a registration does not look at the
blacklist, so `SlashedIsRemoved` excuses a node that has come back, as it does one whose removal
failed.

## Runs

| Run | Instance | Shows |
|---|---|---|
| `queue_promise` | 2 requests, 1 router, 1 node, capacity 1, a challenge, a retry, heartbeats | no pending request is lost or referred to twice, every request ends, and the queue implements `Acquisition` with its fairness |
| `queue_exclusive` (violated) | 2 requests, 2 routers, 1 node | two requests take one node |
| `queue_matching` (violated) | 3 requests, 2 models | `tryDequeue` serves an entry for another model |
| `queue_stranded` (violated) | 2 requests, 1 node | after `inference_error` a waiter is left to its timer beside an idle node |
| `gateway_failover` | 1 node with 2 connections, 1 retry; a plain request with 2 chunks, or a stream with 1 chunk whose client may leave, or both kinds sharing the node | tracking is consistent, no chunk comes twice, late or not at all but those left behind on the old connection (or an abandoned node's report ends the answer), an ended answer stays ended, only a retried stream is left unanswered, every handler returns and keeps its side of `Acquisition` |
| `gateway_complete` (violated) | the same requests, 2 nodes, answers of 1 chunk | a late `inference_done` of an abandoned node makes an incomplete answer a success |
| `gateway_answered` (violated) | the same requests, 2 nodes, answers of 1 chunk | a retried stream ends with its client unanswered |
| `registry` | 1 node, 2 connections at 2 routers, heartbeats and a mark, 1 router may die | only a removal undoes a registration, the map holds live sockets, a listed node is in some router's map unless it is a stray, a forgotten node comes back only by registering |
| `registry_evicts` | 2 nodes, 1 router | whoever stays silent is evicted |
| `rate_limiter` | 6 requests, 2 keys with limit 2, global limit 3, window 3, second 2, time to 7 | both limits hold in every window, `Retry-After` is honest, and the arrays accept and refuse as `SlidingWindow` does |
| `provider` | 2 inferences, 2 switches, back-off limit 3, 2 process slots | status, reports and reconnection are right, what runs can be stopped |
| `reputation` | 1 node, 2 routers, 3 challenges, 1 place each, 2 requests of one key, up to 4 failures | strikes, blacklist, places and totals are consistent between any two statements |

The five violated properties are sentences of the repository's comments or its
README; `PROJECT.json` quotes each with its line.

**Bounds.** In `queue_promise` two requests compete for one node and one place, so that
each of them finds the queue full, waits, is served, times out in the hands of
`tryDequeue`, retries or is a challenge, and a router may fall to an index past the
end. A wrong index that serves somebody else takes three requests, one that scans,
one ahead of the found entry that leaves, one that is served in its stead, and two
models to show: `queue_matching` has them. `gateway_failover` is three
instances in one state space (`Together`): only the last two requests ever meet.
A plain request is alone and gets two chunks, the fewest that have an order: each of them may be
left behind on the first connection and read before or after the other, or be lost, while the
request is at its first attempt, at its retry or done. A stream is alone with one chunk, which
reaches the client before the end, and its client may leave (`Leaving`). A stream and a plain
request share the node without chunks, which is where the tracking maps can be confused: a node
is abandoned and acquired again by the retry, or by the other request, and the socket that
closes may be the old one. Two requests with chunks on two connections are millions of states;
that sharing a node changes nothing about the chunks is left to the proofs. The two violated runs have a second
node so that their stories are plain; as they have no liveness property they use
symmetry. One retry gives a first and a last attempt. `MaxRetries`, `MaxQueue` and `Chunks` are
configuration values or lengths. Three bounds of `Gateway` stop actions:
`MaxConnections` stops `Connect` (two are an old and a new one, the fewest that coexist),
`Together` stops `Begin`, `Leaving` stops `ClientGone`. The safety properties of these runs are
proved for all values besides: any requests together, any number of chunks and connections.

In `registry` the rows of different nodes never meet, so one node is enough, and
two connections are an old one and a new one; they lead to different routers,
the case with the most interleavings. The heartbeats of the old connection carry something
to store, so that an update races with what the new one does; those of the new one only
count as signs of life. A slot of `Sockets` is used again when its
handlers are done, so reconnections are unbounded. One heartbeat of a
socket and one round of the monitor are under way at a time, where the code could
start another while Redis is slow. `registry_evicts` needs two nodes, for the loop to
go round, and leaves the updates of records out, which the map does not depend on.
In `rate_limiter` time 7 holds two disjoint windows and a part of a third; the key
limit 2 and the global limit 3 bite separately and together; `Second` does not
divide `Window`, so that rounding matters. Requests with the same key are alike
(symmetry). `MaxTime` is a bound that stops an action, `Tick`.

In `provider` two tasks of each kind are the fewest that overlap with their own kind;
`MaxAttempts` 3 stands for 1024 and leaves room for back-offs that succeed. One process slot
has the client of `ProviderNode`, the other is the process that a late close event
belongs to, or that runs beside; slots are used again, so the node is started and killed
without bound. In `reputation` one router has two challenges for its single place, the
other strikes the same node at the same time; three strikes and one more failure
(`MaxFailures` 4, the only bound that stops an action) show what comes after slashing.
Penalty and reward are 2 and 1 of 3 so that both clamps bite. `Legacy` is true, since without
a row nothing happens to a node; nodes without a row are among its initial states.

**Fairness.** Weak fairness of what a handler does of its own accord: Redis
replies arrive. Weak fairness of the timers: each entry's, and the total timer
behind `AttemptLost` and `Timeout`, which is armed with every wait and cleared
only when the wait is over. In `Registry`, of the monitor alone: its interval fires
and Redis replies to it. In `ProviderNode`, of each thing the process waits for that ends by
itself: an attempt to connect, a sleep, a send, the notice of a closed socket, the
heartbeat's interval, a model that generates or loads. Nothing is assumed of clients,
routers, sockets, the desktop application or its user; a process may die at any moment,
or never be started. `Reputation` has no fairness and no liveness property: a fetch
without a timeout may hang for ever. A weak condition is enough because no handler ever
waits for another.

**Deadlock** is checked in every run but those of `Gateway`: a provider or an application can
always come or go, and the clean-up timer always fires. In `Gateway` the connections are bounded
and requests come once, so it stops when all have returned and the last socket has closed;
that nobody waits for ever is `EveryHandlerReturns`.

## Proofs

The theorems hold for any sets of requests, nodes, models and routers and any
`MaxQueue`, `MaxRetries`, `Chunks`, under the modules' named assumptions, which
only say that the constants have their types, that the "no value" constants are not
values, and that sets whose members are counted are finite.

`RequestQueueProofs`. `TypeOK` is inductive alone (`TypeCorrect`). `NoLostRequest`
is not: it speaks of pending requests only, and a step that takes an entry out
must know that there is no second one. `QueueInv`, in the proof's module, says who may refer to a request:
an array position holds a pending request of that router, no two positions and
no position and a holder the same one, a held entry's request is pending or timed
out. It is inductive with `TypeOK` (`QueueConsistent`, one step per action; an
action that changes no queue, no holder and none of the labels concerned is
dealt with by one lemma), and `NoLostRequest` follows (`NobodyLost`). `QueueBound`
needs only the types and what removal does to a length (`QueueStaysBounded`).
`ImplementsAcquisition` maps the labels to four phases and shows that every step is
a step of `Acquisition` or a stutter; a late `Grant` stutters because its promise
is settled, and a crash is `Acquisition`'s `Crash`.

`GatewayProofs`. `ActiveIsTracked` and `TrackedIsCurrent` are inductive together: the
close handler looks the request up in one map and deletes from both, so neither
survives without the other (`ActiveTracked`, `TrackedCurrent`).
`AnswersStayEnded` needs that a request whose answer has ended is past every wait.
`KeepsContract` is the safety half of the refinement of `Acquisition`. The properties of
the answer rest on `ChunkInv`, which is about pieces: an inference that changes connections is in
as many jobs as it has left chunks unread in. `JobsInv`: the pieces of one attempt's
inference hold different chunks, one of them at most holds its end, all others hold only chunks
recorded as left behind, and there are none of an attempt that was not made. `TokensInv`: a
chunk in an answer is in no piece any more, so that whichever is read next is new, and it is
beyond all that have come or was left behind (`ChunksOrdered`). `WholeInv` is why a
success is whole: while a request listens, it has every chunk of its current attempt's inference
that is before the end-piece, and once that inference has reported every chunk there is,
but for those left behind (`SuccessWhole`). `FirstInv`: as long as nothing was left behind
at the first attempt, the answer is exactly what its one piece has sent, as nobody else has
sent anything yet (`FirstAttemptWhole`). `GoOn` is the step that splits a piece, and
`Sent`, `Chunk` and `Reported` make, shorten and end one: these four are treated apart; every
other step is `Calm` (it adds nothing to an answer and no piece) or leaves the requests alone.
That a chunk once left behind stays recorded (`BehindGrows`) keeps what was excused excused.
`UnansweredRetried` needs its property from the moment a handler is through with its attempts,
while it still releases its node (`AllExcused`).

`RegistryProofs`. `LocalIsLive` is inductive with the types, because a slot is used
again only when it is closed, and then no map holds it (`LocalsAreLive`).
`UndisturbedIsListed` speaks of finished registrations; the proof follows one
command by command (`ListedSoFar`) and adds that no removal of the node is under
way, which is what keeps the second and third command of somebody's removal from
taking away what this registration has put there (`UndisturbedListed`).
`ForgottenForGood` is an action property: each step that adds something about a
node has a handler in a state that `Forgotten` excludes. `ListedIsConnected` is inductive with
`WriteBack`: an update about to put a record back finds the record there, or the node is a
stray already (`ListedConnected`).

`RateLimiterProofs`. The invariant is `CountsExactly`, that the fresh elements of the arrays are
the accepted requests of the last window, strengthened by what each
request's time has to do with the clock: nothing was seen in the future, and
finitely many were accepted, so that sizes can be compared. The bounds
follow with it for the window that ends now, and a window that ended earlier is
preserved since nothing is accepted in the past (`KeyRateBounded`,
`GlobalRateBounded`, together `RatesBounded`). Justified refusals and the honest `Retry-After`
(`RefusalsJustified`, `RetryAfterHonest`) rest on the same meaning of the arrays,
and on what rounding up does. `DecisionsAreIdeal` is the whole refinement of `SlidingWindow`:
as the fresh elements are those it counts, a decision is `Decide`, time is `Tick`, and the
clean-up changes nothing it can see.

`ProviderNodeProofs`. `StatusTellsTruth` is not inductive: that a task ends and leaves a true
status needs that without an overlap it was the only one (`AloneIsOne`). The back-off counts
the attempts refused in a row, and one more after a lost connection (`Counting`), so a
client that has given up was refused `MaxAttempts` times (`GivesUpCorrect`). With `CutIsKnown`,
that without a connection every inference is known to be cut off, these make up the
invariant. `LossCorrect` is an
action property: whoever finds the socket closed began before it closed, or after.

`DesktopProofs`. `NodeInDesktop`: a step of the composition is, for the client, `Boot`, `Die`, its own
step or a stutter, so each theorem about `ProviderNode` holds in the application.
`RunningCorrect` is inductive; `StoppedCorrect` follows from it and from the fact that a dead
process has no client.

`ReputationProofs`. `PlacesAddUp` is a cardinality followed through each step, and gives the bound
of `TypeOK` on the places. The strikes written and read never exceed the failures
graded (`SlashedForThree`); equality, for the nodes nobody has missed, needs that at most
one challenge of the node is between its statements, with the strikes that are there
(`StrikesAddUp`). `SlashedIsFinal` needs that a blacklisted node's reputation is zero.
Totals are cardinalities again.

What only TLC shows: `EveryRequestEnds`, `EveryHandlerReturns`, `SilentIsEvicted`, `ToldIdle`,
`KeepsTrying` and the fairness
halves of `AnsweredOnce` and `AcquiresInTurn`, liveness being out of the prover's
reach; and the violated properties, which are counterexamples. Every other property of a
passing run is a theorem.

## Plan

1. `Acquisition`, `RequestQueue` with proofs - done.
2. `Gateway` with proofs - done.
3. `Registry` with proofs - done.
4. `RateLimiter` with proofs - done.
5. `Reputation` with proofs - done.
6. `ProviderNode` with proofs - done.
7. `Desktop` with proofs - done.

What could follow: how far `tryDequeue` serves the right entry (no entry at or before its index
has left), which takes a third request, a second model and a history variable in `RequestQueue`.

## Not modelled

* In `RequestQueue`: a table read or write is one step (its commands are the
  registry's matter), a router ignores heartbeats of nodes it does not know, and
  the empty table a router sees without `REDIS_URL`.
* In `Registry`: the removal of a slashed node, which is in `Reputation`, with the registry
  as a set; an update's read and a removal's commands on one Redis connection are answered in
  order, and the model also allows other orders.
* In `RateLimiter`: a clock that is set back, and the sum over routers: each process
  has windows of its own, so the bounds are per process. Requests without a
  key are left out: `auth.js:55` lets any request with the header `Upgrade: websocket` through
  without one, and `rate-limiter.js:46` passes those that the global window has room for without
  counting them in any window.
* In `Gateway`: the two timers of a wait are one action, since both end the attempt
  alike; a request or an inference that gets lost is one that never reports. A node's
  connections register in the order they are made.
* Allocation at the proxy: it calls `registry.getNodeRouting`, which is not exported.
  A node named in `x-allocated-node` is, for `Gateway`, one of the nodes
  an acquisition may give.
* In `ProviderNode`: `stop()`, which nobody calls; the thread that loads a model; a
  switch to the model that is loaded, which returns at once.
* In `Desktop`: window, tray and the page, which show what they are sent and call the two
  functions modelled; a `kill` that throws.
* In `Reputation`: balances, which start at zero and are never increased; tokens beside
  requests in the totals; key management and dashboard queries, each a single statement on
  which nothing modelled depends; the words the trusted verifier looks for.
* Authentication, billing and logging hold no state; the terminal dashboard,
  downloads and GPU probing are input and output; the pairwise comparison is
  called by nothing.

------------------------------- MODULE Registry -------------------------------
(***************************************************************************)
(* Who is listed: the registry of registry.js, command by command as       *)
(* redis.js sends it, with the register, heartbeat and close handlers of   *)
(* ws-handler.js and the heartbeat monitor, over several routers that      *)
(* share one Redis.                                                        *)
(*                                                                         *)
(* Redis holds a hash of node records, the set of active ids and a hash of *)
(* routing entries; a node is visible if it is active and has a record.    *)
(* Each router holds a map from node to socket.  A record's contents are   *)
(* RequestQueue's matter: here it exists or not.  As there, a command      *)
(* takes effect when it is sent, and its reply is used by the next action. *)
(*                                                                         *)
(* A provider that reconnects does so on a socket of its own; the router   *)
(* may learn of the old one's end much later, or be another router.        *)
(***************************************************************************)
EXTENDS Integers

CONSTANTS
    Nodes, Routers,
    Sockets,      \* slots for the connections providers make; each is used again
    NodeOf,       \* the provider of each socket
    RouterOf,     \* the router nginx gave it
    Reporting,    \* the sockets whose heartbeats carry a status or free memory
    Calls,        \* slots for markBusy and markIdle calls; one in flight in each
    Marked,       \* the node such a call is about
    MayCrash,     \* routers that may die and come back
    NoSocket, NoRouter, NoNode

ASSUME RegistryAssumption ==
    /\ NodeOf \in [Sockets -> Nodes]
    /\ RouterOf \in [Sockets -> Routers]
    /\ Reporting \subseteq Sockets
    /\ Marked \in [Calls -> Nodes]
    /\ Sockets \cap Calls = {}
    /\ MayCrash \subseteq Routers
    /\ NoSocket \notin Sockets
    /\ NoRouter \notin Routers
    /\ NoNode \notin Nodes

VARIABLES
    (* Redis *)
    metadata,   \* the nodes with a record in p2p:nodes:metadata
    active,     \* p2p:nodes:active
    routing,    \* p2p:nodes:routing
    (* Per router *)
    local,      \* localConnections: Nodes -> the socket, or NoSocket
    late,       \* its entries whose last heartbeat is older than HEARTBEAT_TIMEOUT
    evict,      \* the heartbeat monitor's loop
    (* Per socket *)
    sock,       \* "closing": ended for the provider, the router has not noticed
    reg,        \* the register handler, by the command it sends next
    rem,        \* the close handler
    (* Per socket, for its heartbeat handler, and per call *)
    upd,
    (* History *)
    clean,      \* no removal of its node has overlapped or followed the registration
    strays      \* since it registered last a node's router died, or it was removed while an
                \* update had its record to write back

redis == <<metadata, active, routing>>
tasks == <<evict, reg, rem, upd>>
history == <<clean, strays>>
vars == <<redis, local, late, sock, tasks, history>>

Writers == Sockets \cup Calls
Target(w) == IF w \in Sockets THEN NodeOf[w] ELSE Marked[w]
NoTask == [todo |-> {}, node |-> NoNode, step |-> "none"]

Init ==
    /\ metadata = {} /\ active = {}
    /\ routing = [n \in Nodes |-> NoRouter]
    /\ local = [p \in Routers |-> [n \in Nodes |-> NoSocket]]
    /\ late = [p \in Routers |-> {}]
    /\ evict = [p \in Routers |-> NoTask]
    /\ sock = [s \in Sockets |-> "closed"]
    /\ reg = [s \in Sockets |-> "none"]
    /\ rem = [s \in Sockets |-> "none"]
    /\ upd = [w \in Writers |-> "none"]
    /\ clean = [s \in Sockets |-> FALSE]
    /\ strays = {}

\* Somebody is in the middle of removing n.
BeingRemoved(n) ==
    \/ \E s \in Sockets : NodeOf[s] = n /\ rem[s] # "none"
    \/ \E p \in Routers : evict[p].node = n /\ evict[p].step \in {"srem", "unroute"}

\* A removal of n begins.
Disturb(n) ==
    /\ clean' = [s \in Sockets |-> clean[s] /\ NodeOf[s] # n]
    /\ strays' = IF \E w \in Writers : Target(w) = n /\ upd[w] = "hset"
                 THEN strays \cup {n} ELSE strays \ {n}

-----------------------------------------------------------------------------
(* Connections *)

\* A provider has one connection at a time, as far as it knows.  A slot is free
\* when the handlers of its last connection are done.
Connect(s) ==
    /\ sock[s] = "closed"
    /\ reg[s] \in {"none", "done"} /\ rem[s] = "none" /\ upd[s] = "none"
    /\ \A t \in Sockets : NodeOf[t] = NodeOf[s] => sock[t] # "open"
    /\ sock' = [sock EXCEPT ![s] = "open"]
    /\ reg' = [reg EXCEPT ![s] = "none"]
    /\ clean' = [clean EXCEPT ![s] = FALSE]
    /\ UNCHANGED <<redis, local, late, evict, rem, upd, strays>>

\* The provider leaves, or the network between is lost.
Disconnect(s) ==
    /\ sock[s] = "open"
    /\ sock' = [sock EXCEPT ![s] = "closing"]
    /\ UNCHANGED <<redis, local, late, tasks, history>>

\* The register message: the map entry, and the first command of setNodeState.
Register(s) ==
    LET n == NodeOf[s]
        p == RouterOf[s]
    IN
    /\ sock[s] \in {"open", "closing"}
    /\ reg[s] = "none"
    /\ local' = [local EXCEPT ![p][n] = s]
    /\ late' = [late EXCEPT ![p] = @ \ {n}]
    /\ metadata' = metadata \cup {n}
    /\ reg' = [reg EXCEPT ![s] = "sadd"]
    /\ clean' = [clean EXCEPT ![s] = ~BeingRemoved(n)]
    /\ strays' = strays \ {n}
    /\ UNCHANGED <<active, routing, sock, evict, rem, upd>>

\* Mutant of Registered: registerNode leaves the routing entry out.
RegisteredUnrouted(s) ==
    /\ reg[s] = "sadd"
    /\ active' = active \cup {NodeOf[s]}
    /\ reg' = [reg EXCEPT ![s] = "done"]
    /\ UNCHANGED <<metadata, routing, local, late, sock, evict, rem, upd, history>>

\* The rest of registerNode: the active set, then the routing entry.
Registered(s) ==
    /\ \/ /\ reg[s] = "sadd"
          /\ active' = active \cup {NodeOf[s]}
          /\ reg' = [reg EXCEPT ![s] = "route"]
          /\ UNCHANGED routing
       \/ /\ reg[s] = "route"
          /\ routing' = [routing EXCEPT ![NodeOf[s]] = RouterOf[s]]
          /\ reg' = [reg EXCEPT ![s] = "done"]
          /\ UNCHANGED active
    /\ UNCHANGED <<metadata, local, late, sock, evict, rem, upd, history>>

\* Mutant of Close: the entry is deleted only if the handler's socket is still open.
CloseKeepsEntry(s) ==
    LET n == NodeOf[s] IN
    /\ sock[s] = "closing"
    /\ sock' = [sock EXCEPT ![s] = "closed"]
    /\ IF reg[s] = "none"
       THEN UNCHANGED <<metadata, rem, history>>
       ELSE /\ metadata' = metadata \ {n}
            /\ rem' = [rem EXCEPT ![s] = "srem"]
            /\ Disturb(n)
    /\ UNCHANGED <<active, routing, local, late, evict, reg, upd>>

\* The close event: if the socket was registered its node is removed, whichever
\* socket the node has by now.
Close(s) ==
    LET n == NodeOf[s]
        p == RouterOf[s]
    IN
    /\ sock[s] = "closing"
    /\ sock' = [sock EXCEPT ![s] = "closed"]
    /\ IF reg[s] = "none"
       THEN UNCHANGED <<metadata, local, late, rem, history>>
       ELSE /\ local' = [local EXCEPT ![p][n] = NoSocket]
            /\ late' = [late EXCEPT ![p] = @ \ {n}]
            /\ metadata' = metadata \ {n}
            /\ rem' = [rem EXCEPT ![s] = "srem"]
            /\ Disturb(n)
    /\ UNCHANGED <<active, routing, evict, reg, upd>>

\* The rest of removeNodeState: the active set, then the routing entry.
Removed(s) ==
    /\ \/ /\ rem[s] = "srem"
          /\ active' = active \ {NodeOf[s]}
          /\ rem' = [rem EXCEPT ![s] = "unroute"]
          /\ UNCHANGED routing
       \/ /\ rem[s] = "unroute"
          /\ routing' = [routing EXCEPT ![NodeOf[s]] = NoRouter]
          /\ rem' = [rem EXCEPT ![s] = "none"]
          /\ UNCHANGED active
    /\ UNCHANGED <<metadata, local, late, sock, evict, reg, upd, history>>

-----------------------------------------------------------------------------
(* Updates of a record: updateHeartbeat, markBusy, markIdle *)

\* getAllNodes begins with the active ids; a node that is not among them is not found.
AskActive(w) ==
    upd' = [upd EXCEPT ![w] = IF Target(w) \in active THEN "hmget" ELSE "none"]

\* A heartbeat of a node in the map; others are ignored.  One of a socket's at a time
\* is under way.
Heartbeat(s) ==
    LET n == NodeOf[s]
        p == RouterOf[s]
    IN
    /\ sock[s] \in {"open", "closing"}
    /\ reg[s] # "none"
    /\ upd[s] = "none"
    /\ local[p][n] # NoSocket
    /\ late' = [late EXCEPT ![p] = @ \ {n}]
    /\ IF s \in Reporting THEN AskActive(s) ELSE UNCHANGED upd
    /\ UNCHANGED <<redis, local, sock, evict, reg, rem, history>>

Mark(c) ==
    /\ upd[c] = "none"
    /\ AskActive(c)
    /\ UNCHANGED <<redis, local, late, sock, evict, reg, rem, history>>

\* Mutant of Fetched: a record that is not found is made anew.
FetchedOrMade(w) ==
    /\ upd[w] = "hmget"
    /\ upd' = [upd EXCEPT ![w] = "hset"]
    /\ UNCHANGED <<redis, local, late, sock, evict, reg, rem, history>>

\* The records of the ids just read; this node's may be gone again.
Fetched(w) ==
    /\ upd[w] = "hmget"
    /\ upd' = [upd EXCEPT ![w] = IF Target(w) \in metadata THEN "hset" ELSE "none"]
    /\ UNCHANGED <<redis, local, late, sock, evict, reg, rem, history>>

\* setNodeState puts the record back and the id into the active set.
Updated(w) ==
    /\ \/ /\ upd[w] = "hset"
          /\ metadata' = metadata \cup {Target(w)}
          /\ upd' = [upd EXCEPT ![w] = "sadd"]
          /\ UNCHANGED active
       \/ /\ upd[w] = "sadd"
          /\ active' = active \cup {Target(w)}
          /\ upd' = [upd EXCEPT ![w] = "none"]
          /\ UNCHANGED metadata
    /\ UNCHANGED <<routing, local, late, sock, evict, reg, rem, history>>

-----------------------------------------------------------------------------
(* The heartbeat monitor.  Its interval callback may overlap itself in the code; *)
(* here a router runs one at a time.                                             *)

\* HEARTBEAT_TIMEOUT passes without a heartbeat of an entry of the map.
Silence(p, n) ==
    /\ local[p][n] # NoSocket
    /\ n \notin late[p]
    /\ late' = [late EXCEPT ![p] = @ \cup {n}]
    /\ UNCHANGED <<redis, local, sock, tasks, history>>

\* One round of the loop: close the socket the node has now, and begin removeNode.
Evict(p, n, rest) ==
    /\ sock' = [s \in Sockets |-> IF s = local[p][n] /\ sock[s] = "open"
                                  THEN "closing" ELSE sock[s]]
    /\ local' = [local EXCEPT ![p][n] = NoSocket]
    /\ late' = [late EXCEPT ![p] = @ \ {n}]
    /\ metadata' = metadata \ {n}
    /\ evict' = [evict EXCEPT ![p] = [todo |-> rest, node |-> n, step |-> "srem"]]
    /\ Disturb(n)
    /\ UNCHANGED <<active, routing, reg, rem, upd>>

\* Mutant of MonitorScan: the stale nodes are taken from those visible in Redis.
MonitorScanListed(p) ==
    LET staleIds == late[p] \cap active IN
    /\ evict[p].step = "none"
    /\ \E n \in staleIds : Evict(p, n, staleIds \ {n})

\* The stale nodes are collected, then removed one after the other.
MonitorScan(p) ==
    LET staleIds == late[p] IN
    /\ evict[p].step = "none"
    /\ \E n \in staleIds : Evict(p, n, staleIds \ {n})

\* Mutant of Evicted: the loop goes round once more than it has nodes.
EvictedOnceMore(p) ==
    /\ \/ /\ evict[p].step = "srem"
          /\ active' = active \ {evict[p].node}
          /\ evict' = [evict EXCEPT ![p].step = "unroute"]
          /\ UNCHANGED routing
       \/ /\ evict[p].step = "unroute"
          /\ routing' = [routing EXCEPT ![evict[p].node] = NoRouter]
          /\ evict' = [evict EXCEPT ![p].step = "next", ![p].node = NoNode]
          /\ UNCHANGED active
    /\ UNCHANGED <<metadata, local, late, sock, reg, rem, upd, history>>

\* The rest of removeNodeState, and on to the next stale node if there is one.
Evicted(p) ==
    /\ \/ /\ evict[p].step = "srem"
          /\ active' = active \ {evict[p].node}
          /\ evict' = [evict EXCEPT ![p].step = "unroute"]
          /\ UNCHANGED routing
       \/ /\ evict[p].step = "unroute"
          /\ routing' = [routing EXCEPT ![evict[p].node] = NoRouter]
          /\ evict' = [evict EXCEPT ![p] =
                IF @.todo = {} THEN NoTask ELSE [@ EXCEPT !.step = "next", !.node = NoNode]]
          /\ UNCHANGED active
    /\ UNCHANGED <<metadata, local, late, sock, reg, rem, upd, history>>

\* Whether the next one is still stale is not asked again.
MonitorNext(p) ==
    /\ evict[p].step = "next"
    /\ \E n \in evict[p].todo : Evict(p, n, evict[p].todo \ {n})

\* A router dies with its connections, its map and all its handlers, and restarts;
\* what it had listed stays in Redis.  Its calls are among the Dropped ones.
Crash(p) ==
    LET Mine(s) == s \in Sockets /\ RouterOf[s] = p IN
    /\ p \in MayCrash
    /\ sock' = [s \in Sockets |-> IF Mine(s) THEN "closed" ELSE sock[s]]
    /\ reg' = [s \in Sockets |-> IF Mine(s) THEN "none" ELSE reg[s]]
    /\ rem' = [s \in Sockets |-> IF Mine(s) THEN "none" ELSE rem[s]]
    /\ clean' = [s \in Sockets |-> clean[s] /\ ~Mine(s)]
    /\ strays' = strays \cup {n \in Nodes : local[p][n] # NoSocket}
    /\ \E Dropped \in SUBSET Calls :
          upd' = [w \in Writers |-> IF Mine(w) \/ w \in Dropped THEN "none" ELSE upd[w]]
    /\ local' = [local EXCEPT ![p] = [n \in Nodes |-> NoSocket]]
    /\ late' = [late EXCEPT ![p] = {}]
    /\ evict' = [evict EXCEPT ![p] = NoTask]
    /\ UNCHANGED redis

-----------------------------------------------------------------------------
Monitor(p) == MonitorScan(p) \/ Evicted(p) \/ MonitorNext(p)
Writing(w) == Fetched(w) \/ Updated(w)

Next ==
    \/ \E s \in Sockets : \/ Connect(s) \/ Disconnect(s) \/ Close(s) \/ Removed(s)
                          \/ Register(s) \/ Registered(s) \/ Heartbeat(s)
    \/ \E c \in Calls : Mark(c)
    \/ \E w \in Writers : Writing(w)
    \/ \E p \in Routers : Monitor(p) \/ Crash(p) \/ \E n \in Nodes : Silence(p, n)

\* The interval timer fires and Redis replies to the monitor; no more is needed.
Fairness == \A p \in Routers : WF_vars(Monitor(p))

Spec == Init /\ [][Next]_vars /\ Fairness
-----------------------------------------------------------------------------
(* Properties *)

\* What getAllNodes returns, and so what can be given work.
Visible(n) == n \in active /\ n \in metadata

\* Every variable has its type; the monitor goes on only if there is a node left.
TypeOK ==
    /\ metadata \subseteq Nodes
    /\ active \subseteq Nodes
    /\ routing \in [Nodes -> Routers \cup {NoRouter}]
    /\ local \in [Routers -> [Nodes -> Sockets \cup {NoSocket}]]
    /\ late \in [Routers -> SUBSET Nodes]
    /\ evict \in [Routers -> [todo : SUBSET Nodes, node : Nodes \cup {NoNode},
                              step : {"none", "srem", "unroute", "next"}]]
    /\ \A p \in Routers : /\ evict[p].step = "next" => evict[p].todo # {}
                          /\ evict[p].step \in {"srem", "unroute"} <=> evict[p].node # NoNode
    /\ sock \in [Sockets -> {"open", "closing", "closed"}]
    /\ reg \in [Sockets -> {"none", "sadd", "route", "done"}]
    /\ rem \in [Sockets -> {"none", "srem", "unroute"}]
    /\ upd \in [Writers -> {"none", "hmget", "hset", "sadd"}]
    /\ clean \in [Sockets -> BOOLEAN]
    /\ strays \subseteq Nodes

\* A router never sends work into a connection it knows to be over: the map, which
\* five pieces of code write, holds only sockets of that node and router that have
\* registered and whose close has not been handled (registry.js:33, 58, 206-212).
LocalIsLive ==
    \A p \in Routers : \A n \in Nodes :
        LET s == local[p][n] IN
        /\ s # NoSocket => /\ NodeOf[s] = n /\ RouterOf[s] = p
                           /\ reg[s] # "none"
                           /\ sock[s] \in {"open", "closing"}
        /\ n \in late[p] => s # NoSocket

\* Only a removal can undo a registration: if none overlapped it or came after it,
\* the node is visible, routed and reachable, whatever heartbeats, marks and other
\* registrations of the node did between its three commands (registry.js:31-46).
UndisturbedIsListed ==
    \A s \in Sockets : clean[s] /\ reg[s] = "done" =>
        /\ Visible(NodeOf[s])
        /\ routing[NodeOf[s]] # NoRouter
        /\ local[RouterOf[s]][NodeOf[s]] # NoSocket

\* A node with a record has a connection, so a router that will evict it when it is silent:
\* unless a router died with it, or a heartbeat or mark that had read its record wrote it
\* back after the removal (registry.js:57-59, 104-110).  Nobody evicts those; the
\* monitors only look at their own maps (registry.js:198).
ListedIsConnected ==
    \A n \in metadata : n \in strays \/ \E p \in Routers : local[p][n] # NoSocket

\* Nothing in Redis is about n, and nobody is about to write anything about it.
Forgotten(n) ==
    /\ n \notin metadata
    /\ n \notin active
    /\ routing[n] = NoRouter
    /\ \A s \in Sockets : NodeOf[s] = n => reg[s] \notin {"sadd", "route"}
    /\ \A w \in Writers : Target(w) = n => upd[w] \notin {"hset", "sadd"}

\* A node that is gone is not brought back by a heartbeat, a mark or a monitor: only
\* by registering (registry.js:105, "if (node)", after a read in two commands).
ForgottenStaysForgotten ==
    [][\A n \in Nodes : Forgotten(n) =>
          \/ Forgotten(n)'
          \/ \E s \in Sockets : NodeOf[s] = n /\ reg[s] = "none" /\ reg'[s] = "sadd"]_vars

\* README.md:228: a node in a router's map that stays silent is evicted from it, or
\* was heard of after all, though other routers may have removed it from Redis.
SilentIsEvicted ==
    \A p \in Routers : \A n \in Nodes : n \in late[p] ~> n \notin late[p]
=============================================================================

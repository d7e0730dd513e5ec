---------------------------- MODULE RegistryProofs ----------------------------
(***************************************************************************)
(* Proofs about Registry, for any number of nodes, routers, connections    *)
(* and calls, with or without crashes.                                     *)
(***************************************************************************)
EXTENDS Registry, TLAPS

USE RegistryAssumption

(* --------------------------- Type correctness ------------------------- *)

Steps == {"none", "srem", "unroute", "next"}
EvictType == evict \in [Routers -> [todo : SUBSET Nodes, node : Nodes \cup {NoNode}, step : Steps]]
GoesOn ==
    \A p \in Routers : /\ evict[p].step = "next" => evict[p].todo # {}
                       /\ evict[p].step \in {"srem", "unroute"} <=> evict[p].node # NoNode
EvictOK == EvictType /\ GoesOn

RedisType ==
    /\ metadata \subseteq Nodes
    /\ active \subseteq Nodes
    /\ routing \in [Nodes -> Routers \cup {NoRouter}]

RouterType ==
    /\ local \in [Routers -> [Nodes -> Sockets \cup {NoSocket}]]
    /\ late \in [Routers -> SUBSET Nodes]

SocketType ==
    /\ sock \in [Sockets -> {"open", "closing", "closed"}]
    /\ reg \in [Sockets -> {"none", "sadd", "route", "done"}]
    /\ rem \in [Sockets -> {"none", "srem", "unroute"}]
    /\ upd \in [Writers -> {"none", "hmget", "hset", "sadd"}]
    /\ clean \in [Sockets -> BOOLEAN]
    /\ strays \subseteq Nodes

LEMMA TypeParts == TypeOK <=> EvictOK /\ RedisType /\ RouterType /\ SocketType
BY Zenon DEF TypeOK, EvictOK, EvictType, GoesOn, Steps, RedisType, RouterType, SocketType

LEMMA TypePartsNext == EvictOK' /\ RedisType' /\ RouterType' /\ SocketType' => TypeOK'
BY Zenon DEF TypeOK, EvictOK, EvictType, GoesOn, Steps, RedisType, RouterType, SocketType

\* One round of the monitor's loop writes one well-formed record.
LEMMA EvictSet ==
    ASSUME EvictOK, NEW p \in Routers, NEW rec,
           rec \in [todo : SUBSET Nodes, node : Nodes \cup {NoNode}, step : Steps],
           rec.step = "next" => rec.todo # {},
           rec.step \in {"srem", "unroute"} <=> rec.node # NoNode,
           evict' = [evict EXCEPT ![p] = rec]
    PROVE  EvictOK'
<1>1. EvictType'
  BY DEF EvictOK, EvictType
<1>2. ASSUME NEW q \in Routers
      PROVE  /\ evict'[q].step = "next" => evict'[q].todo # {}
             /\ evict'[q].step \in {"srem", "unroute"} <=> evict'[q].node # NoNode
  <2>1. CASE q = p
    BY <2>1 DEF EvictOK, EvictType
  <2>2. CASE q # p
    <3>1. evict'[q] = evict[q]
      BY <2>2 DEF EvictOK, EvictType
    <3> QED  BY <3>1 DEF EvictOK, GoesOn
  <2> QED  BY <2>1, <2>2
<1> QED  BY <1>1, <1>2 DEF EvictOK, GoesOn

LEMMA EvictUnchanged == EvictOK /\ UNCHANGED evict => EvictOK'
BY DEF EvictOK, EvictType, GoesOn

LEMMA WriterTypes ==
    ASSUME NEW w \in Writers
    PROVE  Target(w) \in Nodes
BY DEF Writers, Target

LEMMA DisturbType ==
    ASSUME SocketType, NEW n \in Nodes, Disturb(n)
    PROVE  clean' \in [Sockets -> BOOLEAN] /\ strays' \subseteq Nodes
<1>1. \A s \in Sockets : (clean[s] /\ NodeOf[s] # n) \in BOOLEAN
  OBVIOUS
<1> QED  BY <1>1 DEF Disturb, SocketType

LEMMA InitType == Init => TypeOK
BY DEF Init, TypeOK, NoTask, Writers

LEMMA SocketStepType ==
    ASSUME TypeOK, NEW s \in Sockets,
           \/ Connect(s) \/ Disconnect(s) \/ Close(s) \/ Removed(s)
           \/ Register(s) \/ Registered(s) \/ Heartbeat(s)
    PROVE  TypeOK'
<1> USE TypeParts, TypePartsNext
<1>0. NodeOf[s] \in Nodes /\ RouterOf[s] \in Routers /\ s \in Writers
  BY DEF Writers
<1>1. CASE Connect(s)
  <2>1. EvictOK'
    BY <1>1, EvictUnchanged DEF Connect
  <2> QED  BY <1>1, <2>1 DEF Connect, redis, RedisType, RouterType, SocketType
<1>2. CASE Disconnect(s)
  <2>1. EvictOK'
    BY <1>2, EvictUnchanged DEF Disconnect, tasks
  <2> QED  BY <1>2, <2>1 DEF Disconnect, redis, tasks, RedisType, RouterType, SocketType, history
<1>3. CASE Close(s)
  <2>1. EvictOK'
    BY <1>3, EvictUnchanged DEF Close
  <2>2. CASE reg[s] = "none"
    BY <1>3, <2>1, <2>2 DEF Close, RedisType, RouterType, SocketType, history
  <2>3. CASE reg[s] # "none"
    <3>1. RouterType'
      <4> DEFINE p == RouterOf[s]
                 n == NodeOf[s]
      <4>1. /\ local' = [local EXCEPT ![p][n] = NoSocket]
            /\ late' = [late EXCEPT ![p] = @ \ {n}]
        BY <1>3, <2>3 DEF Close
      <4>2. p \in Routers /\ n \in Nodes
        BY <1>0
      <4> HIDE DEF p, n
      <4> QED  BY <4>1, <4>2 DEF RouterType
    <3>2. clean' \in [Sockets -> BOOLEAN] /\ strays' \subseteq Nodes
      BY <1>0, <1>3, <2>3, DisturbType DEF Close
    <3> QED  BY <1>3, <2>1, <2>3, <3>1, <3>2 DEF Close, RedisType, SocketType
  <2> QED  BY <2>2, <2>3
<1>4. CASE Removed(s)
  <2>1. EvictOK'
    BY <1>4, EvictUnchanged DEF Removed
  <2> QED  BY <1>4, <1>0, <2>1 DEF Removed, RedisType, RouterType, SocketType, history
<1>5. CASE Register(s)
  <2>1. EvictOK'
    BY <1>5, EvictUnchanged DEF Register
  <2>2. clean' \in [Sockets -> BOOLEAN]
    BY <1>5 DEF Register, BeingRemoved, SocketType
  <2>3. RouterType'
    BY <1>5, <1>0 DEF Register, RouterType
  <2> QED  BY <1>5, <1>0, <2>1, <2>2, <2>3 DEF Register, RedisType, SocketType
<1>6. CASE Registered(s)
  <2>1. EvictOK'
    BY <1>6, EvictUnchanged DEF Registered
  <2>2. RedisType'
    BY <1>6, <1>0 DEF Registered, RedisType
  <2>3. SocketType'
    BY <1>6 DEF Registered, SocketType, history
  <2>4. RouterType'
    BY <1>6 DEF Registered, RouterType
  <2> QED  BY <2>1, <2>2, <2>3, <2>4
<1>7. CASE Heartbeat(s)
  <2>1. EvictOK'
    BY <1>7, EvictUnchanged DEF Heartbeat
  <2>2. upd' \in [Writers -> {"none", "hmget", "hset", "sadd"}]
    BY <1>7, <1>0 DEF Heartbeat, AskActive, SocketType
  <2> QED  BY <1>7, <1>0, <2>1, <2>2 DEF Heartbeat, redis, RedisType, RouterType, SocketType, history
<1> QED  BY <1>1, <1>2, <1>3, <1>4, <1>5, <1>6, <1>7

LEMMA UpdateStepType ==
    ASSUME TypeOK, NEW w \in Writers,
           (w \in Calls /\ Mark(w)) \/ Fetched(w) \/ Updated(w)
    PROVE  TypeOK'
<1> USE TypeParts, TypePartsNext
<1>0. Target(w) \in Nodes
  BY WriterTypes
<1>1. EvictOK'
  BY EvictUnchanged DEF Mark, Fetched, Updated
<1>2. CASE Mark(w)
  BY <1>1, <1>2 DEF Mark, AskActive, redis, RedisType, RouterType, SocketType, history
<1>3. CASE Fetched(w)
  BY <1>1, <1>3 DEF Fetched, redis, RedisType, RouterType, SocketType, history
<1>4. CASE Updated(w)
  BY <1>0, <1>1, <1>4 DEF Updated, RedisType, RouterType, SocketType, history
<1> QED  BY <1>2, <1>3, <1>4

LEMMA EvictStepType ==
    ASSUME TypeOK, NEW p \in Routers, NEW n \in Nodes, NEW rest \in SUBSET Nodes,
           Evict(p, n, rest)
    PROVE  TypeOK'
<1> USE TypeParts, TypePartsNext
<1>1. EvictOK'
  <2> DEFINE rec == [todo |-> rest, node |-> n, step |-> "srem"]
  <2>1. rec \in [todo : SUBSET Nodes, node : Nodes \cup {NoNode}, step : Steps]
    BY DEF Steps
  <2>2. evict' = [evict EXCEPT ![p] = rec]
    BY DEF Evict
  <2>3. rec.step = "srem" /\ rec.node # NoNode
    OBVIOUS
  <2> HIDE DEF rec
  <2> QED  BY <2>1, <2>2, <2>3, EvictSet
<1>2. RouterType'
  BY DEF Evict, RouterType
<1>3. SocketType'
  <2>1. clean' \in [Sockets -> BOOLEAN] /\ strays' \subseteq Nodes
    BY DisturbType DEF Evict
  <2> QED  BY <2>1 DEF Evict, SocketType
<1>4. RedisType'
  BY DEF Evict, RedisType
<1> QED  BY <1>1, <1>2, <1>3, <1>4

LEMMA MonitorStepType ==
    ASSUME TypeOK, NEW p \in Routers, Monitor(p) \/ \E n \in Nodes : Silence(p, n)
    PROVE  TypeOK'
<1> USE TypeParts, TypePartsNext
<1>1. CASE MonitorScan(p)
  <2>1. PICK n \in late[p] : Evict(p, n, late[p] \ {n})
    BY <1>1 DEF MonitorScan
  <2>2. late[p] \in SUBSET Nodes
    BY DEF RouterType
  <2> QED  BY <2>1, <2>2, EvictStepType
<1>2. CASE MonitorNext(p)
  <2>1. PICK n \in evict[p].todo : Evict(p, n, evict[p].todo \ {n})
    BY <1>2 DEF MonitorNext
  <2>2. evict[p].todo \in SUBSET Nodes
    BY DEF EvictOK, EvictType
  <2> QED  BY <2>1, <2>2, EvictStepType
<1>3. CASE Evicted(p)
  <2>1. evict[p] \in [todo : SUBSET Nodes, node : Nodes \cup {NoNode}, step : Steps]
    BY DEF EvictOK, EvictType
  <2>2. evict[p].node \in Nodes
    BY <1>3, <2>1 DEF Evicted, EvictOK, GoesOn
  <2>3. EvictOK'
    <3>1. CASE evict[p].step = "srem"
      <4> DEFINE rec == [evict[p] EXCEPT !.step = "unroute"]
      <4>1. evict' = [evict EXCEPT ![p] = rec]
        BY <1>3, <3>1 DEF Evicted, EvictOK, EvictType
      <4>2. /\ rec \in [todo : SUBSET Nodes, node : Nodes \cup {NoNode}, step : Steps]
            /\ rec.step = "unroute" /\ rec.node # NoNode
        BY <2>1, <2>2 DEF Steps
      <4> HIDE DEF rec
      <4> QED  BY <4>1, <4>2, EvictSet
    <3>2. CASE evict[p].step = "unroute" /\ evict[p].todo = {}
      <4>1. evict' = [evict EXCEPT ![p] = NoTask]
        BY <1>3, <3>2 DEF Evicted, EvictOK, EvictType
      <4>2. NoTask \in [todo : SUBSET Nodes, node : Nodes \cup {NoNode}, step : Steps]
        BY DEF NoTask, Steps
      <4>3. NoTask.step = "none" /\ NoTask.node = NoNode
        BY DEF NoTask
      <4> QED  BY <4>1, <4>2, <4>3, EvictSet
    <3>3. CASE evict[p].step = "unroute" /\ evict[p].todo # {}
      <4> DEFINE rec == [evict[p] EXCEPT !.step = "next", !.node = NoNode]
      <4>1. evict' = [evict EXCEPT ![p] = rec]
        BY <1>3, <3>3 DEF Evicted, EvictOK, EvictType
      <4>2. /\ rec \in [todo : SUBSET Nodes, node : Nodes \cup {NoNode}, step : Steps]
            /\ rec.step = "next" /\ rec.node = NoNode /\ rec.todo # {}
        BY <2>1, <3>3 DEF Steps
      <4> HIDE DEF rec
      <4> QED  BY <4>1, <4>2, EvictSet
    <3> QED  BY <1>3, <3>1, <3>2, <3>3 DEF Evicted
  <2>4. RedisType'
    BY <1>3, <2>2 DEF Evicted, RedisType
  <2> QED  BY <1>3, <2>3, <2>4 DEF Evicted, RouterType, SocketType, history
<1>4. ASSUME NEW n \in Nodes, Silence(p, n)
      PROVE  TypeOK'
  <2>1. EvictOK'
    BY <1>4, EvictUnchanged DEF Silence, tasks
  <2> QED  BY <1>4, <2>1 DEF Silence, redis, tasks, RedisType, RouterType, SocketType, history
<1> QED  BY <1>1, <1>2, <1>3, <1>4 DEF Monitor

LEMMA CrashType ==
    ASSUME TypeOK, NEW p \in Routers, Crash(p)
    PROVE  TypeOK'
<1> USE TypeParts, TypePartsNext
<1>1. EvictOK'
  <2>1. NoTask \in [todo : SUBSET Nodes, node : Nodes \cup {NoNode}, step : Steps]
    BY DEF NoTask, Steps
  <2>2. NoTask.step = "none" /\ NoTask.node = NoNode
    BY DEF NoTask
  <2> QED  BY <2>1, <2>2, EvictSet DEF Crash
<1>2. RedisType'
  BY DEF Crash, redis, RedisType
<1>3. RouterType'
  BY DEF Crash, RouterType
<1>4. SocketType'
  <2>1. sock' \in [Sockets -> {"open", "closing", "closed"}]
    BY DEF Crash, SocketType
  <2>2. reg' \in [Sockets -> {"none", "sadd", "route", "done"}]
    BY DEF Crash, SocketType
  <2>3. rem' \in [Sockets -> {"none", "srem", "unroute"}]
    BY DEF Crash, SocketType
  <2>4. upd' \in [Writers -> {"none", "hmget", "hset", "sadd"}]
    BY DEF Crash, SocketType
  <2>5. clean' \in [Sockets -> BOOLEAN] /\ strays' \subseteq Nodes
    BY DEF Crash, SocketType
  <2> QED  BY <2>1, <2>2, <2>3, <2>4, <2>5 DEF SocketType
<1> QED  BY <1>1, <1>2, <1>3, <1>4

LEMMA StutterType == TypeOK /\ UNCHANGED vars => TypeOK'
<1> SUFFICES ASSUME TypeOK, UNCHANGED vars PROVE TypeOK'
  OBVIOUS
<1> USE TypeParts, TypePartsNext
<1>1. EvictOK'
  BY EvictUnchanged DEF vars, tasks
<1> QED  BY <1>1 DEF vars, redis, tasks, RedisType, RouterType, SocketType, history

LEMMA NextType == TypeOK /\ [Next]_vars => TypeOK'
<1> SUFFICES ASSUME TypeOK, [Next]_vars PROVE TypeOK'
  OBVIOUS
<1>1. ASSUME NEW s \in Sockets,
             \/ Connect(s) \/ Disconnect(s) \/ Close(s) \/ Removed(s)
             \/ Register(s) \/ Registered(s) \/ Heartbeat(s)
      PROVE  TypeOK'
  BY <1>1, SocketStepType
<1>2. ASSUME NEW c \in Calls, Mark(c) PROVE TypeOK'
  BY <1>2, UpdateStepType DEF Writers
<1>3. ASSUME NEW w \in Writers, Writing(w) PROVE TypeOK'
  BY <1>3, UpdateStepType DEF Writing
<1>4. ASSUME NEW p \in Routers, Monitor(p) \/ Crash(p) \/ \E n \in Nodes : Silence(p, n)
      PROVE  TypeOK'
  BY <1>4, MonitorStepType, CrashType
<1> QED  BY <1>1, <1>2, <1>3, <1>4, StutterType DEF Next

\* Every variable has its type, and the monitor goes on only while a node is left.
THEOREM TypeCorrect == Spec => []TypeOK
BY InitType, NextType, PTL DEF Spec

(* ----------------------- The local connection maps --------------------- *)

\* An entry of a map is a live, registered socket of its node and router.
LiveEntry(p, n) ==
    LET s == local[p][n] IN
    /\ s # NoSocket => /\ NodeOf[s] = n /\ RouterOf[s] = p
                       /\ reg[s] # "none"
                       /\ sock[s] \in {"open", "closing"}
    /\ n \in late[p] => s # NoSocket

LEMMA LiveParts == LocalIsLive <=> \A p \in Routers, n \in Nodes : LiveEntry(p, n)
BY DEF LocalIsLive, LiveEntry

LEMMA LivePartsNext == LocalIsLive' <=> \A p \in Routers, n \in Nodes : LiveEntry(p, n)'
BY DEF LocalIsLive, LiveEntry

\* An entry survives a step that leaves it alone and neither closes nor recycles its socket.
LEMMA LiveKept ==
    ASSUME TypeOK, NEW p \in Routers, NEW n \in Nodes, LiveEntry(p, n),
           local'[p][n] = local[p][n],
           n \in late'[p] => n \in late[p] \/ local[p][n] # NoSocket,
           \A s \in Sockets : sock[s] # "closed" => sock'[s] \in {"open", "closing"} \/ local[p][n] # s,
           \A s \in Sockets : sock[s] # "closed" /\ reg[s] # "none" => reg'[s] # "none" \/ local[p][n] # s
    PROVE  LiveEntry(p, n)'
<1>1. local[p][n] \in Sockets \cup {NoSocket}
  BY DEF TypeOK
<1>2. CASE local[p][n] = NoSocket
  BY <1>2 DEF LiveEntry
<1>3. CASE local[p][n] \in Sockets
  BY <1>3 DEF LiveEntry
<1> QED  BY <1>1, <1>2, <1>3

\* So does an entry that is removed.
LEMMA LiveRemoved ==
    ASSUME NEW p \in Routers, NEW n \in Nodes, local'[p][n] = NoSocket, n \notin late'[p]
    PROVE  LiveEntry(p, n)'
BY DEF LiveEntry

LEMMA LiveUntouched ==
    ASSUME TypeOK, LocalIsLive, UNCHANGED <<local, late, sock, reg>>
    PROVE  LocalIsLive'
BY DEF LocalIsLive

LEMMA SocketStepLive ==
    ASSUME TypeOK, LocalIsLive, NEW s \in Sockets,
           \/ Connect(s) \/ Disconnect(s) \/ Close(s) \/ Removed(s)
           \/ Register(s) \/ Registered(s) \/ Heartbeat(s)
    PROVE  LocalIsLive'
<1>0. /\ sock \in [Sockets -> {"open", "closing", "closed"}]
      /\ reg \in [Sockets -> {"none", "sadd", "route", "done"}]
      /\ local \in [Routers -> [Nodes -> Sockets \cup {NoSocket}]]
      /\ late \in [Routers -> SUBSET Nodes]
      /\ NodeOf[s] \in Nodes /\ RouterOf[s] \in Routers
  BY DEF TypeOK
<1> SUFFICES ASSUME NEW p \in Routers, NEW n \in Nodes
             PROVE  LiveEntry(p, n)'
  BY LivePartsNext
<1>L. LiveEntry(p, n)
  BY LiveParts
<1>1. CASE Connect(s)
  <2>1. local[p][n] # s
    BY <1>1, <1>L DEF Connect, LiveEntry
  <2> QED  BY <1>0, <1>1, <1>L, <2>1, LiveKept DEF Connect
<1>2. CASE Disconnect(s)
  BY <1>0, <1>2, <1>L, LiveKept DEF Disconnect, tasks
<1>3. CASE Close(s)
  <2>1. CASE reg[s] # "none" /\ p = RouterOf[s] /\ n = NodeOf[s]
    BY <1>0, <1>3, <2>1, LiveRemoved DEF Close
  <2>2. CASE reg[s] # "none" /\ (p # RouterOf[s] \/ n # NodeOf[s])
    <3>1. local[p][n] # s
      BY <2>2, <1>L DEF LiveEntry
    <3>2. local'[p][n] = local[p][n] /\ (n \in late'[p] => n \in late[p])
      BY <1>0, <1>3, <2>2 DEF Close
    <3> QED  BY <1>0, <1>3, <1>L, <2>2, <3>1, <3>2, LiveKept DEF Close
  <2>3. CASE reg[s] = "none"
    <3>1. local[p][n] # s
      BY <2>3, <1>L DEF LiveEntry
    <3> QED  BY <1>0, <1>3, <1>L, <2>3, <3>1, LiveKept DEF Close
  <2> QED  BY <2>1, <2>2, <2>3
<1>4. CASE Removed(s)
  BY <1>4, LiveUntouched, LivePartsNext DEF Removed
<1>5. CASE Register(s)
  <2>1. CASE p = RouterOf[s] /\ n = NodeOf[s]
    <3>1. local'[p][n] = s /\ n \notin late'[p] /\ reg'[s] = "sadd" /\ sock'[s] \in {"open", "closing"}
      BY <1>0, <1>5, <2>1 DEF Register
    <3>2. s # NoSocket
      OBVIOUS
    <3> QED  BY <2>1, <3>1, <3>2 DEF LiveEntry
  <2>2. CASE p # RouterOf[s] \/ n # NodeOf[s]
    <3>1. local'[p][n] = local[p][n] /\ (n \in late'[p] => n \in late[p])
      BY <1>0, <1>5, <2>2 DEF Register
    <3>2. \A t \in Sockets : reg[t] # "none" => reg'[t] # "none"
      BY <1>0, <1>5 DEF Register
    <3> QED  BY <1>0, <1>5, <1>L, <3>1, <3>2, LiveKept DEF Register
  <2> QED  BY <2>1, <2>2
<1>6. CASE Registered(s)
  <2>1. \A t \in Sockets : reg[t] # "none" => reg'[t] # "none"
    BY <1>0, <1>6 DEF Registered
  <2> QED  BY <1>0, <1>6, <1>L, <2>1, LiveKept DEF Registered
<1>7. CASE Heartbeat(s)
  <2>1. n \in late'[p] => n \in late[p]
    BY <1>0, <1>7 DEF Heartbeat
  <2> QED  BY <1>0, <1>7, <1>L, <2>1, LiveKept DEF Heartbeat
<1> QED  BY <1>1, <1>2, <1>3, <1>4, <1>5, <1>6, <1>7

LEMMA EvictLive ==
    ASSUME TypeOK, LocalIsLive, NEW p \in Routers, NEW n \in Nodes, NEW rest, Evict(p, n, rest)
    PROVE  LocalIsLive'
<1>0. /\ sock \in [Sockets -> {"open", "closing", "closed"}]
      /\ local \in [Routers -> [Nodes -> Sockets \cup {NoSocket}]]
      /\ late \in [Routers -> SUBSET Nodes]
  BY DEF TypeOK
<1> SUFFICES ASSUME NEW q \in Routers, NEW m \in Nodes
             PROVE  LiveEntry(q, m)'
  BY LivePartsNext
<1>1. CASE q = p /\ m = n
  BY <1>0, <1>1, LiveRemoved DEF Evict
<1>2. CASE q # p \/ m # n
  <2>1. local'[q][m] = local[q][m] /\ (m \in late'[q] => m \in late[q])
    BY <1>0, <1>2 DEF Evict
  <2>2. \A s \in Sockets : sock[s] # "closed" => sock'[s] \in {"open", "closing"}
    BY <1>0 DEF Evict
  <2>3. reg' = reg
    BY DEF Evict
  <2>4. LiveEntry(q, m)
    BY LiveParts
  <2> QED  BY <2>1, <2>2, <2>3, <2>4, LiveKept
<1> QED  BY <1>1, <1>2

LEMMA RouterStepLive ==
    ASSUME TypeOK, LocalIsLive, NEW p \in Routers,
           Monitor(p) \/ Crash(p) \/ \E n \in Nodes : Silence(p, n)
    PROVE  LocalIsLive'
<1>0. /\ sock \in [Sockets -> {"open", "closing", "closed"}]
      /\ reg \in [Sockets -> {"none", "sadd", "route", "done"}]
      /\ local \in [Routers -> [Nodes -> Sockets \cup {NoSocket}]]
      /\ late \in [Routers -> SUBSET Nodes]
      /\ evict[p].todo \in SUBSET Nodes
  BY DEF TypeOK
<1>1. CASE MonitorScan(p)
  BY <1>0, <1>1, EvictLive DEF MonitorScan
<1>2. CASE MonitorNext(p)
  BY <1>0, <1>2, EvictLive DEF MonitorNext
<1>3. CASE Evicted(p)
  BY <1>3, LiveUntouched DEF Evicted
<1>4. ASSUME NEW n \in Nodes, Silence(p, n)
      PROVE  LocalIsLive'
  <2> SUFFICES ASSUME NEW q \in Routers, NEW m \in Nodes
               PROVE  LiveEntry(q, m)'
    BY LivePartsNext
  <2>1. m \in late'[q] => m \in late[q] \/ local[q][m] # NoSocket
    BY <1>0, <1>4 DEF Silence
  <2>2. LiveEntry(q, m)
    BY LiveParts
  <2> QED  BY <1>0, <1>4, <2>1, <2>2, LiveKept DEF Silence, tasks
<1>5. CASE Crash(p)
  <2> SUFFICES ASSUME NEW q \in Routers, NEW m \in Nodes
               PROVE  LiveEntry(q, m)'
    BY LivePartsNext
  <2>1. CASE q = p
    BY <1>0, <1>5, <2>1, LiveRemoved DEF Crash
  <2>2. CASE q # p
    <3>1. LiveEntry(q, m)
      BY LiveParts
    <3>2. local'[q][m] = local[q][m] /\ late'[q] = late[q]
      BY <1>0, <1>5, <2>2 DEF Crash
    <3>3. \A s \in Sockets : RouterOf[s] # p => sock'[s] = sock[s] /\ reg'[s] = reg[s]
      BY <1>5 DEF Crash
    <3>4. \A s \in Sockets : local[q][m] = s => RouterOf[s] # p
      BY <2>2, <3>1 DEF LiveEntry
    <3>5. \A s \in Sockets : sock[s] # "closed" => sock'[s] \in {"open", "closing"} \/ local[q][m] # s
      BY <1>0, <3>3, <3>4
    <3>6. \A s \in Sockets :
             sock[s] # "closed" /\ reg[s] # "none" => reg'[s] # "none" \/ local[q][m] # s
      BY <3>3, <3>4
    <3>7. m \in late'[q] => m \in late[q] \/ local[q][m] # NoSocket
      BY <3>2
    <3> QED  BY <3>1, <3>2, <3>5, <3>6, <3>7, LiveKept
  <2> QED  BY <2>1, <2>2
<1> QED  BY <1>1, <1>2, <1>3, <1>4, <1>5 DEF Monitor

LEMMA NextLive == TypeOK /\ LocalIsLive /\ [Next]_vars => LocalIsLive'
<1> SUFFICES ASSUME TypeOK, LocalIsLive, [Next]_vars PROVE LocalIsLive'
  OBVIOUS
<1>1. ASSUME NEW s \in Sockets,
             \/ Connect(s) \/ Disconnect(s) \/ Close(s) \/ Removed(s)
             \/ Register(s) \/ Registered(s) \/ Heartbeat(s)
      PROVE  LocalIsLive'
  BY <1>1, SocketStepLive
<1>2. ASSUME NEW c \in Calls, Mark(c) PROVE LocalIsLive'
  BY <1>2, LiveUntouched DEF Mark
<1>3. ASSUME NEW w \in Writers, Writing(w) PROVE LocalIsLive'
  BY <1>3, LiveUntouched DEF Writing, Fetched, Updated
<1>4. ASSUME NEW p \in Routers, Monitor(p) \/ Crash(p) \/ \E n \in Nodes : Silence(p, n)
      PROVE  LocalIsLive'
  BY <1>4, RouterStepLive
<1>5. CASE UNCHANGED vars
  BY <1>5, LiveUntouched DEF vars, tasks
<1> QED  BY <1>1, <1>2, <1>3, <1>4, <1>5 DEF Next

\* A router's map only holds registered sockets of that node whose close it has not handled.
THEOREM LocalsAreLive == Spec => []LocalIsLive
<1>1. Init => LocalIsLive
  <2> SUFFICES ASSUME Init, NEW p \in Routers, NEW n \in Nodes
               PROVE  LiveEntry(p, n)
    BY LiveParts
  <2>1. local[p][n] = NoSocket /\ late[p] = {}
    BY DEF Init
  <2> QED  BY <2>1 DEF LiveEntry
<1> QED  BY <1>1, InitType, NextType, NextLive, PTL DEF Spec

(* ------------------------ Undisturbed registrations -------------------- *)

\* What an undisturbed registration has achieved so far, command by command.
ListedSoFar(s) ==
    /\ ~BeingRemoved(NodeOf[s])
    /\ reg[s] # "none"
    /\ NodeOf[s] \in metadata
    /\ local[RouterOf[s]][NodeOf[s]] # NoSocket
    /\ reg[s] \in {"route", "done"} => NodeOf[s] \in active
    /\ reg[s] = "done" => routing[NodeOf[s]] # NoRouter

CleanInv == \A s \in Sockets : clean[s] => ListedSoFar(s)

LEMMA CleanImplies == CleanInv => UndisturbedIsListed
BY DEF CleanInv, ListedSoFar, UndisturbedIsListed, Visible

\* A step keeps what has been achieved if it removes nothing of the node, begins no
\* removal of it, and leaves this registration alone.
LEMMA ListedKept ==
    ASSUME NEW s \in Sockets, ListedSoFar(s),
           BeingRemoved(NodeOf[s])' => BeingRemoved(NodeOf[s]),
           reg'[s] = reg[s],
           NodeOf[s] \in metadata => NodeOf[s] \in metadata',
           NodeOf[s] \in active => NodeOf[s] \in active',
           routing[NodeOf[s]] # NoRouter => routing'[NodeOf[s]] # NoRouter,
           local[RouterOf[s]][NodeOf[s]] # NoSocket => local'[RouterOf[s]][NodeOf[s]] # NoSocket
    PROVE  ListedSoFar(s)'
BY DEF ListedSoFar

LEMMA SameRemovals ==
    ASSUME NEW n, UNCHANGED <<rem, evict>>
    PROVE  BeingRemoved(n)' => BeingRemoved(n)
BY DEF BeingRemoved

LEMMA SocketStepClean ==
    ASSUME TypeOK, CleanInv, NEW s \in Sockets,
           \/ Connect(s) \/ Disconnect(s) \/ Close(s) \/ Removed(s)
           \/ Register(s) \/ Registered(s) \/ Heartbeat(s)
    PROVE  CleanInv'
<1>0. /\ reg \in [Sockets -> {"none", "sadd", "route", "done"}]
      /\ rem \in [Sockets -> {"none", "srem", "unroute"}]
      /\ clean \in [Sockets -> BOOLEAN]
      /\ local \in [Routers -> [Nodes -> Sockets \cup {NoSocket}]]
      /\ routing \in [Nodes -> Routers \cup {NoRouter}]
      /\ NodeOf[s] \in Nodes /\ RouterOf[s] \in Routers
  BY DEF TypeOK
<1> SUFFICES ASSUME NEW t \in Sockets, clean'[t]
             PROVE  ListedSoFar(t)'
  BY DEF CleanInv
<1>T. NodeOf[t] \in Nodes /\ RouterOf[t] \in Routers
  OBVIOUS
<1>C. clean[t] => ListedSoFar(t)
  BY DEF CleanInv
<1>1. CASE Connect(s)
  <2>1. t # s /\ clean[t]
    BY <1>0, <1>1 DEF Connect
  <2> QED  BY <1>0, <1>1, <1>C, <2>1, SameRemovals, ListedKept DEF Connect, redis
<1>2. CASE Disconnect(s)
  BY <1>0, <1>2, <1>C, SameRemovals, ListedKept DEF Disconnect, redis, tasks, history
<1>3. CASE Close(s)
  <2>1. CASE reg[s] = "none"
    BY <1>3, <1>C, <2>1, SameRemovals, ListedKept DEF Close, history
  <2>2. CASE reg[s] # "none"
    <3>1. clean[t] /\ NodeOf[t] # NodeOf[s]
      BY <1>3, <2>2 DEF Close, Disturb
    <3>2. BeingRemoved(NodeOf[t])' => BeingRemoved(NodeOf[t])
      BY <1>0, <1>3, <2>2, <3>1 DEF Close, BeingRemoved
    <3>3. local'[RouterOf[t]][NodeOf[t]] = local[RouterOf[t]][NodeOf[t]]
      <4>1. local' = [local EXCEPT ![RouterOf[s]][NodeOf[s]] = NoSocket]
        BY <1>3, <2>2 DEF Close
      <4> QED  BY <1>0, <1>T, <3>1, <4>1
    <3> QED  BY <1>3, <1>C, <2>2, <3>1, <3>2, <3>3, ListedKept DEF Close
  <2> QED  BY <2>1, <2>2
<1>4. CASE Removed(s)
  <2>1. clean[t] /\ ListedSoFar(t)
    BY <1>4, <1>C DEF Removed, history
  <2>2. NodeOf[t] # NodeOf[s]
    BY <1>4, <2>1 DEF ListedSoFar, Removed, BeingRemoved
  <2>3. BeingRemoved(NodeOf[t])' => BeingRemoved(NodeOf[t])
    BY <1>0, <1>4, <2>2 DEF Removed, BeingRemoved
  <2>4. routing'[NodeOf[t]] = routing[NodeOf[t]]
    BY <1>0, <1>4, <1>T, <2>2 DEF Removed
  <2>5. NodeOf[t] \in active => NodeOf[t] \in active'
    BY <1>4, <2>2 DEF Removed
  <2> QED  BY <1>4, <2>1, <2>3, <2>4, <2>5, ListedKept DEF Removed
<1>5. CASE Register(s)
  <2>1. local'[RouterOf[s]][NodeOf[s]] = s /\ s # NoSocket
    BY <1>0, <1>5 DEF Register
  <2>2. CASE t = s
    <3>1. ~BeingRemoved(NodeOf[s])
      BY <1>0, <1>5, <2>2 DEF Register
    <3>2. ~BeingRemoved(NodeOf[s])'
      BY <1>5, <3>1, SameRemovals DEF Register
    <3>3. NodeOf[s] \in metadata' /\ reg'[s] = "sadd"
      BY <1>0, <1>5 DEF Register
    <3> QED  BY <2>1, <2>2, <3>2, <3>3 DEF ListedSoFar
  <2>3. CASE t # s
    <3>1. clean[t] /\ reg'[t] = reg[t]
      BY <1>0, <1>5, <2>3 DEF Register
    <3>2. BeingRemoved(NodeOf[t])' => BeingRemoved(NodeOf[t])
      BY <1>5, SameRemovals DEF Register
    <3>3. local[RouterOf[t]][NodeOf[t]] # NoSocket => local'[RouterOf[t]][NodeOf[t]] # NoSocket
      BY <1>0, <1>5, <1>T, <2>1 DEF Register
    <3> QED  BY <1>5, <1>C, <3>1, <3>2, <3>3, ListedKept DEF Register
  <2> QED  BY <2>2, <2>3
<1>6. CASE Registered(s)
  <2>0. clean[t] /\ ListedSoFar(t)
    BY <1>6, <1>C DEF Registered, history
  <2>1. BeingRemoved(NodeOf[t])' => BeingRemoved(NodeOf[t])
    BY <1>6, SameRemovals DEF Registered
  <2>2. CASE t = s
    <3>1. ~BeingRemoved(NodeOf[s])' /\ NodeOf[s] \in metadata /\ local[RouterOf[s]][NodeOf[s]] # NoSocket
      BY <2>0, <2>1, <2>2 DEF ListedSoFar
    <3>2. CASE reg[s] = "sadd"
      <4>1. reg'[s] = "route" /\ NodeOf[s] \in active'
        BY <1>0, <1>6, <3>2 DEF Registered
      <4> QED  BY <1>6, <2>2, <3>1, <4>1 DEF ListedSoFar, Registered
    <3>3. CASE reg[s] = "route"
      <4>1. reg'[s] = "done" /\ routing'[NodeOf[s]] = RouterOf[s] /\ active' = active
        BY <1>0, <1>6, <3>3 DEF Registered
      <4>2. NodeOf[s] \in active
        BY <2>0, <2>2, <3>3 DEF ListedSoFar
      <4>3. RouterOf[s] # NoRouter
        BY <1>0
      <4> QED  BY <1>6, <2>2, <3>1, <4>1, <4>2, <4>3 DEF ListedSoFar, Registered
    <3> QED  BY <1>6, <3>2, <3>3 DEF Registered
  <2>3. CASE t # s
    <3>1. reg'[t] = reg[t]
      BY <1>0, <1>6, <2>3 DEF Registered
    <3>2. routing[NodeOf[t]] # NoRouter => routing'[NodeOf[t]] # NoRouter
      BY <1>0, <1>6, <1>T DEF Registered
    <3>3. NodeOf[t] \in active => NodeOf[t] \in active'
      BY <1>6 DEF Registered
    <3> QED  BY <1>6, <2>0, <2>1, <3>1, <3>2, <3>3, ListedKept DEF Registered
  <2> QED  BY <2>2, <2>3
<1>7. CASE Heartbeat(s)
  BY <1>7, <1>C, SameRemovals, ListedKept DEF Heartbeat, redis, history
<1> QED  BY <1>1, <1>2, <1>3, <1>4, <1>5, <1>6, <1>7

LEMMA UpdateStepClean ==
    ASSUME TypeOK, CleanInv, NEW w \in Writers, Mark(w) \/ Fetched(w) \/ Updated(w)
    PROVE  CleanInv'
<1> SUFFICES ASSUME NEW t \in Sockets, clean[t], ListedSoFar(t)
             PROVE  ListedSoFar(t)'
  BY DEF CleanInv, Mark, Fetched, Updated, history
<1>1. BeingRemoved(NodeOf[t])' => BeingRemoved(NodeOf[t])
  BY SameRemovals DEF Mark, Fetched, Updated
<1>2. CASE Mark(w)
  BY <1>1, <1>2, ListedKept DEF Mark, redis
<1>3. CASE Fetched(w)
  BY <1>1, <1>3, ListedKept DEF Fetched, redis
<1>4. CASE Updated(w)
  <2>1. metadata \subseteq metadata' /\ active \subseteq active'
    BY <1>4 DEF Updated
  <2> QED  BY <1>1, <1>4, <2>1, ListedKept DEF Updated
<1> QED  BY <1>2, <1>3, <1>4

LEMMA EvictClean ==
    ASSUME TypeOK, CleanInv, NEW p \in Routers, NEW n \in Nodes, NEW rest, Evict(p, n, rest)
    PROVE  CleanInv'
<1>0. /\ local \in [Routers -> [Nodes -> Sockets \cup {NoSocket}]]
      /\ evict \in [Routers -> [todo : SUBSET Nodes, node : Nodes \cup {NoNode}, step : Steps]]
  BY DEF TypeOK, Steps
<1> SUFFICES ASSUME NEW t \in Sockets, clean'[t]
             PROVE  ListedSoFar(t)'
  BY DEF CleanInv
<1>1. clean[t] /\ NodeOf[t] # n
  BY DEF Evict, Disturb
<1>2. ListedSoFar(t)
  BY <1>1 DEF CleanInv
<1>3. BeingRemoved(NodeOf[t])' => BeingRemoved(NodeOf[t])
  <2>1. evict'[p].node = n /\ \A q \in Routers : q # p => evict'[q] = evict[q]
    BY <1>0 DEF Evict
  <2>2. rem' = rem
    BY DEF Evict
  <2> QED  BY <1>1, <2>1, <2>2 DEF BeingRemoved
<1>4. local'[RouterOf[t]][NodeOf[t]] = local[RouterOf[t]][NodeOf[t]]
  <2>1. NodeOf[t] \in Nodes /\ RouterOf[t] \in Routers
    OBVIOUS
  <2> QED  BY <1>0, <1>1, <2>1 DEF Evict
<1>5. NodeOf[t] \in metadata => NodeOf[t] \in metadata'
  BY <1>1 DEF Evict
<1> QED  BY <1>2, <1>3, <1>4, <1>5, ListedKept DEF Evict

LEMMA RouterStepClean ==
    ASSUME TypeOK, CleanInv, NEW p \in Routers,
           Monitor(p) \/ Crash(p) \/ \E n \in Nodes : Silence(p, n)
    PROVE  CleanInv'
<1>0. /\ local \in [Routers -> [Nodes -> Sockets \cup {NoSocket}]]
      /\ late \in [Routers -> SUBSET Nodes]
      /\ routing \in [Nodes -> Routers \cup {NoRouter}]
      /\ evict \in [Routers -> [todo : SUBSET Nodes, node : Nodes \cup {NoNode}, step : Steps]]
      /\ evict[p].todo \in SUBSET Nodes
  BY DEF TypeOK, Steps
<1>1. CASE MonitorScan(p)
  BY <1>0, <1>1, EvictClean DEF MonitorScan
<1>2. CASE MonitorNext(p)
  BY <1>0, <1>2, EvictClean DEF MonitorNext
<1>3. CASE Evicted(p)
  <2> SUFFICES ASSUME NEW t \in Sockets, clean[t], ListedSoFar(t)
               PROVE  ListedSoFar(t)'
    BY <1>3 DEF CleanInv, Evicted, history
  <2>1. NodeOf[t] \in Nodes /\ NodeOf[t] # NoNode
    OBVIOUS
  <2>2. NodeOf[t] # evict[p].node
    BY <1>3 DEF ListedSoFar, Evicted, BeingRemoved
  <2>3. BeingRemoved(NodeOf[t])' => BeingRemoved(NodeOf[t])
    <3>1. evict'[p].node = evict[p].node \/ evict'[p].node = NoNode
      <4>1. CASE evict[p].step = "srem"
        BY <1>0, <1>3, <4>1 DEF Evicted
      <4>2. CASE evict[p].step = "unroute" /\ evict[p].todo = {}
        <5>1. evict'[p] = NoTask
          BY <1>0, <1>3, <4>2 DEF Evicted
        <5> QED  BY <5>1 DEF NoTask
      <4>3. CASE evict[p].step = "unroute" /\ evict[p].todo # {}
        <5>1. evict'[p] = [evict[p] EXCEPT !.step = "next", !.node = NoNode]
          BY <1>0, <1>3, <4>3 DEF Evicted
        <5>2. evict[p] \in [todo : SUBSET Nodes, node : Nodes \cup {NoNode}, step : Steps]
          BY <1>0
        <5> QED  BY <5>1, <5>2
      <4> QED  BY <1>3, <4>1, <4>2, <4>3 DEF Evicted
    <3>2. \A q \in Routers : q # p => evict'[q] = evict[q]
      BY <1>0, <1>3 DEF Evicted
    <3>3. rem' = rem
      BY <1>3 DEF Evicted
    <3> QED  BY <2>1, <2>2, <3>1, <3>2, <3>3 DEF BeingRemoved
  <2>4. routing'[NodeOf[t]] = routing[NodeOf[t]]
    BY <1>0, <1>3, <2>1, <2>2 DEF Evicted
  <2>5. NodeOf[t] \in active => NodeOf[t] \in active'
    BY <1>3, <2>2 DEF Evicted
  <2> QED  BY <1>3, <2>3, <2>4, <2>5, ListedKept DEF Evicted
<1>4. ASSUME NEW n \in Nodes, Silence(p, n)
      PROVE  CleanInv'
  <2> SUFFICES ASSUME NEW t \in Sockets, clean[t], ListedSoFar(t)
               PROVE  ListedSoFar(t)'
    BY <1>4 DEF CleanInv, Silence, history
  <2> QED  BY <1>4, SameRemovals, ListedKept DEF Silence, redis, tasks
<1>5. CASE Crash(p)
  <2> SUFFICES ASSUME NEW t \in Sockets, clean'[t]
               PROVE  ListedSoFar(t)'
    BY DEF CleanInv
  <2>1. clean[t] /\ RouterOf[t] # p
    BY <1>5 DEF Crash
  <2>2. ListedSoFar(t)
    BY <2>1 DEF CleanInv
  <2>3. BeingRemoved(NodeOf[t])' => BeingRemoved(NodeOf[t])
    <3>1. \A s \in Sockets : rem'[s] = rem[s] \/ rem'[s] = "none"
      BY <1>5 DEF Crash
    <3>2. evict'[p].step = "none" /\ \A q \in Routers : q # p => evict'[q] = evict[q]
      BY <1>0, <1>5 DEF Crash, NoTask
    <3> QED  BY <3>1, <3>2 DEF BeingRemoved
  <2>4. reg'[t] = reg[t]
    BY <1>5, <2>1 DEF Crash
  <2>5. local'[RouterOf[t]] = local[RouterOf[t]]
    BY <1>0, <1>5, <2>1 DEF Crash
  <2> QED  BY <1>5, <2>2, <2>3, <2>4, <2>5, ListedKept DEF Crash, redis
<1> QED  BY <1>1, <1>2, <1>3, <1>4, <1>5 DEF Monitor

LEMMA NextClean == TypeOK /\ CleanInv /\ [Next]_vars => CleanInv'
<1> SUFFICES ASSUME TypeOK, CleanInv, [Next]_vars PROVE CleanInv'
  OBVIOUS
<1>1. ASSUME NEW s \in Sockets,
             \/ Connect(s) \/ Disconnect(s) \/ Close(s) \/ Removed(s)
             \/ Register(s) \/ Registered(s) \/ Heartbeat(s)
      PROVE  CleanInv'
  BY <1>1, SocketStepClean
<1>2. ASSUME NEW c \in Calls, Mark(c) PROVE CleanInv'
  BY <1>2, UpdateStepClean DEF Writers
<1>3. ASSUME NEW w \in Writers, Writing(w) PROVE CleanInv'
  BY <1>3, UpdateStepClean DEF Writing
<1>4. ASSUME NEW p \in Routers, Monitor(p) \/ Crash(p) \/ \E n \in Nodes : Silence(p, n)
      PROVE  CleanInv'
  BY <1>4, RouterStepClean
<1>5. CASE UNCHANGED vars
  <2> SUFFICES ASSUME NEW t \in Sockets, clean[t], ListedSoFar(t)
               PROVE  ListedSoFar(t)'
    BY <1>5 DEF CleanInv, vars, history
  <2> QED  BY <1>5, SameRemovals, ListedKept DEF vars, redis, tasks
<1> QED  BY <1>1, <1>2, <1>3, <1>4, <1>5 DEF Next

\* A registration that no removal overlaps or follows leaves its node listed and routed.
THEOREM UndisturbedListed == Spec => []UndisturbedIsListed
<1>1. Init => CleanInv
  BY DEF Init, CleanInv
<1> QED  BY <1>1, InitType, NextType, NextClean, CleanImplies, PTL DEF Spec

(* --------------------------- Forgotten nodes --------------------------- *)

Comeback(n) == \E s \in Sockets : NodeOf[s] = n /\ reg[s] = "none" /\ reg'[s] = "sadd"

\* What keeps a node forgotten: nothing is added, and no writer comes to a command
\* that adds.
LEMMA StaysForgotten ==
    ASSUME NEW n \in Nodes, Forgotten(n),
           n \in metadata' => n \in metadata,
           n \in active' => n \in active,
           routing'[n] # NoRouter => routing[n] # NoRouter,
           \A s \in Sockets : NodeOf[s] = n /\ reg'[s] \in {"sadd", "route"} => reg'[s] = reg[s],
           \A w \in Writers : Target(w) = n /\ upd'[w] \in {"hset", "sadd"} => upd'[w] = upd[w]
    PROVE  Forgotten(n)'
BY DEF Forgotten, Target

LEMMA SocketStepForgets ==
    ASSUME TypeOK, NEW n \in Nodes, Forgotten(n), NEW s \in Sockets,
           \/ Connect(s) \/ Disconnect(s) \/ Close(s) \/ Removed(s)
           \/ Register(s) \/ Registered(s) \/ Heartbeat(s)
    PROVE  Forgotten(n)' \/ Comeback(n)
<1>0. /\ reg \in [Sockets -> {"none", "sadd", "route", "done"}]
      /\ routing \in [Nodes -> Routers \cup {NoRouter}]
      /\ upd \in [Writers -> {"none", "hmget", "hset", "sadd"}]
      /\ NodeOf[s] \in Nodes /\ RouterOf[s] \in Routers
  BY DEF TypeOK
<1>1. CASE Connect(s)
  <2>1. \A t \in Sockets : reg'[t] = reg[t] \/ reg'[t] = "none"
    BY <1>0, <1>1 DEF Connect
  <2> QED  BY <1>1, <2>1, StaysForgotten DEF Connect, redis
<1>2. CASE Disconnect(s)
  BY <1>2, StaysForgotten DEF Disconnect, redis, tasks
<1>3. CASE Close(s)
  <2>1. n \in metadata' => n \in metadata
    BY <1>3 DEF Close
  <2> QED  BY <1>3, <2>1, StaysForgotten DEF Close
<1>4. CASE Removed(s)
  <2>1. n \in active' => n \in active
    BY <1>4 DEF Removed
  <2>2. routing'[n] # NoRouter => routing[n] # NoRouter
    BY <1>0, <1>4 DEF Removed
  <2> QED  BY <1>4, <2>1, <2>2, StaysForgotten DEF Removed
<1>5. CASE Register(s)
  <2>1. CASE NodeOf[s] = n
    BY <1>0, <1>5, <2>1 DEF Register, Comeback
  <2>2. CASE NodeOf[s] # n
    <3>1. \A t \in Sockets : NodeOf[t] = n => reg'[t] = reg[t]
      BY <1>0, <1>5, <2>2 DEF Register
    <3>2. n \in metadata' => n \in metadata
      BY <1>5, <2>2 DEF Register
    <3> QED  BY <1>5, <3>1, <3>2, StaysForgotten DEF Register
  <2> QED  BY <2>1, <2>2
<1>6. CASE Registered(s)
  <2>1. NodeOf[s] # n
    BY <1>6 DEF Forgotten, Registered
  <2>2. \A t \in Sockets : NodeOf[t] = n => reg'[t] = reg[t]
    BY <1>0, <1>6, <2>1 DEF Registered
  <2>3. n \in active' => n \in active
    BY <1>6, <2>1 DEF Registered
  <2>4. routing'[n] # NoRouter => routing[n] # NoRouter
    BY <1>0, <1>6, <2>1 DEF Registered
  <2> QED  BY <1>6, <2>2, <2>3, <2>4, StaysForgotten DEF Registered
<1>7. CASE Heartbeat(s)
  <2>1. \A w \in Writers : upd'[w] \in {"hset", "sadd"} => upd'[w] = upd[w]
    BY <1>0, <1>7 DEF Heartbeat, AskActive
  <2> QED  BY <1>7, <2>1, StaysForgotten DEF Heartbeat, redis
<1> QED  BY <1>1, <1>2, <1>3, <1>4, <1>5, <1>6, <1>7

LEMMA UpdateStepForgets ==
    ASSUME TypeOK, NEW n \in Nodes, Forgotten(n), NEW w \in Writers,
           Mark(w) \/ Fetched(w) \/ Updated(w)
    PROVE  Forgotten(n)'
<1>0. upd \in [Writers -> {"none", "hmget", "hset", "sadd"}]
  BY DEF TypeOK
<1>1. CASE Mark(w)
  <2>1. \A v \in Writers : upd'[v] \in {"hset", "sadd"} => upd'[v] = upd[v]
    BY <1>0, <1>1 DEF Mark, AskActive
  <2> QED  BY <1>1, <2>1, StaysForgotten DEF Mark, redis
<1>2. CASE Fetched(w)
  <2>1. \A v \in Writers : Target(v) = n /\ upd'[v] \in {"hset", "sadd"} => upd'[v] = upd[v]
    BY <1>0, <1>2 DEF Fetched, Forgotten
  <2> QED  BY <1>2, <2>1, StaysForgotten DEF Fetched, redis
<1>3. CASE Updated(w)
  <2>1. Target(w) # n
    BY <1>3 DEF Updated, Forgotten
  <2>2. (n \in metadata' => n \in metadata) /\ (n \in active' => n \in active)
    BY <1>3, <2>1 DEF Updated
  <2>3. \A v \in Writers : Target(v) = n => upd'[v] = upd[v]
    BY <1>0, <1>3, <2>1 DEF Updated
  <2> QED  BY <1>3, <2>2, <2>3, StaysForgotten DEF Updated
<1> QED  BY <1>1, <1>2, <1>3

LEMMA RouterStepForgets ==
    ASSUME TypeOK, NEW n \in Nodes, Forgotten(n), NEW p \in Routers,
           Monitor(p) \/ Crash(p) \/ \E m \in Nodes : Silence(p, m)
    PROVE  Forgotten(n)'
<1>0. /\ reg \in [Sockets -> {"none", "sadd", "route", "done"}]
      /\ routing \in [Nodes -> Routers \cup {NoRouter}]
      /\ upd \in [Writers -> {"none", "hmget", "hset", "sadd"}]
  BY DEF TypeOK
<1>1. ASSUME NEW m, NEW rest, Evict(p, m, rest)
      PROVE  Forgotten(n)'
  <2>1. n \in metadata' => n \in metadata
    BY <1>1 DEF Evict
  <2> QED  BY <1>1, <2>1, StaysForgotten DEF Evict
<1>2. CASE MonitorScan(p) \/ MonitorNext(p)
  BY <1>1, <1>2 DEF MonitorScan, MonitorNext
<1>3. CASE Evicted(p)
  <2>1. n \in active' => n \in active
    BY <1>3 DEF Evicted
  <2>2. routing'[n] # NoRouter => routing[n] # NoRouter
    BY <1>0, <1>3 DEF Evicted
  <2> QED  BY <1>3, <2>1, <2>2, StaysForgotten DEF Evicted
<1>4. ASSUME NEW m \in Nodes, Silence(p, m)
      PROVE  Forgotten(n)'
  BY <1>4, StaysForgotten DEF Silence, redis, tasks
<1>5. CASE Crash(p)
  <2>1. \A s \in Sockets : reg'[s] = reg[s] \/ reg'[s] = "none"
    BY <1>0, <1>5 DEF Crash
  <2>2. \A w \in Writers : upd'[w] = upd[w] \/ upd'[w] = "none"
    BY <1>0, <1>5 DEF Crash
  <2> QED  BY <1>5, <2>1, <2>2, StaysForgotten DEF Crash, redis
<1> QED  BY <1>2, <1>3, <1>4, <1>5 DEF Monitor

LEMMA NextForgets ==
    ASSUME TypeOK, [Next]_vars, NEW n \in Nodes, Forgotten(n)
    PROVE  Forgotten(n)' \/ Comeback(n)
<1>1. ASSUME NEW s \in Sockets,
             \/ Connect(s) \/ Disconnect(s) \/ Close(s) \/ Removed(s)
             \/ Register(s) \/ Registered(s) \/ Heartbeat(s)
      PROVE  Forgotten(n)' \/ Comeback(n)
  BY <1>1, SocketStepForgets
<1>2. ASSUME NEW c \in Calls, Mark(c) PROVE Forgotten(n)'
  BY <1>2, UpdateStepForgets DEF Writers
<1>3. ASSUME NEW w \in Writers, Writing(w) PROVE Forgotten(n)'
  BY <1>3, UpdateStepForgets DEF Writing
<1>4. ASSUME NEW p \in Routers, Monitor(p) \/ Crash(p) \/ \E m \in Nodes : Silence(p, m)
      PROVE  Forgotten(n)'
  BY <1>4, RouterStepForgets
<1>5. CASE UNCHANGED vars
  BY <1>5, StaysForgotten DEF vars, redis, tasks
<1> QED  BY <1>1, <1>2, <1>3, <1>4, <1>5 DEF Next

\* Once nothing in Redis or in flight is about a node, only its registration is.
THEOREM ForgottenForGood == Spec => ForgottenStaysForgotten
<1>1. TypeOK /\ [Next]_vars =>
        [\A n \in Nodes : Forgotten(n) =>
            \/ Forgotten(n)'
            \/ \E s \in Sockets : NodeOf[s] = n /\ reg[s] = "none" /\ reg'[s] = "sadd"]_vars
  BY NextForgets DEF Comeback
<1> QED  BY <1>1, TypeCorrect, PTL DEF Spec, ForgottenStaysForgotten

(* ---------------------- Listed, but not connected --------------------- *)

\* A record about to be written back is still there, or its node is known to have strayed.
WriteBack ==
    \A w \in Writers : upd[w] = "hset" => Target(w) \in metadata \/ Target(w) \in strays

StrayInv == ListedIsConnected /\ WriteBack

\* Steps that leave the records and the maps alone, and read no record.
LEMMA StrayFrame ==
    ASSUME StrayInv, UNCHANGED <<metadata, local, strays>>,
           \A w \in Writers : upd'[w] = "hset" => upd[w] = "hset"
    PROVE  StrayInv'
BY DEF StrayInv, ListedIsConnected, WriteBack

\* A removal takes the record along with the map entry.
LEMMA RemovalStrays ==
    ASSUME TypeOK, StrayInv, NEW p \in Routers, NEW n \in Nodes,
           local' = [local EXCEPT ![p][n] = NoSocket],
           metadata' = metadata \ {n}, upd' = upd, Disturb(n)
    PROVE  StrayInv'
<1>1. /\ \A m \in Nodes : m # n => (m \in strays' <=> m \in strays)
      /\ (\E w \in Writers : Target(w) = n /\ upd[w] = "hset") => n \in strays'
  BY DEF Disturb
<1>2. ListedIsConnected'
  <2>1. ASSUME NEW m \in metadata' PROVE m \in strays' \/ \E q \in Routers : local'[q][m] # NoSocket
    <3>1. m \in metadata /\ m # n /\ m \in Nodes
      BY <2>1 DEF TypeOK
    <3>2. \A q \in Routers : local'[q][m] = local[q][m]
      BY <3>1 DEF TypeOK
    <3> QED  BY <1>1, <3>1, <3>2 DEF StrayInv, ListedIsConnected
  <2> QED  BY <2>1 DEF ListedIsConnected
<1>3. WriteBack'
  <2>1. ASSUME NEW w \in Writers, upd[w] = "hset"
        PROVE  Target(w) \in metadata' \/ Target(w) \in strays'
    BY <1>1, <2>1, WriterTypes DEF StrayInv, WriteBack
  <2> QED  BY <2>1 DEF WriteBack, Target
<1> QED  BY <1>2, <1>3 DEF StrayInv

LEMMA SocketStepStrays ==
    ASSUME TypeOK, StrayInv, NEW s \in Sockets,
           \/ Connect(s) \/ Disconnect(s) \/ Close(s) \/ Removed(s)
           \/ Register(s) \/ Registered(s) \/ Heartbeat(s)
    PROVE  StrayInv'
<1>0. NodeOf[s] \in Nodes /\ RouterOf[s] \in Routers /\ s \in Writers
  BY DEF Writers
<1>1. CASE Connect(s) \/ Disconnect(s) \/ Removed(s) \/ Registered(s)
  BY <1>1, StrayFrame DEF Connect, Disconnect, Removed, Registered, redis, tasks, history
<1>2. CASE Close(s)
  <2>1. CASE reg[s] = "none"
    BY <1>2, <2>1, StrayFrame DEF Close, history
  <2>2. CASE reg[s] # "none"
    BY <1>0, <1>2, <2>2, RemovalStrays DEF Close
  <2> QED  BY <2>1, <2>2
<1>3. CASE Register(s)
  <2> DEFINE n == NodeOf[s]
             p == RouterOf[s]
  <2>1. /\ local' = [local EXCEPT ![p][n] = s] /\ metadata' = metadata \cup {n}
        /\ strays' = strays \ {n} /\ upd' = upd
    BY <1>3 DEF Register
  <2>2. ASSUME NEW m \in metadata' PROVE m \in strays' \/ \E q \in Routers : local'[q][m] # NoSocket
    <3>1. CASE m = n
      <4>1. local'[p][n] = s
        BY <1>0, <2>1 DEF TypeOK
      <4> QED  BY <1>0, <3>1, <4>1
    <3>2. CASE m # n
      <4>1. m \in metadata /\ m \in Nodes
        BY <2>1, <2>2, <3>2 DEF TypeOK
      <4>2. \A q \in Routers : local'[q][m] = local[q][m]
        BY <1>0, <2>1, <3>2, <4>1 DEF TypeOK
      <4> QED  BY <2>1, <3>2, <4>1, <4>2 DEF StrayInv, ListedIsConnected
    <3> QED  BY <3>1, <3>2
  <2>3. WriteBack'
    BY <2>1 DEF StrayInv, WriteBack, Target
  <2> QED  BY <2>2, <2>3 DEF StrayInv, ListedIsConnected
<1>4. CASE Heartbeat(s)
  <2>1. \A w \in Writers : upd'[w] = "hset" => upd[w] = "hset"
    BY <1>4 DEF Heartbeat, AskActive, TypeOK
  <2> QED  BY <1>4, <2>1, StrayFrame DEF Heartbeat, redis, history
<1> QED  BY <1>1, <1>2, <1>3, <1>4

LEMMA UpdateStepStrays ==
    ASSUME TypeOK, StrayInv, NEW w \in Writers,
           (w \in Calls /\ Mark(w)) \/ Fetched(w) \/ Updated(w)
    PROVE  StrayInv'
<1>1. CASE Mark(w)
  <2>1. \A v \in Writers : upd'[v] = "hset" => upd[v] = "hset"
    BY <1>1 DEF Mark, AskActive, TypeOK
  <2> QED  BY <1>1, <2>1, StrayFrame DEF Mark, redis, history
<1>2. CASE Fetched(w)
  <2>1. UNCHANGED <<metadata, local, strays>>
    BY <1>2 DEF Fetched, redis, history
  <2>2. \A v \in Writers : upd'[v] = "hset" => upd[v] = "hset" \/ Target(v) \in metadata
    BY <1>2 DEF Fetched, TypeOK
  <2> QED  BY <2>1, <2>2 DEF StrayInv, ListedIsConnected, WriteBack, Target
<1>3. CASE Updated(w)
  <2>1. UNCHANGED <<local, strays>> /\ metadata \subseteq metadata'
    BY <1>3 DEF Updated, history
  <2>2. \A v \in Writers : upd'[v] = "hset" => upd[v] = "hset"
    BY <1>3 DEF Updated, TypeOK
  <2>3. \A m \in metadata' : m \in metadata \/ (m = Target(w) /\ upd[w] = "hset")
    BY <1>3 DEF Updated
  <2> QED  BY <2>1, <2>2, <2>3 DEF StrayInv, ListedIsConnected, WriteBack, Target
<1> QED  BY <1>1, <1>2, <1>3

LEMMA MonitorStepStrays ==
    ASSUME TypeOK, StrayInv, NEW p \in Routers, Monitor(p) \/ \E n \in Nodes : Silence(p, n)
    PROVE  StrayInv'
<1>1. ASSUME NEW n \in Nodes, NEW rest, Evict(p, n, rest) PROVE StrayInv'
  BY <1>1, RemovalStrays DEF Evict
<1>2. late[p] \subseteq Nodes /\ evict[p].todo \subseteq Nodes
  BY DEF TypeOK
<1>3. CASE MonitorScan(p)
  BY <1>1, <1>2, <1>3 DEF MonitorScan
<1>4. CASE MonitorNext(p)
  BY <1>1, <1>2, <1>4 DEF MonitorNext
<1>5. CASE Evicted(p) \/ \E n \in Nodes : Silence(p, n)
  BY <1>5, StrayFrame DEF Evicted, Silence, redis, tasks, history
<1> QED  BY <1>3, <1>4, <1>5 DEF Monitor

LEMMA CrashStrays ==
    ASSUME TypeOK, StrayInv, NEW p \in Routers, Crash(p)
    PROVE  StrayInv'
<1>1. /\ metadata' = metadata /\ strays \subseteq strays'
      /\ \A n \in Nodes : local[p][n] # NoSocket => n \in strays'
  BY DEF Crash, redis
<1>2. \A q \in Routers, n \in Nodes : q # p => local'[q][n] = local[q][n]
  BY DEF Crash, TypeOK
<1>3. \A w \in Writers : upd'[w] = "hset" => upd[w] = "hset"
  BY DEF Crash
<1>4. ListedIsConnected'
  <2>1. ASSUME NEW m \in metadata PROVE m \in strays' \/ \E q \in Routers : local'[q][m] # NoSocket
    <3>1. m \in Nodes
      BY DEF TypeOK
    <3> QED  BY <1>1, <1>2, <3>1 DEF StrayInv, ListedIsConnected
  <2> QED  BY <1>1, <2>1 DEF ListedIsConnected
<1>5. WriteBack'
  BY <1>1, <1>3 DEF StrayInv, WriteBack, Target
<1> QED  BY <1>4, <1>5 DEF StrayInv

LEMMA NextStrays == TypeOK /\ StrayInv /\ [Next]_vars => StrayInv'
<1> SUFFICES ASSUME TypeOK, StrayInv, [Next]_vars PROVE StrayInv'
  OBVIOUS
<1>1. CASE UNCHANGED vars
  BY <1>1, StrayFrame DEF vars, redis, tasks, history
<1> QED  BY <1>1, SocketStepStrays, UpdateStepStrays, MonitorStepStrays, CrashStrays
         DEF Next, Writing, Writers

\* Whatever routers, monitors, heartbeats and marks do at once, a node is listed without
\* a connection only after a router's death or a late write-back.
THEOREM ListedConnected == Spec => []ListedIsConnected
<1>1. Init => StrayInv
  BY DEF Init, StrayInv, ListedIsConnected, WriteBack
<1>2. StrayInv => ListedIsConnected
  BY DEF StrayInv
<1> QED  BY <1>1, <1>2, NextStrays, TypeCorrect, PTL DEF Spec

=============================================================================

---------------------------- MODULE DesktopProofs ----------------------------
(***************************************************************************)
(* Proofs about Desktop, for any number of processes.                      *)
(***************************************************************************)
EXTENDS Desktop, ProviderNodeProofs

USE DesktopAssumption

\* A client runs in a living process, and has no connection before it runs.
ClientLives == client # "off" => Detailed \in Alive
OffIsOff == client = "off" => ws = "none"

DesktopInv == DesktopTypeOK /\ RunningIsKnown /\ ClientLives /\ OffIsOff

LEMMA DesktopInitInv == DesktopInit => DesktopInv
BY DEF DesktopInit, Init, DesktopInv, DesktopTypeOK, RunningIsKnown, ClientLives, OffIsOff, Alive

\* Every step of the application is a step of the node, or leaves it alone.
LEMMA StepIsNodeStep == [DesktopNext]_dvars => [Next]_vars
BY DEF DesktopNext, dvars, Launch, StopNode, Quit, AppDies, NodeStep, StartNode, Closed,
       Exit, Death, Next

\* Whoever dies, the node's client dies with its process.
LEMMA DeathInv ==
    ASSUME DesktopInv, NEW D \in SUBSET Alive, NEW E \in SUBSET Procs, Death(D, E)
    PROVE  /\ proc' \in [Procs -> {"none", "alive", "dead"}]
           /\ Alive' = Alive \ D
           /\ ClientLives' /\ OffIsOff'
<1>1. proc' \in [Procs -> {"none", "alive", "dead"}] /\ Alive' = Alive \ D
  <2>1. ASSUME NEW p \in Procs
        PROVE  /\ proc'[p] \in {"none", "alive", "dead"}
               /\ proc'[p] = "alive" <=> p \in Alive \ D
    BY DEF Death
  <2>2. proc' \in [Procs -> {"none", "alive", "dead"}]
    BY <2>1 DEF Death
  <2> QED  BY <2>1, <2>2 DEF Alive
<1>2. CASE Detailed \in D /\ client # "off"
  <2>1. client' = "off" /\ ws' = "none"
    BY <1>2 DEF Death, Die
  <2> QED  BY <1>1, <2>1 DEF ClientLives, OffIsOff
<1>3. CASE ~(Detailed \in D /\ client # "off")
  <2>1. client' = client /\ ws' = ws
    BY <1>3 DEF Death, vars
  <2> QED  BY <1>1, <1>3, <2>1 DEF DesktopInv, ClientLives, OffIsOff
<1> QED  BY <1>1, <1>2, <1>3

LEMMA DesktopStepInv ==
    ASSUME DesktopInv, [DesktopNext]_dvars
    PROVE  DesktopInv'
<1>1. CASE UNCHANGED dvars
  BY <1>1 DEF dvars, vars, desktop, DesktopInv, DesktopTypeOK, RunningIsKnown, ClientLives,
              OffIsOff, Alive
<1>2. CASE Launch
  BY <1>2 DEF Launch, vars, DesktopInv, DesktopTypeOK, RunningIsKnown, ClientLives, OffIsOff, Alive
<1>3. ASSUME NEW p \in Procs, StartNode(p) PROVE DesktopInv'
  <2>1. Alive' = Alive \cup {p}
    BY <1>3 DEF StartNode, DesktopInv, DesktopTypeOK, Alive
  <2>2. DesktopTypeOK' /\ RunningIsKnown'
    BY <1>3, <2>1 DEF StartNode, DesktopInv, DesktopTypeOK, RunningIsKnown, Alive
  <2>3. ClientLives' /\ OffIsOff'
    BY <1>3, <2>1 DEF StartNode, vars, DesktopInv, ClientLives, OffIsOff
  <2> QED  BY <2>2, <2>3 DEF DesktopInv
<1>4. CASE StopNode
  <2>1. /\ proc' \in [Procs -> {"none", "alive", "dead"}]
        /\ Alive' = Alive \ {handle}
        /\ ClientLives' /\ OffIsOff'
    BY <1>4, DeathInv DEF StopNode
  <2> QED
    BY <1>4, <2>1 DEF StopNode, DesktopInv, DesktopTypeOK, RunningIsKnown
<1>5. ASSUME NEW p \in Procs, Closed(p) PROVE DesktopInv'
  <2>1. Alive' = Alive
    BY <1>5 DEF Closed, DesktopInv, DesktopTypeOK, Alive
  <2>2. DesktopTypeOK' /\ RunningIsKnown'
    BY <1>5, <2>1 DEF Closed, DesktopInv, DesktopTypeOK, RunningIsKnown, Alive
  <2>3. ClientLives' /\ OffIsOff'
    BY <1>5, <2>1 DEF Closed, vars, DesktopInv, ClientLives, OffIsOff
  <2> QED  BY <2>2, <2>3 DEF DesktopInv
<1>6. ASSUME NEW p \in Procs, Exit(p) PROVE DesktopInv'
  <2>1. /\ proc' \in [Procs -> {"none", "alive", "dead"}]
        /\ Alive' = Alive \ {p}
        /\ ClientLives' /\ OffIsOff'
    BY <1>6, DeathInv DEF Exit
  <2> QED
    BY <1>6, <2>1 DEF Exit, DesktopInv, DesktopTypeOK, RunningIsKnown
<1>7. CASE Quit
  <2>1. /\ proc' \in [Procs -> {"none", "alive", "dead"}]
        /\ Alive' = Alive \ {handle}
        /\ ClientLives' /\ OffIsOff'
    <3>1. {handle} \cap Alive \in SUBSET Alive /\ Procs \in SUBSET Procs
      OBVIOUS
    <3>2. Death({handle} \cap Alive, Procs)
      BY <1>7 DEF Quit
    <3> QED  BY <3>1, <3>2, DeathInv
  <2> QED
    BY <1>7, <2>1 DEF Quit, DesktopInv, DesktopTypeOK, RunningIsKnown
<1>8. CASE AppDies
  <2>1. /\ proc' \in [Procs -> {"none", "alive", "dead"}]
        /\ Alive' = Alive \ {}
        /\ ClientLives' /\ OffIsOff'
    BY <1>8, DeathInv DEF AppDies
  <2>2. Alive \subseteq Procs
    BY DEF Alive
  <2> QED
    BY <1>8, <2>1, <2>2 DEF AppDies, DesktopInv, DesktopTypeOK, RunningIsKnown
<1>9. CASE NodeStep
  <2>1. DesktopTypeOK' /\ RunningIsKnown' /\ Alive' = Alive
    BY <1>9 DEF NodeStep, desktop, DesktopInv, DesktopTypeOK, RunningIsKnown, Alive
  <2>2. client = "off" => ws' = ws \/ client' # "off"
    BY <1>9 DEF NodeStep, Boot, Work, Connecting, Connect, Refused, Retry, Registering,
         Registered, RegisterFails, Leave, Heartbeat, Drop, Receive, Ending, Report,
         Unreported, Ended, Finish, StartSwitch, Reloading, Loaded, LoadFails, Settled,
         Settle, DesktopInv, OffIsOff
  <2>3. client # "off" => client' # "off"
    BY <1>9 DEF NodeStep, Boot, Work, Connecting, Connect, Refused, Retry, Registering,
         Registered, RegisterFails, Leave, Heartbeat, Drop, Receive, Ending, Report,
         Unreported, Ended, Finish, StartSwitch, Reloading, Loaded, LoadFails, Settled,
         Settle, Backoff
  <2>4. ClientLives' /\ OffIsOff'
    BY <1>9, <2>1, <2>2, <2>3 DEF NodeStep, DesktopInv, ClientLives, OffIsOff
  <2> QED  BY <2>1, <2>4 DEF DesktopInv
<1> QED
  BY <1>1, <1>2, <1>3, <1>4, <1>5, <1>6, <1>7, <1>8, <1>9 DEF DesktopNext

LEMMA DesktopSafety == DesktopSpec => []DesktopInv
BY DesktopInitInv, DesktopStepInv, PTL DEF DesktopSpec

-----------------------------------------------------------------------------
\* In the application the node behaves as ProviderNode says, so what is proved of that
\* holds here too.
THEOREM NodeInDesktop == DesktopSpec => Spec
<1>1. DesktopInit => Init
  BY DEF DesktopInit
<1> QED  BY <1>1, StepIsNodeStep, PTL DEF DesktopSpec, Spec

\* No process runs that the application cannot stop, but for those whose handle it lost.
THEOREM RunningCorrect == DesktopSpec => []RunningIsKnown
BY DesktopSafety, PTL DEF DesktopInv

\* A node that the application has stopped has no client and no connection.
THEOREM StoppedCorrect == DesktopSpec => []StoppedIsOff
<1>1. DesktopInv => StoppedIsOff
  BY DEF DesktopInv, RunningIsKnown, ClientLives, OffIsOff, StoppedIsOff, Alive
<1> QED  BY <1>1, DesktopSafety, PTL
=============================================================================

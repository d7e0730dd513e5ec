-------------------------- MODULE ProviderNodeProofs --------------------------
(***************************************************************************)
(* Proofs about ProviderNode, for any numbers of inferences, switches and  *)
(* attempts.                                                               *)
(***************************************************************************)
EXTENDS ProviderNode, TLAPS

USE ProviderAssumption

\* The back-off counts the attempts refused in a row, and one more if they follow a
\* connection that was lost.
Counting ==
    /\ refused <= attempt /\ attempt <= refused + 1
    /\ client \in {"registering", "serving"} => attempt = 0
    /\ client = "gone" <=> attempt = MaxAttempts + 1

\* Without a connection every inference is known to be cut off.
CutIsKnown == ws # "open" => Running \subseteq cut

\* Tasks that have not overlapped are one at most.
AloneIsOne == ~overlapped => \A x, y \in Tasks : x = y

ProviderInv == TypeOK /\ Counting /\ CutIsKnown /\ AloneIsOne /\ StatusTellsTruth

LEMMA InitInv == ASSUME Init PROVE ProviderInv
<1>1. TypeOK /\ Counting
  <2>1. inference \in [Inferences -> {"none", "running", "reported"}]
    BY Zenon DEF Init, NoInferences
  <2>2. switch \in [Switches -> {"none", "loading", "loaded"}]
    BY Zenon DEF Init, NoSwitches
  <2>3. Counting /\ attempt \in 0 .. (MaxAttempts + 1) /\ refused \in 0 .. (MaxAttempts + 1)
    BY DEF Init, Counting
  <2>4. overlapped \in BOOLEAN /\ cut \subseteq Inferences
    BY Zenon DEF Init
  <2> QED  BY <2>1, <2>2, <2>3, <2>4, Zenon DEF Init, TypeOK
<1>2. Running = {} /\ Switching = {} /\ Tasks = {}
  BY DEF Init, Running, Switching, Tasks, NoInferences, NoSwitches
<1>3. CutIsKnown /\ AloneIsOne
  BY <1>2 DEF CutIsKnown, AloneIsOne
<1>4. StatusTellsTruth
  BY <1>2 DEF Init, StatusTellsTruth
<1> QED  BY <1>1, <1>3, <1>4 DEF ProviderInv

\* The actions by what they touch: the connection, an inference, or a switch.
Line ==
    \/ Boot \/ Connecting \/ Retry \/ Registering \/ Leave \/ Heartbeat
    \/ \E how \in {"closed", "broken"} : Drop(how)

LEMMA ByKind ==
    ASSUME [Next]_vars
    PROVE  \/ UNCHANGED vars \/ Die \/ Line
           \/ \E i \in Inferences : Receive(i) \/ Ending(i)
           \/ \E w \in Switches : StartSwitch(w) \/ Reloading(w)
BY DEF Next, Work, Line

LEMMA DieInv == ASSUME Die PROVE ProviderInv'
<1>1. TypeOK' /\ Counting'
  <2>1. inference' \in [Inferences -> {"none", "running", "reported"}]
    BY Zenon DEF Die, NoInferences
  <2>2. switch' \in [Switches -> {"none", "loading", "loaded"}]
    BY Zenon DEF Die, NoSwitches
  <2>3. Counting' /\ attempt' \in 0 .. (MaxAttempts + 1) /\ refused' \in 0 .. (MaxAttempts + 1)
    BY DEF Die, Counting
  <2>4. overlapped' \in BOOLEAN /\ cut' \subseteq Inferences
    BY Zenon DEF Die
  <2> QED  BY <2>1, <2>2, <2>3, <2>4, Zenon DEF Die, TypeOK
<1>2. Running' = {} /\ Switching' = {} /\ Tasks' = {}
  BY DEF Die, Running, Switching, Tasks, NoInferences, NoSwitches
<1>3. CutIsKnown' /\ AloneIsOne'
  BY <1>2 DEF CutIsKnown, AloneIsOne
<1>4. StatusTellsTruth'
  BY <1>2 DEF Die, StatusTellsTruth
<1> QED  BY <1>1, <1>3, <1>4 DEF ProviderInv

LEMMA BackoffStep ==
    ASSUME TypeOK, Counting, client # "gone", Backoff
    PROVE  /\ attempt' \in 0 .. (MaxAttempts + 1) /\ attempt' = attempt + 1
           /\ client' \in {"gone", "backoff"}
           /\ client' = "gone" <=> attempt' = MaxAttempts + 1
BY DEF Backoff, TypeOK, Counting

LEMMA LineInv ==
    ASSUME ProviderInv, Line
    PROVE  ProviderInv'
<1>1. TypeOK' /\ Counting'
  <2>1. CASE Boot
    BY <2>1 DEF Boot, ProviderInv, TypeOK, Counting, history
  <2>2. CASE Connect
    BY <2>2 DEF Connect, ProviderInv, TypeOK, Counting
  <2>3. CASE Refused
    <3>1. /\ attempt' \in 0 .. (MaxAttempts + 1) /\ attempt' = attempt + 1
          /\ client' \in {"gone", "backoff"}
          /\ client' = "gone" <=> attempt' = MaxAttempts + 1
      BY <2>3, BackoffStep DEF Refused, ProviderInv
    <3> QED  BY <2>3, <3>1 DEF Refused, ProviderInv, TypeOK, Counting
  <2>4. CASE Retry
    BY <2>4 DEF Retry, ProviderInv, TypeOK, Counting, history
  <2>5. CASE Registered
    BY <2>5 DEF Registered, ProviderInv, TypeOK, Counting, history
  <2>6. CASE RegisterFails
    <3>1. /\ attempt' \in 0 .. (MaxAttempts + 1) /\ attempt' = attempt + 1
          /\ client' \in {"gone", "backoff"}
          /\ client' = "gone" <=> attempt' = MaxAttempts + 1
      BY <2>6, BackoffStep DEF RegisterFails, ProviderInv
    <3> QED  BY <2>6, <3>1 DEF RegisterFails, ProviderInv, TypeOK, Counting, history
  <2>7. CASE Leave /\ ws = "closed"
    BY <2>7 DEF Leave, ProviderInv, TypeOK, Counting, history
  <2>8. CASE Leave /\ ws # "closed"
    <3>1. /\ attempt' \in 0 .. (MaxAttempts + 1) /\ attempt' = attempt + 1
          /\ client' \in {"gone", "backoff"}
          /\ client' = "gone" <=> attempt' = MaxAttempts + 1
      BY <2>8, BackoffStep DEF Leave, ProviderInv
    <3> QED  BY <2>8, <3>1 DEF Leave, ProviderInv, TypeOK, Counting, history
  <2>9. CASE Heartbeat
    BY <2>9 DEF Heartbeat, ProviderInv, TypeOK, Counting, history
  <2>10. ASSUME NEW how \in {"closed", "broken"}, Drop(how) PROVE TypeOK' /\ Counting'
    BY <2>10 DEF Drop, ProviderInv, TypeOK, Counting, Running
  <2> QED
    BY <2>1, <2>2, <2>3, <2>4, <2>5, <2>6, <2>7, <2>8, <2>9, <2>10
       DEF Line, Connecting, Registering
<1>2. UNCHANGED <<status, inference, switch, overlapped>>
  BY DEF Line, Boot, Connecting, Connect, Refused, Retry, Registering, Registered,
         RegisterFails, Leave, Heartbeat, Drop, history
<1>3. StatusTellsTruth' /\ AloneIsOne'
  BY <1>2 DEF ProviderInv, StatusTellsTruth, AloneIsOne, Running, Switching, Tasks
<1>4. CutIsKnown'
  <2>1. Running' = Running
    BY <1>2 DEF Running
  <2>2. ws' # "open" => \/ ws # "open" /\ cut' = cut
                        \/ cut' = cut \cup Running
    BY DEF Line, Boot, Connecting, Connect, Refused, Retry, Registering, Registered,
           RegisterFails, Leave, Heartbeat, Drop, history
  <2> QED  BY <2>1, <2>2 DEF ProviderInv, CutIsKnown
<1> QED  BY <1>1, <1>3, <1>4 DEF ProviderInv

LEMMA ReceiveInv ==
    ASSUME ProviderInv, NEW i \in Inferences, Receive(i)
    PROVE  ProviderInv'
<1> USE DEF ProviderInv, Receive
<1>1. TypeOK' /\ Counting'
  BY DEF TypeOK, Counting
<1>2. Running' = Running \cup {i} /\ Switching' = Switching /\ Tasks' = Tasks \cup {i}
  BY DEF Running, Switching, Tasks, TypeOK
<1>3. CutIsKnown'
  BY <1>2 DEF CutIsKnown
<1>4. AloneIsOne'
  BY <1>2 DEF AloneIsOne
<1>5. StatusTellsTruth'
  BY <1>2 DEF StatusTellsTruth, Tasks
<1> QED  BY <1>1, <1>3, <1>4, <1>5

LEMMA FinishInv ==
    ASSUME ProviderInv, NEW i \in Running, Finish(i)
    PROVE  ProviderInv'
<1> USE DEF ProviderInv, Finish
<1>1. TypeOK' /\ Counting'
  BY DEF TypeOK, Counting
<1>2. Running' = Running \ {i} /\ Switching' = Switching /\ Tasks' = Tasks \ {i}
  BY DEF Running, Switching, Tasks, TypeOK
<1>3. CutIsKnown'
  BY <1>2 DEF CutIsKnown
<1>4. i \in Tasks
  BY DEF Tasks
<1>5. ~overlapped' => Tasks' = {}
  BY <1>2, <1>4 DEF AloneIsOne
<1>6. AloneIsOne'
  BY <1>5 DEF AloneIsOne
<1>7. StatusTellsTruth'
  <2>1. ~overlapped' => Running' = {} /\ Switching' = {}
    BY <1>5 DEF Tasks
  <2> QED  BY <2>1 DEF StatusTellsTruth
<1> QED  BY <1>1, <1>3, <1>6, <1>7

LEMMA EndingInv ==
    ASSUME ProviderInv, NEW i \in Inferences, Ending(i)
    PROVE  ProviderInv'
<1>1. CASE Report(i)
  <2> USE <1>1 DEF Report, history, ProviderInv
  <2>1. TypeOK' /\ Counting'
    BY DEF TypeOK, Counting
  <2>2. Running' = Running /\ Switching' = Switching /\ Tasks' = Tasks
    BY DEF Running, Switching, Tasks, TypeOK
  <2>3. CutIsKnown' /\ AloneIsOne' /\ StatusTellsTruth'
    BY <2>2 DEF CutIsKnown, AloneIsOne, StatusTellsTruth
  <2> QED  BY <2>1, <2>3
<1>2. CASE Unreported(i) \/ Ended(i)
  <2>1. i \in Running /\ Finish(i)
    BY <1>2 DEF Unreported, Ended, Running
  <2> QED  BY <2>1, FinishInv
<1> QED  BY <1>1, <1>2 DEF Ending

LEMMA SwitchInv ==
    ASSUME ProviderInv, NEW w \in Switches, StartSwitch(w) \/ Loaded(w)
    PROVE  ProviderInv'
<1> USE DEF ProviderInv
<1>1. CASE StartSwitch(w)
  <2> USE <1>1 DEF StartSwitch
  <2>1. TypeOK' /\ Counting'
    BY DEF TypeOK, Counting
  <2>2. Running' = Running /\ Switching' = Switching \cup {w} /\ Tasks' = Tasks \cup {w}
    BY DEF Running, Switching, Tasks, TypeOK
  <2>3. CutIsKnown' /\ AloneIsOne'
    BY <2>2 DEF CutIsKnown, AloneIsOne
  <2>4. StatusTellsTruth'
    BY <2>2 DEF StatusTellsTruth, Tasks
  <2> QED  BY <2>1, <2>3, <2>4
<1>2. CASE Loaded(w)
  <2> USE <1>2 DEF Loaded, history
  <2>1. TypeOK' /\ Counting'
    BY DEF TypeOK, Counting
  <2>2. Running' = Running /\ Switching' = Switching /\ Tasks' = Tasks
    BY DEF Running, Switching, Tasks, TypeOK
  <2>3. CutIsKnown' /\ AloneIsOne' /\ StatusTellsTruth'
    BY <2>2 DEF CutIsKnown, AloneIsOne, StatusTellsTruth
  <2> QED  BY <2>1, <2>3
<1> QED  BY <1>1, <1>2

LEMMA SettleInv ==
    ASSUME ProviderInv, NEW w \in Switches, LoadFails(w) \/ Settled(w)
    PROVE  ProviderInv'
<1> USE DEF ProviderInv
<1>1. w \in Switching /\ Settle(w)
  BY DEF LoadFails, Settled, Switching
<1> USE <1>1 DEF Settle
<1>2. TypeOK' /\ Counting'
  BY DEF TypeOK, Counting
<1>3. Running' = Running /\ Switching' = Switching \ {w}
  BY DEF Running, Switching, TypeOK
<1>4. Tasks' = Tasks \ {w} /\ w \in Tasks /\ w \notin Running
  BY <1>3 DEF Tasks, Running
<1>5. CutIsKnown'
  BY <1>3 DEF CutIsKnown
<1>6. ~overlapped' => Tasks' = {}
  BY <1>4 DEF AloneIsOne
<1>7. AloneIsOne'
  BY <1>6 DEF AloneIsOne
<1>8. StatusTellsTruth'
  <2>1. status' # "loading" /\ status' \in {"idle", "busy", "loading"}
    BY <1>2 DEF TypeOK
  <2>2. status' = "busy" => Running' # {}
    BY <1>3 DEF StatusTellsTruth
  <2>3. Tasks' = {} => Running' = {} /\ Switching' = {}
    BY DEF Tasks
  <2> QED  BY <1>6, <2>1, <2>2, <2>3 DEF StatusTellsTruth
<1> QED  BY <1>2, <1>5, <1>7, <1>8

LEMMA StepInv ==
    ASSUME ProviderInv, [Next]_vars
    PROVE  ProviderInv'
<1>1. CASE UNCHANGED vars
  BY <1>1 DEF vars, history, ProviderInv, TypeOK, Counting, CutIsKnown, AloneIsOne,
              StatusTellsTruth, Running, Switching, Tasks
<1> QED
  BY <1>1, ByKind, DieInv, LineInv, ReceiveInv, EndingInv, SwitchInv, SettleInv
     DEF Reloading

LEMMA Safety == Init /\ [][Next]_vars => []ProviderInv
BY InitInv, StepInv, PTL

-----------------------------------------------------------------------------
\* The state of a provider is always of the stated types: the back-off is never taken
\* beyond the attempt that overflows it.
THEOREM TypeCorrect == Spec => []TypeOK
BY Safety, PTL DEF Spec, ProviderInv

\* self.status never stays behind on work that is over, and it is exact as long as no
\* two tasks meet.
THEOREM StatusCorrect == Spec => []StatusTellsTruth
BY Safety, PTL DEF Spec, ProviderInv

\* run() ends only after MaxAttempts refusals in a row.
THEOREM GivesUpCorrect == Spec => []GivesUpOnlyUnreachable
<1>1. ProviderInv => GivesUpOnlyUnreachable
  BY DEF ProviderInv, TypeOK, Counting, GivesUpOnlyUnreachable
<1> QED  BY <1>1, Safety, PTL DEF Spec

LEMMA LossStep ==
    ASSUME ProviderInv, [Next]_vars, NEW i \in Inferences,
           inference[i] = "running", inference'[i] = "none"
    PROVE  i \in cut \/ client' = "off"
<1>1. CASE Die
  BY <1>1 DEF Die
<1>2. CASE Line \/ UNCHANGED vars
  BY <1>2 DEF Line, Boot, Connecting, Connect, Refused, Retry, Registering, Registered,
              RegisterFails, Leave, Heartbeat, Drop, vars
<1>3. ASSUME NEW w \in Switches, StartSwitch(w) \/ Reloading(w) PROVE FALSE
  BY <1>3 DEF StartSwitch, Reloading, Loaded, LoadFails, Settled, Settle
<1>4. ASSUME NEW j \in Inferences, Receive(j) \/ Ending(j) PROVE i \in cut
  <2>1. j = i /\ Unreported(i)
    BY <1>4 DEF ProviderInv, TypeOK, Receive, Ending, Report, Unreported, Ended, Finish
  <2> QED  BY <2>1 DEF Unreported, ProviderInv, CutIsKnown, Running
<1> QED  BY <1>1, <1>2, <1>3, <1>4, ByKind

\* No inference of a living provider ends unreported unless its connection has been gone.
THEOREM LossCorrect == Spec => NoSilentLoss
<1>1. ProviderInv /\ [Next]_vars =>
        [\A i \in Inferences :
            inference[i] = "running" /\ inference'[i] = "none" => i \in cut \/ client' = "off"]_vars
  BY LossStep
<1> QED  BY <1>1, Safety, PTL DEF Spec, NoSilentLoss
=============================================================================

-------------------------------- MODULE Desktop --------------------------------
(***************************************************************************)
(* The desktop application around a provider: the main process of          *)
(* electron/main.cjs starts, stops and forgets Python processes; one of    *)
(* them is the node of ProviderNode, of the others it matters only whether *)
(* they live.                                                              *)
(*                                                                         *)
(* kill() is a SIGKILL.  A child's close event is delivered some time      *)
(* after its death, as long as the application that started it is there.   *)
(***************************************************************************)
EXTENDS ProviderNode

CONSTANTS
    Procs,      \* slots for processes, each used again
    Detailed,   \* the one whose client is ProviderNode's
    NoProc

ASSUME DesktopAssumption == Detailed \in Procs /\ NoProc \notin Procs

VARIABLES
    app,        \* "up" or "down"
    handle,     \* pythonProcess
    proc,       \* "dead": with a close event to come
    forgotten   \* History: living processes whose handle was lost by a late close
                \* event or with the application

desktop == <<app, handle, proc, forgotten>>
dvars == <<vars, desktop>>

DesktopInit ==
    /\ Init
    /\ app = "down" /\ handle = NoProc
    /\ proc = [p \in Procs |-> "none"]
    /\ forgotten = {}

Alive == {p \in Procs : proc[p] = "alive"}

\* The processes of D die; the close events of E will not be delivered.
Death(D, E) ==
    /\ proc' = [p \in Procs |->
            IF p \in Alive \ D THEN "alive"
            ELSE IF p \in E \/ (p \notin D /\ proc[p] = "none") THEN "none"
            ELSE "dead"]
    /\ IF Detailed \in D /\ client # "off" THEN Die ELSE UNCHANGED vars

-----------------------------------------------------------------------------
\* The application is started: no process is known to it.
Launch ==
    /\ app = "down" /\ app' = "up"
    /\ UNCHANGED <<vars, handle, proc, forgotten>>

\* Mutant of StartNode: a second click starts a second process.
StartAnother(p) ==
    /\ app = "up" /\ proc[p] = "none"
    /\ handle' = p
    /\ proc' = [proc EXCEPT ![p] = "alive"]
    /\ UNCHANGED <<vars, app, forgotten>>

\* startPythonNode()
StartNode(p) ==
    /\ app = "up" /\ proc[p] = "none"
    /\ handle = NoProc
    /\ handle' = p
    /\ proc' = [proc EXCEPT ![p] = "alive"]
    /\ UNCHANGED <<vars, app, forgotten>>

\* Mutant of StopNode: the handle is dropped, and the process left to itself.
StopUnkilled ==
    /\ app = "up" /\ handle # NoProc
    /\ handle' = NoProc
    /\ UNCHANGED <<vars, app, proc, forgotten>>

\* stopPythonNode(): the process may be dead already.
StopNode ==
    /\ app = "up" /\ handle # NoProc
    /\ handle' = NoProc
    /\ Death({handle} \cap Alive, {})
    /\ UNCHANGED <<app, forgotten>>

\* A close event, of whichever process: the handle is null.
Closed(p) ==
    /\ app = "up" /\ proc[p] = "dead"
    /\ proc' = [proc EXCEPT ![p] = "none"]
    /\ handle' = NoProc
    /\ forgotten' = forgotten \cup ({handle} \cap Alive)
    /\ UNCHANGED <<vars, app>>

\* A process ends by itself.
Exit(p) ==
    /\ p \in Alive
    /\ Death({p}, IF app = "down" THEN {p} ELSE {})
    /\ forgotten' = forgotten \ {p}
    /\ UNCHANGED <<app, handle>>

\* before-quit, which stops the node as well.
Quit ==
    /\ app = "up" /\ app' = "down"
    /\ handle' = NoProc
    /\ Death({handle} \cap Alive, Procs)
    /\ UNCHANGED forgotten

\* The main process dies without that event; its children live on.
AppDies ==
    /\ app = "up" /\ app' = "down"
    /\ handle' = NoProc
    /\ Death({}, Procs)
    /\ forgotten' = Alive

\* What the node does by itself while its process lives.
NodeStep ==
    /\ Detailed \in Alive
    /\ Boot \/ Work
    /\ UNCHANGED desktop

DesktopNext ==
    \/ Launch \/ StopNode \/ Quit \/ AppDies \/ NodeStep
    \/ \E p \in Procs : StartNode(p) \/ Closed(p) \/ Exit(p)

DesktopSpec == DesktopInit /\ [][DesktopNext]_dvars /\ Fairness

-----------------------------------------------------------------------------
(* Properties *)

\* The values the state can take.
DesktopTypeOK ==
    /\ app \in {"up", "down"}
    /\ handle \in Procs \cup {NoProc}
    /\ proc \in [Procs -> {"none", "alive", "dead"}]
    /\ forgotten \subseteq Procs

\* A process that runs is the one the application can stop, unless that one's handle was
\* lost by the close event of another or with the application: however often the node
\* is started and stopped, no second one runs beside it otherwise.
RunningIsKnown == \A p \in Alive : p = handle \/ p \in forgotten

\* When the application has let go of the node, by a stop or its own end, there is no
\* client left that connects, serves or holds a connection to the router.
StoppedIsOff ==
    handle # Detailed /\ Detailed \notin forgotten => client = "off" /\ ws = "none"
=============================================================================

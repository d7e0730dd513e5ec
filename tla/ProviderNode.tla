----------------------------- MODULE ProviderNode -----------------------------
(***************************************************************************)
(* One provider process: the client of ws_client.py, with its reconnect    *)
(* loop, its heartbeats, and the inferences and model switches that run as *)
(* tasks beside each other and outlive the connection they came by.        *)
(*                                                                         *)
(* The process runs on one thread: an action is what a task does from one  *)
(* await to the next.  What an inference sends between its start and its   *)
(* final report is Gateway's matter.  A switch is one to another model     *)
(* than the loaded one; others return at once.  stop() is called by        *)
(* nobody: a process ends by a signal (Die) and comes back by Boot.        *)
(***************************************************************************)
EXTENDS Integers

CONSTANTS
    Inferences,     \* slots for _handle_inference tasks
    Switches,       \* slots for _handle_switch_model tasks
    MaxAttempts     \* the largest attempt whose delay is a float: 1024

ASSUME ProviderAssumption ==
    /\ Inferences \cap Switches = {}
    /\ MaxAttempts \in Nat \ {0}

VARIABLES
    client,      \* where run() is; "gone": an exception has left its loop
    ws,          \* self.ws: None, open, or an object closed with code 1000/1001 or not
    attempt,     \* self._reconnect_attempt
    status,      \* self.status
    inference,   \* the inference tasks
    switch,      \* the model switch tasks
    (* Router *)
    told,        \* the status the router was last told on this connection
    (* History *)
    cut,         \* inferences whose connection was gone at some time since they began
    overlapped,  \* two tasks have been under way at once since there was none
    refused      \* connection attempts that have failed in a row

history == <<cut, overlapped, refused>>
vars == <<client, ws, attempt, status, inference, switch, told, history>>

Running == {i \in Inferences : inference[i] # "none"}
Switching == {w \in Switches : switch[w] # "none"}
Tasks == Running \cup Switching

NoInferences == [i \in Inferences |-> "none"]
NoSwitches == [w \in Switches |-> "none"]

Init ==
    /\ client = "off"
    /\ ws = "none"
    /\ attempt = 0
    /\ status = "idle"
    /\ inference = NoInferences
    /\ switch = NoSwitches
    /\ told = "none"
    /\ cut = {}
    /\ overlapped = FALSE
    /\ refused = 0

-----------------------------------------------------------------------------
(* The process *)

\* main.py has loaded the model and starts the client.
Boot ==
    /\ client = "off"
    /\ client' = "connecting"
    /\ UNCHANGED <<ws, attempt, status, inference, switch, told, history>>

\* A signal, at any time: nothing is kept, and the router sees the connection close.
Die ==
    /\ client # "off"
    /\ client' = "off"
    /\ ws' = "none"
    /\ attempt' = 0
    /\ status' = "idle"
    /\ inference' = NoInferences
    /\ switch' = NoSwitches
    /\ told' = "none"
    /\ cut' = {}
    /\ overlapped' = FALSE
    /\ refused' = 0

-----------------------------------------------------------------------------
(* run() and _connect_and_serve() *)

\* Mutant of Backoff: the delay has room for one attempt more than its power has.
BackoffLater ==
    /\ attempt' = attempt + 1
    /\ client' = IF attempt' > MaxAttempts + 1 THEN "gone" ELSE "backoff"

\* _backoff_delay(), called in the handlers of run(): 2 ** n outgrows a float, and
\* then the exception leaves the loop.
Backoff ==
    /\ attempt' = attempt + 1
    /\ client' = IF attempt' > MaxAttempts THEN "gone" ELSE "backoff"

\* Mutant of Connect: a connection does not reset the back-off.
ConnectKeepsCount ==
    /\ client = "connecting"
    /\ client' = "registering"
    /\ ws' = "open"
    /\ refused' = 0
    /\ UNCHANGED <<attempt, status, inference, switch, told, cut, overlapped>>

Connect ==
    /\ client = "connecting"
    /\ client' = "registering"
    /\ ws' = "open"
    /\ attempt' = 0
    /\ refused' = 0
    /\ UNCHANGED <<status, inference, switch, told, cut, overlapped>>

\* The router cannot be reached.  self.ws is what it was.
Refused ==
    /\ client = "connecting"
    /\ Backoff
    /\ refused' = refused + 1
    /\ UNCHANGED <<ws, status, inference, switch, told, cut, overlapped>>

\* The sleep is over.
Retry ==
    /\ client = "backoff"
    /\ client' = "connecting"
    /\ UNCHANGED <<ws, attempt, status, inference, switch, told, history>>

\* _send_register(): whatever is under way here, the router takes the node for idle.
Registered ==
    /\ client = "registering" /\ ws = "open"
    /\ client' = "serving"
    /\ told' = "idle"
    /\ UNCHANGED <<ws, attempt, status, inference, switch, history>>

\* The exception leaves before the try block: self.ws keeps the closed object.
RegisterFails ==
    /\ client = "registering" /\ ws # "open"
    /\ Backoff
    /\ UNCHANGED <<ws, status, inference, switch, told, history>>

\* The connection ends, by a close frame with 1000 or 1001 ("closed") or otherwise.
Drop(how) ==
    /\ ws = "open"
    /\ ws' = how
    /\ told' = "none"
    /\ cut' = cut \cup Running
    /\ UNCHANGED <<client, attempt, status, inference, switch, overlapped, refused>>

\* Mutant of Leave: the end of the loop without an exception is not noticed.
LeaveOnError ==
    /\ client = "serving" /\ ws = "broken"
    /\ ws' = "none"
    /\ Backoff
    /\ UNCHANGED <<status, inference, switch, told, history>>

\* The message loop notices: a clean close ends it without an exception, and run()
\* connects again at once.  The heartbeat task is cancelled and waited for.
Leave ==
    /\ client = "serving" /\ ws # "open"
    /\ ws' = "none"
    /\ IF ws = "closed" THEN client' = "connecting" /\ UNCHANGED attempt ELSE Backoff
    /\ UNCHANGED <<status, inference, switch, told, history>>

\* The heartbeat task, which runs while the message loop does.
Heartbeat ==
    /\ client = "serving" /\ ws = "open"
    /\ told' = status
    /\ UNCHANGED <<client, ws, attempt, status, inference, switch, history>>

-----------------------------------------------------------------------------
(* _handle_inference() *)

\* Messages that have arrived are read even after the connection was lost.
Receive(i) ==
    /\ client = "serving"
    /\ inference[i] = "none"
    /\ inference' = [inference EXCEPT ![i] = "running"]
    /\ status' = "busy"
    /\ cut' = IF ws = "open" THEN cut ELSE cut \cup {i}
    /\ overlapped' = (overlapped \/ Tasks # {})
    /\ UNCHANGED <<client, ws, attempt, switch, told, refused>>

\* The answer is complete or the model has failed: inference_done or inference_error.
Report(i) ==
    /\ inference[i] = "running" /\ ws = "open"
    /\ inference' = [inference EXCEPT ![i] = "reported"]
    /\ UNCHANGED <<client, ws, attempt, status, switch, told, history>>

\* The finally block: the status is idle, whatever else is running.
Finish(i) ==
    /\ inference' = [inference EXCEPT ![i] = "none"]
    /\ status' = "idle"
    /\ cut' = cut \ {i}
    /\ overlapped' = (overlapped /\ Tasks # {i})
    /\ UNCHANGED <<client, ws, attempt, switch, told, refused>>

\* Mutant of Unreported: a failed inference is not reported at all.
UnreportedAlways(i) == inference[i] = "running" /\ Finish(i)

\* A chunk finds self.ws None, or a send fails and so does the send of the error.
Unreported(i) ==
    /\ inference[i] = "running" /\ ws # "open"
    /\ Finish(i)

\* Mutant of Ended: the status is left to whoever set it last.
EndedQuietly(i) ==
    /\ inference[i] = "reported"
    /\ inference' = [inference EXCEPT ![i] = "none"]
    /\ cut' = cut \ {i}
    /\ overlapped' = (overlapped /\ Tasks # {i})
    /\ UNCHANGED <<client, ws, attempt, status, switch, told, refused>>

Ended(i) ==
    /\ inference[i] = "reported"
    /\ Finish(i)

-----------------------------------------------------------------------------
(* _handle_switch_model() *)

StartSwitch(w) ==
    /\ client = "serving"
    /\ switch[w] = "none"
    /\ switch' = [switch EXCEPT ![w] = "loading"]
    /\ status' = "loading"
    /\ overlapped' = (overlapped \/ Tasks # {})
    /\ UNCHANGED <<client, ws, attempt, inference, told, cut, refused>>

\* The model is loaded, and a heartbeat says so: with the status of before.
Loaded(w) ==
    /\ switch[w] = "loading"
    /\ switch' = [switch EXCEPT ![w] = "loaded"]
    /\ told' = IF ws = "open" THEN status ELSE told
    /\ UNCHANGED <<client, ws, attempt, status, inference, history>>

\* The finally block.
Settle(w) ==
    /\ switch' = [switch EXCEPT ![w] = "none"]
    /\ status' = IF status = "loading" THEN "idle" ELSE status
    /\ overlapped' = (overlapped /\ Tasks # {w})
    /\ UNCHANGED <<client, ws, attempt, inference, told, cut, refused>>

LoadFails(w) == switch[w] = "loading" /\ Settle(w)
Settled(w) == switch[w] = "loaded" /\ Settle(w)

-----------------------------------------------------------------------------
Connecting == Connect \/ Refused
Registering == Registered \/ RegisterFails
Ending(i) == Report(i) \/ Unreported(i) \/ Ended(i)
Reloading(w) == Loaded(w) \/ LoadFails(w) \/ Settled(w)

Work ==
    \/ Connecting \/ Retry \/ Registering \/ Leave \/ Heartbeat
    \/ \E how \in {"closed", "broken"} : Drop(how)
    \/ \E i \in Inferences : Receive(i) \/ Ending(i)
    \/ \E w \in Switches : StartSwitch(w) \/ Reloading(w)

Next == Boot \/ Die \/ Work

\* Attempts to connect and sends come to an end, timers fire, a model stops generating
\* or loading.  Nothing is assumed of the router.
Fairness ==
    /\ WF_vars(Connecting) /\ WF_vars(Retry) /\ WF_vars(Registering)
    /\ WF_vars(Leave) /\ WF_vars(Heartbeat)
    /\ \A i \in Inferences : WF_vars(Ending(i))
    /\ \A w \in Switches : WF_vars(Reloading(w))

Spec == Init /\ [][Next]_vars /\ Fairness
-----------------------------------------------------------------------------
(* Properties *)

\* The values the state can take: none of the counters outgrows the back-off.
TypeOK ==
    /\ client \in {"off", "connecting", "registering", "serving", "backoff", "gone"}
    /\ ws \in {"none", "open", "closed", "broken"}
    /\ attempt \in 0 .. (MaxAttempts + 1)
    /\ status \in {"idle", "busy", "loading"}
    /\ inference \in [Inferences -> {"none", "running", "reported"}]
    /\ switch \in [Switches -> {"none", "loading", "loaded"}]
    /\ told \in {"none", "idle", "busy", "loading"}
    /\ cut \subseteq Inferences
    /\ overlapped \in BOOLEAN
    /\ refused \in 0 .. (MaxAttempts + 1)

\* self.status, which every task sets when it begins and when it ends, is never stuck
\* on work that is over; and as long as no two tasks have met, it is exactly what the
\* node does.  (When two have, the first to end declares the node idle.)
StatusTellsTruth ==
    /\ Tasks = {} => status = "idle"
    /\ status = "busy" => Running # {}
    /\ status = "loading" => Switching # {}
    /\ ~overlapped => /\ Running # {} => status = "busy"
                      /\ Switching # {} => status = "loading"

\* _handle_inference() ends without a word to the router only when the connection has
\* been gone at some time since the request came.
NoSilentLoss ==
    [][\A i \in Inferences :
        inference[i] = "running" /\ inference'[i] = "none" => i \in cut \/ client' = "off"]_vars

\* run(), which is to reconnect for ever, ends only by the overflow of its back-off:
\* after as many attempts in a row as a float has room for, none of them successful.
GivesUpOnlyUnreachable == client = "gone" => refused >= MaxAttempts

\* Whatever was under way and however it ended, the router of a node without work hears
\* that it is idle, as long as they are connected: the status that a model switch reports
\* too early, or that a registration has claimed, is put right by a later heartbeat.
Serving == client = "serving" /\ ws = "open"
ToldIdle == (Serving /\ Tasks = {}) ~> (told = "idle" \/ Tasks # {} \/ ~Serving)

\* However the connection ends, the client is back at connecting before long: it never
\* stays with a connection that is gone.
KeepsTrying == []<>(ws = "open" \/ client \in {"connecting", "gone", "off"})
=============================================================================

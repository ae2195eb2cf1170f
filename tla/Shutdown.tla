------------------------------ MODULE Shutdown ------------------------------
(* The end of the server process (services/GracefulShutdown.ts) with what it *)
(* waits for: the tracker of the requests in flight                          *)
(* (middleware/requestTracker.ts), the drain and the close of the voice      *)
(* sockets (api/websocket.ts) and of the supervisor sockets                  *)
(* (api/supervisor.ts). Time counts from the first signal, in units of which *)
(* the force-exit timer has ForceAfter and each drain DrainFor.              *)
EXTENDS Naturals, FiniteSets

CONSTANTS Requests,     \* HTTP requests
          Clients,      \* voice clients
          Supervisors,  \* supervisor clients
          ForceAfter,   \* timeoutMs
          DrainFor      \* drainTimeoutMs

VARIABLES phase,        \* what shutdown() awaits; "serving" while isShuttingDown is FALSE
          clock, deadline,
          request,      \* what the response of a request has emitted
          count,        \* RequestTracker.count
          socket,       \* the socket of each voice and supervisor client
          draining,     \* VoiceWebSocketServer.draining
          told,         \* the clients that were sent server.shutdown
          closing,      \* the targets whose close() has not called back
          exit,         \* the exit code, "none" while the process runs
          timedOut      \* history: the drains that gave up

vars == <<phase, clock, deadline, request, count, socket, draining, told, closing, exit, timedOut>>
world == <<request, count, socket>>

Targets == {"voice", "supervisor", "http"}
Sockets == Clients \union Supervisors
Running == exit = "none"

Init ==
  /\ phase = "serving" /\ clock = 0 /\ deadline = 0
  /\ request = [r \in Requests |-> "none"] /\ count = 0
  /\ socket = [s \in Sockets |-> "none"]
  /\ draining = FALSE /\ told = {} /\ closing = {}
  /\ exit = "none" /\ timedOut = {}

-----------------------------------------------------------------------------
(* What happens meanwhile. Nothing refuses a request before the HTTP server  *)
(* is closed.                                                                *)

Connections == {c \in Clients : socket[c] = "open"}

RequestArrives(r) ==
  /\ Running
  /\ phase # "closing"
  /\ request[r] = "none"
  /\ request' = [request EXCEPT ![r] = "running"]
  /\ count' = count + 1
  /\ UNCHANGED <<phase, clock, deadline, socket, draining, told, closing, exit, timedOut>>

\* A response emits finish and then close, or only close when the caller left;
\* `decremented` makes the second of them count for nothing.
Decrement == count' = IF count = 0 THEN 0 ELSE count - 1

ResponseFinishes(r) ==
  /\ Running
  /\ request[r] = "running"
  /\ request' = [request EXCEPT ![r] = "finished"]
  /\ Decrement
  /\ UNCHANGED <<phase, clock, deadline, socket, draining, told, closing, exit, timedOut>>

\* Mutant: nothing remembers that the response was counted out.
ResponseClosesAgain(r) ==
  /\ Running
  /\ request[r] \in {"running", "finished"}
  /\ request' = [request EXCEPT ![r] = "closed"]
  /\ Decrement
  /\ UNCHANGED <<phase, clock, deadline, socket, draining, told, closing, exit, timedOut>>

ResponseCloses(r) ==
  /\ Running
  /\ request[r] \in {"running", "finished"}
  /\ request' = [request EXCEPT ![r] = "closed"]
  /\ IF request[r] = "running" THEN Decrement ELSE UNCHANGED count
  /\ UNCHANGED <<phase, clock, deadline, socket, draining, told, closing, exit, timedOut>>

\* A voice client that connects while the server drains is closed at once; the
\* supervisors' server has no such flag. A closed server refuses both.
Connect(s) ==
  /\ Running
  /\ phase # "closing"
  /\ socket[s] = "none"
  /\ socket' = [socket EXCEPT ![s] = IF s \in Clients /\ draining THEN "closing" ELSE "open"]
  /\ UNCHANGED <<phase, clock, deadline, request, count, draining, told, closing, exit, timedOut>>

\* A client leaves, or answers the close frame of the server.
Disconnect(s) ==
  /\ Running
  /\ socket[s] \in {"open", "closing"}
  /\ socket' = [socket EXCEPT ![s] = "gone"]
  /\ UNCHANGED <<phase, clock, deadline, request, count, draining, told, closing, exit, timedOut>>

-----------------------------------------------------------------------------
(* shutdown(), cut at the awaits that really wait.                           *)

\* Every target is closed at once; the sockets are sent a close frame.
CloseTargets ==
  /\ phase' = "closing"
  /\ closing' = Targets
  /\ socket' = [s \in Sockets |-> IF socket[s] = "open" THEN "closing" ELSE socket[s]]
  /\ UNCHANGED deadline

\* drain() of the voice server, which returns at once when nobody is connected.
DrainSockets ==
  /\ draining' = TRUE
  /\ told' = told \union Connections
  /\ IF Connections = {}
     THEN CloseTargets
     ELSE /\ phase' = "sockets"
          /\ deadline' = clock + DrainFor
          /\ UNCHANGED <<socket, closing>>

\* SIGTERM or SIGINT. A signal that follows it finds isShuttingDown set.
Signal ==
  /\ Running
  /\ phase = "serving"
  /\ IF count = 0
     THEN DrainSockets
     ELSE /\ phase' = "requests"
          /\ deadline' = DrainFor
          /\ UNCHANGED <<socket, draining, told, closing>>
  /\ UNCHANGED <<clock, request, count, exit, timedOut>>

\* The poll of waitForDrain.
PollRequests ==
  /\ Running
  /\ phase = "requests"
  /\ count = 0 \/ clock >= deadline
  /\ timedOut' = IF count = 0 THEN timedOut ELSE timedOut \union {"requests"}
  /\ DrainSockets
  /\ UNCHANGED <<clock, request, count, exit>>

\* The poll of VoiceWebSocketServer.drain.
PollSockets ==
  /\ Running
  /\ phase = "sockets"
  /\ Connections = {} \/ clock >= deadline
  /\ timedOut' = IF Connections = {} THEN timedOut ELSE timedOut \union {"sockets"}
  /\ CloseTargets
  /\ UNCHANGED <<clock, request, count, draining, told, exit>>

Responding == {r \in Requests : request[r] = "running"}

\* When close() of a target calls back: the sockets of a WebSocket server are gone;
\* the HTTP server has no connection left, sockets that were upgraded included.
Released(t) ==
  /\ t # "supervisor" => \A c \in Clients : socket[c] \in {"none", "gone"}
  /\ t # "voice" => \A w \in Supervisors : socket[w] \in {"none", "gone"}
  /\ t = "http" => Responding = {}

\* The last callback cancels the timer and ends the process.
TargetCloses(t) ==
  /\ Running
  /\ t \in closing
  /\ Released(t)
  /\ closing' = closing \ {t}
  /\ exit' = IF closing = {t} THEN "clean" ELSE exit
  /\ UNCHANGED <<phase, clock, deadline, world, draining, told, timedOut>>

\* Mutant: the timer is cleared when the drain is over instead of at the end.
ForceExitOfDrain ==
  /\ Running
  /\ phase \in {"requests", "sockets"}
  /\ clock >= ForceAfter
  /\ exit' = "forced"
  /\ UNCHANGED <<phase, clock, deadline, world, draining, told, closing, timedOut>>

\* The force-exit timer, armed by the first signal.
ForceExit ==
  /\ Running
  /\ phase # "serving"
  /\ clock >= ForceAfter
  /\ exit' = "forced"
  /\ UNCHANGED <<phase, clock, deadline, world, draining, told, closing, timedOut>>

\* Time does not pass a timer that is due.
Tick ==
  /\ Running
  /\ phase # "serving"
  /\ clock < ForceAfter
  /\ clock' = clock + 1
  /\ UNCHANGED <<phase, deadline, world, draining, told, closing, exit, timedOut>>

Next ==
  \/ \E r \in Requests : RequestArrives(r) \/ ResponseFinishes(r) \/ ResponseCloses(r)
  \/ \E s \in Sockets : Connect(s) \/ Disconnect(s)
  \/ Signal \/ PollRequests \/ PollSockets \/ ForceExit \/ Tick
  \/ \E t \in Targets : TargetCloses(t)

Spec == Init /\ [][Next]_vars

\* Clients may stay for ever; clocks run and timers that are due fire.
Fairness == WF_vars(Tick) /\ WF_vars(ForceExit)

-----------------------------------------------------------------------------
\* A clean exit cuts nobody off: no response is under way and every socket is gone.
CleanExitCutsNobody ==
  exit = "clean" =>
    /\ Responding = {}
    /\ \A s \in Sockets : socket[s] \in {"none", "gone"}

\* The tracker counts the responses that are neither finished nor closed, so a drain
\* of the requests that did not time out ended when nothing was in flight.
CountIsExact == count = Cardinality(Responding)

\* Both drains together use up the time of the force-exit timer: after two that gave
\* up, the process has none left to close its sockets in.
NoTimeAfterTwoTimeouts ==
  timedOut = {"requests", "sockets"} => clock >= ForceAfter

\* Whoever is still connected while the server drains has been told so; who came
\* too late to be told is not connected.
ConnectedAreTold == draining => Connections \subseteq told

Orderly == /\ CleanExitCutsNobody /\ CountIsExact
           /\ ConnectedAreTold /\ NoTimeAfterTwoTimeouts

\* After a signal the process ends, whoever stays connected.
Ends == phase # "serving" ~> exit # "none"
=============================================================================

------------------------- MODULE SupervisorConsole -------------------------
(* The supervisors (services/SupervisorRegistry.ts) and the messages they    *)
(* send (api/supervisor.ts). The session of a join is whatever the message   *)
(* says: it need not exist or last, and a message without one joins          *)
(* NoSession, which the code takes for "watches nothing" wherever it asks.   *)
(* The registry is told nothing of the voice sessions. `joinedNothing` is    *)
(* history.                                                                  *)
EXTENDS FiniteSets

CONSTANTS Supervisors, Sessions,
          NoSession     \* an absent or empty sessionId

VARIABLES socket,       \* the connection of a supervisor
          watching,     \* SupervisorInfo.watchingSessionId
          watchers,     \* sessionWatchers; a session without an entry has none
          joinedNothing

vars == <<socket, watching, watchers, joinedNothing>>

Ids == Sessions \union {NoSession}

Init ==
  /\ socket = [w \in Supervisors |-> "none"]
  /\ watching = [w \in Supervisors |-> NoSession]
  /\ watchers = [i \in Ids |-> {}]
  /\ joinedNothing = {}

\* The model uses a supervisor that left again for the next one.
Connect(w) ==
  /\ socket[w] = "none"
  /\ socket' = [socket EXCEPT ![w] = "open"]
  /\ watching' = [watching EXCEPT ![w] = NoSession]
  /\ UNCHANGED <<watchers, joinedNothing>>

\* removeFromWatcherSet for the session a supervisor is known to watch.
Unwatched(w) ==
  IF watching[w] = NoSession THEN watchers
  ELSE [watchers EXCEPT ![watching[w]] = @ \ {w}]

\* Mutant: the former session keeps its watcher.
JoinBeside(w, i) ==
  /\ socket[w] = "open"
  /\ watchers' = [watchers EXCEPT ![i] = @ \union {w}]
  /\ watching' = [watching EXCEPT ![w] = i]
  /\ joinedNothing' = IF i = NoSession THEN joinedNothing \union {w} ELSE joinedNothing
  /\ UNCHANGED socket

\* supervisor.join: watch() leaves the former session for the new one.
Join(w, i) ==
  /\ socket[w] = "open"
  /\ watchers' = [Unwatched(w) EXCEPT ![i] = @ \union {w}]
  /\ watching' = [watching EXCEPT ![w] = i]
  /\ joinedNothing' = IF i = NoSession THEN joinedNothing \union {w} ELSE joinedNothing
  /\ UNCHANGED socket

\* supervisor.leave
Leave(w) ==
  /\ socket[w] = "open"
  /\ watchers' = Unwatched(w)
  /\ watching' = [watching EXCEPT ![w] = NoSession]
  /\ UNCHANGED <<socket, joinedNothing>>

\* The closing handshake has begun on either side; the registry does not know yet.
BeginClose(w) ==
  /\ socket[w] = "open"
  /\ socket' = [socket EXCEPT ![w] = "closing"]
  /\ UNCHANGED <<watching, watchers, joinedNothing>>

\* removeSupervisor, when the socket is closed.
Close(w) ==
  /\ socket[w] \in {"open", "closing"}
  /\ socket' = [socket EXCEPT ![w] = "none"]
  /\ watchers' = Unwatched(w)
  /\ watching' = [watching EXCEPT ![w] = NoSession]
  /\ UNCHANGED joinedNothing

Next ==
  \E w \in Supervisors :
    \/ Connect(w) \/ Leave(w) \/ BeginClose(w) \/ Close(w)
    \/ \E i \in Ids : Join(w, i)

Spec == Init /\ [][Next]_vars

\* Who broadcast() sends an event of a session to.
Audience(s) == {w \in watchers[s] : socket[w] = "open"}

\* The two sides of the registry agree: an event of a session reaches the supervisors
\* whose last join was of that session, and nobody else; nothing is kept of those who
\* are gone, except of a supervisor that joined without naming a session.
Watched ==
  /\ \A s \in Sessions :
       /\ watchers[s] = {w \in Supervisors : watching[w] = s}
       /\ Audience(s) = {w \in Supervisors : socket[w] = "open" /\ watching[w] = s}
  /\ watchers[NoSession] \subseteq joinedNothing
=============================================================================

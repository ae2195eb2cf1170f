----------------------------- MODULE VjjClient ------------------------------
(* The browser's SDK (client/src/sdk/VjjClient.ts). Unlike the client library *)
(* of VoiceClient, every attempt to connect has its own timer and its own     *)
(* flag `settled`; state, socket and reconnect timer are shared, and an       *)
(* attempt's timer outlives disconnect(). `shadowed` and `ended` are history. *)
EXTENDS Naturals, FiniteSets

CONSTANT MaxSockets     \* bound: attempts to connect

VARIABLES reconnect,    \* the option
          listening,    \* the application has a listener for "error"
          state,
          ws,           \* this.ws: an attempt, or 0
          socket,       \* the socket of each attempt
          asked,        \* attempts whose session.start was sent
          attached,     \* sockets whose handlers are still set
          settled,      \* attempts that are decided
          timers,       \* connect timeouts that run
          promise,      \* what connect() returned
          reconnectTimer,
          shadowed,     \* an earlier attempt changed the state while a later one had the socket
          ended         \* disconnect() was called and connect() not since

vars == <<reconnect, listening, state, ws, socket, asked, attached, settled, timers, promise,
          reconnectTimer, shadowed, ended>>

Attempts == 1..MaxSockets
Busy == state \in {"connecting", "ready"}
Used == {n \in Attempts : socket[n] # "none"}

Init ==
  /\ reconnect \in BOOLEAN /\ listening \in BOOLEAN
  /\ state = "disconnected" /\ ws = 0
  /\ socket = [n \in Attempts |-> "none"]
  /\ promise = [n \in Attempts |-> "none"]
  /\ asked = {} /\ attached = {} /\ settled = {} /\ timers = {}
  /\ reconnectTimer = FALSE /\ shadowed = FALSE /\ ended = FALSE

\* The rest of connect(), for a client that is not busy.
Begin ==
  LET n == Cardinality(Used) + 1
  IN  /\ n \in Attempts
      /\ state' = "connecting"
      /\ ws' = n
      /\ socket' = [socket EXCEPT ![n] = "connecting"]
      /\ attached' = attached \union {n}
      /\ timers' = timers \union {n}
      /\ promise' = [promise EXCEPT ![n] = "pending"]
      /\ UNCHANGED <<reconnect, listening, asked, settled, shadowed>>

Connect == ~Busy /\ Begin /\ ended' = FALSE /\ UNCHANGED reconnectTimer

\* The timer's connect(), whose refusal is ignored.
Reconnect ==
  /\ reconnectTimer
  /\ reconnectTimer' = FALSE
  /\ IF Busy THEN UNCHANGED <<reconnect, listening, state, ws, socket, asked, attached,
                              settled, timers, promise, shadowed>>
             ELSE Begin
  /\ UNCHANGED ended

\* Of this.ws, whichever attempt it is of.
CloseSocket ==
  /\ ws' = 0
  /\ socket' = [n \in Attempts |-> IF n = ws THEN "gone" ELSE socket[n]]
  /\ attached' = attached \ {ws}

Disconnect ==
  /\ reconnectTimer' = FALSE
  /\ CloseSocket
  /\ state' = "disconnected"
  /\ ended' = TRUE
  /\ UNCHANGED <<reconnect, listening, asked, settled, timers, promise, shadowed>>

\* An attempt acts on the shared state while another has the socket.
Shadows(n) == shadowed' = (shadowed \/ (n # ws /\ ws # 0))

-----------------------------------------------------------------------------
\* session.start goes to this.ws, and nowhere unless that is open.
Opens(n) ==
  /\ socket[n] = "connecting"
  /\ socket' = [socket EXCEPT ![n] = "open"]
  /\ asked' = IF n \in attached /\ ws # 0 /\ socket'[ws] = "open" THEN asked \union {ws} ELSE asked
  /\ UNCHANGED <<reconnect, listening, state, ws, attached, settled, timers, promise,
                 reconnectTimer, shadowed, ended>>

\* An attempt that is not settled yet is; the timer goes with it.
Settle(n, next, outcome) ==
  /\ settled' = settled \union {n}
  /\ timers' = timers \ {n}
  /\ state' = next
  /\ promise' = [promise EXCEPT ![n] = outcome]

SessionReady(n) ==
  /\ n \in (attached \cap asked) \ settled
  /\ socket[n] = "open"
  /\ Settle(n, "ready", "resolved")
  /\ Shadows(n)
  /\ UNCHANGED <<reconnect, listening, ws, socket, asked, attached, reconnectTimer, ended>>

\* "error" is emitted before the promise is rejected. The emitter throws when nobody
\* listens to that event, and then the promise is not rejected, although the comment of
\* connect() says so (VjjClient.ts:137).
Failure == IF listening THEN "rejected" ELSE "pending"

\* session.error leaves the socket as it is.
SessionError(n) ==
  /\ n \in (attached \cap asked) \ settled
  /\ socket[n] = "open"
  /\ Settle(n, "error", Failure)
  /\ Shadows(n)
  /\ UNCHANGED <<reconnect, listening, ws, socket, asked, attached, reconnectTimer, ended>>

\* The socket fails, before it opens or before the session is ready.
HandleError(n) ==
  /\ socket[n] = "connecting" \/ (socket[n] = "open" /\ n \notin settled)
  /\ socket' = [socket EXCEPT ![n] = "failed"]
  /\ IF n \in attached \ settled
     THEN Settle(n, "error", Failure) /\ Shadows(n)
     ELSE UNCHANGED <<settled, timers, state, promise, shadowed>>
  /\ UNCHANGED <<reconnect, listening, ws, asked, attached, reconnectTimer, ended>>

\* The close event, which settles the attempt and forgets to reject what connect() returned.
HandleClose(n) ==
  /\ socket[n] \in {"open", "failed"}
  /\ n \in attached
  /\ socket' = [socket EXCEPT ![n] = "gone"]
  /\ settled' = settled \union {n}
  /\ timers' = timers \ (IF n \in settled THEN {} ELSE {n})
  /\ state' = "disconnected"
  /\ reconnectTimer' = (reconnectTimer \/ (state = "ready" /\ reconnect))
  /\ Shadows(n)
  /\ UNCHANGED <<reconnect, listening, ws, asked, attached, promise, ended>>

\* Five seconds later, unless the attempt is settled: what is closed is this.ws.
ConnectTimeout(n) ==
  /\ n \in timers
  /\ timers' = timers \ {n}
  /\ CloseSocket
  /\ state' = "error"
  /\ promise' = [promise EXCEPT ![n] = "rejected"]
  /\ Shadows(n)
  /\ UNCHANGED <<reconnect, listening, asked, settled, reconnectTimer, ended>>

Next ==
  \/ Connect \/ Reconnect \/ Disconnect
  \/ \E n \in Attempts :
       \/ Opens(n) \/ SessionReady(n) \/ SessionError(n)
       \/ HandleError(n) \/ HandleClose(n) \/ ConnectTimeout(n)

Spec == Init /\ [][Next]_vars

-----------------------------------------------------------------------------
\* A client that was told to disconnect stays so, whatever its timer and socket report,
\* unless an earlier attempt had shadowed the one it held: the socket of a third is
\* then the only one that disconnect() closes.
DisconnectIsFinal == ended /\ ~shadowed => ~reconnectTimer /\ ~Busy

\* A client is ready, or connecting, exactly with the socket it holds, unless what is
\* left of an earlier attempt, its timer or its socket, reported in between.
StateIsOfSocket ==
  ~shadowed /\ Busy =>
    /\ ws \in attached
    /\ state = "ready" => socket[ws] = "open" /\ promise[ws] = "resolved"
    /\ state = "connecting" => ws \in timers \ settled

\* A connect() that is pending will at the latest be rejected by its timer, with two
\* exceptions, in which its caller waits for ever: the connection was closed before it was
\* ready, or it failed and the application has no listener for "error".
PendingIsTimed ==
  \A n \in Attempts :
    promise[n] = "pending" =>
      n \in timers \/ (n \in settled /\ (socket[n] = "gone" \/ ~listening))

ClientSound == DisconnectIsFinal /\ StateIsOfSocket /\ PendingIsTimed
=============================================================================

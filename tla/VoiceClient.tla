---------------------------- MODULE VoiceClient ----------------------------
(* The client library (sdk/src/VoiceClient.ts): connect(), endSession(), the *)
(* events of its sockets and its two timers. The fields of the client are    *)
(* shared by all its attempts to connect, and the handlers do not ask which  *)
(* socket or timer calls them. A socket whose connection fails reports an    *)
(* error and then its close, and the code that awaits connect() may run in   *)
(* between. `overlap` and `ended` are history.                               *)
EXTENDS Naturals, FiniteSets

CONSTANT MaxSockets     \* bound: attempts to connect

VARIABLES autoReconnect,
          state,
          ws,           \* this.ws: an attempt, or 0
          socket,       \* the socket of each attempt
          attached,     \* sockets whose handlers are still set
          timers,       \* connect timers that are armed, by the attempt that armed them
          connectTimer, \* the one that can be cleared, or 0
          promise,      \* what connect() returned
          resolver,     \* the attempt that connectResolve and connectReject settle, or 0
          reconnectTimer,
          overlap,      \* attempts began before everything of an earlier one was over
          ended         \* the application has ended its session and not connected since

vars == <<autoReconnect, state, ws, socket, attached, timers, connectTimer,
          promise, resolver, reconnectTimer, overlap, ended>>

Attempts == 1..MaxSockets
Busy == state \in {"connecting", "ready"}
Used == {n \in Attempts : socket[n] # "none"}
Alive == {n \in attached : socket[n] # "gone"}

Init ==
  /\ autoReconnect \in BOOLEAN
  /\ state = "disconnected" /\ ws = 0
  /\ socket = [n \in Attempts |-> "none"] /\ attached = {}
  /\ timers = {} /\ connectTimer = 0
  /\ promise = [n \in Attempts |-> "none"] /\ resolver = 0
  /\ reconnectTimer = FALSE
  /\ overlap = FALSE /\ ended = FALSE

-----------------------------------------------------------------------------
\* The rest of connect(), for a client that is not busy.
Begin ==
  LET n == Cardinality(Used) + 1
  IN  /\ n \in Attempts
      /\ state' = "connecting"
      /\ ws' = n
      /\ socket' = [socket EXCEPT ![n] = "connecting"]
      /\ attached' = attached \union {n}
      /\ timers' = timers \union {n} /\ connectTimer' = n
      /\ promise' = [promise EXCEPT ![n] = "pending"] /\ resolver' = n
      /\ overlap' = (overlap \/ Alive # {} \/ timers # {})
      /\ UNCHANGED autoReconnect

Connect ==
  /\ ~Busy
  /\ ended' = FALSE
  /\ Begin
  /\ UNCHANGED reconnectTimer

\* The reconnect timer calls connect(), whose refusal it ignores.
Reconnect ==
  /\ reconnectTimer
  /\ reconnectTimer' = FALSE
  /\ IF Busy
     THEN UNCHANGED <<autoReconnect, state, ws, socket, attached, timers, connectTimer,
                      promise, resolver, overlap>>
     ELSE Begin
  /\ UNCHANGED ended

\* closeSocket() detaches the handlers first, so nothing more is heard of the socket.
CloseSocket ==
  /\ ws' = 0
  /\ socket' = [n \in Attempts |-> IF n = ws THEN "gone" ELSE socket[n]]
  /\ attached' = attached \ {ws}

\* Mutant: a reconnect that was scheduled is not called off.
EndSessionOnly ==
  /\ CloseSocket
  /\ state' = "disconnected"
  /\ ended' = TRUE
  /\ UNCHANGED <<autoReconnect, timers, connectTimer, promise, resolver, reconnectTimer, overlap>>

EndSession ==
  /\ reconnectTimer' = FALSE
  /\ CloseSocket
  /\ state' = "disconnected"
  /\ ended' = TRUE
  /\ UNCHANGED <<autoReconnect, timers, connectTimer, promise, resolver, overlap>>

-----------------------------------------------------------------------------
(* The handlers.                                                             *)

ClearConnectTimer ==
  /\ timers' = timers \ {connectTimer}
  /\ connectTimer' = 0

Settle(outcome) ==
  /\ promise' = [n \in Attempts |-> IF n = resolver THEN outcome ELSE promise[n]]
  /\ resolver' = 0

\* While connecting, the connection is made or given up.
Conclude(next, outcome) ==
  /\ ClearConnectTimer
  /\ Settle(outcome)
  /\ state' = next

Unsettled == UNCHANGED <<timers, connectTimer, promise, resolver>>

Opens(n) ==
  /\ socket[n] = "connecting"
  /\ socket' = [socket EXCEPT ![n] = "open"]
  /\ UNCHANGED <<autoReconnect, state, ws, attached, timers, connectTimer,
                 promise, resolver, reconnectTimer, overlap, ended>>

\* session.ready and session.error mean something while connecting only.
Message(n) ==
  /\ socket[n] = "open" /\ n \in attached
  /\ state = "connecting"
  /\ Conclude("ready", "resolved") \/ Conclude("error", "rejected")
  /\ UNCHANGED <<autoReconnect, ws, socket, attached, reconnectTimer, overlap, ended>>

HandleError(n) ==
  /\ socket[n] = "connecting"
  /\ socket' = [socket EXCEPT ![n] = "failed"]
  /\ IF n \in attached /\ state = "connecting"
     THEN Conclude("error", "rejected")
     ELSE UNCHANGED state /\ Unsettled
  /\ UNCHANGED <<autoReconnect, ws, attached, reconnectTimer, overlap, ended>>

\* The close event, of whichever socket.
HandleClose(n) ==
  /\ socket[n] \in {"open", "failed"}
  /\ socket' = [socket EXCEPT ![n] = "gone"]
  /\ n \in attached
  /\ IF state = "connecting"
     THEN Conclude("disconnected", "rejected")
     ELSE state' = "disconnected" /\ Unsettled
  /\ reconnectTimer' = (reconnectTimer \/ (state = "ready" /\ autoReconnect))
  /\ UNCHANGED <<autoReconnect, ws, attached, overlap, ended>>

HandleConnectTimeout(n) ==
  /\ n \in timers
  /\ timers' = timers \ {n}
  /\ CloseSocket
  /\ Settle("rejected")
  /\ state' = "error"
  /\ UNCHANGED <<autoReconnect, connectTimer, reconnectTimer, overlap, ended>>

Next ==
  \/ Connect \/ Reconnect \/ EndSession
  \/ \E n \in Attempts :
       Opens(n) \/ Message(n) \/ HandleError(n) \/ HandleClose(n) \/ HandleConnectTimeout(n)

Spec == Init /\ [][Next]_vars

-----------------------------------------------------------------------------
\* A client that was told to end stays ended: nothing reconnects it.
EndIsFinal == ended => ~reconnectTimer /\ ~Busy

\* The client's fields tell the truth, if no attempt began before everything of the
\* one before was over: a ready client has one socket, which is open or whose close it
\* will hear of; no other socket is left behind; and a promise that is pending will be
\* settled by its own timer at the latest. An application that connects again as soon
\* as connect() has failed, or has been ended, gives that up.
FieldsTellTruth ==
  ~overlap =>
    /\ Alive \subseteq {ws}
    /\ Busy => ws \in Alive
    /\ state = "ready" => socket[ws] = "open"
    /\ \A n \in Attempts : promise[n] = "pending" => resolver = n /\ n \in timers

Sound == EndIsFinal /\ FieldsTellTruth
=============================================================================

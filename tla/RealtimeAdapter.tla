---------------------------- MODULE RealtimeAdapter ----------------------------
(***************************************************************************)
(* The provider connection of one client connection: how                   *)
(* providers/OpenAIRealtimeAdapter.ts opens, loses, reopens and closes its *)
(* WebSocket, and the handlers of api/websocket.ts that ask for it         *)
(* (session.start, session.set_mode, session.end, close).                  *)
(*                                                                         *)
(* Every connect makes a socket and overwrites this.ws with it; the        *)
(* callbacks of all sockets write the same fields (connected,              *)
(* sessionCreated, reconnectAttempts), whichever socket is in this.ws.     *)
(*                                                                         *)
(* The client sends session.start whenever the user begins to talk and     *)
(* provider.ready has not arrived (client/src/state/SessionManager.ts,     *)
(* startTalking), so possibly more than once.  SessionLifecycle.tla        *)
(* composes this module with what else lives for the connection.           *)
(*                                                                         *)
(* The second part of the module proves the safety properties.             *)
(***************************************************************************)
EXTENDS Naturals, FiniteSets, TLAPS

CONSTANTS
  Sockets,         \* bound: socket objects; a closed one is used again
  Modes,           \* the voice modes
  MaxReconnects,   \* maxReconnectAttempts (5 in the code)
  MaxStarts        \* bound: session.start messages

ASSUME AdapterAssumption ==
  /\ MaxReconnects \in Nat /\ MaxStarts \in Nat
  /\ Modes # {}

VARIABLES
  sockets,         \* the state of each WebSocket to the provider
  ws,              \* this.ws, or NoSocket
  connected,       \* this.connected
  sessionCreated,  \* this.sessionCreated
  named,           \* this.sessionId is not null
  attempts,        \* this.reconnectAttempts
  timers,          \* pending reconnect timers
  voiceMode,       \* this.voiceMode, always that of the client connection too
  queued           \* the last session.update in messageQueue, or "none"

VARIABLES
  client,          \* the client's WebSocket
  awaiting,        \* sockets whose opening a session.start handler awaits
  arbitrator,      \* LISTENING stands for every state of a started session
  ready            \* provider.ready has been sent

\* The provider's side and history.
VARIABLES
  config,          \* the mode of the last session.update sent on a socket
  greeted,         \* sockets on which session.created has arrived
  starts,          \* session.start messages handled
  failedStart,     \* a session.start was told that its connection failed
  unanswered,      \* sockets that failed while another one was connected
  missed           \* the mode changed between open and session.created

adapterVars == <<sockets, ws, connected, sessionCreated, named, attempts, timers>>
modeVars    == <<voiceMode, queued, config, missed>>
serverVars  == <<client, awaiting, arbitrator, ready>>
ghostVars   == <<greeted, starts, failedStart, unanswered>>
vars        == <<adapterVars, modeVars, serverVars, ghostVars>>

NoSocket == "null"
ASSUME NoSocketAssumption == NoSocket \notin Sockets

Live == {s \in Sockets : sockets[s] \in {"connecting", "open"}}

IsOpen(s) == s # NoSocket /\ sockets[s] = "open"

IsConnected == connected /\ IsOpen(ws)

Init ==
  /\ sockets = [s \in Sockets |-> "closed"]
  /\ ws = NoSocket /\ connected = FALSE /\ sessionCreated = FALSE /\ named = FALSE
  /\ attempts = 0 /\ timers = 0
  /\ voiceMode \in Modes /\ queued = "none"
  /\ client = "open" /\ awaiting = {} /\ arbitrator = "IDLE" /\ ready = FALSE
  /\ config = [s \in Sockets |-> "none"] /\ greeted = {} /\ starts = 0
  /\ failedStart = FALSE /\ unanswered = {} /\ missed = FALSE

-----------------------------------------------------------------------------
\* connect: a new socket, whatever this.ws holds.
NewSocket(s) ==
  /\ sockets[s] = "closed" /\ s \notin awaiting
  /\ sockets' = [sockets EXCEPT ![s] = "connecting"]
  /\ ws' = s /\ named' = TRUE
  /\ config' = [config EXCEPT ![s] = "none"]
  /\ greeted' = greeted \ {s}

\* setVoiceMode tells the provider only once session.created has arrived.
SetVoiceMode(m) ==
  /\ voiceMode' = m
  /\ missed' = (missed \/ (m # voiceMode /\ IsConnected /\ ~sessionCreated))

\* Mutant of Update: the mode is only stored.
UpdateForgotten(m) == config

Update(m) == IF m # voiceMode /\ IsConnected /\ sessionCreated
               THEN [config EXCEPT ![ws] = m] ELSE config

\* session.start up to its await, while the provider is not connected.
SessionStart(m, s) ==
  /\ client # "closed" /\ starts < MaxStarts
  /\ starts' = starts + 1
  /\ ~IsConnected
  /\ SetVoiceMode(m)
  /\ NewSocket(s)
  /\ awaiting' = awaiting \cup {s}
  /\ UNCHANGED <<connected, sessionCreated, attempts, timers, queued, client,
                 arbitrator, ready, failedStart, unanswered>>

\* session.start on a connected provider: the session is reused.
SessionReused(m) ==
  /\ client # "closed" /\ starts < MaxStarts
  /\ starts' = starts + 1
  /\ IsConnected
  /\ SetVoiceMode(m)
  /\ config' = Update(m)
  /\ ready' = TRUE
  /\ UNCHANGED <<adapterVars, queued, client, awaiting, arbitrator, greeted, failedStart,
                 unanswered>>

\* session.set_mode, which the page sends once its session is ready.
SetMode(m) ==
  /\ client = "open" /\ ready
  /\ SetVoiceMode(m)
  /\ config' = Update(m)
  /\ UNCHANGED <<adapterVars, queued, serverVars, ghostVars>>

-----------------------------------------------------------------------------
\* session.update goes to the socket in this.ws, or to the queue while that one
\* is not open; opening s also flushes the queue.
ConfigureOnOpen(s) ==
  IF ws = s \/ IsOpen(ws)
    THEN /\ config' = [config EXCEPT ![ws] = IF queued = "none" THEN voiceMode ELSE queued]
         /\ queued' = "none"
    ELSE queued' = voiceMode /\ UNCHANGED config

\* Mutant of ResumeStart: the arbitrator is started for the first session.start only.
ResumeStartOnce(s) ==
  IF s \in awaiting
    THEN /\ awaiting' = awaiting \ {s} /\ ready' \in {TRUE, ready}
         /\ IF starts = 1 THEN arbitrator' = "LISTENING" ELSE UNCHANGED arbitrator
    ELSE UNCHANGED <<awaiting, arbitrator, ready>>

\* The rest of the session.start that awaits s.  It ends in an error instead of
\* provider.ready when the session record is gone (see SessionLifecycle.tla).
ResumeStart(s) ==
  IF s \in awaiting
    THEN /\ awaiting' = awaiting \ {s} /\ arbitrator' = "LISTENING"
         /\ ready' \in {TRUE, ready}
    ELSE UNCHANGED <<awaiting, arbitrator, ready>>

\* The open callback of s: configure the session, flush the queue, resolve.
SocketOpens(s) ==
  /\ sockets[s] = "connecting"
  /\ sockets' = [sockets EXCEPT ![s] = "open"]
  /\ connected' = TRUE /\ attempts' = 0
  /\ ConfigureOnOpen(s)
  /\ ResumeStart(s)
  /\ missed' = FALSE
  /\ UNCHANGED <<ws, sessionCreated, named, timers, voiceMode, client, ghostVars>>

SessionCreated(s) ==
  /\ sockets[s] \in {"open", "closing"} /\ s \notin greeted
  /\ greeted' = greeted \cup {s}
  /\ sessionCreated' = TRUE
  /\ UNCHANGED <<sockets, ws, connected, named, attempts, timers, modeVars, serverVars,
                 starts, failedStart, unanswered>>

\* Mutant of Closed: a reconnect starts out as connected.
ClosedStaysConnected(s, clean) ==
  /\ sockets' = [sockets EXCEPT ![s] = "closed"]
  /\ sessionCreated' = FALSE
  /\ IF ~clean /\ attempts < MaxReconnects
       THEN attempts' = attempts + 1 /\ timers' = timers + 1 /\ UNCHANGED connected
       ELSE connected' = FALSE /\ UNCHANGED <<attempts, timers>>
  /\ UNCHANGED <<ws, named>>

\* The close callback, and the reconnect it schedules unless the code is 1000.
Closed(s, clean) ==
  /\ sockets' = [sockets EXCEPT ![s] = "closed"]
  /\ connected' = FALSE /\ sessionCreated' = FALSE
  /\ IF ~clean /\ attempts < MaxReconnects
       THEN attempts' = attempts + 1 /\ timers' = timers + 1
       ELSE UNCHANGED <<attempts, timers>>
  /\ UNCHANGED <<ws, named>>

\* Mutant of SocketFails: the error is only reported.
SocketFailsSilently(s) ==
  /\ sockets[s] \in {"connecting", "aborted"}
  /\ Closed(s, FALSE)
  /\ UNCHANGED <<modeVars, serverVars, ghostVars>>

\* A connection attempt fails or was aborted: error, then close.  The error
\* rejects the connect only while this.connected is false, whoever set it.
SocketFails(s) ==
  /\ sockets[s] \in {"connecting", "aborted"}
  /\ Closed(s, FALSE)
  /\ IF s \in awaiting /\ ~connected
       THEN awaiting' = awaiting \ {s} /\ failedStart' = TRUE
       ELSE UNCHANGED <<awaiting, failedStart>>
  /\ unanswered' = IF s \in awaiting /\ connected THEN unanswered \cup {s} ELSE unanswered
  /\ UNCHANGED <<modeVars, client, arbitrator, ready, greeted, starts>>

\* The provider closes the connection, or it is lost; or the close that
\* disconnect began is over, with or without a close frame from the provider.
SocketCloses(s) ==
  /\ sockets[s] \in {"open", "closing"}
  /\ Closed(s, TRUE) \/ Closed(s, FALSE)
  /\ UNCHANGED <<modeVars, serverVars, ghostVars>>

\* Mutant of Reconnect: a socket object counts as a connection.
ReconnectUnlessSocket(s) ==
  /\ timers > 0 /\ named
  /\ timers' = timers - 1
  /\ IF ws = NoSocket THEN NewSocket(s)
                      ELSE UNCHANGED <<sockets, ws, named, config, greeted>>
  /\ UNCHANGED <<connected, sessionCreated, attempts, voiceMode, queued, missed,
                 serverVars, starts, failedStart, unanswered>>

\* attemptReconnect's timer.
Reconnect(s) ==
  /\ timers > 0 /\ named
  /\ timers' = timers - 1
  /\ NewSocket(s)
  /\ UNCHANGED <<connected, sessionCreated, attempts, voiceMode, queued, missed,
                 serverVars, starts, failedStart, unanswered>>

ReconnectDropped ==
  /\ timers > 0 /\ ~named
  /\ timers' = timers - 1
  /\ UNCHANGED <<sockets, ws, connected, sessionCreated, named, attempts, modeVars,
                 serverVars, ghostVars>>

-----------------------------------------------------------------------------
CloseSocket ==
  /\ sockets' = [s \in Sockets |->
                   IF s # ws THEN sockets[s]
                   ELSE IF sockets[s] = "open" THEN "closing"
                   ELSE IF sockets[s] = "connecting" THEN "aborted"
                   ELSE sockets[s]]
  /\ ws' = NoSocket

\* Mutant of Disconnect: the session's name is kept.
DisconnectKeepsName ==
  /\ CloseSocket
  /\ connected' = FALSE /\ sessionCreated' = FALSE /\ queued' = "none"
  /\ UNCHANGED <<named, attempts, timers>>

Disconnect ==
  /\ CloseSocket
  /\ IF connected \/ ws # NoSocket
       THEN /\ connected' = FALSE /\ sessionCreated' = FALSE /\ named' = FALSE
            /\ queued' = "none"
       ELSE UNCHANGED <<connected, sessionCreated, named, queued>>
  /\ UNCHANGED <<attempts, timers>>

\* session.end, which may come again while the client's socket closes.
SessionEnd ==
  /\ client # "closed"
  /\ client' = "closing"
  /\ arbitrator' = "ENDED"
  /\ Disconnect
  /\ UNCHANGED <<voiceMode, config, missed, awaiting, ready, ghostVars>>

\* handleClose
ClientCloses ==
  /\ client # "closed"
  /\ client' = "closed"
  /\ arbitrator' = "ENDED"
  /\ Disconnect
  /\ UNCHANGED <<voiceMode, config, missed, awaiting, ready, ghostVars>>

\* The server drains and closes the clients' sockets.
Shutdown ==
  /\ client = "open"
  /\ client' = "closing"
  /\ UNCHANGED <<adapterVars, modeVars, awaiting, arbitrator, ready, ghostVars>>

-----------------------------------------------------------------------------
SocketEvent(s) ==
  SocketOpens(s) \/ SocketFails(s) \/ SocketCloses(s) \/ SessionCreated(s)

Next ==
  \/ \E s \in Sockets : SocketEvent(s) \/ Reconnect(s)
  \/ \E m \in Modes : SessionReused(m) \/ SetMode(m)
  \/ \E m \in Modes, s \in Sockets : SessionStart(m, s)
  \/ ReconnectDropped \/ SessionEnd \/ ClientCloses \/ Shutdown

Spec == Init /\ [][Next]_vars

\* A connection attempt and a close come to an end, and timers expire.
Fairness ==
  /\ \A s \in Sockets : /\ WF_vars(SocketOpens(s) \/ SocketFails(s))
                        /\ WF_vars(sockets[s] = "closing" /\ SocketCloses(s))
  /\ WF_vars(ReconnectDropped \/ \E s \in Sockets : Reconnect(s))

FairSpec == Spec /\ Fairness

-----------------------------------------------------------------------------
\* Every variable keeps its type.
TypeOK ==
  /\ sockets \in [Sockets -> {"connecting", "open", "closing", "aborted", "closed"}]
  /\ ws \in Sockets \cup {NoSocket}
  /\ connected \in BOOLEAN /\ sessionCreated \in BOOLEAN /\ named \in BOOLEAN
  /\ attempts \in 0..MaxReconnects /\ timers \in Nat
  /\ voiceMode \in Modes /\ queued \in Modes \cup {"none"}
  /\ client \in {"open", "closing", "closed"}
  /\ awaiting \subseteq Sockets /\ arbitrator \in {"IDLE", "LISTENING", "ENDED"}
  /\ ready \in BOOLEAN
  /\ config \in [Sockets -> Modes \cup {"none"}] /\ greeted \subseteq Sockets
  /\ starts \in 0..MaxStarts /\ unanswered \subseteq Sockets
  /\ failedStart \in BOOLEAN /\ missed \in BOOLEAN

\* As long as the client has sent session.start once, the adapter has at most
\* one connection, this.ws holds it, and this.connected tells whether it is
\* open, through every loss, reconnect and close.
SoleConnection ==
  starts <= 1 => /\ Live \subseteq {ws}
                 /\ connected <=> IsOpen(ws)

\* With one session.start, nothing that was pending when the client left, a
\* connection attempt or a reconnect timer, leads to a provider connection.
NothingAfterClose == client = "closed" /\ starts <= 1 => Live = {}

\* A session that was told provider.ready listens: the arbitrator has been
\* started, unless a session.start failed before a reconnect succeeded.
DeafOnlyAfterFailedStart == ready /\ arbitrator = "IDLE" => failedStart

\* The provider works in the mode the client was told, through reconnects and
\* mode changes, unless the mode was changed before session.created arrived.
ModeReachesProvider ==
  starts <= 1 /\ IsConnected /\ ~missed => config[ws] = voiceMode

\* Every session.start that awaits a connection of its own is answered, with
\* provider.ready or with an error, however many there are, except one whose
\* connection fails while another is connected: its connect never returns.  That
\* takes a second session.start.
StartAnswered ==
  /\ \A s \in Sockets : s \in awaiting ~> s \notin awaiting \/ s \in unanswered
  /\ [](unanswered # {} => starts > 1)

\* A lost connection is opened again, unless all attempts failed or the session
\* was ended.
Recovers == timers > 0 ~> connected \/ ~named \/ attempts = MaxReconnects

\* The comment in session.start: connecting only when not already connected
\* prevents duplicate provider sessions; docs/API.md: re-sending it is a no-op.
\* (Refuted: a second session.start while the first still connects.)
NoDuplicateSession == Cardinality({s \in Sockets : IsOpen(s)}) <= 1

\* docs/API.md: session.mode_changed confirms a successful session.set_mode.
\* (Refuted: setVoiceMode says nothing until session.created has arrived, and
\* nobody repeats it then.)
ModeChangeSucceeds ==
  starts <= 1 /\ IsConnected /\ sessionCreated => config[ws] = voiceMode

-----------------------------------------------------------------------------
(***************************************************************************)
(* Proofs about the provider connection, for any sockets and modes and any *)
(* number of reconnects and session.start messages.                        *)
(***************************************************************************)
\* The values of the variables, apart from the flags.
DataTypes ==
  /\ sockets \in [Sockets -> {"connecting", "open", "closing", "aborted", "closed"}]
  /\ ws \in Sockets \cup {NoSocket}
  /\ attempts \in 0..MaxReconnects /\ timers \in Nat
  /\ voiceMode \in Modes /\ queued \in Modes \cup {"none"}
  /\ client \in {"open", "closing", "closed"}
  /\ awaiting \subseteq Sockets /\ arbitrator \in {"IDLE", "LISTENING", "ENDED"}
  /\ config \in [Sockets -> Modes \cup {"none"}] /\ greeted \subseteq Sockets
  /\ starts \in 0..MaxStarts /\ unanswered \subseteq Sockets

Flags ==
  /\ connected \in BOOLEAN /\ sessionCreated \in BOOLEAN /\ named \in BOOLEAN
  /\ ready \in BOOLEAN /\ failedStart \in BOOLEAN /\ missed \in BOOLEAN

\* The adapter has a name for its session exactly while it has a socket object, and a
\* client that is gone left it none.
NamedWithSocket ==
  /\ named <=> ws # NoSocket
  /\ client = "closed" => ws = NoSocket

\* Before session.start nothing has happened.
NothingStarted ==
  starts = 0 =>
    /\ \A s \in Sockets : sockets[s] = "closed"
    /\ timers = 0 /\ ws = NoSocket /\ ~connected

\* After one session.start, a socket in this.ws is the only one that is not closed; a
\* reconnect waits only when that one is closed as well; nothing is queued, since the
\* socket that opens is the one in this.ws.
OneSocket ==
  starts <= 1 =>
    /\ connected <=> IsOpen(ws)
    /\ queued = "none"
    /\ IF ws = NoSocket
       THEN \A s \in Sockets : sockets[s] \notin {"connecting", "open"}
       ELSE /\ \A s \in Sockets : s # ws => sockets[s] = "closed"
            /\ sockets[ws] \in {"connecting", "open", "closed"}
            /\ timers > 0 => timers = 1 /\ sockets[ws] = "closed"

\* While the arbitrator is idle and no start has failed, whatever connects is awaited.
IdleAwaits ==
  arbitrator = "IDLE" /\ ~failedStart =>
    /\ ~connected /\ timers = 0 /\ ~ready
    /\ \A s \in Sockets :
         sockets[s] = "closed" \/ (sockets[s] = "connecting" /\ s \in awaiting)

\* A start is left unanswered only when another one was sent.
HungAfterSecond == unanswered # {} => starts > 1

-----------------------------------------------------------------------------
\* Every step keeps the data in their types.
LEMMA DataStep == DataTypes /\ [Next]_vars => DataTypes'
<1> SUFFICES ASSUME DataTypes, [Next]_vars PROVE DataTypes'
  OBVIOUS
<1> USE AdapterAssumption, NoSocketAssumption DEF DataTypes
<1>1. ASSUME NEW s \in Sockets, SocketOpens(s) PROVE DataTypes'
  <2>1. config' \in [Sockets -> Modes \cup {"none"}] /\ queued' \in Modes \cup {"none"}
    BY <1>1 DEF SocketOpens, ConfigureOnOpen, IsOpen
  <2>2. awaiting' \subseteq Sockets /\ arbitrator' \in {"IDLE", "LISTENING", "ENDED"}
    BY <1>1 DEF SocketOpens, ResumeStart
  <2> QED
    <3>1. sockets' \in [Sockets -> {"connecting", "open", "closing", "aborted", "closed"}]
      BY <1>1 DEF SocketOpens
    <3>2. UNCHANGED <<ws, timers, voiceMode, client, greeted, starts, unanswered>>
      BY <1>1 DEF SocketOpens, ghostVars
    <3>3. attempts' \in 0..MaxReconnects
      BY <1>1 DEF SocketOpens
    <3> QED
      BY <2>1, <2>2, <3>1, <3>2, <3>3
<1>2. ASSUME NEW s \in Sockets, SocketFails(s) PROVE DataTypes'
  BY <1>2 DEF SocketFails, Closed, modeVars
<1>3. ASSUME NEW s \in Sockets, SocketCloses(s) PROVE DataTypes'
  BY <1>3 DEF SocketCloses, Closed, modeVars, serverVars, ghostVars
<1>4. ASSUME NEW s \in Sockets, SessionCreated(s) PROVE DataTypes'
  BY <1>4 DEF SessionCreated, modeVars, serverVars
<1>5. ASSUME NEW s \in Sockets, Reconnect(s) PROVE DataTypes'
  BY <1>5 DEF Reconnect, NewSocket, serverVars
<1>6. ASSUME NEW m \in Modes, SessionReused(m) PROVE DataTypes'
  BY <1>6 DEF SessionReused, SetVoiceMode, Update, IsConnected, IsOpen, adapterVars
<1>7. ASSUME NEW m \in Modes, SetMode(m) PROVE DataTypes'
  BY <1>7 DEF SetMode, SetVoiceMode, Update, IsConnected, IsOpen, adapterVars, serverVars,
              ghostVars
<1>8. ASSUME NEW m \in Modes, NEW s \in Sockets, SessionStart(m, s) PROVE DataTypes'
  BY <1>8 DEF SessionStart, SetVoiceMode, NewSocket, IsConnected, IsOpen
<1>9. CASE ReconnectDropped
  BY <1>9 DEF ReconnectDropped, modeVars, serverVars, ghostVars
<1>10. CASE SessionEnd
  BY <1>10 DEF SessionEnd, Disconnect, CloseSocket, ghostVars
<1>11. CASE ClientCloses
  BY <1>11 DEF ClientCloses, Disconnect, CloseSocket, ghostVars
<1>12. CASE Shutdown
  BY <1>12 DEF Shutdown, adapterVars, modeVars, ghostVars
<1>13. CASE UNCHANGED vars
  BY <1>13 DEF vars, adapterVars, modeVars, serverVars, ghostVars
<1> QED
  BY <1>1, <1>2, <1>3, <1>4, <1>5, <1>6, <1>7, <1>8, <1>9, <1>10, <1>11, <1>12, <1>13
     DEF Next, SocketEvent

\* Every step keeps the flags Boolean.
LEMMA FlagsStep == Flags /\ [Next]_vars => Flags'
<1> SUFFICES ASSUME Flags, [Next]_vars PROVE Flags'
  OBVIOUS
<1> USE NoSocketAssumption DEF Flags, IsOpen, IsConnected
<1>1. ASSUME NEW s \in Sockets, SocketOpens(s) PROVE Flags'
  BY <1>1 DEF SocketOpens, ConfigureOnOpen, ResumeStart, IsOpen, ghostVars
<1>2. ASSUME NEW s \in Sockets, SocketFails(s) PROVE Flags'
  BY <1>2 DEF SocketFails, Closed, modeVars
<1>3. ASSUME NEW s \in Sockets, SocketCloses(s) PROVE Flags'
  BY <1>3 DEF SocketCloses, Closed, modeVars, serverVars, ghostVars
<1>4. ASSUME NEW s \in Sockets, SessionCreated(s) PROVE Flags'
  BY <1>4 DEF SessionCreated, modeVars, serverVars
<1>5. ASSUME NEW s \in Sockets, Reconnect(s) PROVE Flags'
  BY <1>5 DEF Reconnect, NewSocket, serverVars
<1>6. ASSUME NEW m \in Modes, SessionReused(m) PROVE Flags'
  BY <1>6 DEF SessionReused, SetVoiceMode, Update, IsConnected, IsOpen, adapterVars
<1>7. ASSUME NEW m \in Modes, SetMode(m) PROVE Flags'
  BY <1>7 DEF SetMode, SetVoiceMode, Update, IsConnected, IsOpen, adapterVars, serverVars,
              ghostVars
<1>8. ASSUME NEW m \in Modes, NEW s \in Sockets, SessionStart(m, s) PROVE Flags'
  BY <1>8 DEF SessionStart, SetVoiceMode, NewSocket, IsConnected, IsOpen
<1>9. CASE ReconnectDropped
  BY <1>9 DEF ReconnectDropped, modeVars, serverVars, ghostVars
<1>10. CASE SessionEnd
  BY <1>10 DEF SessionEnd, Disconnect, CloseSocket, ghostVars
<1>11. CASE ClientCloses
  BY <1>11 DEF ClientCloses, Disconnect, CloseSocket, ghostVars
<1>12. CASE Shutdown
  BY <1>12 DEF Shutdown, adapterVars, modeVars, ghostVars
<1>13. CASE UNCHANGED vars
  BY <1>13 DEF vars, adapterVars, modeVars, serverVars, ghostVars
<1> QED
  BY <1>1, <1>2, <1>3, <1>4, <1>5, <1>6, <1>7, <1>8, <1>9, <1>10, <1>11, <1>12, <1>13
     DEF Next, SocketEvent

\* The name comes with the socket object, in connect, and goes with it, in disconnect.
LEMMA NamedWithSocketStep == NamedWithSocket /\ [Next]_vars => NamedWithSocket'
<1> SUFFICES ASSUME NamedWithSocket, [Next]_vars PROVE NamedWithSocket'
  OBVIOUS
<1> USE NoSocketAssumption DEF NamedWithSocket, IsOpen, IsConnected
<1>1. ASSUME NEW s \in Sockets, SocketOpens(s) PROVE NamedWithSocket'
  BY <1>1 DEF SocketOpens, ConfigureOnOpen, ResumeStart, IsOpen, ghostVars
<1>2. ASSUME NEW s \in Sockets, SocketFails(s) PROVE NamedWithSocket'
  BY <1>2 DEF SocketFails, Closed, modeVars
<1>3. ASSUME NEW s \in Sockets, SocketCloses(s) PROVE NamedWithSocket'
  BY <1>3 DEF SocketCloses, Closed, modeVars, serverVars, ghostVars
<1>4. ASSUME NEW s \in Sockets, SessionCreated(s) PROVE NamedWithSocket'
  BY <1>4 DEF SessionCreated, modeVars, serverVars
<1>5. ASSUME NEW s \in Sockets, Reconnect(s) PROVE NamedWithSocket'
  BY <1>5 DEF Reconnect, NewSocket, serverVars
<1>6. ASSUME NEW m \in Modes, SessionReused(m) PROVE NamedWithSocket'
  BY <1>6 DEF SessionReused, SetVoiceMode, Update, IsConnected, IsOpen, adapterVars
<1>7. ASSUME NEW m \in Modes, SetMode(m) PROVE NamedWithSocket'
  BY <1>7 DEF SetMode, SetVoiceMode, Update, IsConnected, IsOpen, adapterVars, serverVars,
              ghostVars
<1>8. ASSUME NEW m \in Modes, NEW s \in Sockets, SessionStart(m, s) PROVE NamedWithSocket'
  BY <1>8 DEF SessionStart, SetVoiceMode, NewSocket, IsConnected, IsOpen
<1>9. CASE ReconnectDropped
  BY <1>9 DEF ReconnectDropped, modeVars, serverVars, ghostVars
<1>10. CASE SessionEnd
  BY <1>10 DEF SessionEnd, Disconnect, CloseSocket, ghostVars
<1>11. CASE ClientCloses
  BY <1>11 DEF ClientCloses, Disconnect, CloseSocket, ghostVars
<1>12. CASE Shutdown
  BY <1>12 DEF Shutdown, adapterVars, modeVars, ghostVars
<1>13. CASE UNCHANGED vars
  BY <1>13 DEF vars, adapterVars, modeVars, serverVars, ghostVars
<1> QED
  BY <1>1, <1>2, <1>3, <1>4, <1>5, <1>6, <1>7, <1>8, <1>9, <1>10, <1>11, <1>12, <1>13
     DEF Next, SocketEvent

\* Only session.start makes the first socket, and it counts itself.
LEMMA NothingStartedStep == DataTypes /\ NothingStarted /\ [Next]_vars => NothingStarted'
<1> SUFFICES ASSUME DataTypes, NothingStarted, [Next]_vars PROVE NothingStarted'
  OBVIOUS
<1> USE NoSocketAssumption DEF DataTypes, NothingStarted, IsOpen, IsConnected
<1>1. ASSUME NEW s \in Sockets, SocketOpens(s) PROVE NothingStarted'
  BY <1>1 DEF SocketOpens, ConfigureOnOpen, ResumeStart, IsOpen, ghostVars
<1>2. ASSUME NEW s \in Sockets, SocketFails(s) PROVE NothingStarted'
  BY <1>2 DEF SocketFails, Closed, modeVars
<1>3. ASSUME NEW s \in Sockets, SocketCloses(s) PROVE NothingStarted'
  BY <1>3 DEF SocketCloses, Closed, modeVars, serverVars, ghostVars
<1>4. ASSUME NEW s \in Sockets, SessionCreated(s) PROVE NothingStarted'
  BY <1>4 DEF SessionCreated, modeVars, serverVars
<1>5. ASSUME NEW s \in Sockets, Reconnect(s) PROVE NothingStarted'
  BY <1>5 DEF Reconnect, NewSocket, serverVars
<1>6. ASSUME NEW m \in Modes, SessionReused(m) PROVE NothingStarted'
  BY <1>6 DEF SessionReused, SetVoiceMode, Update, IsConnected, IsOpen, adapterVars
<1>7. ASSUME NEW m \in Modes, SetMode(m) PROVE NothingStarted'
  BY <1>7 DEF SetMode, SetVoiceMode, Update, IsConnected, IsOpen, adapterVars, serverVars,
              ghostVars
<1>8. ASSUME NEW m \in Modes, NEW s \in Sockets, SessionStart(m, s) PROVE NothingStarted'
  BY <1>8 DEF SessionStart, SetVoiceMode, NewSocket, IsConnected, IsOpen
<1>9. CASE ReconnectDropped
  BY <1>9 DEF ReconnectDropped, modeVars, serverVars, ghostVars
<1>10. CASE SessionEnd
  BY <1>10 DEF SessionEnd, Disconnect, CloseSocket, ghostVars
<1>11. CASE ClientCloses
  BY <1>11 DEF ClientCloses, Disconnect, CloseSocket, ghostVars
<1>12. CASE Shutdown
  BY <1>12 DEF Shutdown, adapterVars, modeVars, ghostVars
<1>13. CASE UNCHANGED vars
  BY <1>13 DEF vars, adapterVars, modeVars, serverVars, ghostVars
<1> QED
  BY <1>1, <1>2, <1>3, <1>4, <1>5, <1>6, <1>7, <1>8, <1>9, <1>10, <1>11, <1>12, <1>13
     DEF Next, SocketEvent

\* With one session.start a new socket is made only when the last one is closed: by that
\* start, when nothing had happened, or by the one timer that the last close has armed.
LEMMA OneSocketStep ==
  DataTypes /\ NamedWithSocket /\ NothingStarted /\ OneSocket /\ [Next]_vars => OneSocket'
<1> SUFFICES ASSUME DataTypes, NamedWithSocket, NothingStarted, OneSocket, [Next]_vars
             PROVE OneSocket'
  OBVIOUS
<1> USE NoSocketAssumption
    DEF DataTypes, NamedWithSocket, NothingStarted, OneSocket, IsOpen, IsConnected
<1>1. ASSUME NEW s \in Sockets, SocketOpens(s) PROVE OneSocket'
  BY <1>1 DEF SocketOpens, ConfigureOnOpen, ResumeStart, IsOpen, ghostVars
<1>2. ASSUME NEW s \in Sockets, SocketFails(s) PROVE OneSocket'
  BY <1>2 DEF SocketFails, Closed, modeVars
<1>3. ASSUME NEW s \in Sockets, SocketCloses(s) PROVE OneSocket'
  BY <1>3 DEF SocketCloses, Closed, modeVars, serverVars, ghostVars
<1>4. ASSUME NEW s \in Sockets, SessionCreated(s) PROVE OneSocket'
  BY <1>4 DEF SessionCreated, modeVars, serverVars
<1>5. ASSUME NEW s \in Sockets, Reconnect(s) PROVE OneSocket'
  BY <1>5 DEF Reconnect, NewSocket, serverVars
<1>6. ASSUME NEW m \in Modes, SessionReused(m) PROVE OneSocket'
  BY <1>6 DEF SessionReused, SetVoiceMode, Update, IsConnected, IsOpen, adapterVars
<1>7. ASSUME NEW m \in Modes, SetMode(m) PROVE OneSocket'
  BY <1>7 DEF SetMode, SetVoiceMode, Update, IsConnected, IsOpen, adapterVars, serverVars,
              ghostVars
<1>8. ASSUME NEW m \in Modes, NEW s \in Sockets, SessionStart(m, s) PROVE OneSocket'
  BY <1>8 DEF SessionStart, SetVoiceMode, NewSocket, IsConnected, IsOpen
<1>9. CASE ReconnectDropped
  BY <1>9 DEF ReconnectDropped, modeVars, serverVars, ghostVars
<1>10. CASE SessionEnd
  BY <1>10 DEF SessionEnd, Disconnect, CloseSocket, ghostVars
<1>11. CASE ClientCloses
  BY <1>11 DEF ClientCloses, Disconnect, CloseSocket, ghostVars
<1>12. CASE Shutdown
  BY <1>12 DEF Shutdown, adapterVars, modeVars, ghostVars
<1>13. CASE UNCHANGED vars
  BY <1>13 DEF vars, adapterVars, modeVars, serverVars, ghostVars
<1> QED
  BY <1>1, <1>2, <1>3, <1>4, <1>5, <1>6, <1>7, <1>8, <1>9, <1>10, <1>11, <1>12, <1>13
     DEF Next, SocketEvent

\* What fails while the arbitrator is idle is the connection that a start awaits.
LEMMA IdleAwaitsStep == DataTypes /\ IdleAwaits /\ [Next]_vars => IdleAwaits'
<1> SUFFICES ASSUME DataTypes, IdleAwaits, [Next]_vars PROVE IdleAwaits'
  OBVIOUS
<1> USE NoSocketAssumption DEF DataTypes, IdleAwaits, IsOpen, IsConnected
<1>1. ASSUME NEW s \in Sockets, SocketOpens(s) PROVE IdleAwaits'
  BY <1>1 DEF SocketOpens, ConfigureOnOpen, ResumeStart, IsOpen, ghostVars
<1>2. ASSUME NEW s \in Sockets, SocketFails(s) PROVE IdleAwaits'
  BY <1>2 DEF SocketFails, Closed, modeVars
<1>3. ASSUME NEW s \in Sockets, SocketCloses(s) PROVE IdleAwaits'
  BY <1>3 DEF SocketCloses, Closed, modeVars, serverVars, ghostVars
<1>4. ASSUME NEW s \in Sockets, SessionCreated(s) PROVE IdleAwaits'
  BY <1>4 DEF SessionCreated, modeVars, serverVars
<1>5. ASSUME NEW s \in Sockets, Reconnect(s) PROVE IdleAwaits'
  BY <1>5 DEF Reconnect, NewSocket, serverVars
<1>6. ASSUME NEW m \in Modes, SessionReused(m) PROVE IdleAwaits'
  BY <1>6 DEF SessionReused, SetVoiceMode, Update, IsConnected, IsOpen, adapterVars
<1>7. ASSUME NEW m \in Modes, SetMode(m) PROVE IdleAwaits'
  BY <1>7 DEF SetMode, SetVoiceMode, Update, IsConnected, IsOpen, adapterVars, serverVars,
              ghostVars
<1>8. ASSUME NEW m \in Modes, NEW s \in Sockets, SessionStart(m, s) PROVE IdleAwaits'
  BY <1>8 DEF SessionStart, SetVoiceMode, NewSocket, IsConnected, IsOpen
<1>9. CASE ReconnectDropped
  BY <1>9 DEF ReconnectDropped, modeVars, serverVars, ghostVars
<1>10. CASE SessionEnd
  BY <1>10 DEF SessionEnd, Disconnect, CloseSocket, ghostVars
<1>11. CASE ClientCloses
  BY <1>11 DEF ClientCloses, Disconnect, CloseSocket, ghostVars
<1>12. CASE Shutdown
  BY <1>12 DEF Shutdown, adapterVars, modeVars, ghostVars
<1>13. CASE UNCHANGED vars
  BY <1>13 DEF vars, adapterVars, modeVars, serverVars, ghostVars
<1> QED
  BY <1>1, <1>2, <1>3, <1>4, <1>5, <1>6, <1>7, <1>8, <1>9, <1>10, <1>11, <1>12, <1>13
     DEF Next, SocketEvent

\* With one session.start a socket that connects is the only one, so that nothing is
\* connected when it fails.
LEMMA HungStep == DataTypes /\ OneSocket /\ HungAfterSecond /\ [Next]_vars => HungAfterSecond'
<1> SUFFICES ASSUME DataTypes, OneSocket, HungAfterSecond, [Next]_vars PROVE HungAfterSecond'
  OBVIOUS
<1> USE NoSocketAssumption DEF DataTypes, OneSocket, HungAfterSecond, IsOpen, IsConnected
<1>1. ASSUME NEW s \in Sockets, SocketOpens(s) PROVE HungAfterSecond'
  BY <1>1 DEF SocketOpens, ConfigureOnOpen, ResumeStart, IsOpen, ghostVars
<1>2. ASSUME NEW s \in Sockets, SocketFails(s) PROVE HungAfterSecond'
  BY <1>2 DEF SocketFails, Closed, modeVars
<1>3. ASSUME NEW s \in Sockets, SocketCloses(s) PROVE HungAfterSecond'
  BY <1>3 DEF SocketCloses, Closed, modeVars, serverVars, ghostVars
<1>4. ASSUME NEW s \in Sockets, SessionCreated(s) PROVE HungAfterSecond'
  BY <1>4 DEF SessionCreated, modeVars, serverVars
<1>5. ASSUME NEW s \in Sockets, Reconnect(s) PROVE HungAfterSecond'
  BY <1>5 DEF Reconnect, NewSocket, serverVars
<1>6. ASSUME NEW m \in Modes, SessionReused(m) PROVE HungAfterSecond'
  BY <1>6 DEF SessionReused, SetVoiceMode, Update, IsConnected, IsOpen, adapterVars
<1>7. ASSUME NEW m \in Modes, SetMode(m) PROVE HungAfterSecond'
  BY <1>7 DEF SetMode, SetVoiceMode, Update, IsConnected, IsOpen, adapterVars, serverVars,
              ghostVars
<1>8. ASSUME NEW m \in Modes, NEW s \in Sockets, SessionStart(m, s) PROVE HungAfterSecond'
  BY <1>8 DEF SessionStart, SetVoiceMode, NewSocket, IsConnected, IsOpen
<1>9. CASE ReconnectDropped
  BY <1>9 DEF ReconnectDropped, modeVars, serverVars, ghostVars
<1>10. CASE SessionEnd
  BY <1>10 DEF SessionEnd, Disconnect, CloseSocket, ghostVars
<1>11. CASE ClientCloses
  BY <1>11 DEF ClientCloses, Disconnect, CloseSocket, ghostVars
<1>12. CASE Shutdown
  BY <1>12 DEF Shutdown, adapterVars, modeVars, ghostVars
<1>13. CASE UNCHANGED vars
  BY <1>13 DEF vars, adapterVars, modeVars, serverVars, ghostVars
<1> QED
  BY <1>1, <1>2, <1>3, <1>4, <1>5, <1>6, <1>7, <1>8, <1>9, <1>10, <1>11, <1>12, <1>13
     DEF Next, SocketEvent

\* A mode change is sent, or missed; a socket that opens is configured with the mode of
\* its time.
LEMMA ModeReachesProviderStep ==
  DataTypes /\ OneSocket /\ ModeReachesProvider /\ [Next]_vars => ModeReachesProvider'
<1> SUFFICES ASSUME DataTypes, OneSocket, ModeReachesProvider, [Next]_vars
             PROVE ModeReachesProvider'
  OBVIOUS
<1> USE NoSocketAssumption DEF DataTypes, OneSocket, ModeReachesProvider, IsOpen, IsConnected
<1>1. ASSUME NEW s \in Sockets, SocketOpens(s) PROVE ModeReachesProvider'
  BY <1>1 DEF SocketOpens, ConfigureOnOpen, ResumeStart, IsOpen, ghostVars
<1>2. ASSUME NEW s \in Sockets, SocketFails(s) PROVE ModeReachesProvider'
  BY <1>2 DEF SocketFails, Closed, modeVars
<1>3. ASSUME NEW s \in Sockets, SocketCloses(s) PROVE ModeReachesProvider'
  BY <1>3 DEF SocketCloses, Closed, modeVars, serverVars, ghostVars
<1>4. ASSUME NEW s \in Sockets, SessionCreated(s) PROVE ModeReachesProvider'
  BY <1>4 DEF SessionCreated, modeVars, serverVars
<1>5. ASSUME NEW s \in Sockets, Reconnect(s) PROVE ModeReachesProvider'
  BY <1>5 DEF Reconnect, NewSocket, serverVars
<1>6. ASSUME NEW m \in Modes, SessionReused(m) PROVE ModeReachesProvider'
  <2>1. UNCHANGED <<sockets, ws, connected>> /\ starts \in Nat /\ starts' = starts + 1
    BY <1>6 DEF SessionReused, adapterVars
  <2>2. missed' <=> missed \/ (m # voiceMode /\ IsConnected /\ ~sessionCreated)
    BY <1>6, Zenon DEF SessionReused, SetVoiceMode
  <2>3. config' = Update(m) /\ voiceMode' = m
    BY <1>6 DEF SessionReused, SetVoiceMode
  <2> QED
    BY <2>1, <2>2, <2>3 DEF Update
<1>7. ASSUME NEW m \in Modes, SetMode(m) PROVE ModeReachesProvider'
  BY <1>7 DEF SetMode, SetVoiceMode, Update, IsConnected, IsOpen, adapterVars, serverVars,
              ghostVars
<1>8. ASSUME NEW m \in Modes, NEW s \in Sockets, SessionStart(m, s) PROVE ModeReachesProvider'
  BY <1>8 DEF SessionStart, SetVoiceMode, NewSocket, IsConnected, IsOpen
<1>9. CASE ReconnectDropped
  BY <1>9 DEF ReconnectDropped, modeVars, serverVars, ghostVars
<1>10. CASE SessionEnd
  BY <1>10 DEF SessionEnd, Disconnect, CloseSocket, ghostVars
<1>11. CASE ClientCloses
  BY <1>11 DEF ClientCloses, Disconnect, CloseSocket, ghostVars
<1>12. CASE Shutdown
  BY <1>12 DEF Shutdown, adapterVars, modeVars, ghostVars
<1>13. CASE UNCHANGED vars
  BY <1>13 DEF vars, adapterVars, modeVars, serverVars, ghostVars
<1> QED
  BY <1>1, <1>2, <1>3, <1>4, <1>5, <1>6, <1>7, <1>8, <1>9, <1>10, <1>11, <1>12, <1>13
     DEF Next, SocketEvent

-----------------------------------------------------------------------------
\* The invariant that all the properties follow from.
IInv == /\ DataTypes /\ Flags
        /\ NamedWithSocket /\ NothingStarted /\ OneSocket /\ IdleAwaits
        /\ ModeReachesProvider /\ HungAfterSecond

LEMMA IInvHolds == Spec => []IInv
<1>1. Init => IInv
  <2> SUFFICES ASSUME Init PROVE IInv
    OBVIOUS
  <2> USE AdapterAssumption, NoSocketAssumption DEF Init
  <2>1. DataTypes
    BY DEF DataTypes
  <2>2. Flags
    BY DEF Flags
  <2>3. NamedWithSocket /\ NothingStarted /\ OneSocket
    BY DEF NamedWithSocket, NothingStarted, OneSocket, IsOpen
  <2>4. IdleAwaits /\ ModeReachesProvider /\ HungAfterSecond
    BY DEF IdleAwaits, ModeReachesProvider, HungAfterSecond, IsConnected, IsOpen
  <2> QED
    BY <2>1, <2>2, <2>3, <2>4 DEF IInv
<1>2. IInv /\ [Next]_vars => IInv'
  BY DataStep, FlagsStep, NamedWithSocketStep, NothingStartedStep, OneSocketStep,
     IdleAwaitsStep, ModeReachesProviderStep, HungStep DEF IInv
<1> QED
  BY <1>1, <1>2, PTL DEF Spec

\* Every variable keeps its type, in any number of sockets and starts.
THEOREM TypeCorrect == Spec => []TypeOK
<1>1. IInv => TypeOK
  BY DEF IInv, DataTypes, Flags, TypeOK
<1> QED
  BY <1>1, IInvHolds, PTL

\* With one session.start there is one provider connection, this.ws holds it, and
\* this.connected tells whether it is open.
THEOREM SoleCorrect == Spec => []SoleConnection
<1>1. IInv => SoleConnection
  BY DEF IInv, OneSocket, SoleConnection, Live
<1> QED
  BY <1>1, IInvHolds, PTL

\* No attempt to connect and no reconnect timer leads to a provider connection that the
\* client which asked for it has left.
THEOREM CloseCorrect == Spec => []NothingAfterClose
<1>1. IInv => NothingAfterClose
  BY DEF IInv, NamedWithSocket, OneSocket, NothingAfterClose, Live
<1> QED
  BY <1>1, IInvHolds, PTL

\* A session that was told provider.ready listens, unless a start of it failed before.
THEOREM DeafCorrect == Spec => []DeafOnlyAfterFailedStart
<1>1. IInv => DeafOnlyAfterFailedStart
  BY DEF IInv, IdleAwaits, DeafOnlyAfterFailedStart
<1> QED
  BY <1>1, IInvHolds, PTL

\* With one session.start, its handler is never left waiting for a connection that has
\* failed: that takes a second start, whose connection hides the failure of the first.
THEOREM HungCorrect == Spec => [](unanswered # {} => starts > 1)
<1>1. IInv => (unanswered # {} => starts > 1)
  BY DEF IInv, HungAfterSecond
<1> QED
  BY <1>1, IInvHolds, PTL

\* The provider works in the mode of the client, unless the mode was changed between the
\* opening of the connection and session.created.
THEOREM ModeCorrect == Spec => []ModeReachesProvider
<1>1. IInv => ModeReachesProvider
  BY DEF IInv
<1> QED
  BY <1>1, IInvHolds, PTL
=============================================================================

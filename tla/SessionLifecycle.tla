--------------------------- MODULE SessionLifecycle ---------------------------
(***************************************************************************)
(* The life of one client connection and of everything that is created for *)
(* it: the session record and its timers (orchestrator/SessionManager.ts), *)
(* the per-session subscriptions on the event bus (EventBus.ts) of the     *)
(* control engine (lanes/laneC_control.ts) and of the session recorder     *)
(* (services/SessionRecorder.ts), the provider connection, and the         *)
(* WebSocket handlers that open and close them (api/websocket.ts).         *)
(*                                                                         *)
(* The provider connection is the one of RealtimeAdapter.tla: every step   *)
(* here is a step of that module together with what the same handler does  *)
(* to the record and to the subscriptions, or leaves its variables alone.  *)
(*                                                                         *)
(* EventBus.offSession removes every subscription of a session, whoever    *)
(* made it.  It is called by SessionManager.endSession, by the recorder's  *)
(* stopRecording and by ControlEngine.destroy.                             *)
(*                                                                         *)
(* A record that has been ended stays in the map for five seconds, and in  *)
(* that time any handler that updates or touches it arms its idle timer    *)
(* again.  Five seconds are shorter than the idle time (30 minutes), so a  *)
(* pending removal comes before an idle timer.                             *)
(*                                                                         *)
(* The second part of the module proves the safety properties: what holds  *)
(* whatever the order of client messages, provider events, timers and the  *)
(* close.                                                                  *)
(***************************************************************************)
EXTENDS Integers, TLAPS

CONSTANTS
  PolicyGates,    \* the values of config.features.enablePolicyGate
  MaxEnds,        \* bound: session.end messages
  Sockets, Modes, MaxReconnects, MaxStarts   \* as in RealtimeAdapter.tla

ASSUME LifecycleAssumption == PolicyGates \subseteq BOOLEAN /\ MaxEnds \in Nat

ASSUME AdapterAssumption ==
  /\ MaxReconnects \in Nat /\ MaxStarts \in Nat
  /\ Modes # {} /\ "null" \notin Sockets

\* The provider connection and the client's socket, as in RealtimeAdapter.tla.
VARIABLES
  sockets, ws, connected, sessionCreated, named, attempts, timers,
  voiceMode, queued, config, missed, client, awaiting, arbitrator, ready,
  greeted, starts, failedStart, unanswered

Adapter == INSTANCE RealtimeAdapter

VARIABLES
  record,         \* session.state, or "absent" when not in the sessions map
  idleTimer,      \* sessionTimeouts holds a pending timer
  removals,       \* five-second removals pending
  policyGate,     \* config.features.enablePolicyGate
  engineOn,       \* the control engine is subscribed to the session
  handlersOn,     \* policy.decision and rag.result handlers of the connection
  recording,      \* the recorder buffers the session
  recorderOn      \* the recorder is subscribed to the session

\* History that no code reads.
VARIABLES
  endings,        \* reasons of the session.end events emitted
  ends,           \* session.end messages handled
  flushFailed,    \* the recorder could not write its file
  ungoverned      \* a transcript reached the client but not the control engine

linkVars     == <<sockets, ws, connected, sessionCreated, named, attempts, timers,
                  voiceMode, queued, config, missed, client, awaiting, arbitrator, ready,
                  greeted, starts, failedStart, unanswered>>
recordVars   == <<record, idleTimer, removals>>
recorderVars == <<recording, recorderOn, flushFailed>>
engineVars   == <<policyGate, engineOn, handlersOn>>
historyVars  == <<endings, ends, ungoverned>>
sessionVars  == <<recordVars, recorderVars, engineVars, historyVars>>
vars         == <<linkVars, sessionVars>>

Reasons == {"timeout", "user_ended", "connection_closed"}

\* As handleConnection leaves a new connection.
Init ==
  /\ Adapter!Init
  /\ record = "idle" /\ idleTimer = TRUE /\ removals = 0
  /\ policyGate \in PolicyGates /\ engineOn = policyGate /\ handlersOn = TRUE
  /\ recording = FALSE /\ recorderOn = FALSE
  /\ endings = {} /\ ends = 0 /\ flushFailed = FALSE /\ ungoverned = FALSE

-----------------------------------------------------------------------------
\* EventBus.offSession takes away the subscriptions of both.
OffSession == engineOn' = FALSE /\ recorderOn' = FALSE

\* Mutant of UpdateRecord: an activity does not set the idle timer again.
UpdateRecordUntimed(s) == record' = s /\ UNCHANGED <<idleTimer, removals>>

\* updateSessionState, where the record exists: it may have been ended.
UpdateRecord(s) == record' = s /\ idleTimer' = TRUE /\ UNCHANGED removals

\* startRecording: a buffer that is there is used, subscribed or not.
StartRecording ==
  /\ recording' = TRUE
  /\ IF recording THEN UNCHANGED recorderOn ELSE recorderOn' = TRUE
  /\ UNCHANGED flushFailed

\* stopRecording: writing the file may throw, and then the buffer stays.
StopRecording ==
  \/ recording' = FALSE /\ UNCHANGED flushFailed
  \/ recording /\ recording' = TRUE /\ flushFailed' = TRUE

\* Mutant of EndRecord: the handlers are cleaned up before session.end is emitted.
EndRecordCleansFirst(reason) ==
  IF record # "absent"
    THEN /\ record' = "ended" /\ idleTimer' = FALSE
         /\ removals' = removals + 1
         /\ endings' = endings \cup {reason}
         /\ OffSession
         /\ UNCHANGED <<recording, flushFailed>>
    ELSE UNCHANGED <<recordVars, recorderVars, engineOn, endings>>

\* SessionManager.endSession.  The recorder, if it still hears the session.end
\* event, writes its file and stops; when it cannot, nobody handles its error.
EndRecord(reason) ==
  IF record # "absent"
    THEN /\ record' = "ended" /\ idleTimer' = FALSE
         /\ removals' = removals + 1
         /\ endings' = endings \cup {reason}
         /\ OffSession
         /\ IF recorderOn THEN StopRecording ELSE UNCHANGED <<recording, flushFailed>>
    ELSE UNCHANGED <<recordVars, recorderVars, engineOn, endings>>

-----------------------------------------------------------------------------
\* Mutant of SessionStart: the recorder first drops what the session has subscribed.
SessionStartResubscribes ==
  /\ \E m \in Modes : Adapter!SessionReused(m) \/ \E s \in Sockets : Adapter!SessionStart(m, s)
  /\ StartRecording
  /\ engineOn' = FALSE
  /\ UNCHANGED <<recordVars, policyGate, handlersOn, historyVars>>

\* session.start: up to its await, or on a connected provider to its end.
SessionStart ==
  /\ \E m \in Modes : Adapter!SessionReused(m) \/ \E s \in Sockets : Adapter!SessionStart(m, s)
  /\ StartRecording
  /\ UNCHANGED <<recordVars, engineVars, historyVars>>

\* The provider's socket opens, and a session.start that awaits it goes on.
\* updateSessionState throws when the record is gone, after the arbitrator has
\* been started and instead of provider.ready.
SocketOpens(s) ==
  /\ Adapter!SocketOpens(s)
  /\ ready' = (ready \/ (s \in awaiting /\ record # "absent"))
  /\ IF s \in awaiting /\ record # "absent" THEN UpdateRecord("listening")
                                            ELSE UNCHANGED recordVars
  /\ UNCHANGED <<recorderVars, engineVars, historyVars>>

\* The other events of the provider's sockets and timers, and session.set_mode.
ProviderEvent ==
  /\ \/ \E s \in Sockets : \/ Adapter!SocketFails(s) \/ Adapter!SocketCloses(s)
                           \/ Adapter!SessionCreated(s) \/ Adapter!Reconnect(s)
     \/ Adapter!ReconnectDropped
     \/ \E m \in Modes : Adapter!SetMode(m)
  /\ UNCHANGED sessionVars

\* audio.chunk touches the record whatever its state.
AudioChunk ==
  /\ client # "closed" /\ Adapter!IsConnected /\ arbitrator = "LISTENING"
  /\ IF record # "absent" THEN idleTimer' = TRUE ELSE UNCHANGED idleTimer
  /\ UNCHANGED <<linkVars, record, removals, recorderVars, engineVars, historyVars>>

\* user.barge_in, which the server still handles while its socket is closing.
BargeIn ==
  /\ client # "closed"
  /\ record # "absent"
  /\ UpdateRecord("listening")
  /\ UNCHANGED <<linkVars, recorderVars, engineVars, historyVars>>

\* A socket whose messages are handled: one that closes has some on the wire.
Heard(s) == sockets[s] \in {"open", "closing"}

\* response_start and response_complete.
Response ==
  /\ \E s \in Sockets : Heard(s)
  /\ record # "absent"
  /\ UpdateRecord("responding") \/ UpdateRecord("listening")
  /\ UNCHANGED <<linkVars, recorderVars, engineVars, historyVars>>

\* A user or assistant transcript is sent to the client and put on the bus.
Transcript ==
  /\ \E s \in Sockets : Heard(s)
  /\ ungoverned' = (ungoverned \/ (policyGate /\ ~engineOn /\ client = "open"))
  /\ UNCHANGED <<linkVars, recordVars, recorderVars, engineVars, endings, ends>>

-----------------------------------------------------------------------------
\* session.end, which may come again while the client's socket closes.
SessionEnd ==
  /\ ends < MaxEnds
  /\ ends' = ends + 1
  /\ Adapter!SessionEnd
  /\ EndRecord("user_ended")
  /\ UNCHANGED <<policyGate, handlersOn, ungoverned>>

\* The server drains and closes its sockets.
Shutdown == Adapter!Shutdown /\ UNCHANGED sessionVars

\* Mutant of HandleClose: the connection's bus handlers are forgotten.
HandleCloseKeepsHandlers ==
  /\ Adapter!ClientCloses
  /\ EndRecord("connection_closed")
  /\ UNCHANGED <<policyGate, handlersOn, ends, ungoverned>>

\* Mutant of HandleClose: the record is ended but never due for removal.
HandleCloseKeepsRecord ==
  /\ Adapter!ClientCloses
  /\ handlersOn' = FALSE
  /\ StopRecording
  /\ OffSession
  /\ record' = IF record # "absent" THEN "ended" ELSE "absent"
  /\ idleTimer' = FALSE
  /\ UNCHANGED <<removals, policyGate, historyVars>>

\* handleClose: the recorder stops first, then the lanes, then the record, whose
\* session.end event the recorder no longer hears.
HandleClose ==
  /\ Adapter!ClientCloses
  /\ handlersOn' = FALSE
  /\ StopRecording
  /\ OffSession
  /\ IF record # "absent"
       THEN /\ record' = "ended" /\ idleTimer' = FALSE /\ removals' = removals + 1
            /\ endings' = endings \cup {"connection_closed"}
       ELSE UNCHANGED <<recordVars, endings>>
  /\ UNCHANGED <<policyGate, ends, ungoverned>>

-----------------------------------------------------------------------------
\* The idle timer: endSession, although the connection is open.
IdleTimeout ==
  /\ idleTimer /\ removals = 0
  /\ IF record # "absent"
       THEN EndRecord("timeout")
       ELSE idleTimer' = FALSE
            /\ UNCHANGED <<record, removals, recorderVars, engineOn, endings>>
  /\ UNCHANGED <<linkVars, policyGate, handlersOn, ends, ungoverned>>

\* Mutant of Removal: a record that is in use again is not deleted.
RemovalOfEnded ==
  /\ removals > 0
  /\ removals' = removals - 1
  /\ record' = IF record = "ended" THEN "absent" ELSE record
  /\ UNCHANGED <<linkVars, idleTimer, recorderVars, engineVars, historyVars>>

\* Five seconds after an endSession the record is deleted, whatever its state.
Removal ==
  /\ removals > 0
  /\ removals' = removals - 1
  /\ record' = "absent"
  /\ UNCHANGED <<linkVars, idleTimer, recorderVars, engineVars, historyVars>>

-----------------------------------------------------------------------------
Next ==
  \/ SessionStart \/ \E s \in Sockets : SocketOpens(s)
  \/ ProviderEvent
  \/ AudioChunk \/ BargeIn \/ Response \/ Transcript
  \/ SessionEnd \/ Shutdown \/ HandleClose
  \/ IdleTimeout \/ Removal

Spec == Init /\ [][Next]_vars

\* Timers expire and a closing socket closes.
Fairness ==
  /\ WF_vars(IdleTimeout) /\ WF_vars(Removal)
  /\ WF_vars(client = "closing" /\ HandleClose)

FairSpec == Spec /\ Fairness

-----------------------------------------------------------------------------
RecordTypes ==
  /\ record \in {"absent", "idle", "listening", "responding", "ended"}
  /\ removals \in 0..(MaxEnds + 2) /\ ends \in 0..MaxEnds
  /\ endings \subseteq Reasons

FlagTypes ==
  /\ idleTimer \in BOOLEAN /\ ungoverned \in BOOLEAN /\ flushFailed \in BOOLEAN
  /\ policyGate \in BOOLEAN /\ engineOn \in BOOLEAN /\ handlersOn \in BOOLEAN
  /\ recording \in BOOLEAN /\ recorderOn \in BOOLEAN

\* Every variable keeps its type, and no more than two removals are pending beyond
\* those of the session.end messages.
TypeOK == Adapter!TypeOK /\ RecordTypes /\ FlagTypes

\* Nothing that was set up for a connection outlives its close: no handler or
\* subscription on the global bus, no recording buffer unless its file could not be
\* written, no socket in this.ws and no name to reconnect with, whatever the close
\* interrupts (handleClose).  With one session.start no provider connection is left
\* either and the arbitrator has ended; with a second one sent while the first
\* connects, the socket that was replaced in this.ws is closed by nobody, and its
\* handler starts the arbitrator again when it opens.
NothingOutlivesClose ==
  client = "closed" =>
    /\ ~handlersOn /\ ~engineOn /\ ~recorderOn
    /\ recording => flushFailed
    /\ ws = Adapter!NoSocket /\ ~named
    /\ starts <= 1 => Adapter!Live = {} /\ arbitrator = "ENDED"

\* A session that counts as active always has a pending idle timer, so that an
\* abandoned one is ended some day (createSession, updateSessionState,
\* touchSession, endSession).
ActiveSessionIsTimed ==
  record \in {"idle", "listening", "responding"} => idleTimer

\* A recording buffer is left without the subscription that fills it and that ends it
\* only after its file could not be written: until then whoever calls offSession,
\* which removes the recorder's subscription too, has ended the recording first.
RecordingIsHeard == recording => recorderOn \/ flushFailed

\* A session that was ended and then revived by a late handler (barge-in while
\* closing, a response already on the wire) is still due to be forgotten.
RevivedIsForgotten == endings # {} /\ record # "absent" => removals > 0

\* The control engine misses a transcript of an open connection only after the
\* idle timeout took its subscription away.
UngovernedOnlyAfterTimeout == ungoverned => "timeout" \in endings

\* After the client is gone, the server forgets the session for good: the
\* record leaves the map and no idle timer stays pending.
ForgottenAfterClose == client = "closed" ~> [](record = "absent" /\ ~idleTimer)

\* docs/API.md: Lane C evaluates every user and assistant transcript.
\* (Refuted: the idle timeout ends the session but not the connection.)
EveryTranscriptEvaluated == ~ungoverned

-----------------------------------------------------------------------------
(* Proofs.  The provider connection behaves as RealtimeAdapter.tla says, so  *)
(* that what is proved there holds here; the rest is an invariant of its own. *)

\* Each stage of the client's socket allows one more pending removal, and so does
\* each session.end.
StageInv ==
  /\ client = "open" => removals <= 1 /\ ends = 0
  /\ client = "closing" => removals <= ends + 1
  /\ client = "closed" => removals <= ends + 2

\* What handleClose has taken down stays down.
ReleasedInv ==
  client = "closed" =>
    /\ ~handlersOn /\ ~engineOn /\ ~recorderOn
    /\ recording => flushFailed
    /\ starts <= 1 => arbitrator = "ENDED"

\* An open connection is governed until its record has been ended.
EngineInv ==
  client = "open" /\ policyGate /\ ~engineOn => "timeout" \in endings

IInv ==
  /\ RecordTypes /\ FlagTypes /\ StageInv /\ ReleasedInv /\ EngineInv
  /\ ActiveSessionIsTimed /\ RecordingIsHeard
  /\ RevivedIsForgotten /\ UngovernedOnlyAfterTimeout

-----------------------------------------------------------------------------
\* Every step is a step of the provider connection or leaves it alone.
LEMMA AdapterStep == [Next]_vars => [Adapter!Next]_(Adapter!vars)
<1> SUFFICES ASSUME [Next]_vars PROVE Adapter!Next \/ UNCHANGED Adapter!vars
  OBVIOUS
<1> USE DEF Adapter!Next, Adapter!SocketEvent
<1>1. CASE SessionStart BY <1>1 DEF SessionStart
<1>2. CASE \E s \in Sockets : SocketOpens(s) BY <1>2 DEF SocketOpens
<1>3. CASE ProviderEvent BY <1>3 DEF ProviderEvent
<1>4. CASE SessionEnd BY <1>4 DEF SessionEnd
<1>5. CASE Shutdown BY <1>5 DEF Shutdown
<1>6. CASE HandleClose BY <1>6 DEF HandleClose
<1>7. CASE AudioChunk \/ BargeIn \/ Response \/ Transcript \/ IdleTimeout \/ Removal
  <2>1. UNCHANGED linkVars
    BY <1>7 DEF AudioChunk, BargeIn, Response, Transcript, IdleTimeout, Removal
  <2> QED
    BY <2>1 DEF linkVars, Adapter!vars, Adapter!adapterVars, Adapter!modeVars,
                Adapter!serverVars, Adapter!ghostVars
<1>8. CASE UNCHANGED vars
  BY <1>8 DEF vars, linkVars, Adapter!vars, Adapter!adapterVars, Adapter!modeVars,
              Adapter!serverVars, Adapter!ghostVars
<1> QED
  BY <1>1, <1>2, <1>3, <1>4, <1>5, <1>6, <1>7, <1>8 DEF Next

\* The connection of a session is a provider connection of RealtimeAdapter.tla, with
\* all that is proved of it.
THEOREM AdapterCorrect == Spec => Adapter!Spec
<1>1. Init => Adapter!Init
  BY DEF Init
<1> QED
  BY <1>1, AdapterStep, PTL DEF Spec, Adapter!Spec

\* Its invariant, used below.
LEMMA AdapterInvariance == Spec => []Adapter!IInv
<1>1. Adapter!AdapterAssumption /\ Adapter!NoSocketAssumption
  BY AdapterAssumption
     DEF Adapter!AdapterAssumption, Adapter!NoSocketAssumption, Adapter!NoSocket
<1>2. Adapter!Spec => []Adapter!IInv
  BY <1>1, Adapter!IInvHolds, PTL
<1> QED
  BY <1>2, AdapterCorrect, PTL

-----------------------------------------------------------------------------
\* What each handler does to the client's socket and the arbitrator.
LEMMA StartFacts ==
  SessionStart => /\ client # "closed" /\ UNCHANGED <<client, arbitrator>>
                  /\ StartRecording /\ UNCHANGED <<recordVars, engineVars, historyVars>>
BY DEF SessionStart, Adapter!SessionStart, Adapter!SessionReused

LEMMA OpenFacts ==
  ASSUME NEW s \in Sockets, SocketOpens(s)
  PROVE  /\ UNCHANGED <<client, starts, recorderVars, engineVars, historyVars>>
         /\ sockets[s] = "connecting" /\ arbitrator' \in {arbitrator, "LISTENING"}
         /\ UNCHANGED recordVars \/ (record # "absent" /\ UpdateRecord("listening"))
<1>1. Adapter!SocketOpens(s)
  BY DEF SocketOpens
<1>2. UNCHANGED <<client, starts>> /\ sockets[s] = "connecting"
  BY <1>1 DEF Adapter!SocketOpens, Adapter!ghostVars
<1>3. arbitrator' \in {arbitrator, "LISTENING"}
  BY <1>1 DEF Adapter!SocketOpens, Adapter!ResumeStart
<1> QED
  BY <1>2, <1>3 DEF SocketOpens

LEMMA EventFacts ==
  ProviderEvent => UNCHANGED <<client, starts, arbitrator>> /\ UNCHANGED sessionVars
<1> SUFFICES ASSUME ProviderEvent PROVE UNCHANGED <<client, starts, arbitrator>>
  BY DEF ProviderEvent
<1>1. ASSUME NEW s \in Sockets, Adapter!SocketFails(s) PROVE UNCHANGED <<client, starts, arbitrator>>
  BY <1>1 DEF Adapter!SocketFails
<1>2. ASSUME NEW s \in Sockets, Adapter!SocketCloses(s) PROVE UNCHANGED <<client, starts, arbitrator>>
  BY <1>2 DEF Adapter!SocketCloses, Adapter!serverVars, Adapter!ghostVars
<1>3. ASSUME NEW s \in Sockets, Adapter!SessionCreated(s) PROVE UNCHANGED <<client, starts, arbitrator>>
  BY <1>3 DEF Adapter!SessionCreated, Adapter!serverVars
<1>4. ASSUME NEW s \in Sockets, Adapter!Reconnect(s) PROVE UNCHANGED <<client, starts, arbitrator>>
  BY <1>4 DEF Adapter!Reconnect, Adapter!serverVars
<1>5. ASSUME Adapter!ReconnectDropped PROVE UNCHANGED <<client, starts, arbitrator>>
  BY <1>5 DEF Adapter!ReconnectDropped, Adapter!serverVars, Adapter!ghostVars
<1>6. ASSUME NEW m \in Modes, Adapter!SetMode(m) PROVE UNCHANGED <<client, starts, arbitrator>>
  BY <1>6 DEF Adapter!SetMode, Adapter!serverVars, Adapter!ghostVars
<1> QED
  BY <1>1, <1>2, <1>3, <1>4, <1>5, <1>6 DEF ProviderEvent

LEMMA CloseFacts ==
  /\ SessionEnd => client # "closed" /\ client' = "closing"
  /\ Shutdown => client = "open" /\ client' = "closing" /\ UNCHANGED sessionVars
  /\ HandleClose => client # "closed" /\ client' = "closed" /\ arbitrator' = "ENDED"
BY DEF SessionEnd, Shutdown, HandleClose, Adapter!SessionEnd, Adapter!Shutdown,
       Adapter!ClientCloses

\* The flags keep their types.
LEMMA FlagStep ==
  ASSUME FlagTypes, [Next]_vars
  PROVE  FlagTypes'
<1> USE DEF FlagTypes, linkVars, recordVars, recorderVars, engineVars, historyVars,
            sessionVars
<1>1. CASE SessionStart BY <1>1, StartFacts DEF StartRecording
<1>2. CASE \E s \in Sockets : SocketOpens(s) BY <1>2, OpenFacts DEF UpdateRecord
<1>3. CASE ProviderEvent BY <1>3, EventFacts
<1>4. CASE AudioChunk BY <1>4 DEF AudioChunk
<1>5. CASE BargeIn BY <1>5 DEF BargeIn, UpdateRecord
<1>6. CASE Response BY <1>6 DEF Response, UpdateRecord
<1>7. CASE Transcript BY <1>7 DEF Transcript
<1>8. CASE SessionEnd BY <1>8, CloseFacts DEF SessionEnd, EndRecord, OffSession, StopRecording
<1>9. CASE Shutdown BY <1>9, CloseFacts
<1>10. CASE HandleClose BY <1>10, CloseFacts DEF HandleClose, OffSession, StopRecording
<1>11. CASE IdleTimeout BY <1>11 DEF IdleTimeout, EndRecord, OffSession, StopRecording
<1>12. CASE Removal BY <1>12 DEF Removal
<1>13. CASE UNCHANGED vars BY <1>13 DEF vars
<1> HIDE DEF FlagTypes, linkVars, recordVars, recorderVars, engineVars, historyVars,
             sessionVars
<1> QED
  BY <1>1, <1>2, <1>3, <1>4, <1>5, <1>6, <1>7, <1>8, <1>9, <1>10, <1>11, <1>12, <1>13 DEF Next

\* The record keeps its type, and the stages of the connection bound its removals.
LEMMA RecordStep ==
  ASSUME RecordTypes, StageInv, client \in {"open", "closing", "closed"}, [Next]_vars
  PROVE  RecordTypes'
<1> USE DEF RecordTypes, StageInv, Reasons, linkVars, recordVars, recorderVars, engineVars, historyVars,
            sessionVars
<1>1. CASE SessionStart BY <1>1, StartFacts DEF StartRecording
<1>2. CASE \E s \in Sockets : SocketOpens(s) BY <1>2, OpenFacts DEF UpdateRecord
<1>3. CASE ProviderEvent BY <1>3, EventFacts
<1>4. CASE AudioChunk BY <1>4 DEF AudioChunk
<1>5. CASE BargeIn BY <1>5 DEF BargeIn, UpdateRecord
<1>6. CASE Response BY <1>6 DEF Response, UpdateRecord
<1>7. CASE Transcript BY <1>7 DEF Transcript
<1>8. CASE SessionEnd
  <2>1. record' \in {"absent", "idle", "listening", "responding", "ended"}
    BY <1>8 DEF SessionEnd, EndRecord, Adapter!SessionEnd
  <2>2. removals' \in 0..(MaxEnds + 2) /\ ends' \in 0..MaxEnds
    BY <1>8, LifecycleAssumption DEF SessionEnd, EndRecord, Adapter!SessionEnd
  <2>3. endings' \subseteq endings \cup Reasons
    BY <1>8 DEF SessionEnd, EndRecord, Adapter!SessionEnd
  <2> QED
    BY <2>1, <2>2, <2>3
<1>9. CASE Shutdown BY <1>9, CloseFacts
<1>10. CASE HandleClose
  <2>1. record' \in {"absent", "idle", "listening", "responding", "ended"}
    BY <1>10 DEF HandleClose, Adapter!ClientCloses
  <2>2. removals' \in 0..(MaxEnds + 2) /\ ends' \in 0..MaxEnds
    BY <1>10, LifecycleAssumption DEF HandleClose, Adapter!ClientCloses
  <2>3. endings' \subseteq endings \cup Reasons
    BY <1>10 DEF HandleClose, Adapter!ClientCloses
  <2> QED
    BY <2>1, <2>2, <2>3
<1>11. CASE IdleTimeout
  <2>1. record' \in {"absent", "idle", "listening", "responding", "ended"}
    BY <1>11 DEF IdleTimeout, EndRecord
  <2>2. removals' \in 0..(MaxEnds + 2) /\ ends' \in 0..MaxEnds
    BY <1>11, LifecycleAssumption DEF IdleTimeout, EndRecord
  <2>3. endings' \subseteq endings \cup Reasons
    BY <1>11 DEF IdleTimeout, EndRecord
  <2> QED
    BY <2>1, <2>2, <2>3
<1>12. CASE Removal
  <2>1. record' \in {"absent", "idle", "listening", "responding", "ended"}
    BY <1>12 DEF Removal
  <2>2. removals' \in 0..(MaxEnds + 2) /\ ends' \in 0..MaxEnds
    BY <1>12, LifecycleAssumption DEF Removal
  <2>3. endings' \subseteq endings \cup Reasons
    BY <1>12 DEF Removal
  <2> QED
    BY <2>1, <2>2, <2>3
<1>13. CASE UNCHANGED vars BY <1>13 DEF vars
<1> HIDE DEF RecordTypes, StageInv, Reasons, linkVars, recordVars, recorderVars, engineVars, historyVars,
             sessionVars
<1> QED
  BY <1>1, <1>2, <1>3, <1>4, <1>5, <1>6, <1>7, <1>8, <1>9, <1>10, <1>11, <1>12, <1>13 DEF Next

\* Each stage of the connection and each session.end allows one more pending removal.
LEMMA StageStep ==
  ASSUME RecordTypes, StageInv, client \in {"open", "closing", "closed"}, [Next]_vars
  PROVE  StageInv'
<1> USE DEF RecordTypes, StageInv, linkVars, recordVars, recorderVars, engineVars, historyVars,
            sessionVars
<1>1. CASE SessionStart BY <1>1, StartFacts DEF StartRecording
<1>2. CASE \E s \in Sockets : SocketOpens(s) BY <1>2, OpenFacts DEF UpdateRecord
<1>3. CASE ProviderEvent BY <1>3, EventFacts
<1>4. CASE AudioChunk BY <1>4 DEF AudioChunk
<1>5. CASE BargeIn BY <1>5 DEF BargeIn, UpdateRecord
<1>6. CASE Response BY <1>6 DEF Response, UpdateRecord
<1>7. CASE Transcript BY <1>7 DEF Transcript
<1>8. CASE SessionEnd BY <1>8, CloseFacts DEF SessionEnd, EndRecord, OffSession, StopRecording
<1>9. CASE Shutdown BY <1>9, CloseFacts
<1>10. CASE HandleClose BY <1>10, CloseFacts DEF HandleClose, OffSession, StopRecording
<1>11. CASE IdleTimeout BY <1>11 DEF IdleTimeout, EndRecord, OffSession, StopRecording
<1>12. CASE Removal BY <1>12 DEF Removal
<1>13. CASE UNCHANGED vars BY <1>13 DEF vars
<1> HIDE DEF RecordTypes, StageInv, linkVars, recordVars, recorderVars, engineVars, historyVars,
             sessionVars
<1> QED
  BY <1>1, <1>2, <1>3, <1>4, <1>5, <1>6, <1>7, <1>8, <1>9, <1>10, <1>11, <1>12, <1>13 DEF Next

\* After the close nothing is set up again.
LEMMA ReleasedStep ==
  ASSUME ReleasedInv, starts \in Nat, Adapter!NothingAfterClose, starts' \in Nat, [Next]_vars
  PROVE  ReleasedInv'
<1> USE DEF ReleasedInv, linkVars, recordVars, recorderVars, engineVars, historyVars,
            sessionVars
<1>1. CASE SessionStart BY <1>1, StartFacts DEF StartRecording
<1>2. CASE \E s \in Sockets : SocketOpens(s)
  <2>1. PICK s \in Sockets : SocketOpens(s)
    BY <1>2
  <2>2. ~(client = "closed" /\ starts <= 1)
    BY <2>1, OpenFacts DEF Adapter!NothingAfterClose, Adapter!Live
  <2> QED
    BY <2>1, <2>2, OpenFacts
<1>3. CASE ProviderEvent BY <1>3, EventFacts
<1>4. CASE AudioChunk BY <1>4 DEF AudioChunk
<1>5. CASE BargeIn BY <1>5 DEF BargeIn, UpdateRecord
<1>6. CASE Response BY <1>6 DEF Response, UpdateRecord
<1>7. CASE Transcript BY <1>7 DEF Transcript
<1>8. CASE SessionEnd BY <1>8, CloseFacts DEF SessionEnd, EndRecord, OffSession, StopRecording
<1>9. CASE Shutdown BY <1>9, CloseFacts
<1>10. CASE HandleClose BY <1>10, CloseFacts DEF HandleClose, OffSession, StopRecording
<1>11. CASE IdleTimeout BY <1>11 DEF IdleTimeout, EndRecord, OffSession, StopRecording
<1>12. CASE Removal BY <1>12 DEF Removal
<1>13. CASE UNCHANGED vars BY <1>13 DEF vars
<1> HIDE DEF ReleasedInv, linkVars, recordVars, recorderVars, engineVars, historyVars,
             sessionVars
<1> QED
  BY <1>1, <1>2, <1>3, <1>4, <1>5, <1>6, <1>7, <1>8, <1>9, <1>10, <1>11, <1>12, <1>13 DEF Next

\* Only a timeout takes the engine away from an open connection.
LEMMA EngineStep ==
  ASSUME EngineInv, [Next]_vars
  PROVE  EngineInv'
<1> USE DEF EngineInv, linkVars, recordVars, recorderVars, engineVars, historyVars,
            sessionVars
<1>1. CASE SessionStart BY <1>1, StartFacts DEF StartRecording
<1>2. CASE \E s \in Sockets : SocketOpens(s) BY <1>2, OpenFacts DEF UpdateRecord
<1>3. CASE ProviderEvent BY <1>3, EventFacts
<1>4. CASE AudioChunk BY <1>4 DEF AudioChunk
<1>5. CASE BargeIn BY <1>5 DEF BargeIn, UpdateRecord
<1>6. CASE Response BY <1>6 DEF Response, UpdateRecord
<1>7. CASE Transcript BY <1>7 DEF Transcript
<1>8. CASE SessionEnd BY <1>8, CloseFacts DEF SessionEnd, EndRecord, OffSession, StopRecording
<1>9. CASE Shutdown BY <1>9, CloseFacts
<1>10. CASE HandleClose BY <1>10, CloseFacts DEF HandleClose, OffSession, StopRecording
<1>11. CASE IdleTimeout BY <1>11 DEF IdleTimeout, EndRecord, OffSession, StopRecording
<1>12. CASE Removal BY <1>12 DEF Removal
<1>13. CASE UNCHANGED vars BY <1>13 DEF vars
<1> HIDE DEF EngineInv, linkVars, recordVars, recorderVars, engineVars, historyVars,
             sessionVars
<1> QED
  BY <1>1, <1>2, <1>3, <1>4, <1>5, <1>6, <1>7, <1>8, <1>9, <1>10, <1>11, <1>12, <1>13 DEF Next

\* An activity sets the idle timer, and only an endSession clears it.
LEMMA TimedStep ==
  ASSUME ActiveSessionIsTimed, [Next]_vars
  PROVE  ActiveSessionIsTimed'
<1> USE DEF ActiveSessionIsTimed, linkVars, recordVars, recorderVars, engineVars, historyVars,
            sessionVars
<1>1. CASE SessionStart BY <1>1, StartFacts DEF StartRecording
<1>2. CASE \E s \in Sockets : SocketOpens(s) BY <1>2, OpenFacts DEF UpdateRecord
<1>3. CASE ProviderEvent BY <1>3, EventFacts
<1>4. CASE AudioChunk BY <1>4 DEF AudioChunk
<1>5. CASE BargeIn BY <1>5 DEF BargeIn, UpdateRecord
<1>6. CASE Response BY <1>6 DEF Response, UpdateRecord
<1>7. CASE Transcript BY <1>7 DEF Transcript
<1>8. CASE SessionEnd BY <1>8, CloseFacts DEF SessionEnd, EndRecord, OffSession, StopRecording
<1>9. CASE Shutdown BY <1>9, CloseFacts
<1>10. CASE HandleClose BY <1>10, CloseFacts DEF HandleClose, OffSession, StopRecording
<1>11. CASE IdleTimeout BY <1>11 DEF IdleTimeout, EndRecord, OffSession, StopRecording
<1>12. CASE Removal BY <1>12 DEF Removal
<1>13. CASE UNCHANGED vars BY <1>13 DEF vars
<1> HIDE DEF ActiveSessionIsTimed, linkVars, recordVars, recorderVars, engineVars, historyVars,
             sessionVars
<1> QED
  BY <1>1, <1>2, <1>3, <1>4, <1>5, <1>6, <1>7, <1>8, <1>9, <1>10, <1>11, <1>12, <1>13 DEF Next

\* Whatever removes the recorder's subscription has ended its recording, or failed to.
LEMMA RecordingStep ==
  ASSUME FlagTypes, RecordingIsHeard, [Next]_vars
  PROVE  RecordingIsHeard'
<1> USE DEF FlagTypes, RecordingIsHeard, linkVars, recordVars, recorderVars, engineVars, historyVars,
            sessionVars
<1>1. CASE SessionStart BY <1>1, StartFacts DEF StartRecording
<1>2. CASE \E s \in Sockets : SocketOpens(s) BY <1>2, OpenFacts DEF UpdateRecord
<1>3. CASE ProviderEvent BY <1>3, EventFacts
<1>4. CASE AudioChunk BY <1>4 DEF AudioChunk
<1>5. CASE BargeIn BY <1>5 DEF BargeIn, UpdateRecord
<1>6. CASE Response BY <1>6 DEF Response, UpdateRecord
<1>7. CASE Transcript BY <1>7 DEF Transcript
<1>8. CASE SessionEnd
  BY <1>8, Zenon DEF SessionEnd, EndRecord, OffSession, StopRecording
<1>9. CASE Shutdown
  BY <1>9 DEF Shutdown
<1>10. CASE HandleClose BY <1>10, CloseFacts DEF HandleClose, OffSession, StopRecording
<1>11. CASE IdleTimeout BY <1>11 DEF IdleTimeout, EndRecord, OffSession, StopRecording
<1>12. CASE Removal BY <1>12 DEF Removal
<1>13. CASE UNCHANGED vars BY <1>13 DEF vars
<1> HIDE DEF FlagTypes, RecordingIsHeard, linkVars, recordVars, recorderVars, engineVars, historyVars,
             sessionVars
<1> QED
  BY <1>1, <1>2, <1>3, <1>4, <1>5, <1>6, <1>7, <1>8, <1>9, <1>10, <1>11, <1>12, <1>13 DEF Next

\* An ended record is due for removal until it is gone, and none is created again.
LEMMA RevivedStep ==
  ASSUME RecordTypes, RevivedIsForgotten, [Next]_vars
  PROVE  RevivedIsForgotten'
<1> USE DEF RecordTypes, RevivedIsForgotten, linkVars, recordVars, recorderVars, engineVars, historyVars,
            sessionVars
<1>1. CASE SessionStart BY <1>1, StartFacts DEF StartRecording
<1>2. CASE \E s \in Sockets : SocketOpens(s) BY <1>2, OpenFacts DEF UpdateRecord
<1>3. CASE ProviderEvent BY <1>3, EventFacts
<1>4. CASE AudioChunk BY <1>4 DEF AudioChunk
<1>5. CASE BargeIn BY <1>5 DEF BargeIn, UpdateRecord
<1>6. CASE Response BY <1>6 DEF Response, UpdateRecord
<1>7. CASE Transcript BY <1>7 DEF Transcript
<1>8. CASE SessionEnd BY <1>8, CloseFacts DEF SessionEnd, EndRecord, OffSession, StopRecording
<1>9. CASE Shutdown BY <1>9, CloseFacts
<1>10. CASE HandleClose BY <1>10, CloseFacts DEF HandleClose, OffSession, StopRecording
<1>11. CASE IdleTimeout BY <1>11 DEF IdleTimeout, EndRecord, OffSession, StopRecording
<1>12. CASE Removal BY <1>12 DEF Removal
<1>13. CASE UNCHANGED vars BY <1>13 DEF vars
<1> HIDE DEF RecordTypes, RevivedIsForgotten, linkVars, recordVars, recorderVars, engineVars, historyVars,
             sessionVars
<1> QED
  BY <1>1, <1>2, <1>3, <1>4, <1>5, <1>6, <1>7, <1>8, <1>9, <1>10, <1>11, <1>12, <1>13 DEF Next

\* A transcript is missed only while the engine is off.
LEMMA UngovernedStep ==
  ASSUME EngineInv, UngovernedOnlyAfterTimeout, [Next]_vars
  PROVE  UngovernedOnlyAfterTimeout'
<1> USE DEF EngineInv, UngovernedOnlyAfterTimeout, linkVars, recordVars, recorderVars, engineVars, historyVars,
            sessionVars
<1>1. CASE SessionStart BY <1>1, StartFacts DEF StartRecording
<1>2. CASE \E s \in Sockets : SocketOpens(s) BY <1>2, OpenFacts DEF UpdateRecord
<1>3. CASE ProviderEvent BY <1>3, EventFacts
<1>4. CASE AudioChunk BY <1>4 DEF AudioChunk
<1>5. CASE BargeIn BY <1>5 DEF BargeIn, UpdateRecord
<1>6. CASE Response BY <1>6 DEF Response, UpdateRecord
<1>7. CASE Transcript BY <1>7 DEF Transcript
<1>8. CASE SessionEnd BY <1>8, CloseFacts DEF SessionEnd, EndRecord, OffSession, StopRecording
<1>9. CASE Shutdown BY <1>9, CloseFacts
<1>10. CASE HandleClose BY <1>10, CloseFacts DEF HandleClose, OffSession, StopRecording
<1>11. CASE IdleTimeout BY <1>11 DEF IdleTimeout, EndRecord, OffSession, StopRecording
<1>12. CASE Removal BY <1>12 DEF Removal
<1>13. CASE UNCHANGED vars BY <1>13 DEF vars
<1> HIDE DEF EngineInv, UngovernedOnlyAfterTimeout, linkVars, recordVars, recorderVars, engineVars, historyVars,
             sessionVars
<1> QED
  BY <1>1, <1>2, <1>3, <1>4, <1>5, <1>6, <1>7, <1>8, <1>9, <1>10, <1>11, <1>12, <1>13 DEF Next

-----------------------------------------------------------------------------
\* The strengthening is inductive, and so holds in every reachable state.
THEOREM Invariance == Spec => [](IInv /\ Adapter!IInv)
<1> DEFINE Given == Adapter!IInv
<1>1. Init => IInv
  <2> SUFFICES ASSUME Init PROVE IInv
    OBVIOUS
  <2>1. client = "open" /\ policyGate \in BOOLEAN
    BY LifecycleAssumption DEF Init, Adapter!Init
  <2>2. FlagTypes
    BY <2>1 DEF Init, FlagTypes
  <2>6. RecordTypes
    BY LifecycleAssumption DEF Init, RecordTypes
  <2>3. StageInv /\ ReleasedInv /\ EngineInv
    BY <2>1 DEF Init, StageInv, ReleasedInv, EngineInv
  <2>4. ActiveSessionIsTimed /\ RecordingIsHeard
    BY DEF Init, ActiveSessionIsTimed, RecordingIsHeard
  <2>5. RevivedIsForgotten /\ UngovernedOnlyAfterTimeout
    BY DEF Init, RevivedIsForgotten, UngovernedOnlyAfterTimeout
  <2> QED
    BY <2>2, <2>3, <2>4, <2>5, <2>6 DEF IInv
<1>2. IInv /\ Given /\ Given' /\ [Next]_vars => IInv'
  <2> SUFFICES ASSUME IInv, Given, Given', [Next]_vars PROVE IInv'
    OBVIOUS
  <2>1. starts \in Nat /\ starts' \in Nat /\ client \in {"open", "closing", "closed"}
    BY AdapterAssumption DEF Adapter!IInv, Adapter!DataTypes
  <2>2. Adapter!NothingAfterClose
    BY DEF Adapter!IInv, Adapter!NamedWithSocket, Adapter!OneSocket,
           Adapter!NothingAfterClose, Adapter!Live
  <2>3. RecordTypes' /\ FlagTypes' /\ StageInv'
    BY <2>1, RecordStep, FlagStep, StageStep DEF IInv
  <2>4. ReleasedInv' /\ EngineInv'
    BY <2>1, <2>2, ReleasedStep, EngineStep DEF IInv
  <2>5. ActiveSessionIsTimed' /\ RecordingIsHeard'
    BY TimedStep, RecordingStep DEF IInv
  <2>6. RevivedIsForgotten' /\ UngovernedOnlyAfterTimeout'
    BY RevivedStep, UngovernedStep DEF IInv
  <2> QED
    BY <2>3, <2>4, <2>5, <2>6 DEF IInv
<1> QED
  BY <1>1, <1>2, AdapterInvariance, PTL DEF Spec

\* Every variable keeps its type, those of the provider connection included.
THEOREM TypeCorrect == Spec => []TypeOK
<1>1. IInv /\ Adapter!IInv => TypeOK
  BY DEF IInv, TypeOK, Adapter!IInv, Adapter!DataTypes, Adapter!Flags, Adapter!TypeOK
<1> QED
  BY <1>1, Invariance, PTL

\* handleClose leaves nothing behind, whatever it interrupts, but a recording that could
\* not be written and the connections that a repeated session.start has replaced.
THEOREM CloseCorrect == Spec => []NothingOutlivesClose
<1>1. IInv /\ Adapter!IInv => NothingOutlivesClose
  BY DEF IInv, ReleasedInv, NothingOutlivesClose, Adapter!IInv, Adapter!NamedWithSocket,
         Adapter!OneSocket, Adapter!Live
<1> QED
  BY <1>1, Invariance, PTL

\* An active session always has a pending idle timer (SessionManager.updateSessionState,
\* touchSession, endSession).
THEOREM ActivityIsTimed == Spec => []ActiveSessionIsTimed
<1>1. IInv /\ Adapter!IInv => ActiveSessionIsTimed
  BY DEF IInv
<1> QED
  BY <1>1, Invariance, PTL

\* A session that was ended and revived is still due to be forgotten (SessionManager).
THEOREM RecordCorrect == Spec => []RevivedIsForgotten
<1>1. IInv /\ Adapter!IInv => RevivedIsForgotten
  BY DEF IInv
<1> QED
  BY <1>1, Invariance, PTL

\* A recording buffer loses the subscription that ends it only after its file could not
\* be written (SessionRecorder).
THEOREM RecordingCorrect == Spec => []RecordingIsHeard
<1>1. IInv /\ Adapter!IInv => RecordingIsHeard
  BY DEF IInv
<1> QED
  BY <1>1, Invariance, PTL

\* Only the idle timeout can make an open connection's transcripts escape the
\* control engine (offSession in SessionManager.endSession).
THEOREM GovernedCorrect == Spec => []UngovernedOnlyAfterTimeout
<1>1. IInv /\ Adapter!IInv => UngovernedOnlyAfterTimeout
  BY DEF IInv
<1> QED
  BY <1>1, Invariance, PTL
=============================================================================

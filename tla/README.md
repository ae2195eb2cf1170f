# A TLA+ model of voice-jib-jab

voice-jib-jab is a speech-to-speech assistant: a browser streams microphone audio over a
WebSocket to a Node server, which relays it to a realtime speech provider and streams the
answer back. Three "lanes" share one audio output: Lane A plays a short reflex ("mm-hm")
while the provider thinks, Lane B plays the provider's answer, and a policy fallback replaces
the answer when Lane C, the control engine, vetoes it. What is hard in this core is not any
single function but who may speak when: timers, provider messages, client messages and policy
decisions arrive in any order, nothing carries a turn number, and one session object is wired
by callbacks to a dozen others.

Around the core stand services that call back later (webhooks, health checks, callbacks,
telephony, the shutdown), clients that reconnect (two libraries and the page), and some thirty
stores behind the REST API, which keep memory and a file in step and answer with a choice of
what they hold.

All paths below are under `src/`; `server:` abbreviates `server/src/`.

## Inventory

### The core

**Lane arbitrator** (`server:orchestrator/LaneArbitrator.ts`). Keeps the state
(IDLE, LISTENING, A_PLAYING, B_RESPONDING, B_PLAYING, FALLBACK_PLAYING, ENDED), the overlap
guard `responseInProgress`, `suppressLaneBDone`, two timer handles, and a third timer without
a handle (the transition gap). Operations: `startSession`, `endSession`, `onUserSpeechEnded`,
`onLaneBReady`, `onLaneBDone`, `resetResponseInProgress`, `onUserBargeIn`, `onPolicyCancel`,
`onFallbackComplete`. It calls nobody: it emits `play_*`/`stop_*`, `owner_change`,
`response_complete`. Hard: three kinds of timers against nine calls. Correct when one lane owns
the output, the guard agrees with the state, and cycles do not overlap.

**WebSocket handlers, Lane B, adapter messages** (`server:api/websocket.ts`,
`server:lanes/LaneB.ts`, `server:providers/OpenAIRealtimeAdapter.ts`). State: the gates
`audioStopped` and `isResponding`, `firstAudioEmitted`, the adapter's `responding`, its local
audio buffer and `pendingCommit`. They translate client messages (`audio.chunk`, `audio.stop`,
`audio.cancel`, `audio.commit`, `user.barge_in`) and provider messages into arbitrator calls
and requests. Hard: an await inside `audio.commit`; messages of an interrupted response still
on the wire. Correct when what was cancelled stays silent, an answer answers the current
utterance, and the session never waits for an answer that cannot come.

**Session lifecycle** (`server:orchestrator/SessionManager.ts`, `EventBus.ts`,
`server:services/SessionRecorder.ts`, `server:lanes/laneC_control.ts`, `handleConnection`
and `handleClose`). State: the session map with idle timers and five-second removals, the
subscriptions on the global bus. Hard: `offSession` removes everybody's subscriptions; late
handlers revive an ended record; the close may come at any await, also with two
`session.start` waiting; the recorder may fail to write its file. Correct when nothing
outlives the close, and the record is forgotten.

**Provider connection** (`OpenAIRealtimeAdapter.connect`, `disconnect`, `attemptReconnect`,
`updateSessionConfig`). State: `this.ws`, `connected`, `sessionCreated`, `sessionId`,
`reconnectAttempts`, the message queue. Hard: callbacks of every socket write the same fields;
reconnect timers; repeated `session.start`. Correct when there is one connection, it is known,
it works in the mode the client was told, and none survives the client.

**Reflex and fallback playback** (`server:lanes/LaneA.ts`,
`server:insurance/fallback_planner.ts`). State of each: `isPlaying`, one timer handle, a cache
of synthesized audio. Hard: between the command to play and the first chunk lies an await that
`stop()` cannot cancel. Correct when the reflex is heard only with the floor, and the fallback
always gives the floor back.

**Policy pipeline** (`server:insurance/policy_gate.ts`, `opa_*.ts`, `moderation_patterns.ts`,
`server:lanes/laneC_control.ts`). Every transcript runs through three awaited checks; the
override controller makes a decision of the results; the connection plays a fallback, Lane B
collects disclaimers. Hard: evaluations overlap, and one that is cut short overtakes another;
the last decision is one field of the connection. Correct when the gravest finding decides and
the fallback fits the veto that called for it.

### Services and clients

| part | state and operations | what is hard | correct when |
|---|---|---|---|
| Audit trail (`server:insurance/audit_trail.ts`) | a table, a file, a chain of append promises per session, the replay | the cleanup after `session.end` drops whatever link is in the map | lines are in order up to `session.end`, nothing is lost silently |
| Webhooks (`WebhookService.ts`, `WebhookRetryQueue.ts`) | a saved queue, attempts with backoff, dead letters | `processQueue` awaits deliveries of items it took before; passes overlap; crashes | an accepted item is in exactly one place |
| Shutdown (`GracefulShutdown.ts`, `requestTracker.ts`) | phase, count of requests, told sockets, two drains and a force timer | drains race the timer; connections that come meanwhile | a clean exit cuts nobody off, and it does exit |
| Telephony (`SipTelephonyAdapter.ts`, `CallQueueService.ts`) | calls, sessions, queues with metadata | a call that ends or is refused while it is accepted, a bridge started twice; one session enqueued twice | no session outlives its call; queue and metadata agree |
| Voice triggers (`VoiceTriggerService.ts`) | triggers, the connection that came by one | completion by the route and by the session's end | a completion sends the callback, and once |
| Supervisor console (`SupervisorRegistry.ts`) | who watches what, both ways | joins without a session; sockets that close while closing | the two maps agree |
| Health monitor (`HealthMonitorService.ts`) | status, failures, what was announced | rounds of checks overlap | the last announcement tells the state |
| Rate limits (`TenantQuotaService.ts`, `rateLimiter.ts`) | a window and a counter | limits that change within a window | no span holds more than twice the limit |
| Client libraries (`sdk/src/VoiceClient.ts`, `client/src/sdk/VjjClient.ts`) | one socket, promises, timers | everything of an earlier attempt still reports into the same fields | an ended client stays ended, the fields tell the truth |
| Page (`client/src/state/SessionManager.ts`, `audio/*.ts`) | buttons, mode, microphone, player | awaits for the microphone; late answers of the server; `onended` callbacks and a 100 ms timer | the microphone follows the user, one stream plays |

### Stores and reports

Most follow one pattern: a map in memory, changed first, and a JSON file written after it. A
write may fail (the caller gets an error, memory has the change, a restart loses it) and a
process may stop between two writes. What differs is what refers to what and how a choice is
made. The parts are: agent versions and deployments; flows; onboarding; tests between agents;
personas and templates; skills and playbooks; voice profiles, tests and voiceprints; routing
rules, menus and intents; knowledge bases; retrieval; recordings, exports and search; memory
and SQL storage; keys, audit events, tenants and migration; analytics, compliance and audit
reports, service levels, capacity; training data, the demo, the scan for claims. Hard: failed
and torn writes, references to what was deleted, caches read before they were loaded, windows
and pages that cut, and figures of several reports that ought to agree.

PROJECT.json lists every part with its files and status, and the hazards, each at the line
where it bites with the properties that guard it.

## Modules

### Core

`LaneArbitrator` — the class alone, as an open system. One action per public method, with the
whole method in it (clearing of timers, `stop_*` events, owner change), and one per kind of
timer (`TriggerLaneA`, `ReflexTimeout`, `GapExpires`). Each branch of a method with early
returns is a definition of its own (`DoneSuppressed`, `DoneInBPlaying`, ...), in the order of
the code. Timers are named after the response cycle that armed them, so that a timer whose
handle was overwritten (it can no longer be cleared) is told from the current one. `reflexOn`
and `fallbackOn` are what the arbitrator last commanded. `cycle`, `fate`, `floorFor` and
`staleGap` are history that no guard reads.

`Player` — what LaneA and FallbackPlanner have in common, written once: a flag, one timer
handle, an audio request that `stop()` does not cancel. The code has no name for a playback;
the model has, and the point of the module is what happens when the late audio of a stopped
playback finds another one running. `LanePlayback` instantiates it twice, wires both players
to the arbitrator as `setupLaneHandlers` does and drives them from its events; the planner's
`done` event calls `onFallbackComplete` in the same step.

`VoiceSession` — extends `LaneArbitrator` with the WebSocket handlers, Lane B, the adapter and
a provider that is modelled from the messages the adapter exchanges with it (the definitions
marked external). A handler is atomic up to an await that really waits; in this part that is
only the 50 ms safety window of `commitAudio`, so `AudioCommit` is separate from `CommitSent`.
Both wires are sequences. Turns tag messages for the properties; the code has no tag and no
guard of the server reads one.

`RealtimeAdapter` — several sockets for one adapter, whose callbacks all write the same
fields, and the handlers that ask for them (`session.start`, `session.set_mode`,
`session.end`, the close). A socket object that is closed is used again by the model, so that
the number of reconnects is not bounded by the number of sockets.

`SessionLifecycle` — one connection, from `handleConnection` to five seconds after
`handleClose`, composed with `RealtimeAdapter`: each action is an action of that module together
with what the same handler does to the record, the recorder and the subscriptions, or leaves
that module's variables alone. So a repeated `session.start`, its sockets and a reconnect are
those of the adapter and not a sketch of them. `OffSession` takes away every subscription of the
session, as in the code, whoever calls it. `StopRecording` may throw: `flushToDisk` comes before
the buffer is forgotten (`SessionRecorder.ts:159-161`), and `offSession` removes the recorder's
subscription all the same. That error is handled at the close (`websocket.ts:1260`) and by
nobody after `session.end` (`SessionRecorder.ts:302`), where the default of Node would end the
process; the model lets it go on, which is the harder case.

### Services: one part each, composed in `Services`

- `WebhookDelivery`: a pass is split at its awaits; several passes hold the items they took.
  Saves, restarts from what was saved, dead letters and redrives.
- `Shutdown`: the signal, the drain of requests and of sockets one after the other, with the
  clock that ends each, the timer that forces the exit, and requests and clients that come and
  go meanwhile.
- `SipBridge`, `CallQueue`, `VoiceTrigger`, `SupervisorConsole`, `HealthMonitor`: one action
  per method, message or timer; the accept of a call and a health check are split at their
  awaits. An accept may be rejected, which nobody handles. `start()` has no guard, so the
  listeners of the bridge are counted: with two, every call is handled twice.
- `AuditTrail`: each append is a link `[event, after, state]`; `tail` is the entry of
  `writeQueues`.
- `RateLimit`: both limiters, which have the same algorithm, with changing limits. What was
  granted at which time is history.
- `PolicyPipeline`: a text is the set of what the checks look for in it. `RunCheck` is one
  check of one evaluation, `Decide` the rest of `evaluate` with the override controller and
  the connection's handler.
- `VoiceClient`, `VjjClient`: one socket object per attempt, all callbacks of all of them.
  `listening` says whether the application listens for "error": without a listener `emit` throws
  in front of the `reject` (`VjjClient.ts:199,214`), and the promise stays pending.
  `BrowserClient`: the page's session manager, its calls that await the microphone or the
  provider, an `initialize()` that comes back after the call was ended, and the server's
  messages; `echoes` are the `session.mode_changed` that are to come, one for each
  `session.set_mode`, which write the mode whatever the user chose since. `AudioPlayback`:
  sources with their `onended`, and the 100 ms timer. Their histories (`slipped`, `overtaken`)
  are reset when a turn or a playback begins with nothing left over, so that one mishap excuses
  no later turn.

### Stores: one part each, composed in `Stores`

`AgentVersions`, `Flows`, `OnboardingWizard`, `AbTests`, `Offerings` (personas, templates),
`Suggestions` (skills, playbooks), `Voices`, `Routing` (rules, menus, intents), `Knowledge`,
`Retrieval`, `Recordings`, `Memory`, `Tenants` (keys, audit events, migration, validation),
`Reports`, `Workbench` (training data, demo, scan). A route with its checks and the store
method it calls are one action; the file is a variable beside the memory; a failed write and a
restart are actions where a later read could tell. In `Suggestions` a `PATCH` replaces any
fields, the counter and the tenant among them, as the route passes its body whole. In `Retrieval`
each call of the server may fail with its work done or not. In `Recordings` a deletion starts two
removals, which succeed, fail or are cut off independently, and a flush that throws keeps its
buffer. In `Memory` each statement at the start and the end of a session may fail and leave the
later ones out, and `session.start` and `session.end` come again. In `Knowledge` two questions
are the same when their first thirty characters are, without case (`Opening`, given with the
data). Rankings and figures are operators that the
properties compare with their definition; what a filter, a sort and a slice give is in `Ranking`,
where the place of an element is the number of those before it. `Choices` composes the five
stores that answer with a choice (`AbTests`, `Suggestions`, `Routing`, `Knowledge`, `Retrieval`),
`Records` the four that keep or tell what is over (`Recordings`, `Memory`, `Reports`,
`Workbench`), and `Stores` extends both with the others. A store that saves after each change and answers from
memory needs no restart to be understood; where the file can disagree, it has one.

### How the parts are put together

These parts share no variables: what one of them tells another goes through the core or
through data that is an input here. So `Services` and `Stores` are sums: an initial choice
`part` picks the part that runs, and the others keep their initial values. The state space is
the sum of the parts' and not their product, and nothing is lost, because a property of either
module speaks of one part (or of a conjunction of parts) at a time. Several settings
(`threshold`, `opa`, `reconnect`, ...) vary only for the part that reads them. Parts that do
interact are composed for good: the arbitrator with the players in `LanePlayback`, and with
handlers, Lane B, adapter and provider in `VoiceSession`.

`VoiceSession_proofs` (the arbitrator alone, with its players, and with the handlers),
`Services_proofs`, `Choices_proofs`, `Records_proofs` and `Stores_proofs` hold the theorems;
those of `Player`, of `RealtimeAdapter` and of `SessionLifecycle` stand at the end of the module
itself.
`MC_Stores` gives the stores their data; the other parameters fit into the `.cfg`
files.

## Runs

| run | bounds | distinct states | question |
|---|---|---|---|
| `lane_arbitrator` | 4 response cycles | 22 thousand | is the floor ever shared, lost or blocked, whatever is called when |
| `lane_playback` | 2 cycles, 2 playbacks of each player under way, audio of at most 2 chunks | 932 thousand | do the players do what the arbitrator believes of them |
| `voice_session` | 2 turns, 2 chunks, 1 veto, both modes, Lane A on and off, 2 messages per wire | 4.2 million | what does the client hear, and can the session get stuck |
| `voice_live` | as above, 1 chunk, Lane A on, 1 message per wire | 802 thousand | does it listen again |
| `voice_mute` | push-to-talk only | stops at the violation | is the answer to a commit muted |
| `session_lifecycle` | 2 sockets, 1 reconnect, 2 starts, 2 `session.end` | 1.4 million | what outlives a close |
| `session_idle` | policy gate on | stops at the violation | is every transcript evaluated |
| `realtime_adapter` | 3 sockets, 2 reconnects, 2 starts | 955 thousand | one connection, in the right mode, and an answer to every start |
| `adapter_duplicate`, `adapter_mode` | the same | stop at the violation | the two documented promises that fail |
| `services` | `MC_Services.cfg`, see below | 621 thousand | what do the services and clients promise, whatever their callers, timers, crashes and failures do |
| `stores` | `MC_Stores.cfg` and `MC_Stores` | 1.1 million | do references hold, choices follow their ranking, and records agree |

Why the bounds of the core are enough. Every hazard of the arbitrator needs a leftover of one
cycle and one later cycle; four cycles leave room for two leftovers. Two turns are a cancelled
one and the one its leftovers disturb; the message bound of two lets a late message and its
successor be on the wire together. Two playbacks under way are one whose audio is late and one
that it joins. Two reconnects distinguish the first failure, a retry and the limit (five in
the code). The second `session.start` is the one that matters; properties that it breaks say
so (`starts <= 1`). In the lifecycle two sockets, one reconnect and two `session.end` are enough
for a start that is left behind by another, and for a message that comes again while the client's
socket closes. `MaxCycles`, `MaxPlays`, `MaxPieces`, `MaxChunks`, `MaxVetoes`, `MaxWire`,
`MaxStarts` and `MaxEnds` are bounds of the model and not of the code.

`services`. Two items, two overlapping passes, two attempts (the code's limit is a constant, two
tell a retry from the last one), one redrive and one crash; two requests and two clients, drains
of two ticks against a forced exit after four, the proportion of the code's 5 s and 10 s; two
calls, sessions, triggers and tenants, and a bridge started at most twice; three desks and one supervisor who leaves; three events,
one replay, one failure; two subsystems, one registered late, and two rounds of checks; limits of
0 and 2 over a clock of four ticks; three kinds of text for two evaluations that overlap; three
sockets (the attempt that is left over, the one it disturbs and a third); two changes of the mode
that the server has not confirmed, so that an old confirmation meets a new wish; four chunks, two
of which belong to a second playback.

`stores`. Two of each kind of thing that has an owner (tenants, sessions, tests, agents), so
that one may be deleted while the other is referred to; three versions, entries, questions and
samples, so that a middle one exists; data with ties, refusals and boundary values
(`MC_Stores`), among them a menu whose option leads nowhere, a flow that lost its entry, and two
questions that begin alike and differ later; one failed write, one restart where a file is read
again, two `session.end` of one connection, and counters up to `MaxUses`.

`CHECK_DEADLOCK FALSE` stands only where a closed connection, an ended process, or a part whose
bounds are spent really has nothing to do.

### What the properties say

The core:

- One lane owns the output (`OnlyStaleGapBreaksFloor`, `OwnerChain`, `OneCycleAtATime`,
  `GuardMatchesState`): true, with one exception that the property names. The transition-gap
  callback (`LaneArbitrator.ts:239`) has no handle and no guard, so after a barge-in, a veto or
  an early done within its 10 ms it still gives the floor to Lane B. Without Lane A this
  cannot happen.
- Cancelled audio stays silent and audible audio answers the current utterance
  (`CancelledStaysSilent`, `HeardAnswersCurrentTurn`, `DoneEndsItsOwnCycle`), although chunks
  carry no turn. The properties speak of every chunk that is forwarded, not of the first of its
  turn only. The last is stated for an open microphone. The exception of the first two is
  `reopened`: in push-to-talk a commit that finds too little audio is skipped and sets
  `audioStopped = false` (`websocket.ts:1070`), and when that happens in the middle of a cycle,
  after a cancel, what is left of the cancelled answer passes both gates.
- The session never waits in vain (`WaitsOnlyForAnswer`, `ListensAgain`), except for three
  named causes: a commit whose response was never requested because of flags reset in between
  (`OpenAIRealtimeAdapter.ts:628`), one the provider refused, and a done signal swallowed by
  `suppressLaneBDone` although the vetoed response was already done (`LaneArbitrator.ts:262`).
  No timeout guards the wait.
- Playback (`OneStream`, `FallbackHoldsFloor`, `ReflexOnlyWithFloor`, `FallbackEnds`,
  `ImplementsArbitrator`): the floor is never held for a silent fallback, and the fallback
  gives it back. A playback stopped while its audio is fetched joins the next one when that
  audio arrives: two streams, and the end of either ends both. `endSession` and `handleClose`
  do not stop the reflex, which plays on to its end.
- Lifecycle (`NothingOutlivesClose`, `ForgottenAfterClose`, `RevivedIsForgotten`,
  `ActiveSessionIsTimed`, `RecordingIsHeard`, `UngovernedOnlyAfterTimeout`): nothing is left
  behind, whatever the close interrupts, with two exceptions that the properties name. A
  recording that could not be written stays in memory without its subscription. With two
  `session.start` pending the close aborts only the socket in `this.ws`; the other one opens
  afterwards, stays, and starts the arbitrator of a session that is gone.
- Connection (`SoleConnection`, `NothingAfterClose`, `DeafOnlyAfterFailedStart`,
  `ModeReachesProvider`, `StartAnswered`, `Recovers`). `StartAnswered` holds for any number of
  starts: each that awaits a socket of its own gets `provider.ready` or an error, except one
  whose socket fails while another is connected. `this.connected` is shared by all sockets, so
  the error does not reject (`OpenAIRealtimeAdapter.ts:177`) and that `session.start` never
  returns; its second conjunct, proved as `HungCorrect`, says that this takes a second start.

Services and clients. Each is true with the exceptions its definition names, and these are
what a reader should know of the code:

- `Settlement`: an accepted webhook item is waiting, dead, delivered or cleared, and in one of
  these only, unless two passes of `processQueue` held it at once or the process stopped
  between a delivery and the save.
- `Orderly`, `Ends`: exit code 0 means that no response was cut, the count of requests is
  exact, and everyone still connected while the server drains was told. When both drains give
  up (5 s each) the force-exit timer (10 s) is due, so that a process whose drains failed has
  no time to close. It ends in any case.
- `CallersKeepTheirPlace`: a call has at most one voice session, and it does not outlive the
  call. Two kinds of calls are excepted, because the code breaks it for them: one that ended, or
  that `stop()` dropped, while it was being accepted, and one that came to a bridge started
  twice, whose second session replaces the first in the map and leaves it running. Who has
  metadata has a position; a session enqueued twice leaves an entry without metadata, and only
  such an entry makes `getQueueStatus` throw. A trigger's callback is sent exactly when the
  trigger is completed; that the end of its session completes it is documented and not so (see
  below). These are the code's guarantees beside its hazards: the double entry and the early
  call themselves are listed in PROJECT.json as hazards that no property guards.
- `WatchKept`: both maps of the supervisors agree. A check that fails from its very first run
  on is never announced. Subsystems whose rounds overlapped are excepted: an announcement may
  then be lost or repeated.
- `Faithful`: the lines of the audit file are in order up to `session.end`; the cleanup drops
  the link that is then in the map, so later events may overtake each other. A recorded event
  is in the file, on its way, or its append failed.
- `AtMostTwice`: the windows are fixed, so a span of one window's length lets through up to
  twice the limit, however often the limit changes; a limit of 0 lets one through.
- `Governed`: the gravest finding decides; a fallback fits its veto; a required disclaimer
  never reaches the response that required it. That a late decision meets the turn it is about
  is not promised.
- `ClientsSound`: an ended client stays ended and the fields of a client tell the state of its
  socket, unless something of an earlier attempt reported in between (`shadowed`). A `connect()`
  that is pending has its timer, with two exceptions: a connection that closed before it was
  ready, and a failure that the application does not listen for.
- `PageSound`: the microphone is heard only while the button is held or the open microphone is
  on, in every turn that nothing slipped into. What slips in is named: a release that finds
  another state than "talking", a change of the user's mind while a call awaits something, and a
  late `session.mode_changed` that overrules a newer wish and leaves the open microphone open. A
  playback that begins in silence has one source or one timer, and ends silent.

Stores:

- `StoresSound`: steps of the onboarding are settled in order (`Onboarded`), a tenant that runs
  an agent is given a version that exists, also after a restart (`VersionsSound`), sessions
  stand on a node of their flow (`FlowsSound`), personas in force exist and the marketplace
  shows what was asked for (`OfferingsSound`), voice profiles are found by name and a session
  is in one test at a time (`VoicesSound`), a revoked key stays out, the event log has no gap,
  an import is complete (`TenantsSound`).
- `ChoicesSound`: a test's winner earned it (`AbTestsSound`); the best skills and entries come
  first, and a skill's counter is the number of its invocations unless a `PATCH` wrote it
  (`SuggestionsSound`); the best rule wins and a walk stays in its menu (`RoutingSound`); names
  lead to entries, searches show the best, and of questions that begin alike the first is taken,
  whichever way they go on (`KnowledgeSound`); facts come with the disclaimers they call for,
  and a connected store holds the collection of the server, except from a clear that failed once
  its collection was deleted, the answer of the delete lost or not, until the next clear or
  connect that succeeds (`RetrievalSound`).
- `RecordsSound`: sound and description agree unless something fell between the two writes; a
  file left without the other one is about to be removed, or its own removal failed or was cut
  off, and a WAV file left so is in no list and found by no clean-up (`FilesAgree`); exports agree
  with the timeline (`ExportsAgree`, both in `RecordingsSound`). Rows hang together whatever
  fails: a session is summed up at most once for each `session.end` and once at the close, no
  later summary tells less, and what a session that closed lacks is due to a statement that
  failed at its close (`RowsAgree`); a database opens unless a migration was torn
  (`MemorySound`); two reports of the same recordings do not
  contradict each other, but no tenant can reach the certificate (`ReportsSound`); datasets,
  demos and scans tell what happened (`WorkbenchSound`).

Each property has a mutant in PROJECT.json, a plausible bug of the code that the run finds. As
the three properties of `stores` are conjunctions, more mutants were tried by hand and found:
`PutTemplate`, `AssignVoice` and `DeleteKey` for `StoresSound`; `WinnerSuggestion`,
`SuggestSkills`, `ClearTenant` and `PackNotes` for `ChoicesSound`; `DeleteRecording`,
`SaveSummary`, `Heard`, `BuildKubernetesSpec` and `UpdateAnnotationLabel` for `RecordsSound`.

## Disagreements between the code and its documentation

Four are runs that TLC refutes, with the quotation in PROJECT.json:

- `voice_mute`: in push-to-talk `audio.commit` closes the gate that Lane B's answer to that
  commit has to pass, so its audio is not forwarded (`websocket.ts:1048` and `:451`).
- `session_idle`: after an idle timeout the connection keeps working, but the control engine
  no longer hears its transcripts (`SessionManager.ts:121`).
- `adapter_duplicate`: a second `session.start` while the first still connects opens a second
  provider session (`websocket.ts:882`).
- `adapter_mode`: a mode change between the opening of the connection and `session.created` is
  confirmed to the client and never told to the provider (`OpenAIRealtimeAdapter.ts:298`).

Others were met in the rest. Where a formula states the
documented promise it is named; it is not part of a run.

Calls and policy.
- "client is certain no more audio chunks will arrive" once a cancel is acknowledged
  (`websocket.ts:1024-1027`): a commit without audio that follows the cancel opens the gate to
  the chunks still on the wire (`websocket.ts:1070`). TLC finds this when `~reopened` is taken
  out of `CancelledStaysSilent`.
- A supervisor's whisper, and the warning of a claim check, set Lane B's conversation context
  after the connection was made, when nothing sends it to the provider (`LaneB.ts:84,199`,
  `websocket.ts:1319,1334`); the supervisor is told `delivered: true`.
- The callback of a voice trigger is said to be sent when a session completes
  (`VoiceTriggerService.ts:8`); the session of a connection that came by the trigger's address
  does not count (`SessionEndCallsBack`).
- "First non-allow decision wins" (`policy_gate.ts:11`), and "picks the highest-severity decision"
  (`policy_gate.ts:14-15`): the code does the second.
- Self-harm is documented to hand the caller over (`docs/API.md:682`,
  `moderation_patterns.ts:137`), but severity 4 makes the decision `cancel_output`, whose
  fallback refuses politely (`HandedOff`). `safe_rewrite` is used by nothing, though
  `docs/API.md` gives it to Lane B; the disclaimer of an exact claim never wins.
- The rate limits are called sliding (`TenantQuotaService.ts:4,61,180`,
  `rateLimiter.ts:5,25`) and are fixed windows; `checkRateLimit` has no caller.

Clients.
- "will retry on next close" in both libraries: a reconnect that fails has no next close.
  `VjjClient` never settles a `connect()` whose connection closes before it is ready, and the
  timer of an attempt outlives `disconnect()` and closes the socket of the next one. "Rejects if the
  server sends `session.error`" (`VjjClient.ts:137`): without a listener for "error" the emitter
  throws first. A failed
  reconnect of `WebSocketClient` is the last, and `connection.failed` cannot be reached.
- "Stop playback immediately" (`AudioPlayback.ts:121`): `stop()` leaves the 100 ms timer and
  the `onended` callback, and audio that comes right after starts a second chain
  (`StopSilences`).

Stores.
- Deploying a version does not compare the version's agent with the one deployed to. A flow's
  nodes may be replaced without naming the entry, although "entryNodeId must reference an
  existing node"; `endSession` has no route. A menu's root and targets are not validated.
- `AgentAbTestService.getReport` ("Never throws") throws for a variant without scores when the
  minimum is 0; pause and resume reopen a concluded test, which keeps its winner.
  `VoiceAbTestService.assignVoice`, `IntentStore.getMapping` and `SlaMonitor.record` have no
  caller. Deleting a persona leaves its assignments; a change may move one to another tenant
  while it is assigned. "usageCount can only be changed via incrementUsage()" (`SkillStore.ts:195`), but `PATCH` of a
  skill passes its body whole, and all of it is assigned; a negative `maxResults` slices from
  the end. `maxConcurrentSessions` is never applied by `POST /evaluate`.
- After a restart `KnowledgeBaseStore.getEntry`, update and delete answer 404 until the
  entry's tenant was read. `clear()` of the vector store that fails between its two calls
  leaves a stale collection; `DisclaimerLookup` keeps an empty catalogue after a failed read;
  `RetrievalService` drops all disclaimers when they alone are too long.
- A key whose revocation could not be saved is accepted again after a restart; a crash during a
  save empties the file, silently; a rotation is two writes. An event whose append fails is in
  memory only. An import with `overwrite` ("existing items are replaced",
  `TenantConfigMigrator.ts:112`) makes copies. The limits of the system configuration are
  enforced by nothing, and a tenant's policy level is not validated.
- A migration makes its tables and records its name in two statements. `session.end` followed
  by the close writes two summaries, a repeated one more, and the reason "user_ended" is overwritten
  (`websocket.ts:1124,1225`).

Recordings and reports.
- The event `session.start` is emitted inside `createSession` (`SessionManager.ts:46`), before
  the recorder subscribes (`websocket.ts:788`): no timeline has it, though
  `SessionRecorder.ts:81` lists it. With the call quality that nothing writes, three
  requirements of the compliance dashboard never pass, at most 10 of 13 do, and the
  certificate (80 %) and the status "compliant" cannot be reached (`CertificateOutOfReach`).
- The recorder never records the events "sentiment" and "claims.check" that the exports read
  (`SessionExportService.ts:285`, `sessions.ts:94`). A recording ended by `session.end` loses
  its sentiment, although it is to be recorded "before flushing session to disk"
  (`websocket.ts:1233`). A WAV file may be left without its description and the other way
  round; a recording without sound cannot be deleted by its route; search finds partial turns.
- A tenant's compliance report ("Enumerate all sessions for this tenant") filters the first
  page of a hundred; without decisions its rate is 0, in the analytics 1. A path longer than
  ten steps hides a later escalation; the rate of escalations can exceed 100 %. The list that
  `listFullRecordings` is to give is not implemented by the recorder.
- A dataset is to hold an example "for each annotated assistant turn" and holds user turns
  too; its tenant filter does nothing. `POST /demo/start` answers when the playback is over, so
  that the events of an active demo can never be read.

## Assumptions and fairness

The environment. Node runs one callback at a time. A WebSocket delivers in order while it
lives. Timers of equal delay expire in the order they were armed; the 10 ms gap comes before a
150 ms reflex timer armed later; five seconds come before thirty minutes. Chunk timers of the
players may expire in any order. Synthesized audio is not empty. A request for the fallback's
audio ends (`TTS_TIMEOUT_MS`, then a tone); one for the reflex may fail or never end. The
client commits only in push-to-talk (`client/src/components/VoiceInterface.tsx:72`) and sends
`session.start` at every talk until `provider.ready` arrives
(`client/src/state/SessionManager.ts:326`). In push-to-talk the adapter sends
`turn_detection: undefined`, which JSON drops, so the model relies on the provider not
committing by itself. `LanePlayback` takes the planner as enabled: the same flag
(`features.enablePolicyGate`) enables the control engine, the only source of vetoes. Writes of
a file end before the next request is handled where the code uses the synchronous calls, and
may fail; the asynchronous appends of the audit trail and the two writes of a recording may be
overtaken. A database statement is atomic.

Fairness is weak fairness throughout, on what the event loop, the provider or a timer must do
sooner or later: due handlers and timers run (`HandleReply`, `FinishCommit`, `TimerExpires`,
`IdleTimeout`, `Removal`, `Reconnect`), the fallback plays on (`FallbackDone`, `FallbackStep`),
the provider takes requests, creates the response of a VAD turn and finishes an answer, a
closing socket closes and a connection attempt succeeds or fails. The shutdown has its clock
and its force-exit timer (`Tick`, `ForceExit`) and nothing else: requests may hang and clients
stay for ever. Nothing is assumed of the client, of the user, of policy decisions, of webhook
receivers or of subsystems that are checked.

## Proofs

The theorems hold for every value of the constants; the named assumptions only say that bounds
are numbers, settings are Booleans, and that a value that means "none" is not one of the
things.

`VoiceSession_proofs`, its first part: the arbitrator alone. The floor discipline is not inductive: the step of `OnLaneBReady`
is safe only if no old gap is pending for the current cycle, that of a timer only if it
belongs to a cycle that exists. `IInv` adds `StartInv` (before `session.start` nothing has
happened), `LaneAInv` (what belongs to Lane A needs Lane A), `GapInv` (a gap of the current
cycle is armed only after its reflex was stopped) and `CycleInv` (the cycle is live exactly in
the states that serve it). From it follow `TypeCorrect`, `GuardCorrect`, `FloorCorrect`,
`FloorWithoutLaneA`, `OneCycle` and `OwnerChainCorrect`.

`SessionLifecycle`. Every step is one of `RealtimeAdapter` or leaves it alone (`AdapterCorrect`),
so its invariant is at hand. `IInv` adds to the properties how many removals each stage of the
connection allows (`StageInv`), what the close has taken down for good (`ReleasedInv`), and when
the control engine is subscribed (`EngineInv`). The arbitrator of a closed session stays ended
because after one `session.start` no socket is left that could still open, which is the adapter's
part. All safety invariants of the run follow.

`Player` proves its own invariant once, action by action, under the hypothesis that its bounds
are numbers; the second part of `VoiceSession_proofs` instantiates it for both players.
`FallbackHoldsFloor` needs the invariant that a playing fallback was commanded and not
completed, and `ReflexOnlyWithFloor` that a playing reflex was commanded. `Refinement` shows
that every step of the composition is a step of `LaneArbitrator` or a stutter; in particular
`onFallbackComplete` is called only while the fallback is on, which the arbitrator's module
assumes of its environment. What is proved of the arbitrator therefore holds of the
composition.

`RealtimeAdapter`. `IInv` says, beside the types, which flags go with which (`Flags`),
that an adapter with a live socket has a session named (`NamedWithSocket`), that nothing is
there before the first start (`NothingStarted`), that one start has one socket and knows it
(`OneSocket`), and what an idle adapter awaits (`IdleAwaits`). The four safety invariants of
the run follow for any number of sockets, reconnects and starts.

`VoiceSession_proofs`, its last part. A step of the session is a step of the arbitrator or leaves it alone
(`VoiceStepsArbitrator`), so what is proved of `LaneArbitrator` holds here, and `VInv` adds what
the handlers, Lane B, the adapter, the provider and both wires have to do with it:
- `TurnInv`: no message, commit or cycle is of a turn that does not exist yet;
- `ModeInv`: with an open microphone the client commits nothing and an answer is lost only when
  its done signal is swallowed; in push-to-talk the provider commits nothing by itself;
- `SkipInv`: a commit about to be skipped belongs to a cycle that still waits, so that taking the
  cycle back loses no answer;
- `AnswerInv`: for a live cycle whose answer was not lost something of that very turn is under
  way: a commit, a request, a response, or a message of either wire. `WaitsOnlyForAnswer` is
  weaker, but does not survive a step on its own, because what moves one turn on would leave
  another one waiting;
- `OpenMicInv`: with an open microphone the provider works on the last turn only, and the replies
  on the wire are in the order of their turns, each turn's done last and none of a turn before
  the cycle's. `DoneEndsItsOwnCycle` follows from it;
- `GateInv`: a cycle in push-to-talk, and one whose turn was cancelled, has its gate closed for
  as long as it lives, unless a skipped commit has opened it. With `OpenMicInv` the two
  properties about what is heard follow. In push-to-talk they say no more than `voice_mute`
  does: without a skipped commit nothing of an answer is heard at all.

The wires are sequences; `OnTail`, `OnConcat`, `OrderedTail` and `OrderedConcat` say what
receiving and sending does to the set of messages and to their order.

`Services_proofs`. A step of `Services` is one of each part or leaves it alone (`PartsStep`), so
each part has an invariant of its own:
- `OrderlyInv`: the count is the number of responses under way (`CountIsExact`, which needs that
  a response decrements once), a socket that a closed target released stays released
  (`ClosedStayReleased`), who is connected while the server drains was told, and the clock is
  past the deadlines of the drains that gave up (`TimeIsSpent`). The hypothesis
  `ForceAfter <= DrainFor + DrainFor` is what the code's 10 s and twice 5 s satisfy;
- `BridgeInv`: a call that is neither `early` nor `doubled` has one acceptance under way or one
  session, and then it is up and the bridge listens (`OneSession`);
- `QueueInv`: where the metadata of a session points, it has exactly one entry that is not of a
  double enqueue (`MetaIsPlace`, `OnePlaceEach`); the position is then the least place, which
  exists by well-founded induction;
- `ConsoleInv`: who is not connected watches nothing;
- `HealthInv`: a subsystem whose rounds never overlapped has at most one round under way, which
  saw the present state (`OneRun`), and its failures fit its status (`CountFits`);
- `LibraryInv` and `SdkInv`: attempts are numbered without gaps, so the next socket is new, and
  an attempt that is undecided still connects (`UndecidedConnects`);
- `BrowserInv`: a call that awaits the microphone or the provider was made by the button or
  mode that is still in force, and the state "talking" has its button or open microphone, unless
  something slipped (`CallsFollowUser`). A turn that begins quiet establishes it anew, which is
  what allows the history to be reset;
- `PlayerInv`: a playback that is not overtaken has exactly one callback that goes on with it
  (`GoesOn`), and beside it no stopped source that would call back;
- `AuditInv`: a link waits exactly while the one it follows is not settled, and until the
  append of `session.end` is over the links of a session that is not replayed are one chain in
  the order of the events, of which the file holds a settled part (`OneChain`);
- `WebhookInv`: every accepted event is accounted for by the memory and by the file alike
  (`Accounted`, `AccountedOnDisk`: the second is what a restart needs). As long as the server has
  not stopped, an event that no two passes shared is in one place (`InOnePlace`), and what a pass
  still has to do is in the queue and in no other pass (`InOneHand`): `removeFromQueue` goes by
  the item, so without it the removal could hit another entry. `OneTakenOut` says what a sequence
  without one place is; the queue of callers uses it too;
- `RateInv`: a span that begins in the window under way holds no more than the requests counted
  in it, one that began earlier and reaches into it no more than one window's requests more
  (`WindowFits`). `granted` counts per span, not per tick, so that the bound needs no sum;
- `PolicyInv`: the best result so far is that of a check that was run and none that was run
  outranks it (`BestOfRun`); who requires a disclaimer is the whole of a response that has been
  spoken (`WrittenBefore`), so its own transcript went out before. `RanksAreOrdered` shows that
  the comparison of results is an order, without which the running best would not be the best.

Assumed: the bounds `MaxRedrives`, `MaxTexts`, `MaxTime`, the length of a window and the limits
are numbers. Nothing is assumed of the number of events, webhooks, passes, attempts or restarts.

`Stores_proofs`. Again a step is one of each store or leaves it alone, and each has its invariant:
- `WizardInv`: the steps before the current one are settled, in memory and in the file
  (`Settled`), and unless something disturbed the page, the page, the requests under way and the
  session are in step (`InStep`);
- `VersionInv`: in memory and in the file the numbers of an agent's versions follow their age,
  what is deployed is there, and a canary is not the active version (`SoundVersions`).
  `NumberIsNew` shows that one more than the greatest number is taken by nobody;
- `FlowInv`: who has not started is not over, and a flow in the file that no update left without
  its entry has one. Its parameter is any set of nodes that holds those of the graphs and not
  the mark of who stands nowhere;
- `OfferInv`: an assigned persona was there once, and what is on the marketplace was published;
- `VoiceInv`: when a session was put in a test the earlier ones were over (`EarlierAreOver`);
- `TenantInv`: a key that was not made has no history (`KeyInv`); the log in memory is the end of
  all events and an open stream a run of them, which `LastOfAppended`, `RunOfAppended` and
  `EndIsRun` carry over one more event (`EventLogInv`); every name given is below the next one,
  and the copies of an import are numbered without a gap, however many there are
  (`CopiesAreNumbered`, `ItemInv`).

Assumed: bounds and distances are numbers, and the built-in template is not one a tenant made.

`Choices_proofs`. `ChoicesSound` says of every state that what would be answered in it is what the
ranking promises, so it is proved in two halves. The first is an inductive invariant for each
store:
- `AbInv`: everybody was sent where the hash and the test's share say, nobody is left of a test
  that is gone, and a verdict was earned when it was given (what may change the scores later is
  `touched`);
- `HintInv`: a skill's counter agrees with the invocations that were answered, for every skill
  whose counter was not overwritten, whatever else a `PATCH` replaced;
- `RouteInv`: nobody stands in a menu that is not there, and every log names an intent and a scope;
- `KnownInv`: what is in memory, in the file or deleted was added once, which is what keeps a
  deleted entry from coming back; `ReadIsChanged` and `KnownIsKept` say what reading a tenant and
  writing it whole do to that;
- `RetrievalInv`: a store that is connected holds the collection that is on the server, except
  between the two calls of a clear and after one that failed there.

The second half is about the operators, for finite sets of any size:
- rankings: in a strict order the numbers of elements below are all different
  (`BelowGrows`), so each place is taken exactly once (`PlacesAreTaken`), `Ranked` is a ranking in
  the order (`RankedIsRanking`, `RankingIsInOrder`), and its first elements have the most
  (`FirstHaveMost`). `HintsAreBest`, `LiveSearchShowsBest`, `RulesAreTried`, `FoundAreSources` and
  `FaqsComeFirst` say so of what each store ranks;
- sums: `SumFunctionOnSet` is a fold, defined by a recursive function on the subsets of a set;
  that such a function exists (`SumsExist`) and that any element may be taken first (`SumOfAny`)
  is proved by counterexamples of least size, with the least number of a set of naturals from
  `WFMin`, because the induction theorems of the library cannot be instantiated. Then a sum
  splits (`SumSplits`), is bounded (`SumIsBounded`) and grows with its set (`SumGrows`). An
  average that leads by two points has a pair of scores that does (`SomePairLeads`), a pack grows
  until it would pass its cap (`PackIsSound`), and the counts of a log add up to its length
  (`EachIsCounted`, `LogsAreAll`).

`ChoicesAssumption` (TLC evaluates it in the run `stores`) says what kind of values the constants
are: finitely many visitors, words, entries and facts, hashes in 0..999 as `hashVariant` gives
them, priorities and scores that are integers, menus that name a root, at least one intent. Facts
with the same name are the same fact. `Stores_proofs` adds that the stores take only steps of
`ChoicesSpec` (`StoresChoose`), so that the invariant of the run `stores` is what is proved.

`Records_proofs`. `RecordsSound` too is proved in two halves. `RecordsInv` is inductive; its parts
share no state, so each is kept by itself, whichever of the others move in the same step:
- `TapeInv`: the sound of a session and its description agree while a write is under way, with
  what is still to be written, and with what became of each removal: as long as both files are
  there either both removals were begun or neither (`AudioInv`); the counts of a buffer are those
  of its entries, also in the file (`TimelineInv`). `EventIsCounted` is the step, one more entry;
- `MemoryInv`: tables are there as their migrations were recorded (`SchemaInv`), no fact
  is remembered for two tenants (`FactsInv`), and of every connection the rows say who it was, how often
  it spoke and what came of it (`SessionsInv`). What was told of earlier sessions when a user came
  back has to stay true while others end and turns are saved (`ToldStaysTrue`);
- `ReportInv`: a file holds what was heard of one of the calls, never its start (`FilesInv`); a
  kept report stays right although its recordings may be deleted (`AuditsInv`: it says what it
  counted and does not look again); the samples are the end of what was measured and lack nothing
  of the window (`LatencyInv`); the last plan carries the last load (`PlanInv`);
- `BenchInv`: no two annotations have one number (`NotedInv`), the counts of a dataset are those of
  its examples and no example is its own prior turn (`DatasetsInv`), the events of a demo are those
  of the turns it has played and its counters are theirs (`DemoInv`), and what a scan says fits
  the status of its claims (`ScanInv`).

The second half is again about operators, for any number of recordings: what a filter keeps is in
order and counted once (`PickedInOrder`, `PickedAreCounted`), one more element at the end is kept
last or not at all (`PickedOfAppend`), and sums of groups add up to the sum of all
(`GroupsAddUp`, `ThoseAddUp`, by counterexamples of least size, as above). That is why tenants,
months and decisions add up to the totals (`TenantsAlwaysAgree`), topics to the sessions and
questions to what was said (`SessionsAlwaysAgree`: with fewer than ten sessions there are no more
than nine questions, so the cut to twenty takes none away), bands to the sessions of an audit
report (`AuditsAlwaysAddUp`) and statuses to the tenants. `CertificateStaysOutOfReach` counts the
requirements that can hold at once: ten of thirteen. `ComparisonAlwaysIsFair` needs that a set of
sessions has one most frequent mood, whatever the ties, and that a percentile is a duration.

`RecordsAssumption` (TLC evaluates it in the run `stores`) says what the code gives: a client that
names a user, calls of a named tenant whose own events follow the start, finitely many tenants,
statuses of claims that are among the seven of the code, and numbers for times, loads, turns and
bounds; of the facts told at least one is shown. `Stores_proofs` adds that the stores take only
steps of `RecordsSpec` (`StoresRecord`).

So every safety and action property of the passing runs is stated by a theorem. Only
model-checked are the liveness properties (`ListensAgain`, `FallbackEnds`, `ForgottenAfterClose`,
`StartAnswered`, of which the safety half is proved, `Recovers`, `Ends`), since the proof system
does not reason about fairness with ENABLED here, and the four runs that refute what is
documented.

## Not modelled

Within the modelled parts: `session.set_mode` during a turn, transcripts and RAG instructions
in `VoiceSession`; the loss of the provider connection in the middle of a response (the
arbitrator then keeps waiting) and a provider close with code 1000 (reported to nobody), a
hazard without a property, as are a double enqueue, a call that ends while it is accepted, and
checks that overlap, which the properties except; the queueing of messages other than `session.update`; which
phrase, mode or voice a player chooses, its cache and preloading; patterns, similarity and
redaction of texts; RTP frames, codecs and tones; resampling; the React hook around the client
class; weights of the quality score and trends by hour; metrics and logs.

Whole parts: the latency budget and the profiler measure and decide nothing; speech synthesis,
language detection, translation and tickets are calls to engines that keep nothing; the
generated pages and the routes that only pass a request on hold no state of the server.

## What is left

The loss of the provider connection inside `VoiceSession`, with what the arbitrator then waits
for; the parts listed as not modelled. Of what is modelled, nothing but liveness is unproved.

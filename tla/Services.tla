------------------------------ MODULE Services ------------------------------
(* What surrounds the voice session: the services of the server, and its     *)
(* clients. Each is a module of its own and none reads a variable of another *)
(* one, so a step of one changes nothing that a property of another is about *)
(* and a behaviour of all of them is a behaviour of each, with stutters. It  *)
(* is enough to let one run at a time: `part` names it.                      *)
CONSTANTS Items, Hooks, Passes, MaxAttempts, MaxRedrives, MaxCrashes, Requests, Clients,
          Supervisors, Desks, ForceAfter, DrainFor, Calls, MaxStarts, Sessions, Tenants, NoTenant,
          MaxLength, NoSession, Triggers, Visits, MaxEvents, MaxReplays, MaxFailures,
          Subsystems, Late, Rounds, MaxUnhealthy, RouteMax, Limits, Window, MaxTime,
          MaxPerTick, Contents, MaxTexts, MaxResponses, MaxSockets, MaxEchoes, MaxChunks

VARIABLES part,         \* the part that runs
          active, webhookQueue, dead, tries, passes, webhookDisk, redrives, crashes,
          accepted, webhookOverlapped, webhookSettled, cleared,
          phase, clock, deadline, request, count, drainSocket, draining, told, closing,
          exit, timedOut,
          listeners, sipCall, accepting, sessions, alive, early, doubled,
          queues, meta, requeued,
          consoleSocket, watching, watchers, joinedNothing,
          triggerStatus, pending, triggerOpen, visits, closed, posted,
          events, ends, table, links, tail, file, replay, replays, auditFailures,
          threshold, healthRunning, known, healthStatus, healthFailures, begun,
          announced, healthOverlapped, quiet,
          now, entry, quota, rateAsked, granted, highest,
          opa, texts, done, best, decision, last, lane, policyMode, response, answer,
          responding, cancelling, required, carried,
          autoReconnect, libraryState, libraryWs, librarySocket, libraryAttached,
          libraryTimers, connectTimer, libraryPromise, resolver, libraryReconnectTimer,
          overlap, libraryEnded,
          reconnect, listening, sdkState, sdkWs, sdkSocket, sdkAsked, sdkAttached, sdkSettled,
          sdkTimers, sdkPromise, sdkReconnectTimer, shadowed, sdkEnded,
          browserState, online, browserMode, openMicActive, playing, micReady,
          capturing, provider, pressed, browserCall, settingUp, echoes, slipped,
          playerOpen, received, playerQueue, isPlaying, started, sounding,
          playerCurrent, stopped, waits, overtaken

Webhooks == INSTANCE WebhookDelivery WITH
  queue <- webhookQueue, disk <- webhookDisk, overlapped <- webhookOverlapped,
  settled <- webhookSettled
Shutdown == INSTANCE Shutdown WITH
  socket <- drainSocket
Bridge == INSTANCE SipBridge WITH
  call <- sipCall
Queue == INSTANCE CallQueue
Console == INSTANCE SupervisorConsole WITH
  Supervisors <- Desks, socket <- consoleSocket
Callbacks == INSTANCE VoiceTrigger WITH
  Connections <- Visits, status <- triggerStatus, open <- triggerOpen
Audit == INSTANCE AuditTrail WITH
  failures <- auditFailures
Health == INSTANCE HealthMonitor WITH
  Checks <- Subsystems, running <- healthRunning,
  status <- healthStatus, failures <- healthFailures,
  overlapped <- healthOverlapped, MaxFailures <- MaxUnhealthy
Rates == INSTANCE RateLimit WITH
  asked <- rateAsked
Policy == INSTANCE PolicyPipeline WITH
  mode <- policyMode
Library == INSTANCE VoiceClient WITH
  state <- libraryState, ws <- libraryWs, socket <- librarySocket,
  attached <- libraryAttached, timers <- libraryTimers, promise <- libraryPromise,
  reconnectTimer <- libraryReconnectTimer, ended <- libraryEnded
Sdk == INSTANCE VjjClient WITH
  state <- sdkState, ws <- sdkWs, socket <- sdkSocket, asked <- sdkAsked,
  attached <- sdkAttached, settled <- sdkSettled, timers <- sdkTimers,
  promise <- sdkPromise, reconnectTimer <- sdkReconnectTimer, ended <- sdkEnded
Browser == INSTANCE BrowserClient WITH
  state <- browserState, mode <- browserMode, call <- browserCall
Player == INSTANCE AudioPlayback WITH
  open <- playerOpen, queue <- playerQueue, current <- playerCurrent

Parts == {"webhooks", "shutdown", "bridge", "queue", "console", "triggers", "audit",
          "health", "rates", "policy", "library", "sdk", "browser", "player"}

webhooksVars == <<active, webhookQueue, dead, tries, passes, webhookDisk, redrives,
  crashes, accepted, webhookOverlapped, webhookSettled, cleared>>
shutdownVars == <<phase, clock, deadline, request, count, drainSocket, draining, told,
  closing, exit, timedOut>>
bridgeVars == <<listeners, sipCall, accepting, sessions, alive, early, doubled>>
queueVars == <<queues, meta, requeued>>
consoleVars == <<consoleSocket, watching, watchers, joinedNothing>>
callbacksVars == <<triggerStatus, pending, triggerOpen, visits, closed, posted>>
auditVars == <<events, ends, table, links, tail, file, replay, replays, auditFailures>>
healthVars == <<threshold, healthRunning, known, healthStatus, healthFailures, begun,
  announced, healthOverlapped, quiet>>
ratesVars == <<now, entry, quota, rateAsked, granted, highest>>
policyVars == <<opa, texts, done, best, decision, last, lane, policyMode, response,
  answer, responding, cancelling, required, carried>>
libraryVars == <<autoReconnect, libraryState, libraryWs, librarySocket, libraryAttached,
  libraryTimers, connectTimer, libraryPromise, resolver, libraryReconnectTimer, overlap,
  libraryEnded>>
sdkVars == <<reconnect, listening, sdkState, sdkWs, sdkSocket, sdkAsked, sdkAttached, sdkSettled,
  sdkTimers, sdkPromise, sdkReconnectTimer, shadowed, sdkEnded>>
browserVars == <<browserState, online, browserMode, openMicActive, playing, micReady,
  capturing, provider, pressed, browserCall, settingUp, echoes, slipped>>
playerVars == <<playerOpen, received, playerQueue, isPlaying, started, sounding,
  playerCurrent, stopped, waits, overtaken>>
vars == <<part, webhooksVars, shutdownVars, bridgeVars, queueVars, consoleVars,
          callbacksVars, auditVars, healthVars, ratesVars, policyVars,
          libraryVars, sdkVars, browserVars, playerVars>>

\* What a part may find at its start is left open to that part only.
Init ==
  /\ part \in Parts
  /\ Webhooks!Init
  /\ Shutdown!Init
  /\ Bridge!Init
  /\ Queue!Init
  /\ Console!Init
  /\ Callbacks!Init
  /\ Audit!Init
  /\ Health!Init
  /\ Rates!Init
  /\ Policy!Init
  /\ Library!Init
  /\ Sdk!Init
  /\ Browser!Init
  /\ Player!Init
  /\ part # "health" => threshold = 1
  /\ part # "policy" => opa
  /\ part # "library" => autoReconnect
  /\ part # "sdk" => reconnect /\ listening

Next ==
  /\ UNCHANGED part
  /\ IF part = "webhooks" THEN Webhooks!Next ELSE UNCHANGED webhooksVars
  /\ IF part = "shutdown" THEN Shutdown!Next ELSE UNCHANGED shutdownVars
  /\ IF part = "bridge" THEN Bridge!Next ELSE UNCHANGED bridgeVars
  /\ IF part = "queue" THEN Queue!Next ELSE UNCHANGED queueVars
  /\ IF part = "console" THEN Console!Next ELSE UNCHANGED consoleVars
  /\ IF part = "triggers" THEN Callbacks!Next ELSE UNCHANGED callbacksVars
  /\ IF part = "audit" THEN Audit!Next ELSE UNCHANGED auditVars
  /\ IF part = "health" THEN Health!Next ELSE UNCHANGED healthVars
  /\ IF part = "rates" THEN Rates!Next ELSE UNCHANGED ratesVars
  /\ IF part = "policy" THEN Policy!Next ELSE UNCHANGED policyVars
  /\ IF part = "library" THEN Library!Next ELSE UNCHANGED libraryVars
  /\ IF part = "sdk" THEN Sdk!Next ELSE UNCHANGED sdkVars
  /\ IF part = "browser" THEN Browser!Next ELSE UNCHANGED browserVars
  /\ IF part = "player" THEN Player!Next ELSE UNCHANGED playerVars

\* Only the shutdown promises to end, by its clock and its timer.
Spec == Init /\ [][Next]_vars /\ Shutdown!Fairness

-----------------------------------------------------------------------------
\* Webhooks: every event that was accepted for delivery is accounted for, in one place.
Settlement == Webhooks!Settlement

\* Shutdown: a process that exits cleanly has cut nobody off, has counted its requests
\* exactly and has told every client it kept connected.
Orderly == Shutdown!Orderly

\* A process that was told to stop ends, although clients may stay for ever.
Ends == Shutdown!Ends

\* Callers. A telephone call's voice session is known to the bridge and does not outlive
\* the call, unless the call ended while it was being accepted or the bridge was started
\* twice. A caller with metadata has a position in its queue, and a queue whose status
\* cannot be read holds a session that was enqueued while it waited. The callback of a
\* trigger is sent when the trigger is completed, once; that the end of its session
\* completes it is not said here and is not so (SessionEndCallsBack of VoiceTrigger).
CallersKeepTheirPlace ==
  Bridge!NoOrphanSession /\ Queue!EveryoneHasAPlace /\ Callbacks!CalledBackOnce

\* Operators: a supervisor hears the session last joined and no other, and what the
\* health monitor announced last is the state of the subsystem.
WatchKept == Console!Watched /\ Health!Announced

\* Audit: what is recorded is neither lost nor, up to the end of a session, reordered.
Faithful == Audit!Faithful

\* Limits: no span of a window lets through more than twice the highest limit.
AtMostTwice == Rates!AtMostTwice

\* Policy: each transcript is decided by its gravest finding, however evaluations
\* overlap, a fallback fits the veto that called for it, and no response carries the
\* disclaimer that its own words require.
Governed == Policy!Governed

\* Client libraries: what was ended stays ended, and the fields tell the truth, as long
\* as no attempt to connect overlaps what is left of an earlier one; and what connect()
\* returned is answered, with the exceptions that PendingIsTimed of VjjClient names.
ClientsSound == Library!Sound /\ Sdk!ClientSound

\* Browser: the microphone follows the user in every turn that nothing slipped into, and
\* a playback that begins when nothing of an earlier one is to come has one stream.
PageSound == Browser!Discreet /\ Player!OneStream
=============================================================================

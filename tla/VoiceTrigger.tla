---------------------------- MODULE VoiceTrigger ----------------------------
(* Voice sessions requested by a webhook (services/VoiceTriggerService.ts,   *)
(* api/voice.ts) and the voice connections that should fulfil them           *)
(* (api/websocket.ts). A trigger allocates the id of its session and hands   *)
(* out an address that carries it; the voice server gives every connection   *)
(* an id of its own. `visits`, `closed` and `posted` are history.            *)
EXTENDS Naturals, FiniteSets

CONSTANTS Triggers,
          Connections   \* voice connections, named by the id the server gives them

VARIABLES status,       \* TriggerRecord.status, "none" before it is made
          pending,      \* pendingBySession, by the trigger whose session it is
          open,         \* voice connections
          visits,       \* which trigger's address a connection came by
          closed,       \* connections that have ended
          posted        \* how often a trigger's callbackUrl was called

vars == <<status, pending, open, visits, closed, posted>>

Init ==
  /\ status = [t \in Triggers |-> "none"]
  /\ pending = {} /\ open = {}
  /\ visits = [c \in Connections |-> {}]
  /\ closed = {}
  /\ posted = [t \in Triggers |-> 0]

\* POST /voice/trigger, with a phone number and a trunk to call it by, or without.
CreateTrigger(t) ==
  /\ status[t] = "none"
  /\ \E kind \in {"pending_ws", "pending_sip"} : status' = [status EXCEPT ![t] = kind]
  /\ pending' = pending \union {t}
  /\ UNCHANGED <<open, visits, closed, posted>>

\* No caller in the server; the tests call it.
ActivateTrigger(t) ==
  /\ t \in pending
  /\ status' = [status EXCEPT ![t] = "active"]
  /\ UNCHANGED <<pending, open, visits, closed, posted>>

\* completeTrigger: the record leaves pendingBySession before its callback is sent,
\* so it happens once. The callback is not awaited and its failure is ignored.
Complete(t) ==
  IF t \in pending
  THEN /\ status' = [status EXCEPT ![t] = "completed"]
       /\ pending' = pending \ {t}
       /\ posted' = [posted EXCEPT ![t] = @ + 1]
  ELSE UNCHANGED <<status, pending, posted>>

\* POST /voice/triggers/:triggerId/complete
CompleteRoute(t) ==
  /\ status[t] # "none"
  /\ Complete(t)
  /\ UNCHANGED <<open, visits, closed>>

\* The id by which the server knows a connection: createSession() makes a new one and
\* reads nothing of the address.
SessionId(c) == c

Connect(c) ==
  /\ c \notin open \union closed
  /\ open' = open \union {c}
  /\ \E came \in {{}} \union {{t} : t \in {u \in Triggers : status[u] = "pending_ws"}} :
       visits' = [visits EXCEPT ![c] = came]
  /\ UNCHANGED <<status, pending, closed, posted>>

\* handleClose completes the trigger that is pending for the id of its session.
Disconnect(c) ==
  /\ c \in open
  /\ open' = open \ {c}
  /\ closed' = closed \union {c}
  /\ IF SessionId(c) \in pending
     THEN Complete(SessionId(c))
     ELSE UNCHANGED <<status, pending, posted>>
  /\ UNCHANGED visits

Next ==
  \/ \E t \in Triggers : CreateTrigger(t) \/ ActivateTrigger(t) \/ CompleteRoute(t)
  \/ \E c \in Connections : Connect(c) \/ Disconnect(c)

Spec == Init /\ [][Next]_vars

\* A trigger is completed once: its callback is called exactly when it leaves the
\* pending ones, however often it is completed, and a completed one is not revived.
CalledBackOnce ==
  \A t \in Triggers :
    /\ posted[t] = IF status[t] = "completed" THEN 1 ELSE 0
    /\ t \in pending <=> status[t] \notin {"none", "completed"}

\* VoiceTriggerService.ts:8 says that the callback is sent when a session completes.
\* The session of a connection that came by the trigger's address does not count.
SessionEndCallsBack ==
  \A c \in closed, t \in Triggers : t \in visits[c] => posted[t] > 0
=============================================================================

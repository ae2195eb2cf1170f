----------------------------- MODULE SipBridge -----------------------------
(* SipBridgeService and the adapter it is given                              *)
(* (providers/SipTelephonyAdapter.ts). The bridge accepts an inbound call,   *)
(* waits for the acceptance, and makes the voice session of the call when it *)
(* has come; hangups and stop() do not know of calls that are being          *)
(* accepted. A bridge that is started twice handles every call twice.        *)
(* `early` and `doubled` are history.                                        *)
EXTENDS Naturals

CONSTANTS Calls,
          MaxStarts     \* bound: start()s that no stop() has taken back

VARIABLES listeners,    \* how often the bridge's listeners are on the adapter
          call,         \* a call, as the adapter and the caller see it
          accepting,    \* how many accept()s of a call have not been answered
          sessions,     \* SipBridgeService._sessions, by call
          alive,        \* how many voice sessions of a call have not been told to end()
          early,        \* calls over, or dropped by stop(), while being accepted
          doubled       \* calls that were handled more than once

vars == <<listeners, call, accepting, sessions, alive, early, doubled>>

Init ==
  /\ listeners = 0
  /\ call = [c \in Calls |-> "none"]
  /\ accepting = [c \in Calls |-> 0] /\ alive = [c \in Calls |-> 0]
  /\ sessions = {} /\ early = {} /\ doubled = {}

Start ==
  /\ listeners < MaxStarts
  /\ listeners' = listeners + 1
  /\ UNCHANGED <<call, accepting, sessions, alive, early, doubled>>

\* The adapter reports an INVITE; without listeners nobody accepts it.
Invite(c) ==
  /\ call[c] = "none"
  /\ call' = [call EXCEPT ![c] = "up"]
  /\ accepting' = [accepting EXCEPT ![c] = listeners]
  /\ doubled' = IF listeners > 1 THEN doubled \union {c} ELSE doubled
  /\ UNCHANGED <<listeners, sessions, alive, early>>

\* accept() resolves: a session is made, whatever happened to the call or to the bridge
\* in between, and takes the place of another one of the call.
Accepted(c) ==
  /\ accepting[c] > 0
  /\ accepting' = [accepting EXCEPT ![c] = @ - 1]
  /\ sessions' = sessions \union {c}
  /\ alive' = [alive EXCEPT ![c] = @ + 1]
  /\ UNCHANGED <<listeners, call, early, doubled>>

\* accept() rejects, which nobody handles: the call has no session.
AcceptFails(c) ==
  /\ accepting[c] > 0
  /\ accepting' = [accepting EXCEPT ![c] = @ - 1]
  /\ UNCHANGED <<listeners, call, sessions, alive, early, doubled>>

\* The sessions of these calls that the bridge finds are told to end.
EndSessions(found) ==
  /\ sessions' = sessions \ found
  /\ alive' = [c \in Calls |-> IF c \in found \intersect sessions THEN alive[c] - 1 ELSE alive[c]]

\* The remote party hangs up.
Hangup(c) ==
  /\ call[c] = "up"
  /\ call' = [call EXCEPT ![c] = "over"]
  /\ EndSessions(IF listeners > 0 THEN {c} ELSE {})
  /\ early' = IF accepting[c] > 0 THEN early \union {c} ELSE early
  /\ UNCHANGED <<listeners, accepting, doubled>>

\* The listeners of one start() go, and the adapter hangs up every call.
Leave ==
  /\ listeners' = IF listeners > 0 THEN listeners - 1 ELSE 0
  /\ call' = [c \in Calls |-> IF call[c] = "up" THEN "over" ELSE call[c]]
  /\ early' = early \union {c \in Calls : accepting[c] > 0}
  /\ UNCHANGED <<accepting, doubled>>

\* Mutant: the sessions are left to the hangups, which nobody hears any more.
StopByHangup == Leave /\ UNCHANGED <<sessions, alive>>

\* stop(): the listeners go first, the sessions end, and then the adapter hangs up
\* the calls that are left.
Stop == Leave /\ EndSessions(sessions)

Next ==
  \/ Start \/ Stop
  \/ \E c \in Calls : Invite(c) \/ Accepted(c) \/ AcceptFails(c) \/ Hangup(c)

Spec == Init /\ [][Next]_vars

\* A call has at most one voice session, which the bridge knows and which does not outlive
\* the call, whether the caller hangs up or the bridge stops. Two kinds of calls are
\* excepted: one that ended, or that stop() dropped, while it was being accepted, and one
\* that came while the bridge had been started more than once.
NoOrphanSession ==
  \A c \in Calls \ (early \union doubled) :
    /\ alive[c] = IF c \in sessions THEN 1 ELSE 0
    /\ c \in sessions => call[c] = "up"
=============================================================================

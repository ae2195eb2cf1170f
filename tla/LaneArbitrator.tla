--------------------------- MODULE LaneArbitrator ---------------------------
(***************************************************************************)
(* The state machine that decides which lane owns the audio output of a    *)
(* voice session (server/src/orchestrator/LaneArbitrator.ts): Lane A (the  *)
(* reflex), Lane B (the provider's answer) or the policy fallback.         *)
(*                                                                         *)
(* The module is an open system.  Every public method is an action that    *)
(* its callers may take at any moment, and so is the expiry of each timer  *)
(* the class arms.  Three kinds of setTimeout matter:                      *)
(*   - the reflex timer, armed when the user stops speaking;               *)
(*   - the reflex timeout, armed when the reflex starts;                   *)
(*   - the transition gap, armed when Lane B preempts Lane A.              *)
(* The class keeps a handle for the first two (so a timer can be cleared,  *)
(* unless a newer one has overwritten the handle) and none for the third.  *)
(*                                                                         *)
(* A response cycle starts when a speech end is accepted.  Cycles are      *)
(* numbered, and a timer is named after the cycle in which it was armed.   *)
(*                                                                         *)
(* What the environment is assumed to do:                                  *)
(*   - session.start is handled once per connection (docs/API.md: it is    *)
(*     safe to send only once), possibly after the session has ended,      *)
(*     because the handler awaits the provider connection first;           *)
(*   - the fallback planner reports completion only while it plays;        *)
(*   - timers of equal delay expire in the order they were armed, and the  *)
(*     10 ms gap expires before a reflex timer (150 ms) armed after it.    *)
(***************************************************************************)
EXTENDS Integers

CONSTANT MaxCycles      \* bound: accepted speech ends per session

ASSUME MaxCyclesAssumption == MaxCycles \in Nat

VARIABLES
  state,                \* ArbitratorState
  laneAEnabled,         \* config.laneAEnabled, fixed at construction
  responseInProgress,   \* guards against overlapping response cycles
  suppressLaneBDone,    \* swallow the next Lane B done
  reflexTimer,          \* handle of the reflex timer, 0 when null
  reflexTimeoutTimer,   \* handle of the reflex timeout, 0 when null
  reflexPending,        \* reflex timers that have not expired
  timeoutPending,       \* reflex timeouts that have not expired
  gapPending,           \* transition gaps that have not expired
  reflexOn,             \* the last of play_reflex / stop_reflex emitted
  fallbackOn,           \* play_fallback emitted, not stopped nor completed
  ownerEvent            \* the last lane.owner_changed published

\* History that no code reads: it only lets properties speak of cycles.
VARIABLES
  started,              \* startSession has been called
  cycle,                \* number of the current response cycle
  fate,                 \* how the current cycle ended, or "live"
  floorFor,             \* the cycle on whose behalf Lane B took the floor
  staleGap              \* a gap has expired after its cycle was over

ctlVars   == <<state, responseInProgress, suppressLaneBDone>>
timerVars == <<reflexTimer, reflexTimeoutTimer, reflexPending, timeoutPending>>
histVars  == <<started, cycle, fate, floorFor, staleGap>>
vars == <<ctlVars, laneAEnabled, timerVars, gapPending, reflexOn, fallbackOn,
          ownerEvent, histVars>>

States == {"IDLE", "LISTENING", "A_PLAYING", "B_RESPONDING", "B_PLAYING",
           "FALLBACK_PLAYING", "ENDED"}
Lanes  == {"none", "A", "B", "fallback"}
Fates  == {"none", "live", "done", "reset", "barge_in", "policy_cancel", "ended"}
Cycles == 1..MaxCycles

Open == state \notin {"IDLE", "ENDED"}

\* Mutant of LaneOf: the fallback under the name its state has.
LaneOfUpperCase(s) == IF s = "A_PLAYING" THEN "A"
                      ELSE IF s = "B_PLAYING" THEN "B"
                      ELSE IF s = "FALLBACK_PLAYING" THEN "FALLBACK"
                      ELSE "none"

LaneOf(s) == IF s = "A_PLAYING" THEN "A"
             ELSE IF s = "B_PLAYING" THEN "B"
             ELSE IF s = "FALLBACK_PLAYING" THEN "fallback"
             ELSE "none"

Owner == LaneOf(state)

-----------------------------------------------------------------------------
Init ==
  /\ state = "IDLE"
  /\ laneAEnabled \in BOOLEAN
  /\ responseInProgress = FALSE /\ suppressLaneBDone = FALSE
  /\ reflexTimer = 0 /\ reflexTimeoutTimer = 0
  /\ reflexPending = {} /\ timeoutPending = {} /\ gapPending = {}
  /\ reflexOn = FALSE /\ fallbackOn = FALSE
  /\ ownerEvent = [from |-> "none", to |-> "none"]
  /\ started = FALSE /\ cycle = 0 /\ fate = "none" /\ floorFor = 0
  /\ staleGap = FALSE

ClearTimers ==
  /\ reflexPending' = reflexPending \ {reflexTimer}
  /\ timeoutPending' = timeoutPending \ {reflexTimeoutTimer}
  /\ reflexTimer' = 0
  /\ reflexTimeoutTimer' = 0

TransitionLaneOwner(from, to) == ownerEvent' = [from |-> from, to |-> to]

\* Mutant of StopReflex: the reflex is left running.
StopReflexForgotten == UNCHANGED reflexOn

\* stop_reflex and stop_fallback, emitted only by the owner that loses the floor.
StopReflex   == IF state = "A_PLAYING" THEN reflexOn' = FALSE
                                       ELSE UNCHANGED reflexOn
StopFallback == IF state = "FALLBACK_PLAYING" THEN fallbackOn' = FALSE
                                              ELSE UNCHANGED fallbackOn

\* The current cycle ends, unless it is already over or never began.
CloseCycle(how) == fate' = IF fate = "live" THEN how ELSE fate

-----------------------------------------------------------------------------
StartSession ==
  /\ ~started
  /\ started' = TRUE
  /\ state' = "LISTENING"
  /\ UNCHANGED <<responseInProgress, suppressLaneBDone, laneAEnabled, timerVars,
                 gapPending, reflexOn, fallbackOn, ownerEvent, cycle, fate,
                 floorFor, staleGap>>

EndSession ==
  /\ ClearTimers
  /\ responseInProgress' = FALSE
  /\ StopFallback
  /\ state' = "ENDED"
  /\ CloseCycle("ended")
  /\ UNCHANGED <<suppressLaneBDone, laneAEnabled, gapPending, reflexOn,
                 ownerEvent, started, cycle, floorFor, staleGap>>

\* Mutant of SpeechEndAccepted: only the overlap guard is looked at.
SpeechEndAcceptedByGuard == ~responseInProgress

SpeechEndAccepted == ~responseInProgress /\ state = "LISTENING"

\* A speech end that is ignored changes nothing; this is one that is accepted.
OnUserSpeechEnded ==
  /\ SpeechEndAccepted
  /\ cycle < MaxCycles
  /\ responseInProgress' = TRUE
  /\ state' = "B_RESPONDING"
  /\ cycle' = cycle + 1
  /\ fate' = "live"
  /\ IF laneAEnabled
       THEN /\ reflexPending' = reflexPending \cup {cycle + 1}
            /\ reflexTimer' = cycle + 1
       ELSE UNCHANGED <<reflexPending, reflexTimer>>
  /\ UNCHANGED <<suppressLaneBDone, laneAEnabled, reflexTimeoutTimer,
                 timeoutPending, gapPending, reflexOn, fallbackOn, ownerEvent,
                 started, floorFor, staleGap>>

DueFirst(t, pending) == t \in pending /\ \A u \in pending : t <= u

TriggerLaneA(t) ==
  /\ DueFirst(t, reflexPending)
  /\ \A g \in gapPending : t <= g
  /\ reflexPending' = reflexPending \ {t}
  /\ IF state = "B_RESPONDING"
       THEN /\ TransitionLaneOwner("none", "A")
            /\ state' = "A_PLAYING"
            /\ reflexOn' = TRUE
            /\ timeoutPending' = timeoutPending \cup {cycle}
            /\ reflexTimeoutTimer' = cycle
       ELSE UNCHANGED <<ownerEvent, state, reflexOn, timeoutPending,
                        reflexTimeoutTimer>>
  /\ UNCHANGED <<responseInProgress, suppressLaneBDone, laneAEnabled,
                 reflexTimer, gapPending, fallbackOn, histVars>>

ReflexTimeout(t) ==
  /\ DueFirst(t, timeoutPending)
  /\ timeoutPending' = timeoutPending \ {t}
  /\ StopReflex
  /\ UNCHANGED <<ctlVars, laneAEnabled, reflexTimer, reflexTimeoutTimer,
                 reflexPending, gapPending, fallbackOn, ownerEvent, histVars>>

-----------------------------------------------------------------------------
\* Lane B's first audio while the reflex plays: stop it, hand over after the
\* gap.  Bound: one gap is pending per cycle.
PreemptReflex ==
  /\ state = "A_PLAYING"
  /\ cycle \notin gapPending
  /\ reflexOn' = FALSE
  /\ gapPending' = gapPending \cup {cycle}
  /\ UNCHANGED <<state, ownerEvent, floorFor>>

\* Mutant of TakeFloorDirectly: the first audio is welcome while LISTENING too.
TakeFloorUninvited ==
  /\ state \in {"B_RESPONDING", "LISTENING"}
  /\ TransitionLaneOwner("none", "B")
  /\ state' = "B_PLAYING"
  /\ floorFor' = cycle
  /\ UNCHANGED <<reflexOn, gapPending>>

TakeFloorDirectly ==
  /\ state = "B_RESPONDING"
  /\ TransitionLaneOwner("none", "B")
  /\ state' = "B_PLAYING"
  /\ floorFor' = cycle
  /\ UNCHANGED <<reflexOn, gapPending>>

IgnoreReady ==
  /\ state \notin {"A_PLAYING", "B_RESPONDING"}
  /\ UNCHANGED <<state, ownerEvent, floorFor, reflexOn, gapPending>>

OnLaneBReady ==
  /\ ClearTimers
  /\ PreemptReflex \/ TakeFloorDirectly \/ IgnoreReady
  /\ UNCHANGED <<responseInProgress, suppressLaneBDone, laneAEnabled,
                 fallbackOn, started, cycle, fate, staleGap>>

\* The callback of the transition gap: it looks at nothing before it acts.
GapExpires(g) ==
  /\ DueFirst(g, gapPending)
  /\ gapPending' = gapPending \ {g}
  /\ TransitionLaneOwner("A", "B")
  /\ state' = "B_PLAYING"
  /\ floorFor' = g
  /\ IF state = "A_PLAYING" /\ g = cycle THEN UNCHANGED staleGap ELSE staleGap' = TRUE
  /\ UNCHANGED <<responseInProgress, suppressLaneBDone, laneAEnabled, timerVars,
                 reflexOn, fallbackOn, started, cycle, fate>>

-----------------------------------------------------------------------------
\* The parts of onLaneBDone, in the order of its early returns.
DoneSuppressed ==
  /\ suppressLaneBDone
  /\ suppressLaneBDone' = FALSE
  /\ UNCHANGED <<state, responseInProgress, timerVars, reflexOn, ownerEvent, fate>>

DoneInBPlaying ==
  /\ ~suppressLaneBDone /\ state = "B_PLAYING"
  /\ TransitionLaneOwner("B", "none")
  /\ state' = "LISTENING"
  /\ responseInProgress' = FALSE
  /\ CloseCycle("done")
  /\ UNCHANGED <<suppressLaneBDone, timerVars, reflexOn>>

\* Mutant of DoneBeforePlayback: the overlap guard stays up.
DoneKeepsGuard ==
  /\ ~suppressLaneBDone /\ state \in {"LISTENING", "B_RESPONDING"}
  /\ state' = "LISTENING"
  /\ CloseCycle("done")
  /\ UNCHANGED <<responseInProgress, suppressLaneBDone, timerVars, reflexOn, ownerEvent>>

DoneBeforePlayback ==
  /\ ~suppressLaneBDone /\ state \in {"LISTENING", "B_RESPONDING"}
  /\ state' = "LISTENING"
  /\ responseInProgress' = FALSE
  /\ CloseCycle("done")
  /\ UNCHANGED <<suppressLaneBDone, timerVars, reflexOn, ownerEvent>>

\* Mutant of DoneInAPlaying: the owner is published as Lane B was.
DoneInAPlayingAsB ==
  /\ ~suppressLaneBDone /\ state = "A_PLAYING"
  /\ reflexOn' = FALSE
  /\ TransitionLaneOwner("B", "none")
  /\ state' = "LISTENING"
  /\ responseInProgress' = FALSE
  /\ CloseCycle("done")
  /\ UNCHANGED <<suppressLaneBDone, timerVars>>

DoneInAPlaying ==
  /\ ~suppressLaneBDone /\ state = "A_PLAYING"
  /\ reflexOn' = FALSE
  /\ TransitionLaneOwner("A", "none")
  /\ state' = "LISTENING"
  /\ responseInProgress' = FALSE
  /\ CloseCycle("done")
  /\ UNCHANGED <<suppressLaneBDone, timerVars>>

DoneOutsideSession ==
  /\ ~suppressLaneBDone /\ ~Open
  /\ ClearTimers
  /\ responseInProgress' = FALSE
  /\ UNCHANGED <<state, suppressLaneBDone, reflexOn, ownerEvent, fate>>

OnLaneBDone ==
  /\ \/ DoneSuppressed
     \/ DoneInBPlaying
     \/ DoneBeforePlayback
     \/ DoneInAPlaying
     \/ DoneOutsideSession
  /\ UNCHANGED <<laneAEnabled, gapPending, fallbackOn, started, cycle, floorFor,
                 staleGap>>

\* Called when a commit was skipped, or the client stops or cancels a response.
ResetResponseInProgress ==
  /\ responseInProgress
  /\ responseInProgress' = FALSE
  /\ ClearTimers
  /\ IF state = "B_RESPONDING"
       THEN state' = "LISTENING" /\ CloseCycle("reset")
       ELSE UNCHANGED <<state, fate>>
  /\ UNCHANGED <<suppressLaneBDone, laneAEnabled, gapPending, reflexOn,
                 fallbackOn, ownerEvent, started, cycle, floorFor, staleGap>>

OnUserBargeIn ==
  /\ ClearTimers
  /\ StopReflex
  /\ StopFallback
  /\ IF Owner # "none" THEN TransitionLaneOwner(Owner, "none")
                       ELSE UNCHANGED ownerEvent
  /\ responseInProgress' = FALSE
  /\ state' = IF Open THEN "LISTENING" ELSE state
  /\ CloseCycle("barge_in")
  /\ UNCHANGED <<suppressLaneBDone, laneAEnabled, gapPending, started, cycle,
                 floorFor, staleGap>>

\* onPolicyCancel while the fallback already plays.
PolicyCancelInFallback ==
  /\ state = "FALLBACK_PLAYING"
  /\ ClearTimers
  /\ suppressLaneBDone' = TRUE
  /\ UNCHANGED <<state, responseInProgress, reflexOn, fallbackOn, ownerEvent, fate>>

PolicyCancelToFallback ==
  /\ Open /\ state # "FALLBACK_PLAYING"
  /\ ClearTimers
  /\ IF state = "LISTENING" THEN UNCHANGED suppressLaneBDone
                            ELSE suppressLaneBDone' = TRUE
  /\ StopReflex
  /\ TransitionLaneOwner(Owner, "fallback")
  /\ state' = "FALLBACK_PLAYING"
  /\ responseInProgress' = TRUE
  /\ fallbackOn' = TRUE
  /\ CloseCycle("policy_cancel")

PolicyCancelOutsideSession ==
  /\ ~Open
  /\ ClearTimers
  /\ UNCHANGED <<ctlVars, reflexOn, fallbackOn, ownerEvent, fate>>

OnPolicyCancel ==
  /\ PolicyCancelInFallback \/ PolicyCancelToFallback \/ PolicyCancelOutsideSession
  /\ UNCHANGED <<laneAEnabled, gapPending, started, cycle, floorFor, staleGap>>

FallbackCompletes ==
  /\ fallbackOn' = FALSE
  /\ IF Owner = "fallback" THEN TransitionLaneOwner("fallback", "none")
                           ELSE UNCHANGED ownerEvent
  /\ state' = IF Open THEN "LISTENING" ELSE state
  /\ responseInProgress' = FALSE
  /\ suppressLaneBDone' = FALSE
  /\ UNCHANGED <<laneAEnabled, timerVars, gapPending, reflexOn, started, cycle,
                 fate, floorFor, staleGap>>

\* The planner is assumed to report completion only while it plays
\* (LanePlayback.tla shows that it does).
OnFallbackComplete == fallbackOn /\ FallbackCompletes

-----------------------------------------------------------------------------
TimerStep == \E t \in Cycles : TriggerLaneA(t) \/ ReflexTimeout(t) \/ GapExpires(t)

CallStep ==
  \/ StartSession
  \/ EndSession
  \/ OnUserSpeechEnded
  \/ OnLaneBReady
  \/ OnLaneBDone
  \/ ResetResponseInProgress
  \/ OnUserBargeIn
  \/ OnPolicyCancel
  \/ OnFallbackComplete

Next == CallStep \/ TimerStep

Spec == Init /\ [][Next]_vars

-----------------------------------------------------------------------------
\* Every variable keeps its type, and timers are named after cycles that exist.
FlagTypes ==
  /\ laneAEnabled \in BOOLEAN
  /\ responseInProgress \in BOOLEAN
  /\ suppressLaneBDone \in BOOLEAN
  /\ reflexOn \in BOOLEAN
  /\ fallbackOn \in BOOLEAN
  /\ started \in BOOLEAN
  /\ staleGap \in BOOLEAN

DataTypes ==
  /\ state \in States
  /\ ownerEvent \in [from : Lanes, to : Lanes]
  /\ fate \in Fates
  /\ cycle \in 0..MaxCycles
  /\ state \in {"A_PLAYING", "B_RESPONDING"} => cycle # 0
  /\ floorFor \in 0..cycle
  /\ reflexTimer \in 0..cycle /\ reflexTimeoutTimer \in 0..cycle
  /\ reflexPending \subseteq 1..cycle
  /\ timeoutPending \subseteq 1..cycle
  /\ gapPending \subseteq 1..cycle

TypeOK == FlagTypes /\ DataTypes

\* The overlap guard agrees with the state: while LISTENING it is down, or the
\* user's next utterance would be ignored for ever; while Lane B is awaited it
\* is up; and outside a session no timer that still has a handle is armed
\* (the guards of onUserSpeechEnded and the resets of every other method).
GuardMatchesState ==
  /\ state = "LISTENING" => ~responseInProgress
  /\ state = "B_RESPONDING" => responseInProgress
  /\ ~Open => /\ ~responseInProgress
              /\ reflexTimer \notin reflexPending
              /\ reflexTimeoutTimer \notin timeoutPending

\* What "one lane owns the audio output" asks of the whole session: Lane B
\* owns it only for a cycle that nobody has cancelled or completed; a reflex
\* that was started has been stopped once Lane A lost the floor (endSession
\* alone leaves it running); the fallback plays exactly while it owns the
\* floor; and the owner last published is the owner.
FloorDiscipline ==
  /\ state = "B_PLAYING" => fate = "live" /\ floorFor = cycle
  /\ reflexOn => state \in {"A_PLAYING", "ENDED"}
  /\ fallbackOn <=> state = "FALLBACK_PLAYING"
  /\ state # "ENDED" => ownerEvent.to = Owner

\* The gap callback, which cannot be cancelled and checks nothing, is the only
\* way the discipline is ever lost; without Lane A it is never lost.
OnlyStaleGapBreaksFloor ==
  /\ ~staleGap => FloorDiscipline
  /\ staleGap => laneAEnabled

\* The published ownership changes form a chain: each one starts from the
\* owner the previous one named, until a stale gap publishes A -> B.
OwnerChain ==
  [][ownerEvent' # ownerEvent /\ ~staleGap' => ownerEvent'.from = ownerEvent.to]_vars

\* A speech end never starts a cycle while the previous one is still live,
\* whatever order resets, done signals and timers came in.  (After a stale gap
\* it may: the fallback, robbed of the floor but still playing, completes in
\* the middle of a later cycle and sends the arbitrator back to LISTENING.)
OneCycleAtATime ==
  [][cycle' # cycle /\ ~staleGap => fate # "live" /\ Owner = "none"]_vars
=============================================================================

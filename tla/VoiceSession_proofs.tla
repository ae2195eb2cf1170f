------------------------ MODULE VoiceSession_proofs ------------------------
(***************************************************************************)
(* Machine-checked proofs about the lane arbitrator, alone, with its       *)
(* players, and in the voice session.  Alone (LaneArbitrator.tla) it keeps *)
(* its types, its overlap guard and, until a stale transition gap expires, *)
(* the floor discipline, for every number of response cycles.  With its    *)
(* players it keeps the invariants of LanePlayback.tla and implements      *)
(* LaneArbitrator.tla, so that its theorems hold of the composition too,   *)
(* for every number of playbacks under way and of chunks; what is proved   *)
(* of one player (Player.tla) is used for both.  A voice session           *)
(* (VoiceSession.tla) takes the arbitrator's steps, so what is proved of   *)
(* the arbitrator holds there too; beside it, its types, what a waiting    *)
(* cycle waits for, and what reaches the client's ears, for any number of  *)
(* turns, chunks, vetoes and messages in flight.                           *)
(***************************************************************************)
EXTENDS VoiceSession, LanePlayback, SequenceTheorems, TLAPS

\* The arbitrator alone.
Waiting == state \in {"B_RESPONDING", "A_PLAYING"}

\* Before session.start nothing has happened; afterwards the state is never
\* IDLE again.
StartInv ==
  /\ ~started => /\ state \in {"IDLE", "ENDED"}
                 /\ cycle = 0
                 /\ ~reflexOn /\ ~fallbackOn
                 /\ ownerEvent.to = "none"
                 /\ fate = "none"
  /\ started => state # "IDLE"

\* Everything that belongs to Lane A needs Lane A to be enabled.
LaneAInv ==
  /\ reflexPending # {} => laneAEnabled
  /\ gapPending # {} => laneAEnabled
  /\ state = "A_PLAYING" => laneAEnabled
  /\ staleGap => laneAEnabled

\* A gap of the current cycle is armed only after its reflex was stopped.
GapInv ==
  /\ state = "B_RESPONDING" => cycle \notin gapPending
  /\ state = "A_PLAYING" /\ cycle \in gapPending => ~reflexOn

\* While no stale gap has expired, the cycle is live exactly in the states
\* that serve it.
CycleInv ==
  ~staleGap => /\ FloorDiscipline
               /\ fate = "live" <=> Waiting \/ state = "B_PLAYING"

IInv == TypeOK /\ GuardMatchesState /\ StartInv /\ LaneAInv /\ GapInv /\ CycleInv

-----------------------------------------------------------------------------
\* The inductive invariant holds in the constructor's state.
LEMMA InitIInv == Init => IInv
<1> SUFFICES ASSUME Init PROVE IInv
  OBVIOUS
<1>1. FlagTypes
  BY DEF Init, FlagTypes
<1>2. DataTypes
  BY MaxCyclesAssumption DEF Init, DataTypes, States, Lanes, Fates
<1>3. GuardMatchesState /\ StartInv /\ LaneAInv
  BY DEF Init, GuardMatchesState, StartInv, LaneAInv, Open
<1>4. GapInv /\ CycleInv
  BY DEF Init, GapInv, CycleInv, FloorDiscipline, Waiting, Owner, LaneOf
<1> QED
  BY <1>1, <1>2, <1>3, <1>4 DEF IInv, TypeOK

\* The types are preserved by every step, whatever else holds.
LEMMA NextFlagTypes == FlagTypes /\ [Next]_vars => FlagTypes'
<1> SUFFICES ASSUME FlagTypes, [Next]_vars PROVE FlagTypes'
  OBVIOUS
<1> USE DEF FlagTypes, StopReflex, StopFallback
<1>1. CASE StartSession
  BY <1>1 DEF StartSession
<1>2. CASE EndSession
  BY <1>2 DEF EndSession
<1>3. CASE OnUserSpeechEnded
  BY <1>3 DEF OnUserSpeechEnded, SpeechEndAccepted
<1>4. CASE OnLaneBReady
  BY <1>4 DEF OnLaneBReady, PreemptReflex, TakeFloorDirectly, IgnoreReady
<1>5. CASE OnLaneBDone
  BY <1>5 DEF OnLaneBDone, DoneSuppressed, DoneInBPlaying, DoneBeforePlayback,
     DoneInAPlaying, DoneOutsideSession
<1>6. CASE ResetResponseInProgress
  BY <1>6 DEF ResetResponseInProgress
<1>7. CASE OnUserBargeIn
  BY <1>7 DEF OnUserBargeIn
<1>8. CASE OnPolicyCancel
  BY <1>8 DEF OnPolicyCancel, PolicyCancelInFallback, PolicyCancelToFallback,
     PolicyCancelOutsideSession, ctlVars
<1>9. CASE OnFallbackComplete
  BY <1>9 DEF OnFallbackComplete, FallbackCompletes
<1>10. ASSUME NEW t \in Cycles, TriggerLaneA(t) PROVE FlagTypes'
  BY <1>10 DEF TriggerLaneA, histVars
<1>11. ASSUME NEW t \in Cycles, ReflexTimeout(t) PROVE FlagTypes'
  BY <1>11 DEF ReflexTimeout, histVars, ctlVars
<1>12. ASSUME NEW t \in Cycles, GapExpires(t) PROVE FlagTypes'
  BY <1>12 DEF GapExpires
<1>13. CASE UNCHANGED vars
  BY <1>13 DEF vars, ctlVars, histVars
<1> QED
  BY <1>1, <1>2, <1>3, <1>4, <1>5, <1>6, <1>7, <1>8, <1>9, <1>10, <1>11, <1>12,
     <1>13 DEF Next, CallStep, TimerStep

\* So are the types of the data: cycle numbers, timer handles and sets.
LEMMA NextDataTypes == DataTypes /\ [Next]_vars => DataTypes'
<1> SUFFICES ASSUME DataTypes, [Next]_vars PROVE DataTypes'
  OBVIOUS
<1> USE DEF TransitionLaneOwner, CloseCycle, ClearTimers, Owner, LaneOf,
        States, Lanes, Fates, timerVars, histVars, ctlVars
<1>1. CASE StartSession
  BY <1>1 DEF DataTypes, StartSession
<1>2. CASE EndSession
  BY <1>2 DEF DataTypes, EndSession
<1>3. CASE OnUserSpeechEnded
  <2>1. /\ cycle \in Nat /\ cycle < MaxCycles /\ cycle' = cycle + 1
        /\ reflexTimer' \in {reflexTimer, cycle + 1}
        /\ reflexPending' \in {reflexPending, reflexPending \cup {cycle + 1}}
        /\ UNCHANGED <<reflexTimeoutTimer, timeoutPending, gapPending, floorFor>>
    BY <1>3, MaxCyclesAssumption DEF OnUserSpeechEnded, SpeechEndAccepted, DataTypes
  <2>2. state' \in States /\ fate' \in Fates /\ ownerEvent' \in [from : Lanes, to : Lanes]
    BY <1>3 DEF OnUserSpeechEnded, SpeechEndAccepted, DataTypes
  <2>3. /\ cycle' \in 0..MaxCycles /\ cycle' # 0
        /\ floorFor' \in 0..cycle'
        /\ reflexTimer' \in 0..cycle' /\ reflexTimeoutTimer' \in 0..cycle'
    BY <2>1, MaxCyclesAssumption DEF DataTypes
  <2>4. /\ reflexPending' \subseteq 1..cycle'
        /\ timeoutPending' \subseteq 1..cycle'
        /\ gapPending' \subseteq 1..cycle'
    BY <2>1 DEF DataTypes
  <2> QED
    BY <2>2, <2>3, <2>4 DEF DataTypes
<1>4. CASE OnLaneBReady
  <2>1. CASE PreemptReflex
    BY <1>4, <2>1, MaxCyclesAssumption DEF DataTypes, OnLaneBReady, PreemptReflex
  <2>2. CASE TakeFloorDirectly
    BY <1>4, <2>2, MaxCyclesAssumption DEF DataTypes, OnLaneBReady, TakeFloorDirectly
  <2>3. CASE IgnoreReady
    BY <1>4, <2>3 DEF DataTypes, OnLaneBReady, IgnoreReady
  <2> QED
    BY <1>4, <2>1, <2>2, <2>3 DEF OnLaneBReady
<1>5. CASE OnLaneBDone
  <2>1. CASE DoneSuppressed
    BY <1>5, <2>1 DEF DataTypes, OnLaneBDone, DoneSuppressed
  <2>2. CASE DoneInBPlaying
    BY <1>5, <2>2 DEF DataTypes, OnLaneBDone, DoneInBPlaying
  <2>3. CASE DoneBeforePlayback
    BY <1>5, <2>3 DEF DataTypes, OnLaneBDone, DoneBeforePlayback
  <2>4. CASE DoneInAPlaying
    BY <1>5, <2>4 DEF DataTypes, OnLaneBDone, DoneInAPlaying
  <2>5. CASE DoneOutsideSession
    BY <1>5, <2>5 DEF DataTypes, OnLaneBDone, DoneOutsideSession
  <2> QED
    BY <1>5, <2>1, <2>2, <2>3, <2>4, <2>5 DEF OnLaneBDone
<1>6. CASE ResetResponseInProgress
  BY <1>6 DEF DataTypes, ResetResponseInProgress
<1>7. CASE OnUserBargeIn
  BY <1>7 DEF DataTypes, OnUserBargeIn
<1>8. CASE OnPolicyCancel
  <2>1. CASE PolicyCancelInFallback
    BY <1>8, <2>1 DEF DataTypes, OnPolicyCancel, PolicyCancelInFallback
  <2>2. CASE PolicyCancelToFallback
    BY <1>8, <2>2 DEF DataTypes, OnPolicyCancel, PolicyCancelToFallback
  <2>3. CASE PolicyCancelOutsideSession
    BY <1>8, <2>3 DEF DataTypes, OnPolicyCancel, PolicyCancelOutsideSession
  <2> QED
    BY <1>8, <2>1, <2>2, <2>3 DEF OnPolicyCancel
<1>9. CASE OnFallbackComplete
  BY <1>9 DEF DataTypes, OnFallbackComplete, FallbackCompletes
<1>10. ASSUME NEW t \in Cycles, TriggerLaneA(t) PROVE DataTypes'
  <2>1. CASE state = "B_RESPONDING"
    <3>1. /\ UNCHANGED <<reflexTimer, gapPending, cycle, fate, floorFor>>
          /\ state' = "A_PLAYING" /\ ownerEvent' = [from |-> "none", to |-> "A"]
          /\ reflexPending' \subseteq reflexPending
          /\ timeoutPending' = timeoutPending \cup {cycle}
          /\ reflexTimeoutTimer' = cycle
      BY <1>10, <2>1 DEF TriggerLaneA
    <3> QED
      BY <2>1, <3>1, MaxCyclesAssumption DEF DataTypes
  <2>2. CASE state # "B_RESPONDING"
    BY <1>10, <2>2 DEF DataTypes, TriggerLaneA
  <2> QED
    BY <2>1, <2>2
<1>11. ASSUME NEW t \in Cycles, ReflexTimeout(t) PROVE DataTypes'
  BY <1>11 DEF DataTypes, ReflexTimeout
<1>12. ASSUME NEW t \in Cycles, GapExpires(t) PROVE DataTypes'
  BY <1>12, MaxCyclesAssumption DEF DataTypes, GapExpires, DueFirst
<1>13. CASE UNCHANGED vars
  BY <1>13 DEF DataTypes, vars
<1> HIDE DEF TransitionLaneOwner, CloseCycle, ClearTimers, Owner, LaneOf,
        States, Lanes, Fates, timerVars, histVars, ctlVars
<1> QED
  BY <1>1, <1>2, <1>3, <1>4, <1>5, <1>6, <1>7, <1>8, <1>9, <1>10, <1>11, <1>12,
     <1>13 DEF Next, CallStep, TimerStep

-----------------------------------------------------------------------------
\* A handle that was cleared is null, and no timer is named 0.
LEMMA ClearedTimers ==
  TypeOK /\ ClearTimers => /\ reflexTimer' \notin reflexPending'
                          /\ reflexTimeoutTimer' \notin timeoutPending'
  BY DEF TypeOK, DataTypes, ClearTimers

\* The overlap guard, together with what session start needs of the past.
LEMMA NextGuard ==
  TypeOK /\ GuardMatchesState /\ StartInv /\ [Next]_vars
    => GuardMatchesState' /\ StartInv'
<1> SUFFICES ASSUME TypeOK, GuardMatchesState, StartInv, [Next]_vars
             PROVE  GuardMatchesState' /\ StartInv'
  OBVIOUS
<1> USE DEF GuardMatchesState, StartInv, Open, StopReflex, StopFallback
<1>1. CASE StartSession
  BY <1>1 DEF StartSession, timerVars
<1>2. CASE EndSession
  BY <1>2, ClearedTimers DEF EndSession, CloseCycle
<1>3. CASE OnUserSpeechEnded
  BY <1>3 DEF OnUserSpeechEnded, SpeechEndAccepted
<1>4. CASE OnLaneBReady
  BY <1>4, ClearedTimers DEF OnLaneBReady, PreemptReflex, TakeFloorDirectly, IgnoreReady
<1>5. CASE OnLaneBDone
  BY <1>5, ClearedTimers DEF OnLaneBDone, DoneSuppressed, DoneInBPlaying, DoneBeforePlayback,
     DoneInAPlaying, DoneOutsideSession, timerVars
<1>6. CASE ResetResponseInProgress
  BY <1>6, ClearedTimers DEF ResetResponseInProgress
<1>7. CASE OnUserBargeIn
  BY <1>7, ClearedTimers DEF OnUserBargeIn, Owner, LaneOf, CloseCycle
<1>8. CASE OnPolicyCancel
  BY <1>8, ClearedTimers DEF OnPolicyCancel, PolicyCancelInFallback, PolicyCancelToFallback,
     PolicyCancelOutsideSession, ctlVars
<1>9. CASE OnFallbackComplete
  BY <1>9 DEF OnFallbackComplete, FallbackCompletes, timerVars
<1>10. ASSUME NEW t \in Cycles, TriggerLaneA(t)
       PROVE  GuardMatchesState' /\ StartInv'
  BY <1>10 DEF TriggerLaneA, histVars
<1>11. ASSUME NEW t \in Cycles, ReflexTimeout(t)
       PROVE  GuardMatchesState' /\ StartInv'
  BY <1>11 DEF ReflexTimeout, histVars, ctlVars
<1>12. ASSUME NEW t \in Cycles, GapExpires(t)
       PROVE  GuardMatchesState' /\ StartInv'
  <2>1. cycle # 0
    BY <1>12 DEF GapExpires, DueFirst, TypeOK, DataTypes
  <2> QED
    BY <1>12, <2>1 DEF GapExpires, timerVars
<1>13. CASE UNCHANGED vars
  BY <1>13 DEF vars, ctlVars, timerVars, histVars
<1> HIDE DEF GuardMatchesState, StartInv, Open
<1> QED
  BY <1>1, <1>2, <1>3, <1>4, <1>5, <1>6, <1>7, <1>8, <1>9, <1>10, <1>11, <1>12,
     <1>13 DEF Next, CallStep, TimerStep

-----------------------------------------------------------------------------
\* Lane A's states and timers need Lane A, and a gap needs a stopped reflex.
LEMMA NextLaneA == TypeOK /\ LaneAInv /\ GapInv /\ [Next]_vars => LaneAInv' /\ GapInv'
<1> SUFFICES ASSUME TypeOK, LaneAInv, GapInv, [Next]_vars PROVE LaneAInv' /\ GapInv'
  OBVIOUS
<1> USE DEF LaneAInv, GapInv, ClearTimers, StopReflex
<1>1. CASE StartSession
  BY <1>1 DEF StartSession, timerVars
<1>2. CASE EndSession
  BY <1>2 DEF EndSession
<1>3. CASE OnUserSpeechEnded
  <2>1. cycle' = cycle + 1 /\ cycle' \notin gapPending'
    BY <1>3, MaxCyclesAssumption DEF OnUserSpeechEnded, SpeechEndAccepted, TypeOK, DataTypes
  <2> QED
    BY <1>3, <2>1 DEF OnUserSpeechEnded, SpeechEndAccepted
<1>4. CASE OnLaneBReady
  BY <1>4 DEF OnLaneBReady, PreemptReflex, TakeFloorDirectly, IgnoreReady
<1>5. CASE OnLaneBDone
  BY <1>5 DEF OnLaneBDone, DoneSuppressed, DoneInBPlaying, DoneBeforePlayback,
     DoneInAPlaying, DoneOutsideSession, timerVars
<1>6. CASE ResetResponseInProgress
  BY <1>6 DEF ResetResponseInProgress
<1>7. CASE OnUserBargeIn
  BY <1>7 DEF OnUserBargeIn, Open
<1>8. CASE OnPolicyCancel
  BY <1>8 DEF OnPolicyCancel, PolicyCancelInFallback, PolicyCancelToFallback,
     PolicyCancelOutsideSession, ctlVars, Open
<1>9. CASE OnFallbackComplete
  BY <1>9 DEF OnFallbackComplete, FallbackCompletes, timerVars
<1>10. ASSUME NEW t \in Cycles, TriggerLaneA(t) PROVE LaneAInv' /\ GapInv'
  BY <1>10 DEF TriggerLaneA, DueFirst, histVars
<1>11. ASSUME NEW t \in Cycles, ReflexTimeout(t) PROVE LaneAInv' /\ GapInv'
  BY <1>11 DEF ReflexTimeout, histVars, ctlVars
<1>12. ASSUME NEW t \in Cycles, GapExpires(t) PROVE LaneAInv' /\ GapInv'
  BY <1>12 DEF GapExpires, DueFirst, timerVars
<1>13. CASE UNCHANGED vars
  BY <1>13 DEF vars, ctlVars, timerVars, histVars
<1> HIDE DEF LaneAInv, GapInv, ClearTimers, StopReflex
<1> QED
  BY <1>1, <1>2, <1>3, <1>4, <1>5, <1>6, <1>7, <1>8, <1>9, <1>10, <1>11, <1>12,
     <1>13 DEF Next, CallStep, TimerStep

\* The floor discipline and the life of a cycle, as long as no gap is stale.
LEMMA NextCycle ==
  TypeOK /\ GuardMatchesState /\ StartInv /\ GapInv /\ CycleInv /\ [Next]_vars => CycleInv'
<1> SUFFICES ASSUME TypeOK, GuardMatchesState, StartInv, GapInv, CycleInv, [Next]_vars,
                    ~staleGap'
             PROVE  CycleInv'
  BY DEF CycleInv
<1> USE DEF CycleInv, FloorDiscipline, Waiting, Open, Owner, LaneOf, StopReflex,
        StopFallback, CloseCycle, TransitionLaneOwner
<1>1. CASE StartSession
  BY <1>1 DEF StartSession, StartInv
<1>2. CASE EndSession
  BY <1>2 DEF EndSession
<1>3. CASE OnUserSpeechEnded
  BY <1>3 DEF OnUserSpeechEnded, SpeechEndAccepted
<1>4. CASE OnLaneBReady
  BY <1>4 DEF OnLaneBReady, PreemptReflex, TakeFloorDirectly, IgnoreReady
<1>5. CASE OnLaneBDone
  BY <1>5 DEF OnLaneBDone, DoneSuppressed, DoneInBPlaying, DoneBeforePlayback,
     DoneInAPlaying, DoneOutsideSession
<1>6. CASE ResetResponseInProgress
  BY <1>6 DEF ResetResponseInProgress
<1>7. CASE OnUserBargeIn
  BY <1>7 DEF OnUserBargeIn
<1>8. CASE OnPolicyCancel
  BY <1>8 DEF OnPolicyCancel, PolicyCancelInFallback, PolicyCancelToFallback,
     PolicyCancelOutsideSession, ctlVars
<1>9. CASE OnFallbackComplete
  BY <1>9 DEF OnFallbackComplete, FallbackCompletes
<1>10. ASSUME NEW t \in Cycles, TriggerLaneA(t) PROVE CycleInv'
  BY <1>10 DEF TriggerLaneA, histVars
<1>11. ASSUME NEW t \in Cycles, ReflexTimeout(t) PROVE CycleInv'
  BY <1>11 DEF ReflexTimeout, histVars, ctlVars
<1>12. ASSUME NEW t \in Cycles, GapExpires(t) PROVE CycleInv'
  BY <1>12 DEF GapExpires, DueFirst, GapInv
<1>13. CASE UNCHANGED vars
  BY <1>13 DEF vars, ctlVars, histVars
<1> HIDE DEF CycleInv, FloorDiscipline, Waiting, Open, Owner, LaneOf, StopReflex,
        StopFallback, CloseCycle, TransitionLaneOwner
<1> QED
  BY <1>1, <1>2, <1>3, <1>4, <1>5, <1>6, <1>7, <1>8, <1>9, <1>10, <1>11, <1>12,
     <1>13 DEF Next, CallStep, TimerStep

-----------------------------------------------------------------------------
\* The strengthened invariant holds in every reachable state.
LEMMA Inductive == Spec => []IInv
<1>1. IInv /\ [Next]_vars => IInv'
  BY NextFlagTypes, NextDataTypes, NextGuard, NextLaneA, NextCycle DEF IInv, TypeOK
<1> QED
  BY InitIInv, <1>1, PTL DEF Spec

\* Type correctness, for any number of response cycles: the arbitrator's
\* fields and the timers it arms stay within their types.
THEOREM TypeCorrect == Spec => []TypeOK
<1>1. IInv => TypeOK
  BY DEF IInv
<1> QED
  BY <1>1, Inductive, PTL

\* The overlap guard never contradicts the state, so a listening session
\* accepts the next utterance, whatever the order of calls and timers.
THEOREM GuardCorrect == Spec => []GuardMatchesState
<1>1. IInv => GuardMatchesState
  BY DEF IInv
<1> QED
  BY <1>1, Inductive, PTL

\* The floor discipline can only be lost to a gap callback that expires after
\* its cycle was over, and never when Lane A is disabled.
THEOREM FloorCorrect == Spec => []OnlyStaleGapBreaksFloor
<1>1. IInv => OnlyStaleGapBreaksFloor
  BY DEF IInv, CycleInv, LaneAInv, OnlyStaleGapBreaksFloor
<1> QED
  BY <1>1, Inductive, PTL

\* A session without Lane A keeps the whole floor discipline.
THEOREM FloorWithoutLaneA == Spec => [](~laneAEnabled => FloorDiscipline)
<1>1. OnlyStaleGapBreaksFloor => (~laneAEnabled => FloorDiscipline)
  BY DEF OnlyStaleGapBreaksFloor
<1> QED
  BY <1>1, FloorCorrect, PTL

\* A speech end never starts a cycle over a live one or over an owned floor,
\* until a stale gap has expired.
THEOREM OneCycle == Spec => OneCycleAtATime
<1>1. IInv /\ [Next]_vars
        => [cycle' # cycle /\ ~staleGap => fate # "live" /\ Owner = "none"]_vars
  <2> SUFFICES ASSUME IInv, [Next]_vars, cycle' # cycle, ~staleGap
               PROVE  fate # "live" /\ Owner = "none"
    OBVIOUS
  <2>1. OnUserSpeechEnded
    BY DEF Next, CallStep, TimerStep, vars, histVars, StartSession, EndSession,
       OnLaneBReady, OnLaneBDone, ResetResponseInProgress, OnUserBargeIn,
       OnPolicyCancel, OnFallbackComplete, FallbackCompletes, TriggerLaneA, ReflexTimeout, GapExpires
  <2> QED
    BY <2>1 DEF OnUserSpeechEnded, SpeechEndAccepted, IInv, CycleInv, Waiting, Owner, LaneOf
<1> QED
  BY <1>1, Inductive, PTL DEF Spec, OneCycleAtATime

\* Each published ownership change starts from the owner the previous one
\* named, until a stale gap has expired.
THEOREM OwnerChainCorrect == Spec => OwnerChain
<1>1. IInv /\ IInv' /\ [Next]_vars
        => [ownerEvent' # ownerEvent /\ ~staleGap' => ownerEvent'.from = ownerEvent.to]_vars
  <2> SUFFICES ASSUME IInv, [Next]_vars, ownerEvent' # ownerEvent, ~staleGap'
               PROVE  ownerEvent'.from = ownerEvent.to
    OBVIOUS
  <2> USE DEF IInv, CycleInv, FloorDiscipline, TransitionLaneOwner, Owner, LaneOf,
          GuardMatchesState, Open
  <2>1. CASE CallStep
    BY <2>1 DEF CallStep, StartSession, EndSession, OnUserSpeechEnded,
       OnLaneBReady, PreemptReflex, TakeFloorDirectly, IgnoreReady, OnLaneBDone,
       DoneSuppressed, DoneInBPlaying, DoneBeforePlayback, DoneInAPlaying,
       DoneOutsideSession, ResetResponseInProgress, OnUserBargeIn,
       OnPolicyCancel, PolicyCancelInFallback, PolicyCancelToFallback,
       PolicyCancelOutsideSession, OnFallbackComplete, FallbackCompletes, histVars
  <2>2. ASSUME NEW t \in Cycles, TriggerLaneA(t) PROVE ownerEvent'.from = ownerEvent.to
    BY <2>2 DEF TriggerLaneA, histVars
  <2>3. ASSUME NEW t \in Cycles, ReflexTimeout(t) PROVE ownerEvent'.from = ownerEvent.to
    BY <2>3 DEF ReflexTimeout
  <2>4. ASSUME NEW t \in Cycles, GapExpires(t) PROVE ownerEvent'.from = ownerEvent.to
    BY <2>4 DEF GapExpires
  <2>5. CASE UNCHANGED vars
    BY <2>5 DEF vars
  <2> QED
    BY <2>1, <2>2, <2>3, <2>4, <2>5 DEF Next, TimerStep
<1> QED
  BY <1>1, Inductive, PTL DEF Spec, OwnerChain

-----------------------------------------------------------------------------
\* The arbitrator with its players.
PlaybackInv == R!PlayerInv /\ F!PlayerInv

\* The reflex plays only by command, like the fallback.
ReflexByCommand == R!isPlaying => reflexOn

-----------------------------------------------------------------------------
LEMMA Bounds == R!PlayerBounds /\ F!PlayerBounds
  BY PlaybackAssumption DEF R!PlayerBounds, F!PlayerBounds

\* Each step of the composition is a step of each player, or leaves it alone.
LEMMA ReflexSteps == PlaybackNext => R!PlayerStep \/ UNCHANGED reflexVars
<1> SUFFICES ASSUME PlaybackNext PROVE R!PlayerStep \/ UNCHANGED reflexVars
  OBVIOUS
<1>1. R!Stop \/ R!Play => R!PlayerStep
  BY DEF R!PlayerStep
<1>2. ASSUME NEW i \in R!Plays, R!AudioReady(i) \/ R!AudioFails(i) \/ R!Tick(i) PROVE R!PlayerStep
  BY <1>2 DEF R!PlayerStep
<1>3. CASE Command
  BY <1>1, <1>3 DEF Command, ObeyReflex
<1>4. CASE PlayReflex
  BY <1>1, <1>4 DEF PlayReflex
<1>5. CASE PlayFallback
  BY <1>1, <1>5 DEF PlayFallback, ObeyReflex
<1>6. CASE HandleClose
  BY <1>6 DEF HandleClose
<1>7. CASE ReflexStep
  BY <1>2, <1>7 DEF ReflexStep
<1>8. CASE FallbackStep
  BY <1>8 DEF FallbackStep
<1> QED
  BY <1>3, <1>4, <1>5, <1>6, <1>7, <1>8 DEF PlaybackNext

LEMMA FallbackSteps == PlaybackNext => F!PlayerStep \/ UNCHANGED fallbackVars
<1> SUFFICES ASSUME PlaybackNext PROVE F!PlayerStep \/ UNCHANGED fallbackVars
  OBVIOUS
<1>1. F!Stop \/ F!Play => F!PlayerStep
  BY DEF F!PlayerStep
<1>2. ASSUME NEW i \in F!Plays, F!AudioReady(i) \/ F!Tick(i) PROVE F!PlayerStep
  BY <1>2 DEF F!PlayerStep
<1>3. CASE Command
  BY <1>1, <1>3 DEF Command, ObeyFallback
<1>4. CASE PlayReflex
  BY <1>4 DEF PlayReflex
<1>5. CASE PlayFallback
  BY <1>1, <1>5 DEF PlayFallback
<1>6. CASE HandleClose
  BY <1>1, <1>6 DEF HandleClose
<1>7. CASE ReflexStep
  BY <1>7 DEF ReflexStep
<1>8. CASE FallbackStep
  BY <1>2, <1>8 DEF FallbackStep
<1> QED
  BY <1>3, <1>4, <1>5, <1>6, <1>7, <1>8 DEF PlaybackNext

\* So the invariants of the players hold throughout.
LEMMA InitPlaybackInv == PlaybackInit => PlaybackInv
<1> SUFFICES ASSUME PlaybackInit PROVE PlaybackInv
  OBVIOUS
<1>1. R!PlayerInit /\ F!PlayerInit
  BY DEF PlaybackInit
<1> QED
  BY <1>1, Bounds, R!PlayerInitInv, F!PlayerInitInv DEF PlaybackInv

LEMMA NextPlaybackInv == PlaybackInv /\ [PlaybackNext]_playVars => PlaybackInv'
<1> SUFFICES ASSUME PlaybackInv, [PlaybackNext]_playVars PROVE PlaybackInv'
  OBVIOUS
<1>1. [R!PlayerStep]_(R!playerVars)
  BY ReflexSteps DEF playVars, reflexVars, R!playerVars
<1>2. [F!PlayerStep]_(F!playerVars)
  BY FallbackSteps DEF playVars, fallbackVars, F!playerVars
<1>3. R!PlayerInv'
  BY <1>1, Bounds, R!PlayerStepInv DEF PlaybackInv
<1>4. F!PlayerInv'
  BY <1>2, Bounds, F!PlayerStepInv DEF PlaybackInv
<1> QED
  BY <1>3, <1>4 DEF PlaybackInv

-----------------------------------------------------------------------------
\* What the arbitrator's steps do to the fallback's floor and to its command.
LEMMA PlainFloor ==
  PlainCall => /\ state' = "FALLBACK_PLAYING" => state = "FALLBACK_PLAYING" /\ UNCHANGED fallbackOn
               /\ fallbackOn' => fallbackOn
<1> SUFFICES ASSUME PlainCall
             PROVE  /\ state' = "FALLBACK_PLAYING"
                         => state = "FALLBACK_PLAYING" /\ UNCHANGED fallbackOn
                    /\ fallbackOn' => fallbackOn
  OBVIOUS
<1>1. CASE StartSession
  BY <1>1 DEF StartSession
<1>2. CASE EndSession
  BY <1>2 DEF EndSession, StopFallback
<1>3. CASE OnUserSpeechEnded
  BY <1>3 DEF OnUserSpeechEnded
<1>4. CASE OnLaneBReady
  BY <1>4 DEF OnLaneBReady, PreemptReflex, TakeFloorDirectly, IgnoreReady
<1>5. CASE OnLaneBDone
  BY <1>5 DEF OnLaneBDone, DoneSuppressed, DoneInBPlaying, DoneBeforePlayback,
     DoneInAPlaying, DoneOutsideSession
<1>6. CASE ResetResponseInProgress
  BY <1>6 DEF ResetResponseInProgress
<1>7. CASE OnUserBargeIn
  BY <1>7 DEF OnUserBargeIn, StopFallback, Open
<1>8. ASSUME NEW t \in Cycles, ReflexTimeout(t) \/ GapExpires(t)
      PROVE  /\ state' = "FALLBACK_PLAYING"
                  => state = "FALLBACK_PLAYING" /\ UNCHANGED fallbackOn
             /\ fallbackOn' => fallbackOn
  BY <1>8 DEF ReflexTimeout, GapExpires, ctlVars
<1> QED
  BY <1>1, <1>2, <1>3, <1>4, <1>5, <1>6, <1>7, <1>8 DEF PlainCall

LEMMA StopSilences == /\ R!Stop => ~R!isPlaying'
                      /\ F!Stop => ~F!isPlaying'
  BY DEF R!Stop, R!StopOf, R!isPlaying, R!None, F!Stop, F!StopOf, F!isPlaying, F!None

LEMMA PlayPlays == F!Play => F!isPlaying'
  BY DEF F!Play, F!isPlaying, F!None, F!playerVars, F!Free, F!Plays

\* A player goes silent by itself, but does not start by itself.
LEMMA NoSelfStart ==
  /\ FallbackStep => (F!isPlaying' => F!isPlaying)
  /\ ReflexStep => (R!isPlaying' => R!isPlaying)
<1>1. ASSUME NEW i \in F!Plays, F!AudioReady(i) \/ F!Tick(i), F!isPlaying' PROVE F!isPlaying
  BY <1>1 DEF F!AudioReady, F!Tick, F!StreamChunk, F!StopOf, F!isPlaying, F!None
<1>2. ASSUME NEW i \in R!Plays, R!AudioReady(i) \/ R!AudioFails(i) \/ R!Tick(i), R!isPlaying'
      PROVE  R!isPlaying
  BY <1>2 DEF R!AudioReady, R!AudioFails, R!Tick, R!StreamChunk, R!StopOf, R!isPlaying,
     R!None
<1> QED
  BY <1>1, <1>2 DEF FallbackStep, ReflexStep

\* The floor and the fallback agree after every step.
LEMMA NextFloor == FallbackHoldsFloor /\ [PlaybackNext]_playVars => FallbackHoldsFloor'
<1> SUFFICES ASSUME FallbackHoldsFloor, [PlaybackNext]_playVars PROVE FallbackHoldsFloor'
  OBVIOUS
<1>1. UNCHANGED fallbackVars => (F!isPlaying' <=> F!isPlaying)
  BY DEF fallbackVars, F!isPlaying, F!None
<1>2. CASE Command
  <2>1. CASE fallbackOn'
    BY <1>1, <1>2, <2>1, PlainFloor DEF Command, ObeyFallback, FallbackHoldsFloor
  <2>2. CASE ~fallbackOn'
    BY <1>2, <2>2, PlainFloor, StopSilences DEF Command, ObeyFallback, FallbackHoldsFloor
  <2> QED
    BY <2>1, <2>2
<1>3. CASE PlayReflex
  <2>1. UNCHANGED fallbackOn /\ (state' = "FALLBACK_PLAYING" => state = "FALLBACK_PLAYING")
    BY <1>3 DEF PlayReflex, TriggerLaneA
  <2> QED
    BY <1>1, <1>3, <2>1 DEF PlayReflex, FallbackHoldsFloor
<1>4. CASE PlayFallback
  <2>1. CASE Open /\ state # "FALLBACK_PLAYING"
    <3>1. fallbackOn'
      BY <1>4, <2>1 DEF PlayFallback, OnPolicyCancel, PolicyCancelInFallback,
         PolicyCancelToFallback, PolicyCancelOutsideSession
    <3> QED
      BY <1>4, <2>1, <3>1, PlayPlays DEF PlayFallback, FallbackHoldsFloor
  <2>2. CASE ~(Open /\ state # "FALLBACK_PLAYING")
    <3>1. UNCHANGED <<fallbackOn, state>>
      BY <1>4, <2>2 DEF PlayFallback, OnPolicyCancel, PolicyCancelInFallback,
         PolicyCancelToFallback, PolicyCancelOutsideSession, ctlVars
    <3> QED
      BY <1>1, <1>4, <2>2, <3>1 DEF PlayFallback, FallbackHoldsFloor
  <2> QED
    BY <2>1, <2>2
<1>5. CASE HandleClose
  BY <1>5, StopSilences DEF HandleClose, EndSession, FallbackHoldsFloor
<1>6. CASE ReflexStep
  BY <1>1, <1>6 DEF ReflexStep, vars, ctlVars, FallbackHoldsFloor
<1>7. CASE FallbackStep
  <2>1. CASE F!isPlaying /\ ~F!isPlaying'
    <3>1. state' # "FALLBACK_PLAYING"
      BY <1>7, <2>1 DEF FallbackStep, ReportEnd, FallbackCompletes, Open
    <3> QED
      BY <2>1, <3>1 DEF FallbackHoldsFloor
  <2>2. CASE ~(F!isPlaying /\ ~F!isPlaying')
    <3>1. UNCHANGED <<state, fallbackOn>>
      BY <1>7, <2>2 DEF FallbackStep, ReportEnd, vars, ctlVars
    <3> QED
      BY <1>7, <2>2, <3>1, NoSelfStart DEF FallbackHoldsFloor
  <2> QED
    BY <2>1, <2>2
<1>8. CASE UNCHANGED playVars
  BY <1>1, <1>8 DEF playVars, vars, ctlVars, FallbackHoldsFloor
<1> QED
  BY <1>2, <1>3, <1>4, <1>5, <1>6, <1>7, <1>8 DEF PlaybackNext

LEMMA NextReflex == ReflexByCommand /\ [PlaybackNext]_playVars => ReflexByCommand'
<1> SUFFICES ASSUME ReflexByCommand, [PlaybackNext]_playVars, R!isPlaying'
             PROVE  reflexOn'
  BY DEF ReflexByCommand
<1>1. UNCHANGED reflexVars => R!isPlaying
  BY DEF reflexVars, R!isPlaying, R!None
<1>2. CASE Command
  BY <1>2, StopSilences DEF Command, ObeyReflex
<1>3. CASE PlayReflex
  BY <1>1, <1>3 DEF PlayReflex, TriggerLaneA, ReflexByCommand
<1>4. CASE PlayFallback
  BY <1>4, StopSilences DEF PlayFallback, ObeyReflex
<1>5. CASE HandleClose
  BY <1>1, <1>5 DEF HandleClose, EndSession, ReflexByCommand
<1>6. CASE ReflexStep
  BY <1>6, NoSelfStart DEF ReflexStep, vars, ReflexByCommand
<1>7. CASE FallbackStep
  BY <1>1, <1>7 DEF FallbackStep, ReportEnd, FallbackCompletes, vars, ReflexByCommand
<1>8. CASE UNCHANGED playVars
  BY <1>1, <1>8 DEF playVars, vars, ReflexByCommand
<1> QED
  BY <1>2, <1>3, <1>4, <1>5, <1>6, <1>7, <1>8 DEF PlaybackNext

\* Every step is one the arbitrator may take alone, or none of its steps.
LEMMA StepRefines == FallbackHoldsFloor /\ [PlaybackNext]_playVars => [Next]_vars
<1> SUFFICES ASSUME FallbackHoldsFloor, [PlaybackNext]_playVars PROVE [Next]_vars
  OBVIOUS
<1>1. CASE Command
  BY <1>1 DEF Command, PlainCall, Next, CallStep, TimerStep
<1>2. CASE PlayReflex
  BY <1>2 DEF PlayReflex, Next, TimerStep
<1>3. CASE PlayFallback
  BY <1>3 DEF PlayFallback, Next, CallStep
<1>4. CASE HandleClose
  BY <1>4 DEF HandleClose, Next, CallStep
<1>5. CASE ReflexStep
  BY <1>5 DEF ReflexStep
<1>6. CASE FallbackStep
  <2>1. F!isPlaying => fallbackOn
    BY DEF FallbackHoldsFloor
  <2> QED
    BY <1>6, <2>1 DEF FallbackStep, ReportEnd, OnFallbackComplete, Next, CallStep
<1>7. CASE UNCHANGED playVars
  BY <1>7 DEF playVars
<1> QED
  BY <1>1, <1>2, <1>3, <1>4, <1>5, <1>6, <1>7 DEF PlaybackNext

-----------------------------------------------------------------------------
\* Both players keep their types, whatever requests end late and in any order.
THEOREM PlaybackTypes == PlaybackSpec => []PlaybackTypeOK
<1>1. PlaybackInv => PlaybackTypeOK
  BY DEF PlaybackInv, PlaybackTypeOK, R!PlayerInv, F!PlayerInv, R!PlayerTypeOK,
     F!PlayerTypeOK, R!PlayerTypeOK, F!PlayerTypeOK, R!PendingTypes, F!PendingTypes,
     R!PendingTypes, F!PendingTypes, R!isPlaying, F!isPlaying, R!isPlaying,
     F!isPlaying, R!Plays, F!Plays, R!Plays, F!Plays, R!None, F!None, R!None, F!None
<1> QED
  BY <1>1, InitPlaybackInv, NextPlaybackInv, PTL DEF PlaybackSpec

\* A player emits one stream as long as no playback of its was stopped while it
\* awaited its audio.
THEOREM OneStreamEach == PlaybackSpec => []OneStream
<1>1. PlaybackInv => OneStream
  BY DEF PlaybackInv, OneStream, R!PlayerInv, F!PlayerInv, R!PendingInv,
     F!PendingInv, R!OneStreamUnlessLate, F!OneStreamUnlessLate
<1> QED
  BY <1>1, InitPlaybackInv, NextPlaybackInv, PTL DEF PlaybackSpec

\* The floor is never held for a fallback that does not play, so that the
\* arbitrator never waits for a completion that cannot come.
THEOREM FloorHeld == PlaybackSpec => []FallbackHoldsFloor
<1>1. PlaybackInit => FallbackHoldsFloor
  BY DEF PlaybackInit, Init, FallbackHoldsFloor, F!PlayerInit, F!isPlaying
<1> QED
  BY <1>1, NextFloor, PTL DEF PlaybackSpec

\* The arbitrator with its players implements the arbitrator alone.
THEOREM Refinement == PlaybackSpec => ImplementsArbitrator
<1>1. PlaybackInit => Init
  BY DEF PlaybackInit
<1> QED
  BY <1>1, StepRefines, FloorHeld, PTL DEF PlaybackSpec, Spec, ImplementsArbitrator

\* The client hears the reflex only while Lane A owns the floor, until the
\* session has ended or a stale gap has expired.
THEOREM ReflexSilent == PlaybackSpec => ReflexOnlyWithFloor
<1>1. PlaybackInit => ReflexByCommand
  BY DEF PlaybackInit, R!PlayerInit, R!isPlaying, ReflexByCommand
<1>2. PlaybackInv /\ ReflexByCommand' /\ OnlyStaleGapBreaksFloor' /\ [PlaybackNext]_playVars
        => [\A i \in R!Plays : R!Emits(i)
              => state' \in {"A_PLAYING", "ENDED"} \/ staleGap']_playVars
  <2> SUFFICES ASSUME PlaybackInv, ReflexByCommand', OnlyStaleGapBreaksFloor',
                      [PlaybackNext]_playVars, NEW i \in R!Plays, R!Emits(i)
               PROVE  state' \in {"A_PLAYING", "ENDED"} \/ staleGap'
    OBVIOUS
  <2>1. [R!PlayerStep]_(R!playerVars)
    BY ReflexSteps DEF playVars, reflexVars, R!playerVars
  <2>3. R!isPlaying'
    BY <2>1, R!EmitsWhilePlaying DEF PlaybackInv
  <2>4. reflexOn'
    BY <2>3 DEF ReflexByCommand, R!isPlaying, R!None
  <2> QED
    BY <2>4 DEF OnlyStaleGapBreaksFloor, FloorDiscipline
<1> QED
  BY <1>1, <1>2, InitPlaybackInv, NextPlaybackInv, NextReflex, Refinement, FloorCorrect, PTL
     DEF PlaybackSpec, ReflexOnlyWithFloor, ImplementsArbitrator

-----------------------------------------------------------------------------
(* The voice session.                                                        *)

\* The messages in flight on a wire.
On(w) == {w[i] : i \in DOMAIN w}

Msg(m, t) == [m |-> m, turn |-> t]

\* The requests and the replies in flight that speak of a turn.
Orders  == {x \in On(toProvider) : x.m \in {"commit", "create"}}
Answers == {x \in On(toAdapter) : x.m # "error"}

\* Messages, the session and its cycle speak of turns that exist.
TurnInv ==
  /\ commitStep # "idle" => turn # 0
  /\ fate = "live" => cycleTurn # NoTurn
  /\ \A x \in Orders \cup Answers : x.turn <= turn

\* Who commits: with an open microphone the provider, otherwise the client.
ModeInv ==
  /\ voiceMode = "open-mic" =>
       /\ commitStep = "idle" /\ ~pendingCommit /\ ~reopened
       /\ Orders = {}
       /\ lost \in {"no", "done_swallowed"}
  /\ voiceMode # "open-mic" =>
       /\ autoTurn = NoTurn
       /\ \A x \in Answers : x.m # "speech_stopped"
  /\ autoTurn # NoTurn => active = NoTurn

\* A commit about to be skipped belongs to a cycle that still waits for it.
SkipInv ==
  commitStep = "skipping" /\ ~staleGap /\ fate = "live" /\ cycleTurn = turn
    => state = "B_RESPONDING"

\* The answer to turn t is on its way: a step of the session, of the provider or
\* of one of the wires holds it.
Pending(t) ==
  \/ autoTurn = t
  \/ active = t
  \/ commitStep # "idle" /\ turn = t
  \/ Msg("commit", t) \in Orders
  \/ Msg("create", t) \in Orders
  \/ Msg("done", t) \in Answers
  \/ voiceMode # "open-mic" /\ Msg("committed", t) \in Answers

AnswerInv == fate = "live" /\ lost = "no" /\ ~staleGap => Pending(cycleTurn)

\* With an open microphone replies come turn by turn; a turn's speech_stopped is
\* the first of them and its done the last.
Before(x, y) ==
  x.m # "error" /\ y.m # "error" =>
    /\ x.turn <= y.turn
    /\ x.m = "done" \/ y.m = "speech_stopped" => x.turn < y.turn

Ordered(w) == \A i, j \in DOMAIN w : i < j => Before(w[i], w[j])

\* The provider works on the last turn only, and the session never goes back.
OpenMicInv ==
  voiceMode = "open-mic" =>
    /\ Ordered(toAdapter)
    /\ active \in {NoTurn, turn} /\ autoTurn \in {NoTurn, turn}
    /\ \A x \in Answers :
         /\ x.turn >= cycleTurn
         /\ x.m = "done" => x.turn \notin {autoTurn, active}
         /\ x.m = "speech_stopped" =>
              /\ x.turn > cycleTurn
              /\ x.turn \in {autoTurn, active} \/ Msg("done", x.turn) \in Answers

\* The gate that mutes a cycle whose user has committed or cancelled.
GateInv ==
  /\ vetoed \subseteq 1..cycleTurn
  /\ fate = "live" /\ ~staleGap /\ ~reopened
       /\ (voiceMode # "open-mic" \/ cycleTurn \in vetoed)
         => audioStopped

VInv == /\ IInv /\ VoiceTypeOK /\ TurnInv /\ ModeInv /\ SkipInv /\ AnswerInv
        /\ OpenMicInv /\ GateInv

-----------------------------------------------------------------------------
\* Taking the first message off a wire.
LEMMA OnTail ==
  ASSUME NEW S, NEW w \in Seq(S), w # <<>>
  PROVE  /\ Tail(w) \in Seq(S) /\ Head(w) \in S
         /\ Head(w) \in On(w)
         /\ On(w) = {Head(w)} \cup On(Tail(w))
<1>1. /\ Tail(w) \in Seq(S) /\ Head(w) \in S /\ Head(w) = w[1]
      /\ Len(w) \in Nat /\ Len(w) >= 1 /\ Len(Tail(w)) = Len(w) - 1
      /\ DOMAIN w = 1..Len(w) /\ DOMAIN Tail(w) = 1..Len(Tail(w))
      /\ \A i \in 1..Len(Tail(w)) : Tail(w)[i] = w[i + 1]
  BY HeadTailProperties, LenProperties, EmptySeq
<1>2. On(w) \subseteq {Head(w)} \cup On(Tail(w))
  <2> SUFFICES ASSUME NEW i \in 1..Len(w), i # 1
               PROVE  w[i] \in On(Tail(w))
    BY <1>1 DEF On
  <2>1. i - 1 \in 1..Len(Tail(w)) /\ Tail(w)[i - 1] = w[i]
    BY <1>1
  <2> QED
    BY <1>1, <2>1 DEF On
<1>3. On(Tail(w)) \subseteq On(w)
  <2> SUFFICES ASSUME NEW i \in 1..Len(Tail(w)) PROVE Tail(w)[i] \in On(w)
    BY <1>1 DEF On
  <2> QED
    BY <1>1 DEF On
<1>4. Head(w) \in On(w)
  BY <1>1 DEF On
<1> QED
  BY <1>1, <1>2, <1>3, <1>4

\* Putting messages on a wire.
LEMMA OnConcat ==
  ASSUME NEW S, NEW w \in Seq(S), NEW ms \in Seq(S)
  PROVE  w \o ms \in Seq(S) /\ On(w \o ms) = On(w) \cup On(ms)
<1>1. /\ w \o ms \in Seq(S)
      /\ Len(w) \in Nat /\ Len(ms) \in Nat /\ Len(w \o ms) = Len(w) + Len(ms)
      /\ DOMAIN w = 1..Len(w) /\ DOMAIN ms = 1..Len(ms)
      /\ DOMAIN (w \o ms) = 1..Len(w \o ms)
      /\ \A i \in 1..Len(w) + Len(ms) :
           (w \o ms)[i] = IF i <= Len(w) THEN w[i] ELSE ms[i - Len(w)]
  BY ConcatProperties, LenProperties
<1>2. On(w \o ms) \subseteq On(w) \cup On(ms)
  <2> SUFFICES ASSUME NEW i \in 1..Len(w) + Len(ms)
               PROVE  (w \o ms)[i] \in On(w) \cup On(ms)
    BY <1>1 DEF On
  <2>1. CASE i <= Len(w)
    BY <1>1, <2>1 DEF On
  <2>2. CASE i > Len(w)
    BY <1>1, <2>2, i - Len(w) \in 1..Len(ms) DEF On
  <2> QED
    BY <1>1, <2>1, <2>2
<1>3. On(w) \subseteq On(w \o ms)
  <2> SUFFICES ASSUME NEW i \in 1..Len(w) PROVE w[i] \in On(w \o ms)
    BY <1>1 DEF On
  <2> QED
    BY <1>1 DEF On
<1>4. On(ms) \subseteq On(w \o ms)
  <2> SUFFICES ASSUME NEW i \in 1..Len(ms) PROVE ms[i] \in On(w \o ms)
    BY <1>1 DEF On
  <2>1. i + Len(w) \in 1..Len(w) + Len(ms) /\ (w \o ms)[i + Len(w)] = ms[i]
    BY <1>1
  <2> QED
    BY <1>1, <2>1 DEF On
<1> QED
  BY <1>1, <1>2, <1>3, <1>4

\* What the code puts on a wire at once is one message or two, or none.
LEMMA OnNone == ASSUME NEW S PROVE <<>> \in Seq(S) /\ On(<<>>) = {}
  BY DEF On

LEMMA OnOne == ASSUME NEW S, NEW a \in S PROVE <<a>> \in Seq(S) /\ On(<<a>>) = {a}
  BY DEF On

LEMMA OnTwo ==
  ASSUME NEW S, NEW a \in S, NEW b \in S
  PROVE  <<a, b>> \in Seq(S) /\ On(<<a, b>>) = {a, b}
<1>1. DOMAIN <<a, b>> = {1, 2} /\ <<a, b>>[1] = a /\ <<a, b>>[2] = b
  OBVIOUS
<1>2. On(<<a, b>>) = {a, b}
  BY <1>1, Zenon DEF On
<1> QED
  BY <1>2

\* Order survives a message taken off the front.
LEMMA OrderedTail ==
  ASSUME NEW S, NEW w \in Seq(S), w # <<>>, Ordered(w)
  PROVE  Ordered(Tail(w)) /\ \A y \in On(Tail(w)) : Before(Head(w), y)
<1>1. /\ Head(w) = w[1] /\ Len(w) \in Nat /\ Len(w) >= 1 /\ Len(Tail(w)) = Len(w) - 1
      /\ DOMAIN w = 1..Len(w) /\ DOMAIN Tail(w) = 1..Len(Tail(w))
      /\ \A i \in 1..Len(Tail(w)) : Tail(w)[i] = w[i + 1]
  BY HeadTailProperties, LenProperties, EmptySeq
<1>2. ASSUME NEW i \in 1..Len(Tail(w)), NEW j \in 1..Len(Tail(w)), i < j
      PROVE  Before(Tail(w)[i], Tail(w)[j])
  <2>1. i + 1 \in DOMAIN w /\ j + 1 \in DOMAIN w /\ i + 1 < j + 1
    BY <1>1, <1>2
  <2> QED
    BY <1>1, <2>1 DEF Ordered
<1>3. ASSUME NEW j \in 1..Len(Tail(w)) PROVE Before(Head(w), Tail(w)[j])
  <2>1. 1 \in DOMAIN w /\ j + 1 \in DOMAIN w /\ 1 < j + 1
    BY <1>1
  <2> QED
    BY <1>1, <2>1 DEF Ordered
<1> QED
  BY <1>1, <1>2, <1>3 DEF Ordered, On

\* Order survives messages that may follow all those on the wire.
LEMMA OrderedConcat ==
  ASSUME NEW S, NEW w \in Seq(S), NEW ms \in Seq(S), Ordered(w), Ordered(ms),
         \A x \in On(w), y \in On(ms) : Before(x, y)
  PROVE  Ordered(w \o ms)
<1>1. /\ Len(w) \in Nat /\ Len(ms) \in Nat /\ Len(w \o ms) = Len(w) + Len(ms)
      /\ DOMAIN w = 1..Len(w) /\ DOMAIN ms = 1..Len(ms)
      /\ DOMAIN (w \o ms) = 1..Len(w) + Len(ms)
      /\ \A i \in 1..Len(w) + Len(ms) :
           (w \o ms)[i] = IF i <= Len(w) THEN w[i] ELSE ms[i - Len(w)]
  BY ConcatProperties, LenProperties
<1> SUFFICES ASSUME NEW i \in 1..Len(w) + Len(ms), NEW j \in 1..Len(w) + Len(ms), i < j
             PROVE  Before((w \o ms)[i], (w \o ms)[j])
  BY <1>1 DEF Ordered
<1>2. CASE j <= Len(w)
  BY <1>1, <1>2 DEF Ordered
<1>3. CASE i > Len(w)
  <2>1. /\ i - Len(w) \in DOMAIN ms /\ j - Len(w) \in DOMAIN ms
        /\ i - Len(w) < j - Len(w)
        /\ (w \o ms)[i] = ms[i - Len(w)] /\ (w \o ms)[j] = ms[j - Len(w)]
    BY <1>1, <1>3
  <2> QED
    BY <2>1 DEF Ordered
<1>4. CASE i <= Len(w) /\ j > Len(w)
  <2>1. /\ i \in DOMAIN w /\ j - Len(w) \in DOMAIN ms
        /\ (w \o ms)[i] = w[i] /\ (w \o ms)[j] = ms[j - Len(w)]
    BY <1>1, <1>4
  <2>2. w[i] \in On(w) /\ ms[j - Len(w)] \in On(ms)
    BY <2>1 DEF On
  <2> QED
    BY <2>1, <2>2
<1> QED
  BY <1>1, <1>2, <1>3, <1>4

-----------------------------------------------------------------------------
\* Every step of a voice session is a step of its arbitrator.
LEMMA VoiceStepsArbitrator == [VoiceNext]_allVars => [Next]_vars
<1> SUFFICES ASSUME VoiceNext, ~UNCHANGED vars PROVE Next
  BY DEF allVars
<1>1. CASE ClientStep
  BY <1>1 DEF ClientStep, StartVoice, AudioChunk, AudioStop, AudioCommit, CommitUtterance,
     BargeIn, Next, CallStep
<1>2. CASE HandleReply
  BY <1>2 DEF HandleReply, SpeechStopped, Committed, ResponseCreated, ResponseAudio,
     ResponseDone, ProviderError, Next, CallStep
<1>3. CASE FinishCommit \/ PolicyDecision \/ FallbackDone \/ TimerExpires
  BY <1>3 DEF FinishCommit, CommitSkipped, CommitSent, PolicyDecision, FallbackDone,
     TimerExpires, Next, CallStep
<1>4. CASE ProviderStep
  BY <1>4 DEF ProviderStep, TakeRequest, TakeAudio, TakeClear, TakeCommit, TakeCreate,
     TakeCancel, Take, VadTurn, AutoCreate, SendChunk, FinishResponse
<1> QED
  BY <1>1, <1>2, <1>3, <1>4 DEF VoiceNext, ServerStep

\* So the arbitrator's own invariant holds in every voice session.
LEMMA ArbitratorHolds == VoiceSpec => []IInv
<1>1. VoiceInit => Init
  BY DEF VoiceInit
<1>2. VoiceSpec => Spec
  BY <1>1, VoiceStepsArbitrator, PTL DEF VoiceSpec, Spec
<1> QED
  BY <1>2, Inductive, PTL

-----------------------------------------------------------------------------
\* A message with a turn is determined by its kind and its turn.
LEMMA ReplyShape ==
  ASSUME NEW x \in Replies, x.m # "error"
  PROVE  x = Msg(x.m, x.turn) /\ x.turn \in Turns
  BY DEF Replies, Msg

LEMMA RequestShape ==
  ASSUME NEW x \in Requests, x.m \in {"commit", "create"}
  PROVE  x = Msg(x.m, x.turn) /\ x.turn \in Turns
  BY DEF Requests, Msg

\* What the adapter's handlers take off their wire.
LEMMA Receiving ==
  ASSUME VoiceTypeOK, NEW m, Receive(m)
  PROVE  /\ toAdapter' \in Seq(Replies)
         /\ Head(toAdapter) \in Replies /\ Head(toAdapter).m = m
         /\ Head(toAdapter) \in On(toAdapter)
         /\ On(toAdapter) = {Head(toAdapter)} \cup On(toAdapter')
<1>1. toAdapter \in Seq(Replies) /\ toAdapter # <<>> /\ Head(toAdapter).m = m
      /\ toAdapter' = Tail(toAdapter)
  BY DEF VoiceTypeOK, Receive
<1> QED
  BY <1>1, OnTail

\* What the provider takes off its wire.
LEMMA Taking ==
  ASSUME VoiceTypeOK, NEW m, Take(m)
  PROVE  /\ toProvider' \in Seq(Requests)
         /\ Head(toProvider) \in Requests /\ Head(toProvider).m = m
         /\ Head(toProvider) \in On(toProvider)
         /\ On(toProvider) = {Head(toProvider)} \cup On(toProvider')
<1>1. toProvider \in Seq(Requests) /\ toProvider # <<>> /\ Head(toProvider).m = m
      /\ toProvider' = Tail(toProvider)
  BY DEF VoiceTypeOK, Take
<1> QED
  BY <1>1, OnTail

\* What the adapter sends: one message, or two.
LEMMA Sending ==
  ASSUME VoiceTypeOK, NEW a \in Requests, NEW b \in Requests
  PROVE  /\ SendRequests(<<a>>) =>
              toProvider' \in Seq(Requests) /\ On(toProvider') = On(toProvider) \cup {a}
         /\ SendRequests(<<a, b>>) =>
              toProvider' \in Seq(Requests) /\ On(toProvider') = On(toProvider) \cup {a, b}
<1>1. toProvider \in Seq(Requests) /\ <<a>> \in Seq(Requests) /\ <<a, b>> \in Seq(Requests)
      /\ On(<<a>>) = {a} /\ On(<<a, b>>) = {a, b}
  BY OnOne, OnTwo DEF VoiceTypeOK
<1>2. /\ toProvider \o <<a>> \in Seq(Requests)
      /\ On(toProvider \o <<a>>) = On(toProvider) \cup On(<<a>>)
  BY <1>1, OnConcat, Zenon
<1>3. /\ toProvider \o <<a, b>> \in Seq(Requests)
      /\ On(toProvider \o <<a, b>>) = On(toProvider) \cup On(<<a, b>>)
  BY <1>1, OnConcat, Zenon
<1> QED
  BY <1>1, <1>2, <1>3, Zenon DEF SendRequests

\* What the provider answers with: one message.
LEMMA Replying ==
  ASSUME VoiceTypeOK, NEW a \in Replies, Reply(<<a>>)
  PROVE  /\ toAdapter' \in Seq(Replies) /\ On(toAdapter') = On(toAdapter) \cup {a}
         /\ Ordered(toAdapter) /\ (\A x \in On(toAdapter) : Before(x, a)) => Ordered(toAdapter')
<1>1. toAdapter \in Seq(Replies) /\ <<a>> \in Seq(Replies) /\ On(<<a>>) = {a}
      /\ toAdapter' = toAdapter \o <<a>>
  BY OnOne DEF VoiceTypeOK, Reply
<1>2. toAdapter' \in Seq(Replies) /\ On(toAdapter') = On(toAdapter) \cup On(<<a>>)
  <2>1. /\ toAdapter \o <<a>> \in Seq(Replies)
        /\ On(toAdapter \o <<a>>) = On(toAdapter) \cup On(<<a>>)
    BY <1>1, OnConcat, Zenon
  <2> QED
    BY <1>1, <2>1, Zenon
<1>3. Ordered(<<a>>)
  BY DEF Ordered
<1>4. ASSUME Ordered(toAdapter), \A x \in On(toAdapter) : Before(x, a)
      PROVE  Ordered(toAdapter')
  BY <1>1, <1>3, <1>4, OrderedConcat
<1> QED
  BY <1>1, <1>2, <1>4

\* The VAD ends a turn: the done of the answer it interrupts, if any, then the
\* two notices of the turn.
Interrupted == IF active # NoTurn THEN {Msg("done", active)} ELSE {}
Notices == {Msg("speech_stopped", turn + 1), Msg("committed", turn + 1)}

LEMMA VadReplying ==
  ASSUME VoiceTypeOK, VadTurn
  PROVE  /\ toAdapter' \in Seq(Replies)
         /\ On(toAdapter') = On(toAdapter) \cup Interrupted \cup Notices
         /\ /\ Ordered(toAdapter)
            /\ \A x \in On(toAdapter), y \in Interrupted \cup Notices : Before(x, y)
            => Ordered(toAdapter')
<1> DEFINE ds == IF active # NoTurn THEN <<Msg("done", active)>> ELSE <<>>
           ns == <<Msg("speech_stopped", turn + 1), Msg("committed", turn + 1)>>
           ms == ds \o ns
<1>1. /\ toAdapter \in Seq(Replies) /\ active \in 0..turn /\ turn + 1 \in Turns
      /\ turn \in Nat /\ toAdapter' = toAdapter \o ms
  BY MaxCyclesAssumption DEF VoiceTypeOK, VadTurn, Reply, Msg, Turns
<1>2. /\ Msg("speech_stopped", turn + 1) \in Replies
      /\ Msg("committed", turn + 1) \in Replies
      /\ active # NoTurn => Msg("done", active) \in Replies
  BY <1>1, MaxCyclesAssumption DEF Replies, Msg, Turns, NoTurn
<1>3. /\ ds \in Seq(Replies) /\ ns \in Seq(Replies)
      /\ On(ds) = Interrupted /\ On(ns) = Notices
  <2> DEFINE a == Msg("speech_stopped", turn + 1)
             b == Msg("committed", turn + 1)
             d == Msg("done", active)
  <2>1. ns \in Seq(Replies) /\ On(ns) = Notices
    <3>1. a \in Replies /\ b \in Replies /\ ns = <<a, b>> /\ Notices = {a, b}
      BY <1>2 DEF Notices
    <3> HIDE DEF a, b, ns
    <3> QED
      BY <3>1, OnTwo
  <2>2. CASE active = NoTurn
    <3>1. ds = <<>> /\ Interrupted = {}
      BY <2>2, Zenon DEF Interrupted
    <3> HIDE DEF ds, ns
    <3>2. <<>> \in Seq(Replies) /\ On(<<>>) = {}
      BY OnNone
    <3> QED
      BY <2>1, <3>1, <3>2, Zenon
  <2>3. CASE active # NoTurn
    <3>1. d \in Replies /\ ds = <<d>> /\ Interrupted = {d}
      BY <1>2, <2>3, Zenon DEF Interrupted
    <3> HIDE DEF d, ds, ns
    <3>2. <<d>> \in Seq(Replies) /\ On(<<d>>) = {d}
      BY <3>1, OnOne
    <3> QED
      BY <2>1, <3>1, <3>2, Zenon
  <2> QED
    BY <2>1, <2>2, <2>3
<1>4. Ordered(ds)
  BY DEF Ordered
<1>5. Ordered(ns)
  <2>1. DOMAIN ns = {1, 2} /\ ns[1] = Msg("speech_stopped", turn + 1)
        /\ ns[2] = Msg("committed", turn + 1)
    OBVIOUS
  <2>2. Before(Msg("speech_stopped", turn + 1), Msg("committed", turn + 1))
    BY <1>1 DEF Before, Msg
  <2> HIDE DEF ns
  <2> QED
    BY <2>1, <2>2 DEF Ordered
<1>6. \A x \in Interrupted, y \in Notices : Before(x, y)
  BY <1>1 DEF Interrupted, Notices, Before, Msg, NoTurn
<1> HIDE DEF ds, ns
<1>7. ms \in Seq(Replies) /\ On(ms) = Interrupted \cup Notices
  BY <1>3, OnConcat
<1>8. Ordered(ms)
  BY <1>3, <1>4, <1>5, <1>6, OrderedConcat
<1> HIDE DEF ms
<1>9. toAdapter' \in Seq(Replies) /\ On(toAdapter') = On(toAdapter) \cup On(ms)
  BY <1>1, <1>7, OnConcat
<1>10. ASSUME Ordered(toAdapter),
              \A x \in On(toAdapter), y \in Interrupted \cup Notices : Before(x, y)
       PROVE  Ordered(toAdapter')
  BY <1>1, <1>7, <1>8, <1>10, OrderedConcat
<1> QED
  BY <1>7, <1>9, <1>10

-----------------------------------------------------------------------------
\* Requests without a turn.
LEMMA ControlRequests ==
  ASSUME VoiceTypeOK
  PROVE  \A a, b \in {[m |-> "append"], [m |-> "clear"], [m |-> "cancel"]} :
           /\ SendRequests(<<a>>) =>
                toProvider' \in Seq(Requests) /\ On(toProvider') = On(toProvider) \cup {a}
           /\ SendRequests(<<a, b>>) =>
                toProvider' \in Seq(Requests) /\ On(toProvider') = On(toProvider) \cup {a, b}
<1>1. {[m |-> "append"], [m |-> "clear"], [m |-> "cancel"]} \subseteq Requests
  BY DEF Requests
<1> QED
  BY <1>1, Sending

\* Types: the handlers the client calls.
LEMMA ClientTypes ==
  VoiceTypeOK /\ TurnInv /\ ClientStep => VoiceTypeOK'
<1> SUFFICES ASSUME VoiceTypeOK, TurnInv, ClientStep PROVE VoiceTypeOK'
  OBVIOUS
<1>1. LiveTurn \subseteq Turns
  BY MaxCyclesAssumption DEF LiveTurn, TurnInv, VoiceTypeOK, Turns, NoTurn
<1>2. CASE StartVoice
  BY <1>2 DEF StartVoice, VoiceTypeOK, bufferVars, providerVars, ghostVars
<1>3. CASE AudioChunk
  <2>1. toProvider' \in Seq(Requests)
    BY ControlRequests, <1>3 DEF AudioChunk
  <2> QED
    BY <1>3, <2>1 DEF AudioChunk, VoiceTypeOK, laneBVars, providerVars, ghostVars
<1>4. CASE AudioStop
  <2>1. toProvider' \in Seq(Requests)
    BY ControlRequests, <1>4 DEF AudioStop
  <2>2. vetoed' \subseteq Turns
    BY <1>1, <1>4 DEF AudioStop, VoiceTypeOK
  <2> QED
    BY <1>4, <2>1, <2>2 DEF AudioStop, CancelLaneB, VoiceTypeOK, laneBVars, providerVars
<1>5. CASE AudioCommit
  <2>1. turn' \in 0..MaxCycles /\ turn' = turn + 1
    BY <1>5, MaxCyclesAssumption DEF AudioCommit, CommitUtterance, VoiceTypeOK
  <2>2. cycleTurn' \in 0..turn' /\ autoTurn' \in 0..turn' /\ active' \in 0..turn'
    BY <1>5, <2>1 DEF AudioCommit, CommitUtterance, VoiceTypeOK, providerVars
  <2> QED
    BY <1>5, <2>1, <2>2 DEF AudioCommit, CommitUtterance, VoiceTypeOK, laneBVars,
       bufferVars, providerVars
<1>6. CASE BargeIn
  <2>1. toProvider' \in Seq(Requests)
    BY ControlRequests, <1>6 DEF BargeIn, VoiceTypeOK
  <2>2. vetoed' \subseteq Turns
    BY <1>1, <1>6 DEF BargeIn, VoiceTypeOK
  <2> QED
    BY <1>6, <2>1, <2>2 DEF BargeIn, CancelLaneB, VoiceTypeOK, laneBVars, bufferVars,
       providerVars
<1> QED
  BY <1>2, <1>3, <1>4, <1>5, <1>6 DEF ClientStep

\* Types: the rest of the server.
LEMMA ServerTypes ==
  VoiceTypeOK /\ TurnInv /\ ServerStep => VoiceTypeOK'
<1> SUFFICES ASSUME VoiceTypeOK, TurnInv, ServerStep PROVE VoiceTypeOK'
  OBVIOUS
<1>1. CASE SpeechStopped
  <2>1. /\ toAdapter' \in Seq(Replies)
        /\ Head(toAdapter).turn \in 0..turn
    BY <1>1, Receiving, ReplyShape DEF SpeechStopped, TurnInv, Answers, VoiceTypeOK, Turns
  <2> QED
    BY <1>1, <2>1 DEF SpeechStopped, Receive, VoiceTypeOK, serverVars, providerVars
<1>2. CASE Committed
  <2>1. toAdapter' \in Seq(Replies) /\ Head(toAdapter).turn \in Turns
    BY <1>2, Receiving, ReplyShape DEF Committed
  <2>2. [m |-> "create", turn |-> Head(toAdapter).turn] \in Requests
    BY <2>1 DEF Requests
  <2>3. toProvider' \in Seq(Requests)
    BY <1>2, <2>2, Sending DEF Committed, VoiceTypeOK
  <2> QED
    BY <1>2, <2>1, <2>3 DEF Committed, Receive, LoseIf, VoiceTypeOK, laneBVars, providerVars
<1>3. CASE ResponseCreated
  <2>1. toAdapter' \in Seq(Replies)
    BY <1>3, Receiving DEF ResponseCreated
  <2>2. toProvider' \in Seq(Requests)
    BY <1>3, ControlRequests DEF ResponseCreated
  <2> QED
    <3>1. UNCHANGED <<voiceMode, audioStopped, pendingCommit, localAudio, commitStep,
                      providerVars, ghostVars>>
      BY <1>3 DEF ResponseCreated, Receive, bufferVars
    <3>2. responding' = TRUE /\ isResponding' = TRUE /\ firstAudioEmitted' = FALSE
      BY <1>3 DEF ResponseCreated
    <3> QED
      BY <2>1, <2>2, <3>1, <3>2 DEF VoiceTypeOK, providerVars, ghostVars
<1>4. CASE ResponseAudio
  <2>1. toAdapter' \in Seq(Replies)
    BY <1>4, Receiving DEF ResponseAudio
  <2> QED
    BY <1>4, <2>1 DEF ResponseAudio, Receive, VoiceTypeOK, bufferVars, providerVars, ghostVars
<1>5. CASE ResponseDone
  <2>1. toAdapter' \in Seq(Replies)
    BY <1>5, Receiving DEF ResponseDone
  <2> QED
    BY <1>5, <2>1 DEF ResponseDone, Receive, LoseIf, VoiceTypeOK, bufferVars, providerVars
<1>6. CASE ProviderError
  <2>1. toAdapter' \in Seq(Replies)
    BY <1>6, Receiving DEF ProviderError
  <2> QED
    BY <1>6, <2>1 DEF ProviderError, Receive, VoiceTypeOK, bufferVars, providerVars, ghostVars
<1>7. CASE CommitSkipped
  BY <1>7 DEF CommitSkipped, VoiceTypeOK, laneBVars, bufferVars, providerVars
<1>8. CASE CommitSent
  <2>1. [m |-> "commit", turn |-> turn] \in Requests
    BY <1>8, MaxCyclesAssumption DEF CommitSent, TurnInv, VoiceTypeOK, Requests, Turns
  <2>2. toProvider' \in Seq(Requests)
    BY <1>8, <2>1, Sending DEF CommitSent
  <2> QED
    BY <1>8, <2>2 DEF CommitSent, VoiceTypeOK, laneBVars, providerVars, ghostVars
<1>9. CASE PolicyDecision
  <2>1. toProvider' \in Seq(Requests)
    BY <1>9, ControlRequests DEF PolicyDecision, VoiceTypeOK
  <2>2. vetoed' \subseteq Turns
    BY <1>9, MaxCyclesAssumption DEF PolicyDecision, LiveTurn, TurnInv, VoiceTypeOK, Turns,
       NoTurn
  <2>3. vetoes' \in 0..MaxVetoes
    BY <1>9, VoiceAssumption DEF PolicyDecision, VoiceTypeOK
  <2> QED
    BY <1>9, <2>1, <2>2, <2>3 DEF PolicyDecision, CancelLaneB, VoiceTypeOK, laneBVars,
       bufferVars, providerVars
<1>10. CASE FallbackDone
  BY <1>10 DEF FallbackDone, VoiceTypeOK, laneBVars, bufferVars, providerVars, ghostVars
<1>11. CASE TimerExpires
  BY <1>11 DEF TimerExpires, VoiceTypeOK, sessionVars, serverVars, providerVars, ghostVars
<1> QED
  BY <1>1, <1>2, <1>3, <1>4, <1>5, <1>6, <1>7, <1>8, <1>9, <1>10, <1>11
     DEF ServerStep, HandleReply, FinishCommit

\* Types: the provider.
LEMMA ProviderTypes ==
  VoiceTypeOK /\ TurnInv /\ ProviderStep => VoiceTypeOK'
<1> SUFFICES ASSUME VoiceTypeOK, TurnInv, ProviderStep PROVE VoiceTypeOK'
  OBVIOUS
<1> USE DEF serverVars
<1>1. CASE TakeAudio
  <2>1. toProvider' \in Seq(Requests)
    BY <1>1, Taking DEF TakeAudio
  <2> QED
    BY <1>1, <2>1 DEF TakeAudio, Take, VoiceTypeOK
<1>2. CASE TakeClear
  <2>1. toProvider' \in Seq(Requests)
    BY <1>2, Taking DEF TakeClear
  <2> QED
    BY <1>2, <2>1 DEF TakeClear, Take, VoiceTypeOK
<1>3. CASE TakeCommit
  <2>1. toProvider' \in Seq(Requests) /\ Head(toProvider).turn \in Turns
    BY <1>3, Taking, RequestShape DEF TakeCommit
  <2>2. /\ [m |-> "committed", turn |-> Head(toProvider).turn] \in Replies
        /\ [m |-> "error"] \in Replies
    BY <2>1 DEF Replies
  <2>3. toAdapter' \in Seq(Replies)
    BY <1>3, <2>2, Replying DEF TakeCommit
  <2> QED
    BY <1>3, <2>1, <2>3 DEF TakeCommit, Take, LoseIf, VoiceTypeOK
<1>4. CASE TakeCreate
  <2>1. /\ toProvider' \in Seq(Requests) /\ Head(toProvider).turn \in Turns
        /\ Head(toProvider) \in Orders
    BY <1>4, Taking, RequestShape DEF TakeCreate, Orders
  <2>2. /\ [m |-> "created", turn |-> Head(toProvider).turn] \in Replies
        /\ [m |-> "error"] \in Replies
    BY <2>1 DEF Replies
  <2>3. toAdapter' \in Seq(Replies)
    BY <1>4, <2>2, Replying DEF TakeCreate
  <2> QED
    <3>1. Head(toProvider).turn \in 0..turn
      BY <2>1 DEF TurnInv, VoiceTypeOK, Turns
    <3> QED
      BY <1>4, <2>1, <2>3, <3>1, VoiceAssumption DEF TakeCreate, Take, LoseIf, VoiceTypeOK
<1>5. CASE TakeCancel
  <2>1. toProvider' \in Seq(Requests)
    BY <1>5, Taking DEF TakeCancel
  <2>2. /\ active # NoTurn => [m |-> "done", turn |-> active] \in Replies
        /\ [m |-> "error"] \in Replies
    BY MaxCyclesAssumption DEF Replies, VoiceTypeOK, Turns, NoTurn
  <2>3. toAdapter' \in Seq(Replies)
    BY <1>5, <2>2, Replying DEF TakeCancel
  <2> QED
    BY <1>5, <2>1, <2>3 DEF TakeCancel, Take, VoiceTypeOK, NoTurn
<1>6. CASE VadTurn
  <2>1. toAdapter' \in Seq(Replies)
    BY <1>6, VadReplying
  <2> QED
    <3>1. /\ turn' \in 0..MaxCycles /\ autoTurn' \in 0..turn' /\ active' \in 0..turn'
          /\ cycleTurn' \in 0..turn'
      BY <1>6, MaxCyclesAssumption DEF VadTurn, VoiceTypeOK, NoTurn
    <3> QED
      BY <1>6, <2>1, <3>1 DEF VadTurn, VoiceTypeOK
<1>7. CASE AutoCreate
  <2>1. [m |-> "created", turn |-> autoTurn] \in Replies
    BY <1>7, MaxCyclesAssumption DEF AutoCreate, Replies, VoiceTypeOK, Turns, NoTurn
  <2>2. toAdapter' \in Seq(Replies)
    BY <1>7, <2>1, Replying DEF AutoCreate
  <2> QED
    BY <1>7, <2>2, VoiceAssumption DEF AutoCreate, VoiceTypeOK, NoTurn, ghostVars
<1>8. CASE SendChunk
  <2>1. [m |-> "audio", turn |-> active] \in Replies
    BY <1>8, MaxCyclesAssumption DEF SendChunk, Replies, VoiceTypeOK, Turns, NoTurn
  <2>2. toAdapter' \in Seq(Replies)
    BY <1>8, <2>1, Replying DEF SendChunk
  <2> QED
    BY <1>8, <2>2, VoiceAssumption DEF SendChunk, VoiceTypeOK, ghostVars
<1>9. CASE FinishResponse
  <2>1. [m |-> "done", turn |-> active] \in Replies
    BY <1>9, MaxCyclesAssumption DEF FinishResponse, Replies, VoiceTypeOK, Turns, NoTurn
  <2>2. toAdapter' \in Seq(Replies)
    BY <1>9, <2>1, Replying DEF FinishResponse
  <2> QED
    BY <1>9, <2>2 DEF FinishResponse, VoiceTypeOK, NoTurn, ghostVars
<1> QED
  BY <1>1, <1>2, <1>3, <1>4, <1>5, <1>6, <1>7, <1>8, <1>9 DEF ProviderStep, TakeRequest

-----------------------------------------------------------------------------
\* These steps leave alone every message that speaks of a turn.
QuietStep == \/ StartVoice \/ AudioChunk \/ AudioStop \/ AudioCommit \/ BargeIn
             \/ CommitSkipped \/ PolicyDecision \/ FallbackDone \/ TimerExpires
             \/ TakeAudio \/ TakeClear

LEMMA QuietWires ==
  ASSUME VoiceTypeOK, QuietStep
  PROVE  toAdapter' = toAdapter /\ Answers' = Answers /\ Orders' = Orders
<1>1. toAdapter' = toAdapter
  BY DEF QuietStep, StartVoice, AudioChunk, AudioStop, AudioCommit, CommitUtterance, BargeIn,
     CommitSkipped, PolicyDecision, FallbackDone, TimerExpires, sessionVars, TakeAudio, TakeClear
<1>2. Orders' = Orders
  <2>1. ASSUME NEW a \in {[m |-> "append"], [m |-> "clear"], [m |-> "cancel"]},
               NEW b \in {[m |-> "append"], [m |-> "clear"], [m |-> "cancel"]},
               SendRequests(<<a>>) \/ SendRequests(<<a, b>>)
        PROVE  Orders' = Orders
    BY <2>1, ControlRequests DEF Orders
  <2>2. toProvider' = toProvider => Orders' = Orders
    BY DEF Orders
  <2>3. CASE \/ StartVoice \/ AudioCommit \/ CommitSkipped \/ FallbackDone \/ TimerExpires
    BY <2>2, <2>3 DEF StartVoice, AudioCommit, CommitUtterance, CommitSkipped, FallbackDone,
       TimerExpires, sessionVars
  <2>4. CASE AudioChunk \/ AudioStop \/ BargeIn \/ PolicyDecision
    BY <2>1, <2>2, <2>4 DEF AudioChunk, AudioStop, BargeIn, PolicyDecision
  <2>5. ASSUME NEW m \in {"append", "clear"}, Take(m) PROVE Orders' = Orders
    BY <2>5, Taking DEF Orders
  <2> QED
    BY <2>3, <2>4, <2>5 DEF QuietStep, TakeAudio, TakeClear
<1> QED
  BY <1>1, <1>2 DEF Answers

\* The adapter handles a reply.
LEMMA HandlingWires ==
  ASSUME VoiceTypeOK, NEW m, Receive(m)
  PROVE  /\ m = "error" => Answers' = Answers
         /\ m # "error" => /\ Head(toAdapter) = Msg(m, Head(toAdapter).turn)
                           /\ Head(toAdapter).turn \in Turns
                           /\ Head(toAdapter) \in Answers
                           /\ Answers = {Head(toAdapter)} \cup Answers'
         /\ Ordered(toAdapter) =>
              Ordered(toAdapter') /\ \A y \in Answers' : Before(Head(toAdapter), y)
<1>1. /\ Head(toAdapter) \in Replies /\ Head(toAdapter).m = m
      /\ On(toAdapter) = {Head(toAdapter)} \cup On(toAdapter')
  BY Receiving
<1>2. ASSUME Ordered(toAdapter)
      PROVE  Ordered(toAdapter') /\ \A y \in On(toAdapter') : Before(Head(toAdapter), y)
  <2>1. toAdapter \in Seq(Replies) /\ toAdapter # <<>> /\ toAdapter' = Tail(toAdapter)
    BY DEF VoiceTypeOK, Receive
  <2> QED
    BY <1>2, <2>1, OrderedTail
<1>3. CASE m = "error"
  BY <1>1, <1>2, <1>3 DEF Answers
<1>4. CASE m # "error"
  <2>1. Head(toAdapter) = Msg(m, Head(toAdapter).turn) /\ Head(toAdapter).turn \in Turns
    BY <1>1, <1>4, ReplyShape
  <2> QED
    BY <1>1, <1>2, <1>4, <2>1 DEF Answers
<1> QED
  BY <1>3, <1>4

\* What the handlers and the end of the safety window send.
LEMMA SendingWires ==
  ASSUME VoiceTypeOK
  PROVE  /\ SpeechStopped \/ ResponseCreated \/ ResponseAudio \/ ResponseDone
              \/ ProviderError => Orders' = Orders
         /\ Committed =>
              Orders' = IF pendingCommit /\ ~responding
                          THEN Orders \cup {Msg("create", Head(toAdapter).turn)}
                          ELSE Orders
         /\ CommitSent /\ turn # 0 =>
              Orders' = Orders \cup {Msg("commit", turn)} /\ Answers' = Answers
<1>1. ASSUME ResponseCreated PROVE Orders' = Orders
  BY <1>1, ControlRequests DEF ResponseCreated, Orders
<1>2. ASSUME Committed
      PROVE  Orders' = IF pendingCommit /\ ~responding
                         THEN Orders \cup {Msg("create", Head(toAdapter).turn)}
                         ELSE Orders
  <2>1. Head(toAdapter).turn \in Turns
    BY <1>2, HandlingWires DEF Committed
  <2>2. Msg("create", Head(toAdapter).turn) \in Requests
    BY <2>1 DEF Requests, Msg
  <2>3. CASE pendingCommit /\ ~responding
    <3>1. On(toProvider') = On(toProvider) \cup {Msg("create", Head(toAdapter).turn)}
      BY <1>2, <2>2, <2>3, Sending DEF Committed, Msg
    <3> QED
      BY <2>3, <3>1 DEF Orders, Msg
  <2>4. CASE ~(pendingCommit /\ ~responding)
    BY <1>2, <2>4 DEF Committed, Orders
  <2> QED
    BY <2>3, <2>4
<1>3. ASSUME CommitSent, turn # 0
      PROVE  Orders' = Orders \cup {Msg("commit", turn)} /\ Answers' = Answers
  <2>1. Msg("commit", turn) \in Requests
    BY <1>3, MaxCyclesAssumption DEF VoiceTypeOK, Requests, Turns, Msg
  <2>2. On(toProvider') = On(toProvider) \cup {Msg("commit", turn)}
    BY <1>3, <2>1, Sending DEF CommitSent, Msg
  <2> QED
    BY <1>3, <2>2 DEF CommitSent, Orders, Answers, Msg
<1>4. ASSUME SpeechStopped \/ ResponseAudio \/ ResponseDone \/ ProviderError
      PROVE  Orders' = Orders
  BY <1>4 DEF SpeechStopped, ResponseAudio, ResponseDone, ProviderError, Orders
<1> QED
  BY <1>1, <1>2, <1>3, <1>4

\* The provider serves a commit or a create.
LEMMA ServingWires ==
  ASSUME VoiceTypeOK
  PROVE  /\ TakeCommit =>
              /\ Msg("commit", Head(toProvider).turn) \in Orders
              /\ Orders = {Msg("commit", Head(toProvider).turn)} \cup Orders'
              /\ Answers' = IF inputAudio
                              THEN Answers \cup {Msg("committed", Head(toProvider).turn)}
                              ELSE Answers
         /\ TakeCreate =>
              /\ Msg("create", Head(toProvider).turn) \in Orders
              /\ Orders = {Msg("create", Head(toProvider).turn)} \cup Orders'
              /\ Answers' = IF active = NoTurn
                              THEN Answers \cup {Msg("created", Head(toProvider).turn)}
                              ELSE Answers
<1> DEFINE k == Head(toProvider).turn
<1>1. ASSUME NEW m \in {"commit", "create"}, Take(m)
      PROVE  /\ k \in Turns /\ Msg(m, k) \in Orders
             /\ Orders = {Msg(m, k)} \cup Orders'
  <2>1. /\ Head(toProvider) \in Requests /\ Head(toProvider).m = m
        /\ On(toProvider) = {Head(toProvider)} \cup On(toProvider')
    BY <1>1, Taking
  <2>2. Head(toProvider) = Msg(m, k) /\ k \in Turns
    BY <1>1, <2>1, RequestShape
  <2> HIDE DEF k
  <2> QED
    BY <2>1, <2>2 DEF Orders
<1>2. /\ [m |-> "error"] \in Replies
      /\ k \in Turns => Msg("committed", k) \in Replies /\ Msg("created", k) \in Replies
  BY DEF Replies, Msg
<1>3. ASSUME NEW a \in Replies, Reply(<<a>>)
      PROVE  Answers' = IF a.m # "error" THEN Answers \cup {a} ELSE Answers
  BY <1>3, Replying DEF Answers
<1>4. ASSUME TakeCommit
      PROVE  Answers' = IF inputAudio THEN Answers \cup {Msg("committed", k)} ELSE Answers
  <2>1. k \in Turns /\ Reply(IF inputAudio THEN <<Msg("committed", k)>> ELSE <<[m |-> "error"]>>)
    BY <1>1, <1>4 DEF TakeCommit, Msg
  <2>2. Msg("committed", k).m = "committed" /\ [m |-> "error"].m = "error"
    BY DEF Msg
  <2> QED
    BY <1>2, <1>3, <2>1, <2>2
<1>5. ASSUME TakeCreate
      PROVE  Answers' = IF active = NoTurn THEN Answers \cup {Msg("created", k)} ELSE Answers
  <2>1. k \in Turns /\ Reply(IF active = NoTurn THEN <<Msg("created", k)>> ELSE <<[m |-> "error"]>>)
    BY <1>1, <1>5 DEF TakeCreate, Msg
  <2>2. Msg("created", k).m = "created" /\ [m |-> "error"].m = "error"
    BY DEF Msg
  <2> QED
    BY <1>2, <1>3, <2>1, <2>2
<1> QED
  BY <1>1, <1>4, <1>5 DEF TakeCommit, TakeCreate

\* The provider cancels, answers or finishes.
LEMMA AnsweringWires ==
  ASSUME VoiceTypeOK
  PROVE  /\ TakeCancel \/ VadTurn \/ AutoCreate \/ SendChunk \/ FinishResponse => Orders' = Orders
         /\ TakeCancel \/ FinishResponse => Answers' = Answers \cup Interrupted
         /\ AutoCreate => Answers' = Answers \cup {Msg("created", autoTurn)}
         /\ SendChunk => Answers' = Answers \cup {Msg("audio", active)}
         /\ VadTurn => Answers' = Answers \cup Interrupted \cup Notices
<1>1. /\ active # NoTurn => active \in Turns /\ Msg("done", active) \in Replies
                            /\ Msg("audio", active) \in Replies
      /\ autoTurn # NoTurn => Msg("created", autoTurn) \in Replies
      /\ [m |-> "error"] \in Replies
  BY MaxCyclesAssumption DEF VoiceTypeOK, Replies, Turns, NoTurn, Msg
<1>2. ASSUME NEW a \in Replies, Reply(<<a>>)
      PROVE  Answers' = IF a.m # "error" THEN Answers \cup {a} ELSE Answers
  BY <1>2, Replying DEF Answers
<1>3. \A k, t : Msg(k, t).m = k
  BY DEF Msg
<1>4. [m |-> "error"].m = "error"
  OBVIOUS
<1>5. ASSUME TakeCancel PROVE Orders' = Orders /\ Answers' = Answers \cup Interrupted
  <2>1. Orders' = Orders
    BY <1>5, Taking DEF TakeCancel, Orders
  <2>2. Reply(IF active # NoTurn THEN <<Msg("done", active)>> ELSE <<[m |-> "error"]>>)
    BY <1>5 DEF TakeCancel, Msg
  <2> QED
    BY <1>1, <1>2, <1>3, <1>4, <2>1, <2>2 DEF Interrupted
<1>6. ASSUME FinishResponse PROVE Orders' = Orders /\ Answers' = Answers \cup Interrupted
  <2>1. active # NoTurn /\ Reply(<<Msg("done", active)>>) /\ toProvider' = toProvider
    BY <1>6 DEF FinishResponse, Msg
  <2> QED
    BY <1>1, <1>2, <1>3, <2>1 DEF Interrupted, Orders
<1>7. ASSUME AutoCreate
      PROVE  Orders' = Orders /\ Answers' = Answers \cup {Msg("created", autoTurn)}
  <2>1. autoTurn # NoTurn /\ Reply(<<Msg("created", autoTurn)>>) /\ toProvider' = toProvider
    BY <1>7 DEF AutoCreate, Msg
  <2> QED
    BY <1>1, <1>2, <1>3, <2>1 DEF Orders
<1>8. ASSUME SendChunk PROVE Orders' = Orders /\ Answers' = Answers \cup {Msg("audio", active)}
  <2>1. active # NoTurn /\ Reply(<<Msg("audio", active)>>) /\ toProvider' = toProvider
    BY <1>8 DEF SendChunk, Msg
  <2> QED
    BY <1>1, <1>2, <1>3, <2>1 DEF Orders
<1>9. ASSUME VadTurn PROVE Orders' = Orders /\ Answers' = Answers \cup Interrupted \cup Notices
  <2>1. toProvider' = toProvider
    BY <1>9 DEF VadTurn
  <2>2. \A x \in Interrupted \cup Notices : x.m # "error"
    BY DEF Interrupted, Notices, Msg
  <2>3. On(toAdapter') = On(toAdapter) \cup Interrupted \cup Notices
    BY <1>9, VadReplying
  <2> QED
    BY <2>1, <2>2, <2>3 DEF Orders, Answers
<1> QED
  BY <1>5, <1>6, <1>7, <1>8, <1>9

-----------------------------------------------------------------------------
\* Once a gap is stale it stays so, and only a speech end makes a cycle live.
LEMMA StaleForGood == [Next]_vars => (~staleGap' => ~staleGap)
<1> SUFFICES ASSUME [Next]_vars PROVE ~staleGap' => ~staleGap
  OBVIOUS
<1>1. CASE CallStep
  BY <1>1 DEF CallStep, StartSession, EndSession, OnUserSpeechEnded, OnLaneBReady, OnLaneBDone,
     ResetResponseInProgress, OnUserBargeIn, OnPolicyCancel, OnFallbackComplete,
     FallbackCompletes
<1>2. CASE TimerStep
  BY <1>2 DEF TimerStep, TriggerLaneA, ReflexTimeout, GapExpires, histVars
<1>3. CASE UNCHANGED vars
  BY <1>3 DEF vars, histVars
<1> QED
  BY <1>1, <1>2, <1>3 DEF Next

OtherCall == \/ StartSession \/ OnLaneBReady \/ OnLaneBDone \/ ResetResponseInProgress
             \/ OnUserBargeIn \/ OnPolicyCancel \/ OnFallbackComplete \/ TimerStep
             \/ UNCHANGED vars

LEMMA OnlySpeechEndStarts == OtherCall => (fate' = "live" => fate = "live")
  BY DEF OtherCall, StartSession, OnLaneBReady, OnLaneBDone, DoneSuppressed, DoneInBPlaying,
     DoneBeforePlayback, DoneInAPlaying, DoneOutsideSession, ResetResponseInProgress,
     OnUserBargeIn, OnPolicyCancel, PolicyCancelInFallback, PolicyCancelToFallback,
     PolicyCancelOutsideSession, OnFallbackComplete, FallbackCompletes, TimerStep,
     TriggerLaneA, ReflexTimeout, GapExpires, CloseCycle, vars, histVars

\* What ends the cycle: a barge-in, a cancel, a done that is not swallowed.
LEMMA CycleEnds ==
  ASSUME IInv, ~staleGap
  PROVE  /\ OnUserBargeIn => fate' # "live"
         /\ Open /\ OnPolicyCancel => fate' # "live"
         /\ ~suppressLaneBDone /\ OnLaneBDone => fate' # "live"
         /\ fate = "live" => state \in {"A_PLAYING", "B_RESPONDING", "B_PLAYING"}
         /\ OnFallbackComplete => fate' # "live"
<1>1. /\ fate = "live" <=> state \in {"A_PLAYING", "B_RESPONDING", "B_PLAYING"}
      /\ fallbackOn <=> state = "FALLBACK_PLAYING"
  BY DEF IInv, CycleInv, FloorDiscipline, Waiting
<1> QED
  BY <1>1 DEF OnUserBargeIn, OnPolicyCancel, PolicyCancelInFallback, PolicyCancelToFallback,
     PolicyCancelOutsideSession, OnLaneBDone, DoneSuppressed, DoneInBPlaying,
     DoneBeforePlayback, DoneInAPlaying, DoneOutsideSession, OnFallbackComplete,
     FallbackCompletes, CloseCycle, Open

\* The two steps that open a response cycle, and all the others.
CommitOpensCycle  == AudioCommit /\ SpeechEndAccepted
NoticeOpensCycle  == SpeechStopped /\ SpeechEndAccepted

LEMMA CycleSteps ==
  ASSUME [VoiceNext]_allVars, ~CommitOpensCycle, ~NoticeOpensCycle
  PROVE  cycleTurn' = cycleTurn /\ (fate' = "live" => fate = "live")
<1>1. CASE ClientStep
  <2>1. OtherCall
    BY <1>1 DEF ClientStep, StartVoice, AudioChunk, AudioStop, AudioCommit, CommitUtterance,
       BargeIn, OtherCall, CommitOpensCycle
  <2>2. cycleTurn' = cycleTurn
    BY <1>1 DEF ClientStep, StartVoice, AudioChunk, AudioStop, AudioCommit, CommitUtterance,
       BargeIn, CommitOpensCycle, ghostVars
  <2> QED
    BY <2>1, <2>2, OnlySpeechEndStarts
<1>2. CASE HandleReply
  <2>1. OtherCall
    BY <1>2 DEF HandleReply, SpeechStopped, Committed, ResponseCreated, ResponseAudio,
       ResponseDone, ProviderError, OtherCall, NoticeOpensCycle
  <2>2. cycleTurn' = cycleTurn
    BY <1>2 DEF HandleReply, SpeechStopped, Committed, ResponseCreated, ResponseAudio,
       ResponseDone, ProviderError, NoticeOpensCycle, ghostVars
  <2> QED
    BY <2>1, <2>2, OnlySpeechEndStarts
<1>3. CASE FinishCommit \/ PolicyDecision \/ FallbackDone \/ TimerExpires
  <2>1. OtherCall
    BY <1>3 DEF FinishCommit, CommitSkipped, CommitSent, PolicyDecision, FallbackDone,
       TimerExpires, OtherCall
  <2>2. cycleTurn' = cycleTurn
    BY <1>3 DEF FinishCommit, CommitSkipped, CommitSent, PolicyDecision, FallbackDone,
       TimerExpires, sessionVars, ghostVars
  <2> QED
    BY <2>1, <2>2, OnlySpeechEndStarts
<1>4. CASE ProviderStep
  <2>1. UNCHANGED vars
    BY <1>4 DEF ProviderStep, TakeRequest, TakeAudio, TakeClear, TakeCommit, TakeCreate,
       TakeCancel, Take, VadTurn, AutoCreate, SendChunk, FinishResponse
  <2>2. cycleTurn' = cycleTurn
    BY <1>4 DEF ProviderStep, TakeRequest, TakeAudio, TakeClear, TakeCommit, TakeCreate,
       TakeCancel, Take, VadTurn, AutoCreate, SendChunk, FinishResponse, ghostVars
  <2> QED
    BY <2>1, <2>2 DEF vars, histVars
<1>5. CASE UNCHANGED allVars
  BY <1>5 DEF allVars, vars, histVars, sessionVars, ghostVars
<1> QED
  BY <1>1, <1>2, <1>3, <1>4, <1>5 DEF VoiceNext, ServerStep

\* The steps that give out a new turn, and all the others.
LEMMA TurnSteps ==
  ASSUME [VoiceNext]_allVars
  PROVE  IF AudioCommit \/ VadTurn THEN turn' = turn + 1 ELSE turn' = turn
<1>1. CASE ClientStep
  BY <1>1 DEF ClientStep, StartVoice, AudioChunk, AudioStop, AudioCommit, CommitUtterance,
     BargeIn, ghostVars, VadTurn
<1>2. CASE HandleReply
  BY <1>2 DEF HandleReply, SpeechStopped, Committed, ResponseCreated, ResponseAudio,
     ResponseDone, ProviderError, ghostVars, AudioCommit, CommitUtterance, VadTurn
<1>3. CASE FinishCommit \/ PolicyDecision \/ FallbackDone \/ TimerExpires
  BY <1>3 DEF FinishCommit, CommitSkipped, CommitSent, PolicyDecision, FallbackDone,
     TimerExpires, sessionVars, ghostVars, AudioCommit, CommitUtterance, VadTurn
<1>4. CASE ProviderStep
  BY <1>4 DEF ProviderStep, TakeRequest, TakeAudio, TakeClear, TakeCommit, TakeCreate,
     TakeCancel, Take, VadTurn, AutoCreate, SendChunk, FinishResponse, ghostVars, AudioCommit,
     CommitUtterance
<1>5. CASE UNCHANGED allVars
  BY <1>5 DEF allVars, sessionVars, ghostVars, AudioCommit, CommitUtterance, VadTurn
<1> QED
  BY <1>1, <1>2, <1>3, <1>4, <1>5 DEF VoiceNext, ServerStep

-----------------------------------------------------------------------------
\* The replies of a step, all of them about the turn the provider works on.
AnswerStep == TakeCancel \/ VadTurn \/ AutoCreate \/ SendChunk \/ FinishResponse

\* Messages on the wires are numbered with turns that exist.
LEMMA OnWires ==
  ASSUME VoiceTypeOK
  PROVE  \A x \in Orders \cup Answers : x = Msg(x.m, x.turn) /\ x.turn \in Turns
<1>1. /\ \A x \in On(toProvider) : x \in Requests
      /\ \A x \in On(toAdapter) : x \in Replies
  BY LenProperties, ElementOfSeq DEF On, VoiceTypeOK
<1> QED
  BY <1>1, RequestShape, ReplyShape DEF Orders, Answers

LEMMA KindsOfSteps ==
  [VoiceNext]_allVars =>
    \/ QuietStep \/ HandleReply \/ CommitSent \/ TakeCommit \/ TakeCreate \/ AnswerStep
    \/ UNCHANGED allVars
  BY DEF VoiceNext, ClientStep, ServerStep, FinishCommit, ProviderStep, TakeRequest, QuietStep,
     AnswerStep

\* Turns exist before anything speaks of them.
LEMMA NextTurn == VoiceTypeOK /\ TurnInv /\ [VoiceNext]_allVars => TurnInv'
<1> SUFFICES ASSUME VoiceTypeOK, TurnInv, [VoiceNext]_allVars PROVE TurnInv'
  OBVIOUS
<1>1. turn \in Nat /\ turn' \in Nat /\ turn <= turn'
  BY TurnSteps DEF VoiceTypeOK
<1>2. commitStep' # "idle" => turn' # 0
  <2>1. CASE AudioCommit
    BY <1>1, <2>1 DEF AudioCommit, CommitUtterance
  <2>2. CASE ~AudioCommit
    <3>1. commitStep' \in {commitStep, "idle"}
      BY <2>2 DEF VoiceNext, ClientStep, StartVoice, AudioChunk, AudioStop, BargeIn, ServerStep,
         HandleReply, SpeechStopped, Committed, ResponseCreated, ResponseAudio,
         ResponseDone, ProviderError, FinishCommit, CommitSkipped, CommitSent, PolicyDecision,
         FallbackDone, TimerExpires, ProviderStep, TakeRequest, TakeAudio, TakeClear,
         TakeCommit, TakeCreate, TakeCancel, Take, VadTurn, AutoCreate, SendChunk,
         FinishResponse, allVars, sessionVars, serverVars
    <3> QED
      BY <1>1, <3>1 DEF TurnInv
  <2> QED
    BY <2>1, <2>2
<1>3. fate' = "live" => cycleTurn' # NoTurn
  <2>1. CASE CommitOpensCycle
    BY <2>1, <1>1 DEF CommitOpensCycle, AudioCommit, CommitUtterance, NoTurn
  <2>2. CASE NoticeOpensCycle
    <3>1. Head(toAdapter).turn \in Turns
      BY <2>2, HandlingWires DEF NoticeOpensCycle, SpeechStopped
    <3> QED
      BY <2>2, <3>1 DEF NoticeOpensCycle, SpeechStopped, Turns, NoTurn
  <2>3. CASE ~CommitOpensCycle /\ ~NoticeOpensCycle
    BY <2>3, CycleSteps DEF TurnInv
  <2> QED
    BY <2>1, <2>2, <2>3
<1>4. \A x \in Orders' \cup Answers' : x.turn <= turn'
  <2>1. \A x \in Orders \cup Answers : x.turn \in Int /\ x.turn <= turn'
    BY <1>1, OnWires DEF TurnInv, Turns
  <2>2. \A k, t : Msg(k, t).turn = t
    BY DEF Msg
  <2>3. CASE QuietStep
    BY <2>1, <2>3, QuietWires
  <2>4. CASE HandleReply
    <3>1. Answers' \subseteq Answers
      BY <2>4, HandlingWires DEF HandleReply, SpeechStopped, Committed, ResponseCreated,
         ResponseAudio, ResponseDone, ProviderError
    <3>2. CASE Committed
      <4>1. Head(toAdapter) \in Answers
        BY <3>2, HandlingWires DEF Committed
      <4> QED
        BY <2>1, <2>2, <3>1, <3>2, <4>1, SendingWires
    <3>3. CASE ~Committed
      BY <2>1, <2>4, <3>1, <3>3, SendingWires DEF HandleReply
    <3> QED
      BY <3>2, <3>3
  <2>5. CASE CommitSent
    <3>1. turn # 0
      BY <2>5 DEF TurnInv, CommitSent
    <3> QED
      BY <1>1, <2>1, <2>2, <2>5, <3>1, SendingWires
  <2>6. CASE TakeCommit \/ TakeCreate
    <3> DEFINE k == Head(toProvider).turn
    <3>1. /\ Msg("commit", k) \in Orders \/ Msg("create", k) \in Orders
          /\ Orders' \subseteq Orders
          /\ Answers' \subseteq Answers \cup {Msg("committed", k), Msg("created", k)}
      BY <2>6, ServingWires
    <3> HIDE DEF k
    <3>2. k \in Int /\ k <= turn'
      BY <2>1, <2>2, <3>1
    <3> QED
      BY <2>1, <2>2, <3>1, <3>2
  <2>7. CASE AnswerStep
    <3>1. active <= turn' /\ autoTurn <= turn'
      BY <1>1 DEF VoiceTypeOK
    <3>2. Orders' = Orders
      BY <2>7, AnsweringWires DEF AnswerStep
    <3>3. CASE VadTurn
      <4>1. turn + 1 <= turn'
        BY <3>3, <1>1 DEF VadTurn
      <4>2. Answers' = Answers \cup Interrupted \cup Notices
        BY <3>3, AnsweringWires
      <4> QED
        BY <2>1, <2>2, <3>1, <3>2, <4>1, <4>2 DEF Interrupted, Notices
    <3>4. CASE ~VadTurn
      <4>1. Answers' \subseteq Answers \cup {Msg("done", active), Msg("audio", active),
                                            Msg("created", autoTurn)}
        BY <2>7, <3>4, AnsweringWires DEF AnswerStep, Interrupted
      <4> QED
        BY <2>1, <2>2, <3>1, <3>2, <4>1
    <3> QED
      BY <3>3, <3>4
  <2>8. CASE UNCHANGED allVars
    BY <2>1, <2>8 DEF allVars, sessionVars, Orders, Answers
  <2> QED
    BY <2>3, <2>4, <2>5, <2>6, <2>7, <2>8, KindsOfSteps
<1> QED
  BY <1>2, <1>3, <1>4 DEF TurnInv

\* The mode of the session decides who commits, for good.
LEMMA NextMode == VoiceTypeOK /\ TurnInv /\ ModeInv /\ [VoiceNext]_allVars => ModeInv'
<1> SUFFICES ASSUME VoiceTypeOK, TurnInv, ModeInv, [VoiceNext]_allVars PROVE ModeInv'
  OBVIOUS
<1> USE DEF ModeInv
<1>1. CASE QuietStep
  <2>1. Orders' = Orders /\ Answers' = Answers
    BY <1>1, QuietWires
  <2>2. CASE StartVoice \/ AudioChunk \/ AudioStop \/ AudioCommit \/ BargeIn
    <3>1. CASE AudioCommit
      BY <2>1, <3>1 DEF AudioCommit, CommitUtterance, providerVars
    <3>2. CASE AudioStop
      BY <2>1, <3>2 DEF AudioStop, providerVars
    <3>3. CASE StartVoice \/ AudioChunk \/ BargeIn
      <4>1. UNCHANGED <<voiceMode, commitStep, pendingCommit, reopened, lost, autoTurn, active>>
        BY <3>3 DEF StartVoice, AudioChunk, BargeIn, bufferVars, providerVars, ghostVars
      <4> QED
        BY <2>1, <4>1
    <3> QED
      BY <2>2, <3>1, <3>2, <3>3
  <2>3. CASE CommitSkipped \/ PolicyDecision \/ FallbackDone
    BY <2>1, <2>3 DEF CommitSkipped, PolicyDecision, FallbackDone, bufferVars, providerVars,
       ghostVars
  <2>4. CASE TimerExpires
    BY <2>1, <2>4 DEF TimerExpires, sessionVars, serverVars, providerVars, ghostVars
  <2>5. CASE TakeAudio \/ TakeClear
    BY <2>1, <2>5 DEF TakeAudio, TakeClear, Take, serverVars
  <2> QED
    BY <1>1, <2>2, <2>3, <2>4, <2>5 DEF QuietStep
<1>2. CASE HandleReply
  <2>1. Answers' \subseteq Answers
    BY <1>2, HandlingWires DEF HandleReply, SpeechStopped, Committed, ResponseCreated,
       ResponseAudio, ResponseDone, ProviderError
  <2>2. voiceMode = "open-mic" => Orders' = Orders
    BY <1>2, SendingWires DEF HandleReply
  <2>3. CASE SpeechStopped \/ Committed \/ ResponseDone
    BY <2>1, <2>2, <2>3 DEF SpeechStopped, Committed, ResponseDone, Receive, LoseIf, serverVars,
       bufferVars, laneBVars, providerVars
  <2>4. CASE ResponseCreated \/ ResponseAudio \/ ProviderError
    BY <2>1, <2>2, <2>4 DEF ResponseCreated, ResponseAudio, ProviderError, Receive, bufferVars,
       providerVars, ghostVars
  <2> QED
    BY <1>2, <2>3, <2>4 DEF HandleReply
<1>3. CASE CommitSent
  <2>1. turn # 0 /\ voiceMode # "open-mic"
    BY <1>3 DEF TurnInv, CommitSent
  <2> QED
    BY <1>3, <2>1, SendingWires DEF CommitSent, providerVars
<1>4. CASE TakeCommit \/ TakeCreate
  <2>1. voiceMode # "open-mic"
    BY <1>4, ServingWires
  <2>2. \A x \in Answers' : x \in Answers \/ x.m # "speech_stopped"
    <3>1. \A t : Msg("committed", t).m = "committed" /\ Msg("created", t).m = "created"
      BY DEF Msg
    <3> QED
      BY <1>4, <3>1, ServingWires
  <2> QED
    BY <1>4, <2>1, <2>2 DEF TakeCommit, TakeCreate, Take
<1>5. CASE AnswerStep
  <2>1. Orders' = Orders
    BY <1>5, AnsweringWires DEF AnswerStep
  <2>2. CASE VadTurn
    BY <2>1, <2>2 DEF VadTurn, serverVars, bufferVars
  <2>3. CASE TakeCancel \/ AutoCreate \/ SendChunk \/ FinishResponse
    <3>1. \A x \in Answers' : x \in Answers \/ x.m # "speech_stopped"
      <4>1. \A t : /\ Msg("done", t).m = "done" /\ Msg("created", t).m = "created"
                   /\ Msg("audio", t).m = "audio"
        BY DEF Msg
      <4> QED
        BY <2>3, <4>1, AnsweringWires DEF Interrupted
    <3>2. /\ UNCHANGED <<voiceMode, commitStep, pendingCommit, reopened, lost>>
          /\ autoTurn' \in {autoTurn, NoTurn}
          /\ active' \in {active, NoTurn} \/ autoTurn' = NoTurn
      BY <2>3 DEF TakeCancel, Take, AutoCreate, SendChunk, FinishResponse, serverVars, bufferVars, ghostVars
    <3> QED
      BY <2>1, <3>1, <3>2
  <2> QED
    BY <1>5, <2>2, <2>3 DEF AnswerStep
<1>6. CASE UNCHANGED allVars
  BY <1>6 DEF allVars, sessionVars, serverVars, bufferVars, providerVars, ghostVars, Orders,
     Answers
<1> QED
  BY <1>1, <1>2, <1>3, <1>4, <1>5, <1>6, KindsOfSteps

\* While a commit is being skipped nobody but the provider moves.
LEMMA NextSkip ==
  IInv /\ VoiceTypeOK /\ SkipInv /\ [VoiceNext]_allVars => SkipInv'
<1> SUFFICES ASSUME IInv, VoiceTypeOK, SkipInv, [VoiceNext]_allVars,
                    commitStep' = "skipping", ~staleGap', fate' = "live", cycleTurn' = turn'
             PROVE  state' = "B_RESPONDING"
  BY DEF SkipInv
<1>1. ~staleGap
  BY StaleForGood, VoiceStepsArbitrator
<1>2. CASE AudioCommit
  <2>1. CASE SpeechEndAccepted
    BY <1>2, <2>1 DEF AudioCommit, CommitUtterance, OnUserSpeechEnded
  <2>2. CASE ~SpeechEndAccepted
    BY <1>2, <2>2 DEF AudioCommit, CommitUtterance, VoiceTypeOK
  <2> QED
    BY <2>1, <2>2
<1>3. CASE ~AudioCommit
  <2>1. commitStep = "skipping"
    BY <1>3 DEF VoiceNext, ClientStep, StartVoice, AudioChunk, AudioStop, BargeIn, ServerStep,
       HandleReply, SpeechStopped, Committed, ResponseCreated, ResponseAudio,
       ResponseDone, ProviderError, FinishCommit, CommitSkipped, CommitSent, PolicyDecision,
       FallbackDone, TimerExpires, ProviderStep, TakeRequest, TakeAudio, TakeClear,
       TakeCommit, TakeCreate, TakeCancel, Take, VadTurn, AutoCreate, SendChunk,
       FinishResponse, allVars, sessionVars, serverVars
  <2>2. StartVoice \/ ProviderStep \/ UNCHANGED allVars
    BY <1>3, <2>1 DEF VoiceNext, ClientStep, AudioChunk, AudioStop, BargeIn, ServerStep,
       HandleReply, SpeechStopped, Committed, ResponseCreated, ResponseAudio,
       ResponseDone, ProviderError, Receive, FinishCommit, CommitSkipped, CommitSent,
       PolicyDecision, FallbackDone, TimerExpires, Free
  <2>3. CASE StartVoice
    BY <1>1, <2>3 DEF StartVoice, StartSession, IInv, StartInv
  <2>4. CASE ProviderStep
    <3>1. UNCHANGED vars /\ cycleTurn' = cycleTurn
      BY <2>4 DEF ProviderStep, TakeRequest, TakeAudio, TakeClear, TakeCommit, TakeCreate,
         TakeCancel, Take, VadTurn, AutoCreate, SendChunk, FinishResponse, ghostVars
    <3>2. turn' # turn => cycleTurn' # turn'
      BY <3>1, TurnSteps DEF VoiceTypeOK
    <3> QED
      BY <1>1, <2>1, <3>1, <3>2 DEF SkipInv, vars, ctlVars, histVars
  <2>5. CASE UNCHANGED allVars
    BY <1>1, <2>1, <2>5 DEF SkipInv, allVars, vars, ctlVars, histVars, sessionVars, ghostVars
  <2> QED
    BY <2>2, <2>3, <2>4, <2>5
<1> QED
  BY <1>2, <1>3

-----------------------------------------------------------------------------
\* A cause of loss is forgotten only when a new cycle begins.
LEMMA LostForGood ==
  ASSUME [VoiceNext]_allVars, ~CommitOpensCycle, ~NoticeOpensCycle, lost' = "no"
  PROVE  lost = "no"
<1>1. CASE ClientStep
  BY <1>1 DEF ClientStep, StartVoice, AudioChunk, AudioStop, AudioCommit, CommitUtterance,
     BargeIn, CommitOpensCycle, ghostVars
<1>2. CASE HandleReply
  BY <1>2 DEF HandleReply, SpeechStopped, Committed, ResponseCreated, ResponseAudio,
     ResponseDone, ProviderError, NoticeOpensCycle, LoseIf, ghostVars
<1>3. CASE FinishCommit \/ PolicyDecision \/ FallbackDone \/ TimerExpires
  BY <1>3 DEF FinishCommit, CommitSkipped, CommitSent, PolicyDecision, FallbackDone,
     TimerExpires, sessionVars, ghostVars
<1>4. CASE ProviderStep
  BY <1>4 DEF ProviderStep, TakeRequest, TakeAudio, TakeClear, TakeCommit, TakeCreate,
     TakeCancel, Take, LoseIf, VadTurn, AutoCreate, SendChunk, FinishResponse, ghostVars
<1>5. CASE UNCHANGED allVars
  BY <1>5 DEF allVars, sessionVars, ghostVars
<1> QED
  BY <1>1, <1>2, <1>3, <1>4, <1>5 DEF VoiceNext, ServerStep

\* A live cycle keeps an answer on its way, or the cause of its loss is known.
LEMMA NextAnswer ==
  IInv /\ VoiceTypeOK /\ TurnInv /\ ModeInv /\ SkipInv /\ AnswerInv /\ OpenMicInv
    /\ [VoiceNext]_allVars => AnswerInv'
<1> SUFFICES ASSUME IInv, VoiceTypeOK, TurnInv, ModeInv, SkipInv, AnswerInv, OpenMicInv,
                    [VoiceNext]_allVars, fate' = "live", lost' = "no", ~staleGap'
             PROVE  Pending(cycleTurn)'
  BY DEF AnswerInv
<1> DEFINE c == cycleTurn
<1>1. CASE CommitOpensCycle
  BY <1>1 DEF CommitOpensCycle, AudioCommit, CommitUtterance, Pending
<1>2. CASE NoticeOpensCycle
  <2> DEFINE k == Head(toAdapter).turn
  <2>1. /\ Receive("speech_stopped") /\ cycleTurn' = k
        /\ autoTurn' = autoTurn /\ active' = active
    BY <1>2 DEF NoticeOpensCycle, SpeechStopped, Receive, providerVars
  <2>2. Msg("speech_stopped", k) \in Answers
        /\ Answers = {Msg("speech_stopped", k)} \cup Answers'
    BY <2>1, HandlingWires
  <2> HIDE DEF k
  <2>3. /\ Msg("speech_stopped", k).m = "speech_stopped" /\ Msg("speech_stopped", k).turn = k
        /\ Msg("speech_stopped", k) # Msg("done", k)
    BY DEF Msg
  <2>4. voiceMode = "open-mic"
    BY <2>2, <2>3 DEF ModeInv
  <2>5. k \in {autoTurn, active} \/ Msg("done", k) \in Answers'
    BY <2>2, <2>3, <2>4 DEF OpenMicInv
  <2> QED
    BY <2>1, <2>5 DEF Pending
<1>3. CASE ~CommitOpensCycle /\ ~NoticeOpensCycle
  <2>1. cycleTurn' = c /\ fate = "live" /\ lost = "no" /\ ~staleGap
    BY <1>3, CycleSteps, LostForGood, StaleForGood, VoiceStepsArbitrator
  <2>2. Pending(c) /\ c # NoTurn
    BY <2>1 DEF AnswerInv, TurnInv
  <2> HIDE DEF c
  <2>3. CASE QuietStep
    <3>1. Orders' = Orders /\ Answers' = Answers
      BY <2>3, QuietWires
    <3>2. CASE AudioCommit
      <4>1. UNCHANGED <<voiceMode, autoTurn, active>> /\ commitStep = "idle"
        BY <3>2 DEF AudioCommit, CommitUtterance, providerVars
      <4> QED
        BY <2>1, <2>2, <3>1, <4>1 DEF Pending
    <3>3. CASE CommitSkipped
      <4>1. UNCHANGED <<voiceMode, autoTurn, active>> /\ commitStep = "skipping"
        BY <3>3 DEF CommitSkipped, providerVars
      <4>2. turn # c
        <5> SUFFICES ASSUME turn = c PROVE FALSE
          OBVIOUS
        <5>1. state = "B_RESPONDING"
          BY <2>1, <4>1 DEF SkipInv, c
        <5>2. responseInProgress
          BY <5>1 DEF IInv, GuardMatchesState
        <5>3. ResetResponseInProgress
          BY <3>3, <5>2 DEF CommitSkipped
        <5> QED
          BY <2>1, <5>1, <5>3 DEF ResetResponseInProgress, CloseCycle
      <4> QED
        BY <2>1, <2>2, <3>1, <4>1, <4>2 DEF Pending
    <3>4. CASE ~AudioCommit /\ ~CommitSkipped
      <4>1. UNCHANGED <<voiceMode, autoTurn, active, commitStep, turn>>
        BY <2>3, <3>4 DEF QuietStep, StartVoice, AudioChunk, AudioStop, BargeIn, PolicyDecision,
           FallbackDone, TimerExpires, TakeAudio, TakeClear, Take, sessionVars, serverVars,
           providerVars, ghostVars
      <4> QED
        BY <2>1, <2>2, <3>1, <4>1 DEF Pending
    <3> QED
      BY <3>2, <3>3, <3>4
  <2>4. CASE HandleReply
    <3> DEFINE k == Head(toAdapter).turn
    <3>1. UNCHANGED <<voiceMode, autoTurn, active, commitStep, turn>>
      BY <1>3, <2>4 DEF HandleReply, SpeechStopped, Committed, ResponseCreated, ResponseAudio,
         ResponseDone, ProviderError, Receive, serverVars, providerVars, ghostVars
    <3>2. Orders \subseteq Orders'
      BY <2>4, SendingWires DEF HandleReply
    <3>3. CASE ResponseDone
      <4>1. Answers = {Msg("done", k)} \cup Answers'
        BY <3>3, HandlingWires DEF ResponseDone
      <4>2. k # c
        <5> SUFFICES ASSUME k = c PROVE FALSE
          OBVIOUS
        <5>1. ~suppressLaneBDone
          BY <2>1, <3>3 DEF ResponseDone, LoseIf, LiveTurn, c
        <5>2. state # "FALLBACK_PLAYING"
          BY <2>1, CycleEnds
        <5>3. OnLaneBDone
          BY <3>3, <5>1, <5>2 DEF ResponseDone
        <5> QED
          BY <2>1, <5>1, <5>3, CycleEnds
      <4> HIDE DEF k
      <4>3. Msg("done", c) # Msg("done", k) /\ Msg("committed", c) # Msg("done", k)
        BY <4>2 DEF Msg
      <4> QED
        BY <2>1, <2>2, <3>1, <3>2, <4>1, <4>3 DEF Pending
    <3>4. CASE Committed
      <4>1. Answers = {Msg("committed", k)} \cup Answers'
        BY <3>4, HandlingWires DEF Committed
      <4>2. Msg("done", c) # Msg("committed", k)
        BY DEF Msg
      <4>3. CASE k = c /\ voiceMode # "open-mic"
        <5>1. pendingCommit /\ ~responding
          BY <2>1, <3>4, <4>3, VoiceAssumption DEF Committed, LoseIf, VoiceTypeOK, c
        <5>2. Msg("create", c) \in Orders'
          BY <3>4, <4>3, <5>1, SendingWires
        <5> QED
          BY <2>1, <5>2 DEF Pending
      <4>4. CASE k # c \/ voiceMode = "open-mic"
        <5> HIDE DEF k
        <5>1. k # c => Msg("committed", c) # Msg("committed", k)
          BY DEF Msg
        <5> QED
          BY <2>1, <2>2, <3>1, <3>2, <4>1, <4>2, <4>4, <5>1 DEF Pending
      <4> QED
        BY <4>3, <4>4
    <3>5. CASE ~ResponseDone /\ ~Committed
      <4>1. \A t : {Msg("done", t), Msg("committed", t)} \cap Answers \subseteq Answers'
        <5>1. ASSUME NEW m \in {"speech_stopped", "created", "audio"}, Receive(m)
              PROVE  \A t : {Msg("done", t), Msg("committed", t)} \cap Answers \subseteq Answers'
          <6>1. Answers = {Msg(m, k)} \cup Answers'
            BY <5>1, HandlingWires
          <6> HIDE DEF k
          <6>2. \A t : Msg(m, k) # Msg("done", t) /\ Msg(m, k) # Msg("committed", t)
            BY DEF Msg
          <6> QED
            BY <6>1, <6>2
        <5>2. CASE ProviderError
          BY <5>2, HandlingWires DEF ProviderError
        <5> QED
          BY <2>4, <3>5, <5>1, <5>2 DEF HandleReply, SpeechStopped, ResponseCreated,
             ResponseAudio
      <4> QED
        BY <2>1, <2>2, <3>1, <3>2, <4>1 DEF Pending
    <3> QED
      BY <3>3, <3>4, <3>5
  <2>5. CASE CommitSent
    <3>1. /\ UNCHANGED <<voiceMode, autoTurn, active, turn>>
          /\ Orders' = Orders \cup {Msg("commit", turn)} /\ Answers' = Answers
      BY <2>5, SendingWires DEF CommitSent, TurnInv, providerVars, ghostVars
    <3> QED
      BY <2>1, <2>2, <3>1 DEF Pending
  <2>6. CASE TakeCommit
    <3> DEFINE k == Head(toProvider).turn
    <3>1. /\ UNCHANGED <<voiceMode, autoTurn, active, turn, commitStep>>
          /\ Orders = {Msg("commit", k)} \cup Orders'
          /\ Answers' = IF inputAudio THEN Answers \cup {Msg("committed", k)} ELSE Answers
          /\ Msg("commit", k) \in Orders
      BY <2>6, ServingWires DEF TakeCommit, Take, serverVars
    <3>2. k = c => inputAudio
      BY <2>1, <2>6 DEF TakeCommit, LoseIf, c
    <3>3. voiceMode # "open-mic"
      BY <3>1 DEF ModeInv
    <3> HIDE DEF k
    <3>4. Msg("create", c) # Msg("commit", k) /\ (k # c => Msg("commit", c) # Msg("commit", k))
      BY DEF Msg
    <3> QED
      BY <2>1, <2>2, <3>1, <3>2, <3>3, <3>4 DEF Pending
  <2>7. CASE TakeCreate
    <3> DEFINE k == Head(toProvider).turn
    <3>1. /\ UNCHANGED <<voiceMode, autoTurn, turn, commitStep>>
          /\ Orders = {Msg("create", k)} \cup Orders'
          /\ Answers \subseteq Answers'
          /\ active' = IF active = NoTurn THEN k ELSE active
      BY <2>7, ServingWires DEF TakeCreate, Take, serverVars
    <3>2. k = c => active = NoTurn
      BY <2>1, <2>7 DEF TakeCreate, LoseIf, c
    <3> HIDE DEF k
    <3>3. Msg("commit", c) # Msg("create", k) /\ (k # c => Msg("create", c) # Msg("create", k))
      BY DEF Msg
    <3> QED
      BY <2>1, <2>2, <3>1, <3>2, <3>3 DEF Pending
  <2>8. CASE AnswerStep
    <3>1. Orders' = Orders /\ Answers \subseteq Answers'
      BY <2>8, AnsweringWires DEF AnswerStep
    <3>2. /\ UNCHANGED <<voiceMode, commitStep>>
          /\ VadTurn \/ turn' = turn
          /\ commitStep # "idle" => ~VadTurn
      BY <2>8 DEF AnswerStep, TakeCancel, Take, VadTurn, AutoCreate, SendChunk, FinishResponse,
         serverVars, ghostVars, ModeInv
    <3>3. active = c => active' = c \/ Msg("done", c) \in Answers'
      BY <2>2, <2>8, AnsweringWires DEF AnswerStep, TakeCancel, VadTurn, AutoCreate, SendChunk,
         FinishResponse, Interrupted, ModeInv
    <3>4. autoTurn = c => autoTurn' = c \/ active' = c
      BY <2>2, <2>8 DEF AnswerStep, TakeCancel, VadTurn, AutoCreate, SendChunk, FinishResponse
    <3> QED
      BY <2>1, <2>2, <3>1, <3>2, <3>3, <3>4 DEF Pending
  <2>9. CASE UNCHANGED allVars
    BY <2>1, <2>2, <2>9 DEF allVars, sessionVars, serverVars, providerVars, ghostVars, Pending,
       Orders, Answers
  <2> QED
    BY <2>3, <2>4, <2>5, <2>6, <2>7, <2>8, <2>9, KindsOfSteps
<1> QED
  BY <1>1, <1>2, <1>3

\* A session keeps its mode.
LEMMA SameMode == [VoiceNext]_allVars => voiceMode' = voiceMode
<1>1. ClientStep => voiceMode' = voiceMode
  BY DEF ClientStep, StartVoice, AudioChunk, AudioStop, AudioCommit, CommitUtterance, BargeIn
<1>2. HandleReply => voiceMode' = voiceMode
  BY DEF HandleReply, SpeechStopped, Committed, ResponseCreated, ResponseAudio, ResponseDone,
     ProviderError, Receive
<1>3. ServerStep => voiceMode' = voiceMode
  BY <1>2 DEF ServerStep, FinishCommit, CommitSkipped, CommitSent, PolicyDecision,
     FallbackDone, TimerExpires
<1>4. ProviderStep => voiceMode' = voiceMode
  BY DEF ProviderStep, TakeRequest, TakeAudio, TakeClear, TakeCommit, TakeCreate, TakeCancel,
     Take, VadTurn, AutoCreate, SendChunk, FinishResponse
<1>5. UNCHANGED allVars => voiceMode' = voiceMode
  BY DEF allVars
<1> QED
  BY <1>1, <1>3, <1>4, <1>5 DEF VoiceNext

\* With an open microphone the replies stay in the order of their turns, and a
\* notice of a turn is followed by the done of that turn.
LEMMA NextOpenMic ==
  VoiceTypeOK /\ TurnInv /\ ModeInv /\ OpenMicInv /\ [VoiceNext]_allVars => OpenMicInv'
<1> SUFFICES ASSUME VoiceTypeOK, TurnInv, ModeInv, OpenMicInv, [VoiceNext]_allVars,
                    voiceMode = "open-mic"
             PROVE  /\ Ordered(toAdapter')
                    /\ active' \in {NoTurn, turn'} /\ autoTurn' \in {NoTurn, turn'}
                    /\ \A x \in Answers' :
                         /\ x.turn >= cycleTurn'
                         /\ x.m = "done" => x.turn \notin {autoTurn', active'}
                         /\ x.m = "speech_stopped" =>
                              /\ x.turn > cycleTurn'
                              /\ \/ x.turn \in {autoTurn', active'}
                                 \/ Msg("done", x.turn) \in Answers'
  BY SameMode DEF OpenMicInv
<1>1. /\ Ordered(toAdapter) /\ Orders = {} /\ commitStep = "idle"
      /\ active \in {NoTurn, turn} /\ autoTurn \in {NoTurn, turn}
      /\ \A x \in Answers :
           /\ x.turn >= cycleTurn
           /\ x.m = "done" => x.turn \notin {autoTurn, active}
           /\ x.m = "speech_stopped" =>
                /\ x.turn > cycleTurn
                /\ x.turn \in {autoTurn, active} \/ Msg("done", x.turn) \in Answers
  BY DEF OpenMicInv, ModeInv
<1>2. /\ \A x \in Answers : x = Msg(x.m, x.turn) /\ x.turn \in Turns /\ x.turn <= turn
      /\ turn \in Nat /\ cycleTurn \in Nat /\ cycleTurn <= turn
      /\ active \in Nat /\ autoTurn \in Nat
  BY OnWires DEF TurnInv, VoiceTypeOK
<1>3. \A k, t : Msg(k, t).m = k /\ Msg(k, t).turn = t
  BY DEF Msg
<1>4. CASE QuietStep \/ UNCHANGED allVars
  <2>1. ~AudioCommit
    BY DEF AudioCommit
  <2>2. /\ toAdapter' = toAdapter /\ Answers' = Answers
        /\ UNCHANGED <<active, autoTurn, turn, cycleTurn>>
    BY <1>4, <2>1, QuietWires DEF QuietStep, StartVoice, AudioChunk, AudioStop, BargeIn,
       CommitSkipped, PolicyDecision, FallbackDone, TimerExpires, TakeAudio, TakeClear, Take,
       allVars, sessionVars, providerVars, ghostVars, Answers
  <2> QED
    BY <1>1, <2>2
<1>5. CASE HandleReply
  <2> DEFINE h == Head(toAdapter)
  <2>1. PICK m \in {"speech_stopped", "committed", "created", "audio", "done", "error"} :
          Receive(m) /\ (m = "speech_stopped" <=> SpeechStopped)
    BY <1>5 DEF HandleReply, SpeechStopped, Committed, ResponseCreated, ResponseAudio,
       ResponseDone, ProviderError, Receive
  <2>2. /\ UNCHANGED <<active, autoTurn, turn>>
        /\ cycleTurn' = IF NoticeOpensCycle THEN h.turn ELSE cycleTurn
    <3>1. UNCHANGED <<active, autoTurn>>
      BY <2>1 DEF Receive, providerVars
    <3>2. cycleTurn' = IF NoticeOpensCycle THEN h.turn ELSE cycleTurn
      BY <1>5 DEF HandleReply, SpeechStopped, Committed, ResponseCreated, ResponseAudio,
         ResponseDone, ProviderError, Receive, NoticeOpensCycle, ghostVars
    <3>3. turn' = turn
      BY <1>5 DEF HandleReply, SpeechStopped, Committed, ResponseCreated, ResponseAudio,
         ResponseDone, ProviderError, ghostVars
    <3> QED
      BY <3>1, <3>2, <3>3
  <2>3. /\ m = "error" => Answers' = Answers
        /\ m # "error" => h = Msg(m, h.turn) /\ h \in Answers /\ Answers = {h} \cup Answers'
        /\ Ordered(toAdapter') /\ \A y \in Answers' : Before(h, y)
    BY <1>1, <2>1, HandlingWires
  <2>4. NoticeOpensCycle => m = "speech_stopped"
    BY <2>1 DEF NoticeOpensCycle
  <2> HIDE DEF h
  <2>5. Answers' \subseteq Answers
    BY <2>3
  <2>6. \A x \in Answers' : x.turn >= cycleTurn'
    BY <1>1, <1>3, <2>2, <2>3, <2>4, <2>5 DEF Before, Answers
  <2>7. ASSUME NEW x \in Answers', x.m = "speech_stopped"
        PROVE  /\ x.turn > cycleTurn'
               /\ x.turn \in {autoTurn, active} \/ Msg("done", x.turn) \in Answers'
    <3>1. x.turn > cycleTurn'
      BY <1>1, <1>3, <2>2, <2>3, <2>4, <2>5, <2>7 DEF Before
    <3>2. x.turn \in {autoTurn, active} \/ Msg("done", x.turn) \in Answers
      BY <1>1, <2>5, <2>7
    <3>3. h # Msg("done", x.turn)
      <4> SUFFICES ASSUME h = Msg("done", x.turn) PROVE FALSE
        OBVIOUS
      <4>1. h.turn < x.turn
        BY <1>3, <2>3, <2>7 DEF Before
      <4> QED
        BY <1>2, <1>3, <2>5, <4>1 DEF Turns
    <3> QED
      BY <2>3, <3>1, <3>2, <3>3
  <2> QED
    BY <1>1, <2>2, <2>3, <2>5, <2>6, <2>7
<1>6. CASE CommitSent \/ TakeCommit \/ TakeCreate
  BY <1>1, <1>6, ServingWires DEF CommitSent
<1>7. CASE AnswerStep
  <2>1. /\ toAdapter \in Seq(Replies) /\ cycleTurn' = cycleTurn
        /\ turn' = IF VadTurn THEN turn + 1 ELSE turn
    BY <1>7 DEF AnswerStep, TakeCancel, Take, VadTurn, AutoCreate, SendChunk, FinishResponse,
       ghostVars, VoiceTypeOK
  <2>2. CASE VadTurn
    <3>1. Answers' = Answers \cup Interrupted \cup Notices
      BY <2>2, AnsweringWires
    <3>2. active' = NoTurn /\ autoTurn' = turn + 1
      BY <2>2 DEF VadTurn
    <3>3. \A x \in On(toAdapter), y \in Interrupted \cup Notices : Before(x, y)
      <4> SUFFICES ASSUME NEW x \in Answers, NEW y \in Interrupted \cup Notices
                   PROVE  Before(x, y)
        BY DEF Before, Answers
      <4>1. CASE y \in Notices
        BY <1>2, <1>3, <4>1 DEF Notices, Before, Turns
      <4>2. CASE y \in Interrupted
        <5>1. active = turn /\ y = Msg("done", turn)
          BY <1>1, <4>2 DEF Interrupted
        <5>2. x.m = "done" => x.turn < turn
          BY <1>1, <1>2, <5>1 DEF Turns
        <5> QED
          BY <1>2, <1>3, <5>1, <5>2 DEF Before
      <4> QED
        BY <4>1, <4>2
    <3>4. Ordered(toAdapter')
      BY <1>1, <2>2, <3>3, VadReplying
    <3>5. ASSUME NEW x \in Answers'
          PROVE  /\ x.turn >= cycleTurn'
                 /\ x.m = "done" => x.turn \notin {autoTurn', active'}
                 /\ x.m = "speech_stopped" =>
                      /\ x.turn > cycleTurn'
                      /\ \/ x.turn \in {autoTurn', active'}
                         \/ Msg("done", x.turn) \in Answers'
      <4>1. CASE x \in Answers
        <5>1. x.turn >= cycleTurn'
          BY <1>1, <2>1, <4>1
        <5>2. x.turn # turn + 1 /\ x.turn # NoTurn
          BY <1>2, <4>1 DEF Turns, NoTurn
        <5>3. x.m = "speech_stopped" => Msg("done", x.turn) \in Answers'
          <6> SUFFICES ASSUME x.m = "speech_stopped", Msg("done", x.turn) \notin Answers
                       PROVE  Msg("done", x.turn) \in Interrupted
            BY <3>1
          <6>1. x.turn \in {autoTurn, active}
            BY <1>1, <4>1
          <6>2. autoTurn = NoTurn
            BY <2>2 DEF VadTurn
          <6> QED
            BY <5>2, <6>1, <6>2 DEF Interrupted
        <5> QED
          BY <1>1, <2>1, <3>2, <4>1, <5>1, <5>2, <5>3
      <4>2. CASE x \in Interrupted
        BY <1>1, <1>2, <1>3, <2>1, <3>2, <4>2 DEF Interrupted, NoTurn
      <4>3. CASE x \in Notices
        BY <1>2, <1>3, <2>1, <3>2, <4>3 DEF Notices
      <4> QED
        BY <3>1, <4>1, <4>2, <4>3
    <3> QED
      BY <2>1, <2>2, <3>2, <3>4, <3>5
  <2>3. CASE TakeCancel \/ FinishResponse
    <3>1. /\ active' = NoTurn /\ autoTurn' = autoTurn /\ turn' = turn
          /\ Answers' = Answers \cup Interrupted
      BY <2>3, AnsweringWires DEF TakeCancel, Take, FinishResponse, ghostVars
    <3>2. \A x \in Interrupted : x = Msg("done", turn) /\ active = turn /\ turn # NoTurn
                                 /\ autoTurn = NoTurn
      BY <1>1 DEF Interrupted, ModeInv
    <3>3. Ordered(toAdapter')
      <4>1. CASE active = NoTurn
        <5>1. Reply(<<[m |-> "error"]>>) /\ [m |-> "error"] \in Replies
          BY <2>3, <4>1 DEF TakeCancel, FinishResponse, Replies
        <5>2. \A x \in On(toAdapter) : Before(x, [m |-> "error"])
          BY DEF Before
        <5> QED
          BY <1>1, <5>1, <5>2, Replying
      <4>2. CASE active # NoTurn
        <5>1. active = turn /\ turn # NoTurn
          BY <1>1, <4>2
        <5>2. Reply(<<Msg("done", turn)>>)
          BY <2>3, <5>1 DEF TakeCancel, FinishResponse, Msg
        <5>3. Msg("done", turn) \in Replies
          BY <5>1, MaxCyclesAssumption DEF Replies, Msg, Turns, NoTurn, VoiceTypeOK
        <5>4. \A x \in On(toAdapter) : Before(x, Msg("done", turn))
          <6> SUFFICES ASSUME NEW x \in Answers PROVE Before(x, Msg("done", turn))
            BY DEF Before, Answers
          <6>1. x.turn <= turn /\ (x.m = "done" => x.turn < turn)
            BY <1>1, <1>2, <5>1 DEF Turns
          <6> QED
            BY <1>3, <6>1 DEF Before
        <5> QED
          BY <1>1, <5>2, <5>3, <5>4, Replying
      <4> QED
        BY <4>1, <4>2
    <3>4. ASSUME NEW x \in Answers'
          PROVE  /\ x.turn >= cycleTurn'
                 /\ x.m = "done" => x.turn \notin {autoTurn', active'}
                 /\ x.m = "speech_stopped" =>
                      /\ x.turn > cycleTurn'
                      /\ \/ x.turn \in {autoTurn', active'}
                         \/ Msg("done", x.turn) \in Answers'
      <4>1. CASE x \in Answers
        <5>1. x.turn # NoTurn
          BY <1>2, <4>1 DEF Turns, NoTurn
        <5>2. x.turn = active => Msg("done", x.turn) \in Answers'
          BY <3>1, <5>1 DEF Interrupted
        <5> QED
          BY <1>1, <2>1, <3>1, <4>1, <5>1, <5>2
      <4>2. CASE x \in Interrupted
        BY <1>2, <1>3, <2>1, <3>1, <3>2, <4>2
      <4> QED
        BY <3>1, <4>1, <4>2
    <3> QED
      BY <1>1, <3>1, <3>3, <3>4
  <2>4. CASE AutoCreate \/ SendChunk
    <3> DEFINE a == IF AutoCreate THEN Msg("created", turn) ELSE Msg("audio", turn)
    <3>1. /\ turn' = turn /\ turn # NoTurn /\ turn \in {autoTurn, active}
          /\ {autoTurn', active'} = {NoTurn, turn} /\ {autoTurn, active} = {NoTurn, turn}
          /\ Reply(<<a>>)
      BY <1>1, <2>4 DEF AutoCreate, SendChunk, ghostVars, Msg, ModeInv
    <3>2. a \in Replies /\ a.m \in {"created", "audio"} /\ a.turn = turn
      BY <1>3, <3>1, MaxCyclesAssumption DEF Replies, Msg, Turns, NoTurn, VoiceTypeOK
    <3> HIDE DEF a
    <3>3. On(toAdapter') = On(toAdapter) \cup {a}
      BY <3>1, <3>2, Replying
    <3>4. Answers' = Answers \cup {a}
      BY <3>2, <3>3 DEF Answers
    <3>5. \A x \in On(toAdapter) : Before(x, a)
      <4> SUFFICES ASSUME NEW x \in Answers PROVE Before(x, a)
        BY DEF Before, Answers
      <4>1. x.turn <= turn /\ (x.m = "done" => x.turn < turn)
        BY <1>1, <1>2, <3>1 DEF Turns
      <4> QED
        BY <3>2, <4>1 DEF Before
    <3>6. Ordered(toAdapter')
      BY <1>1, <3>1, <3>2, <3>5, Replying
    <3> QED
      BY <1>1, <1>2, <2>1, <3>1, <3>2, <3>4, <3>6
  <2> QED
    BY <1>7, <2>2, <2>3, <2>4 DEF AnswerStep
<1> QED
  BY <1>4, <1>5, <1>6, <1>7, KindsOfSteps

\* The gate stays shut on a cancelled cycle, and on every cycle of a client that
\* commits, unless a skipped commit opens it.
LEMMA NextGate ==
  IInv /\ VoiceTypeOK /\ TurnInv /\ ModeInv /\ OpenMicInv /\ GateInv /\ [VoiceNext]_allVars
    => GateInv'
<1> SUFFICES ASSUME IInv, VoiceTypeOK, TurnInv, ModeInv, OpenMicInv, GateInv,
                    [VoiceNext]_allVars
             PROVE  GateInv'
  OBVIOUS
<1>1. /\ vetoed \subseteq 1..cycleTurn /\ cycleTurn \in Nat /\ turn \in Nat /\ cycleTurn <= turn
      /\ LiveTurn \subseteq 1..cycleTurn
      /\ fate = "live" /\ ~staleGap /\ ~reopened
           /\ (voiceMode # "open-mic" \/ cycleTurn \in vetoed) => audioStopped
  BY DEF GateInv, VoiceTypeOK, TurnInv, LiveTurn, NoTurn
<1>2. ~staleGap' => ~staleGap
  BY StaleForGood, VoiceStepsArbitrator
<1>3. CASE CommitOpensCycle
  <2>1. cycleTurn' = turn + 1 /\ audioStopped' = TRUE /\ vetoed' = vetoed
    BY <1>3 DEF CommitOpensCycle, AudioCommit, CommitUtterance
  <2> QED
    BY <1>1, <2>1 DEF GateInv
<1>4. CASE NoticeOpensCycle
  <2> DEFINE k == Head(toAdapter).turn
  <2>1. Receive("speech_stopped") /\ cycleTurn' = k /\ vetoed' = vetoed /\ voiceMode' = voiceMode
    BY <1>4 DEF NoticeOpensCycle, SpeechStopped, Receive
  <2>2. /\ Head(toAdapter) \in Answers /\ Head(toAdapter).m = "speech_stopped" /\ k \in Turns
    BY <2>1, HandlingWires DEF Msg
  <2>3. voiceMode = "open-mic" /\ k > cycleTurn
    BY <2>2 DEF ModeInv, OpenMicInv
  <2> HIDE DEF k
  <2>4. vetoed' \subseteq 1..cycleTurn' /\ cycleTurn' \notin vetoed'
    BY <1>1, <2>1, <2>2, <2>3 DEF Turns
  <2> QED
    BY <2>1, <2>3, <2>4 DEF GateInv
<1>5. CASE ~CommitOpensCycle /\ ~NoticeOpensCycle
  <2>1. cycleTurn' = cycleTurn /\ (fate' = "live" => fate = "live")
    BY <1>5, CycleSteps
  <2>2. ASSUME /\ UNCHANGED <<voiceMode, audioStopped, vetoed>>
               /\ reopened' = reopened
        PROVE  GateInv'
    BY <1>1, <1>2, <2>1, <2>2 DEF GateInv
  <2>3. ASSUME vetoed' \in {vetoed, vetoed \cup LiveTurn},
               ~staleGap' /\ fate' = "live" => audioStopped' \/ reopened'
        PROVE  GateInv'
    BY <1>1, <2>1, <2>3 DEF GateInv
  <2>4. CASE ClientStep
    <3>1. CASE StartVoice
      <4>1. fate' # "live"
        BY <3>1 DEF StartVoice, StartSession, IInv, StartInv
      <4> QED
        BY <2>3, <3>1, <4>1 DEF StartVoice, ghostVars
    <3>2. CASE AudioChunk
      BY <2>2, <3>2 DEF AudioChunk, ghostVars
    <3>3. CASE AudioStop
      BY <2>3, <3>3 DEF AudioStop
    <3>4. CASE AudioCommit
      BY <2>3, <3>4 DEF AudioCommit, CommitUtterance
    <3>5. CASE BargeIn
      BY <1>2, <2>3, <3>5, CycleEnds DEF BargeIn
    <3> QED
      BY <2>4, <3>1, <3>2, <3>3, <3>4, <3>5 DEF ClientStep
  <2>5. CASE HandleReply
    <3>1. CASE ResponseDone
      <4>1. vetoed' = vetoed /\ voiceMode' = voiceMode /\ reopened' = reopened
        BY <3>1 DEF ResponseDone, Receive
      <4>2. CASE suppressLaneBDone
        BY <2>2, <3>1, <4>1, <4>2 DEF ResponseDone
      <4>3. CASE ~suppressLaneBDone
        <5>1. ~staleGap => fate' # "live"
          <6>1. CASE state = "FALLBACK_PLAYING"
            BY <2>1, <6>1, CycleEnds
          <6>2. CASE state # "FALLBACK_PLAYING"
            BY <3>1, <4>3, <6>2, CycleEnds DEF ResponseDone
          <6> QED
            BY <6>1, <6>2
        <5> QED
          BY <1>2, <2>3, <4>1, <5>1
      <4> QED
        BY <4>2, <4>3
    <3>2. CASE SpeechStopped \/ Committed \/ ResponseCreated \/ ResponseAudio \/ ProviderError
      BY <2>2, <3>2 DEF SpeechStopped, Committed, ResponseCreated, ResponseAudio, ProviderError,
         Receive, serverVars, ghostVars
    <3> QED
      BY <2>5, <3>1, <3>2 DEF HandleReply
  <2>6. CASE ServerStep /\ ~HandleReply
    <3>1. CASE CommitSkipped
      <4>1. fate' = "live" => reopened'
        BY <3>1 DEF CommitSkipped
      <4> QED
        BY <2>3, <3>1, <4>1 DEF CommitSkipped
    <3>2. CASE CommitSent
      BY <2>2, <3>2 DEF CommitSent, ghostVars
    <3>3. CASE PolicyDecision
      <4>1. ~staleGap' => fate' # "live"
        BY <1>2, <3>3, CycleEnds DEF PolicyDecision
      <4> QED
        BY <2>3, <3>3, <4>1 DEF PolicyDecision
    <3>4. CASE FallbackDone
      <4>1. ~staleGap' => fate' # "live"
        BY <1>2, <3>4, CycleEnds DEF FallbackDone
      <4> QED
        BY <2>3, <3>4, <4>1 DEF FallbackDone, ghostVars
    <3>5. CASE TimerExpires
      BY <2>2, <3>5 DEF TimerExpires, sessionVars, serverVars, ghostVars
    <3> QED
      BY <2>6, <3>1, <3>2, <3>3, <3>4, <3>5 DEF ServerStep, FinishCommit
  <2>7. CASE ProviderStep \/ UNCHANGED allVars
    <3>1. UNCHANGED <<voiceMode, audioStopped, vetoed>> /\ reopened' = reopened
      BY <2>7 DEF ProviderStep, TakeRequest, TakeAudio, TakeClear, TakeCommit, TakeCreate,
         TakeCancel, Take, VadTurn, AutoCreate, SendChunk, FinishResponse, ghostVars, allVars,
         sessionVars, serverVars
    <3> QED
      BY <2>2, <3>1
  <2> QED
    BY <2>4, <2>5, <2>6, <2>7 DEF VoiceNext
<1> QED
  BY <1>3, <1>4, <1>5

-----------------------------------------------------------------------------
\* The session's invariant holds when it starts.
LEMMA InitVoiceInv == VoiceInit => VInv
<1> SUFFICES ASSUME VoiceInit PROVE VInv
  OBVIOUS
<1>1. IInv
  BY InitIInv DEF VoiceInit
<1>2. /\ On(toProvider) = {} /\ On(toAdapter) = {}
      /\ toProvider \in Seq(Requests) /\ toAdapter \in Seq(Replies)
  BY DEF VoiceInit, On
<1>3. VoiceTypeOK
  <2>1. /\ autoTurn \in 0..turn /\ active \in 0..turn /\ chunks \in 0..MaxChunks
        /\ turn \in 0..MaxCycles /\ cycleTurn \in 0..turn /\ vetoes \in 0..MaxVetoes
    BY VoiceAssumption, MaxCyclesAssumption DEF VoiceInit, NoTurn
  <2> QED
    BY <1>2, <2>1 DEF VoiceInit, VoiceTypeOK
<1>4. Orders = {} /\ Answers = {}
  BY <1>2 DEF Orders, Answers
<1>5. TurnInv /\ SkipInv /\ AnswerInv /\ GateInv
  BY <1>4 DEF VoiceInit, Init, TurnInv, SkipInv, AnswerInv, GateInv
<1>6. ModeInv
  BY <1>4, VoiceAssumption DEF VoiceInit, ModeInv
<1>7. OpenMicInv
  BY <1>4 DEF VoiceInit, OpenMicInv, Ordered
<1> QED
  BY <1>1, <1>3, <1>5, <1>6, <1>7 DEF VInv

\* The types are kept.
LEMMA NextVoiceTypes == VoiceTypeOK /\ TurnInv /\ [VoiceNext]_allVars => VoiceTypeOK'
<1>1. VoiceTypeOK /\ UNCHANGED allVars => VoiceTypeOK'
  BY DEF VoiceTypeOK, allVars, sessionVars, serverVars, providerVars, ghostVars
<1> QED
  BY <1>1, ClientTypes, ServerTypes, ProviderTypes DEF VoiceNext

\* And it holds ever after.
LEMMA VoiceInductive == VoiceSpec => []VInv
<1>1. VInv /\ IInv' /\ [VoiceNext]_allVars => VInv'
  BY NextVoiceTypes, NextTurn, NextMode, NextSkip, NextAnswer, NextOpenMic, NextGate DEF VInv
<1> QED
  BY InitVoiceInv, ArbitratorHolds, <1>1, PTL DEF VoiceSpec

-----------------------------------------------------------------------------
\* The types of the session, for any number of turns and of messages in flight.
THEOREM VoiceTypesCorrect == VoiceSpec => []VoiceTypeOK
<1>1. VInv => VoiceTypeOK
  BY DEF VInv
<1> QED
  BY <1>1, VoiceInductive, PTL

\* A session that waits for an answer has one on its way, or lost it for one of
\* the three causes that LaneB and the adapter leave without a timer.
THEOREM WaitsCorrect == VoiceSpec => []WaitsOnlyForAnswer
<1>1. VInv => WaitsOnlyForAnswer
  <2> SUFFICES ASSUME VInv, state \in {"A_PLAYING", "B_RESPONDING", "B_PLAYING"},
                      lost = "no", ~staleGap
               PROVE  AnswerUnderWay
    BY DEF WaitsOnlyForAnswer
  <2>1. fate = "live"
    BY DEF VInv, IInv, CycleInv, Waiting
  <2>2. Pending(cycleTurn) /\ cycleTurn # NoTurn
    BY <2>1 DEF VInv, AnswerInv, TurnInv
  <2>3. ASSUME NEW w, NEW x \in On(w) PROVE \E i \in DOMAIN w : w[i] = x
    BY DEF On
  <2>4. \A k, t : Msg(k, t).m = k
    BY DEF Msg
  <2>5. CASE autoTurn = cycleTurn \/ active = cycleTurn \/ commitStep # "idle"
    BY <2>2, <2>5 DEF AnswerUnderWay
  <2>6. CASE Msg("commit", cycleTurn) \in Orders \/ Msg("create", cycleTurn) \in Orders
    <3>1. PICK i \in DOMAIN toProvider : toProvider[i].m \in {"commit", "create"}
      BY <2>3, <2>4, <2>6 DEF Orders
    <3> QED
      BY <3>1 DEF AnswerUnderWay
  <2>7. CASE Msg("done", cycleTurn) \in Answers
    <3>1. PICK i \in DOMAIN toAdapter : toAdapter[i].m = "done"
      BY <2>3, <2>4, <2>7 DEF Answers
    <3> QED
      BY <3>1 DEF AnswerUnderWay
  <2>8. CASE voiceMode # "open-mic" /\ Msg("committed", cycleTurn) \in Answers
    <3>1. PICK i \in DOMAIN toAdapter : toAdapter[i].m = "committed"
      BY <2>3, <2>4, <2>8 DEF Answers
    <3>2. voiceMode = "push-to-talk"
      BY <2>8, VoiceAssumption DEF VInv, VoiceTypeOK
    <3> QED
      BY <3>1, <3>2 DEF AnswerUnderWay
  <2> QED
    BY <2>2, <2>5, <2>6, <2>7, <2>8 DEF Pending
<1> QED
  BY <1>1, VoiceInductive, PTL

\* The chunk that a client hears belongs to a live cycle whose gate is open.
LEMMA HeardWhenLive ==
  ASSUME VInv, VInv', [VoiceNext]_allVars, NEW t, Hears(t), ~staleGap'
  PROVE  /\ fate = "live" /\ ~staleGap /\ ~audioStopped
         /\ Head(toAdapter) = Msg("audio", t) /\ t \in Turns
         /\ Msg("audio", t) \in Answers /\ Answers = {Msg("audio", t)} \cup Answers'
         /\ Ordered(toAdapter) => \A y \in Answers' : Before(Msg("audio", t), y)
         /\ lost' = lost
<1>1. ResponseAudio /\ Head(toAdapter).turn = t /\ ~audioStopped /\ state' = "B_PLAYING"
  BY DEF Hears, Forwarded
<1>2. fate' = "live"
  BY <1>1 DEF VInv, IInv, CycleInv
<1>3. fate' = fate
  BY <1>1 DEF ResponseAudio, OnLaneBReady, vars, histVars
<1>4. ~staleGap
  BY StaleForGood, VoiceStepsArbitrator
<1>5. Receive("audio") /\ lost' = lost /\ VoiceTypeOK
  BY <1>1 DEF ResponseAudio, ghostVars, VInv
<1> QED
  BY <1>1, <1>2, <1>3, <1>4, <1>5, HandlingWires

\* What is awaited with an open microphone is the cycle's own answer.
LEMMA OpenMicAwaits ==
  ASSUME VInv, voiceMode = "open-mic", fate = "live", lost # "done_swallowed", ~staleGap
  PROVE  \/ cycleTurn \in {autoTurn, active} /\ cycleTurn = turn
         \/ Msg("done", cycleTurn) \in Answers
<1>1. lost = "no" /\ commitStep = "idle" /\ Orders = {}
  BY DEF VInv, ModeInv
<1>2. Pending(cycleTurn) /\ cycleTurn # NoTurn
  BY <1>1 DEF VInv, AnswerInv, TurnInv
<1> QED
  BY <1>1, <1>2 DEF Pending, VInv, OpenMicInv

\* No chunk of a cancelled turn reaches the client, whatever is in flight, until
\* a skipped commit reopens the gate.
THEOREM SilenceCorrect == VoiceSpec => CancelledStaysSilent
<1>1. VInv /\ VInv' /\ [VoiceNext]_allVars
        => [~staleGap' /\ ~reopened => \A t \in vetoed : ~Hears(t)]_allVars
  <2> SUFFICES ASSUME VInv, VInv', [VoiceNext]_allVars, ~staleGap', ~reopened,
                      NEW t \in vetoed, Hears(t)
               PROVE  FALSE
    OBVIOUS
  <2>1. /\ fate = "live" /\ ~staleGap /\ ~audioStopped
        /\ Msg("audio", t) \in Answers
    BY HeardWhenLive
  <2>2. voiceMode = "open-mic" /\ cycleTurn \notin vetoed /\ vetoed \subseteq 1..cycleTurn
    BY <2>1 DEF VInv, GateInv
  <2>3. t >= cycleTurn
    BY <2>1, <2>2 DEF VInv, OpenMicInv, Msg
  <2>4. t = cycleTurn
    BY <2>2, <2>3 DEF VInv, VoiceTypeOK
  <2> QED
    BY <2>2, <2>4
<1> QED
  BY <1>1, VoiceInductive, PTL DEF VoiceSpec, CancelledStaysSilent

\* What the client hears is the answer to the utterance of the current cycle,
\* until a skipped commit reopens the gate.
THEOREM HeardCorrect == VoiceSpec => HeardAnswersCurrentTurn
<1>1. VInv /\ VInv' /\ [VoiceNext]_allVars
        => [~staleGap' /\ ~reopened /\ lost # "done_swallowed" =>
              \A t \in Turns : Hears(t) => t = cycleTurn]_allVars
  <2> SUFFICES ASSUME VInv, VInv', [VoiceNext]_allVars, ~staleGap', ~reopened,
                      lost # "done_swallowed", NEW t \in Turns, Hears(t)
               PROVE  t = cycleTurn
    OBVIOUS
  <2>1. /\ fate = "live" /\ ~staleGap /\ ~audioStopped
        /\ Msg("audio", t) \in Answers /\ Answers = {Msg("audio", t)} \cup Answers'
        /\ Ordered(toAdapter) => \A y \in Answers' : Before(Msg("audio", t), y)
    BY HeardWhenLive
  <2>2. voiceMode = "open-mic"
    BY <2>1 DEF VInv, GateInv
  <2>3. t >= cycleTurn /\ t <= turn /\ Ordered(toAdapter)
    <3>1. Msg("audio", t).turn = t
      BY DEF Msg
    <3> QED
      BY <2>1, <2>2, <3>1 DEF VInv, OpenMicInv, TurnInv
  <2>4. CASE cycleTurn = turn
    BY <2>3, <2>4 DEF Turns, VInv, VoiceTypeOK
  <2>5. CASE Msg("done", cycleTurn) \in Answers
    <3>1. Msg("done", cycleTurn) \in Answers'
      BY <2>1, <2>5 DEF Msg
    <3>2. t <= cycleTurn
      BY <2>1, <2>3, <3>1 DEF Before, Msg
    <3> QED
      BY <2>3, <3>2 DEF Turns, VInv, VoiceTypeOK
  <2> QED
    BY <2>1, <2>2, <2>4, <2>5, OpenMicAwaits
<1> QED
  BY <1>1, VoiceInductive, PTL DEF VoiceSpec, HeardAnswersCurrentTurn

\* With an open microphone a cycle is completed by the done of its own answer.
THEOREM DoneCorrect == VoiceSpec => DoneEndsItsOwnCycle
<1>1. VInv /\ VInv' /\ [VoiceNext]_allVars
        => [voiceMode = "open-mic" /\ ~staleGap /\ lost # "done_swallowed"
              /\ fate = "live" /\ fate' = "done" => Head(toAdapter).turn = cycleTurn]_allVars
  <2> SUFFICES ASSUME VInv, [VoiceNext]_allVars, voiceMode = "open-mic", ~staleGap,
                      lost # "done_swallowed", fate = "live", fate' = "done"
               PROVE  Head(toAdapter).turn = cycleTurn
    OBVIOUS
  <2> DEFINE k == Head(toAdapter).turn
  <2>1. ResponseDone
    <3> USE DEF vars, histVars
    <3>1. ~ClientStep
      BY DEF ClientStep, StartVoice, StartSession, AudioChunk, AudioStop,
         ResetResponseInProgress, AudioCommit, BargeIn, OnUserBargeIn, CloseCycle
    <3>2. HandleReply => ResponseDone
      BY DEF HandleReply, SpeechStopped, OnUserSpeechEnded, Committed, ResponseCreated,
         ResponseAudio, OnLaneBReady, ProviderError
    <3>3. ~FinishCommit
      BY DEF FinishCommit, CommitSkipped, ResetResponseInProgress, CloseCycle, CommitSent
    <3>4. ~PolicyDecision /\ ~FallbackDone
      BY DEF PolicyDecision, OnPolicyCancel, PolicyCancelInFallback, PolicyCancelToFallback,
         PolicyCancelOutsideSession, CloseCycle, FallbackDone, OnFallbackComplete,
         FallbackCompletes
    <3>5. ~TimerExpires
      BY DEF TimerExpires, TimerStep, TriggerLaneA, ReflexTimeout, GapExpires
    <3>6. ~ProviderStep /\ ~UNCHANGED allVars
      BY DEF ProviderStep, TakeRequest, TakeAudio, TakeClear, TakeCommit, TakeCreate,
         TakeCancel, Take, VadTurn, AutoCreate, SendChunk, FinishResponse, allVars
    <3> QED
      BY <3>1, <3>2, <3>3, <3>4, <3>5, <3>6 DEF VoiceNext, ServerStep
  <2>2. /\ Receive("done") /\ VoiceTypeOK /\ Ordered(toAdapter)
    BY <2>1 DEF ResponseDone, VInv, OpenMicInv
  <2>3. /\ k \in Turns /\ Msg("done", k) \in Answers
        /\ Answers = {Msg("done", k)} \cup Answers'
        /\ \A y \in Answers' : Before(Msg("done", k), y)
    BY <2>2, HandlingWires
  <2> HIDE DEF k
  <2>4. /\ k >= cycleTurn /\ k <= turn /\ k \notin {autoTurn, active}
        /\ cycleTurn \in Nat
    <3>1. Msg("done", k).turn = k /\ Msg("done", k).m = "done"
      BY DEF Msg
    <3> QED
      BY <2>3, <3>1 DEF VInv, OpenMicInv, TurnInv, VoiceTypeOK
  <2>5. CASE cycleTurn = turn
    BY <2>3, <2>4, <2>5 DEF Turns, k
  <2>6. CASE Msg("done", cycleTurn) \in Answers
    <3>1. CASE Msg("done", cycleTurn) = Msg("done", k)
      BY <3>1 DEF Msg, k
    <3>2. CASE Msg("done", cycleTurn) \in Answers'
      BY <2>3, <2>4, <3>2 DEF Before, Msg, Turns
    <3> QED
      BY <2>3, <2>6, <3>1, <3>2
  <2> QED
    BY <2>5, <2>6, OpenMicAwaits
<1> QED
  BY <1>1, VoiceInductive, PTL DEF VoiceSpec, DoneEndsItsOwnCycle
=============================================================================

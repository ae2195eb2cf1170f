----------------------------- MODULE LanePlayback -----------------------------
(***************************************************************************)
(* The two players the arbitrator commands, wired to its events as in      *)
(* server/src/api/websocket.ts: R is the reflex (lanes/LaneA.ts), F the    *)
(* policy fallback (insurance/fallback_planner.ts).                        *)
(*                                                                         *)
(* A request for the fallback's audio always ends, with the speech or,     *)
(* after five seconds or an error, with a tone.  One for the reflex may    *)
(* fail, and then stops the player, or never end.                          *)
(*                                                                         *)
(* The fallback is enabled (features.enablePolicyGate): without it no      *)
(* policy decision reaches the arbitrator.                                 *)
(***************************************************************************)
EXTENDS LaneArbitrator

CONSTANTS MaxPlays, MaxPieces       \* bounds of Player

ASSUME PlaybackAssumption == MaxPlays \in Nat /\ MaxPieces \in Nat

VARIABLES rCurrent, rFetching, rTicking, rTimer, rLeft, rLate,
          fCurrent, fFetching, fTicking, fTimer, fLeft, fLate

R == INSTANCE Player WITH
       current <- rCurrent, fetching <- rFetching, ticking <- rTicking,
       timer <- rTimer, left <- rLeft, late <- rLate

F == INSTANCE Player WITH
       current <- fCurrent, fetching <- fFetching, ticking <- fTicking,
       timer <- fTimer, left <- fLeft, late <- fLate

reflexVars   == <<rCurrent, rFetching, rTicking, rTimer, rLeft, rLate>>
fallbackVars == <<fCurrent, fFetching, fTicking, fTimer, fLeft, fLate>>
playVars     == <<vars, reflexVars, fallbackVars>>

PlaybackInit == Init /\ R!PlayerInit /\ F!PlayerInit

-----------------------------------------------------------------------------
\* Mutant of ObeyReflex: the reflex plays to its end.
ObeyReflexNever == UNCHANGED reflexVars

\* stop_reflex and stop_fallback.  A player that was told to stop before and
\* not to play since is silent: to stop it again changes nothing.
ObeyReflex   == IF reflexOn' THEN UNCHANGED reflexVars ELSE R!Stop
ObeyFallback == IF fallbackOn' THEN UNCHANGED fallbackVars ELSE F!Stop

\* What the arbitrator does without telling anyone to play.
PlainCall ==
  \/ StartSession \/ EndSession \/ OnUserSpeechEnded \/ OnLaneBReady \/ OnLaneBDone
  \/ ResetResponseInProgress \/ OnUserBargeIn
  \/ \E t \in Cycles : ReflexTimeout(t) \/ GapExpires(t)

Command == PlainCall /\ ObeyReflex /\ ObeyFallback

PlayReflex ==
  /\ \E t \in Cycles : TriggerLaneA(t)
  /\ IF state = "B_RESPONDING" THEN R!Play ELSE UNCHANGED reflexVars
  /\ UNCHANGED fallbackVars

PlayFallback ==
  /\ OnPolicyCancel
  /\ ObeyReflex
  /\ IF Open /\ state # "FALLBACK_PLAYING" THEN F!Play ELSE UNCHANGED fallbackVars

\* handleClose: unlike session.end it stops the planner itself, and like
\* session.end it leaves the reflex to play to its end.
HandleClose == EndSession /\ F!Stop /\ UNCHANGED reflexVars

-----------------------------------------------------------------------------
ReflexStep ==
  /\ \E i \in R!Plays : R!AudioReady(i) \/ R!AudioFails(i) \/ R!Tick(i)
  /\ UNCHANGED <<vars, fallbackVars>>

\* Mutant of ReportEnd: completion is reported whenever a stream ends.
ReportEveryEnd == IF F!isPlaying' THEN UNCHANGED vars ELSE FallbackCompletes

\* Mutant of ReportEnd: the arbitrator is not told.
ReportNever == UNCHANGED vars

\* The done event: the player has played to the end, and says so at once.
ReportEnd ==
  IF F!isPlaying /\ ~F!isPlaying' THEN FallbackCompletes ELSE UNCHANGED vars

FallbackStep ==
  /\ \E i \in F!Plays : F!AudioReady(i) \/ F!Tick(i)
  /\ ReportEnd
  /\ UNCHANGED reflexVars

PlaybackNext ==
  Command \/ PlayReflex \/ PlayFallback \/ HandleClose \/ ReflexStep \/ FallbackStep

PlaybackSpec == PlaybackInit /\ [][PlaybackNext]_playVars

\* Requests for the fallback's audio end (TTS_TIMEOUT_MS) and its timers expire.
FairPlaybackSpec == PlaybackSpec /\ WF_playVars(FallbackStep)

-----------------------------------------------------------------------------
\* Both players keep their types, and the handle is that of the last timer.
PlaybackTypeOK == R!PlayerTypeOK /\ F!PlayerTypeOK

\* Each player emits one stream, unless a playback of its was stopped while its
\* audio was fetched (the awaits of playReflex and trigger).
OneStream == R!OneStreamUnlessLate /\ F!OneStreamUnlessLate

\* The client hears the reflex only while Lane A owns the floor: Lane A's audio
\* passes no gate (websocket.ts), so everything rests on stop_reflex, on
\* isPlaying and on the timers.  endSession alone lets the reflex play on, and
\* a stale gap takes the floor without a word to anyone.
ReflexOnlyWithFloor ==
  [][\A i \in R!Plays : R!Emits(i) => state' \in {"A_PLAYING", "ENDED"} \/ staleGap']_playVars

\* The floor is never held for a fallback that does not play, and a fallback
\* plays only by the arbitrator's command: the arbitrator leaves
\* FALLBACK_PLAYING only when told, so it would wait for ever.
FallbackHoldsFloor ==
  /\ state = "FALLBACK_PLAYING" => F!isPlaying
  /\ F!isPlaying => fallbackOn

\* The arbitrator with its players implements the arbitrator alone: completion
\* is reported only while the fallback is on (the guard of finish), which
\* LaneArbitrator.tla assumes of its environment.
ImplementsArbitrator == Spec

\* Whatever is stopped, triggered again or late, the fallback gives the floor
\* back.
FallbackEnds == state = "FALLBACK_PLAYING" ~> state # "FALLBACK_PLAYING"
=============================================================================

----------------------------- MODULE VoiceSession -----------------------------
(***************************************************************************)
(* One connected voice session: the lane arbitrator (LaneArbitrator.tla)   *)
(* inside the WebSocket handlers that call it (server/src/api/websocket.ts)*)
(* with Lane B (lanes/LaneB.ts) on the provider adapter                    *)
(* (providers/OpenAIRealtimeAdapter.ts).  The realtime provider, which is  *)
(* outside the repository, is modelled from the messages the adapter       *)
(* exchanges with it.                                                      *)
(*                                                                         *)
(* A handler of the single-threaded server is one step, up to an await     *)
(* that really waits: the safety window of commitAudio.  The two wires to  *)
(* and from the provider are reliable and ordered (one WebSocket).         *)
(*                                                                         *)
(* A turn is one committed utterance of the user; its number tags the      *)
(* messages and the response that belong to it.  The code has no such tag. *)
(***************************************************************************)
EXTENDS LaneArbitrator, Sequences

CONSTANTS
  VoiceModes,     \* the values of connection.voiceMode considered
  PolicyGate,     \* config.features.enablePolicyGate
  LaneASettings,  \* the values of config.features.enableLaneA considered
  MaxChunks,      \* bound: audio chunks per response
  MaxVetoes,      \* bound: policy decisions that cancel output
  MaxWire         \* bound: messages in flight before a peer pauses

ASSUME VoiceAssumption ==
  /\ VoiceModes \subseteq {"open-mic", "push-to-talk"}
  /\ PolicyGate \in BOOLEAN
  /\ LaneASettings \subseteq BOOLEAN
  /\ MaxChunks \in Nat /\ MaxVetoes \in Nat /\ MaxWire \in Nat

VARIABLES
  voiceMode,          \* open-mic: the provider's VAD commits; else the client does
  audioStopped,       \* connection.audioStopped
  isResponding,       \* LaneB.isResponding
  firstAudioEmitted,  \* LaneB.firstAudioEmitted
  responding,         \* adapter: the provider is generating a response
  pendingCommit,      \* adapter: bufferState.pendingCommit
  localAudio,         \* adapter: at least 100 ms in bufferState.localBytes
  commitStep,         \* where the audio.commit handler is
  toProvider,         \* adapter -> provider
  toAdapter           \* provider -> adapter

\* The provider.
VARIABLES
  inputAudio,         \* its input buffer holds speech
  autoTurn,           \* a VAD turn whose response is not yet created, or 0
  active,             \* the turn it is answering, or 0
  chunks              \* audio chunks sent for that answer

\* History that no code reads.
VARIABLES
  turn,               \* turns so far
  cycleTurn,          \* the turn that started the current response cycle
  vetoed,             \* turns cancelled by policy, barge-in, stop or cancel
  vetoes,             \* policy decisions so far
  reopened,           \* a skipped commit has opened the gate in the middle of this cycle
  lost                \* why the current cycle will get no answer, or "no"

serverVars   == <<audioStopped, isResponding, firstAudioEmitted, responding,
                  pendingCommit, localAudio, commitStep>>
laneBVars    == <<isResponding, firstAudioEmitted, responding>>
bufferVars   == <<pendingCommit, localAudio>>
providerVars == <<inputAudio, autoTurn, active, chunks>>
ghostVars    == <<turn, cycleTurn, vetoed, vetoes, reopened, lost>>
sessionVars  == <<serverVars, toProvider, toAdapter, providerVars, ghostVars>>
allVars      == <<vars, voiceMode, sessionVars>>

Turns == 1..MaxCycles
NoTurn == 0

Requests == [m : {"append", "clear", "cancel"}] \cup [m : {"commit", "create"}, turn : Turns]
Replies  == [m : {"error"}]
              \cup [m : {"speech_stopped", "committed", "created", "audio", "done"},
                    turn : Turns]

-----------------------------------------------------------------------------
\* The session has been started and the provider is connected.
VoiceInit ==
  /\ voiceMode \in VoiceModes
  /\ Init /\ laneAEnabled \in LaneASettings
  /\ audioStopped = FALSE
  /\ isResponding = FALSE /\ firstAudioEmitted = FALSE /\ responding = FALSE
  /\ pendingCommit = FALSE /\ localAudio = FALSE /\ commitStep = "idle"
  /\ toProvider = <<>> /\ toAdapter = <<>>
  /\ inputAudio = FALSE /\ autoTurn = NoTurn /\ active = NoTurn /\ chunks = 0
  /\ turn = 0 /\ cycleTurn = NoTurn /\ vetoed = {} /\ vetoes = 0
  /\ reopened = FALSE /\ lost = "no"

\* The server runs a handler only when no other one is in its atomic part.
Free == commitStep # "skipping"

SendRequests(ms) == toProvider' = toProvider \o ms

\* LaneB.cancel and the adapter's cancel: no await of theirs really waits.
CancelLaneB == isResponding' = FALSE /\ firstAudioEmitted' = FALSE /\ responding' = FALSE

\* The turn whose answer a cancel cuts off: the cycle's own, while it lives.
LiveTurn == IF fate = "live" THEN {cycleTurn} ELSE {}

LoseIf(c, why) == lost' = IF c THEN why ELSE lost

StartVoice ==
  /\ ~started
  /\ StartSession
  /\ audioStopped' = FALSE
  /\ UNCHANGED <<voiceMode, isResponding, firstAudioEmitted, responding, bufferVars,
                 commitStep, toProvider, toAdapter, providerVars, ghostVars>>

-----------------------------------------------------------------------------
\* handleMessage: what the client sends.
AudioChunk ==
  /\ Free
  /\ ~audioStopped
  /\ state = "LISTENING"
  /\ ~(localAudio /\ inputAudio)                  \* bound: one utterance buffered
  /\ Len(toProvider) < MaxWire
  /\ SendRequests(<<[m |-> "append"]>>)
  /\ localAudio' \in {localAudio, TRUE}          \* is it 100 ms by now?
  /\ UNCHANGED <<voiceMode, vars, audioStopped, laneBVars, pendingCommit, commitStep,
                 toAdapter, providerVars, ghostVars>>

\* audio.stop and audio.cancel differ only in their acknowledgement.
AudioStop ==
  /\ Free
  /\ Open
  /\ Len(toProvider) < MaxWire
  /\ audioStopped' = TRUE
  /\ localAudio' = FALSE /\ pendingCommit' = FALSE
  /\ IF isResponding
       THEN CancelLaneB /\ SendRequests(<<[m |-> "clear"], [m |-> "cancel"]>>)
       ELSE UNCHANGED laneBVars /\ SendRequests(<<[m |-> "clear"]>>)
  /\ IF state \in {"B_RESPONDING", "B_PLAYING"} /\ responseInProgress
       THEN ResetResponseInProgress ELSE UNCHANGED vars
  /\ vetoed' = vetoed \cup LiveTurn /\ reopened' = FALSE
  /\ UNCHANGED <<voiceMode, commitStep, toAdapter, providerVars, turn, cycleTurn,
                 vetoes, lost>>

\* audio.commit up to its await: the speech end is signalled first.
CommitUtterance ==
  /\ commitStep = "idle"
  /\ turn < MaxCycles
  /\ audioStopped' = TRUE /\ reopened' = FALSE
  /\ turn' = turn + 1
  /\ IF SpeechEndAccepted
       THEN OnUserSpeechEnded /\ cycleTurn' = turn + 1 /\ lost' = "no"
       ELSE UNCHANGED <<vars, cycleTurn, lost>>
  /\ commitStep' = IF localAudio THEN "waiting" ELSE "skipping"
  /\ IF localAudio THEN UNCHANGED bufferVars
                   ELSE localAudio' = FALSE /\ pendingCommit' = FALSE
  /\ UNCHANGED <<voiceMode, laneBVars, toProvider, toAdapter, providerVars, vetoed,
                 vetoes>>

\* Mutant of AudioCommit: the client commits with an open microphone too.
AudioCommitInAnyMode == CommitUtterance

\* The client commits when the talk button is released; it has none with an open
\* microphone (client/src/components/VoiceInterface.tsx, handleMouseUp).
AudioCommit == voiceMode = "push-to-talk" /\ CommitUtterance

\* Mutant of CommitSkipped: the arbitrator is not told.
CommitSkippedNoReset ==
  /\ commitStep = "skipping"
  /\ commitStep' = "idle"
  /\ audioStopped' = FALSE
  /\ UNCHANGED <<voiceMode, vars, laneBVars, bufferVars, toProvider, toAdapter,
                 providerVars, ghostVars>>

\* The buffer was too small: commitAudio returned false without waiting.
CommitSkipped ==
  /\ commitStep = "skipping"
  /\ commitStep' = "idle"
  /\ audioStopped' = FALSE
  /\ IF responseInProgress THEN ResetResponseInProgress ELSE UNCHANGED vars
  /\ reopened' = (fate' = "live")
  /\ UNCHANGED <<voiceMode, laneBVars, bufferVars, toProvider, toAdapter, providerVars,
                 turn, cycleTurn, vetoed, vetoes, lost>>

\* The safety window is over: the commit is sent whatever happened meanwhile.
CommitSent ==
  /\ commitStep = "waiting"
  /\ commitStep' = "idle"
  /\ SendRequests(<<[m |-> "commit", turn |-> turn]>>)
  /\ pendingCommit' = TRUE
  /\ UNCHANGED <<voiceMode, vars, audioStopped, laneBVars, localAudio, toAdapter,
                 providerVars, ghostVars>>

BargeIn ==
  /\ Free
  /\ Open
  /\ Len(toProvider) < MaxWire
  /\ audioStopped' = FALSE
  /\ OnUserBargeIn
  /\ IF state = "B_PLAYING"
       THEN CancelLaneB /\ SendRequests(<<[m |-> "cancel"]>>)
       ELSE UNCHANGED <<laneBVars, toProvider>>
  /\ vetoed' = vetoed \cup LiveTurn
  /\ UNCHANGED <<voiceMode, bufferVars, commitStep, toAdapter, providerVars, turn,
                 cycleTurn, vetoes, reopened, lost>>

-----------------------------------------------------------------------------
\* policyDecisionHandler: the control engine decided to cancel the output.  The
\* evaluation is asynchronous, so the decision may be about a turn long over.
PolicyDecision ==
  /\ PolicyGate
  /\ Free
  /\ Open /\ turn > 0
  /\ vetoes < MaxVetoes
  /\ vetoes' = vetoes + 1
  /\ OnPolicyCancel
  /\ vetoed' = vetoed \cup LiveTurn
  /\ IF state # "LISTENING"
       THEN CancelLaneB /\ SendRequests(<<[m |-> "cancel"]>>)
       ELSE UNCHANGED <<laneBVars, toProvider>>
  /\ UNCHANGED <<voiceMode, audioStopped, bufferVars, commitStep, toAdapter,
                 providerVars, turn, cycleTurn, reopened, lost>>

\* The fallback planner has played to the end.
FallbackDone ==
  /\ Free
  /\ OnFallbackComplete
  /\ audioStopped' = FALSE
  /\ UNCHANGED <<voiceMode, laneBVars, bufferVars, commitStep, toProvider, toAdapter,
                 providerVars, ghostVars>>

TimerExpires ==
  /\ Free
  /\ TimerStep
  /\ UNCHANGED <<voiceMode, sessionVars>>

-----------------------------------------------------------------------------
\* The adapter's handleMessage, with the Lane B handlers it calls.
Receive(m) ==
  /\ Free
  /\ toAdapter # <<>> /\ Head(toAdapter).m = m
  /\ toAdapter' = Tail(toAdapter)
  /\ UNCHANGED <<voiceMode, providerVars>>

SpeechStopped ==
  /\ Receive("speech_stopped")
  /\ IF SpeechEndAccepted
       THEN OnUserSpeechEnded /\ cycleTurn' = Head(toAdapter).turn /\ lost' = "no"
       ELSE UNCHANGED <<vars, cycleTurn, lost>>
  /\ UNCHANGED <<serverVars, toProvider, turn, vetoed, vetoes, reopened>>

\* The response is requested only after the commit is confirmed.
Committed ==
  /\ Receive("committed")
  /\ IF pendingCommit /\ ~responding
       THEN SendRequests(<<[m |-> "create", turn |-> Head(toAdapter).turn]>>)
            /\ UNCHANGED lost
       ELSE UNCHANGED toProvider
            /\ LoseIf(voiceMode = "push-to-talk" /\ Head(toAdapter).turn = cycleTurn, "not_requested")
  /\ pendingCommit' = FALSE /\ localAudio' = FALSE
  /\ UNCHANGED <<vars, audioStopped, laneBVars, commitStep, turn, cycleTurn, vetoed,
                 vetoes, reopened>>

ResponseCreated ==
  /\ Receive("created")
  /\ SendRequests(<<[m |-> "clear"]>>)
  /\ responding' = TRUE /\ isResponding' = TRUE /\ firstAudioEmitted' = FALSE
  /\ UNCHANGED <<vars, audioStopped, bufferVars, commitStep, ghostVars>>

ResponseAudio ==
  /\ Receive("audio")
  /\ IF isResponding /\ ~firstAudioEmitted
       THEN firstAudioEmitted' = TRUE /\ OnLaneBReady
       ELSE UNCHANGED <<firstAudioEmitted, vars>>
  /\ UNCHANGED <<audioStopped, isResponding, responding, bufferVars, commitStep,
                 toProvider, ghostVars>>

\* Mutant of Forwarded: the owner is not looked at.
ForwardedToAnyone == ~audioStopped

\* Lane B's audio reaches the client only through both gates.
Forwarded == ~audioStopped /\ state' = "B_PLAYING"

\* The step that sends a chunk of this turn on to the client.
Hears(t) == ResponseAudio /\ Head(toAdapter).turn = t /\ Forwarded

\* Mutant of ResponseDone: a response without audio completes nothing.
ResponseDoneIfHeard ==
  /\ Receive("done")
  /\ responding' = FALSE /\ isResponding' = FALSE /\ firstAudioEmitted' = FALSE
  /\ audioStopped' = FALSE
  /\ IF state = "B_PLAYING" THEN OnLaneBDone ELSE UNCHANGED vars
  /\ UNCHANGED <<bufferVars, commitStep, toProvider, ghostVars>>

\* response_complete is emitted unless the done signal is swallowed.
ResponseDone ==
  /\ Receive("done")
  /\ responding' = FALSE /\ isResponding' = FALSE /\ firstAudioEmitted' = FALSE
  /\ IF suppressLaneBDone \/ state = "FALLBACK_PLAYING"
       THEN UNCHANGED audioStopped ELSE audioStopped' = FALSE
  /\ IF ~suppressLaneBDone /\ state = "FALLBACK_PLAYING"
       THEN UNCHANGED vars ELSE OnLaneBDone
  /\ LoseIf(suppressLaneBDone /\ Head(toAdapter).turn \in LiveTurn, "done_swallowed")
  /\ UNCHANGED <<bufferVars, commitStep, toProvider, turn, cycleTurn, vetoed, vetoes,
                 reopened>>

ProviderError ==
  /\ Receive("error")
  /\ responding' = FALSE
  /\ UNCHANGED <<vars, audioStopped, isResponding, firstAudioEmitted, bufferVars,
                 commitStep, toProvider, ghostVars>>

-----------------------------------------------------------------------------
\* The provider (external): it serves requests in order and answers one turn at
\* a time.
Reply(ms) == toAdapter' = toAdapter \o ms

Take(m) ==
  /\ toProvider # <<>> /\ Head(toProvider).m = m
  /\ toProvider' = Tail(toProvider)
  /\ UNCHANGED <<vars, voiceMode, serverVars, turn, cycleTurn, vetoed, vetoes, reopened>>

TakeAudio ==
  /\ Take("append")
  /\ inputAudio' = TRUE
  /\ UNCHANGED <<autoTurn, active, chunks, toAdapter, lost>>

TakeClear ==
  /\ Take("clear")
  /\ inputAudio' = FALSE
  /\ UNCHANGED <<autoTurn, active, chunks, toAdapter, lost>>

TakeCommit ==
  /\ Take("commit")
  /\ inputAudio' = FALSE
  /\ Reply(IF inputAudio THEN <<[m |-> "committed", turn |-> Head(toProvider).turn]>>
                         ELSE <<[m |-> "error"]>>)
  /\ LoseIf(~inputAudio /\ Head(toProvider).turn = cycleTurn, "refused")
  /\ UNCHANGED <<autoTurn, active, chunks>>

TakeCreate ==
  /\ Take("create")
  /\ IF active = NoTurn
       THEN /\ active' = Head(toProvider).turn /\ chunks' = 0
            /\ Reply(<<[m |-> "created", turn |-> Head(toProvider).turn]>>)
       ELSE Reply(<<[m |-> "error"]>>) /\ UNCHANGED <<active, chunks>>
  /\ LoseIf(active # NoTurn /\ Head(toProvider).turn = cycleTurn, "refused")
  /\ UNCHANGED <<inputAudio, autoTurn>>

TakeCancel ==
  /\ Take("cancel")
  /\ Reply(IF active # NoTurn THEN <<[m |-> "done", turn |-> active]>>
                              ELSE <<[m |-> "error"]>>)
  /\ active' = NoTurn
  /\ UNCHANGED <<inputAudio, autoTurn, chunks, lost>>

\* Open microphone: the VAD hears the user stop.  Speech interrupts the answer
\* being given, and the provider commits and answers on its own.
VadTurn ==
  /\ voiceMode = "open-mic"
  /\ inputAudio /\ autoTurn = NoTurn
  /\ turn < MaxCycles
  /\ turn' = turn + 1
  /\ autoTurn' = turn + 1
  /\ inputAudio' = FALSE
  /\ active' = NoTurn
  /\ Reply((IF active # NoTurn THEN <<[m |-> "done", turn |-> active]>> ELSE <<>>)
           \o <<[m |-> "speech_stopped", turn |-> turn + 1],
                [m |-> "committed", turn |-> turn + 1]>>)
  /\ UNCHANGED <<voiceMode, vars, serverVars, toProvider, chunks, cycleTurn, vetoed,
                 vetoes, reopened, lost>>

AutoCreate ==
  /\ autoTurn # NoTurn
  /\ autoTurn' = NoTurn
  /\ active' = autoTurn /\ chunks' = 0
  /\ Reply(<<[m |-> "created", turn |-> autoTurn]>>)
  /\ UNCHANGED <<voiceMode, vars, serverVars, toProvider, inputAudio, ghostVars>>

SendChunk ==
  /\ active # NoTurn
  /\ chunks < MaxChunks /\ Len(toAdapter) < MaxWire
  /\ chunks' = chunks + 1
  /\ Reply(<<[m |-> "audio", turn |-> active]>>)
  /\ UNCHANGED <<voiceMode, vars, serverVars, toProvider, inputAudio, autoTurn, active,
                 ghostVars>>

FinishResponse ==
  /\ active # NoTurn
  /\ active' = NoTurn
  /\ Reply(<<[m |-> "done", turn |-> active]>>)
  /\ UNCHANGED <<voiceMode, vars, serverVars, toProvider, inputAudio, autoTurn, chunks,
                 ghostVars>>

-----------------------------------------------------------------------------
ClientStep == StartVoice \/ AudioChunk \/ AudioStop \/ AudioCommit \/ BargeIn

HandleReply ==
  \/ SpeechStopped \/ Committed \/ ResponseCreated \/ ResponseAudio \/ ResponseDone
  \/ ProviderError

FinishCommit == CommitSkipped \/ CommitSent

ServerStep ==
  HandleReply \/ FinishCommit \/ PolicyDecision \/ FallbackDone \/ TimerExpires

TakeRequest == TakeAudio \/ TakeClear \/ TakeCommit \/ TakeCreate \/ TakeCancel

ProviderStep == TakeRequest \/ VadTurn \/ AutoCreate \/ SendChunk \/ FinishResponse

\* The client may also change the mode with session.set_mode; not modelled.
VoiceNext == ClientStep \/ ServerStep \/ ProviderStep

VoiceSpec == VoiceInit /\ [][VoiceNext]_allVars

\* The event loop runs every handler and timer that is due, the fallback plays
\* to its end, and the provider serves requests and finishes its answers.
\* Nothing is assumed of the client, of the user, or of policy decisions.
VoiceFairness ==
  /\ WF_allVars(HandleReply)
  /\ WF_allVars(FinishCommit)
  /\ WF_allVars(FallbackDone)
  /\ WF_allVars(TimerExpires)
  /\ WF_allVars(TakeRequest)
  /\ WF_allVars(AutoCreate)
  /\ WF_allVars(FinishResponse)

FairVoiceSpec == VoiceSpec /\ VoiceFairness

-----------------------------------------------------------------------------
\* Every variable keeps its type, the wires carry only known messages, and
\* LaneB's flag for the first audio belongs to a response it believes in.
VoiceTypeOK ==
  /\ voiceMode \in VoiceModes /\ audioStopped \in BOOLEAN
  /\ isResponding \in BOOLEAN /\ firstAudioEmitted \in BOOLEAN /\ responding \in BOOLEAN
  /\ firstAudioEmitted => isResponding
  /\ pendingCommit \in BOOLEAN /\ localAudio \in BOOLEAN
  /\ commitStep \in {"idle", "waiting", "skipping"}
  /\ toProvider \in Seq(Requests) /\ toAdapter \in Seq(Replies)
  /\ inputAudio \in BOOLEAN
  /\ autoTurn \in 0..turn /\ active \in 0..turn /\ chunks \in 0..MaxChunks
  /\ turn \in 0..MaxCycles /\ cycleTurn \in 0..turn
  /\ vetoed \subseteq Turns /\ reopened \in BOOLEAN
  /\ vetoes \in 0..MaxVetoes
  /\ lost \in {"no", "not_requested", "refused", "done_swallowed"}

\* Once the user (barge-in, stop, cancel) or the policy engine has cancelled a turn, no
\* chunk of it reaches the client, not even after others of it did, although chunks may
\* be in flight and the cancel may reach the provider before the response exists (the
\* owner gate, the audioStopped gate, LaneB.isResponding). One thing undoes this, although
\* the comment at websocket.ts:1026-1027 is certain that nothing follows the ack of a
\* cancel: a commit that is skipped opens the gate in the middle of a cycle.
CancelledStaysSilent ==
  [][~staleGap' /\ ~reopened => \A t \in vetoed : ~Hears(t)]_allVars

\* Lane B audio that reaches the client answers the utterance that opened the
\* current response cycle, never an older or a younger one, with the same exception:
\* nothing in the code tags audio with its turn (onLaneBReady, onLaneBDone).
HeardAnswersCurrentTurn ==
  [][~staleGap' /\ ~reopened /\ lost # "done_swallowed" =>
       \A t \in Turns : Hears(t) => t = cycleTurn]_allVars

\* With an open microphone, the done signal that completes a cycle is that of the
\* cycle's own response, never the late one of an interrupted response, unless its own
\* was swallowed (suppressLaneBDone).
DoneEndsItsOwnCycle ==
  [][voiceMode = "open-mic" /\ ~staleGap /\ lost # "done_swallowed"
       /\ fate = "live" /\ fate' = "done" => Head(toAdapter).turn = cycleTurn]_allVars

\* Something in flight will still move a waiting cycle: a commit, a request, or
\* a response that the provider is giving, or its notice on the way back.
AnswerUnderWay ==
  \/ autoTurn # NoTurn \/ active # NoTurn \/ commitStep # "idle"
  \/ \E i \in DOMAIN toProvider : toProvider[i].m \in {"commit", "create"}
  \/ \E i \in DOMAIN toAdapter : \/ toAdapter[i].m \in {"created", "done"}
                                 \/ /\ toAdapter[i].m = "committed"
                                    /\ voiceMode = "push-to-talk"

\* The arbitrator never waits for an answer that cannot come, whatever stops,
\* cancels and vetoes cut in, except for three causes: the commit arrived while
\* the adapter believed in another response or its buffer state was reset
\* (handler of input_audio_buffer.committed), the provider refused it, or the
\* done signal was swallowed (suppressLaneBDone).  No timer guards the wait.
WaitsOnlyForAnswer ==
  state \in {"A_PLAYING", "B_RESPONDING", "B_PLAYING"} /\ lost = "no" /\ ~staleGap
    => AnswerUnderWay

\* The conversation goes on: whoever has the floor, the session listens again,
\* unless the answer was lost for one of those causes.
ListensAgain ==
  started /\ state # "LISTENING" ~> state = "LISTENING" \/ lost # "no" \/ staleGap

\* docs/API.md: lane B is the full AI response audio, beginning with Lane B's
\* first frame.  So an answer that has the floor is muted only if somebody
\* cancelled its turn.  (Refuted in push-to-talk: audio.commit closes the gate
\* that the answer has to pass.)
MutedOnlyIfCancelled == audioStopped /\ Owner = "B" => cycleTurn \in vetoed
=============================================================================

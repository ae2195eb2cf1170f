--------------------------- MODULE BrowserClient ---------------------------
(* The browser's session manager (client/src/state/SessionManager.ts) under  *)
(* the talk button (components/VoiceInterface.tsx, App.tsx). startTalking()  *)
(* and startOpenMic() wait for the microphone and then for the provider;     *)
(* meanwhile the button, the server and the end of the call change the state *)
(* they go on with. `slipped` is history.                                    *)
EXTENDS Naturals, Sequences

CONSTANTS Calls,        \* calls of startTalking and startOpenMic under way at once
          MaxEchoes     \* bound: mode changes that the server has not answered

VARIABLES state,
          online,       \* there is a connection whose messages are handled
          mode, openMicActive,
          playing,      \* audioPlayback.isActive()
          micReady,     \* the microphone has been initialized
          capturing,    \* the microphone's audio is sent
          provider,     \* providerSessionActive
          pressed,      \* the talk button is held down
          call,         \* what each call of startTalking or startOpenMic awaits
          settingUp,    \* initialize() has not returned
          echoes,       \* session.mode_changed to come, one for each session.set_mode
          slipped       \* in this turn the button was let go, the mode changed or the call
                        \* ended while a call was under way, the release was ignored, or
                        \* the server changed the mode under the user's hands

vars == <<state, online, mode, openMicActive, playing, micReady, capturing,
          provider, pressed, call, settingUp, echoes, slipped>>

NoCall == [kind |-> "none", awaits |-> "nothing"]
Underway == {c \in Calls : call[c] # NoCall}

Init ==
  /\ state = "idle" /\ online = FALSE
  /\ mode = "push-to-talk" /\ openMicActive = FALSE
  /\ playing = FALSE /\ micReady = FALSE /\ capturing = FALSE /\ provider = FALSE
  /\ pressed = FALSE
  /\ call = [c \in Calls |-> NoCall]
  /\ settingUp = FALSE /\ echoes = <<>>
  /\ slipped = FALSE

-----------------------------------------------------------------------------
\* The page connects when it is mounted, and Retry is there when initialize() has failed.
Initialize ==
  /\ state \in {"idle", "error"} /\ ~settingUp
  /\ state' = "initializing" /\ settingUp' = TRUE
  /\ UNCHANGED <<online, mode, openMicActive, playing, micReady, capturing, provider,
                 pressed, call, echoes, slipped>>

\* What initialize() awaits comes to its end, also when the user has ended the call: the
\* state is set, whatever it is by now.
Initialized ==
  /\ settingUp /\ settingUp' = FALSE
  /\ \/ state' = "connected" /\ online' = TRUE
     \/ state' = "error" /\ UNCHANGED online
  /\ UNCHANGED <<mode, openMicActive, playing, micReady, capturing, provider,
                 pressed, call, echoes, slipped>>

\* A disconnect leaves the calls that are under way, and openMicActive, as they are.
Disconnect ==
  /\ state # "idle"
  /\ state' = "idle" /\ online' = FALSE
  /\ playing' = FALSE /\ micReady' = FALSE /\ capturing' = FALSE /\ provider' = FALSE
  /\ echoes' = <<>>
  /\ slipped' = (slipped \/ Underway # {})
  /\ UNCHANGED <<mode, openMicActive, pressed, call, settingUp>>

-----------------------------------------------------------------------------
\* Mutant: the microphone is taken to be there still.
CaptureBlindly(kind, s, mic) ==
  /\ state' = IF kind = "open" THEN "talking" ELSE s
  /\ openMicActive' = (openMicActive \/ kind = "open")
  /\ capturing' = (capturing \/ kind = "open" \/ s = "talking")

\* After its last wait, startTalking captures if the state is "talking" still, and
\* startOpenMic whatever has changed. A microphone that was given back does not start.
Capture(kind, s, mic) ==
  /\ state' = IF kind = "open" THEN "talking" ELSE s
  /\ openMicActive' = (openMicActive \/ kind = "open")
  /\ capturing' = (capturing \/ (mic /\ (kind = "open" \/ s = "talking")))

\* With the microphone at hand: startTalking sets the state, whatever it is by now, and
\* without a provider the call awaits that.
Proceed(c, kind) ==
  LET s == IF kind = "push" THEN "talking" ELSE state
  IN  IF provider
      THEN Capture(kind, s, TRUE) /\ call' = [call EXCEPT ![c] = NoCall]
      ELSE /\ state' = s
           /\ call' = [call EXCEPT ![c] = [kind |-> kind, awaits |-> "provider"]]
           /\ UNCHANGED <<openMicActive, capturing>>

\* A call begins, and stops what plays.
Begin(kind) ==
  \E c \in Calls :
    /\ call[c] = NoCall
    /\ playing' = FALSE
    /\ IF micReady
       THEN Proceed(c, kind)
       ELSE /\ call' = [call EXCEPT ![c] = [kind |-> kind, awaits |-> "microphone"]]
            /\ UNCHANGED <<state, openMicActive, capturing>>

\* The user admits the microphone, or does not.
MicrophoneAnswers(c) ==
  /\ call[c].awaits = "microphone"
  /\ \/ micReady' = TRUE /\ Proceed(c, call[c].kind)
     \/ /\ call' = [call EXCEPT ![c] = NoCall]
        /\ UNCHANGED <<state, openMicActive, micReady, capturing>>
  /\ UNCHANGED <<online, mode, playing, provider, pressed, settingUp, echoes, slipped>>

\* provider.ready ends the wait of every call, or the timeout that of one.
ProviderReady ==
  LET waiting == {c \in Calls : call[c].awaits = "provider"}
  IN  /\ online
      /\ waiting # {}
      /\ provider' = TRUE
      /\ Capture(IF \E c \in waiting : call[c].kind = "open" THEN "open" ELSE "push",
                 state, micReady)
      /\ call' = [c \in Calls |-> IF c \in waiting THEN NoCall ELSE call[c]]
      /\ UNCHANGED <<online, mode, playing, micReady, pressed, settingUp, echoes, slipped>>

ProviderTimeout(c) ==
  /\ call[c].awaits = "provider"
  /\ Capture(call[c].kind, state, micReady)
  /\ call' = [call EXCEPT ![c] = NoCall]
  /\ UNCHANGED <<online, mode, playing, micReady, provider, pressed, settingUp, echoes, slipped>>

-----------------------------------------------------------------------------
(* The talk button. Pressed while the assistant speaks, it stops that.       *)

Enabled == state \notin {"idle", "initializing", "error"}

\* Nothing is left of the turns before.
Quiet == ~capturing /\ Underway = {} /\ state # "talking"
NewTurn == slipped' = (slipped /\ ~Quiet)

PressToTalk ==
  /\ Enabled /\ ~pressed /\ mode = "push-to-talk"
  /\ state = "connected" /\ ~playing
  /\ pressed' = TRUE
  /\ Begin("push") /\ NewTurn
  /\ UNCHANGED <<online, mode, micReady, provider, settingUp, echoes>>

\* stopAssistant, or nothing.
PressOtherwise ==
  /\ Enabled /\ ~pressed /\ mode = "push-to-talk"
  /\ state # "connected" \/ playing
  /\ pressed' = TRUE
  /\ IF state = "talking" THEN UNCHANGED <<state, playing>>
     ELSE state' = "connected" /\ playing' = FALSE
  /\ UNCHANGED <<online, mode, openMicActive, micReady, capturing, provider, call, settingUp,
                 echoes, slipped>>

\* The button is let go, or the pointer leaves it: stopTalking, or in another state or
\* mode nothing.
Release ==
  /\ pressed
  /\ pressed' = FALSE
  /\ IF state = "talking" /\ mode = "push-to-talk"
     THEN state' = "connected" /\ capturing' = FALSE /\ UNCHANGED slipped
     ELSE slipped' = (slipped \/ capturing \/ Underway # {}) /\ UNCHANGED <<state, capturing>>
  /\ UNCHANGED <<online, mode, openMicActive, playing, micReady, provider, call, settingUp,
                 echoes>>

StartOpenMic ==
  /\ Enabled /\ mode = "open-mic" /\ ~openMicActive
  /\ Begin("open") /\ NewTurn
  /\ UNCHANGED <<online, mode, micReady, provider, pressed, settingUp, echoes>>

StopMic ==
  /\ openMicActive' = FALSE /\ capturing' = FALSE /\ state' = "connected"

StopOpenMic ==
  /\ Enabled /\ mode = "open-mic" /\ openMicActive
  /\ StopMic
  /\ UNCHANGED <<online, mode, playing, micReady, provider, pressed, call, settingUp,
                 echoes, slipped>>

\* The server is told once there is a provider, unless the connection is down just now.
ToggleVoiceMode ==
  /\ Enabled
  /\ mode' = IF mode = "open-mic" THEN "push-to-talk" ELSE "open-mic"
  /\ IF mode = "open-mic" /\ openMicActive
     THEN StopMic
     ELSE UNCHANGED <<state, openMicActive, capturing>>
  /\ echoes' \in {echoes} \union (IF provider THEN {Append(echoes, mode')} ELSE {})
  /\ Len(echoes') <= MaxEchoes
  /\ slipped' = (slipped \/ Underway # {} \/ pressed)
  /\ UNCHANGED <<online, playing, micReady, provider, pressed, call, settingUp>>

\* The server has set the mode, and says so. An open microphone stays open.
ModeChanged ==
  /\ online /\ echoes # <<>>
  /\ mode' = Head(echoes) /\ echoes' = Tail(echoes)
  /\ slipped' = (slipped \/ (mode' # mode /\ (Underway # {} \/ pressed \/ openMicActive)))
  /\ UNCHANGED <<state, online, openMicActive, playing, micReady, capturing, provider,
                 pressed, call, settingUp>>

\* The connection is lost and made anew by itself; what was on its way is gone.
ConnectionLost ==
  /\ online /\ echoes # <<>>
  /\ echoes' = <<>>
  /\ UNCHANGED <<state, online, mode, openMicActive, playing, micReady, capturing, provider,
                 pressed, call, settingUp, slipped>>

-----------------------------------------------------------------------------
(* What the server and the speakers report.                                  *)

Becomes(next) ==
  /\ state' = next
  /\ UNCHANGED <<online, mode, openMicActive, micReady, capturing, provider, pressed, call,
                 settingUp, echoes, slipped>>

ResponseStart == online /\ Becomes("listening") /\ UNCHANGED playing
AudioChunk == online /\ Becomes("listening") /\ playing' = TRUE
PlaybackEnds ==
  /\ playing /\ playing' = FALSE
  /\ Becomes(IF state = "listening" THEN "connected" ELSE state)

\* A response that ends while its audio still plays leaves the end to the speakers.
ResponseEnd ==
  /\ online /\ ~playing
  /\ state \in {"listening", "talking"}
  /\ Becomes("connected") /\ UNCHANGED playing

\* The server had too little audio to answer.
CommitSkipped ==
  /\ online /\ state = "talking"
  /\ Becomes("connected") /\ UNCHANGED playing

\* The answer to stopAssistant.
CancelAck ==
  /\ online
  /\ playing' = FALSE
  /\ Becomes(IF state \in {"listening", "talking"} THEN "connected" ELSE state)

FatalError == online /\ Becomes("error") /\ UNCHANGED playing

Next ==
  \/ Initialize \/ Initialized \/ Disconnect
  \/ ProviderReady \/ \E c \in Calls : MicrophoneAnswers(c) \/ ProviderTimeout(c)
  \/ PressToTalk \/ PressOtherwise \/ Release
  \/ StartOpenMic \/ StopOpenMic \/ ToggleVoiceMode \/ ModeChanged \/ ConnectionLost
  \/ ResponseStart \/ AudioChunk \/ PlaybackEnds \/ ResponseEnd
  \/ CommitSkipped \/ CancelAck \/ FatalError

Spec == Init /\ [][Next]_vars

-----------------------------------------------------------------------------
\* The microphone is heard only while the button is held or the open microphone is on, in
\* every turn that nothing slipped into. What may slip in is a release that finds another
\* state than "talking", as it does when the server's answer to the turn before arrives
\* during this one; a change of the user's mind while a call awaited the microphone or the
\* provider; and the server's answer to an earlier change of the mode, which overrules a
\* later one and leaves the microphone open. A turn that begins with the microphone quiet
\* and nothing under way is excused nothing of what came before.
MicFollowsUser ==
  capturing /\ ~slipped => pressed \/ (openMicActive /\ mode = "open-mic")

\* And even then nothing is captured that cannot be: the microphone is initialized.
CapturesWhatIsThere == capturing => micReady

Discreet == MicFollowsUser /\ CapturesWhatIsThere
=============================================================================

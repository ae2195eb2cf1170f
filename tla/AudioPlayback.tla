--------------------------- MODULE AudioPlayback ----------------------------
(* The browser's player of the audio that the server streams                  *)
(* (client/src/audio/AudioPlayback.ts). A chunk becomes a source; when it has *)
(* sounded, its onended callback takes the next chunk, or waits 100 ms for    *)
(* one. A source that is told to stop calls back as well, a moment later.     *)
(* Sources are numbered as they start. `overtaken` is history.                *)
EXTENDS Naturals, FiniteSets

CONSTANT MaxChunks   \* bound: chunks received

VARIABLES open,       \* there is an AudioContext
          received,   \* chunks so far
          queue,      \* length of audioQueue
          isPlaying,
          started,    \* sources so far
          sounding,   \* the sources started and not over
          current,    \* currentSource, or 0
          stopped,    \* sources told to stop whose onended is still to come
          waits,      \* timers of 100 ms that run
          overtaken   \* this playback, or one that still sounds, began while a callback of an
                      \* earlier one was to come

vars == <<open, received, queue, isPlaying, started, sounding, current, stopped, waits, overtaken>>

Init ==
  /\ open = TRUE /\ received = 0 /\ queue = 0 /\ isPlaying = FALSE
  /\ started = 0 /\ sounding = {} /\ current = 0
  /\ stopped = {} /\ waits = 0 /\ overtaken = FALSE

\* playNextChunk(), with q chunks queued, w timers running and these sources sounding.
PlayNextChunk(q, w, others, cur) ==
  IF isPlaying' /\ q > 0
  THEN /\ queue' = q - 1 /\ waits' = w
       /\ started' = started + 1
       /\ sounding' = others \union {started'} /\ current' = started'
  ELSE /\ queue' = q
       /\ waits' = IF isPlaying' THEN w + 1 ELSE w
       /\ sounding' = others /\ current' = cur
       /\ UNCHANGED started

\* enqueueAudio() throws without an AudioContext.
EnqueueAudio ==
  /\ open
  /\ received < MaxChunks
  /\ received' = received + 1
  /\ isPlaying' = TRUE
  /\ IF isPlaying
     THEN queue' = queue + 1 /\ UNCHANGED <<started, sounding, current, waits, overtaken>>
     ELSE /\ PlayNextChunk(queue + 1, waits, sounding, current)
          /\ overtaken' = (stopped # {} \/ waits > 0 \/ (overtaken /\ sounding # {}))
  /\ UNCHANGED <<open, stopped>>

\* A source has sounded to its end.
SourceEnds(s) ==
  /\ s \in sounding
  /\ UNCHANGED <<open, received, isPlaying, stopped, overtaken>>
  /\ PlayNextChunk(queue, waits, sounding \ {s}, IF current = s THEN 0 ELSE current)

\* The callback of a source that was told to stop.
StoppedSourceEnds(s) ==
  /\ s \in stopped
  /\ stopped' = stopped \ {s}
  /\ UNCHANGED <<open, received, isPlaying, overtaken>>
  /\ PlayNextChunk(queue, waits, sounding, current)

\* No chunk came in 100 ms: playback is over, which is reported to the server.
WaitEnds ==
  /\ waits > 0
  /\ UNCHANGED <<open, received, stopped, overtaken>>
  /\ IF isPlaying /\ queue = 0
     THEN /\ isPlaying' = FALSE /\ current' = 0 /\ waits' = waits - 1
          /\ UNCHANGED <<queue, started, sounding>>
     ELSE /\ UNCHANGED isPlaying
          /\ PlayNextChunk(queue, waits - 1, sounding, current)

\* What stop() does: of the sources it knows the last one.
Silence ==
  /\ isPlaying' = FALSE
  /\ queue' = 0
  /\ current' = 0
  /\ sounding' = sounding \ {current}

Stop ==
  /\ open
  /\ Silence
  /\ stopped' = stopped \union ({current} \ {0})
  /\ UNCHANGED <<open, received, started, waits, overtaken>>

\* cleanup() closes the AudioContext too: no source sounds or calls back any more.
Cleanup ==
  /\ open
  /\ open' = FALSE
  /\ isPlaying' = FALSE /\ queue' = 0 /\ current' = 0
  /\ sounding' = {} /\ stopped' = {}
  /\ UNCHANGED <<received, started, waits, overtaken>>

Initialize ==
  /\ ~open
  /\ open' = TRUE
  /\ UNCHANGED <<received, queue, isPlaying, started, sounding, current, stopped, waits, overtaken>>

Next ==
  \/ EnqueueAudio \/ WaitEnds \/ Stop \/ Cleanup \/ Initialize
  \/ \E s \in 1..MaxChunks : SourceEnds(s) \/ StoppedSourceEnds(s)

Spec == Init /\ [][Next]_vars

-----------------------------------------------------------------------------
\* A playback that begins when nothing sounds and no callback of an earlier one is to come
\* has exactly one source or timer to go on with, the source being the one that stop()
\* would silence, and when it is over the player is silent.
OneStream ==
  ~overtaken =>
    IF isPlaying THEN /\ Cardinality(sounding) + waits = 1
                      /\ sounding \subseteq {current}
                 ELSE sounding = {}

\* AudioPlayback.ts:121 "Stop playback immediately (for barge-in)": after stop() nothing
\* sounds. Something does when two callbacks drew chunks from the queue, or when an old
\* timer took the pause it saw for the end and made the player forget its source.
StopSilences == [][Stop => sounding' = {}]_vars
=============================================================================

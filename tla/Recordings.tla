----------------------------- MODULE Recordings -----------------------------
(* What is kept of a session. AudioNext: services/RecordingStore.ts writes    *)
(* the sound of a session in two awaited steps, while requests               *)
(* (api/recordings.ts) and the daily clean-up delete, each of two files by    *)
(* itself. TimelineNext: services/SessionRecorder.ts collects a session's     *)
(* events and writes them when the session or the connection ends, and        *)
(* api/sessions.ts and services/SessionExportService.ts read them.            *)
EXTENDS Ranking

CONSTANTS Sessions,
          MaxEntries    \* bound on the entries of the timelines of a connection

VARIABLES stage,        \* of the capture: new, capturing, then the write in progress, done
          sound,        \* some chunk was captured
          wav,          \* the WAV file is there
          meta,         \* the other file: none, silent, audio
          old,          \* its retention has expired
          removal,      \* of each of the two files: none, started, failed
          torn,         \* history: deleted, failed or crashed in the middle of the writes
          buffer,       \* the recorder's buffer of a session, or NoBuffer
          deaf,         \* offSession took the recorder's subscription
          readings,     \* SentimentTracker: the session gave readings
          over,         \* the connection is closed
          file,         \* the recording, or NoBuffer
          cut           \* history: session.end wrote the recording, not the close

audioVars == <<stage, sound, wav, meta, old, removal, torn>>
timelineVars == <<buffer, deaf, readings, over, file, cut>>
vars == <<audioVars, timelineVars>>

Decisions == {"allow", "refuse", "escalate", "rewrite", "cancel_output"}
NoBuffer == [entries |-> <<>>, turns |-> 0, decided |-> {}, sentiment |-> FALSE, open |-> FALSE]

Init ==
  /\ stage = [s \in Sessions |-> "new"]
  /\ sound = [s \in Sessions |-> FALSE]
  /\ wav = [s \in Sessions |-> FALSE]
  /\ meta = [s \in Sessions |-> "none"]
  /\ old = [s \in Sessions |-> FALSE]
  /\ removal = [s \in Sessions |-> [wav |-> "none", meta |-> "none"]]
  /\ torn = [s \in Sessions |-> FALSE]
  /\ buffer = NoBuffer /\ file = NoBuffer
  /\ deaf = FALSE /\ readings = FALSE /\ over = FALSE /\ cut = FALSE

-----------------------------------------------------------------------------
(* Sound.                                                                     *)

\* A second session.start finds the capture running.
StartCapture(s) ==
  /\ stage[s] = "new"
  /\ stage' = [stage EXCEPT ![s] = "capturing"]
  /\ UNCHANGED <<sound, wav, meta, old, removal, torn, timelineVars>>

AppendChunk(s) ==
  /\ stage[s] = "capturing"
  /\ sound' = [sound EXCEPT ![s] = TRUE]
  /\ UNCHANGED <<stage, wav, meta, old, removal, torn, timelineVars>>

\* stopCapture up to its first await. Without sound there is only the meta file to write.
StopCapture(s) ==
  /\ stage[s] = "capturing"
  /\ stage' = [stage EXCEPT ![s] = IF sound[s] THEN "open" ELSE "meta"]
  /\ UNCHANGED <<sound, wav, meta, old, removal, torn, timelineVars>>

\* The write of the WAV file: it is there from the moment it is opened.
OpenWav(s) ==
  /\ stage[s] = "open"
  /\ stage' = [stage EXCEPT ![s] = "write"]
  /\ wav' = [wav EXCEPT ![s] = TRUE]
  /\ UNCHANGED <<sound, meta, old, removal, torn, timelineVars>>

WavWritten(s) ==
  /\ stage[s] = "write"
  /\ stage' = [stage EXCEPT ![s] = "meta"]
  /\ UNCHANGED <<sound, wav, meta, old, removal, torn, timelineVars>>

\* writeMeta, at the end of stopCapture.
WriteMeta(s) ==
  /\ stage[s] = "meta"
  /\ stage' = [stage EXCEPT ![s] = "done"]
  /\ meta' = [meta EXCEPT ![s] = IF sound[s] THEN "audio" ELSE "silent"]
  /\ old' = [old EXCEPT ![s] = FALSE]
  /\ UNCHANGED <<sound, wav, removal, torn, timelineVars>>

InFlight(s) == stage[s] \in {"open", "write", "meta"}

\* A write fails, which is logged, or the process ends: what is on disk stays.
WriteFails(s) ==
  /\ InFlight(s)
  /\ stage' = [stage EXCEPT ![s] = "done"]
  /\ torn' = [torn EXCEPT ![s] = TRUE]
  /\ UNCHANGED <<sound, wav, meta, old, removal, timelineVars>>

\* What a crash leaves of a removal that was under way.
Abandoned(r) ==
  LET Left(f) == IF f = "started" THEN "failed" ELSE f
  IN  [wav |-> Left(r.wav), meta |-> Left(r.meta)]

Crash ==
  /\ stage' = [s \in Sessions |-> "done"]
  /\ torn' = [s \in Sessions |-> torn[s] \/ InFlight(s)]
  /\ removal' = [s \in Sessions |-> Abandoned(removal[s])]
  /\ UNCHANGED <<sound, wav, meta, old, timelineVars>>

\* Mutant: only the WAV file is looked for.
DeleteWavOnly(s) ==
  /\ removal' = [removal EXCEPT ![s].wav = "started"]
  /\ torn' = [torn EXCEPT ![s] = @ \/ InFlight(s)]
  /\ UNCHANGED <<stage, sound, wav, meta, old, timelineVars>>

\* deleteRecording starts to remove both files, as far as they are there.
DeleteRecording(s) ==
  /\ removal' = [removal EXCEPT ![s] =
                   [wav  |-> IF wav[s] THEN "started" ELSE @.wav,
                    meta |-> IF meta[s] # "none" THEN "started" ELSE @.meta]]
  /\ torn' = [torn EXCEPT ![s] = @ \/ InFlight(s)]
  /\ UNCHANGED <<stage, sound, wav, meta, old, timelineVars>>

\* Each is removed, or not, by itself.
WavUnlinked(s) ==
  /\ removal[s].wav = "started"
  /\ wav' = [wav EXCEPT ![s] = FALSE]
  /\ removal' = [removal EXCEPT ![s].wav = "none"]
  /\ UNCHANGED <<stage, sound, meta, old, torn, timelineVars>>

MetaUnlinked(s) ==
  /\ removal[s].meta = "started"
  /\ meta' = [meta EXCEPT ![s] = "none"]
  /\ old' = [old EXCEPT ![s] = FALSE]
  /\ removal' = [removal EXCEPT ![s].meta = "none"]
  /\ UNCHANGED <<stage, sound, wav, torn, timelineVars>>

UnlinkFails(s, f) ==
  /\ removal[s][f] = "started"
  /\ removal' = [removal EXCEPT ![s][f] = "failed"]
  /\ UNCHANGED <<stage, sound, wav, meta, old, torn, timelineVars>>

\* The route looks for the WAV file: a silent recording it cannot delete.
RouteDelete(s) == wav[s] /\ DeleteRecording(s)

Expire(s) ==
  /\ meta[s] # "none"
  /\ old' = [old EXCEPT ![s] = TRUE]
  /\ UNCHANGED <<stage, sound, wav, meta, removal, torn, timelineVars>>

\* pruneExpired, for one of the recordings it listed; it only lists meta files.
PruneExpired(s) == meta[s] # "none" /\ old[s] /\ DeleteRecording(s)

AudioNext ==
  \/ \E s \in Sessions :
       \/ StartCapture(s) \/ AppendChunk(s) \/ StopCapture(s)
       \/ OpenWav(s) \/ WavWritten(s) \/ WriteMeta(s) \/ WriteFails(s)
       \/ RouteDelete(s) \/ Expire(s) \/ PruneExpired(s)
       \/ WavUnlinked(s) \/ MetaUnlinked(s) \/ UnlinkFails(s, "wav") \/ UnlinkFails(s, "meta")
  \/ Crash

-----------------------------------------------------------------------------
(* Timeline of one connection. Its session may be ended, by the client or by  *)
(* the idle timer, and started again before the connection closes.            *)

Speech == {"user_transcript", "transcript"}

\* The events that reach the recorder, as [type, final, text, decision].
Events ==
  [type : Speech, final : BOOLEAN, text : BOOLEAN, decision : {"none"}]
    \union [type : {"policy.decision"}, final : {FALSE}, text : {FALSE},
            decision : {"escalate", "refuse", "unheard"}]
    \union [type : {"sentiment", "claims.check"}, final : {FALSE}, text : {TRUE}, decision : {"none"}]

TimelineTypes == {"policy.decision", "transcript", "user_transcript"}

\* A buffer that is there is kept, and its subscription is not renewed.
StartRecording ==
  /\ ~over /\ ~buffer.open
  /\ buffer' = [NoBuffer EXCEPT !.open = TRUE]
  /\ deaf' = FALSE
  /\ UNCHANGED <<audioVars, readings, over, file, cut>>

\* handleEvent: other types are left out; final turns and known decisions are counted.
Add(e) ==
  [buffer EXCEPT !.entries = Append(@, e),
                 !.turns = IF e.final THEN @ + 1 ELSE @,
                 !.decided = IF e.decision \in Decisions THEN @ \union {e.decision} ELSE @]

\* A final turn of the user is analysed for its sentiment, recorded or not.
HandleEvent(e) ==
  /\ ~over /\ e.type \in TimelineTypes
  /\ Len(buffer.entries) + Len(file.entries) < MaxEntries
  /\ buffer' = IF buffer.open /\ ~deaf THEN Add(e) ELSE buffer
  /\ readings' = (readings \/ (e.type = "user_transcript" /\ e.final /\ e.text))
  /\ UNCHANGED <<audioVars, deaf, over, file, cut>>

\* stopRecording: the buffer is written and forgotten. A write that throws leaves it.
Flush(b) ==
  /\ file' = [b EXCEPT !.open = FALSE]
  /\ buffer' = NoBuffer

\* The event session.end, which the client's message and the idle timer lead to: the
\* recorder stops if it hears it, and SessionManager takes all subscriptions away.
SessionEnd ==
  /\ ~over
  /\ \/ buffer.open /\ ~deaf /\ Flush(buffer) /\ cut' = TRUE
     \/ UNCHANGED <<buffer, file, cut>>
  /\ deaf' = TRUE
  /\ UNCHANGED <<audioVars, readings, over>>

\* handleClose: recordSentiment, then stopRecording, which do nothing without a buffer.
\* The session.end that follows may try again; what matters is whether one succeeds.
HandleClose ==
  LET last == [buffer EXCEPT !.sentiment = readings]
  IN  /\ ~over
      /\ \/ buffer.open /\ Flush(last) /\ cut' = FALSE
         \/ /\ buffer' = IF buffer.open THEN last ELSE buffer
            /\ UNCHANGED <<file, cut>>
      /\ over' = TRUE /\ deaf' = TRUE /\ readings' = FALSE
      /\ UNCHANGED audioVars

TimelineNext ==
  \/ StartRecording \/ SessionEnd \/ HandleClose
  \/ \E e \in Events : HandleEvent(e)

\* The two share no state; Stores explores them one at a time.
Next == AudioNext \/ TimelineNext
Spec == Init /\ [][Next]_vars

-----------------------------------------------------------------------------
(* Readers of a recording.                                                    *)

\* Where the entries of some types are, and those with words among them.
Places(r, types) == {i \in DOMAIN r.entries : r.entries[i].type \in types}
Worded(r, types) == {i \in Places(r, types) : r.entries[i].text}
Final(r, types) == {i \in Worded(r, types) : r.entries[i].final}

\* buildTranscript: the final turns that have words.
BuildTranscript(r) == Picked(r.entries, Final(r, Speech))
BuildPolicyDecisions(r) == Picked(r.entries, Places(r, {"policy.decision"}))
BuildSentiment(r) == Picked(r.entries, Places(r, {"sentiment"}))
Escalated(r) == \E i \in DOMAIN r.entries : r.entries[i].decision = "escalate"

\* The places of a sequence of turns that are of a type, and of decisions that are such.
OfType(seq, t) == {k \in DOMAIN seq : seq[k].type = t}
Deciding(seq, d) == {k \in DOMAIN seq : seq[k].decision = d}

\* exportBulk and exportSession: the sessions asked for that have a recording.
ExportSession(r) ==
  [turns |-> Len(BuildTranscript(r)), decisions |-> Len(BuildPolicyDecisions(r)),
   samples |-> Len(BuildSentiment(r)), escalated |-> Escalated(r)]

\* GET /sessions/:id/compliance.
Compliance(r) ==
  [decisions |-> Len(BuildPolicyDecisions(r)),
   escalations |-> Cardinality(Deciding(BuildPolicyDecisions(r), "escalate")),
   claims |-> Cardinality(Places(r, {"claims.check"})),
   sentiment |-> r.sentiment]

\* ConversationSearchService.search, for the speakers asked for: partial turns are found too.
SearchHits(r, types) == Picked(r.entries, Worded(r, types))

\* GET /sessions/:id/summary: the summary of services/ConversationSummarizer.ts takes its
\* opening, middle and closing from three slices of the user's turns (splitThirds).
SplitThirds(items) ==
  LET n == Len(items)
      a == (n + 2) \div 3
      b == (2 * n + 2) \div 3
  IN  <<SubSeq(items, 1, a), SubSeq(items, a + 1, b), SubSeq(items, b + 1, n)>>

UserTurns(r) ==
  LET said == BuildTranscript(r) IN Picked(said, OfType(said, "user_transcript"))

-----------------------------------------------------------------------------
\* A recording that promises sound has it, and one that does not has none, unless a delete,
\* a failure or a crash fell between the two writes. A delete takes both files: one that
\* is left without the other is about to go, or its own removal failed or was cut off by
\* a crash. A WAV file left so is one that no list shows and no clean-up finds.
FilesAgree ==
  \A s \in Sessions : ~torn[s] =>
    /\ meta[s] = "audio" /\ ~wav[s] => removal[s].meta # "none"
    /\ meta[s] = "silent" => ~wav[s]
    /\ wav[s] /\ meta[s] = "none" => InFlight(s) \/ removal[s].wav # "none"

\* The summary that was counted while the session ran agrees with what the exports read out
\* of the timeline; one that the close wrote has the sentiment of what was said in it;
\* the search finds every turn of the transcript, and the thirds of the user's turns leave
\* none out and are as even as can be.
ExportsAgree ==
  LET x == ExportSession(file)
  IN  /\ x.turns <= file.turns
      /\ x.decisions = Compliance(file).decisions
      /\ x.escalated <=> "escalate" \in file.decided
      /\ x.escalated <=> Compliance(file).escalations > 0
      /\ ~cut /\ (\E i \in DOMAIN file.entries :
                    LET e == file.entries[i] IN e.type = "user_transcript" /\ e.final /\ e.text)
           => Compliance(file).sentiment
      /\ \A t \in Speech :
           Cardinality(OfType(BuildTranscript(file), t)) <= Len(SearchHits(file, {t}))
      /\ LET thirds == SplitThirds(UserTurns(file))
         IN  /\ thirds[1] \o thirds[2] \o thirds[3] = UserTurns(file)
             /\ Len(thirds[1]) >= Len(thirds[3]) /\ Len(thirds[1]) <= Len(thirds[3]) + 1
             /\ Len(thirds[2]) \in Len(thirds[3])..Len(thirds[1])

RecordingsSound == FilesAgree /\ ExportsAgree
=============================================================================

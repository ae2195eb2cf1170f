----------------------------- MODULE AuditTrail -----------------------------
(* The audit trail of one session (insurance/audit_trail.ts): every event is *)
(* inserted into the database at once and appended to the session's JSONL    *)
(* file by a chain of promises, whose last link the map writeQueues keeps.   *)
(* The link in the map is dropped when session.end has been written, but the *)
(* bus may carry events of the session after session.end.                    *)
EXTENDS Naturals, Sequences, FiniteSets, SequencesExt

CONSTANTS MaxEvents,    \* bound: events of the session
          MaxReplays,   \* bound: calls of replaySessionTimeline
          MaxFailures   \* bound: inserts and appends that fail

VARIABLES events,       \* the kinds of the events the bus has carried
          ends,         \* how many of them came up to the first session.end
          table,        \* audit_events: the events in the database
          links,        \* the appends: [event, after, state], in the order of their calls
          tail,         \* writeQueues.get(session): a link, or 0
          file,         \* the events of the file's lines
          replay,       \* what replaySessionTimeline has still to emit
          replays, failures

vars == <<events, ends, table, links, tail, file, replay, replays, failures>>

Kinds == {"event", "ignored", "session.end"}
Settled(l) == l = 0 \/ links[l].state \in {"written", "lost"}

Init ==
  /\ events = <<>> /\ ends = 0
  /\ table = {} /\ links = <<>> /\ tail = 0 /\ file = <<>>
  /\ replay = <<>> /\ replays = 0 /\ failures = 0

Failure == failures < MaxFailures /\ failures' = failures + 1

\* Mutant: appends do not wait for each other.
AppendJsonlAtOnce(e) ==
  /\ links' = Append(links, [event |-> e, after |-> tail, state |-> "writing"])
  /\ tail' = Len(links) + 1

\* appendJsonl: the append follows the link in the map, at once if that is settled.
AppendJsonl(e) ==
  /\ links' = Append(links, [event |-> e, after |-> tail,
                             state |-> IF Settled(tail) THEN "writing" ELSE "waiting"])
  /\ tail' = Len(links) + 1

\* The insert fails for an event that is in the table (its id is the primary key),
\* or for any reason the database has; the append is made all the same.
Insert(e) ==
  \/ table' = table \union {e} /\ UNCHANGED failures
  \/ e \notin table /\ Failure /\ UNCHANGED table

\* handleEvent for a new event. A decision or a control event that Lane C did not
\* send is not recorded.
Emit(kind) ==
  LET e == Len(events) + 1
  IN  /\ e <= MaxEvents
      /\ replay = <<>>
      /\ events' = Append(events, kind)
      /\ ends' = IF kind = "session.end" /\ ends = 0 THEN e ELSE ends
      /\ IF kind = "ignored"
         THEN UNCHANGED <<table, failures, links, tail>>
         ELSE Insert(e) /\ AppendJsonl(e)
      /\ UNCHANGED <<file, replay, replays>>

\* The cleanup waits for the link that was in the map when session.end had been
\* appended, which is the link of session.end itself.
CleansUp(l) == events[links[l].event] = "session.end"

\* An append of the file system ends. Its error is caught, so the next link starts
\* either way; the cleanup drops whatever link is in the map by now.
AppendEnds(l) ==
  /\ links[l].state = "writing"
  /\ \E result \in {"written", "lost"} :
       /\ IF result = "lost" THEN Failure ELSE UNCHANGED failures
       /\ file' = IF result = "written" THEN Append(file, links[l].event) ELSE file
       /\ links' = [k \in DOMAIN links |->
                     [links[k] EXCEPT !.state = IF k = l THEN result
                                                ELSE IF links[k].after = l THEN "writing" ELSE @]]
  /\ tail' = IF CleansUp(l) THEN 0 ELSE tail
  /\ UNCHANGED <<events, ends, table, replay, replays>>

\* replaySessionTimeline (without a delay) emits what the file holds again, and so records
\* it again.
Replay ==
  /\ replays < MaxReplays
  /\ file # <<>>
  /\ replay = <<>>
  /\ replays' = replays + 1
  /\ replay' = file
  /\ UNCHANGED <<events, ends, table, links, tail, file, failures>>

ReplayNext ==
  /\ replay # <<>>
  /\ replay' = Tail(replay)
  /\ Insert(Head(replay))
  /\ AppendJsonl(Head(replay))
  /\ UNCHANGED <<events, ends, file, replays>>

Next ==
  \/ \E kind \in Kinds : Emit(kind)
  \/ \E l \in DOMAIN links : AppendEnds(l)
  \/ Replay \/ ReplayNext

Spec == Init /\ [][Next]_vars

-----------------------------------------------------------------------------
\* Up to session.end, the lines are in the order of the events: no two appends are
\* under way at once and none overtakes another, unless the session was replayed.
InOrderUntilEnd ==
  replays = 0 =>
    \A i, j \in DOMAIN file :
      i < j /\ (ends = 0 \/ file[i] <= ends \/ file[j] <= ends) => file[i] < file[j]

\* Nothing that is recorded is forgotten: it is in the file, in the chain, or its
\* append failed; and it is in the database unless an insert failed.
NothingForgotten ==
  \A e \in DOMAIN events :
    events[e] # "ignored" =>
      /\ failures = 0 => e \in table
      /\ \/ e \in ToSet(file)
         \/ \E l \in DOMAIN links : links[l].event = e /\ links[l].state # "written"

\* A link that waits is waiting for one that will settle.
ChainMoves ==
  \A l \in DOMAIN links :
    links[l].state = "waiting" => links[l].after < l /\ ~Settled(links[l].after)

Faithful == InOrderUntilEnd /\ NothingForgotten /\ ChainMoves
=============================================================================

------------------------------- MODULE Memory -------------------------------
(* What the system remembers between sessions. SessionsNext: the rows that    *)
(* api/websocket.ts keeps through storage/SessionHistory.ts and               *)
(* storage/TranscriptStore.ts; SQLite runs each statement as a whole.         *)
(* SchemaNext: storage/Database.ts opens and migrates the database.           *)
(* FactsNext: services/ConversationMemoryStore.ts and api/memory.ts.          *)
EXTENDS Ranking, Functions

CONSTANTS Sessions, Users, UserOf(_),   \* the fingerprint a session's client sends
          MaxTurns,                     \* bound on the final turns of a session
          MaxEnds,                      \* bound on the messages session.end of a connection
          Migrations,                   \* how many there are
          Facts, Tenants, Shown         \* Shown: maxFacts

VARIABLES conn,         \* [phase, known]: the connection, and whether it has a userId
          users,        \* table users
          row,          \* table sessions: [user, reason], or NoRow
          turns,        \* table transcripts: how many of a session, all final
          summaries,    \* table conversation_summaries, in order
          context,      \* what a session was told at its start: [returning, told]
          ends,         \* history: how often the client sent session.end
          skipped,      \* history: sessions at whose close a statement failed
          tables, recorded, instance, slipped,     \* SchemaNext, see there
          facts         \* the tenants' files

sessionVars == <<conn, users, row, turns, summaries, context, ends, skipped>>
schemaVars == <<tables, recorded, instance, slipped>>
vars == <<sessionVars, schemaVars, facts>>

NoRow == [user |-> "null", reason |-> "absent"]
NoContext == [returning |-> FALSE, told |-> FALSE]

Init ==
  /\ conn = [s \in Sessions |-> [phase |-> "open", known |-> FALSE]]
  /\ users = {}
  /\ row = [s \in Sessions |-> NoRow]
  /\ turns = [s \in Sessions |-> 0]
  /\ summaries = <<>>
  /\ context = [s \in Sessions |-> NoContext]
  /\ ends = [s \in Sessions |-> 0] /\ skipped = {}
  /\ tables = 0 /\ recorded = 0 /\ instance = "none" /\ slipped = FALSE
  /\ facts = [t \in Tenants |-> <<>>]

-----------------------------------------------------------------------------
(* Sessions.                                                                  *)

Recorded(s) == row[s] # NoRow

\* getUserSessions and getConversationHistory, for a user who starts session s. Seven days
\* and ten sessions are not exceeded here.
PreviousSessions(s) == {r \in Sessions \ {s} : row[r].user = UserOf(s)}
RecentHistory(s) == {r \in Sessions : turns[r] > 0 /\ UserOf(r) = UserOf(s)}
LastSummaries(s) == {i \in DOMAIN summaries : summaries[i].user = UserOf(s)}

\* getSessionContext.
SessionContext(s) ==
  [returning |-> PreviousSessions(s) # {},
   told |-> LastSummaries(s) # {} \/ RecentHistory(s) # {}]

\* recordSession is an upsert: the reason of a row that is there stays.
RecordSession(s) ==
  row' = IF Recorded(s) THEN row
         ELSE [row EXCEPT ![s] = [user |-> UserOf(s), reason |-> "null"]]

\* session.start, the repeated one too: getOrCreateUser, recordSession, getSessionContext.
\* An error of one leaves the later ones out; the connection knows the user as soon as the
\* first has returned.
SessionStart(s) ==
  /\ conn[s].phase \in {"open", "ending"}
  /\ conn' = [conn EXCEPT ![s].known = TRUE]
  /\ users' = users \union {UserOf(s)}
  /\ \/ UNCHANGED <<row, context>>
     \/ RecordSession(s) /\ UNCHANGED context
     \/ RecordSession(s) /\ context' = [context EXCEPT ![s] = SessionContext(s)]
  /\ UNCHANGED <<turns, summaries, ends, skipped, schemaVars, facts>>

\* A final turn. The foreign key refuses it while the session has no row; the error is
\* logged. Turns may still come while the provider is being disconnected.
SaveTurn(s) ==
  /\ conn[s].phase \in {"open", "ending"}
  /\ Recorded(s) /\ turns[s] < MaxTurns
  /\ turns' = [turns EXCEPT ![s] = @ + 1]
  /\ UNCHANGED <<conn, users, row, summaries, context, ends, skipped, schemaVars, facts>>

\* Mutant: the reason is written by an upsert, as recordSession does.
SaveSummaryUpserts(s, reason) ==
  /\ row' = [row EXCEPT ![s] = [user |-> "null", reason |-> reason]]
  /\ UNCHANGED summaries

\* generateSessionSummary and saveConversationSummary, for a session with turns.
AppendSummary(s) ==
  summaries' = IF turns[s] > 0
               THEN Append(summaries, [user |-> UserOf(s), session |-> s, turns |-> turns[s]])
               ELSE summaries

\* The summary, then endSession.
SaveSummary(s, reason) ==
  /\ AppendSummary(s)
  /\ row' = IF Recorded(s) THEN [row EXCEPT ![s].reason = reason] ELSE row

\* An error of the first leaves the second out.
SavingFails(s) == (AppendSummary(s) \/ UNCHANGED summaries) /\ UNCHANGED row

\* The message session.end; the connection closes once the provider is disconnected, and
\* until then the message may come again.
MessageEnd(s) ==
  /\ conn[s].phase \in {"open", "ending"} /\ ends[s] < MaxEnds
  /\ IF conn[s].known THEN SaveSummary(s, "user_ended") \/ SavingFails(s)
     ELSE UNCHANGED <<summaries, row>>
  /\ conn' = [conn EXCEPT ![s].phase = "ending"]
  /\ ends' = [ends EXCEPT ![s] = @ + 1]
  /\ UNCHANGED <<users, turns, context, skipped, schemaVars, facts>>

CloseConnection(s) ==
  /\ conn[s].phase \in {"open", "ending"}
  /\ IF conn[s].known
     THEN \/ SaveSummary(s, "connection_closed") /\ UNCHANGED skipped
          \/ SavingFails(s) /\ skipped' = skipped \union {s}
     ELSE UNCHANGED <<summaries, row, skipped>>
  /\ conn' = [conn EXCEPT ![s].phase = "closed"]
  /\ UNCHANGED <<users, turns, context, ends, schemaVars, facts>>

\* The process ends: the rows stay as they are, the connections are gone.
Crash ==
  /\ \E s \in Sessions : conn[s].phase \in {"open", "ending"} /\ conn[s].known
  /\ conn' = [s \in Sessions |-> IF conn[s].known /\ conn[s].phase # "closed"
                                 THEN [conn[s] EXCEPT !.phase = "lost"] ELSE conn[s]]
  /\ UNCHANGED <<users, row, turns, summaries, context, ends, skipped, schemaVars, facts>>

SessionsNext ==
  \/ \E s \in Sessions : SessionStart(s) \/ SaveTurn(s) \/ MessageEnd(s) \/ CloseConnection(s)
  \/ Crash

-----------------------------------------------------------------------------
(* The schema. A migration creates its tables and then records its name, in   *)
(* two statements; one whose tables exist without its name fails. `tables`    *)
(* and `recorded` count what is on disk. `instance` is the process's handle:  *)
(* none, opening, creating (between the two), ready, or broken: getDatabase   *)
(* keeps what it made before initialize threw, and hands it out ever after.   *)

GetDatabase ==
  /\ instance = "none"
  /\ instance' = "opening"
  /\ UNCHANGED <<tables, recorded, slipped, sessionVars, facts>>

CreateTables ==
  /\ instance = "opening" /\ recorded < Migrations
  /\ IF tables = recorded THEN tables' = tables + 1 /\ instance' = "creating"
                          ELSE UNCHANGED tables /\ instance' = "broken"
  /\ UNCHANGED <<recorded, slipped, sessionVars, facts>>

RecordMigration ==
  /\ instance = "creating"
  /\ recorded' = recorded + 1 /\ instance' = "opening"
  /\ UNCHANGED <<tables, slipped, sessionVars, facts>>

Initialized ==
  /\ instance = "opening" /\ recorded = Migrations
  /\ instance' = "ready"
  /\ UNCHANGED <<tables, recorded, slipped, sessionVars, facts>>

\* A crash, or closeDatabase after a start.
EndProcess ==
  /\ instance # "none"
  /\ instance' = "none"
  /\ slipped' = (slipped \/ tables # recorded)
  /\ UNCHANGED <<tables, recorded, sessionVars, facts>>

SchemaNext == GetDatabase \/ RecordMigration \/ CreateTables \/ Initialized \/ EndProcess

-----------------------------------------------------------------------------
(* Facts. Every call reads the tenant's file and writes it back in one go.    *)

AddFact(t, f) ==
  /\ f \notin UNION {Range(facts[x]) : x \in Tenants}
  /\ facts' = [facts EXCEPT ![t] = Append(@, f)]
  /\ UNCHANGED <<sessionVars, schemaVars>>

DeleteEntry(t, f) ==
  /\ f \in Range(facts[t])
  /\ facts' = [facts EXCEPT ![t] = Picked(@, {i \in DOMAIN @ : @[i] # f})]
  /\ UNCHANGED <<sessionVars, schemaVars>>

ClearTenant(t) ==
  /\ facts' = [facts EXCEPT ![t] = <<>>]
  /\ UNCHANGED <<sessionVars, schemaVars>>

\* getContextString: the newest facts of the tenant.
ContextString(t) ==
  LET n == Len(facts[t])
  IN  [k \in 1..(IF n < Shown THEN n ELSE Shown) |-> facts[t][n + 1 - k]]

FactsNext == \E t \in Tenants : ClearTenant(t) \/ \E f \in Facts : AddFact(t, f) \/ DeleteEntry(t, f)

\* The three share no state here; Stores explores them one at a time.
Next == SessionsNext \/ SchemaNext \/ FactsNext
Spec == Init /\ [][Next]_vars

-----------------------------------------------------------------------------
\* The rows hang together whatever fails in between: turns and summaries belong to a
\* session that is there, with the user that client names; a session is summed up at most
\* once for each session.end and once at the close, and no later summary tells less.
\* Unless a statement failed at the close, nothing a known user said is missing from the
\* summary of a session that closed, and its reason is the close, also if the client had
\* ended it: "user_ended" stays only where the process ended first or that statement failed.
RowsAgree ==
  /\ \A s \in Sessions :
       /\ Recorded(s) => row[s].user = UserOf(s) /\ UserOf(s) \in users
       /\ turns[s] > 0 => Recorded(s)
       /\ LET of == {i \in DOMAIN summaries : summaries[i].session = s}
          IN  /\ Cardinality(of) <= ends[s] + (IF conn[s].phase = "closed" THEN 1 ELSE 0)
              /\ conn[s].phase = "closed" /\ turns[s] > 0 /\ s \notin skipped =>
                   \E i \in of : summaries[i].turns = turns[s]
       /\ conn[s].phase = "closed" /\ Recorded(s) /\ s \notin skipped =>
            row[s].reason = "connection_closed"
       /\ row[s].reason = "user_ended" =>
            ends[s] > 0 /\ (conn[s].phase \in {"ending", "lost"} \/ s \in skipped)
  /\ \A i \in DOMAIN summaries :
       /\ summaries[i].user = UserOf(summaries[i].session)
       /\ summaries[i].turns \in 1..turns[summaries[i].session]
       /\ \A j \in 1..i : summaries[j].session = summaries[i].session =>
                            summaries[j].turns <= summaries[i].turns

\* Only a user with another session is greeted as one who returns, and one whose session
\* was summed up is told of it from then on.
ReturningIsTold ==
  \A s \in Sessions :
    /\ context[s].returning => PreviousSessions(s) # {}
    /\ context[s].told => LastSummaries(s) # {} \/ RecentHistory(s) # {}
    /\ LastSummaries(s) # {} => SessionContext(s).told

\* Only a process that ended between the two statements of a migration leaves a database
\* that no later one can open; an open one has every table.
SchemaOpens ==
  /\ instance = "ready" => tables = Migrations /\ recorded = Migrations
  /\ instance = "broken" => slipped
  /\ tables \in {recorded, recorded + 1}

\* A tenant is told its own newest facts, the latest first.
FactsAreOwn ==
  \A t, u \in Tenants :
    /\ t # u => Range(ContextString(t)) \intersect Range(facts[u]) = {}
    /\ facts[t] # <<>> => ContextString(t)[1] = facts[t][Len(facts[t])]

MemorySound == RowsAgree /\ ReturningIsTold /\ SchemaOpens /\ FactsAreOwn
=============================================================================

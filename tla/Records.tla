------------------------------ MODULE Records -------------------------------
(* What is kept of calls that are over and told of them later: recordings and *)
(* their exports, memories, reports, datasets and demos. Stores composes them *)
(* with the others and explores one part at a time.                           *)
EXTENDS Integers, Sequences, FiniteSets

CONSTANTS Customers,     \* the tenants
          Sessions, MaxTimeline, Users, UserOf(_), MaxTurns, MaxEnds, Migrations, Remembered, Recalled,
          Calls, MaxRecordings, PageSize, MaxSteps, MaxReports, Values, SlaWindow, MaxTime,
          MaxLatencies, Loads, Spoken, Filters, Scripts, Demos, ScannedClaims, MaxAnnotations,
          MaxDatasets

-----------------------------------------------------------------------------
(* What the code gives: a client that names a user; some migrations, and some *)
(* facts told; calls of one tenant, whose own events follow session.start;    *)
(* numbers for times, loads, turns and importances; a status for each claim.  *)

CallsAreGiven ==
  \A c \in Calls :
    /\ c.events \in Seq({c.events[i] : i \in DOMAIN c.events} \ {"start"})
    /\ c.duration \in Int /\ c.tenant # "any"

BenchIsGiven ==
  /\ Scripts \subseteq Seq(UNION {{s[i] : i \in DOMAIN s} : s \in Scripts})
  /\ \A t \in Spoken : t.turn \in Int
  /\ \A c \in ScannedClaims :
       /\ c.importance \in Int
       /\ c.status \in {"supported", "contradicted", "missing", "unverified", "mixed",
                        "skipped", "loading"}

ASSUME RecordsAssumption ==
  /\ \A s \in Sessions : UserOf(s) # "null"
  /\ Migrations \in Nat /\ Recalled \in Nat \ {0}
  /\ CallsAreGiven /\ BenchIsGiven /\ IsFiniteSet(Customers) /\ Loads \subseteq Int
  /\ MaxRecordings \in Nat /\ PageSize \in Nat /\ MaxSteps \in Nat /\ SlaWindow \in Int

-----------------------------------------------------------------------------
VARIABLES stage, sound, wav, meta, old, removal, torn, buffer, deaf, readings, over, tapeFile,
          cut,
          conn, users, row, turns, summaries, context, ends, skipped, tables, recorded,
          instance, slipped, facts,
          recordings, begun, audits, samples, clock, heard, heardAt, load, plan,
          annotations, benchMade, datasets, demo, emitted, policyDecisions, lastSentiment, scan

Taped == INSTANCE Recordings WITH
  MaxEntries <- MaxTimeline, file <- tapeFile
Remember == INSTANCE Memory WITH
  Tenants <- Customers, Facts <- Remembered, Shown <- Recalled
Report == INSTANCE Reports WITH
  Tenants <- Customers, Window <- SlaWindow, MaxSamples <- MaxLatencies
Bench == INSTANCE Workbench WITH
  Turns <- Spoken, made <- benchMade

tapeVars == <<stage, sound, wav, meta, old, removal, torn, buffer, deaf, readings, over,
  tapeFile, cut>>
memoryVars == <<conn, users, row, turns, summaries, context, ends, skipped, tables,
  recorded, instance, slipped, facts>>
reportVars == <<recordings, begun, audits, samples, clock, heard, heardAt, load,
  plan>>
benchVars == <<annotations, benchMade, datasets, demo, emitted, policyDecisions,
  lastSentiment, scan>>
recordsVars == <<tapeVars, memoryVars, reportVars, benchVars>>

RecordsInit == Taped!Init /\ Remember!Init /\ Report!Init /\ Bench!Init

\* They share no state: any of them may take a step, or several at once.
RecordsNext ==
  /\ [Taped!Next]_tapeVars /\ [Remember!Next]_memoryVars
  /\ [Report!Next]_reportVars /\ [Bench!Next]_benchVars

RecordsSpec == RecordsInit /\ [][RecordsNext]_recordsVars

-----------------------------------------------------------------------------
\* What is told of a call later agrees with what was kept of it: recordings and their
\* exports, memories, reports, datasets and demos.
RecordsHold ==
  /\ Taped!RecordingsSound /\ Remember!MemorySound
  /\ Report!ReportsSound /\ Bench!WorkbenchSound
=============================================================================

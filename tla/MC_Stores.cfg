CONSTANTS
  Visitors = {"x", "y", "z"}
  Bucket <- Hash
  Scores = {0, 3}
  Tenants = {"t1", "t2"}
  Personas = {"p1"}
  Templates = {"x1", "x2"}
  Shared = "shared"
  OneTenant = {"t1"}
  Customers = {"t1", "t2"}
  Phrases = {{"refund"}, {"order", "refund"}}
  Utterances = {{"order", "refund"}, {"refund", "now"}, {}}
  Names = {1, 2}
  MaxEntries = 2
  Shown = 1
  Profiles = {"p1", "p2"}
  VoiceOwner <- ProfileOwner
  MaxTests = 2
  VoiceSessions = {"s1"}
  Callers = {"c1", "c2"}
  Features = {0, 4}
  Near = 1
  MaxSamples = 1
  MaxFailures = 1
  Rules <- SomeRules
  Topics = {"bill"}
  Unset = "any"
  Hours = {0, 1, 3}
  Menus <- SomeMenus
  Nowhere = "nowhere"
  Digits = {"1", "2"}
  Intents <- SomeIntents
  Texts <- SomeTexts
  NoTemplate = "default"
  MaxRules = 2
  MaxLogs = 1
  Last = 3
  MaxRequests = 2
  Agents = {a1, a2}
  MaxVersions = 3
  Graphs <- SomeGraphs
  Sessions = {"s1", "s2"}
  NoNode = NoNode
  NoFlow = NoFlow
  Entries = {1, 2, 3}
  Owner <- EntryOwner
  Title <- Asks
  Body <- Answers
  Queries = {{"refund"}, {"order", "days"}}
  TopN = 1
  Transcripts <- SomeTranscripts
  Questions = {"q1", "q2", "q3", "q4"}
  Opening <- FirstWords
  MaxFaqs = 2
  MaxHits = 1
  Sources <- SomeFacts
  Disclaimers <- SomeDisclaimers
  TopicSize = 1
  Cap = 16
  TopK = 3
  Readers = {c1, c2}
  Attempts = 4
  MaxTimeline = 3
  Users = {"u1", "u2"}
  UserOf <- UserOfSession
  MaxTurns = 2
  MaxEnds = 2
  Migrations = 5
  Remembered = {"f1", "f2", "f3"}
  Recalled = 2
  MaxKeys = 2
  MaxEvents = 2
  Ring = 1
  Bodies = {"b1"}
  MaxItems = 3
  Checks = {"openai", "chroma", "opa", "tenant", "audio"}
  Calls <- SomeCalls
  MaxRecordings = 4
  PageSize = 3
  MaxSteps = 3
  MaxReports = 1
  Values = {1, 2, 3}
  SlaWindow = 1
  MaxTime = 3
  MaxLatencies = 3
  Loads = {1, 20, 21, 50, 61}
  Spoken <- SomeTurns
  Filters <- SomeFilters
  Scripts <- SomeScripts
  Demos = {"d1", "d2"}
  ScannedClaims <- SomeClaims
  MaxAnnotations = 3
  MaxDatasets = 1
SPECIFICATION Spec
INVARIANT StoresSound
INVARIANT ChoicesSound
 
CHECK_DEADLOCK FALSE

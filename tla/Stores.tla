------------------------------- MODULE Stores -------------------------------
(* What the server keeps and serves beside the calls: tests, personas,        *)
(* templates, voices, knowledge, routes, recordings, memories, keys, reports. *)
(* As in Services, no module reads a variable of another one, so it is enough *)
(* to let one part run at a time; a part is a module, or a share of one whose *)
(* variables are its own. A store that writes its one file whole at every     *)
(* change is returned by a restart to a state it was in before, and so has no *)
(* restart here; writes that fail are in the modules where they leave a mark. *)
EXTENDS Choices, Records

CONSTANTS Personas, Profiles,
          VoiceOwner(_), MaxTests, VoiceSessions, Callers, Features, Near, MaxSamples,
          Last, MaxRequests, Agents, MaxVersions, Graphs, NoNode, NoFlow,
          MaxKeys, MaxEvents, Ring, Bodies, MaxItems, Checks

VARIABLES persona, assigned, template, offerBorn, offerAsked,
          voiceCache, voiceIndex, voiceLoaded, voiceFile, voiceBorn, tests, results, prints,
          voiceFailures,
          wizardCurrent, wizardStatus, wizardFrom, wizardDisk, panel, requests, wizardFailures,
          disturbed,
          versions, running, versionDisk, created, versionFailures,
          flow, flowDisk, flowAt, ended, edited, dangling,
          keys, registryDisk, registryMade, lapsed, fate, wiped, events, log, ring, stream,
          registered, items, nextId, snapshot, imported, outcome, report

Offered == INSTANCE Offerings WITH
  born <- offerBorn, asked <- offerAsked
Voice == INSTANCE Voices WITH
  Sessions <- VoiceSessions, Owner <- VoiceOwner, cache <- voiceCache, index <- voiceIndex,
  loaded <- voiceLoaded, file <- voiceFile, born <- voiceBorn, failures <- voiceFailures
Onboarding == INSTANCE OnboardingWizard WITH
  current <- wizardCurrent, status <- wizardStatus, from <- wizardFrom, disk <- wizardDisk,
  failures <- wizardFailures
Versions == INSTANCE AgentVersions WITH
  Tenants <- OneTenant, disk <- versionDisk, failures <- versionFailures
Flow == INSTANCE Flows WITH
  disk <- flowDisk, at <- flowAt
Registry == INSTANCE Tenants WITH
  disk <- registryDisk, made <- registryMade

Parts == {"ab tests", "offerings", "skills", "playbook", "voices", "rules", "menus",
          "intents", "onboarding", "versions", "flows", "knowledge", "retrieval",
          "audio", "timeline", "sessions", "schema", "facts", "keys", "migration",
          "validation", "records", "latencies", "plan", "datasets", "demo", "scan"}

offerVars == <<persona, assigned, template, offerBorn, offerAsked>>
voiceVars == <<voiceCache, voiceIndex, voiceLoaded, voiceFile, voiceBorn, tests,
  results, prints, voiceFailures>>
wizardVars == <<wizardCurrent, wizardStatus, wizardFrom, wizardDisk, panel, requests,
  wizardFailures, disturbed>>
versionVars == <<versions, running, versionDisk, created, versionFailures>>
flowVars == <<flow, flowDisk, flowAt, ended, edited, dangling>>
registryVars == <<keys, registryDisk, registryMade, lapsed, fate, wiped, events, log,
  ring, stream, registered, items, nextId, snapshot, imported, outcome, report>>
vars == <<part, choiceVars, offerVars, voiceVars, wizardVars, versionVars, flowVars,
          registryVars, recordsVars>>

Init ==
  /\ part \in Parts
  /\ ChoicesInit
  /\ Offered!Init
  /\ Voice!Init
  /\ Onboarding!Init
  /\ Versions!Init
  /\ Flow!Init
  /\ Registry!Init
  /\ RecordsInit

Next ==
  /\ UNCHANGED part
  /\ ChoicesNext
  /\ IF part = "offerings" THEN Offered!Next ELSE UNCHANGED offerVars
  /\ IF part = "voices" THEN Voice!Next ELSE UNCHANGED voiceVars
  /\ IF part = "onboarding" THEN Onboarding!Next ELSE UNCHANGED wizardVars
  /\ IF part = "versions" THEN Versions!Next ELSE UNCHANGED versionVars
  /\ IF part = "flows" THEN Flow!Next ELSE UNCHANGED flowVars
  /\ IF part = "audio" THEN Taped!AudioNext
     ELSE IF part = "timeline" THEN Taped!TimelineNext
     ELSE UNCHANGED tapeVars
  /\ IF part = "sessions" THEN Remember!SessionsNext
     ELSE IF part = "schema" THEN Remember!SchemaNext
     ELSE IF part = "facts" THEN Remember!FactsNext
     ELSE UNCHANGED memoryVars
  /\ IF part = "keys" THEN Registry!KeysNext
     ELSE IF part = "migration" THEN Registry!MigrationNext
     ELSE IF part = "validation" THEN Registry!ValidationNext
     ELSE UNCHANGED registryVars
  /\ IF part = "records" THEN Report!RecordsNext
     ELSE IF part = "latencies" THEN Report!SlaNext
     ELSE IF part = "plan" THEN Report!PlanNext
     ELSE UNCHANGED reportVars
  /\ IF part = "datasets" THEN Bench!DatasetsNext
     ELSE IF part = "demo" THEN Bench!DemoNext
     ELSE IF part = "scan" THEN Bench!ScanNext
     ELSE UNCHANGED benchVars

Spec == Init /\ [][Next]_vars

-----------------------------------------------------------------------------
(* A part that does not run keeps its initial values; that its property holds *)
(* of them is checked where it does run, so it need not be asked elsewhere.   *)

\* Stores: what is referred to is there and found, after failed writes, deletions and
\* restarts too: the steps of an onboarding, versions of agents, nodes of flows, personas
\* and templates, voices, keys, and the items that were imported.
StoresSound ==
  /\ part = "onboarding" => Onboarding!Onboarded
  /\ part = "versions" => Versions!VersionsSound
  /\ part = "flows" => Flow!FlowsSound
  /\ part = "offerings" => Offered!OfferingsSound
  /\ part = "voices" => Voice!VoicesSound
  /\ part \in {"keys", "migration", "validation"} => Registry!TenantsSound

\* Records: what is told of a call later agrees with what was kept of it: recordings and
\* their exports, memories, reports, datasets and demos.
RecordsSound ==
  /\ part \in {"audio", "timeline"} => Taped!RecordingsSound
  /\ part \in {"sessions", "schema", "facts"} => Remember!MemorySound
  /\ part \in {"records", "latencies", "plan"} => Report!ReportsSound
  /\ part \in {"datasets", "demo", "scan"} => Bench!WorkbenchSound
=============================================================================

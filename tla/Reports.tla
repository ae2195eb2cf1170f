------------------------------- MODULE Reports -------------------------------
(* What the reports say of the recorded sessions: the analytics of calls and  *)
(* of conversations, the monthly audit report, the compliance report and      *)
(* dashboard, and the comparison of two agents (src/server/src/services and   *)
(* their routes); beside them the monitor of latencies and the capacity       *)
(* planner, which keep to themselves. Rates are kept as two counts.           *)
EXTENDS Ranking, Functions

CONSTANTS Tenants,       \* the tenants of the registry
          Calls,         \* calls: [tenant, events, duration, mood, topic, question]
          MaxRecordings, \* sessions explored
          PageSize,      \* 100: the metrics that a page of the analytics holds
          MaxSteps,      \* 10: the steps of a resolution path
          MaxReports,    \* reports that are kept, explored
          Values,        \* latencies: up to 1 in time, up to 2 a breach, above critical
          Window,        \* the time that a latency counts
          MaxTime, MaxSamples,
          Loads          \* peaks of concurrent sessions

VARIABLES recordings,    \* the files: index, in order of start, to recording
          begun,         \* sessions recorded so far
          audits,        \* cache of AuditReportService
          samples, clock, heard, heardAt, \* SlaMonitor: the latencies of one metric
          load, plan     \* the capacity that was asked for last, and the answer

recordVars == <<recordings, begun, audits>>
slaVars == <<samples, clock, heard, heardAt>>
planVars == <<load, plan>>
vars == <<recordVars, slaVars, planVars>>

Decided == {"allow", "rewrite", "refuse", "escalate"}
Moods == {"positive", "neutral", "negative", "frustrated"}
NoPlan == [cores |-> <<0, 0>>, ram |-> <<0, 0>>, mbps |-> <<0, 0>>, pods |-> <<0, 0>>]

Init ==
  /\ recordings = <<>> /\ begun = 0 /\ audits = {}
  /\ samples = <<>> /\ clock = 0 /\ heard = <<>> /\ heardAt = 0
  /\ load = 0 /\ plan = NoPlan

-----------------------------------------------------------------------------
(* Recordings.                                                                *)

\* What the event bus carries for a call: createSession emits session.start at the
\* connection, the call's own events follow.
Bus(call) == <<"start">> \o call.events

\* Mutant: it subscribes first.
HeardFromConnection(call) == Bus(call)

\* The recorder subscribes when the client's session.start message arrives, which is after
\* the connection: it hears what follows.
Heard(call) == Tail(Bus(call))

Record(call) ==
  /\ begun < MaxRecordings
  /\ begun' = begun + 1
  /\ recordings' = [i \in DOMAIN recordings \union {begun'} |->
                      IF i = begun' THEN [tenant |-> call.tenant, timeline |-> Heard(call),
                                          duration |-> call.duration, mood |-> call.mood,
                                          topic |-> call.topic, question |-> call.question]
                      ELSE recordings[i]]
  /\ UNCHANGED <<audits, slaVars, planVars>>

\* pruneOldRecordings: what is older than the cutoff is deleted.
PruneOldRecordings(cutoff) ==
  /\ \E i \in DOMAIN recordings : i < cutoff
  /\ recordings' = [i \in {j \in DOMAIN recordings : j >= cutoff} |-> recordings[i]]
  /\ UNCHANGED <<begun, audits, slaVars, planVars>>

\* The summary of a recording, counted while it was made.
Count(r, d) == Cardinality({i \in DOMAIN r.timeline : r.timeline[i] = d})
Complying(r) == Count(r, "allow") + Count(r, "rewrite")
Decisions(r) == Complying(r) + Count(r, "refuse") + Count(r, "escalate")
Escalated(r) == Count(r, "escalate") > 0
Turns(r) == Count(r, "user") + Count(r, "agent")

\* The same of several recordings, and how many of them escalated.
CountIn(d, ids) == SumFunction([i \in ids |-> Count(recordings[i], d)])
DecisionsIn(ids) == SumFunction([i \in ids |-> Decisions(recordings[i])])
EscalatedIn(ids) == Cardinality({i \in ids : Escalated(recordings[i])})

Rounded(a, b) == (2 * a + b) \div (2 * b)
Lesser(a, b) == IF a < b THEN a ELSE b
Greater(a, b) == IF a > b THEN a ELSE b
Of(t) == {i \in DOMAIN recordings : recordings[i].tenant = t}
Month(i) == (i - 1) \div 2
Months == 0..Month(MaxRecordings)

\* listRecordings: the youngest first.
Listed(ids) == Ranked(ids, MostFirst(ids, [i \in ids |-> i]))

-----------------------------------------------------------------------------
(* Analytics of calls.                                                        *)

\* computeComplianceRate: a session without decisions complies.
Compliant(r) ==
  IF Decisions(r) = 0 THEN <<1, 1>>
  ELSE <<Complying(r), Decisions(r)>>

\* computeSessionMetrics; durations are in tenths of a second.
QualityScore(r) ==
  (IF r.duration < 600 THEN 30 ELSE IF r.duration < 1200 THEN 20 ELSE 10)
    + Rounded(40 * Compliant(r)[1], Compliant(r)[2]) + 6 * Lesser(Turns(r), 5)

\* getAggregateMetrics, with the filter's tenant ("any" is all), dates, offset and limit.
AggregateMetrics(t, from, till, offset, limit) ==
  LET ids == {i \in DOMAIN recordings : (t = "any" \/ recordings[i].tenant = t)
                                           /\ i >= from /\ i <= till}
  IN [totalSessions |-> Cardinality(DOMAIN recordings),
      filteredSessions |-> Cardinality(ids),
      sessions |-> SubSeq(Listed(ids), offset + 1, Lesser(offset + limit, Cardinality(ids))),
      decisionBreakdown |-> [d \in Decided |-> CountIn(d, ids)],
      totalDecisions |-> DecisionsIn(ids)]

\* getTenantComparison: the tenants that have sessions.
TenantComparison ==
  [t \in {recordings[i].tenant : i \in DOMAIN recordings} |->
     [sessions |-> Cardinality(Of(t)), decisions |-> DecisionsIn(Of(t)),
      escalations |-> CountIn("escalate", Of(t)),
      quality |-> SumFunction([i \in Of(t) |-> QualityScore(recordings[i])])]]

\* GET /tenants/:tenantId/compliance-report: of the tenant's first page of metrics, the
\* sessions between the dates; 404 is no session.
ComplianceReport(t, from, till) ==
  LET page == Range(AggregateMetrics(t, 1, MaxRecordings, 0, PageSize).sessions)
      ids == {i \in page : i >= from /\ i <= till}
  IN [sessions |-> ids, decisions |-> DecisionsIn(ids),
      escalations |-> CountIn("escalate", ids),
      complying |-> CountIn("allow", ids) + CountIn("rewrite", ids)]

-----------------------------------------------------------------------------
(* Quality of a session.                                                      *)

PolicyCompliance(r) ==
  IF Decisions(r) = 0 THEN 20
  ELSE Rounded(20 * Complying(r), Decisions(r))

SentimentTrajectory(r) ==
  CASE r.mood = "positive" -> 20 [] r.mood = "neutral" -> 15 [] r.mood = "negative" -> 8
    [] r.mood = "frustrated" -> 0 [] OTHER -> 10

ResolutionRate(r) == <<20, 12, 6, 0>>[1 + Lesser(Count(r, "escalate"), 3)]

ResponseRelevance(r) == <<0, 5, 10, 15, 15, 20>>[1 + Lesser(Turns(r), 5)]

\* The duration of the session over its turns, against fractions of a second.
LatencyAdherence(r) ==
  LET turns == Greater(Turns(r), 1)
  IN 20 - 4 * Cardinality({limit \in {4, 6, 8, 12} : r.duration >= limit * turns})

Score(r) ==
  PolicyCompliance(r) + SentimentTrajectory(r) + ResolutionRate(r) + ResponseRelevance(r)
    + LatencyAdherence(r)

Band(score) ==
  IF score >= 80 THEN "excellent" ELSE IF score >= 60 THEN "good"
  ELSE IF score >= 40 THEN "fair" ELSE "poor"
Bands == {"excellent", "good", "fair", "poor"}

-----------------------------------------------------------------------------
(* Audit reports, kept until the process ends.                                *)

AuditReport(t, month) ==
  LET ids == {i \in Of(t) : Month(i) = month}
  IN [tenant |-> t, month |-> month, sessionIds |-> ids,
      policyDecisions |-> [d \in Decided |-> CountIn(d, ids)],
      qualityBands |-> [b \in Bands |-> Cardinality({i \in ids : Band(Score(recordings[i])) = b})],
      escalations |-> CountIn("escalate", ids), refusals |-> CountIn("refuse", ids)]

\* GET /audit/report: every request makes a report and keeps it.
GenerateReport(t, month) ==
  /\ Cardinality(audits) < MaxReports
  /\ audits' = audits \union {AuditReport(t, month)}
  /\ UNCHANGED <<recordings, begun, slaVars, planVars>>

-----------------------------------------------------------------------------
(* The compliance dashboard.                                                  *)

\* evaluateTenant: the requirements that hold, by regulation. The average quality reads a
\* field of the summary that the recorder never writes, so it is 0 once there is a session;
\* the retention period is always set.
Passed(t) ==
  LET ids == Of(t)
      n == Cardinality(ids)
      escalated == EscalatedIn(ids)
      withDecision == Cardinality({i \in ids : Decisions(recordings[i]) > 0})
      consent == \E i \in ids : "start" \in Range(recordings[i].timeline)
      If(holds, rs) == IF holds THEN rs ELSE {}
  IN  {"GDPR-2", "SOC2-2", "PCI-2", "CCPA-2"}
        \union If(consent, {"GDPR-1", "CCPA-1"})
        \union If(n > 0 /\ 100 * withDecision >= 80 * n, {"GDPR-3"})
        \union If(withDecision > 0, {"HIPAA-1", "SOC2-1", "PCI-1"})
        \union If(escalated > 0, {"HIPAA-2"}) \union If(n = 0, {"HIPAA-3"})
        \union If(n = 0 \/ 100 * escalated < 20 * n, {"SOC2-3"})

Requirements ==
  [GDPR |-> {"GDPR-1", "GDPR-2", "GDPR-3"}, HIPAA |-> {"HIPAA-1", "HIPAA-2", "HIPAA-3"},
   SOC2 |-> {"SOC2-1", "SOC2-2", "SOC2-3"}, PCI_DSS |-> {"PCI-1", "PCI-2"},
   CCPA |-> {"CCPA-1", "CCPA-2"}]
AllRequirements == UNION {Requirements[g] : g \in DOMAIN Requirements}

StatusOf(passed, all) ==
  IF passed = all THEN "compliant"
  ELSE IF 2 * Cardinality(passed) >= Cardinality(all) THEN "partial" ELSE "non_compliant"

RegulationStatus(t, g) == StatusOf(Passed(t) \intersect Requirements[g], Requirements[g])
OverallStatus(t) == StatusOf(Passed(t), AllRequirements)
CertificateEligible(t) == 100 * Cardinality(Passed(t)) >= 80 * Cardinality(AllRequirements)

Statuses == {"compliant", "partial", "non_compliant"}

\* generateOverview
Overview(g) ==
  [s \in Statuses |-> Cardinality({t \in Tenants : RegulationStatus(t, g) = s})]

-----------------------------------------------------------------------------
(* Analytics of conversations, over the youngest sessions.                    *)

Loaded(maxSessions) ==
  Range(SubSeq(Listed(DOMAIN recordings), 1, Lesser(maxSessions, Cardinality(DOMAIN recordings))))

TopicClusters(ids) ==
  [topic \in {recordings[i].topic : i \in ids} |->
     LET here == {i \in ids : recordings[i].topic = topic}
     IN [sessionCount |-> Cardinality(here), escalated |-> EscalatedIn(here),
         handled |-> SumFunction([i \in here |-> recordings[i].duration])]]

\* The most frequent of the keys; of two that are equally frequent, the one met first, which
\* is that of the younger session.
Frequent(keys, often, youngest, max) ==
  LET ahead(k) == {o \in keys : \/ often[o] > often[k]
                                \/ often[o] = often[k] /\ youngest[o] > youngest[k]}
  IN {k \in keys : Cardinality(ahead(k)) < max}
Youngest(ids) == CHOOSE i \in ids : \A j \in ids : j <= i

\* extractFAQs: with ten sessions a question must come twice; twenty questions are listed.
Asking(q, ids) == {i \in ids : recordings[i].question = q}
Asked(q, ids) == CountIn("user", Asking(q, ids))
Faqs(ids) ==
  LET threshold == IF Cardinality(ids) < 10 THEN 1 ELSE 2
      often == [q \in {recordings[i].question : i \in ids} |-> Asked(q, ids)]
      faqs == {q \in DOMAIN often : often[q] >= threshold}
      youngest == [q \in faqs |-> Youngest({i \in Asking(q, ids) : Count(recordings[i], "user") > 0})]
  IN  [q \in Frequent(faqs, often, youngest, 20) |-> often[q]]

PathSteps(r) ==
  Slice(Picked(r.timeline, {i \in DOMAIN r.timeline : r.timeline[i] # "start"}), MaxSteps)

ClassifyOutcome(steps) ==
  IF "escalate" \in Range(steps) THEN "escalated"
  ELSE IF "refuse" \in Range(steps) THEN "refused" ELSE "resolved"

\* buildResolutionPaths: the ten most frequent.
Taking(p, ids) == {i \in ids : PathSteps(recordings[i]) = p}
ResolutionPaths(ids) ==
  LET often == [p \in {PathSteps(recordings[i]) : i \in ids} |-> Cardinality(Taking(p, ids))]
      youngest == [p \in DOMAIN often |-> Youngest(Taking(p, ids))]
  IN  [p \in Frequent(DOMAIN often, often, youngest, 10) |-> often[p]]

EscalatedPaths(ids) ==
  LET paths == ResolutionPaths(ids)
  IN  SumFunction([p \in DOMAIN paths |-> IF ClassifyOutcome(p) = "escalated" THEN paths[p] ELSE 0])

-----------------------------------------------------------------------------
(* Comparison of two agents by their sessions.                                *)

\* The value that a share of the sorted durations does not exceed.
Percentile(ids, p) ==
  LET sorted == Ranked(ids, MostFirst(ids, [i \in ids |-> -recordings[i].duration]))
      place == Greater(1, (p * Cardinality(ids) + 99) \div 100)
  IN  IF ids = {} THEN 0 ELSE recordings[sorted[place]].duration

SentimentRank == [positive |-> 4, neutral |-> 3, frustrated |-> 2, negative |-> 1, unknown |-> 0]

\* The mood of most sessions; of two that are equally frequent, the one met first.
Feeling(m, ids) == {i \in ids : recordings[i].mood = m}
Precedes(m, o, ids) ==
  LET often(x) == Cardinality(Feeling(x, ids))
  IN  \/ often(m) > often(o)
      \/ often(m) = often(o) /\ \E i \in Feeling(m, ids) : \A j \in Feeling(o, ids) : i < j
TopSentiment(ids) ==
  LET met == {m \in Moods : Feeling(m, ids) # {}}
  IN  IF met = {} THEN "unknown"
      ELSE CHOOSE m \in met : \A o \in met \ {m} : Precedes(m, o, ids)

Won(a, b) == IF a > b THEN "A" ELSE IF b > a THEN "B" ELSE "tie"

\* compareConfigs, for sessions that are loaded.
ScoreIn(ids) == SumFunction([i \in ids |-> Score(recordings[i])])
MetricWinners(as, bs) ==
  LET n == Cardinality(as)
      m == Cardinality(bs)
  IN <<Won(ScoreIn(as) * m, ScoreIn(bs) * n),
       Won(Percentile(bs, 50), Percentile(as, 50)),
       Won(EscalatedIn(bs) * n, EscalatedIn(as) * m),
       Won(SentimentRank[TopSentiment(as)], SentimentRank[TopSentiment(bs)])>>

Recommendation(as, bs) ==
  LET winners == MetricWinners(as, bs)
      wins(side) == Cardinality({k \in 1..4 : winners[k] = side})
  IN IF Cardinality(as) < 2 \/ Cardinality(bs) < 2 THEN "insufficient_data"
     ELSE IF wins("A") >= 3 THEN "A" ELSE IF wins("B") >= 3 THEN "B" ELSE "tie"

RecordsNext ==
  \/ \E call \in Calls : Record(call)
  \/ \E cutoff \in 2..MaxRecordings : PruneOldRecordings(cutoff)
  \/ \E t \in Tenants, month \in Months : GenerateReport(t, month)

-----------------------------------------------------------------------------
(* The monitor of latencies, for one metric.                                  *)

\* record: what is older than the window goes, from the front only. Who measures says when
\* it was, so samples may be out of order.
Pruned(buffer) ==
  LET kept == {i \in DOMAIN buffer : \E j \in 1..i : buffer[j].at >= clock - Window}
  IN SubSeq(buffer, Len(buffer) - Cardinality(kept) + 1, Len(buffer))

RecordSample(value, at) ==
  /\ Len(heard) < MaxSamples
  /\ samples' = Pruned(Append(samples, [value |-> value, at |-> at]))
  /\ heard' = Append(heard, [value |-> value, at |-> at])
  /\ heardAt' = clock
  /\ UNCHANGED <<clock, recordVars, planVars>>

Tick ==
  /\ clock < MaxTime
  /\ clock' = clock + 1
  /\ UNCHANGED <<samples, heard, heardAt, recordVars, planVars>>

ClearSamples ==
  /\ samples # <<>>
  /\ samples' = <<>> /\ heard' = <<>>
  /\ UNCHANGED <<clock, heardAt, recordVars, planVars>>

SlaNext ==
  \/ \E value \in Values, at \in 0..clock : RecordSample(value, at)
  \/ Tick \/ ClearSamples

-----------------------------------------------------------------------------
(* The capacity planner: minimum and recommended amounts for a load.          *)

Ceil(a, b) == (a + b - 1) \div b
Half(n) == <<n, Ceil(3 * n, 2)>>

\* One core for ten sessions, half a core for each of two analyses, one for retrieval.
CalculateCpu(i) ==
  Half(Greater(2, Ceil(i.sessions * (2 + i.sentiment + i.policy) + 20 * i.rag, 20)))

\* Megabytes for ten sessions, and for the processes; the recommendation is rounded.
CalculateRam(i) ==
  LET gb == Ceil(i.sessions * (512 + 256 * i.rag + 128 * i.sentiment) + 10 * (1536 + 2048 * i.rag), 10240)
  IN <<gb, Rounded(3 * gb, 2)>>

\* 384 kbit/s each way for a session, 10 Mbit/s beside.
CalculateNetwork(i) ==
  <<Ceil(768 * i.sessions + 10000, 1000), Ceil(3 * (768 * i.sessions + 10000), 2000)>>

\* Mutant: the last pod that is not full is forgotten.
BuildSpecOfFullPods(i) ==
  LET pods == Greater(2, i.sessions \div 20) IN <<pods, 3 * pods>>

\* Twenty sessions for a pod; two pods at least, three times as many at most.
BuildKubernetesSpec(i) ==
  LET pods == Greater(2, Ceil(i.sessions, 20)) IN <<pods, 3 * pods>>

Calculate(i) ==
  [cores |-> CalculateCpu(i), ram |-> CalculateRam(i), mbps |-> CalculateNetwork(i),
   pods |-> BuildKubernetesSpec(i)]

Inputs == [sessions : Loads, rag : 0..1, sentiment : 0..1, policy : 0..1]

\* POST /capacity/calculate, with a load greater than 0.
PostCalculate(i) ==
  /\ i.sessions > 0
  /\ load' = i.sessions
  /\ plan' = Calculate(i)
  /\ UNCHANGED <<recordVars, slaVars>>

PlanNext == \E i \in Inputs : PostCalculate(i)

\* The three share no state; Stores explores them one at a time.
Next == RecordsNext \/ SlaNext \/ PlanNext
Spec == Init /\ [][Next]_vars

-----------------------------------------------------------------------------
\* Reports that tell of tenants do not contradict each other: tenants add up to the whole,
\* months to the tenant, and the compliance report is the tenant's as long as one page
\* holds it.
TenantsAgree ==
  LET total == AggregateMetrics("any", 1, MaxRecordings, 0, PageSize)
      tenants == TenantComparison
  IN /\ SumFunction([t \in DOMAIN tenants |-> tenants[t].sessions]) = total.totalSessions
     /\ SumFunction([t \in DOMAIN tenants |-> tenants[t].decisions]) = total.totalDecisions
     /\ \A t \in DOMAIN tenants :
          tenants[t].decisions =
            SumFunction([d \in Decided |->
              SumFunction([m \in Months |-> AuditReport(t, m).policyDecisions[d]])])
     /\ \A t \in DOMAIN tenants :
          LET report == ComplianceReport(t, 1, MaxRecordings)
          IN /\ report.sessions \subseteq Of(t)
             /\ Cardinality(Of(t)) <= PageSize =>
                  report.decisions = tenants[t].decisions
                    /\ report.escalations = tenants[t].escalations

\* Those that tell of sessions do not either: topics add up to the sessions, the questions
\* of few sessions to what users said, and a session told as escalated on its path is one.
SessionsAgree ==
  LET all == Loaded(PageSize)
      total == AggregateMetrics("any", 1, MaxRecordings, 0, PageSize)
      clusters == TopicClusters(all)
  IN /\ SumFunction([x \in DOMAIN clusters |-> clusters[x].sessionCount]) = Len(total.sessions)
     /\ Cardinality(all) < 10 => SumFunction(Faqs(all)) = CountIn("user", all)
     /\ EscalatedPaths(all) <= SumFunction([x \in DOMAIN clusters |-> clusters[x].escalated])

\* Two reports of the same recordings do not contradict each other.
ReportsAgree == TenantsAgree /\ SessionsAgree

\* A kept audit report names sessions of its tenant and month, each in one band.
AuditsAddUp ==
  \A a \in audits :
    /\ SumFunction(a.qualityBands) = Cardinality(a.sessionIds)
    /\ \A i \in a.sessionIds : Month(i) = a.month /\ (i \in DOMAIN recordings => i \in Of(a.tenant))

\* Every tenant counts once for each regulation; who complies with all of them is told
\* so. But no tenant gets there: the recorder comes too late for the start of a session, so
\* the consent it stands for is never seen, and with the quality that nobody writes the four
\* fifths that the certificate asks for are out of reach.
CertificateOutOfReach ==
  /\ \A g \in DOMAIN Requirements :
       SumFunction(Overview(g)) = Cardinality(Tenants)
  /\ \A t \in Tenants : ~CertificateEligible(t) /\ OverallStatus(t) # "compliant"

\* It does not matter which of two agents with sessions of their own is called A.
ComparisonIsFair ==
  LET other == [A |-> "B", B |-> "A", tie |-> "tie", insufficient_data |-> "insufficient_data"]
  IN \A as, bs \in SUBSET DOMAIN recordings :
       as # {} /\ bs # {} /\ as \intersect bs = {} =>
         Recommendation(bs, as) = other[Recommendation(as, bs)]

\* The samples are the end of what was measured, and nothing of the window is missing,
\* however late it was reported: a breach of the window counts.
LatenciesCounted ==
  /\ samples = SubSeq(heard, Len(heard) - Len(samples) + 1, Len(heard))
  /\ \A i \in DOMAIN heard : heard[i].at >= heardAt - Window => i > Len(heard) - Len(samples)

\* What is recommended exceeds the minimum, and the pods hold the load.
PlanCarriesLoad ==
  plan # NoPlan => (\A what \in DOMAIN plan : plan[what][1] <= plan[what][2])
                     /\ 20 * plan.pods[1] >= load

ReportsSound ==
  ReportsAgree /\ AuditsAddUp /\ CertificateOutOfReach /\ ComparisonIsFair
    /\ LatenciesCounted /\ PlanCarriesLoad
=============================================================================

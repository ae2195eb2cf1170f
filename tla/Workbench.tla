----------------------------- MODULE Workbench ------------------------------
(* What the people behind the agent work with: annotations of turns and the   *)
(* datasets built from them (services/TrainingDataService.ts,                 *)
(* api/training.ts), the scripted demo (demo/DemoPlayer.ts, api/demo.ts) and  *)
(* the summary of a scan for claims (services/ClaimVerificationService.ts).   *)
(* A text is known by the annotation that holds it.                           *)
EXTENDS Ranking, Functions

CONSTANTS Turns,            \* the turns that are annotated: [session, turn, speaker]
          Filters,          \* [labels, sessions, from, to]: an empty set or a 0 is no filter
          Scripts, Demos,   \* scripts of turns [speaker, mood, decision]
          ScannedClaims,    \* [type, importance, status] of each claim that a scan may return
          MaxAnnotations, MaxDatasets

VARIABLES annotations,      \* in the order of their creation
          made,             \* identifiers and times given so far
          datasets,
          demo,             \* of each demo its stage, its script, and its next turn
          emitted,          \* the events of each demo
          policyDecisions, lastSentiment,   \* locals of its playback
          scan              \* what the last scan told, or nothing

vars == <<annotations, made, datasets, demo, emitted, policyDecisions, lastSentiment, scan>>

Labels == {"good_response", "needs_improvement", "neutral"}
None == "none"

Init ==
  /\ annotations = <<>> /\ made = 0 /\ datasets = <<>>
  /\ demo = [d \in Demos |-> [stage |-> "unborn", script |-> <<>>, turn |-> 1]]
  /\ emitted = [d \in Demos |-> <<>>]
  /\ policyDecisions = [d \in Demos |-> <<>>]
  /\ lastSentiment = [d \in Demos |-> None]
  /\ scan = <<>>

-----------------------------------------------------------------------------
(* Annotations and datasets. An example keeps copies of what it was built of. *)

Annotation(i) == CHOOSE k \in DOMAIN annotations : annotations[k].id = i
Known(i) == \E k \in DOMAIN annotations : annotations[k].id = i

AddAnnotation(t, label) ==
  /\ made < MaxAnnotations
  /\ made' = made + 1
  /\ annotations' = Append(annotations,
       [id |-> made', session |-> t.session, turn |-> t.turn, speaker |-> t.speaker,
        label |-> label])
  /\ UNCHANGED datasets

DeleteAnnotation(i) ==
  /\ Known(i)
  /\ annotations' = Picked(annotations, DOMAIN annotations \ {Annotation(i)})
  /\ UNCHANGED <<made, datasets>>

\* Mutant: the examples share the annotations that they were built of.
UpdateShared(i, label) ==
  /\ Known(i)
  /\ annotations' = [annotations EXCEPT ![Annotation(i)].label = label]
  /\ datasets' = [n \in DOMAIN datasets |->
       [datasets[n] EXCEPT !.examples =
          [k \in DOMAIN @ |-> IF @[k].of = i THEN [@[k] EXCEPT !.label = label] ELSE @[k]]]]
  /\ UNCHANGED made

UpdateAnnotationLabel(i, label) ==
  /\ Known(i)
  /\ annotations' = [annotations EXCEPT ![Annotation(i)].label = label]
  /\ UNCHANGED <<made, datasets>>

ApplyFilters(f) ==
  Picked(annotations, {k \in DOMAIN annotations :
    LET a == annotations[k]
    IN  /\ f.labels # {} => a.label \in f.labels
        /\ f.sessions # {} => a.session \in f.sessions
        /\ f.from # 0 => a.id >= f.from
        /\ f.to # 0 => a.id <= f.to})

\* The annotated turn of the user before a turn: the latest, and of two the first created.
FindPriorUserTurn(a) ==
  LET before == {k \in DOMAIN annotations : /\ annotations[k].session = a.session
                                            /\ annotations[k].speaker = "user"
                                            /\ annotations[k].turn < a.turn}
  IN  IF before = {} THEN 0
      ELSE annotations[CHOOSE k \in before : \A j \in before \ {k} :
             \/ annotations[j].turn < annotations[k].turn
             \/ annotations[j].turn = annotations[k].turn /\ k < j].id

Example(a) == [of |-> a.id, prior |-> FindPriorUserTurn(a), label |-> a.label]

Labelled(seq, label) == Cardinality({k \in DOMAIN seq : seq[k].label = label})

BuildDataset(f) ==
  LET matching == ApplyFilters(f)
  IN  /\ Len(datasets) < MaxDatasets
      /\ datasets' = Append(datasets,
           [examples |-> [k \in DOMAIN matching |-> Example(matching[k])],
            sessions |-> {matching[k].session : k \in DOMAIN matching},
            good |-> Labelled(matching, "good_response"),
            needs |-> Labelled(matching, "needs_improvement")])
      /\ UNCHANGED <<annotations, made>>

DatasetsNext ==
  /\ \/ \E t \in Turns, l \in Labels : AddAnnotation(t, l)
     \/ \E i \in 1..made : DeleteAnnotation(i) \/ \E l \in Labels : UpdateAnnotationLabel(i, l)
     \/ \E f \in Filters : BuildDataset(f)
  /\ UNCHANGED <<demo, emitted, policyDecisions, lastSentiment, scan>>

-----------------------------------------------------------------------------
(* The demo. Each request to start one makes a player of its own and answers  *)
(* when the playback is over; only then can its events be asked for.          *)

Emit(d, events) == emitted' = [emitted EXCEPT ![d] = @ \o events]

Start(d, s) ==
  /\ demo[d].stage = "unborn"
  /\ demo' = [demo EXCEPT ![d] = [stage |-> "playing", script |-> s, turn |-> 1]]
  /\ Emit(d, <<<<"session_start">>>>)
  /\ UNCHANGED <<policyDecisions, lastSentiment>>

Playing(d) == demo[d].stage = "playing"

\* A turn, after its delay: the mood and the decision belong to turns of the user.
PlayTurn(d) ==
  LET turn == demo[d].script[demo[d].turn]
      told(what) == IF turn.speaker = "user" THEN turn[what] ELSE None
  IN  /\ Playing(d) /\ demo[d].turn <= Len(demo[d].script)
      /\ demo' = [demo EXCEPT ![d].turn = @ + 1]
      /\ Emit(d, <<<<"turn", turn.speaker>>>>
                 \o (IF told("mood") = None THEN <<>> ELSE <<<<"sentiment", turn.mood>>>>)
                 \o (IF told("decision") = None THEN <<>>
                     ELSE <<<<"policy", turn.decision>>>>))
      /\ lastSentiment' = [lastSentiment EXCEPT ![d] =
                             IF told("mood") = None THEN @ ELSE turn.mood]
      /\ policyDecisions' = [policyDecisions EXCEPT ![d] =
                               IF told("decision") = None THEN @ ELSE Append(@, turn.decision)]

EndPlayback(d) ==
  /\ Playing(d) /\ demo[d].turn > Len(demo[d].script)
  /\ demo' = [demo EXCEPT ![d].stage = "listed"]
  /\ Emit(d, <<<<"summary", [turns |-> Len(demo[d].script), mood |-> lastSentiment[d],
                             decisions |-> policyDecisions[d],
                             escalated |-> "escalate" \in Range(policyDecisions[d])]>>,
               <<"session_end">>>>)
  /\ UNCHANGED <<policyDecisions, lastSentiment>>

DeleteDemo(d) ==
  /\ demo[d].stage = "listed"
  /\ demo' = [demo EXCEPT ![d].stage = "gone"]
  /\ UNCHANGED <<emitted, policyDecisions, lastSentiment>>

DemoNext ==
  /\ \E d \in Demos : \/ \E s \in Scripts : Start(d, s)
                      \/ PlayTurn(d) \/ EndPlayback(d) \/ DeleteDemo(d)
  /\ UNCHANGED <<annotations, made, datasets, scan>>

-----------------------------------------------------------------------------
(* A scan. Claims are told by their place in the answer; a missing            *)
(* verification counts as unverified, and what is spoken follows the counts.  *)

Doubtful == {"missing", "unverified", "mixed", "skipped", "loading"}

Qualifying(claims) == {k \in DOMAIN claims : claims[k].type = "fact" /\ claims[k].importance >= 3}

\* Sorting is stable: of the most important ones, the first.
PickHighestRiskClaim(claims, facts) ==
  LET with(statuses) == {k \in facts : claims[k].status \in statuses}
      worst == IF with({"contradicted"}) # {} THEN with({"contradicted"}) ELSE with(Doubtful)
  IN  IF worst = {} THEN 0
      ELSE CHOOSE k \in worst : \A j \in worst \ {k} :
             \/ claims[j].importance < claims[k].importance
             \/ claims[j].importance = claims[k].importance /\ k < j

FormatSpoken(facts, verified, contradicted, unverified) ==
  IF facts = 1
    THEN IF contradicted = 1 THEN "warning" ELSE IF verified = 1 THEN "supported" ELSE "unverified"
  ELSE IF contradicted > 0 THEN "warning"
  ELSE IF unverified = 0 THEN "all check out" ELSE "found"

Scan(claims) ==
  LET facts == Qualifying(claims)
      having(statuses) == Cardinality({k \in facts : claims[k].status \in statuses})
  IN  /\ scan' = IF facts = {} THEN <<>> ELSE
                 <<[claims |-> claims, verified |-> having({"supported"}),
                    contradicted |-> having({"contradicted"}), unverified |-> having(Doubtful),
                    worst |-> PickHighestRiskClaim(claims, facts),
                    spoken |-> FormatSpoken(Cardinality(facts), having({"supported"}),
                                            having({"contradicted"}), having(Doubtful))]>>

ScanNext ==
  /\ \E n \in 0..3 : \E claims \in [1..n -> ScannedClaims] : Scan(claims)
  /\ UNCHANGED <<annotations, made, datasets, demo, emitted, policyDecisions, lastSentiment>>

Next == DatasetsNext \/ DemoNext \/ ScanNext
Spec == Init /\ [][Next]_vars

-----------------------------------------------------------------------------
\* The counts that a dataset announces are those of the examples that its export holds,
\* whatever is relabelled, deleted or added afterwards; and no example answers a turn that
\* came after it.
DatasetsKept ==
  \A n \in DOMAIN datasets :
    LET d == datasets[n]
    IN  /\ d.good = Labelled(d.examples, "good_response")
        /\ d.needs = Labelled(d.examples, "needs_improvement")
        /\ Cardinality(d.sessions) <= Len(d.examples)
        /\ \A k \in DOMAIN d.examples : d.examples[k].prior # d.examples[k].of

EventsOf(events, kind) == Picked(events, {i \in DOMAIN events : events[i][1] = kind})

\* The summary of a demo says what its events said, also when several are played at once,
\* and a demo that can be asked for has been played to its end.
DemoTellsItsEvents ==
  \A d \in Demos : demo[d].stage = "listed" =>
    /\ emitted[d][1] = <<"session_start">>
    /\ emitted[d][Len(emitted[d])] = <<"session_end">>
    /\ Len(EventsOf(emitted[d], "summary")) = 1
    /\ LET s == EventsOf(emitted[d], "summary")[1][2]
           decided == EventsOf(emitted[d], "policy")
           felt == EventsOf(emitted[d], "sentiment")
       IN  /\ s.turns = Len(EventsOf(emitted[d], "turn"))
           /\ s.decisions = [k \in DOMAIN decided |-> decided[k][2]]
           /\ s.escalated <=> \E k \in DOMAIN decided : decided[k][2] = "escalate"
           /\ s.mood = IF felt = <<>> THEN None ELSE felt[Len(felt)][2]

\* A scan never speaks of claims that check out while one is contradicted or in doubt, and
\* the claim it reads out is a contradicted one whenever it warns.
ScanSpeaksTrue ==
  \A s \in Range(scan) :
    LET facts == Qualifying(s.claims)
    IN  /\ s.verified + s.contradicted + s.unverified = Cardinality(facts)
        /\ s.spoken \in {"supported", "all check out"} =>
             \A k \in facts : s.claims[k].status = "supported"
        /\ s.spoken = "warning" => s.claims[s.worst].status = "contradicted"

WorkbenchSound == DatasetsKept /\ DemoTellsItsEvents /\ ScanSpeaksTrue
=============================================================================

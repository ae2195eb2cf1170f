------------------------------ MODULE Choices -------------------------------
(* The stores that answer with a choice among what they hold: the winner of   *)
(* an A/B test, the skills and the playbook entries for what was said, the    *)
(* route and the intent of a call, entries of a knowledge base, facts for an  *)
(* answer. Stores composes them with the others and explores one part at a    *)
(* time.                                                                      *)
EXTENDS Integers, Sequences, FiniteSets

CONSTANTS Visitors, Bucket(_), Scores,
          Tenants, OneTenant, Shared, Phrases, Utterances, Names, MaxEntries, Shown,
          Rules, Topics, Unset, Hours, Menus, Nowhere, Digits, Intents, Texts, Templates,
          NoTemplate, MaxRules, MaxLogs,
          Entries, Owner(_), Title(_), Body(_), Queries, TopN, Transcripts, Questions,
          Opening(_), MaxFaqs, MaxHits, MaxFailures,
          Sources, Disclaimers, TopicSize, Cap, TopK, Readers, Attempts

-----------------------------------------------------------------------------
(* What the code gives: finitely many visitors, each in one of a thousand     *)
(* shares; words that can be counted; names, entries and facts in an order;   *)
(* talks of two; rules with a number for a priority; menus with a root; an    *)
(* intent to be found.                                                        *)

VisitorsAreCounted ==
  /\ IsFiniteSet(Visitors) /\ Scores \subseteq Int
  /\ \A s \in Visitors : Bucket(s) \in 0..999

WordsAreFew ==
  /\ Names \subseteq Int
  /\ \A said \in Utterances : IsFiniteSet(said)

EntriesAreKnown ==
  /\ Entries \subseteq Int /\ IsFiniteSet(Entries) /\ TopN \in Nat
  /\ \A q \in Queries : IsFiniteSet(q)

Speakers == {"user", "assistant"}

TalksAreOfTwo ==
  \A talk \in Transcripts : talk \in Seq(Speakers \X {talk[i][2] : i \in DOMAIN talk})

FactsAreKnown ==
  /\ IsFiniteSet(Sources) /\ IsFiniteSet(Disclaimers)
  /\ \A f \in Sources : f.score \in Int /\ f.id \in Int /\ f.size \in Nat
  /\ \A f, g \in Sources : f.id = g.id => f = g
  /\ \A d \in Disclaimers : d.size \in Nat
  /\ TopicSize \in Int /\ TopK \in Nat

RoutesAreGiven ==
  /\ Rules \subseteq [tenant : {r.tenant : r \in Rules}, priority : Int,
                      topic : {r.topic : r \in Rules}, from : Int, till : Int,
                      cap : SUBSET Int, target : {r.target : r \in Rules}, active : BOOLEAN]
  /\ Menus \subseteq [root : {m.root : m \in Menus} \ {Nowhere},
                      nodes : {m.nodes : m \in Menus}]
  /\ Intents \in Seq({Intents[i] : i \in DOMAIN Intents}) /\ Intents # <<>>
  /\ \A t \in Texts, i \in DOMAIN Intents : t.hits[Intents[i]] \in Nat

ASSUME ChoicesAssumption ==
  /\ VisitorsAreCounted /\ WordsAreFew /\ EntriesAreKnown /\ TalksAreOfTwo
  /\ FactsAreKnown /\ RoutesAreGiven
  /\ Shown \in Nat /\ MaxFaqs \in Nat /\ Cap \in Int

-----------------------------------------------------------------------------
VARIABLES part,         \* the part that runs
          test, variant, score, touched,
          skills, entries, invoked, overwritten,
          rules, menu, routeAt, strayed, mapping, logs,
          knownCache, knownIndex, knownLoaded, hits, knownFile, knownBorn, knownFailures,
          deleted,
          collection, connected, server, retrievalVersions, call, calls, broken, catalogue,
          readable

Ab == INSTANCE AbTests WITH
  Sessions <- Visitors
Hints == INSTANCE Suggestions WITH
  Tenants <- OneTenant
Route == INSTANCE Routing WITH
  at <- routeAt
Known == INSTANCE Knowledge WITH
  cache <- knownCache, index <- knownIndex, loaded <- knownLoaded, file <- knownFile,
  born <- knownBorn, failures <- knownFailures
Retrieve == INSTANCE Retrieval WITH
  Facts <- Sources, Callers <- Readers, versions <- retrievalVersions

abVars == <<test, variant, score, touched>>
hintVars == <<skills, entries, invoked, overwritten>>
routeVars == <<rules, menu, routeAt, strayed, mapping, logs>>
knownVars == <<knownCache, knownIndex, knownLoaded, hits, knownFile, knownBorn,
  knownFailures, deleted>>
retrievalVars == <<collection, connected, server, retrievalVersions, call, calls,
  broken, catalogue, readable>>
choiceVars == <<abVars, hintVars, routeVars, knownVars, retrievalVars>>

\* Whether a file can be read is left open to the part that reads it.
ChoicesInit ==
  /\ Ab!Init
  /\ Hints!Init
  /\ Route!Init
  /\ Known!Init
  /\ Retrieve!Init
  /\ part # "retrieval" => readable

ChoicesNext ==
  /\ IF part = "ab tests" THEN Ab!Next ELSE UNCHANGED abVars
  /\ IF part = "skills" THEN Hints!SkillsNext
     ELSE IF part = "playbook" THEN Hints!PlaybookNext
     ELSE UNCHANGED hintVars
  /\ IF part = "rules" THEN Route!RulesNext
     ELSE IF part = "menus" THEN Route!MenusNext
     ELSE IF part = "intents" THEN Route!IntentsNext
     ELSE UNCHANGED routeVars
  /\ IF part = "knowledge" THEN Known!Next ELSE UNCHANGED knownVars
  /\ IF part = "retrieval" THEN Retrieve!Next ELSE UNCHANGED retrievalVars

ChoicesSpec == ChoicesInit /\ [][ChoicesNext]_choiceVars

-----------------------------------------------------------------------------
\* Choices: of what fits, the answer is the one that the ranking promises, whatever was
\* added, removed or asked before: the winner of a test, skills, routes, entries, facts.
ChoicesSound ==
  /\ part = "ab tests" => Ab!AbTestsSound
  /\ part \in {"skills", "playbook"} => Hints!SuggestionsSound
  /\ part \in {"rules", "menus", "intents"} => Route!RoutingSound
  /\ part = "knowledge" => Known!KnowledgeSound
  /\ part = "retrieval" => Retrieve!RetrievalSound
=============================================================================

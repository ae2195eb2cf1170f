---------------------------- MODULE Suggestions -----------------------------
(* What is suggested for an utterance: skills (services/SkillStore.ts,        *)
(* api/skills.ts) and playbook entries (services/PlaybookStore.ts,            *)
(* api/playbooks.ts). An utterance and a trigger phrase are the sets of their *)
(* words, stop words left out; overlaps are compared by the number of words   *)
(* shared, since all are divided by the length of the utterance. Each file    *)
(* holds its data whole, so a restart only returns a store to a state it was  *)
(* in: it is left out.                                                        *)
EXTENDS SequencesExt, Ranking

CONSTANTS Tenants, Shared,
          Phrases,      \* trigger phrases: sets of words
          Utterances,   \* what is said: sets of words
          Names,        \* bound: skills that exist at once, ordered by their names
          MaxEntries,   \* bound: playbook entries at once
          Shown         \* how many playbook entries are shown: 3 in the code

VARIABLES skills,       \* the skills that exist, by their names
          entries,      \* the playbook, in the order of creation
          invoked,      \* history: how many invocations of a skill were answered
          overwritten   \* history: whether somebody else wrote its count

skillVars == <<skills, invoked, overwritten>>
vars == <<skillVars, entries>>

MaxUses == 1            \* bound: invocations of a skill

Skill(phrase, tenant) == [phrase |-> phrase, tenant |-> tenant, enabled |-> TRUE, uses |-> 0]
Entry(keywords, tenant, enabled) ==
  [keywords |-> keywords, tenant |-> tenant, enabled |-> enabled]

Init ==
  /\ skills = <<>> /\ entries = <<>>
  /\ invoked = [n \in Names |-> 0] /\ overwritten = [n \in Names |-> FALSE]

\* An item of no tenant is everybody's.
InScope(item, tenant) == item.tenant = Shared \/ item.tenant = tenant

-----------------------------------------------------------------------------
(* Skills.                                                                   *)

\* createSkill: a skill without a trigger phrase is refused.
CreateSkill(n, phrase, tenant) ==
  /\ phrase \in Phrases
  /\ skills' = [m \in DOMAIN skills \union {n} |->
                  IF m = n THEN Skill(phrase, tenant) ELSE skills[m]]

PostSkill(n, phrase, tenant) ==
  /\ n \notin DOMAIN skills
  /\ CreateSkill(n, phrase, tenant)
  /\ invoked' = [invoked EXCEPT ![n] = 0]
  /\ overwritten' = [overwritten EXCEPT ![n] = FALSE]

\* What a PATCH may write: any field, the count and an empty list of phrases included.
Patches == [phrase : Phrases \union {{}}, tenant : Tenants \union {Shared}, enabled : BOOLEAN,
            uses : 0..MaxUses]

\* updateSkill assigns whatever it is given; with a new name the skill has another place.
UpdateSkill(n, name, skill) ==
  skills' = [m \in (DOMAIN skills \ {n}) \union {name} |->
               IF m = name THEN skill ELSE skills[m]]

PatchSkill(n, name, skill) ==
  /\ n \in DOMAIN skills
  /\ name \in DOMAIN skills => name = n
  /\ UpdateSkill(n, name, skill)
  /\ invoked' = [invoked EXCEPT ![name] = invoked[n]]
  /\ overwritten' = [overwritten EXCEPT ![name] =
                       overwritten[n] \/ skill.uses # skills[n].uses]

DeleteSkill(n) ==
  /\ n \in DOMAIN skills
  /\ skills' = [m \in DOMAIN skills \ {n} |-> skills[m]]
  /\ UNCHANGED <<invoked, overwritten>>

IncrementUsage(n) == skills' = [skills EXCEPT ![n].uses = @ + 1]

InvokeSkill(n) ==
  /\ n \in DOMAIN skills
  /\ skills[n].uses < MaxUses /\ invoked[n] < MaxUses
  /\ IncrementUsage(n)
  /\ invoked' = [invoked EXCEPT ![n] = @ + 1]
  /\ UNCHANGED overwritten

\* listSkills, as a set; the suggestions fall back on its order.
ListSkills(tenant) == {n \in DOMAIN skills : skills[n].enabled /\ InScope(skills[n], tenant)}

\* Mutant: the limit is applied before the order.
SuggestFirst(said, tenant, max) ==
  LET found == {n \in ListSkills(tenant) : skills[n].phrase \intersect said # {}}
  IN  Slice(Ranked(found, Ascending(found)), max)

\* suggestSkills: what shares a word, the largest overlap first, names breaking ties.
SuggestSkills(said, tenant, max) ==
  LET overlap == [n \in ListSkills(tenant) |-> Cardinality(said \intersect skills[n].phrase)]
      found == {n \in ListSkills(tenant) : overlap[n] > 0}
  IN  Slice(Ranked(found, MostFirst(found, overlap)), max)

-----------------------------------------------------------------------------
(* The playbook.                                                             *)

CreateEntry(keywords, tenant, enabled) ==
  /\ Len(entries) < MaxEntries
  /\ entries' = Append(entries, Entry(keywords, tenant, enabled))

PostEntry(keywords, tenant, enabled) == CreateEntry(keywords, tenant, enabled)

UpdateEntry(i, keywords, enabled) ==
  entries' = [entries EXCEPT ![i].keywords = keywords, ![i].enabled = enabled]

PutEntry(i, keywords, enabled) == UpdateEntry(i, keywords, enabled)

DeleteEntry(i) == entries' = RemoveAt(entries, i)

\* suggestEntries: the most keywords first, the older entry breaking ties.
SuggestEntries(said, tenant) ==
  LET hits == [i \in DOMAIN entries |-> Cardinality(said \intersect entries[i].keywords)]
      found == {i \in DOMAIN entries : /\ entries[i].enabled /\ InScope(entries[i], tenant)
                                       /\ hits[i] > 0}
  IN  Slice(Ranked(found, MostFirst(found, hits)), Shown)

SkillsNext ==
  /\ \E n \in Names :
       \/ \E p \in Phrases \union {{}}, t \in Tenants \union {Shared} : PostSkill(n, p, t)
       \/ \E m \in Names, skill \in Patches : PatchSkill(n, m, skill)
       \/ DeleteSkill(n) \/ InvokeSkill(n)
  /\ UNCHANGED entries

PlaybookNext ==
  /\ \/ \E k \in Phrases, t \in Tenants \union {Shared}, b \in BOOLEAN : PostEntry(k, t, b)
     \/ \E i \in DOMAIN entries :
          DeleteEntry(i) \/ \E k \in Phrases, b \in BOOLEAN : PutEntry(i, k, b)
  /\ UNCHANGED skillVars

Next == SkillsNext \/ PlaybookNext

Spec == Init /\ [][Next]_vars

-----------------------------------------------------------------------------
\* The best come first: what is suggested is switched on, in scope and shares a word, in
\* the order of the overlap, and what is left out shares no more words than the last that
\* is shown; nothing is left out below the limit.
Best(shown, all, score(_), max) ==
  /\ Range(shown) \subseteq {x \in all : score(x) > 0}
  /\ IsInjective(shown)
  /\ \A i, j \in DOMAIN shown : i < j => score(shown[i]) >= score(shown[j])
  /\ \A x \in all \ Range(shown) : score(x) > 0 =>
       /\ Len(shown) >= max
       /\ \A y \in Range(shown) : score(y) >= score(x)

SuggestsBest ==
  \A said \in Utterances, t \in Tenants :
    /\ \A max \in 0..2 :
         LET all == {n \in DOMAIN skills : skills[n].enabled /\ InScope(skills[n], t)}
             overlap(n) == Cardinality(said \intersect skills[n].phrase)
         IN  Best(SuggestSkills(said, t, max), all, overlap, max)
    /\ LET all == {i \in DOMAIN entries : entries[i].enabled /\ InScope(entries[i], t)}
           hits(i) == Cardinality(said \intersect entries[i].keywords)
       IN  Best(SuggestEntries(said, t), all, hits, Shown)

\* Each answered invocation of a skill is counted, whatever happens to the skill and to
\* others meanwhile, unless a PATCH wrote the count (which the comment at SkillStore.ts:195
\* excludes and the code does not).
UsesAreCounted ==
  \A n \in DOMAIN skills : ~overwritten[n] => skills[n].uses = invoked[n]

SuggestionsSound == SuggestsBest /\ UsesAreCounted
=============================================================================

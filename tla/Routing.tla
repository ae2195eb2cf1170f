------------------------------ MODULE Routing -------------------------------
(* Where a call goes: the rules of services/RoutingEngine.ts, the phone menus *)
(* of services/IvrMenuStore.ts with a caller who walks through one, and the   *)
(* intents of services/IntentClassifier.ts and services/IntentStore.ts, each  *)
(* with its routes (api/routing.ts, api/ivr.ts, api/intents.ts). The stores   *)
(* are written whole; see Stores for what that leaves out.                    *)
EXTENDS SequencesExt, Ranking

CONSTANTS Rules,      \* the bodies of rules: [tenant, priority, topic, from, till, cap, target, active]
          Tenants, Shared,    \* Shared: tenantId null
          Topics, Unset,        \* Unset: the condition, or the fact, is not given
          Hours,
          Menus,      \* the bodies of menus: [root, nodes], nodes: node |-> (digit |-> node)
          Nowhere,    \* the node of a caller who is in no menu
          Digits,
          Intents,    \* the intents with keywords, a sequence: earlier ones win ties
          Texts,      \* utterances: [hits (intent |-> keywords found), words]
          Templates, NoTemplate,
          MaxRules, MaxLogs

VARIABLES rules,      \* RoutingEngine.rules
          menu,       \* the menu called "m", or NoMenu
          at,         \* the node the last answer gave to the caller
          strayed,    \* history: the menu changed since the caller entered it
          mapping,    \* [tenant, intent] |-> template
          logs        \* the log entries' tenants and intents, in order

vars == <<rules, menu, at, strayed, mapping, logs>>

Scopes == Tenants \union {Shared}
AllIntents == Range(Intents) \union {"general"}
NoMenu == [root |-> Nowhere, nodes |-> <<>>]

Init ==
  /\ rules = <<>>
  /\ menu = NoMenu /\ at = Nowhere /\ strayed = FALSE
  /\ mapping = [k \in Scopes \X AllIntents |-> NoTemplate]
  /\ logs = <<>>

-----------------------------------------------------------------------------
(* Rules.                                                                     *)

\* Mutant: the order of creation decides.
AsCreated(I) == Ranked(I, Ascending(I))

\* The rules at the places I by priority; the sort keeps the order of equals.
InOrder(I) ==
  Ranked(I, MostFirst(I, [i \in I |-> -rules[i].priority]))

GetRules(tenant) ==
  InOrder({i \in DOMAIN rules : rules[i].active /\ rules[i].tenant \in {Shared, tenant}})

\* isWithinTimeRange: both ends count, and a range whose end comes first wraps midnight.
IsWithinTimeRange(r, hour) ==
  IF r.from <= r.till THEN hour >= r.from /\ hour <= r.till
                      ELSE hour >= r.from \/ hour <= r.till

\* matchRule. A cap and a count are sets of at most one number: a session whose count is
\* unknown passes every cap.
MatchRule(r, meta) ==
  /\ r.tenant \in {Shared, meta.tenant}
  /\ r.topic \in {Unset, meta.topic}
  /\ IsWithinTimeRange(r, meta.hour)
  /\ \A c \in r.cap, n \in meta.count : n < c

\* evaluate: the first rule that matches, or the default.
Evaluate(meta) ==
  LET candidates == GetRules(meta.tenant)
      matched == {n \in DOMAIN candidates : MatchRule(rules[candidates[n]], meta)}
  IN  IF matched = {} THEN [target |-> NoTemplate, priority |-> 0]
                      ELSE rules[candidates[Min(matched)]]

\* The route's body cannot bring a count.
PostEvaluate(tenant, topic, hour) ==
  Evaluate([tenant |-> tenant, topic |-> topic, hour |-> hour, count |-> {}])

PostRule(r) ==
  /\ Len(rules) < MaxRules
  /\ rules' = Append(rules, r)
  /\ UNCHANGED <<menu, at, strayed, mapping, logs>>

\* A PUT replaces the fields it names; here all of them, or one.
PutRule(i, r) ==
  /\ i \in DOMAIN rules
  /\ \/ rules' = [rules EXCEPT ![i] = r]
     \/ rules' = [rules EXCEPT ![i].tenant = r.tenant]
     \/ rules' = [rules EXCEPT ![i].active = r.active]
  /\ UNCHANGED <<menu, at, strayed, mapping, logs>>

DeleteRule(i) ==
  /\ i \in DOMAIN rules
  /\ rules' = RemoveAt(rules, i)
  /\ UNCHANGED <<menu, at, strayed, mapping, logs>>

-----------------------------------------------------------------------------
(* Phone menus. The caller's client holds the node; the server holds nothing. *)

PostMenu(m) ==
  /\ menu = NoMenu
  /\ menu' = m
  /\ UNCHANGED <<rules, at, strayed, mapping, logs>>

\* The nodes and the root come together or alone; nobody looks whether the root is a node.
PutMenu(m) ==
  /\ menu # NoMenu
  /\ \/ menu' = m
     \/ menu' = [menu EXCEPT !.nodes = m.nodes]
     \/ menu' = [menu EXCEPT !.root = m.root]
  /\ strayed' = (at # Nowhere)
  /\ UNCHANGED <<rules, at, mapping, logs>>

\* The menus get a new id when they are created again; a caller's old one finds nothing.
DeleteMenu ==
  /\ menu # NoMenu
  /\ menu' = NoMenu
  /\ at' = Nowhere /\ strayed' = FALSE
  /\ UNCHANGED <<rules, mapping, logs>>

\* GET of the menu tells a caller's client the root.
Enter ==
  /\ menu # NoMenu
  /\ at' = menu.root /\ strayed' = FALSE
  /\ UNCHANGED <<rules, menu, mapping, logs>>

\* processInput: null, written Nowhere, when a step of the way is missing.
ProcessInput(node, digit) ==
  IF node \notin DOMAIN menu.nodes THEN Nowhere
  ELSE LET options == menu.nodes[node]
       IN  IF digit \in DOMAIN options /\ options[digit] \in DOMAIN menu.nodes
           THEN options[digit] ELSE Nowhere

\* A press that leads nowhere is refused, and the caller stays.
Press(digit) ==
  /\ at # Nowhere
  /\ ProcessInput(at, digit) # Nowhere
  /\ at' = ProcessInput(at, digit)
  /\ UNCHANGED <<rules, menu, strayed, mapping, logs>>

-----------------------------------------------------------------------------
(* Intents.                                                                   *)

\* classify: the most keywords win, the earlier intent on a tie; too few for the words, or
\* none, is "general". Three in a hundred words are enough.
Classify(text) ==
  LET best == SelectInSeq(Intents, LAMBDA a : \A b \in Range(Intents) : text.hits[b] <= text.hits[a])
      high == text.hits[Intents[best]]
  IN  IF high = 0 \/ 100 * high < 3 * text.words THEN "general" ELSE Intents[best]

PostDetect(scope, text) ==
  /\ Len(logs) < MaxLogs
  /\ logs' = Append(logs, [tenant |-> scope, intent |-> Classify(text)])
  /\ UNCHANGED <<rules, menu, at, strayed, mapping>>

LogsOf(tenants) == Picked(logs, {i \in DOMAIN logs : logs[i].tenant \in tenants})

\* listLogs: the most recent first, as if no two came in one millisecond.
ListLogs(tenants, limit) == Slice(Reverse(LogsOf(tenants)), limit)

GetFrequencies(tenants) ==
  LET source == LogsOf(tenants)
  IN  [i \in AllIntents |-> Cardinality({k \in DOMAIN source : source[k].intent = i})]

SetMapping(scope, intent, template) ==
  /\ mapping' = [mapping EXCEPT ![<<scope, intent>>] = template]
  /\ UNCHANGED <<rules, menu, at, strayed, logs>>

\* listMappings, for a tenant: its own and the shared ones.
ListMappings(tenant) ==
  {k \in DOMAIN mapping : k[1] \in {tenant, Shared} /\ mapping[k] # NoTemplate}

DeleteMapping(scope, intent) ==
  /\ mapping[scope, intent] # NoTemplate
  /\ mapping' = [mapping EXCEPT ![<<scope, intent>>] = NoTemplate]
  /\ UNCHANGED <<rules, menu, at, strayed, logs>>

RulesNext ==
  \/ \E r \in Rules : PostRule(r) \/ \E i \in DOMAIN rules : PutRule(i, r)
  \/ \E i \in DOMAIN rules : DeleteRule(i)

MenusNext ==
  \/ \E m \in Menus : PostMenu(m) \/ PutMenu(m)
  \/ DeleteMenu \/ Enter
  \/ \E d \in Digits : Press(d)

IntentsNext ==
  \/ \E s \in Scopes, t \in Texts : PostDetect(s, t)
  \/ \E s \in Scopes, i \in Range(Intents) :
       DeleteMapping(s, i) \/ \E t \in Templates : SetMapping(s, i, t)

\* The three share no state; Stores explores them one at a time.
Next == RulesNext \/ MenusNext \/ IntentsNext

Spec == Init /\ [][Next]_vars

-----------------------------------------------------------------------------
\* A call goes to no other tenant's rule, and to the default only when no active rule wants
\* it; no rule that wants it comes before the one that got it.
BestRuleWins ==
  \A tenant \in Tenants, topic \in Topics \union {Unset}, hour \in Hours :
    LET won == PostEvaluate(tenant, topic, hour)
        wants == {i \in DOMAIN rules :
                    /\ rules[i].active /\ rules[i].tenant \in {tenant, Shared}
                    /\ rules[i].topic \in {topic, Unset} /\ IsWithinTimeRange(rules[i], hour)}
    IN  IF wants = {} THEN won.target = NoTemplate
        ELSE \E i \in wants : won = rules[i] /\ \A j \in wants : rules[j].priority >= won.priority
                                /\ (rules[j].priority = won.priority => i <= j \/ rules[j] = won)

\* A caller whose menu was left alone stands on its root or on a node that an option of it
\* names, however the walk went.
WalkStaysInMenu ==
  at # Nowhere /\ ~strayed =>
    \/ at = menu.root
    \/ \E n \in DOMAIN menu.nodes, d \in Digits : ProcessInput(n, d) = at

\* The frequencies of a tenant add up to its entries, those of all scopes to all entries,
\* and the page shows the latest entry first.
CountsAgree ==
  /\ \A s \in Scopes : SumFunction(GetFrequencies({s})) = Len(LogsOf({s}))
  /\ SumFunction(GetFrequencies(Scopes)) = Len(logs)
  /\ logs # <<>> => Head(ListLogs(Scopes, 1)) = Last(logs)
  /\ \A t \in Tenants : ListMappings(t) \subseteq {t, Shared} \X AllIntents

RoutingSound == BestRuleWins /\ WalkStaysInMenu /\ CountsAgree
=============================================================================

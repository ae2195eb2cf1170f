------------------------------ MODULE MC_Stores ------------------------------
(* The data with which the stores are checked: small sets in which ties,      *)
(* refusals and boundaries occur.                                             *)
EXTENDS Stores, TLC

\* One session hashes into the second half of a test.
Hash(s) == IF s = "x" THEN 700 ELSE 300

ProfileOwner(p) == IF p = "p1" THEN "t1" ELSE "t2"

Rule(t, p, topic, from, till, cap, to, on) ==
  [tenant |-> t, priority |-> p, topic |-> topic, from |-> from, till |-> till, cap |-> cap,
   target |-> to, active |-> on]
SomeRules ==
  {Rule("shared", 1, "any", 3, 0, {}, "x1", TRUE), Rule("t1", 1, "bill", 0, 3, {1}, "x2", TRUE),
   Rule("t2", 0, "any", 0, 2, {}, "x2", FALSE)}

\* A menu whose option leads nowhere, and one whose root is no node of it.
SomeMenus ==
  {[root |-> "a", nodes |-> ("a" :> ("1" :> "b" @@ "2" :> "z") @@ "b" :> ("1" :> "a"))],
   [root |-> "a", nodes |-> ("c" :> ("1" :> "c"))]}

SomeIntents == <<"billing", "sales">>
SomeTexts ==
  {[hits |-> ("billing" :> 1 @@ "sales" :> 1), words |-> 5],
   [hits |-> ("billing" :> 1 @@ "sales" :> 2), words |-> 67]}

\* A flow with a way back, one that lost its first node, and one that is an end.
SomeGraphs ==
  {[nodes |-> {"greet", "ask", "end"}, entry |-> "greet", ends |-> {"end"},
    moves |-> {<<"greet", "ask">>, <<"ask", "greet">>, <<"ask", "end">>}],
   [nodes |-> {"ask", "end"}, entry |-> "ask", ends |-> {"end"}, moves |-> {<<"ask", "end">>}],
   [nodes |-> {"end"}, entry |-> "end", ends |-> {"end"}, moves |-> {}]}

\* Entries that share words, the last of another tenant.
EntryOwner(e) == IF e = 3 THEN "t2" ELSE "t1"
Asks(e) == IF e = 1 THEN {"refund"} ELSE {"refund", "order"}
Answers(e) == IF e = 1 THEN {"order"} ELSE {"days"}

\* Questions with an answer, with two, one that begins as the first, the last without.
SomeTranscripts ==
  {<<<<"user", "q1">>, <<"user", "hm">>, <<"assistant", "a1">>, <<"user", "q1">>,
     <<"user", "q2">>, <<"assistant", "a2">>, <<"user", "q3">>, <<"assistant", "a3">>,
     <<"user", "q4">>>>,
   <<<<"user", "q3">>, <<"user", "q1">>, <<"assistant", "a1">>, <<"user", "q4">>>>, <<>>}
FirstWords(text) == IF text \in {"q1", "q3"} THEN "could you please tell me how i" ELSE text

SomeFacts ==
  {[id |-> 1, score |-> 2, size |-> 4, category |-> "legal"],
   [id |-> 2, score |-> 3, size |-> 2, category |-> "none"],
   [id |-> 3, score |-> 2, size |-> 1, category |-> "medical"],
   [id |-> 4, score |-> 0, size |-> 1, category |-> "legal"]}
SomeDisclaimers ==
  {[for |-> "all", size |-> 1], [for |-> "legal", size |-> 2], [for |-> "medical", size |-> 3]}

UserOfSession(s) == "u1"

Call(t, steps, d, mood, topic, q) ==
  [tenant |-> t, events |-> steps, duration |-> d, mood |-> mood, topic |-> topic, question |-> q]
SomeCalls ==
  {Call("t1", <<"user", "allow", "agent", "end">>, 5, "positive", "billing", "q1"),
   Call("t1", <<"user", "user", "escalate">>, 700, "negative", "billing", "q2"),
   Call("t2", <<"user", "refuse", "agent", "escalate", "end">>, 30, "none", "general", "q1"),
   Call("t2", <<>>, 0, "none", "general", "q2")}

Turn(s, n, who) == [session |-> s, turn |-> n, speaker |-> who]
SomeTurns == {Turn("s1", 1, "user"), Turn("s1", 2, "assistant"), Turn("s2", 1, "user")}
Filter(labels, sessions, from, to) ==
  [labels |-> labels, sessions |-> sessions, from |-> from, to |-> to]
SomeFilters ==
  {Filter({}, {}, 0, 0), Filter({"good_response"}, {"s1"}, 0, 2),
   Filter({"needs_improvement", "neutral"}, {}, 2, 0)}

\* An agent's turn whose events do not count, and a script without turns.
Says(who, mood, decision) == [speaker |-> who, mood |-> mood, decision |-> decision]
SomeScripts ==
  {<<Says("agent", "calm", "allow"), Says("user", "angry", "escalate"),
     Says("user", "none", "allow")>>,
   <<Says("user", "calm", "none"), Says("agent", "none", "none")>>, <<>>}

Claimed(type, importance, status) ==
  [type |-> type, importance |-> importance, status |-> status]
SomeClaims ==
  {Claimed("fact", 3, "supported"), Claimed("fact", 5, "missing"),
   Claimed("fact", 3, "contradicted"), Claimed("fact", 4, "contradicted"),
   Claimed("opinion", 5, "contradicted"), Claimed("fact", 2, "mixed")}
==============================================================================

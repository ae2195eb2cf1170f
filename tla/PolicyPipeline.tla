--------------------------- MODULE PolicyPipeline ---------------------------
(* Lane C: the checks that every transcript runs through                     *)
(* (insurance/policy_gate.ts, opa_moderator.ts, opa_claims.ts), the decision *)
(* made of them (lanes/laneC_control.ts) and what the voice connection does  *)
(* with it (api/websocket.ts): the fallback it plays and the disclaimers it  *)
(* asks of Lane B (lanes/LaneB.ts). Each check is awaited, so evaluations    *)
(* of several transcripts are under way at once and one that is cut short    *)
(* overtakes another. A text is what the checks will find in it. `texts` and *)
(* `carried` are history.                                                    *)
EXTENDS Integers, Sequences, FiniteSets, SequencesExt

CONSTANTS Contents,     \* what may be in a text: sets of what the checks look for, with at
                        \* most one category and at most one claim
          MaxTexts,     \* bound: transcripts
          MaxResponses  \* bound: responses of the provider

VARIABLES opa,          \* an initialized OPA evaluator was configured
          texts,        \* the transcripts evaluated: [said, by, final, response]
          done,         \* checks run of an evaluation
          best,         \* its winning result so far
          decision,     \* what was emitted for it, or "none"
          last,         \* connection.lastPolicyDecision: an evaluation, or 0
          lane,         \* what the arbitrator plays
          mode,         \* the mode of the fallback last played, by its evaluation
          response, answer, \* the provider's last response: its number, how far it is
          responding,   \* LaneB.isResponding
          cancelling,   \* laneB.cancel() has not continued
          required,     \* requiredDisclaimerIds, by the evaluations they come from
          carried       \* the responses whose final transcript had a disclaimer appended

vars == <<opa, texts, done, best, decision, last, lane, mode,
          response, answer, responding, cancelling, required, carried>>
evaluation == <<opa, texts, done, best, decision, last, mode>>

Ids == 1..MaxTexts
Checks == <<"pii_redactor", "moderator", "claims_checker">>
Decisions == <<"allow", "rewrite", "refuse", "escalate", "cancel_output">>
Priority(d) == CHOOSE k \in DOMAIN Decisions : Decisions[k] = d
CancelThreshold == 4

Result(d, severity, disclaimer) == [decision |-> d, severity |-> severity, disclaimer |-> disclaimer]
Allow == Result("allow", 0, FALSE)

-----------------------------------------------------------------------------
(* The checks.                                                               *)

PIIFinds(t) == IF "pii" \in t.said THEN Result("rewrite", 3, FALSE) ELSE Allow

\* A category has its own decision and severity; those OPA finds are all severe.
ModeratorFinds(t) ==
  CASE "self_harm" \in t.said -> Result("escalate", 4, FALSE)
    [] "hate" \in t.said      -> Result("refuse", 4, FALSE)
    [] "illegal" \in t.said   -> Result("refuse", IF opa THEN 4 ELSE 3, FALSE)
    [] OTHER                  -> Allow

\* Without OPA only the final transcripts of the assistant are looked at. With OPA
\* everybody's are, and a text that is like no approved claim is refused.
ClaimsFinds(t) ==
  IF opa THEN IF "approved" \in t.said THEN Allow ELSE Result("refuse", 3, FALSE)
  ELSE IF t.by # "assistant" \/ ~t.final THEN Allow
  ELSE CASE "disallowed" \in t.said -> Result("rewrite", 3, TRUE)
         [] "partial" \in t.said    -> Result("rewrite", 2, TRUE)
         [] "approved" \in t.said   -> Result("allow", 0, TRUE)
         [] OTHER                   -> Result("allow", 1, FALSE)

Finds(check, t) ==
  CASE check = "pii_redactor"   -> PIIFinds(t)
    [] check = "moderator"      -> ModeratorFinds(t)
    [] check = "claims_checker" -> ClaimsFinds(t)

\* The gate's order of results; the first of two equal ones wins.
Outranks(a, b) ==
  \/ Priority(a.decision) > Priority(b.decision)
  \/ a.decision = b.decision /\ a.severity > b.severity

\* Mutant: the first check that objects decides.
TerminalAtOnce(r) == r.decision # "allow"

\* After this result the gate runs no further check.
Terminal(r) ==
  \/ r.decision = "cancel_output"
  \/ r.severity >= 4 /\ r.decision \in {"refuse", "escalate"}

\* OverrideController.act
Effective(r) ==
  IF r.severity >= CancelThreshold /\ r.decision \in {"refuse", "escalate"}
  THEN "cancel_output" ELSE r.decision

\* resolveFallbackMode, which the fallback planner follows in its mode "auto".
FallbackMode(d) ==
  CASE d = "escalate" -> "escalate_to_human"
    [] d \in {"refuse", "cancel_output"} -> "refuse_politely"
    [] d = "rewrite" -> "ask_clarifying_question"
    [] OTHER -> "refuse_politely"

Veto(d) == d \in {"cancel_output", "refuse", "escalate"}

-----------------------------------------------------------------------------
Init ==
  /\ opa \in BOOLEAN
  /\ texts = <<>>
  /\ done = [e \in Ids |-> 0] /\ best = [e \in Ids |-> Allow]
  /\ decision = [e \in Ids |-> "none"]
  /\ last = 0 /\ lane = "other" /\ mode = [e \in Ids |-> "none"]
  /\ response = 0 /\ answer = "over" /\ responding = FALSE /\ cancelling = FALSE
  /\ required = {} /\ carried = [e \in Ids |-> {}]

\* A transcript on the bus starts an evaluation.
Evaluate(by, final, said) ==
  /\ lane # "ended"
  /\ Len(texts) < MaxTexts
  /\ texts' = Append(texts, [said |-> said, by |-> by, final |-> final, response |-> response])

UserTranscript(said) ==
  /\ Evaluate("user", TRUE, said)
  /\ UNCHANGED <<opa, done, best, decision, last, lane, mode,
                 response, answer, responding, cancelling, required, carried>>

\* A transcript of Lane B, which appends what is required to a final one before anybody
\* else sees it, if it believes that a response is under way. The provider transcribes a
\* response piece by piece and then, once, as a whole.
AssistantTranscript(said, final) ==
  /\ answer = "spoken"
  /\ Evaluate("assistant", final, said)
  /\ IF final /\ responding
     THEN /\ carried' = [e \in Ids |-> IF e \in required THEN carried[e] \union {response}
                                                         ELSE carried[e]]
          /\ required' = {}
     ELSE UNCHANGED <<carried, required>>
  /\ answer' = IF final THEN "written" ELSE answer
  /\ UNCHANGED <<opa, done, best, decision, last, lane, mode, response, responding, cancelling>>

ResponseStarts ==
  /\ lane # "ended"
  /\ response < MaxResponses
  /\ answer = "over"
  /\ response' = response + 1
  /\ answer' = "spoken"
  /\ responding' = TRUE
  /\ UNCHANGED <<evaluation, lane, cancelling, required, carried>>

\* The end of a response, which may come after it was cancelled.
ResponseEnds ==
  /\ answer # "over"
  /\ answer' = "over"
  /\ responding' = FALSE
  /\ required' = {}
  /\ UNCHANGED <<evaluation, lane, response, cancelling, carried>>

\* laneB.cancel() goes on after its await.
CancelGoesOn ==
  /\ cancelling
  /\ cancelling' = FALSE
  /\ responding' = FALSE
  /\ required' = {}
  /\ UNCHANGED <<evaluation, lane, response, answer, carried>>

-----------------------------------------------------------------------------
Underway(e) == e <= Len(texts) /\ decision[e] = "none"
Decided(e) == Terminal(best[e]) \/ done[e] = Len(Checks)

\* The next check of PolicyGate.evaluate.
RunCheck(e) ==
  /\ Underway(e)
  /\ ~Decided(e)
  /\ LET r == Finds(Checks[done[e] + 1], texts[e])
     IN  best' = [best EXCEPT ![e] = IF Outranks(r, @) THEN r ELSE @]
  /\ done' = [done EXCEPT ![e] = @ + 1]
  /\ UNCHANGED <<opa, texts, decision, last, lane, mode,
                 response, answer, responding, cancelling, required, carried>>

\* onPolicyCancel of the arbitrator, with play_fallback and stop_lane_b as the connection
\* obeys them: a fallback that plays goes on, any other is planned from the last decision.
PolicyCancel(e) ==
  IF lane = "fallback"
  THEN cancelling' = TRUE /\ UNCHANGED <<lane, mode>>
  ELSE /\ cancelling' \in {cancelling, TRUE}
       /\ lane' = "fallback"
       /\ mode' = [mode EXCEPT ![e] = FallbackMode(decision'[last'])]

\* The end of ControlEngine.evaluate: the override controller emits the decision, and
\* policyDecisionHandler acts on it unless the connection is gone.
Decide(e) ==
  /\ Underway(e)
  /\ Decided(e)
  /\ decision' = [decision EXCEPT ![e] = Effective(best[e])]
  /\ IF lane = "ended"
     THEN UNCHANGED <<last, lane, mode, cancelling, required>>
     ELSE /\ last' = e
          /\ required' = IF best[e].disclaimer THEN required \union {e} ELSE required
          /\ IF Veto(decision'[e]) THEN PolicyCancel(e)
             ELSE UNCHANGED <<lane, mode, cancelling>>
  /\ UNCHANGED <<opa, texts, done, best, response, answer, responding, carried>>

\* The fallback has been played, or the user spoke.
FallbackEnds ==
  /\ lane = "fallback"
  /\ lane' = "other"
  /\ UNCHANGED <<evaluation, response, answer, responding, cancelling, required, carried>>

SessionEnds ==
  /\ lane # "ended"
  /\ lane' = "ended"
  /\ UNCHANGED <<evaluation, response, answer, responding, cancelling, required, carried>>

Next ==
  \/ \E said \in Contents :
       \/ UserTranscript(said)
       \/ \E final \in BOOLEAN : AssistantTranscript(said, final)
  \/ ResponseStarts \/ ResponseEnds \/ CancelGoesOn
  \/ \E e \in Ids : RunCheck(e) \/ Decide(e)
  \/ FallbackEnds \/ SessionEnds

Spec == Init /\ [][Next]_vars

-----------------------------------------------------------------------------
Findings(t) == {Finds(Checks[k], t) : k \in DOMAIN Checks}

\* The decision about a text is the gravest that any of the checks would reach on it,
\* those the gate did not get to included, whatever was found first and however its
\* evaluation was overtaken.
GravestDecides ==
  \A e \in 1..Len(texts) :
    decision[e] # "none" =>
      \E r \in Findings(texts[e]) :
        /\ \A other \in Findings(texts[e]) : ~Outranks(other, r)
        /\ decision[e] = Effective(r)

\* A fallback is planned from the veto that called for it, not from one that another
\* evaluation emitted meanwhile.
FallbackFitsVeto ==
  \A e \in Ids : mode[e] # "none" => Veto(decision[e]) /\ mode[e] = FallbackMode(decision[e])

\* No response carries the disclaimer that its own words require, although LaneB.ts asks
\* for it to be appended to "the next assistant response": by the time it is required
\* its transcript has been sent, and what waits is erased by the end of the response or
\* left to the transcript of a later one.
OwnDisclaimerMissed == \A e \in 1..Len(texts) : texts[e].response \notin carried[e]

Governed == GravestDecides /\ FallbackFitsVeto /\ OwnDisclaimerMissed

\* docs/API.md:682 says that self-harm makes the fallback planner hand the caller over
\* to a human, and moderation_patterns.ts:137 that it must.
HandedOff ==
  \A e \in 1..Len(texts) :
    "self_harm" \in texts[e].said /\ mode[e] # "none" => mode[e] = "escalate_to_human"
=============================================================================

------------------------------ MODULE AbTests -------------------------------
(* A/B tests of agents: services/AgentAbTestService.ts and the routes of      *)
(* api/abtests.ts, for one test that is created, deleted and created again.   *)
(* A share of 1000 buckets goes to variant A; Bucket gives the one that the   *)
(* hash of a session's name falls into. The file holds the data whole, so a   *)
(* restart, or a write that failed before one, only returns the service to a  *)
(* state it was in: it is left out.                                           *)
EXTENDS FiniteSets, Functions

CONSTANTS Sessions,
          Bucket(_),    \* the hash of a session's name
          Scores        \* the quality scores that are reported

VARIABLES test,         \* [status, winner, min, share] of the test, or NoTest
          variant,      \* the sessions' variants; "" without an assignment
          score,        \* the sessions' quality scores, or Unscored
          touched       \* history: the verdict was overruled, or the data it was
                        \* reached by changed

vars == <<test, variant, score, touched>>

NoTest == [status |-> "none", winner |-> "none", min |-> 0, share |-> 0]
\* A score that no report can bring.
Unscored == 1000000

Init ==
  /\ test = NoTest
  /\ variant = [s \in Sessions |-> ""]
  /\ score = [s \in Sessions |-> Unscored]
  /\ touched = FALSE

-----------------------------------------------------------------------------
\* hashVariant.
HashVariant(s) == IF Bucket(s) < test.share THEN "A" ELSE "B"

\* The route refuses a ratio outside of 0..1, and takes any number of samples.
PostTest(min, share) ==
  /\ test = NoTest
  /\ share \in 0..1000
  /\ test' = [status |-> "active", winner |-> "none", min |-> min, share |-> share]
  /\ touched' = FALSE
  /\ UNCHANGED <<variant, score>>

\* Assigned once, by the test's name or as the first active test of a tenant.
AssignSession(s) ==
  /\ test.status = "active"
  /\ variant[s] = ""
  /\ variant' = [variant EXCEPT ![s] = HashVariant(s)]
  /\ touched' = TRUE
  /\ UNCHANGED <<test, score>>

\* Scores are taken as long as the test exists, whatever its status.
RecordMetrics(s, q) ==
  /\ variant[s] # ""
  /\ score' = [score EXCEPT ![s] = q]
  /\ touched' = TRUE
  /\ UNCHANGED <<test, variant>>

-----------------------------------------------------------------------------
\* computeVariantStats: the sessions that count, and the sum of their scores. An average is
\* Total / Cardinality(Scored), and null without any.
Scored(v) == {s \in Sessions : variant[s] = v /\ score[s] # Unscored}
Total(v) == SumFunctionOnSet(score, Scored(v))

\* Mutant: the totals are compared, not the averages.
SuggestionByTotals ==
  IF Cardinality(Scored("A")) < test.min \/ Cardinality(Scored("B")) < test.min
  THEN "insufficient_data"
  ELSE IF Total("A") > Total("B") THEN "A" ELSE "none"

\* computeWinnerSuggestion: averages less than two points apart are a draw. Formatting the
\* average of no scores throws.
WinnerSuggestion ==
  LET nA == Cardinality(Scored("A"))
      nB == Cardinality(Scored("B"))
      a == Total("A") * nB
      b == Total("B") * nA
      margin == 2 * nA * nB
  IN  CASE nA < test.min \/ nB < test.min -> "insufficient_data"
        [] nA >= test.min /\ nB >= test.min /\ nA * nB = 0 -> "error"
        [] OTHER -> IF a < b + margin /\ b < a + margin THEN "none"
                    ELSE IF a > b THEN "A" ELSE "B"

\* getReport, which the route GET /abtests/:testId answers with.
Report == IF test = NoTest THEN "undefined" ELSE WinnerSuggestion

\* concludeTest, for a test in any state.
Conclude ==
  /\ Report \notin {"undefined", "error"}
  /\ test' = [test EXCEPT !.status = "concluded",
                          !.winner = IF Report = "insufficient_data" THEN "none" ELSE Report]
  /\ touched' = FALSE
  /\ UNCHANGED <<variant, score>>

\* The route takes a winner only if it is one of three words.
PostConclude(winner) ==
  \/ winner \notin {"A", "B", "none"} /\ Conclude
  \/ /\ winner \in {"A", "B", "none"}
     /\ test # NoTest
     /\ test' = [test EXCEPT !.status = "concluded", !.winner = winner]
     /\ touched' = TRUE
     /\ UNCHANGED <<variant, score>>

\* A test that was concluded obeys these as well, and keeps its winner.
PauseTest ==
  /\ test # NoTest
  /\ test' = [test EXCEPT !.status = "paused"]
  /\ UNCHANGED <<variant, score, touched>>

ResumeTest ==
  /\ test # NoTest
  /\ test' = [test EXCEPT !.status = "active"]
  /\ UNCHANGED <<variant, score, touched>>

DeleteTest ==
  /\ test # NoTest
  /\ test' = NoTest
  /\ variant' = [s \in Sessions |-> ""]
  /\ score' = [s \in Sessions |-> Unscored]
  /\ UNCHANGED touched

Next ==
  \/ \E min \in {0, 1}, share \in {0, 500, 1000, 1001} : PostTest(min, share)
  \/ \E s \in Sessions : AssignSession(s) \/ \E q \in Scores : RecordMetrics(s, q)
  \/ \E winner \in {"A", "B", "none", "maybe"} : PostConclude(winner)
  \/ PauseTest \/ ResumeTest \/ DeleteTest

Spec == Init /\ [][Next]_vars

-----------------------------------------------------------------------------
\* A verdict that was neither overruled nor overtaken is borne out by the scores: each side
\* has as many as were asked for, the winner's average is the higher one, and some session
\* of the winner did better by two points than one of the loser.
VerdictIsEarned ==
  LET lead(v, w) == \E s \in Scored(v), r \in Scored(w) : score[s] >= score[r] + 2
      enough == \A v \in {"A", "B"} : Cardinality(Scored(v)) >= test.min
  IN  ~touched /\ test.winner \in {"A", "B"} =>
        LET loser == IF test.winner = "A" THEN "B" ELSE "A"
        IN  enough /\ lead(test.winner, loser)
              /\ Total(test.winner) * Cardinality(Scored(loser))
                   > Total(loser) * Cardinality(Scored(test.winner))

\* The extreme shares send everybody to one side, a test that is gone leaves no session
\* behind, and whoever asks for at least one score on each side gets a report.
TestIsWhole ==
  /\ test.share = 0 => \A s \in Sessions : variant[s] # "A"
  /\ test.share = 1000 => \A s \in Sessions : variant[s] # "B"
  /\ test = NoTest => \A s \in Sessions : variant[s] = "" /\ score[s] = Unscored
  /\ test.min > 0 => Report # "error"

AbTestsSound == VerdictIsEarned /\ TestIsWhole
=============================================================================

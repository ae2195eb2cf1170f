--------------------------- MODULE HealthMonitor ---------------------------
(* The periodic checks of the subsystems (services/HealthMonitorService.ts)  *)
(* and the probe that reads them (api/health.ts). A check remembers, across  *)
(* its await, the result it found when it began. `announced`, `overlapped`   *)
(* and `quiet` are history.                                                  *)
EXTENDS Naturals, FiniteSets

CONSTANTS Checks,       \* the subsystems
          Late,         \* the one that is registered after the monitor started
          Rounds,       \* runs of one check that may be under way at once
          MaxFailures   \* bound: consecutive failures that are told apart

VARIABLES threshold,    \* failureThreshold
          running,      \* the periodic loop
          known,        \* registered checks
          status, failures,   \* results: status and consecutiveFailures
          begun,        \* runs awaiting check(): what they found, by check and run
          announced,    \* the last transition announced of a check
          overlapped, quiet

vars == <<threshold, running, known, status, failures, begun, announced, overlapped, quiet>>

NotBegun == [seen |-> "none", failures |-> 0]

Init ==
  /\ threshold \in 1..2
  /\ running = FALSE
  /\ known = Checks \ {Late}
  /\ status = [c \in Checks |-> "unknown"]
  /\ failures = [c \in Checks |-> 0]
  /\ begun = [c \in Checks |-> [r \in Rounds |-> NotBegun]]
  /\ announced = [c \in Checks |-> "none"]
  /\ overlapped = {} /\ quiet = {}

UnderWay(c) == {r \in Rounds : begun[c][r] # NotBegun}

\* runAllChecks begins every registered check; it does not wait for the runs of the
\* interval before.
RunAllChecks ==
  /\ \A c \in known : UnderWay(c) # Rounds
  /\ begun' = [c \in Checks |->
       LET free == CHOOSE r \in Rounds : begun[c][r] = NotBegun
       IN  IF c \in known
           THEN [begun[c] EXCEPT ![free] = [seen |-> status[c], failures |-> failures[c]]]
           ELSE begun[c]]
  /\ overlapped' = overlapped \union {c \in known : UnderWay(c) # {}}
  /\ UNCHANGED <<status, failures, announced, quiet>>

Start ==
  /\ ~running
  /\ running' = TRUE
  /\ RunAllChecks
  /\ UNCHANGED <<threshold, known>>

Stop ==
  /\ running
  /\ running' = FALSE
  /\ UNCHANGED <<threshold, known, status, failures, begun, announced, overlapped, quiet>>

Interval ==
  /\ running
  /\ RunAllChecks
  /\ UNCHANGED <<threshold, running, known>>

\* registerCheck, of the voice server, once that is made.
RegisterCheck ==
  /\ Late \notin known
  /\ known' = known \union {Late}
  /\ UNCHANGED <<threshold, running, status, failures, begun, announced, overlapped, quiet>>

\* The rest of runCheck. A transition is announced only if the run did not begin with
\* "unknown", and failures are counted from what the run found when it began.
CheckEnds(c, r) ==
  LET prev == begun[c][r]
  IN  /\ prev # NotBegun
      /\ \E healthy \in BOOLEAN :
           LET count == IF healthy THEN 0 ELSE prev.failures + 1
           IN  /\ count <= MaxFailures
               /\ status' = [status EXCEPT ![c] = IF healthy THEN "healthy" ELSE "unhealthy"]
               /\ failures' = [failures EXCEPT ![c] = count]
               /\ announced' =
                    IF prev.seen = "unknown" THEN announced
                    ELSE IF count = threshold THEN [announced EXCEPT ![c] = "degraded"]
                    ELSE IF healthy /\ prev.failures >= threshold
                         THEN [announced EXCEPT ![c] = "recovered"]
                    ELSE announced
               /\ quiet' =
                    IF healthy THEN quiet \ {c}
                    ELSE IF prev.seen = "unknown" /\ count >= threshold THEN quiet \union {c}
                    ELSE quiet
      /\ begun' = [begun EXCEPT ![c][r] = NotBegun]
      /\ UNCHANGED <<threshold, running, known, overlapped>>

Next ==
  \/ Start \/ Stop \/ Interval \/ RegisterCheck
  \/ \E c \in Checks, r \in Rounds : CheckEnds(c, r)

Spec == Init /\ [][Next]_vars

-----------------------------------------------------------------------------
Unhealthy == {c \in known : status[c] = "unhealthy"}

\* getOverallStatus; an unknown check counts as a healthy one.
OverallStatus ==
  IF Unhealthy = {} THEN "healthy" ELSE IF Unhealthy = known THEN "down" ELSE "degraded"

\* GET /health/ready
Ready == OverallStatus # "down"

\* The last announcement of a check tells its state: a check that has failed
\* `threshold` times in a row was announced as degraded and no other was. A check that
\* reached the threshold by its very first run never is, and runs of a check that
\* overlap may lose or repeat an announcement.
AnnouncementsTellState ==
  \A c \in known \ overlapped :
    c \notin quiet => (announced[c] = "degraded" <=> failures[c] >= threshold)

\* A server that answers "not ready" has failing checks only, and if one failure is
\* enough to announce, each of them was announced or failed from its first run on.
NotReadyIsKnown ==
  ~Ready => \A c \in known \ overlapped :
              /\ failures[c] > 0
              /\ threshold = 1 => c \in quiet \/ announced[c] = "degraded"

Announced == AnnouncementsTellState /\ NotReadyIsKnown
=============================================================================

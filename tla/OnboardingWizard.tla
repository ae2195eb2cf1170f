-------------------------- MODULE OnboardingWizard --------------------------
(* The onboarding of a tenant: the page (api/onboardingWizardHtml.ts), its   *)
(* routes (api/onboarding.ts) and the session they keep                      *)
(* (services/OnboardingWizardService.ts). A request says neither which step  *)
(* it is about nor which state of the session it was sent in; the page       *)
(* counts its panels for itself and lets the user click again while a        *)
(* request is under way. Requests overtake each other. `disturbed` is        *)
(* history.                                                                  *)
EXTENDS Naturals, FiniteSets

CONSTANTS Last,         \* the number of steps, 5 in the code
          MaxRequests,  \* bound: requests under way at once
          MaxFailures   \* bound: saves that fail, and restarts of the server

VARIABLES current, status, from,        \* the session: its step, and of each step its
                                        \* status and the panel its data came from
          disk,
          panel,        \* what the page shows
          requests,     \* requests and answers under way
          failures,
          disturbed     \* two requests were under way at once, or one failed

session == <<current, status, from>>
vars == <<session, disk, panel, requests, failures, disturbed>>

\* The steps in their order, from "tenant_registration" to "test_call", then "complete".
Steps == 1..Last
Complete == Last + 1
Optional == 2..(Last - 1)   \* steps whose payload may say nothing
Nobody == 0
Fresh == <<1, [s \in Steps |-> "pending"], [s \in Steps |-> Nobody]>>

Init ==
  /\ current = Fresh[1] /\ status = Fresh[2] /\ from = Fresh[3]
  /\ disk = Fresh
  /\ panel = 1 /\ requests = {} /\ failures = 0 /\ disturbed = FALSE

-----------------------------------------------------------------------------
(* The service.                                                              *)

\* validatePayload for what a panel collects: the fields of another step do not count.
Valid(step, p) == step \in Optional \/ step = p

CompleteStep(p) ==
  /\ current' = current + 1
  /\ status' = [status EXCEPT ![current] = "complete"]
  /\ from' = [from EXCEPT ![current] = p]

SkipStep ==
  /\ current' = current + 1
  /\ status' = [status EXCEPT ![current] = "skipped"]
  /\ UNCHANGED from

GoBack ==
  LET prev == IF current = 1 THEN 1 ELSE current - 1
  IN  /\ current' = prev
      /\ status' = [status EXCEPT ![prev] = IF @ = "pending" THEN @ ELSE "in_progress"]
      /\ UNCHANGED from

\* An answer says nothing of the panel that its request was about.
Answering(r, stage) ==
  requests' = (requests \ {r}) \union {[r EXCEPT !.stage = stage, !.panel = Nobody]}

\* save() may throw when the session has been changed already; the route answers 400.
Save(r) ==
  \/ /\ disk' = <<current', status', from'>>
     /\ Answering(r, "ok")
     /\ UNCHANGED <<failures, disturbed>>
  \/ /\ failures < MaxFailures
     /\ failures' = failures + 1
     /\ Answering(r, "refused")
     /\ disturbed' = TRUE
     /\ UNCHANGED disk

\* A request that changes nothing is answered with the session, or refused.
Answer(r, stage) ==
  /\ Answering(r, stage)
  /\ UNCHANGED <<session, disk, failures, disturbed>>

Handle(r) ==
  /\ r.stage = "sent"
  /\ \/ /\ r.does = "complete" /\ current # Complete /\ Valid(current, r.panel)
        /\ CompleteStep(r.panel) /\ Save(r)
     \/ /\ r.does = "complete" /\ current # Complete /\ ~Valid(current, r.panel)
        /\ Answer(r, "refused")
     \/ r.does = "skip" /\ current # Complete /\ SkipStep /\ Save(r)
     \/ r.does # "back" /\ current = Complete /\ Answer(r, "ok")
     \/ r.does = "back" /\ GoBack /\ Save(r)
  /\ UNCHANGED panel

ResetSession ==
  /\ current' = Fresh[1] /\ status' = Fresh[2] /\ from' = Fresh[3]
  /\ disk' = Fresh
  /\ disturbed' = (disturbed \/ panel # 1 \/ requests # {})
  /\ UNCHANGED <<panel, requests, failures>>

Restart ==
  /\ failures < MaxFailures
  /\ failures' = failures + 1
  /\ current' = disk[1] /\ status' = disk[2] /\ from' = disk[3]
  /\ UNCHANGED <<disk, panel, requests, disturbed>>

-----------------------------------------------------------------------------
(* The page. "complete" is sent from a panel with what that panel collects.  *)

Send(does, n) ==
  /\ panel # Complete
  /\ does = "back" => panel > 1
  /\ ~\E r \in requests : r.n = n
  /\ \A m \in 1..(n - 1) : \E r \in requests : r.n = m
  /\ requests' = requests \union {[does |-> does, panel |-> panel, n |-> n, stage |-> "sent"]}
  /\ disturbed' = (disturbed \/ requests # {})
  /\ UNCHANGED <<session, disk, panel, failures>>

\* The answer moves the panel by one from where it is by then.
Answered(r) ==
  /\ r.stage \in {"ok", "refused"}
  /\ requests' = requests \ {r}
  /\ panel' = IF r.stage = "refused" \/ panel = Complete THEN panel
              ELSE IF r.does = "back" THEN IF panel > 1 THEN panel - 1 ELSE panel
              ELSE panel + 1
  /\ UNCHANGED <<session, disk, failures, disturbed>>

\* The page is loaded again and asks for the session.
Reload ==
  /\ panel' = current
  /\ requests' = {r \in requests : r.stage = "sent"}
  /\ UNCHANGED <<session, disk, failures, disturbed>>

Next ==
  \/ \E n \in 1..MaxRequests, does \in {"complete", "skip", "back"} : Send(does, n)
  \/ \E r \in requests : Handle(r) \/ Answered(r)
  \/ ResetSession \/ Restart \/ Reload

Spec == Init /\ [][Next]_vars

-----------------------------------------------------------------------------
\* Whatever is sent twice or arrives late, and whichever saves fail: every step before
\* the current one is settled, so a complete session has no step left over; and only a
\* step with nothing to require can hold what another panel collected.
StepsAreSettled ==
  /\ \A s \in Steps : s < current => status[s] \in {"complete", "skipped"}
  /\ \A s \in Steps \ Optional : from[s] \in {Nobody, s}

\* The page and the session agree as long as one request follows the other's answer.
\* One click too many, and panels fill the steps of their neighbours.
PageAgrees ==
  ~disturbed => /\ requests = {} => panel = current
                /\ \A s \in Steps : from[s] \in {Nobody, s}

Onboarded == StepsAreSettled /\ PageAgrees
=============================================================================

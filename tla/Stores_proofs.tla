--------------------------- MODULE Stores_proofs ---------------------------
(* Proofs about what the server keeps: flows, personas and templates, the     *)
(* onboarding, versions of agents, voices and the tenants' administration,    *)
(* for any sets of sessions, tenants, agents, callers and items, any number   *)
(* of keys, requests and versions, and any writes that fail. Each store has   *)
(* an inductive invariant of its own; a step of the stores is one of each, or *)
(* leaves that one alone. The stores that answer with a choice are proved in  *)
(* Choices_proofs, and what is kept of calls in Records_proofs; here, that    *)
(* they do the same among the others.                                         *)
EXTENDS Stores, Records_proofs

FlowStep == [Flow!Next]_flowVars
OfferStep == [Offered!Next]_offerVars
VoiceStep == [Voice!Next]_voiceVars
WizardStep == [Onboarding!Next]_wizardVars
VersionStep == [Versions!Next]_versionVars
RegistryStep == [Registry!Next]_registryVars

\* A step of the stores is one of each part, or leaves that part alone.
LEMMA PartsStep ==
  [Next]_vars => /\ FlowStep /\ OfferStep /\ VoiceStep /\ WizardStep /\ VersionStep
                 /\ RegistryStep
<1> SUFFICES ASSUME [Next]_vars
             PROVE  /\ FlowStep /\ OfferStep /\ VoiceStep /\ WizardStep /\ VersionStep
                    /\ RegistryStep
  OBVIOUS
<1>1. CASE Next
  BY <1>1 DEF Next, FlowStep, OfferStep, VoiceStep, WizardStep, VersionStep, RegistryStep,
    Registry!Next
<1>2. CASE UNCHANGED vars
  BY <1>2 DEF vars, FlowStep, OfferStep, VoiceStep, WizardStep, VersionStep, RegistryStep
<1> QED
  BY <1>1, <1>2

-----------------------------------------------------------------------------
(* Conversation flows.                                                        *)

Contents(N) ==
  [nodes : SUBSET N, entry : N, ends : SUBSET N, moves : SUBSET (N \X N)]

\* Who has not started is not over, and what can be read again can be started too.
FlowInv(N) ==
  /\ {flow, flowDisk} \subseteq Contents(N) \union {NoFlow}
  /\ flowAt \in [Sessions -> N \union {NoNode}]
  /\ ended \subseteq Flow!Started
  /\ Flow!FlowsSound
  /\ flowDisk # NoFlow /\ ~dangling => flowDisk.entry \in flowDisk.nodes

LEMMA FlowKeepsInv ==
  ASSUME NEW N, NoNode \notin N, Graphs \subseteq Contents(N), FlowInv(N), FlowStep
  PROVE  FlowInv(N)'
<1>1. ASSUME NEW g \in Graphs, Flow!CreateFlow(g) PROVE FlowInv(N)'
  BY <1>1 DEF Flow!CreateFlow, Flow!Save, Flow!ValidEntry, FlowInv, Flow!FlowsSound,
    Flow!SessionsStandSomewhere, Flow!EntryUnlessDangling, Flow!Started
<1>2. ASSUME NEW g \in Graphs, NEW given \in BOOLEAN, Flow!UpdateFlow(g, given)
      PROVE  FlowInv(N)'
  <2>1. flow' \in Contents(N) /\ (given => flow' = g)
    BY <1>2 DEF Flow!UpdateFlow, FlowInv, Contents
  <2> QED
    BY <1>2, <2>1 DEF Flow!UpdateFlow, Flow!Save, Flow!ValidEntry, FlowInv, Flow!FlowsSound,
      Flow!SessionsStandSomewhere, Flow!EntryUnlessDangling, Flow!Started
<1>3. CASE Flow!DeleteFlow
  BY <1>3 DEF Flow!DeleteFlow, Flow!Save, FlowInv, Flow!FlowsSound,
    Flow!SessionsStandSomewhere, Flow!EntryUnlessDangling, Flow!Started
<1>4. ASSUME NEW s \in Sessions, Flow!StartSession(s) PROVE FlowInv(N)'
  <2>1. flow.entry \in N /\ flow.entry # NoNode
    BY <1>4 DEF Flow!StartSession, FlowInv, Contents
  <2> QED
    BY <1>4, <2>1 DEF Flow!StartSession, FlowInv, Flow!FlowsSound,
      Flow!SessionsStandSomewhere, Flow!EntryUnlessDangling, Flow!Started
<1>5. ASSUME NEW s \in Sessions, Flow!Advance(s) PROVE FlowInv(N)'
  <2>1. PICK n \in flow.nodes :
          /\ flowAt' = [flowAt EXCEPT ![s] = n]
          /\ ended' = IF n \in flow.ends THEN ended \union {s} ELSE ended
    BY <1>5 DEF Flow!Advance
  <2>2. n \in N /\ n # NoNode /\ flow # NoFlow /\ s \notin ended
    BY <1>5 DEF Flow!Advance, FlowInv, Contents
  <2> QED
    BY <1>5, <2>1, <2>2 DEF Flow!Advance, FlowInv, Flow!FlowsSound,
      Flow!SessionsStandSomewhere, Flow!EntryUnlessDangling, Flow!Started
<1>6. CASE Flow!Restart
  BY <1>6 DEF Flow!Restart, FlowInv, Flow!FlowsSound,
    Flow!SessionsStandSomewhere, Flow!EntryUnlessDangling, Flow!Started
<1>7. CASE UNCHANGED flowVars
  BY <1>7 DEF flowVars, FlowInv, Flow!FlowsSound,
    Flow!SessionsStandSomewhere, Flow!EntryUnlessDangling, Flow!Started
<1> QED
  BY <1>1, <1>2, <1>3, <1>4, <1>5, <1>6, <1>7 DEF FlowStep, Flow!Next

LEMMA FlowsBegin == ASSUME NEW N, Flow!Init PROVE FlowInv(N)
BY DEF Flow!Init, FlowInv, Flow!FlowsSound, Flow!SessionsStandSomewhere,
  Flow!EntryUnlessDangling, Flow!Started

-----------------------------------------------------------------------------
(* Personas and templates.                                                    *)

\* What a tenant is assigned was there once.
OfferInv ==
  /\ assigned \in [Tenants -> Personas \union {Offered!BuiltIn, "none"}]
  /\ persona \in [Personas -> Offered!Owners \union {"unborn", "gone"}]
  /\ template \in [Templates -> [tenant : Offered!Owners \union {"none"}, published : BOOLEAN]]
  /\ \A t \in Tenants :
       assigned[t] \in Personas \ {Offered!BuiltIn, "none"} =>
         persona[assigned[t]] \in Offered!Owners \union {"gone"}
  /\ Offered!MarketplaceIsAsked

LEMMA OffersKeepInv ==
  ASSUME Offered!BuiltIn \notin Templates, OfferInv, OfferStep
  PROVE  OfferInv'
<1> USE DEF OfferInv, Offered!MarketplaceIsAsked, Offered!ListMarketplace
<1>1. ASSUME NEW p \in Personas, NEW o \in Offered!Owners,
             Offered!PostPersona(p, o) \/ Offered!PutPersona(p, o)
      PROVE  OfferInv'
  BY <1>1 DEF Offered!PostPersona, Offered!CreatePersona, Offered!PutPersona,
    Offered!UpdatePersona
<1>2. ASSUME NEW p \in Personas, Offered!DeletePersonaRoute(p) PROVE OfferInv'
  BY <1>2 DEF Offered!DeletePersonaRoute, Offered!DeletePersona
<1>3. ASSUME NEW t \in Tenants, Offered!DeleteTenantPersona(t) PROVE OfferInv'
  BY <1>3 DEF Offered!DeleteTenantPersona
<1>4. ASSUME NEW t \in Tenants, NEW p \in Personas \union {Offered!BuiltIn},
             Offered!PostTenantPersona(t, p)
      PROVE  OfferInv'
  BY <1>4 DEF Offered!PostTenantPersona, Offered!AssignPersonaToTenant, Offered!GetPersona,
    Offered!IsBuiltIn
<1> DEFINE Owned == [tenant : Offered!Owners \union {"none"}, published : BOOLEAN]
<1>5. ASSUME NEW x \in Templates, NEW o \in Offered!Owners,
             Offered!PostTemplate(x, o) \/ Offered!PutTemplate(x, o)
      PROVE  OfferInv'
  <2>1. PICK pub \in BOOLEAN :
          /\ template' = [template EXCEPT ![x] = [tenant |-> o, published |-> pub]]
          /\ pub => template[x].published
    <3>1. template[x] \in Owned
      OBVIOUS
    <3>2. [template[x] EXCEPT !.tenant = o] = [tenant |-> o, published |-> template[x].published]
      BY <3>1
    <3>3. CASE Offered!PostTemplate(x, o)
      BY <3>3 DEF Offered!PostTemplate, Offered!CreateTemplate
    <3>4. CASE Offered!PutTemplate(x, o)
      BY <3>1, <3>2, <3>4 DEF Offered!PutTemplate
    <3> QED
      BY <1>5, <3>3, <3>4
  <2> QED
    BY <1>5, <2>1 DEF Offered!PostTemplate, Offered!CreateTemplate, Offered!PutTemplate
<1>6. ASSUME NEW x \in Templates,
             \/ Offered!DeleteTemplate(x)
             \/ Offered!PublishTemplate(x) \/ Offered!UnpublishTemplate(x)
      PROVE  OfferInv'
  <2>1. template[x] \in Owned /\ Offered!Absent \in Owned /\ ~Offered!Absent.published
    BY DEF Offered!Absent
  <2>2. CASE Offered!DeleteTemplate(x)
    BY <2>1, <2>2 DEF Offered!DeleteTemplate
  <2>3. ASSUME NEW pub \in BOOLEAN,
               template' = [template EXCEPT ![x].published = pub],
               offerAsked' = IF pub THEN offerAsked \union {x} ELSE offerAsked \ {x},
               UNCHANGED <<persona, assigned>>
        PROVE  OfferInv'
    <3>1. template' = [template EXCEPT ![x] = [tenant |-> template[x].tenant, published |-> pub]]
      <4>1. [template[x] EXCEPT !.published = pub]
              = [tenant |-> template[x].tenant, published |-> pub]
        BY <2>1
      <4> QED
        BY <2>3, <4>1
    <3> QED
      BY <2>1, <2>3, <3>1
  <2>4. CASE Offered!PublishTemplate(x)
    BY <2>3, <2>4 DEF Offered!PublishTemplate
  <2>5. CASE Offered!UnpublishTemplate(x)
    BY <2>3, <2>5 DEF Offered!UnpublishTemplate
  <2> QED
    BY <1>6, <2>2, <2>4, <2>5
<1>7. ASSUME NEW x \in Templates, NEW s \in Templates \union {Offered!BuiltIn},
             NEW t \in Tenants, Offered!InstallTemplate(s, x, t)
      PROVE  OfferInv'
  BY <1>7 DEF Offered!InstallTemplate, Offered!CreateTemplate, Offered!Owners
<1>8. CASE UNCHANGED offerVars
  BY <1>8 DEF offerVars
<1> QED
  BY <1>1, <1>2, <1>3, <1>4, <1>5, <1>6, <1>7, <1>8 DEF OfferStep, Offered!Next

LEMMA OffersBegin ==
  ASSUME Offered!BuiltIn \notin Templates, Offered!Init
  PROVE  OfferInv
<1>1. /\ persona = [p \in Personas |-> "unborn"] /\ assigned = [t \in Tenants |-> "none"]
      /\ template = [x \in Templates |-> Offered!Absent] /\ offerAsked = {}
  BY DEF Offered!Init
<1>2. /\ Offered!Absent \in [tenant : Offered!Owners \union {"none"}, published : BOOLEAN]
      /\ ~Offered!Absent.published
  BY DEF Offered!Absent
<1>3. template \in [Templates -> [tenant : Offered!Owners \union {"none"}, published : BOOLEAN]]
  BY <1>1, <1>2
<1>4. \A x \in Templates : ~template[x].published
  BY <1>1, <1>2
<1>5. Offered!MarketplaceIsAsked
  BY <1>1, <1>4 DEF Offered!MarketplaceIsAsked, Offered!ListMarketplace
<1> QED
  BY <1>1, <1>3, <1>5 DEF OfferInv

LEMMA OffersAreSound ==
  OfferInv => Offered!OfferingsSound
BY DEF OfferInv, Offered!OfferingsSound, Offered!PersonaInForce, Offered!GetTenantPersona,
  Offered!GetPersona, Offered!IsBuiltIn

-----------------------------------------------------------------------------
(* The onboarding.                                                            *)

\* A session at step c has settled the steps before it, and holds foreign data only where
\* a step requires nothing.
Settled(c, s, f) ==
  /\ c \in 1..Onboarding!Complete
  /\ s \in [Onboarding!Steps -> {"pending", "in_progress", "complete", "skipped"}]
  /\ f \in [Onboarding!Steps -> Nat]
  /\ \A k \in Onboarding!Steps : k < c => s[k] \in {"complete", "skipped"}
  /\ \A k \in Onboarding!Steps \ Onboarding!Optional : f[k] \in {Onboarding!Nobody, k}

\* A request of the page, with the step it was sent from.
Exchanges ==
  [does : {"complete", "skip", "back"}, panel : Nat, n : Nat, stage : {"sent", "ok", "refused"}]

\* Undisturbed, one request is under way at most, from the step the page shows; and the
\* session is where the page is once it has the answer.
Follows(r) ==
  /\ r.stage = "sent" => r.panel = panel /\ panel = wizardCurrent /\ panel # Onboarding!Complete
  /\ r.stage = "refused" => panel = wizardCurrent
  /\ r.stage = "ok" =>
       wizardCurrent = IF panel = Onboarding!Complete THEN panel
                       ELSE IF r.does = "back" THEN IF panel > 1 THEN panel - 1 ELSE panel
                       ELSE panel + 1

\* Page, session and saved file agree, and each step's data were given at that step.
InStep ==
  /\ wizardDisk = <<wizardCurrent, wizardStatus, wizardFrom>>
  /\ requests = {} => panel = wizardCurrent
  /\ \A r \in requests : requests = {r} /\ Follows(r)
  /\ \A k \in Onboarding!Steps : wizardFrom[k] \in {Onboarding!Nobody, k}

WizardInv ==
  /\ Settled(wizardCurrent, wizardStatus, wizardFrom)
  /\ Settled(wizardDisk[1], wizardDisk[2], wizardDisk[3])
  /\ requests \subseteq Exchanges /\ panel \in 1..Onboarding!Complete
  /\ disturbed \in BOOLEAN
  /\ ~disturbed => InStep

\* What a request does to the session.
LEMMA SessionMoves ==
  ASSUME Last \in Nat, Settled(wizardCurrent, wizardStatus, wizardFrom)
  PROVE  /\ \A p \in Nat :
              wizardCurrent # Onboarding!Complete /\ Onboarding!Valid(wizardCurrent, p)
                /\ Onboarding!CompleteStep(p)
              => /\ Settled(wizardCurrent, wizardStatus, wizardFrom)'
                 /\ wizardCurrent' = wizardCurrent + 1
         /\ wizardCurrent # Onboarding!Complete /\ Onboarding!SkipStep
              => /\ Settled(wizardCurrent, wizardStatus, wizardFrom)'
                 /\ wizardCurrent' = wizardCurrent + 1
         /\ Onboarding!GoBack
              => /\ Settled(wizardCurrent, wizardStatus, wizardFrom)'
                 /\ wizardCurrent' = IF wizardCurrent > 1 THEN wizardCurrent - 1 ELSE 1
<1> USE DEF Settled, Onboarding!Complete, Onboarding!Steps
<1>1. ASSUME NEW p \in Nat, wizardCurrent # Onboarding!Complete,
             Onboarding!Valid(wizardCurrent, p), Onboarding!CompleteStep(p)
      PROVE  /\ Settled(wizardCurrent, wizardStatus, wizardFrom)'
             /\ wizardCurrent' = wizardCurrent + 1
  BY <1>1 DEF Onboarding!CompleteStep, Onboarding!Valid, Onboarding!Nobody
<1>2. ASSUME wizardCurrent # Onboarding!Complete, Onboarding!SkipStep
      PROVE  /\ Settled(wizardCurrent, wizardStatus, wizardFrom)'
             /\ wizardCurrent' = wizardCurrent + 1
  BY <1>2 DEF Onboarding!SkipStep
<1>3. ASSUME Onboarding!GoBack
      PROVE  /\ Settled(wizardCurrent, wizardStatus, wizardFrom)'
             /\ wizardCurrent' = IF wizardCurrent > 1 THEN wizardCurrent - 1 ELSE 1
  <2> DEFINE prev == IF wizardCurrent = 1 THEN 1 ELSE wizardCurrent - 1
  <2>1. /\ wizardCurrent' = prev /\ wizardFrom' = wizardFrom
        /\ wizardStatus' = [wizardStatus EXCEPT
             ![prev] = IF wizardStatus[prev] = "pending" THEN wizardStatus[prev]
                       ELSE "in_progress"]
    BY <1>3 DEF Onboarding!GoBack
  <2>2. /\ prev \in 1..Onboarding!Complete /\ prev <= wizardCurrent
        /\ prev = IF wizardCurrent > 1 THEN wizardCurrent - 1 ELSE 1
    OBVIOUS
  <2> HIDE DEF prev
  <2>3. /\ wizardStatus' \in [1..Last -> {"pending", "in_progress", "complete", "skipped"}]
        /\ \A k \in 1..Last : k # prev => wizardStatus'[k] = wizardStatus[k]
    BY <2>1
  <2> QED
    BY <2>1, <2>2, <2>3
<1> QED
  BY <1>1, <1>2, <1>3

\* The request is replaced by its answer.
LEMMA RequestIsAnswered ==
  ASSUME NEW r \in requests, requests \subseteq Exchanges, NEW answer \in {"ok", "refused"},
         Onboarding!Answering(r, answer)
  PROVE  /\ requests' \subseteq Exchanges
         /\ requests = {r} =>
              \E a \in Exchanges : requests' = {a} /\ a.does = r.does /\ a.stage = answer
<1> DEFINE a == [r EXCEPT !.stage = answer, !.panel = Onboarding!Nobody]
<1>1. a \in Exchanges /\ a.does = r.does /\ a.stage = answer
  BY DEF Exchanges, Onboarding!Nobody
<1>2. requests' = (requests \ {r}) \union {a}
  BY DEF Onboarding!Answering
<1> HIDE DEF a
<1> QED
  BY <1>1, <1>2

\* An operation ends with a save, which may fail.
LEMMA SessionIsSaved ==
  ASSUME WizardInv, NEW r \in requests, r.stage = "sent", Onboarding!Save(r),
         UNCHANGED panel, Settled(wizardCurrent, wizardStatus, wizardFrom)',
         ~disturbed => /\ wizardCurrent' = IF r.does # "back" THEN panel + 1
                                           ELSE IF panel > 1 THEN panel - 1 ELSE panel
                       /\ \A k \in Onboarding!Steps : wizardFrom'[k] \in {Onboarding!Nobody, k}
  PROVE  WizardInv'
<1>1. CASE /\ wizardDisk' = <<wizardCurrent', wizardStatus', wizardFrom'>>
           /\ Onboarding!Answering(r, "ok")
           /\ UNCHANGED <<wizardFailures, disturbed>>
  <2>1. requests' \subseteq Exchanges
    BY <1>1, RequestIsAnswered DEF WizardInv
  <2>2. ASSUME ~disturbed PROVE InStep'
    <3>1. requests = {r} /\ Follows(r)
      BY <2>2 DEF WizardInv, InStep
    <3>2. PICK a \in Exchanges : requests' = {a} /\ a.does = r.does /\ a.stage = "ok"
      BY <1>1, <3>1, RequestIsAnswered DEF WizardInv
    <3>3. Follows(a)'
      BY <2>2, <3>1, <3>2 DEF Follows
    <3> QED
      BY <1>1, <2>2, <3>2, <3>3 DEF InStep
  <2> QED
    BY <1>1, <2>1, <2>2 DEF WizardInv
<1>2. CASE /\ Onboarding!Answering(r, "refused") /\ disturbed' = TRUE
           /\ UNCHANGED wizardDisk
  <2>1. requests' \subseteq Exchanges
    BY <1>2, RequestIsAnswered DEF WizardInv
  <2> QED
    BY <1>2, <2>1 DEF WizardInv
<1> QED
  BY <1>1, <1>2 DEF Onboarding!Save

LEMMA RequestIsHandled ==
  ASSUME Last \in Nat, WizardInv, NEW r \in requests, Onboarding!Handle(r)
  PROVE  WizardInv'
<1>1. /\ r.stage = "sent" /\ panel' = panel /\ r \in Exchanges /\ r.panel \in Nat
      /\ Settled(wizardCurrent, wizardStatus, wizardFrom)
  BY DEF Onboarding!Handle, WizardInv, Exchanges
<1>2. wizardCurrent \in Nat /\ panel \in Nat
  BY <1>1 DEF WizardInv, Settled, Onboarding!Complete
<1>3. ~disturbed => /\ r.panel = wizardCurrent /\ panel = wizardCurrent
                    /\ panel # Onboarding!Complete
                    /\ \A k \in Onboarding!Steps : wizardFrom[k] \in {Onboarding!Nobody, k}
  BY <1>1 DEF WizardInv, InStep, Follows
<1>4. ASSUME r.does = "complete", wizardCurrent # Onboarding!Complete,
             Onboarding!Valid(wizardCurrent, r.panel), Onboarding!CompleteStep(r.panel),
             Onboarding!Save(r)
      PROVE  WizardInv'
  <2>1. /\ Settled(wizardCurrent, wizardStatus, wizardFrom)' /\ wizardCurrent' = wizardCurrent + 1
    BY <1>1, <1>4, SessionMoves
  <2>2. ~disturbed => \A k \in Onboarding!Steps : wizardFrom'[k] \in {Onboarding!Nobody, k}
    BY <1>1, <1>3, <1>4 DEF Onboarding!CompleteStep, Settled
  <2> QED
    BY <1>1, <1>3, <1>4, <2>1, <2>2, SessionIsSaved
<1>5. ASSUME r.does = "skip", wizardCurrent # Onboarding!Complete, Onboarding!SkipStep,
             Onboarding!Save(r)
      PROVE  WizardInv'
  <2>1. /\ Settled(wizardCurrent, wizardStatus, wizardFrom)' /\ wizardCurrent' = wizardCurrent + 1
    BY <1>1, <1>5, SessionMoves
  <2>2. wizardFrom' = wizardFrom
    BY <1>5 DEF Onboarding!SkipStep
  <2> QED
    BY <1>1, <1>3, <1>5, <2>1, <2>2, SessionIsSaved
<1>6. ASSUME r.does = "back", Onboarding!GoBack, Onboarding!Save(r)
      PROVE  WizardInv'
  <2>1. /\ Settled(wizardCurrent, wizardStatus, wizardFrom)'
        /\ wizardCurrent' = IF wizardCurrent > 1 THEN wizardCurrent - 1 ELSE 1
    BY <1>1, <1>6, SessionMoves
  <2>2. wizardFrom' = wizardFrom
    BY <1>6 DEF Onboarding!GoBack
  <2>3. panel >= 1
    BY DEF WizardInv
  <2> QED
    BY <1>1, <1>2, <1>3, <1>6, <2>1, <2>2, <2>3, SessionIsSaved
<1>7. ASSUME NEW answer \in {"ok", "refused"}, Onboarding!Answer(r, answer),
             ~disturbed => answer = "refused"
      PROVE  WizardInv'
  <2>1. /\ requests' \subseteq Exchanges /\ Onboarding!Answering(r, answer)
        /\ UNCHANGED <<wizardCurrent, wizardStatus, wizardFrom, wizardDisk, disturbed>>
    <3>1. Onboarding!Answering(r, answer)
      BY <1>7 DEF Onboarding!Answer
    <3> QED
      BY <1>7, <3>1, RequestIsAnswered DEF Onboarding!Answer, Onboarding!session, WizardInv
  <2>2. ASSUME ~disturbed PROVE InStep'
    <3>1. requests = {r}
      BY <2>2 DEF WizardInv, InStep
    <3>2. PICK a \in Exchanges : requests' = {a} /\ a.does = r.does /\ a.stage = "refused"
      BY <1>7, <2>1, <2>2, <3>1, RequestIsAnswered DEF WizardInv
    <3>3. Follows(a)'
      BY <1>1, <1>3, <2>1, <2>2, <3>2 DEF Follows
    <3> QED
      BY <1>1, <2>1, <2>2, <3>2, <3>3 DEF InStep, WizardInv
  <2> QED
    BY <1>1, <2>1, <2>2 DEF WizardInv
<1>8. r.does \in {"complete", "skip", "back"}
  BY <1>1 DEF Exchanges
<1> QED
  BY <1>3, <1>4, <1>5, <1>6, <1>7, <1>8 DEF Onboarding!Handle

LEMMA RequestIsSent ==
  ASSUME WizardInv, NEW n \in Nat, NEW does \in {"complete", "skip", "back"},
         Onboarding!Send(does, n)
  PROVE  WizardInv'
<1> DEFINE r == [does |-> does, panel |-> panel, n |-> n, stage |-> "sent"]
<1>1. /\ r \in Exchanges /\ r.stage = "sent" /\ r.panel = panel
  BY DEF Exchanges, WizardInv, Onboarding!Complete
<1>2. /\ requests' = requests \union {r} /\ panel # Onboarding!Complete
      /\ disturbed' = (disturbed \/ requests # {})
      /\ UNCHANGED <<wizardCurrent, wizardStatus, wizardFrom, wizardDisk, panel>>
  BY DEF Onboarding!Send, Onboarding!session
<1> HIDE DEF r
<1>3. ASSUME ~disturbed' PROVE InStep'
  <2>1. ~disturbed /\ requests = {} /\ InStep
    BY <1>2, <1>3 DEF WizardInv
  <2> QED
    BY <1>1, <1>2, <2>1 DEF InStep, Follows
<1> QED
  BY <1>1, <1>2, <1>3 DEF WizardInv, Settled

LEMMA WizardKeepsInv ==
  ASSUME Last \in Nat, WizardInv, WizardStep
  PROVE  WizardInv'
<1>1. ASSUME NEW n \in 1..MaxRequests, NEW does \in {"complete", "skip", "back"},
             Onboarding!Send(does, n)
      PROVE  WizardInv'
  BY <1>1, RequestIsSent
<1>2. ASSUME NEW r \in requests, Onboarding!Handle(r) PROVE WizardInv'
  BY <1>2, RequestIsHandled
<1>3. ASSUME NEW r \in requests, Onboarding!Answered(r) PROVE WizardInv'
  <2>1. /\ requests' = requests \ {r} /\ r.stage \in {"ok", "refused"}
        /\ panel' = IF r.stage = "refused" \/ panel = Onboarding!Complete THEN panel
                    ELSE IF r.does = "back" THEN IF panel > 1 THEN panel - 1 ELSE panel
                    ELSE panel + 1
        /\ UNCHANGED <<wizardCurrent, wizardStatus, wizardFrom, wizardDisk, disturbed>>
    BY <1>3 DEF Onboarding!Answered, Onboarding!session
  <2>2. panel' \in 1..Onboarding!Complete
    BY <2>1 DEF WizardInv, Onboarding!Complete
  <2>3. ASSUME ~disturbed PROVE InStep'
    <3>1. requests = {r} /\ Follows(r) /\ InStep
      BY <2>3 DEF WizardInv, InStep
    <3> QED
      BY <2>1, <3>1 DEF InStep, Follows
  <2> QED
    BY <2>1, <2>2, <2>3 DEF WizardInv, Settled
<1>4. CASE Onboarding!ResetSession
  <2>1. Settled(wizardCurrent, wizardStatus, wizardFrom)'
    BY <1>4 DEF Onboarding!ResetSession, Onboarding!Fresh, Settled, Onboarding!Complete,
      Onboarding!Steps, Onboarding!Nobody
  <2>2. wizardDisk' = <<wizardCurrent', wizardStatus', wizardFrom'>>
    BY <1>4 DEF Onboarding!ResetSession, Onboarding!Fresh
  <2>3. ASSUME ~disturbed' PROVE InStep'
    <3>1. panel' = 1 /\ requests' = {} /\ wizardCurrent' = 1
      BY <1>4, <2>3 DEF Onboarding!ResetSession, Onboarding!Fresh
    <3>2. \A k \in Onboarding!Steps : wizardFrom'[k] = Onboarding!Nobody
      BY <1>4 DEF Onboarding!ResetSession, Onboarding!Fresh
    <3> QED
      BY <2>2, <3>1, <3>2 DEF InStep
  <2> QED
    BY <1>4, <2>1, <2>2, <2>3 DEF WizardInv, Onboarding!ResetSession
<1>5. CASE Onboarding!Restart
  BY <1>5 DEF Onboarding!Restart, WizardInv, InStep, Follows
<1>6. CASE Onboarding!Reload
  <2>1. /\ panel' = wizardCurrent /\ requests' = {r \in requests : r.stage = "sent"}
        /\ UNCHANGED <<wizardCurrent, wizardStatus, wizardFrom, wizardDisk, disturbed>>
    BY <1>6 DEF Onboarding!Reload, Onboarding!session
  <2>2. ASSUME ~disturbed PROVE InStep'
    BY <2>1, <2>2 DEF WizardInv, InStep, Follows
  <2> QED
    BY <2>1, <2>2 DEF WizardInv, Settled
<1>7. CASE UNCHANGED wizardVars
  BY <1>7 DEF wizardVars, WizardInv, Settled, InStep, Follows
<1> QED
  BY <1>1, <1>2, <1>3, <1>4, <1>5, <1>6, <1>7 DEF WizardStep, Onboarding!Next

LEMMA WizardBegins ==
  ASSUME Last \in Nat, Onboarding!Init
  PROVE  WizardInv
<1>1. /\ wizardCurrent = 1 /\ panel = 1 /\ requests = {} /\ disturbed = FALSE
      /\ wizardStatus = [s \in Onboarding!Steps |-> "pending"]
      /\ wizardFrom = [s \in Onboarding!Steps |-> Onboarding!Nobody]
      /\ wizardDisk = <<wizardCurrent, wizardStatus, wizardFrom>>
  BY DEF Onboarding!Init, Onboarding!Fresh
<1>2. Settled(wizardCurrent, wizardStatus, wizardFrom)
  BY <1>1 DEF Settled, Onboarding!Complete, Onboarding!Steps, Onboarding!Nobody
<1>3. InStep
  BY <1>1 DEF InStep
<1>4. Settled(wizardDisk[1], wizardDisk[2], wizardDisk[3])
  <2>1. /\ wizardDisk[1] = wizardCurrent /\ wizardDisk[2] = wizardStatus
        /\ wizardDisk[3] = wizardFrom
    BY <1>1
  <2> QED
    BY <1>2, <2>1
<1>5. panel \in 1..Onboarding!Complete
  BY <1>1 DEF Onboarding!Complete
<1> QED
  BY <1>1, <1>2, <1>3, <1>4, <1>5 DEF WizardInv

LEMMA WizardIsSound == WizardInv => Onboarding!Onboarded
BY DEF WizardInv, Settled, InStep, Onboarding!Onboarded, Onboarding!StepsAreSettled,
  Onboarding!PageAgrees

-----------------------------------------------------------------------------
(* The versions of the agents.                                                *)

ThereIs(vs, id) == \E v \in vs : v.id = id

\* What is in memory, and what is in the file: a deployment refers to versions there are,
\* a canary to another one than the active, and numbers follow age.
SoundVersions(vs, run) ==
  /\ vs \subseteq [id : 1..created, agent : Agents, number : 1..created]
  /\ run \in [Versions!Places -> [active : Nat, canary : Nat]]
  /\ \A p \in Versions!Places :
       run[p] # Versions!NotDeployed =>
         /\ ThereIs(vs, run[p].active)
         /\ run[p].canary = 0 \/ ThereIs(vs, run[p].canary)
         /\ run[p].active # run[p].canary
  /\ \A v, w \in vs : v.agent = w.agent /\ v.id < w.id => v.number < w.number

VersionInv ==
  /\ created \in Nat
  /\ SoundVersions(versions, running)
  /\ SoundVersions(versionDisk[1], versionDisk[2])

\* A new version's number is above all of its agent's.
LEMMA NumberIsNew ==
  ASSUME VersionInv, NEW a \in Agents
  PROVE  /\ Versions!NextNumber(a) \in 1..(created + 1)
         /\ \A v \in versions : v.agent = a => v.number < Versions!NextNumber(a)
<1> DEFINE S == Versions!Numbers(a) \union {0}
<1>1. created \in Nat /\ S \in SUBSET (0..created) /\ S # {}
  BY DEF VersionInv, SoundVersions, Versions!Numbers
<1>2. \E m \in S : \A y \in S : m >= y
  BY <1>1, GreatestNumber
<1>3. Versions!Max(S) \in S /\ \A y \in S : Versions!Max(S) >= y
  BY <1>2 DEF Versions!Max
<1>4. Versions!NextNumber(a) = Versions!Max(S) + 1
  BY DEF Versions!NextNumber
<1>5. \A v \in versions : v.agent = a => v.number \in S
  BY DEF Versions!Numbers
<1>6. \A y \in S : y \in Nat /\ y <= created
  BY <1>1
<1> HIDE DEF S
<1>7. Versions!Max(S) \in Nat /\ Versions!Max(S) <= created
  BY <1>3, <1>6
<1>8. Versions!NextNumber(a) \in 1..(created + 1)
  BY <1>1, <1>4, <1>7
<1>9. ASSUME NEW v \in versions, v.agent = a PROVE v.number < Versions!NextNumber(a)
  <2>1. v.number \in S
    BY <1>5, <1>9
  <2>2. v.number \in Nat /\ Versions!Max(S) >= v.number
    BY <1>3, <1>6, <2>1
  <2> QED
    BY <1>4, <1>7, <2>2
<1> QED
  BY <1>8, <1>9

\* An operation that leaves sound versions behind may fail to save them.
LEMMA VersionsAreSaved ==
  ASSUME VersionInv, Versions!Save, created' \in Nat, created' >= created,
         SoundVersions(versions, running)'
  PROVE  VersionInv'
<1>1. CASE versionDisk' = <<versions', running'>>
  BY <1>1 DEF VersionInv
<1>2. CASE versionDisk' = versionDisk
  <2>1. 1..created \subseteq 1..created'
    BY DEF VersionInv
  <2> QED
    BY <1>2, <2>1 DEF VersionInv, SoundVersions
<1> QED
  BY <1>1, <1>2 DEF Versions!Save

LEMMA VersionsKeepInv ==
  ASSUME VersionInv, VersionStep
  PROVE  VersionInv'
<1>0. created \in Nat /\ SoundVersions(versions, running)
  BY DEF VersionInv
<1>1. ASSUME NEW a \in Agents, Versions!CreateVersion(a) PROVE VersionInv'
  <2> DEFINE new == [id |-> created', agent |-> a, number |-> Versions!NextNumber(a)]
  <2>1. created' = created + 1 /\ versions' = versions \union {new} /\ running' = running
    BY <1>1 DEF Versions!CreateVersion
  <2>2. /\ Versions!NextNumber(a) \in 1..(created + 1)
        /\ \A v \in versions : v.agent = a => v.number < Versions!NextNumber(a)
    BY NumberIsNew
  <2>3. new \in [id : 1..created', agent : Agents, number : 1..created']
        /\ new.id = created + 1 /\ new.agent = a /\ new.number = Versions!NextNumber(a)
    BY <1>0, <2>1, <2>2
  <2> HIDE DEF new
  <2>4. 1..created \subseteq 1..created'
    BY <1>0, <2>1
  <2>5. \A v \in versions : v.id \in 1..created /\ v.number \in 1..created
    BY <1>0 DEF SoundVersions
  <2>6. versions' \subseteq [id : 1..created', agent : Agents, number : 1..created']
    BY <1>0, <2>1, <2>3, <2>4 DEF SoundVersions
  <2>7. \A v, w \in versions' : v.agent = w.agent /\ v.id < w.id => v.number < w.number
    BY <1>0, <2>1, <2>2, <2>3, <2>5 DEF SoundVersions
  <2>8. \A id : ThereIs(versions, id) => ThereIs(versions', id)
    BY <2>1 DEF ThereIs
  <2>9. SoundVersions(versions, running)'
    BY <1>0, <2>1, <2>6, <2>7, <2>8 DEF SoundVersions, ThereIs
  <2> QED
    BY <1>0, <1>1, <2>1, <2>9, VersionsAreSaved DEF Versions!CreateVersion
<1>2. ASSUME NEW v \in versions, Versions!DeleteVersion(v) PROVE VersionInv'
  <2>1. versions' = versions \ {v} /\ running' = running /\ created' = created
    BY <1>2 DEF Versions!DeleteVersion
  <2>2. \A p \in Versions!Places : running[p].active # v.id /\ running[p].canary # v.id
    BY <1>2 DEF Versions!DeleteVersion, Versions!Deployed
  <2>3. SoundVersions(versions, running)'
    BY <1>0, <2>1, <2>2 DEF SoundVersions, ThereIs
  <2> QED
    BY <1>0, <1>2, <2>1, <2>3, VersionsAreSaved DEF Versions!DeleteVersion
<1>3. ASSUME NEW p \in Versions!Places, NEW d \in [active : Nat, canary : Nat],
             running' = [running EXCEPT ![p] = d], versions' = versions, created' = created,
             ThereIs(versions, d.active), d.canary = 0 \/ ThereIs(versions, d.canary),
             d.active # d.canary, Versions!Save
      PROVE  VersionInv'
  <2>1. SoundVersions(versions, running)'
    BY <1>0, <1>3 DEF SoundVersions, ThereIs
  <2> QED
    BY <1>0, <1>3, <2>1, VersionsAreSaved
<1>4. \A v \in versions : ThereIs(versions, v.id) /\ v.id \in Nat /\ v.id # 0
  BY <1>0 DEF SoundVersions, ThereIs
<1>5. ASSUME NEW p \in Versions!Places, NEW v \in versions, Versions!Deploy(p, v)
      PROVE  VersionInv'
  <2> DEFINE d == [active |-> v.id, canary |-> 0]
  <2>1. d \in [active : Nat, canary : Nat] /\ d.active = v.id /\ d.canary = 0
    BY <1>4
  <2>2. /\ running' = [running EXCEPT ![p] = d] /\ versions' = versions /\ created' = created
        /\ Versions!Save
    BY <1>5 DEF Versions!Deploy
  <2> HIDE DEF d
  <2> QED
    BY <1>3, <1>4, <2>1, <2>2
<1>6. ASSUME NEW p \in Versions!Places, NEW c \in Nat,
             running[p] # Versions!NotDeployed,
             c = 0 \/ ThereIs(versions, c), running[p].active # c,
             running' = [running EXCEPT ![p].canary = c],
             versions' = versions, created' = created, Versions!Save
      PROVE  VersionInv'
  <2>1. running \in [Versions!Places -> [active : Nat, canary : Nat]]
        /\ ThereIs(versions, running[p].active)
    BY <1>0, <1>6 DEF SoundVersions
  <2>2. [running[p] EXCEPT !.canary = c] = [active |-> running[p].active, canary |-> c]
    BY <2>1
  <2>3. running' = [running EXCEPT ![p] = [active |-> running[p].active, canary |-> c]]
    BY <1>6, <2>2
  <2> QED
    BY <1>3, <1>6, <2>1, <2>3
<1>7. ASSUME NEW p \in Versions!Places, NEW v \in versions, Versions!SetCanary(p, v)
      PROVE  VersionInv'
  BY <1>4, <1>6, <1>7 DEF Versions!SetCanary
<1>8. ASSUME NEW p \in Versions!Places, Versions!ClearCanary(p) PROVE VersionInv'
  <2>1. running[p].active # 0
    BY <1>0, <1>8 DEF Versions!ClearCanary, SoundVersions, ThereIs
  <2> QED
    BY <1>6, <1>8, <2>1 DEF Versions!ClearCanary
<1>9. ASSUME NEW p \in Versions!Places, Versions!Rollback(p) PROVE VersionInv'
  <2>1. PICK v \in Versions!Previous(p) :
          running' = [running EXCEPT ![p] = [active |-> v.id, canary |-> 0]]
    BY <1>9 DEF Versions!Rollback
  <2>2. v \in versions
    BY DEF Versions!Previous
  <2> DEFINE d == [active |-> v.id, canary |-> 0]
  <2>3. d \in [active : Nat, canary : Nat] /\ d.active = v.id /\ d.canary = 0
    BY <1>4, <2>2
  <2>4. /\ running' = [running EXCEPT ![p] = d] /\ versions' = versions /\ created' = created
        /\ Versions!Save
    BY <1>9, <2>1 DEF Versions!Rollback
  <2> HIDE DEF d
  <2> QED
    BY <1>3, <1>4, <2>2, <2>3, <2>4
<1>10. CASE Versions!Restart
  BY <1>10 DEF Versions!Restart, VersionInv, SoundVersions
<1>11. CASE UNCHANGED versionVars
  BY <1>11 DEF versionVars, VersionInv, SoundVersions
<1> QED
  BY <1>1, <1>2, <1>5, <1>7, <1>8, <1>9, <1>10, <1>11 DEF VersionStep, Versions!Next

LEMMA VersionsBegin == Versions!Init => VersionInv
<1> SUFFICES ASSUME Versions!Init PROVE VersionInv
  OBVIOUS
<1>1. /\ versions = {} /\ created = 0
      /\ running = [p \in Versions!Places |-> Versions!NotDeployed]
      /\ versionDisk[1] = versions /\ versionDisk[2] = running
  BY DEF Versions!Init
<1>2. SoundVersions(versions, running)
  BY <1>1 DEF SoundVersions, Versions!NotDeployed
<1> QED
  BY <1>1, <1>2 DEF VersionInv

LEMMA VersionsAreSound == VersionInv => Versions!VersionsSound
BY DEF VersionInv, SoundVersions, ThereIs, Versions!VersionsSound, Versions!ResolvesToVersion,
  Versions!NumbersFollowAge, Versions!Resolved, Versions!Known

-----------------------------------------------------------------------------
(* The voices.                                                                *)

\* When a session was put in a test, and ever since, the earlier tests were over.
EarlierAreOver ==
  \A r \in results : r[1] \in DOMAIN tests /\ \A j \in DOMAIN tests : j < r[1] => ~tests[j]

VoiceInv ==
  /\ Voice!ProfilesAreFound /\ voiceFailures \in Nat
  /\ tests \in Seq(BOOLEAN) /\ EarlierAreOver
  /\ prints \in [Callers -> [sum : Int, n : Nat]]

\* What a process has read agrees with its files, whatever more it reads.
LEMMA TenantsAreLoaded ==
  ASSUME Voice!ProfilesAreFound, NEW ts
  PROVE  LET m == Voice!LoadTenants(ts)
         IN  /\ m.index = m.cache /\ ts \subseteq m.loaded
             /\ \A p \in m.cache : VoiceOwner(p) \in m.loaded
             /\ voiceFailures = 0 =>
                  \A t \in m.loaded : Voice!Of(t, m.cache) = Voice!Of(t, voiceFile)
BY DEF Voice!LoadTenants, Voice!ProfilesAreFound, Voice!Of

\* One tenant's profiles are written, or the write fails.
LEMMA ProfilesAreSaved ==
  ASSUME voiceFailures \in Nat, NEW t, NEW held, NEW read, t \in read,
         \A p \in held : VoiceOwner(p) \in read,
         voiceFailures = 0 =>
           \A o \in read \ {t} : Voice!Of(o, held) = Voice!Of(o, voiceFile),
         Voice!SaveTenant(t, held),
         voiceCache' = held, voiceIndex' = held, voiceLoaded' = read
  PROVE  Voice!ProfilesAreFound' /\ voiceFailures' \in Nat
<1>1. CASE /\ voiceFile' = (voiceFile \ Voice!Of(t, voiceFile)) \union Voice!Of(t, held)
           /\ voiceFailures' = voiceFailures
  <2>1. Voice!Of(t, voiceFile') = Voice!Of(t, held)
    BY <1>1 DEF Voice!Of
  <2>2. \A o \in read \ {t} : Voice!Of(o, voiceFile') = Voice!Of(o, voiceFile)
    BY <1>1 DEF Voice!Of
  <2> QED
    BY <1>1, <2>1, <2>2 DEF Voice!ProfilesAreFound
<1>2. CASE voiceFailures' = voiceFailures + 1
  BY <1>2 DEF Voice!ProfilesAreFound
<1> QED
  BY <1>1, <1>2 DEF Voice!SaveTenant

LEMMA VoicesKeepInv ==
  ASSUME Features \subseteq Int, VoiceInv, VoiceStep
  PROVE  VoiceInv'
<1>1. Voice!ProfilesAreFound /\ voiceFailures \in Nat
  BY DEF VoiceInv
<1>2. ASSUME UNCHANGED <<tests, results, prints>>,
             Voice!ProfilesAreFound' /\ voiceFailures' \in Nat
      PROVE  VoiceInv'
  BY <1>2 DEF VoiceInv, EarlierAreOver
<1>3. ASSUME UNCHANGED <<voiceCache, voiceIndex, voiceLoaded, voiceFile, voiceFailures>>
      PROVE  Voice!ProfilesAreFound' /\ voiceFailures' \in Nat
  BY <1>1, <1>3 DEF Voice!ProfilesAreFound, Voice!Of
<1>4. ASSUME NEW p \in Profiles, Voice!PostProfile(p) PROVE VoiceInv'
  <2> DEFINE m == Voice!LoadTenants({VoiceOwner(p)})
             held == m.cache \union {p}
  <2>1. /\ m.index = m.cache /\ VoiceOwner(p) \in m.loaded
        /\ \A o \in m.cache : VoiceOwner(o) \in m.loaded
        /\ voiceFailures = 0 =>
             \A t \in m.loaded : Voice!Of(t, m.cache) = Voice!Of(t, voiceFile)
    BY <1>1, TenantsAreLoaded
  <2>2. /\ voiceCache' = held /\ voiceIndex' = held /\ voiceLoaded' = m.loaded
        /\ Voice!SaveTenant(VoiceOwner(p), held)
        /\ UNCHANGED <<tests, results, prints>>
    BY <1>4, <2>1 DEF Voice!PostProfile, Voice!Remember, Voice!LoadTenants, Voice!testVars
  <2>3. \A o \in held : VoiceOwner(o) \in m.loaded
    BY <2>1
  <2>4. voiceFailures = 0 =>
          \A o \in m.loaded \ {VoiceOwner(p)} : Voice!Of(o, held) = Voice!Of(o, voiceFile)
    BY <2>1 DEF Voice!Of
  <2> HIDE DEF m, held
  <2> QED
    BY <1>1, <1>2, <2>1, <2>2, <2>3, <2>4, ProfilesAreSaved
<1>5. ASSUME NEW ts, Voice!Remember(Voice!LoadTenants(ts)),
             UNCHANGED <<voiceFile, voiceFailures, tests, results, prints>>
      PROVE  VoiceInv'
  <2>1. Voice!ProfilesAreFound'
    BY <1>1, <1>5, TenantsAreLoaded DEF Voice!ProfilesAreFound, Voice!Remember
  <2> QED
    BY <1>1, <1>2, <1>5, <2>1
<1>6. ASSUME NEW p \in Profiles, Voice!GetProfile(p) PROVE VoiceInv'
  BY <1>5, <1>6 DEF Voice!GetProfile, Voice!Looked, Voice!testVars
<1>7. ASSUME NEW t \in Tenants, Voice!ListProfiles(t) PROVE VoiceInv'
  BY <1>5, <1>7 DEF Voice!ListProfiles, Voice!testVars
<1>8. ASSUME NEW p \in Profiles, Voice!DeleteProfile(p) PROVE VoiceInv'
  <2>1. PICK ts : Voice!Looked(p) = Voice!LoadTenants(ts)
    BY DEF Voice!Looked
  <2> DEFINE m == Voice!LoadTenants(ts)
             held == m.cache \ {p}
  <2>2. /\ m.index = m.cache
        /\ \A o \in m.cache : VoiceOwner(o) \in m.loaded
        /\ voiceFailures = 0 =>
             \A t \in m.loaded : Voice!Of(t, m.cache) = Voice!Of(t, voiceFile)
    BY <1>1, TenantsAreLoaded
  <2>3. /\ p \in m.cache
        /\ voiceCache' = held /\ voiceIndex' = held /\ voiceLoaded' = m.loaded
        /\ Voice!SaveTenant(VoiceOwner(p), held)
        /\ UNCHANGED <<tests, results, prints>>
    BY <1>8, <2>1, <2>2 DEF Voice!DeleteProfile, Voice!Remember, Voice!LoadTenants,
      Voice!testVars
  <2>4. VoiceOwner(p) \in m.loaded /\ \A o \in held : VoiceOwner(o) \in m.loaded
    BY <2>2, <2>3
  <2>5. voiceFailures = 0 =>
          \A o \in m.loaded \ {VoiceOwner(p)} : Voice!Of(o, held) = Voice!Of(o, voiceFile)
    BY <2>2 DEF Voice!Of
  <2> HIDE DEF m, held
  <2> QED
    BY <1>1, <1>2, <2>3, <2>4, <2>5, ProfilesAreSaved
<1>9. CASE Voice!Restart
  <2>1. Voice!ProfilesAreFound' /\ voiceFailures' \in Nat
    BY <1>1, <1>9 DEF Voice!Restart, Voice!ProfilesAreFound
  <2> QED
    BY <1>2, <1>9, <2>1 DEF Voice!Restart, Voice!testVars
<1>10. CASE Voice!CreateTest
  <2>1. /\ tests' = Append(tests, TRUE) /\ UNCHANGED <<results, prints>>
        /\ Voice!ProfilesAreFound' /\ voiceFailures' \in Nat
    BY <1>3, <1>10 DEF Voice!CreateTest, Voice!profileVars
  <2>2. /\ tests' \in Seq(BOOLEAN) /\ Len(tests') = Len(tests) + 1 /\ Len(tests) \in Nat
        /\ \A j \in 1..Len(tests) : tests'[j] = tests[j]
    BY <2>1, AppendProperties DEF VoiceInv
  <2>3. EarlierAreOver'
    BY <2>1, <2>2 DEF VoiceInv, EarlierAreOver
  <2> QED
    BY <2>1, <2>2, <2>3 DEF VoiceInv
<1>11. ASSUME NEW i \in DOMAIN tests, Voice!DeactivateTest(i) PROVE VoiceInv'
  <2>1. /\ tests' = [tests EXCEPT ![i] = FALSE] /\ UNCHANGED <<results, prints>>
        /\ Voice!ProfilesAreFound' /\ voiceFailures' \in Nat
    BY <1>3, <1>11 DEF Voice!DeactivateTest, Voice!profileVars
  <2>2. /\ tests' \in Seq(BOOLEAN) /\ DOMAIN tests' = DOMAIN tests
        /\ \A j \in DOMAIN tests : tests'[j] => tests[j]
    BY <2>1 DEF VoiceInv
  <2>3. EarlierAreOver'
    BY <2>1, <2>2 DEF VoiceInv, EarlierAreOver
  <2> QED
    BY <2>1, <2>2, <2>3 DEF VoiceInv
<1>12. ASSUME NEW s \in VoiceSessions, Voice!AssignVoice(s) PROVE VoiceInv'
  <2>1. PICK i \in DOMAIN tests :
          /\ \A j \in DOMAIN tests : tests[j] => j >= i
          /\ results' = results \union {<<i, s>>}
    BY <1>12 DEF Voice!AssignVoice
  <2>2. /\ UNCHANGED <<tests, prints>> /\ Voice!ProfilesAreFound' /\ voiceFailures' \in Nat
    BY <1>3, <1>12 DEF Voice!AssignVoice, Voice!profileVars
  <2>3. \A j \in DOMAIN tests : j < i => ~tests[j]
    BY <2>1 DEF VoiceInv
  <2>4. EarlierAreOver'
    BY <2>1, <2>2, <2>3 DEF VoiceInv, EarlierAreOver
  <2> QED
    BY <2>2, <2>4 DEF VoiceInv
<1>13. ASSUME NEW c \in Callers, NEW new \in [sum : Int, n : Nat],
              prints' = [prints EXCEPT ![c] = new], UNCHANGED Voice!profileVars,
              UNCHANGED Voice!testVars
       PROVE  VoiceInv'
  BY <1>3, <1>13 DEF Voice!profileVars, Voice!testVars, VoiceInv, EarlierAreOver
<1>14. ASSUME NEW c \in Callers, NEW x \in Features, Voice!Enroll(c, x) PROVE VoiceInv'
  <2> DEFINE new == [sum |-> prints[c].sum + x, n |-> prints[c].n + 1]
  <2>1. prints[c] \in [sum : Int, n : Nat]
    BY DEF VoiceInv
  <2>2. [prints[c] EXCEPT !.sum = prints[c].sum + x, !.n = prints[c].n + 1] = new
    <3> DEFINE half == [prints[c] EXCEPT !.sum = prints[c].sum + x]
    <3>1. half = [sum |-> prints[c].sum + x, n |-> prints[c].n]
      BY <2>1
    <3>2. [prints[c] EXCEPT !.sum = prints[c].sum + x, !.n = prints[c].n + 1]
            = [half EXCEPT !.n = prints[c].n + 1]
      BY <2>1
    <3> HIDE DEF half
    <3>3. [half EXCEPT !.n = prints[c].n + 1] = new
      BY <3>1
    <3> QED
      BY <3>2, <3>3
  <2>3. prints' = [prints EXCEPT ![c] = new]
    BY <1>14, <2>2 DEF Voice!Enroll, VoiceInv
  <2>4. new \in [sum : Int, n : Nat]
    BY <2>1
  <2> HIDE DEF new
  <2> QED
    BY <1>13, <1>14, <2>3, <2>4 DEF Voice!Enroll
<1>15. ASSUME NEW c \in Callers, Voice!DeleteVoiceprint(c) PROVE VoiceInv'
  <2>1. Voice!NoPrint \in [sum : Int, n : Nat]
    BY DEF Voice!NoPrint
  <2> QED
    BY <1>13, <1>15, <2>1 DEF Voice!DeleteVoiceprint
<1>16. CASE UNCHANGED voiceVars
  BY <1>2, <1>3, <1>16 DEF voiceVars
<1> QED
  BY <1>4, <1>6, <1>7, <1>8, <1>9, <1>10, <1>11, <1>12, <1>14, <1>15, <1>16
  DEF VoiceStep, Voice!Next

LEMMA VoicesBegin == Voice!Init => VoiceInv
BY DEF Voice!Init, VoiceInv, Voice!ProfilesAreFound, EarlierAreOver, Voice!NoPrint

\* A product of natural numbers is one.
LEMMA ProductIsNat == \A a, b \in Nat : a * b \in Nat /\ 0 * a = 0
OBVIOUS

LEMMA VoicesAreSound ==
  ASSUME Near \in Nat, Features \subseteq Int, VoiceInv
  PROVE  Voice!VoicesSound
<1>1. Voice!OneTestAtATime
  BY DEF VoiceInv, EarlierAreOver, Voice!OneTestAtATime
<1>2. ASSUME NEW c \in Callers, NEW x \in Features
      PROVE  /\ Voice!Distance(c, x) \in Nat /\ prints[c].n \in Nat
  <2>1. prints[c].sum \in Int /\ prints[c].n \in Nat /\ x \in Int
    BY DEF VoiceInv
  <2>2. prints[c].sum - x * prints[c].n \in Int
    BY <2>1
  <2> DEFINE d == prints[c].sum - x * prints[c].n
  <2>3. Voice!Distance(c, x) = IF d < 0 THEN 0 - d ELSE d
    BY DEF Voice!Distance
  <2>4. d \in Int
    BY <2>2
  <2> HIDE DEF d
  <2> QED
    BY <2>1, <2>3, <2>4
<1>3. ASSUME NEW c \in Callers, NEW x \in Features, c \in Voice!Enrolled,
             Voice!Distance(c, x) = 0
      PROVE  c \in Voice!Identify(x)
  <2>1. Voice!Distance(c, x) <= Near * prints[c].n
    BY <1>2, <1>3, ProductIsNat
  <2>2. ASSUME NEW o \in Voice!Enrolled
        PROVE  Voice!Distance(c, x) * prints[o].n <= Voice!Distance(o, x) * prints[c].n
    <3>1. o \in Callers
      BY DEF Voice!Enrolled
    <3> QED
      BY <1>2, <1>3, <3>1, ProductIsNat
  <2> QED
    BY <1>3, <2>1, <2>2 DEF Voice!Identify
<1>4. Voice!KnownVoices
  BY <1>3 DEF Voice!KnownVoices, Voice!Identify
<1> QED
  BY <1>1, <1>4 DEF VoiceInv, Voice!VoicesSound

-----------------------------------------------------------------------------
(* The tenants: keys, the log of decisions, items and the validation.         *)

KeyDecisions == {"used", "expired", "invalid"}
Kept == [id : Nat, tenant : Tenants, body : Bodies]

\* The keys in memory and in the file are keys that were made, and one that was not made
\* has no history.
KeyInv ==
  /\ registryMade \in 0..MaxKeys
  /\ keys \subseteq 1..registryMade /\ registryDisk \subseteq 1..registryMade
  /\ fate \in [1..MaxKeys -> {"unknown", "told", "tried", "revoked"}]
  /\ \A k \in 1..MaxKeys : k > registryMade => fate[k] = "unknown"
  /\ Registry!RevokedStaysOut

\* What an open stream has shown starts at an event, or after the last.
EventLogInv ==
  /\ events \in Seq(KeyDecisions) /\ log \in Seq(KeyDecisions)
  /\ stream # Registry!Closed =>
       /\ stream = [from |-> stream.from, got |-> stream.got]
       /\ stream.from \in 1..Len(events) + 1
  /\ Registry!LogIsUnbroken

\* Two items of one name are the same item.
Named(S, R) == \A i \in S, j \in R : i.id = j.id => i = j

\* The names that were given are below the next one, and each names one item, in the
\* registry and in the file.
ItemInv ==
  /\ items \in SUBSET Kept /\ IsFiniteSet(items)
  /\ snapshot \in SUBSET Kept /\ IsFiniteSet(snapshot)
  /\ nextId \in Nat /\ \A i \in items \union snapshot : i.id < nextId
  /\ Named(items, items) /\ Named(snapshot, items) /\ Named(snapshot, snapshot)
  /\ Registry!ImportIsComplete

CheckInv == report = "valid" => \A c \in Checks : outcome[c] = "passed"

TenantInv == KeyInv /\ EventLogInv /\ ItemInv /\ CheckInv

LEMMA KeysKeepInv ==
  ASSUME MaxKeys \in Nat, KeyInv, Registry!KeysNext
  PROVE  KeyInv'
<1> USE DEF KeyInv, Registry!RevokedStaysOut
<1>1. ASSUME NEW fails \in BOOLEAN, Registry!PostKey(fails) PROVE KeyInv'
  <2>1. registryMade' \in 0..MaxKeys
    BY <1>1 DEF Registry!PostKey, Registry!Save
  <2>2. keys' \subseteq 1..registryMade'
    BY <1>1 DEF Registry!PostKey, Registry!Save
  <2>3. registryDisk' \subseteq 1..registryMade'
    <3>1. registryDisk' = keys' \/ registryDisk' = registryDisk
      BY <1>1 DEF Registry!PostKey, Registry!Save
    <3>2. registryMade' = registryMade + 1
      BY <1>1 DEF Registry!PostKey
    <3>3. 1..registryMade \subseteq 1..registryMade'
      BY <3>2
    <3> QED
      BY <2>2, <3>1, <3>3
  <2>4. fate' \in [1..MaxKeys -> {"unknown", "told", "tried", "revoked"}]
    BY <1>1 DEF Registry!PostKey, Registry!Save
  <2>5. ASSUME NEW j \in 1..MaxKeys, j > registryMade' PROVE fate'[j] = "unknown"
    BY <1>1, <2>5 DEF Registry!PostKey, Registry!Save
  <2>6. ASSUME NEW j \in 1..MaxKeys, fate'[j] = "revoked"
        PROVE  j \notin keys' \union registryDisk'
    BY <1>1, <2>6 DEF Registry!PostKey, Registry!Save
  <2>7. ASSUME NEW j \in 1..MaxKeys, fate'[j] = "told", ~wiped'
        PROVE  j \in keys' \intersect registryDisk'
    BY <1>1, <2>7 DEF Registry!PostKey, Registry!Save
  <2> QED
    BY <2>1, <2>2, <2>3, <2>4, <2>5, <2>6, <2>7
<1>2. ASSUME NEW fails \in BOOLEAN, NEW k \in keys, Registry!DeleteKey(k, fails)
      PROVE  KeyInv'
  <2>1. registryMade' \in 0..MaxKeys
    BY <1>2 DEF Registry!DeleteKey, Registry!Save
  <2>2. keys' \subseteq 1..registryMade'
    BY <1>2 DEF Registry!DeleteKey, Registry!Save
  <2>3. registryDisk' \subseteq 1..registryMade'
    BY <1>2, <2>2 DEF Registry!DeleteKey, Registry!Save
  <2>4. fate' \in [1..MaxKeys -> {"unknown", "told", "tried", "revoked"}]
    BY <1>2 DEF Registry!DeleteKey, Registry!Save
  <2>5. ASSUME NEW j \in 1..MaxKeys, j > registryMade' PROVE fate'[j] = "unknown"
    BY <1>2, <2>5 DEF Registry!DeleteKey, Registry!Save
  <2>6. ASSUME NEW j \in 1..MaxKeys, fate'[j] = "revoked"
        PROVE  j \notin keys' \union registryDisk'
    BY <1>2, <2>6 DEF Registry!DeleteKey, Registry!Save
  <2>7. ASSUME NEW j \in 1..MaxKeys, fate'[j] = "told", ~wiped'
        PROVE  j \in keys' \intersect registryDisk'
    BY <1>2, <2>7 DEF Registry!DeleteKey, Registry!Save
  <2> QED
    BY <2>1, <2>2, <2>3, <2>4, <2>5, <2>6, <2>7
<1>3. ASSUME NEW k \in keys, Registry!RotateKey(k, FALSE) PROVE KeyInv'
  <2>1. registryMade' \in 0..MaxKeys
    BY <1>3 DEF Registry!RotateKey, Registry!Save
  <2>2. keys' \subseteq 1..registryMade'
    <3>1. registryMade' = registryMade + 1 /\ keys' = (keys \ {k}) \union {registryMade + 1}
      BY <1>3 DEF Registry!RotateKey
    <3> QED
      BY <3>1
  <2>3. registryDisk' \subseteq 1..registryMade'
    BY <1>3, <2>2 DEF Registry!RotateKey, Registry!Save
  <2>4. fate' \in [1..MaxKeys -> {"unknown", "told", "tried", "revoked"}]
    BY <1>3 DEF Registry!RotateKey, Registry!Save
  <2>5. ASSUME NEW j \in 1..MaxKeys, j > registryMade' PROVE fate'[j] = "unknown"
    BY <1>3, <2>5 DEF Registry!RotateKey, Registry!Save
  <2>6. ASSUME NEW j \in 1..MaxKeys, fate'[j] = "revoked"
        PROVE  j \notin keys' \union registryDisk'
    BY <1>3, <2>6 DEF Registry!RotateKey, Registry!Save
  <2>7. ASSUME NEW j \in 1..MaxKeys, fate'[j] = "told", ~wiped'
        PROVE  j \in keys' \intersect registryDisk'
    BY <1>3, <2>7 DEF Registry!RotateKey, Registry!Save
  <2> QED
    BY <2>1, <2>2, <2>3, <2>4, <2>5, <2>6, <2>7
<1>4. ASSUME NEW k \in keys, Registry!RotateKey(k, TRUE) PROVE KeyInv'
  <2>1. registryMade' \in 0..MaxKeys
    BY <1>4 DEF Registry!RotateKey, Registry!Save
  <2>2. keys' \subseteq 1..registryMade'
    BY <1>4 DEF Registry!RotateKey, Registry!Save
  <2>3. registryDisk' \subseteq 1..registryMade'
    BY <1>4, <2>2 DEF Registry!RotateKey, Registry!Save
  <2>4. fate' \in [1..MaxKeys -> {"unknown", "told", "tried", "revoked"}]
    BY <1>4 DEF Registry!RotateKey, Registry!Save
  <2>5. ASSUME NEW j \in 1..MaxKeys, j > registryMade' PROVE fate'[j] = "unknown"
    BY <1>4, <2>5 DEF Registry!RotateKey, Registry!Save
  <2>6. ASSUME NEW j \in 1..MaxKeys, fate'[j] = "revoked"
        PROVE  j \notin keys' \union registryDisk'
    BY <1>4, <2>6 DEF Registry!RotateKey, Registry!Save
  <2>7. ASSUME NEW j \in 1..MaxKeys, fate'[j] = "told", ~wiped'
        PROVE  j \in keys' \intersect registryDisk'
    BY <1>4, <2>7 DEF Registry!RotateKey, Registry!Save
  <2> QED
    BY <2>1, <2>2, <2>3, <2>4, <2>5, <2>6, <2>7
<1>5. ASSUME NEW fails \in BOOLEAN, NEW k \in 0..registryMade, Registry!Request(k, fails)
      PROVE  KeyInv'
  BY <1>5 DEF Registry!Request
<1>6. ASSUME NEW k \in 1..registryMade, Registry!Lapse(k) PROVE KeyInv'
  BY <1>6 DEF Registry!Lapse
<1>7. CASE Registry!OpenStream
  BY <1>7 DEF Registry!OpenStream, Registry!keyVars
<1>8. ASSUME NEW emptied \in BOOLEAN, Registry!Restart(emptied) PROVE KeyInv'
  BY <1>8 DEF Registry!Restart
<1> QED
  BY <1>1, <1>2, <1>3, <1>4, <1>5, <1>6, <1>7, <1>8 DEF Registry!KeysNext

\* t is the end of s, of at most n.
IsEnd(t, s, n, S) ==
  /\ t \in Seq(S)
  /\ Len(t) = IF Len(s) <= n THEN Len(s) ELSE n
  /\ \A i \in 1..Len(t) : t[i] = s[Len(s) - Len(t) + i]

LEMMA LastOfSequence ==
  ASSUME NEW S, NEW s \in Seq(S), NEW n \in Nat
  PROVE  IsEnd(Registry!KeepLast(s, n), s, n, S)
<1>1. CASE Len(s) <= n
  BY <1>1, LenProperties DEF Registry!KeepLast, IsEnd
<1>2. CASE Len(s) > n
  <2> DEFINE m == Len(s) - n + 1
             t == SubSeq(s, m, Len(s))
  <2>1. m \in Int /\ Len(s) \in Int /\ \A i \in m..Len(s) : s[i] \in S
    BY <1>2, LenProperties
  <2>2. /\ t \in Seq(S)
        /\ Len(t) = IF m <= Len(s) THEN Len(s) - m + 1 ELSE 0
        /\ \A i \in 1..Len(s) - m + 1 : t[i] = s[m + i - 1]
    BY <2>1, SubSeqProperties
  <2>3. Registry!KeepLast(s, n) = t
    BY <1>2, LenProperties DEF Registry!KeepLast
  <2> HIDE DEF t
  <2>4. Len(t) = n /\ ~(Len(s) <= n)
    BY <1>2, <2>1, <2>2
  <2>5. ASSUME NEW i \in 1..Len(t) PROVE t[i] = s[Len(s) - Len(t) + i]
    BY <2>1, <2>2, <2>4
  <2> QED
    BY <1>2, <2>2, <2>3, <2>4, <2>5 DEF IsEnd
<1> QED
  BY <1>1, <1>2, LenProperties

LEMMA LastOfAppended ==
  ASSUME NEW S, NEW s \in Seq(S), NEW e \in S, NEW n \in Nat
  PROVE  Registry!KeepLast(Append(Registry!KeepLast(s, n), e), n)
           = Registry!KeepLast(Append(s, e), n)
<1> DEFINE kept == Registry!KeepLast(s, n)
           left == Registry!KeepLast(Append(kept, e), n)
           right == Registry!KeepLast(Append(s, e), n)
<1>1. IsEnd(kept, s, n, S)
  BY LastOfSequence
<1> HIDE DEF kept
<1>2. /\ Append(kept, e) \in Seq(S) /\ Len(Append(kept, e)) = Len(kept) + 1
      /\ Append(kept, e)[Len(kept) + 1] = e
      /\ \A i \in 1..Len(kept) : Append(kept, e)[i] = kept[i]
  BY <1>1, AppendProperties DEF IsEnd
<1>3. /\ Append(s, e) \in Seq(S) /\ Len(Append(s, e)) = Len(s) + 1
      /\ Append(s, e)[Len(s) + 1] = e
      /\ \A i \in 1..Len(s) : Append(s, e)[i] = s[i]
  BY AppendProperties
<1>4. IsEnd(left, Append(kept, e), n, S)
  BY <1>2, LastOfSequence
<1>5. IsEnd(right, Append(s, e), n, S)
  BY <1>3, LastOfSequence
<1> HIDE DEF left, right
<1>9. \A i \in 1..Len(left) : left[i] = Append(kept, e)[(Len(kept) + 1) - Len(left) + i]
  <2>1. \A i \in 1..Len(left) : left[i] = Append(kept, e)[Len(Append(kept, e)) - Len(left) + i]
    BY <1>4 DEF IsEnd
  <2> QED
    BY <2>1, <1>2, Zenon
<1>10. \A i \in 1..Len(right) : right[i] = Append(s, e)[(Len(s) + 1) - Len(right) + i]
  <2>1. \A i \in 1..Len(right) : right[i] = Append(s, e)[Len(Append(s, e)) - Len(right) + i]
    BY <1>5 DEF IsEnd
  <2> QED
    BY <2>1, <1>3, Zenon
<1>6. Len(s) \in Nat /\ Len(kept) \in Nat
  BY <1>1, LenProperties DEF IsEnd
<1>7. Len(left) = Len(right)
  BY <1>1, <1>2, <1>3, <1>4, <1>5, <1>6 DEF IsEnd
<1>8. ASSUME NEW i \in 1..Len(left) PROVE left[i] = right[i]
  <2>1. Len(left) \in Nat /\ i \in Nat /\ Len(left) <= Len(kept) + 1 /\ Len(kept) <= Len(s)
    BY <1>1, <1>2, <1>4, <1>6 DEF IsEnd
  <2>2. CASE i = Len(left)
    <3>1. /\ (Len(kept) + 1) - Len(left) + i = Len(kept) + 1
          /\ (Len(s) + 1) - Len(left) + i = Len(s) + 1
      BY <1>6, <2>1, <2>2
    <3>2. left[i] = Append(kept, e)[Len(kept) + 1] /\ right[i] = Append(s, e)[Len(s) + 1]
      BY <1>7, <1>9, <1>10, <3>1
    <3> QED
      BY <1>2, <1>3, <3>2
  <2>3. CASE i # Len(left)
    <3> DEFINE j == (Len(kept) + 1) - Len(left) + i
               k == (Len(s) + 1) - Len(left) + i
    <3>1. j \in 1..Len(kept) /\ k \in 1..Len(s) /\ Len(s) - Len(kept) + j = k
      BY <1>6, <2>1, <2>3
    <3>2. left[i] = Append(kept, e)[j] /\ right[i] = Append(s, e)[k]
      BY <1>7, <1>9, <1>10
    <3> HIDE DEF j, k
    <3>3. kept[j] = s[k]
      BY <1>1, <3>1 DEF IsEnd
    <3> QED
      BY <1>2, <1>3, <3>1, <3>2, <3>3
  <2> QED
    BY <2>2, <2>3
<1> QED
  BY <1>4, <1>5, <1>7, <1>8, SeqEqual DEF left, right, kept, IsEnd

\* The run of a sequence from a place to its end, and what is appended.
LEMMA RunOfAppended ==
  ASSUME NEW S, NEW s \in Seq(S), NEW e \in S, NEW from \in 1..Len(s) + 1
  PROVE  Append(SubSeq(s, from, Len(s)), e) = SubSeq(Append(s, e), from, Len(s) + 1)
<1> DEFINE n == Len(s)
           whole == Append(s, e)
           run == SubSeq(s, from, n)
           left == Append(run, e)
           right == SubSeq(whole, from, n + 1)
<1>1. /\ n \in Nat /\ from \in Int /\ n + 1 \in Int /\ from <= n + 1 /\ 1 <= from
      /\ \A i \in from..n : s[i] \in S
  BY LenProperties
<1>2. /\ whole \in Seq(S) /\ Len(whole) = n + 1 /\ whole[n + 1] = e
      /\ \A i \in 1..n : whole[i] = s[i]
  BY AppendProperties
<1>3. /\ run \in Seq(S) /\ Len(run) = IF from <= n THEN n - from + 1 ELSE 0
      /\ \A i \in 1..n - from + 1 : run[i] = s[from + i - 1]
  BY <1>1, SubSeqProperties
<1>4. \A i \in from..n + 1 : whole[i] \in S
  <2> HIDE DEF whole
  <2> QED
    BY <1>1, <1>2
<1>5. /\ right \in Seq(S) /\ Len(right) = IF from <= n + 1 THEN (n + 1) - from + 1 ELSE 0
      /\ \A i \in 1..(n + 1) - from + 1 : right[i] = whole[from + i - 1]
  <2> HIDE DEF whole
  <2> QED
    BY <1>1, <1>4, SubSeqProperties
<1>6. /\ left \in Seq(S) /\ Len(left) = Len(run) + 1 /\ left[Len(run) + 1] = e
      /\ \A i \in 1..Len(run) : left[i] = run[i]
  <2> HIDE DEF run
  <2> QED
    BY <1>3, AppendProperties
<1> HIDE DEF n, whole, run, left, right
<1>7. Len(run) = n - from + 1 /\ Len(left) = Len(right) /\ Len(left) = n - from + 2
  BY <1>1, <1>3, <1>5, <1>6
<1>8. ASSUME NEW i \in 1..Len(left) PROVE left[i] = right[i]
  <2>1. CASE i = n - from + 2
    <3>1. from + i - 1 = n + 1 /\ i = Len(run) + 1 /\ i \in 1..(n + 1) - from + 1
      BY <1>1, <1>7, <2>1
    <3> QED
      BY <1>2, <1>5, <1>6, <3>1
  <2>2. CASE i # n - from + 2
    <3>1. i \in 1..n - from + 1 /\ from + i - 1 \in 1..n /\ i \in 1..Len(run)
          /\ i \in 1..(n + 1) - from + 1
      BY <1>1, <1>7, <2>2
    <3> QED
      BY <1>2, <1>3, <1>5, <1>6, <3>1
  <2> QED
    BY <2>1, <2>2
<1>9. left = right
  BY <1>5, <1>6, <1>7, <1>8, SeqEqual
<1> QED
  BY <1>9 DEF left, right, run, whole, n

\* What happens to the log of decisions, after one more.
LEMMA LogKeepsInv ==
  ASSUME Ring \in Nat, EventLogInv, NEW e \in KeyDecisions, NEW fails \in BOOLEAN,
         Registry!Log(e, fails)
  PROVE  EventLogInv'
<1> USE DEF EventLogInv, Registry!LogIsUnbroken
<1>1. events' = Append(events, e) /\ events' \in Seq(KeyDecisions)
      /\ Len(events') = Len(events) + 1 /\ Len(events) \in Nat
  BY AppendProperties, LenProperties DEF Registry!Log
<1>2. log' \in Seq(KeyDecisions)
  BY AppendProperties DEF Registry!Log
<1>3. ring' = Registry!KeepLast(events', Ring)
  BY <1>1, LastOfAppended DEF Registry!Log
<1>4. CASE stream = Registry!Closed
  BY <1>1, <1>2, <1>3, <1>4 DEF Registry!Log
<1>5. CASE stream # Registry!Closed
  <2>1. /\ stream.from \in 1..Len(events) + 1
        /\ stream.got = SubSeq(events, stream.from, Len(events))
        /\ stream = [from |-> stream.from, got |-> stream.got]
    BY <1>5
  <2>2. stream' = [stream EXCEPT !.got = Append(stream.got, e)]
    BY <1>5 DEF Registry!Log
  <2>3. stream' = [from |-> stream.from, got |-> Append(stream.got, e)]
    BY <2>1, <2>2
  <2>4. stream'.from = stream.from /\ stream'.got = Append(stream.got, e)
    BY <2>3
  <2>5. Append(SubSeq(events, stream.from, Len(events)), e)
          = SubSeq(events', stream.from, Len(events'))
    BY <1>1, <2>1, RunOfAppended
  <2>6. stream'.from \in 1..Len(events') + 1
    BY <1>1, <2>1, <2>4
  <2>7. stream' = [from |-> stream'.from, got |-> stream'.got]
    BY <2>3, <2>4
  <2> QED
    BY <1>1, <1>2, <1>3, <2>1, <2>4, <2>5, <2>6, <2>7
<1> QED
  BY <1>4, <1>5

LEMMA EndIsRun ==
  ASSUME NEW S, NEW s \in Seq(S), NEW n \in Nat, NEW t, IsEnd(t, s, n, S), Len(t) <= Len(s)
  PROVE  t = SubSeq(s, Len(s) + 1 - Len(t), Len(s))
<1> DEFINE m == Len(s)
           k == Len(t)
           from == m + 1 - k
           run == SubSeq(s, from, m)
<1>1. m \in Nat /\ k \in Nat /\ k <= m /\ t \in Seq(S)
  BY LenProperties DEF IsEnd
<1>2. \A i \in 1..k : t[i] = s[m - k + i]
  BY DEF IsEnd
<1> HIDE DEF m, k
<1>3. from \in 1..m + 1 /\ from \in Int /\ m \in Int /\ m - from + 1 = k
  BY <1>1
<1>4. \A i \in from..m : s[i] \in S
  <2>1. \A i \in 1..m : s[i] \in S
    BY ElementOfSeq DEF m
  <2> QED
    BY <1>1, <1>3, <2>1
<1>5. /\ run \in Seq(S) /\ Len(run) = IF from <= m THEN m - from + 1 ELSE 0
      /\ \A i \in 1..m - from + 1 : run[i] = s[from + i - 1]
  BY <1>3, <1>4, SubSeqProperties
<1> HIDE DEF run
<1>6. Len(run) = k
  BY <1>1, <1>5
<1>7. ASSUME NEW i \in 1..k PROVE run[i] = t[i]
  <2>1. run[i] = s[from + i - 1]
    BY <1>3, <1>5
  <2>2. from + i - 1 = m - k + i
    BY <1>1
  <2> QED
    BY <1>2, <2>1, <2>2
<1>8. run = t
  BY <1>1, <1>5, <1>6, <1>7, SeqEqual DEF k
<1> QED
  BY <1>8 DEF run, m, k

\* A stream that opens has shown the log in memory, and a restart keeps the end of the file.
LEMMA EventsKeepInv ==
  ASSUME Ring \in Nat, EventLogInv, Registry!KeysNext
  PROVE  EventLogInv'
<1>1. CASE UNCHANGED Registry!logVars
  BY <1>1 DEF EventLogInv, Registry!LogIsUnbroken, Registry!logVars
<1>2. ASSUME NEW fails \in BOOLEAN, NEW k \in 0..registryMade, Registry!Request(k, fails)
      PROVE  EventLogInv'
  <2>1. \E e \in KeyDecisions : Registry!Log(e, fails)
    BY <1>2 DEF Registry!Request, KeyDecisions
  <2> QED
    BY <2>1, LogKeepsInv
<1>3. CASE Registry!OpenStream
  <2> USE DEF EventLogInv, Registry!LogIsUnbroken
  <2>1. IsEnd(ring, events, Ring, KeyDecisions)
    BY LastOfSequence
  <2>2. /\ stream' = [from |-> Len(events) + 1 - Len(ring), got |-> ring]
        /\ UNCHANGED <<events, log, ring>>
    BY <1>3 DEF Registry!OpenStream
  <2>3. stream'.from = Len(events) + 1 - Len(ring) /\ stream'.got = ring
    BY <2>2
  <2>4. Len(events) \in Nat /\ Len(ring) \in Nat /\ Len(ring) <= Len(events)
    BY <2>1, LenProperties DEF IsEnd
  <2>5. stream'.from \in 1..Len(events) + 1
    BY <2>3, <2>4
  <2>6. ring = SubSeq(events, Len(events) + 1 - Len(ring), Len(events))
    BY <2>1, <2>4, EndIsRun
  <2> QED
    BY <2>2, <2>3, <2>5, <2>6
<1>4. ASSUME NEW emptied \in BOOLEAN, Registry!Restart(emptied) PROVE EventLogInv'
  BY <1>4 DEF Registry!Restart, EventLogInv, Registry!LogIsUnbroken
<1> QED
  BY <1>1, <1>2, <1>3, <1>4 DEF Registry!KeysNext, Registry!PostKey, Registry!DeleteKey,
     Registry!RotateKey, Registry!Lapse

\* How many of todo have a smaller name than i.
Before(todo, i) == Cardinality({j \in todo : j.id < i.id})

\* The copies of an import are numbered one after the other.
LEMMA CopiesAreNumbered ==
  ASSUME NEW todo \in SUBSET Kept, IsFiniteSet(todo), Named(todo, todo)
  PROVE  /\ Cardinality(todo) \in Nat
         /\ \A i \in todo : Before(todo, i) \in Nat /\ Before(todo, i) < Cardinality(todo)
         /\ \A i, k \in todo : Before(todo, i) = Before(todo, k) => i = k
<1> DEFINE smaller(i) == {j \in todo : j.id < i.id}
<1>1. Cardinality(todo) \in Nat
  BY FS_CardinalityType
<1>2. \A i \in todo : i.id \in Nat
  BY DEF Kept
<1>3. ASSUME NEW i \in todo
      PROVE  Before(todo, i) \in Nat /\ Before(todo, i) < Cardinality(todo)
  <2>1. smaller(i) \subseteq todo /\ i \notin smaller(i) /\ smaller(i) # todo
    BY <1>2
  <2>2. IsFiniteSet(smaller(i)) /\ Cardinality(smaller(i)) <= Cardinality(todo)
        /\ (Cardinality(smaller(i)) = Cardinality(todo) => smaller(i) = todo)
    BY <2>1, FS_Subset
  <2>3. Cardinality(smaller(i)) \in Nat
    BY <2>2, FS_CardinalityType
  <2>4. Before(todo, i) = Cardinality(smaller(i))
    BY DEF Before
  <2> HIDE DEF smaller
  <2> QED
    BY <1>1, <2>1, <2>2, <2>3, <2>4
<1>4. ASSUME NEW i \in todo, NEW k \in todo, i.id < k.id
      PROVE  Before(todo, i) < Before(todo, k)
  <2>1. smaller(i) \subseteq smaller(k) /\ i \in smaller(k) /\ i \notin smaller(i)
        /\ smaller(k) \subseteq todo
    BY <1>2, <1>4
  <2>2. IsFiniteSet(smaller(k))
    BY <2>1, FS_Subset
  <2>3. IsFiniteSet(smaller(i)) /\ Cardinality(smaller(i)) <= Cardinality(smaller(k))
        /\ (Cardinality(smaller(i)) = Cardinality(smaller(k)) => smaller(i) = smaller(k))
    BY <2>1, <2>2, FS_Subset
  <2>4. Cardinality(smaller(i)) \in Nat /\ Cardinality(smaller(k)) \in Nat
    BY <2>2, <2>3, FS_CardinalityType
  <2>5. Before(todo, i) = Cardinality(smaller(i)) /\ Before(todo, k) = Cardinality(smaller(k))
    BY DEF Before
  <2> HIDE DEF smaller
  <2> QED
    BY <2>1, <2>3, <2>4, <2>5
<1>5. ASSUME NEW i \in todo, NEW k \in todo, Before(todo, i) = Before(todo, k)
      PROVE  i = k
  <2>1. i.id \in Nat /\ k.id \in Nat
    BY <1>2
  <2>2. Before(todo, i) \in Nat /\ Before(todo, k) \in Nat
    BY <1>3
  <2>3. ~(i.id < k.id) /\ ~(k.id < i.id)
    BY <1>4, <1>5, <2>2
  <2>4. i.id = k.id
    BY <2>1, <2>3
  <2> QED
    BY <2>4 DEF Named
<1> QED
  BY <1>1, <1>3, <1>5

\* What an import adds.
CopyOf(t, todo, i) == [id |-> nextId + Before(todo, i), tenant |-> t, body |-> i.body]
Copies(t, todo) == {CopyOf(t, todo, i) : i \in todo}

LEMMA CopiesAreNew ==
  ASSUME ItemInv, NEW t \in Tenants, NEW todo \in SUBSET snapshot
  PROVE  /\ Cardinality(todo) \in Nat
         /\ IsFiniteSet(Copies(t, todo)) /\ Copies(t, todo) \in SUBSET Kept
         /\ \A c \in Copies(t, todo) :
              c.id >= nextId /\ c.id < nextId + Cardinality(todo)
         /\ Named(Copies(t, todo), Copies(t, todo))
<1>1. todo \in SUBSET Kept /\ IsFiniteSet(todo) /\ Named(todo, todo) /\ nextId \in Nat
  BY FS_Subset DEF ItemInv, Named
<1>2. /\ Cardinality(todo) \in Nat
      /\ \A i \in todo : Before(todo, i) \in Nat /\ Before(todo, i) < Cardinality(todo)
      /\ \A i, k \in todo : Before(todo, i) = Before(todo, k) => i = k
  BY <1>1, CopiesAreNumbered
<1>3. ASSUME NEW i \in todo
      PROVE  /\ CopyOf(t, todo, i) \in Kept
             /\ CopyOf(t, todo, i).id = nextId + Before(todo, i)
  BY <1>1, <1>2 DEF CopyOf, Kept
<1>4. IsFiniteSet(Copies(t, todo))
  <2> DEFINE f == [i \in todo |-> CopyOf(t, todo, i)]
  <2>1. f \in Surjection(todo, Copies(t, todo))
    BY DEF Surjection, Copies
  <2> HIDE DEF f
  <2> QED
    BY <1>1, <2>1, FS_Surjection
<1>5. ASSUME NEW i \in todo, NEW k \in todo,
             CopyOf(t, todo, i).id = CopyOf(t, todo, k).id
      PROVE  i = k
  <2>1. Before(todo, i) = Before(todo, k)
    BY <1>1, <1>2, <1>3, <1>5
  <2> QED
    BY <1>2, <2>1
<1>6. Named(Copies(t, todo), Copies(t, todo))
  BY <1>5 DEF Named, Copies
<1>7. \A c \in Copies(t, todo) :
        c \in Kept /\ c.id >= nextId /\ c.id < nextId + Cardinality(todo)
  BY <1>1, <1>2, <1>3 DEF Copies
<1> QED
  BY <1>2, <1>4, <1>6, <1>7

\* What the target has by name, and what the import has still to create.
Here(t) == {i.id : i \in Registry!ItemsOf(t)}
ToDo(t, overwrite, failing) ==
  {i \in snapshot \ failing : overwrite \/ i.id \notin Here(t)}

LEMMA ImportAdds ==
  ASSUME NEW t \in Tenants, NEW overwrite \in BOOLEAN, NEW failing \in SUBSET snapshot,
         Registry!ImportTenant(t, overwrite, failing)
  PROVE  LET todo == ToDo(t, overwrite, failing)
         IN  /\ items' = items \union Copies(t, todo)
             /\ nextId' = nextId + Cardinality(todo)
             /\ snapshot' = snapshot
             /\ imported' = [target |-> t, bodies |-> {i.body : i \in snapshot \ failing}]
             /\ UNCHANGED <<Registry!keyVars, Registry!logVars, Registry!validationVars>>
<1>1. \A S : Registry!Cardinality(S) = Cardinality(S)
  BY DEF Registry!Cardinality, Cardinality
<1>2. ToDo(t, overwrite, failing)
        = {i \in snapshot \ failing :
             overwrite \/ i.id \notin {j.id : j \in Registry!ItemsOf(t)}}
  BY DEF ToDo, Here
<1> QED
  BY <1>1, <1>2 DEF Registry!ImportTenant, Copies, CopyOf, Before

LEMMA ImportKeepsInv ==
  ASSUME ItemInv, NEW t \in Tenants, NEW overwrite \in BOOLEAN,
         NEW failing \in SUBSET snapshot, Registry!ImportTenant(t, overwrite, failing)
  PROVE  ItemInv'
<1> DEFINE todo == ToDo(t, overwrite, failing)
           new == Copies(t, todo)
           count == Cardinality(todo)
<1>1. /\ items' = items \union new /\ nextId' = nextId + count /\ snapshot' = snapshot
      /\ imported' = [target |-> t, bodies |-> {i.body : i \in snapshot \ failing}]
  BY ImportAdds
<1>2. todo \in SUBSET snapshot
  BY DEF ToDo
<1>3. /\ count \in Nat
      /\ IsFiniteSet(new) /\ new \in SUBSET Kept
      /\ \A c \in new : c.id >= nextId /\ c.id < nextId + count
      /\ Named(new, new)
  BY <1>2, CopiesAreNew
<1>4. ASSUME NEW i \in todo PROVE \E c \in new : c.tenant = t /\ c.body = i.body
  <2>1. CopyOf(t, todo, i) \in new
    BY DEF Copies
  <2>2. CopyOf(t, todo, i).tenant = t /\ CopyOf(t, todo, i).body = i.body
    BY DEF CopyOf
  <2> QED
    BY <2>1, <2>2, Zenon
<1>5. \A i \in snapshot \ failing : i \in todo \/ i.id \in Here(t)
  BY DEF ToDo
<1> HIDE DEF todo, new, count
<1>6. /\ nextId \in Nat /\ \A i \in items \union snapshot : i.id \in Nat /\ i.id < nextId
  BY DEF ItemInv, Kept
<1>7. \A c \in new : c.id \in Nat
  BY <1>3 DEF Kept
<1>8. nextId' \in Nat /\ \A i \in items' \union snapshot' : i.id < nextId'
  BY <1>1, <1>3, <1>6, <1>7
<1>9. items' \in SUBSET Kept /\ IsFiniteSet(items')
  BY <1>1, <1>3, FS_Union DEF ItemInv
<1>10. \A i \in items \union snapshot, c \in new : i.id # c.id
  BY <1>3, <1>6, <1>7
<1>11. Named(items', items') /\ Named(snapshot', items')
  BY <1>1, <1>3, <1>10 DEF Named, ItemInv
<1>12. ASSUME NEW i \in snapshot \ failing
       PROVE  \E j \in items' : j.tenant = t /\ j.body = i.body
  <2>1. CASE i \in todo
    BY <1>1, <1>4, <2>1
  <2>2. CASE i.id \in Here(t)
    <3>1. PICK j \in items : j.tenant = t /\ j.id = i.id
      BY <2>2 DEF Here, Registry!ItemsOf
    <3>2. i = j
      BY <3>1 DEF ItemInv, Named
    <3> QED
      BY <1>1, <3>1, <3>2
  <2> QED
    BY <1>5, <2>1, <2>2
<1>13. imported'.target = t /\ imported'.bodies = {i.body : i \in snapshot \ failing}
  BY <1>1
<1>14. imported'.bodies \subseteq {i.body : i \in (Registry!ItemsOf(imported.target))'}
  <2>1. (Registry!ItemsOf(imported.target))' = {i \in items' : i.tenant = t}
    BY <1>13 DEF Registry!ItemsOf
  <2> QED
    BY <1>12, <1>13, <2>1
<1>15. Registry!ImportIsComplete'
  BY <1>11, <1>14 DEF Registry!ImportIsComplete, Named
<1> QED
  BY <1>1, <1>8, <1>9, <1>11, <1>15 DEF ItemInv

LEMMA ItemsKeepInv ==
  ASSUME ItemInv, Registry!MigrationNext
  PROVE  ItemInv'
<1> USE DEF Named, Registry!ImportIsComplete
<1>1. ASSUME NEW t \in Tenants, NEW b \in Bodies, Registry!CreateItem(t, b) PROVE ItemInv'
  <2> DEFINE new == [id |-> nextId, tenant |-> t, body |-> b]
  <2>1. items' = items \union {new} /\ nextId' = nextId + 1 /\ snapshot' = snapshot
        /\ imported' = Registry!NoImport
    BY <1>1 DEF Registry!CreateItem
  <2>2. new \in Kept /\ new.id = nextId
    BY DEF Kept, ItemInv
  <2> HIDE DEF new
  <2>3. nextId \in Nat /\ \A i \in items \union snapshot : i.id \in Nat /\ i.id < nextId
    BY DEF ItemInv, Kept
  <2>4. IsFiniteSet(items') /\ items' \in SUBSET Kept
    BY <2>1, <2>2, FS_AddElement DEF ItemInv
  <2>5. nextId' \in Nat /\ \A i \in items' \union snapshot' : i.id < nextId'
    BY <2>1, <2>2, <2>3
  <2>6. Named(items', items') /\ Named(snapshot', items')
    BY <2>1, <2>2, <2>3 DEF ItemInv
  <2> QED
    BY <2>1, <2>4, <2>5, <2>6 DEF ItemInv
<1>2. ASSUME NEW i \in items, Registry!DeleteItem(i) PROVE ItemInv'
  <2>1. items' = items \ {i} /\ nextId' = nextId /\ snapshot' = snapshot
        /\ imported' = Registry!NoImport
    BY <1>2 DEF Registry!DeleteItem
  <2>2. IsFiniteSet(items')
    BY <2>1, FS_RemoveElement DEF ItemInv
  <2> QED
    BY <2>1, <2>2 DEF ItemInv
<1>3. ASSUME NEW t \in Tenants, Registry!CreateTenant(t) \/ Registry!DeleteTenant(t)
      PROVE  ItemInv'
  <2>1. UNCHANGED <<items, nextId, snapshot, imported>>
    BY <1>3 DEF Registry!CreateTenant, Registry!DeleteTenant
  <2> QED
    BY <2>1 DEF ItemInv, Registry!ItemsOf
<1>4. ASSUME NEW t \in Tenants, Registry!ExportTenant(t) PROVE ItemInv'
  <2>1. snapshot' = Registry!ItemsOf(t) /\ imported' = Registry!NoImport
        /\ UNCHANGED <<items, nextId>>
    BY <1>4 DEF Registry!ExportTenant
  <2>2. Registry!ItemsOf(t) \subseteq items
    BY DEF Registry!ItemsOf
  <2>3. IsFiniteSet(snapshot')
    BY <2>1, <2>2, FS_Subset DEF ItemInv
  <2> QED
    BY <2>1, <2>2, <2>3 DEF ItemInv
<1> QED
  BY <1>1, <1>2, <1>3, <1>4, ImportKeepsInv DEF Registry!MigrationNext

LEMMA ValidationKeepsInv ==
  ASSUME CheckInv, Registry!ValidationNext
  PROVE  CheckInv'
<1>1. ASSUME NEW c \in Checks, NEW result, Registry!CheckSettles(c, result)
      PROVE  CheckInv'
  BY <1>1 DEF Registry!CheckSettles, CheckInv
<1>2. CASE Registry!Validated
  BY <1>2 DEF Registry!Validated, CheckInv
<1> QED
  BY <1>1, <1>2 DEF Registry!ValidationNext


LEMMA TenantsKeepInv ==
  ASSUME MaxKeys \in Nat, Ring \in Nat, TenantInv, RegistryStep
  PROVE  TenantInv'
<1> USE DEF TenantInv
<1>1. UNCHANGED Registry!keyVars => KeyInv'
  BY DEF KeyInv, Registry!RevokedStaysOut, Registry!keyVars
<1>2. UNCHANGED Registry!logVars => EventLogInv'
  BY DEF EventLogInv, Registry!LogIsUnbroken, Registry!logVars
<1>3. UNCHANGED Registry!migrationVars => ItemInv'
  BY DEF ItemInv, Registry!ImportIsComplete, Registry!ItemsOf, Named, Registry!migrationVars
<1>4. UNCHANGED Registry!validationVars => CheckInv'
  BY DEF CheckInv, Registry!validationVars
<1>5. CASE Registry!KeysNext
  <2>1. UNCHANGED <<Registry!migrationVars, Registry!validationVars>>
    BY <1>5 DEF Registry!KeysNext, Registry!PostKey, Registry!DeleteKey, Registry!RotateKey,
       Registry!Request, Registry!Lapse, Registry!OpenStream, Registry!Restart
  <2> QED
    BY <1>3, <1>4, <1>5, <2>1, KeysKeepInv, EventsKeepInv
<1>6. CASE Registry!MigrationNext
  <2>1. UNCHANGED <<Registry!keyVars, Registry!logVars, Registry!validationVars>>
    BY <1>6, ImportAdds DEF Registry!MigrationNext, Registry!CreateItem, Registry!DeleteItem,
       Registry!CreateTenant, Registry!DeleteTenant, Registry!ExportTenant
  <2> QED
    BY <1>1, <1>2, <1>4, <1>6, <2>1, ItemsKeepInv
<1>7. CASE Registry!ValidationNext
  <2>1. UNCHANGED <<Registry!keyVars, Registry!logVars, Registry!migrationVars>>
    BY <1>7 DEF Registry!ValidationNext, Registry!CheckSettles, Registry!Validated
  <2> QED
    BY <1>1, <1>2, <1>3, <1>7, <2>1, ValidationKeepsInv
<1>8. CASE UNCHANGED registryVars
  BY <1>1, <1>2, <1>3, <1>4, <1>8 DEF registryVars, Registry!keyVars, Registry!logVars,
     Registry!migrationVars, Registry!validationVars
<1> QED
  BY <1>5, <1>6, <1>7, <1>8 DEF RegistryStep, Registry!Next

LEMMA TenantsBegin ==
  ASSUME MaxKeys \in Nat, Ring \in Nat, Registry!Init
  PROVE  TenantInv
<1> USE DEF Registry!Init
<1>1. KeyInv
  BY DEF KeyInv, Registry!RevokedStaysOut
<1>2. EventLogInv
  BY DEF EventLogInv, Registry!LogIsUnbroken, Registry!KeepLast
<1>3. ItemInv
  BY FS_EmptySet DEF ItemInv, Named, Registry!ImportIsComplete
<1>4. CheckInv
  BY DEF CheckInv
<1> QED
  BY <1>1, <1>2, <1>3, <1>4 DEF TenantInv

LEMMA TenantsAreSound ==
  ASSUME TenantInv
  PROVE  Registry!TenantsSound
BY DEF TenantInv, KeyInv, EventLogInv, ItemInv, CheckInv, Registry!TenantsSound

-----------------------------------------------------------------------------
\* What is kept is sound: a step of an onboarding was settled before the next, a version
\* that runs is there, a session stands on a node of its flow, what a tenant is assigned can
\* be looked up, a profile that was deleted stays so and a voice that was enrolled is known,
\* a revoked key stays out and an import is complete, after failed writes, deletions and
\* restarts too (StoresSound; flows.ts, OnboardingStore.ts, AgentVersionStore.ts,
\* PersonaStore.ts, AgentTemplateStore.ts, VoiceProfileStore.ts, ApiKeyStore.ts and the
\* others). Graphs may have any nodes but the mark of who stands on none.
THEOREM StoresAreSound ==
  ASSUME Last \in Nat, Near \in Nat, Features \subseteq Int, MaxKeys \in Nat, Ring \in Nat,
         Offered!BuiltIn \notin Templates,
         NEW N, NoNode \notin N, Graphs \subseteq Contents(N)
  PROVE  Spec => []StoresSound
<1> DEFINE StoresInv == /\ WizardInv /\ VersionInv /\ FlowInv(N) /\ OfferInv
                        /\ VoiceInv /\ TenantInv
<1>1. Init => StoresInv
  BY WizardBegins, VersionsBegin, FlowsBegin, OffersBegin, VoicesBegin, TenantsBegin DEF Init
<1>2. StoresInv /\ [Next]_vars => StoresInv'
  <2> SUFFICES ASSUME StoresInv, [Next]_vars PROVE StoresInv'
    OBVIOUS
  <2>1. /\ FlowStep /\ OfferStep /\ VoiceStep /\ WizardStep /\ VersionStep /\ RegistryStep
    BY PartsStep
  <2> QED
    BY <2>1, WizardKeepsInv, VersionsKeepInv, FlowKeepsInv, OffersKeepInv, VoicesKeepInv,
       TenantsKeepInv
<1>3. StoresInv => StoresSound
  BY WizardIsSound, VersionsAreSound, OffersAreSound, VoicesAreSound, TenantsAreSound
     DEF StoresSound, FlowInv
<1> QED
  BY <1>1, <1>2, <1>3, PTL DEF Spec

\* The stores choose as they do alone.
LEMMA StoresChoose == Spec => ChoicesSpec
<1>1. Init => ChoicesInit
  BY DEF Init
<1>2. [Next]_vars => [ChoicesNext]_choiceVars
  BY DEF Next, vars
<1> QED
  BY <1>1, <1>2, PTL DEF Spec, ChoicesSpec

\* So what is proved of the choices in Choices_proofs holds in the stores (ChoicesSound).
THEOREM ChoicesAreSound == Spec => []ChoicesSound
BY StoresChoose, ChoicesHold, PTL

\* And so do the recordings, the memories, the reports and the workbench.
LEMMA StoresRecord == Spec => RecordsSpec
<1>1. Init => RecordsInit
  BY DEF Init
<1>2. [Next]_vars => [RecordsNext]_recordsVars
  <2> SUFFICES ASSUME [Next]_vars PROVE RecordsNext
    OBVIOUS
  <2>1. CASE Next
    <3>1. [Taped!Next]_tapeVars
      BY <2>1 DEF Next, Taped!Next
    <3>2. [Remember!Next]_memoryVars
      BY <2>1 DEF Next, Remember!Next
    <3>3. [Report!Next]_reportVars
      BY <2>1 DEF Next, Report!Next
    <3>4. [Bench!Next]_benchVars
      BY <2>1 DEF Next, Bench!Next
    <3> QED
      BY <3>1, <3>2, <3>3, <3>4 DEF RecordsNext
  <2>2. CASE UNCHANGED vars
    BY <2>2 DEF vars, recordsVars, RecordsNext
  <2> QED
    BY <2>1, <2>2
<1> QED
  BY <1>1, <1>2, PTL DEF Spec, RecordsSpec

\* So what is told of a call later agrees in the stores with what was kept of it, for any
\* calls, sessions, turns, scripts and claims, and whichever part runs (RecordsSound).
THEOREM RecordsAreSound == Spec => []RecordsSound
<1>1. RecordsHold => RecordsSound
  BY DEF RecordsHold, RecordsSound
<1> QED
  BY <1>1, StoresRecord, RecordsAlwaysHold, PTL
=============================================================================

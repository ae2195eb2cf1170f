--------------------------- MODULE Services_proofs ---------------------------
(* Proofs about the services and clients around the voice session, for any   *)
(* sets of supervisors, sessions, tenants, calls, requests, subsystems and    *)
(* events to deliver, any limits, and any number of attempts to connect, of   *)
(* chunks and of texts. Each part has an inductive invariant of its own; a    *)
(* step of the services is one of each part, or leaves that part alone.       *)
EXTENDS Services, FiniteSetTheorems, SequenceTheorems, WellFoundedInduction, TLAPS

ShutdownStep == [Shutdown!Next]_shutdownVars
BridgeStep == [Bridge!Next]_bridgeVars
QueueStep == [Queue!Next]_queueVars
ConsoleStep == [Console!Next]_consoleVars
CallbackStep == [Callbacks!Next]_callbacksVars
AuditStep == [Audit!Next]_auditVars
WebhookStep == [Webhooks!Next]_webhooksVars
RateStep == [Rates!Next]_ratesVars
PolicyStep == [Policy!Next]_policyVars
HealthStep == [Health!Next]_healthVars
LibraryStep == [Library!Next]_libraryVars
SdkStep == [Sdk!Next]_sdkVars
BrowserStep == [Browser!Next]_browserVars
PlayerStep == [Player!Next]_playerVars

LEMMA PartsStep ==
  [Next]_vars => /\ ShutdownStep /\ BridgeStep /\ QueueStep /\ ConsoleStep /\ CallbackStep
                 /\ AuditStep /\ WebhookStep /\ RateStep /\ PolicyStep /\ HealthStep
                 /\ LibraryStep /\ SdkStep /\ BrowserStep /\ PlayerStep
BY DEF Next, vars, ShutdownStep, BridgeStep, QueueStep, ConsoleStep, CallbackStep,
  AuditStep, WebhookStep, RateStep, PolicyStep, HealthStep, LibraryStep, SdkStep, BrowserStep,
  PlayerStep

-----------------------------------------------------------------------------
(* The end of the process.                                                    *)

\* The values that the variables take.
ShutdownTypes ==
  /\ phase \in {"serving", "requests", "sockets", "closing"}
  /\ clock \in Nat /\ deadline \in Nat
  /\ request \in [Requests -> {"none", "running", "finished", "closed"}]
  /\ count \in Nat
  /\ drainSocket \in [Shutdown!Sockets -> {"none", "open", "closing", "gone"}]
  /\ closing \subseteq Shutdown!Targets
  /\ exit \in {"none", "clean", "forced"}

\* What has called back stays released, since a server that closes lets nobody in.
ClosedStayReleased ==
  /\ IF phase = "closing"
     THEN \A t \in Shutdown!Targets \ closing : Shutdown!Released(t)
     ELSE closing = {}
  /\ exit = "clean" => phase = "closing" /\ closing = {}

\* What the drains that gave up have used of the time.
TimeIsSpent ==
  /\ phase \in {"serving", "requests"} => timedOut = {}
  /\ phase = "requests" => deadline = DrainFor
  /\ phase = "sockets" => /\ timedOut \subseteq {"requests"}
                          /\ "requests" \in timedOut => deadline >= DrainFor + DrainFor
  /\ timedOut = {"requests", "sockets"} => clock >= DrainFor + DrainFor

-----------------------------------------------------------------------------
\* Every step keeps the types.
LEMMA ShutdownTypesStep ==
  ASSUME DrainFor \in Nat
  PROVE  ShutdownTypes /\ ShutdownStep => ShutdownTypes'
<1> SUFFICES ASSUME ShutdownTypes, ShutdownStep PROVE ShutdownTypes'
  OBVIOUS
<1> USE DEF ShutdownTypes
<1>1. ASSUME NEW r \in Requests, Shutdown!RequestArrives(r) PROVE ShutdownTypes'
  BY <1>1 DEF Shutdown!RequestArrives
<1>2. ASSUME NEW r \in Requests, Shutdown!ResponseFinishes(r) PROVE ShutdownTypes'
  BY <1>2 DEF Shutdown!ResponseFinishes, Shutdown!Decrement
<1>3. ASSUME NEW r \in Requests, Shutdown!ResponseCloses(r) PROVE ShutdownTypes'
  BY <1>3 DEF Shutdown!ResponseCloses, Shutdown!Decrement
<1>4. ASSUME NEW s \in Shutdown!Sockets, Shutdown!Connect(s) PROVE ShutdownTypes'
  BY <1>4 DEF Shutdown!Connect
<1>5. ASSUME NEW s \in Shutdown!Sockets, Shutdown!Disconnect(s) PROVE ShutdownTypes'
  BY <1>5 DEF Shutdown!Disconnect
<1>6. CASE Shutdown!Signal
  BY <1>6 DEF Shutdown!Signal, Shutdown!DrainSockets, Shutdown!CloseTargets
<1>7. CASE Shutdown!PollRequests
  BY <1>7 DEF Shutdown!PollRequests, Shutdown!DrainSockets, Shutdown!CloseTargets
<1>8. CASE Shutdown!PollSockets
  BY <1>8 DEF Shutdown!PollSockets, Shutdown!CloseTargets
<1>9. CASE Shutdown!ForceExit
  BY <1>9 DEF Shutdown!ForceExit, Shutdown!world
<1>10. CASE Shutdown!Tick
  BY <1>10 DEF Shutdown!Tick, Shutdown!world
<1>11. ASSUME NEW t \in Shutdown!Targets, Shutdown!TargetCloses(t) PROVE ShutdownTypes'
  BY <1>11 DEF Shutdown!TargetCloses, Shutdown!world
<1>12. CASE UNCHANGED shutdownVars
  BY <1>12 DEF shutdownVars
<1> QED
  BY <1>1, <1>2, <1>3, <1>4, <1>5, <1>6, <1>7, <1>8, <1>9, <1>10, <1>11, <1>12 DEF
    ShutdownStep, Shutdown!Next

-----------------------------------------------------------------------------
\* A set of requests under way grows by the one that arrives and shrinks by the one
\* that is counted out, and so does its size.
LEMMA RespondingCounts ==
  ASSUME IsFiniteSet(Requests)
  PROVE  /\ IsFiniteSet(Shutdown!Responding)
         /\ \A r \in Requests :
              /\ r \notin Shutdown!Responding =>
                   Cardinality(Shutdown!Responding \union {r})
                     = Cardinality(Shutdown!Responding) + 1
              /\ r \in Shutdown!Responding =>
                   /\ Cardinality(Shutdown!Responding) # 0
                   /\ Cardinality(Shutdown!Responding \ {r})
                        = Cardinality(Shutdown!Responding) - 1
<1>1. IsFiniteSet(Shutdown!Responding)
  BY FS_Subset DEF Shutdown!Responding
<1> QED
  BY <1>1, FS_AddElement, FS_RemoveElement, FS_EmptySet, FS_CardinalityType

LEMMA SameSize == \A S : Shutdown!Cardinality(S) = Cardinality(S)
BY DEF Shutdown!Cardinality, Cardinality

\* The count stays that of the responses under way.
LEMMA CountStaysExact ==
  ASSUME IsFiniteSet(Requests)
  PROVE  ShutdownTypes /\ Shutdown!CountIsExact /\ ShutdownStep => Shutdown!CountIsExact'
<1> SUFFICES ASSUME ShutdownTypes, Shutdown!CountIsExact, ShutdownStep PROVE Shutdown!CountIsExact'
  OBVIOUS
<1> USE DEF Shutdown!CountIsExact
<1>1. ASSUME NEW r \in Requests, Shutdown!RequestArrives(r) PROVE Shutdown!CountIsExact'
  <2>1. r \notin Shutdown!Responding /\ Shutdown!Responding' = Shutdown!Responding \union {r}
    BY <1>1 DEF Shutdown!RequestArrives, Shutdown!Responding, ShutdownTypes
  <2> QED
    BY <1>1, <2>1, RespondingCounts, SameSize DEF Shutdown!RequestArrives
<1>2. ASSUME NEW r \in Requests, Shutdown!ResponseFinishes(r) PROVE Shutdown!CountIsExact'
  <2>1. r \in Shutdown!Responding /\ Shutdown!Responding' = Shutdown!Responding \ {r}
    BY <1>2 DEF Shutdown!ResponseFinishes, Shutdown!Responding, ShutdownTypes
  <2> QED
    BY <1>2, <2>1, RespondingCounts, SameSize DEF Shutdown!ResponseFinishes,
      Shutdown!Decrement
<1>3. ASSUME NEW r \in Requests, Shutdown!ResponseCloses(r) PROVE Shutdown!CountIsExact'
  <2>1. CASE request[r] = "running"
    <3>1. r \in Shutdown!Responding /\ Shutdown!Responding' = Shutdown!Responding \ {r}
      BY <1>3, <2>1 DEF Shutdown!ResponseCloses, Shutdown!Responding, ShutdownTypes
    <3> QED
      BY <1>3, <2>1, <3>1, RespondingCounts, SameSize DEF Shutdown!ResponseCloses,
        Shutdown!Decrement
  <2>2. CASE request[r] = "finished"
    <3>1. Shutdown!Responding' = Shutdown!Responding
      BY <1>3, <2>2 DEF Shutdown!ResponseCloses, Shutdown!Responding, ShutdownTypes
    <3> QED
      BY <1>3, <2>2, <3>1 DEF Shutdown!ResponseCloses
  <2> QED
    BY <1>3, <2>1, <2>2 DEF Shutdown!ResponseCloses
<1>4. CASE UNCHANGED <<request, count>>
  BY <1>4 DEF Shutdown!Responding
<1>5. CASE \/ \E s \in Shutdown!Sockets : Shutdown!Connect(s) \/ Shutdown!Disconnect(s)
           \/ Shutdown!Signal \/ Shutdown!PollRequests \/ Shutdown!PollSockets
           \/ Shutdown!ForceExit \/ Shutdown!Tick
           \/ \E t \in Shutdown!Targets : Shutdown!TargetCloses(t)
  BY <1>4, <1>5 DEF Shutdown!Connect, Shutdown!Disconnect, Shutdown!Signal,
    Shutdown!PollRequests, Shutdown!PollSockets, Shutdown!ForceExit, Shutdown!Tick,
                    Shutdown!TargetCloses, Shutdown!world
<1> QED
  BY <1>1, <1>2, <1>3, <1>4, <1>5 DEF ShutdownStep, Shutdown!Next, shutdownVars

-----------------------------------------------------------------------------
\* A target that has called back stays released, and a clean exit follows all three.
LEMMA ReleasedStay == ShutdownTypes /\ ClosedStayReleased /\ ShutdownStep => ClosedStayReleased'
<1> SUFFICES ASSUME ShutdownTypes, ClosedStayReleased, ShutdownStep PROVE ClosedStayReleased'
  OBVIOUS
<1> USE DEF ShutdownTypes, ClosedStayReleased
<1>1. ASSUME NEW r \in Requests, Shutdown!RequestArrives(r) PROVE ClosedStayReleased'
  BY <1>1 DEF Shutdown!RequestArrives
<1>2. ASSUME NEW r \in Requests, Shutdown!ResponseFinishes(r) \/ Shutdown!ResponseCloses(r)
      PROVE  ClosedStayReleased'
  <2>1. Shutdown!Responding' \subseteq Shutdown!Responding
    BY <1>2 DEF Shutdown!ResponseFinishes, Shutdown!ResponseCloses, Shutdown!Responding
  <2>2. UNCHANGED <<phase, closing, exit, drainSocket>>
    BY <1>2 DEF Shutdown!ResponseFinishes, Shutdown!ResponseCloses
  <2> QED
    BY <2>1, <2>2 DEF Shutdown!Released
<1>3. ASSUME NEW s \in Shutdown!Sockets, Shutdown!Connect(s) PROVE ClosedStayReleased'
  BY <1>3 DEF Shutdown!Connect
<1>4. ASSUME NEW s \in Shutdown!Sockets, Shutdown!Disconnect(s) PROVE ClosedStayReleased'
  <2>1. \A c \in Shutdown!Sockets :
          drainSocket[c] \in {"none", "gone"} => drainSocket'[c] \in {"none", "gone"}
    BY <1>4 DEF Shutdown!Disconnect
  <2>2. UNCHANGED <<phase, closing, exit, request>>
    BY <1>4 DEF Shutdown!Disconnect
  <2>3. Shutdown!Responding' = Shutdown!Responding
    BY <2>2 DEF Shutdown!Responding
  <2> QED
    BY <2>1, <2>2, <2>3 DEF Shutdown!Released, Shutdown!Sockets
<1>5. CASE Shutdown!Signal \/ Shutdown!PollRequests \/ Shutdown!PollSockets
  <2>1. exit = "none" /\ UNCHANGED exit
    BY <1>5 DEF Shutdown!Signal, Shutdown!PollRequests, Shutdown!PollSockets,
      Shutdown!Running
  <2>2. IF phase' = "closing" THEN closing' = Shutdown!Targets ELSE closing' = closing
    BY <1>5 DEF Shutdown!Signal, Shutdown!PollRequests, Shutdown!PollSockets,
      Shutdown!DrainSockets, Shutdown!CloseTargets
  <2>3. phase # "closing"
    BY <1>5 DEF Shutdown!Signal, Shutdown!PollRequests, Shutdown!PollSockets
  <2> QED
    BY <2>1, <2>2, <2>3
<1>6. CASE Shutdown!ForceExit
  <2>1. UNCHANGED <<phase, closing, request, drainSocket>> /\ exit' = "forced"
    BY <1>6 DEF Shutdown!ForceExit, Shutdown!world
  <2> QED
    BY <2>1 DEF Shutdown!Released, Shutdown!Responding
<1>7. ASSUME NEW t \in Shutdown!Targets, Shutdown!TargetCloses(t) PROVE ClosedStayReleased'
  <2>1. UNCHANGED <<phase, request, drainSocket>>
        /\ closing' = closing \ {t} /\ Shutdown!Released(t)
    BY <1>7 DEF Shutdown!TargetCloses, Shutdown!world
  <2>2. phase = "closing" => \A u \in Shutdown!Targets \ closing' : Shutdown!Released(u)
    BY <2>1
  <2>3. phase' = "closing" => \A u \in Shutdown!Targets \ closing' : Shutdown!Released(u)'
    BY <2>1, <2>2 DEF Shutdown!Released, Shutdown!Responding
  <2>4. phase = "closing"
    BY <1>7 DEF Shutdown!TargetCloses
  <2>5. exit' = "clean" => closing' = {}
    BY <1>7, <2>1 DEF Shutdown!TargetCloses, Shutdown!Running
  <2> QED
    BY <2>1, <2>3, <2>4, <2>5
<1>8. CASE UNCHANGED <<phase, closing, exit, request, drainSocket>>
  BY <1>8 DEF Shutdown!Released, Shutdown!Responding
<1>9. CASE Shutdown!Tick \/ UNCHANGED shutdownVars
  BY <1>8, <1>9 DEF Shutdown!Tick, Shutdown!world, shutdownVars
<1> QED
  BY <1>1, <1>2, <1>3, <1>4, <1>5, <1>6, <1>7, <1>9 DEF ShutdownStep, Shutdown!Next

\* Of three targets that have called back, nothing is left open.
LEMMA ReleasedCutsNobody == ShutdownTypes /\ ClosedStayReleased => Shutdown!CleanExitCutsNobody
BY DEF ShutdownTypes, ClosedStayReleased, Shutdown!CleanExitCutsNobody, Shutdown!Released,
  Shutdown!Targets, Shutdown!Sockets

-----------------------------------------------------------------------------
\* Whoever is connected while the server drains stays told.
LEMMA ToldStay ==
  ShutdownTypes /\ Shutdown!ConnectedAreTold /\ ShutdownStep => Shutdown!ConnectedAreTold'
<1> SUFFICES ASSUME ShutdownTypes, Shutdown!ConnectedAreTold, ShutdownStep, draining'
             PROVE  Shutdown!Connections' \subseteq told'
  BY DEF Shutdown!ConnectedAreTold
<1> USE DEF ShutdownTypes, Shutdown!ConnectedAreTold
<1>1. ASSUME NEW s \in Shutdown!Sockets, Shutdown!Connect(s)
      PROVE  Shutdown!Connections' \subseteq told'
  BY <1>1 DEF Shutdown!Connect, Shutdown!Connections, Shutdown!Sockets
<1>2. ASSUME NEW s \in Shutdown!Sockets, Shutdown!Disconnect(s)
      PROVE  Shutdown!Connections' \subseteq told'
  BY <1>2 DEF Shutdown!Disconnect, Shutdown!Connections, Shutdown!Sockets
<1>3. CASE Shutdown!Signal \/ Shutdown!PollRequests
  <2>1. CASE Shutdown!DrainSockets
    <3>1. Shutdown!Connections' \subseteq Shutdown!Connections
      BY <2>1, <1>3 DEF Shutdown!DrainSockets, Shutdown!CloseTargets, Shutdown!Connections,
        Shutdown!Signal, Shutdown!PollRequests, Shutdown!Sockets
    <3> QED
      BY <2>1, <3>1 DEF Shutdown!DrainSockets
  <2>2. CASE UNCHANGED <<drainSocket, draining, told>>
    BY <2>2 DEF Shutdown!Connections
  <2> QED
    BY <1>3, <2>1, <2>2 DEF Shutdown!Signal, Shutdown!PollRequests
<1>4. CASE Shutdown!PollSockets
  BY <1>4 DEF Shutdown!PollSockets, Shutdown!CloseTargets, Shutdown!Connections,
    Shutdown!Sockets
<1>5. CASE UNCHANGED <<drainSocket, draining, told>>
  BY <1>5 DEF Shutdown!Connections
<1>6. CASE \/ \E r \in Requests : \/ Shutdown!RequestArrives(r) \/ Shutdown!ResponseFinishes(r)
                                 \/ Shutdown!ResponseCloses(r)
           \/ Shutdown!ForceExit \/ Shutdown!Tick
           \/ \E t \in Shutdown!Targets : Shutdown!TargetCloses(t)
  BY <1>5, <1>6 DEF Shutdown!RequestArrives, Shutdown!ResponseFinishes,
    Shutdown!ResponseCloses, Shutdown!ForceExit, Shutdown!Tick,
                    Shutdown!TargetCloses, Shutdown!world
<1> QED
  BY <1>1, <1>2, <1>3, <1>4, <1>5, <1>6 DEF ShutdownStep, Shutdown!Next, shutdownVars

-----------------------------------------------------------------------------
\* Each drain that gives up has used its share of the time.
LEMMA TimeStaysSpent ==
  ASSUME DrainFor \in Nat
  PROVE  ShutdownTypes /\ TimeIsSpent /\ ShutdownStep => TimeIsSpent'
<1> SUFFICES ASSUME ShutdownTypes, TimeIsSpent, ShutdownStep PROVE TimeIsSpent'
  OBVIOUS
<1> USE DEF ShutdownTypes, TimeIsSpent
<1>1. CASE Shutdown!Signal
  BY <1>1 DEF Shutdown!Signal, Shutdown!DrainSockets, Shutdown!CloseTargets
<1>2. CASE Shutdown!PollRequests
  <2>1. timedOut = {} /\ deadline = DrainFor /\ phase' \in {"sockets", "closing"}
    BY <1>2 DEF Shutdown!PollRequests, Shutdown!DrainSockets, Shutdown!CloseTargets
  <2>2. /\ timedOut' \subseteq {"requests"}
        /\ "requests" \in timedOut' => clock >= DrainFor
    BY <1>2, <2>1 DEF Shutdown!PollRequests
  <2>3. phase' = "sockets" => deadline' = clock + DrainFor
    BY <1>2 DEF Shutdown!PollRequests, Shutdown!DrainSockets, Shutdown!CloseTargets
  <2> QED
    BY <2>1, <2>2, <2>3
<1>3. CASE Shutdown!PollSockets
  <2>1. phase' = "closing" /\ UNCHANGED clock
    BY <1>3 DEF Shutdown!PollSockets, Shutdown!CloseTargets
  <2>2. timedOut' = {"requests", "sockets"} => clock >= DrainFor + DrainFor
    BY <1>3 DEF Shutdown!PollSockets
  <2> QED
    BY <2>1, <2>2
<1>4. CASE Shutdown!Tick
  BY <1>4 DEF Shutdown!Tick
<1>5. CASE UNCHANGED <<phase, clock, deadline, timedOut>>
  BY <1>5
<1>6. CASE \/ \E r \in Requests : \/ Shutdown!RequestArrives(r) \/ Shutdown!ResponseFinishes(r)
                                 \/ Shutdown!ResponseCloses(r)
           \/ \E s \in Shutdown!Sockets : Shutdown!Connect(s) \/ Shutdown!Disconnect(s)
           \/ Shutdown!ForceExit \/ \E t \in Shutdown!Targets : Shutdown!TargetCloses(t)
  BY <1>5, <1>6 DEF Shutdown!RequestArrives, Shutdown!ResponseFinishes,
    Shutdown!ResponseCloses, Shutdown!Connect, Shutdown!Disconnect,
                    Shutdown!ForceExit, Shutdown!TargetCloses
<1> QED
  BY <1>1, <1>2, <1>3, <1>4, <1>5, <1>6 DEF ShutdownStep, Shutdown!Next, shutdownVars

-----------------------------------------------------------------------------
\* All of it together: inductive, and enough for an orderly end.
OrderlyInv == /\ ShutdownTypes /\ Shutdown!CountIsExact /\ ClosedStayReleased
              /\ Shutdown!ConnectedAreTold /\ TimeIsSpent

LEMMA OrderlyIsInductive ==
  ASSUME DrainFor \in Nat, ForceAfter \in Nat, ForceAfter <= DrainFor + DrainFor,
         IsFiniteSet(Requests)
  PROVE  /\ Shutdown!Init => OrderlyInv
         /\ OrderlyInv /\ ShutdownStep => OrderlyInv'
         /\ OrderlyInv => Shutdown!Orderly
<1>1. Shutdown!Init => OrderlyInv
  <2> SUFFICES ASSUME Shutdown!Init PROVE OrderlyInv
    OBVIOUS
  <2>1. ShutdownTypes
    BY DEF Shutdown!Init, ShutdownTypes, Shutdown!Targets
  <2>2. Shutdown!CountIsExact
    <3>1. Shutdown!Responding = {}
      BY DEF Shutdown!Init, Shutdown!Responding
    <3> QED
      BY <3>1, FS_EmptySet, SameSize DEF Shutdown!Init, Shutdown!CountIsExact
  <2>3. ClosedStayReleased /\ Shutdown!ConnectedAreTold /\ TimeIsSpent
    BY DEF Shutdown!Init, ClosedStayReleased, Shutdown!ConnectedAreTold, TimeIsSpent
  <2> QED
    BY <2>1, <2>2, <2>3 DEF OrderlyInv
<1>2. OrderlyInv /\ ShutdownStep => OrderlyInv'
  BY ShutdownTypesStep, CountStaysExact, ReleasedStay, ToldStay, TimeStaysSpent DEF
    OrderlyInv
<1>3. OrderlyInv => Shutdown!Orderly
  <2>1. ShutdownTypes /\ TimeIsSpent => Shutdown!NoTimeAfterTwoTimeouts
    BY DEF ShutdownTypes, TimeIsSpent, Shutdown!NoTimeAfterTwoTimeouts
  <2> QED
    BY <2>1, ReleasedCutsNobody DEF Shutdown!Orderly, OrderlyInv
<1> QED
  BY <1>1, <1>2, <1>3

-----------------------------------------------------------------------------
(* Sequences that lose a place.                                             *)

\* The first of some places.
LEMMA LeastPlace ==
  ASSUME NEW I \in SUBSET Nat, I # {}
  PROVE  \E m \in I : \A y \in I : m <= y
<1> DEFINE R == OpToRel(<, Nat)
<1>1. \A x, y \in Nat : y < x => <<y, x>> \in R
  BY Zenon DEF OpToRel
<1>2. IsWellFoundedOn(R, Nat)
  BY NatLessThanWellFounded
<1> HIDE DEF R
<1>3. PICK m \in I : \A y \in I : ~(<<y, m>> \in R)
  BY <1>2, WFMin
<1>4. \A y \in I : ~(y < m)
  BY <1>1, <1>3
<1> QED
  BY <1>4

\* A sequence without its k-th place, and where each place of that comes from.
Without(q, k) == SubSeq(q, 1, k - 1) \o SubSeq(q, k + 1, Len(q))
From(j, k) == IF j < k THEN j ELSE j + 1

\* What is left in r of a sequence.
LeftOf(q, k, r) ==
  /\ Len(r) = Len(q) - 1
  /\ \A j \in DOMAIN r : From(j, k) \in DOMAIN q \ {k} /\ r[j] = q[From(j, k)]
  /\ \A j, m \in DOMAIN r : From(j, k) = From(m, k) => j = m
  /\ \A j \in DOMAIN q \ {k} : \E m \in DOMAIN r : r[m] = q[j]

LEMMA OneTakenOut ==
  ASSUME NEW S, NEW q \in Seq(S), NEW k \in 1..Len(q), NEW r, r = Without(q, k)
  PROVE  r \in Seq(S) /\ LeftOf(q, k, r)
<1> DEFINE a == SubSeq(q, 1, k - 1)
           b == SubSeq(q, k + 1, Len(q))
<1>1. k \in Nat /\ k # 0 /\ k <= Len(q) /\ Len(q) \in Nat
  OBVIOUS
<1>2. /\ a \in Seq(S) /\ Len(a) = k - 1
      /\ \A j \in 1..(k - 1) : a[j] = q[j]
  <2>1. \A i \in 1..(k - 1) : q[i] \in S
    BY <1>1
  <2> QED
    BY <1>1, <2>1, SubSeqProperties
<1>3. /\ b \in Seq(S) /\ Len(b) = Len(q) - k
      /\ \A j \in 1..(Len(q) - k) : b[j] = q[j + k]
  <2>1. \A i \in (k + 1)..Len(q) : q[i] \in S
    BY <1>1
  <2> QED
    BY <1>1, <2>1, SubSeqProperties
<1>4. r = a \o b
  BY DEF Without
<1> HIDE DEF a, b
<1>5. /\ r \in Seq(S) /\ Len(r) = Len(a) + Len(b)
      /\ \A j \in 1..(Len(a) + Len(b)) : r[j] = IF j <= Len(a) THEN a[j] ELSE b[j - Len(a)]
  <2>1. /\ a \o b \in Seq(S) /\ Len(a \o b) = Len(a) + Len(b)
        /\ \A j \in 1..(Len(a) + Len(b)) :
             (a \o b)[j] = IF j <= Len(a) THEN a[j] ELSE b[j - Len(a)]
    BY <1>2, <1>3, ConcatProperties
  <2> QED
    BY <1>4, <2>1
<1>6. Len(r) = Len(q) - 1 /\ DOMAIN r = 1..(Len(q) - 1) /\ DOMAIN q = 1..Len(q)
  BY <1>1, <1>2, <1>3, <1>5
<1>7. ASSUME NEW j \in 1..(Len(q) - 1)
      PROVE  From(j, k) \in 1..Len(q) /\ From(j, k) # k /\ r[j] = q[From(j, k)]
  <2>1. j \in 1..(Len(a) + Len(b))
    BY <1>1, <1>2, <1>3
  <2>2. CASE j < k
    BY <1>1, <1>2, <1>5, <2>1, <2>2 DEF From
  <2>3. CASE j >= k
    <3>1. j - (k - 1) \in 1..(Len(q) - k) /\ (j - (k - 1)) + k = j + 1
      BY <1>1, <2>3
    <3>2. r[j] = b[j - (k - 1)]
      BY <1>1, <1>2, <1>5, <2>1, <2>3
    <3> QED
      BY <1>1, <1>3, <2>3, <3>1, <3>2 DEF From
  <2> QED
    BY <1>1, <2>2, <2>3
<1>8. ASSUME NEW j \in 1..Len(q), j # k PROVE \E m \in 1..(Len(q) - 1) : r[m] = q[j]
  <2>1. CASE j < k
    <3>1. j \in 1..(Len(q) - 1) /\ From(j, k) = j
      BY <1>1, <2>1 DEF From
    <3> QED
      BY <1>7, <3>1
  <2>2. CASE j > k
    <3>1. j - 1 \in 1..(Len(q) - 1) /\ From(j - 1, k) = j
      BY <1>1, <2>2 DEF From
    <3> QED
      BY <1>7, <3>1
  <2> QED
    BY <1>1, <1>8, <2>1, <2>2
<1>9. \A j, m \in 1..(Len(q) - 1) : From(j, k) = From(m, k) => j = m
  BY <1>1 DEF From
<1> QED
  BY <1>5, <1>6, <1>7, <1>8, <1>9 DEF LeftOf

-----------------------------------------------------------------------------
(* The supervisor console.                                                    *)

ConsoleTypes ==
  /\ consoleSocket \in [Desks -> {"none", "open", "closing"}]
  /\ watching \in [Desks -> Console!Ids]
  /\ watchers \in [Console!Ids -> SUBSET Desks]

\* Who is not connected watches nothing.
GoneWatchNothing == \A w \in Desks : consoleSocket[w] = "none" => watching[w] = NoSession

ConsoleInv == ConsoleTypes /\ GoneWatchNothing /\ Console!Watched

LEMMA ConsoleKeepsInv ==
  ASSUME NoSession \notin Sessions
  PROVE  ConsoleInv /\ ConsoleStep => ConsoleInv'
<1> SUFFICES ASSUME ConsoleInv, ConsoleStep PROVE ConsoleInv'
  OBVIOUS
<1> USE DEF ConsoleInv, ConsoleTypes, GoneWatchNothing, Console!Watched, Console!Audience,
            Console!Ids
<1>1. ASSUME NEW w \in Desks, Console!Connect(w) PROVE ConsoleInv'
  BY <1>1 DEF Console!Connect
<1>2. ASSUME NEW w \in Desks, Console!Leave(w) PROVE ConsoleInv'
  BY <1>2 DEF Console!Leave, Console!Unwatched
<1>3. ASSUME NEW w \in Desks, Console!BeginClose(w) PROVE ConsoleInv'
  BY <1>3 DEF Console!BeginClose
<1>4. ASSUME NEW w \in Desks, Console!Close(w) PROVE ConsoleInv'
  BY <1>4 DEF Console!Close, Console!Unwatched
<1>5. ASSUME NEW w \in Desks, NEW i \in Console!Ids, Console!Join(w, i) PROVE ConsoleInv'
  BY <1>5 DEF Console!Join, Console!Unwatched
<1>6. CASE UNCHANGED consoleVars
  BY <1>6 DEF consoleVars
<1> QED
  BY <1>1, <1>2, <1>3, <1>4, <1>5, <1>6 DEF ConsoleStep, Console!Next

-----------------------------------------------------------------------------
(* The health monitor.                                                        *)

\* What a run that awaits its check found when it began.
Findings == [seen : {"none", "unknown", "healthy", "unhealthy"}, failures : Nat]

HealthTypes ==
  /\ threshold \in {1, 2} /\ known \subseteq Subsystems
  /\ healthStatus \in [Subsystems -> {"unknown", "healthy", "unhealthy"}]
  /\ healthFailures \in [Subsystems -> Nat]
  /\ begun \in [Subsystems -> [Rounds -> Findings]]
  /\ announced \in [Subsystems -> {"none", "degraded", "recovered"}]

\* As long as its runs have not overlapped, a check has one run at most, and that one
\* found what still holds.
OneRun ==
  \A c \in Subsystems \ healthOverlapped, r \in Rounds :
    begun[c][r] # Health!NotBegun =>
      /\ begun[c][r] = [seen |-> healthStatus[c], failures |-> healthFailures[c]]
      /\ \A q \in Rounds : q # r => begun[c][q] = Health!NotBegun

\* The status, the count and the announcement of such a check say the same.
CountFits ==
  \A c \in Subsystems \ healthOverlapped :
    /\ healthStatus[c] # "unhealthy" => healthFailures[c] = 0 /\ c \notin quiet
    /\ healthStatus[c] = "unhealthy" => healthFailures[c] > 0
    /\ healthStatus[c] = "unknown" => announced[c] = "none"
    /\ c \in quiet => healthFailures[c] >= threshold
    /\ c \notin quiet => (announced[c] = "degraded" <=> healthFailures[c] >= threshold)

HealthInv == HealthTypes /\ OneRun /\ CountFits

LEMMA ChecksBegin ==
  HealthInv /\ Health!RunAllChecks /\ UNCHANGED <<threshold, known>> => HealthInv'
<1> SUFFICES ASSUME HealthInv, Health!RunAllChecks, UNCHANGED <<threshold, known>>
             PROVE  HealthInv'
  OBVIOUS
<1> USE DEF HealthInv, HealthTypes
<1> DEFINE Free(c) == CHOOSE r \in Rounds : begun[c][r] = Health!NotBegun
<1>1. \A c \in known : Free(c) \in Rounds /\ begun[c][Free(c)] = Health!NotBegun
  BY DEF Health!RunAllChecks, Health!UnderWay
<1> DEFINE New(c) == IF c \in known
                    THEN [begun[c] EXCEPT ![Free(c)] =
                            [seen |-> healthStatus[c], failures |-> healthFailures[c]]]
                    ELSE begun[c]
<1>2. begun' = [c \in Subsystems |-> New(c)]
  BY DEF Health!RunAllChecks
<1> HIDE DEF Free
<1>3. HealthTypes'
  <2>1. \A c \in Subsystems : New(c) \in [Rounds -> Findings]
    BY <1>1 DEF Findings
  <2> HIDE DEF New
  <2>2. begun' \in [Subsystems -> [Rounds -> Findings]]
    BY <1>2, <2>1
  <2> QED
    BY <2>2 DEF Health!RunAllChecks
<1>4. OneRun'
  <2> SUFFICES ASSUME NEW c \in Subsystems, c \notin healthOverlapped', NEW r \in Rounds,
                      begun'[c][r] # Health!NotBegun
               PROVE  /\ begun'[c][r] = [seen |-> healthStatus[c], failures |-> healthFailures[c]]
                      /\ \A q \in Rounds : q # r => begun'[c][q] = Health!NotBegun
    BY DEF OneRun, Health!RunAllChecks, Health!NotBegun
  <2>1. CASE c \in known
    <3>1. \A q \in Rounds : begun[c][q] = Health!NotBegun
      BY <2>1 DEF Health!RunAllChecks, Health!UnderWay
    <3>2. begun'[c] = [begun[c] EXCEPT ![Free(c)] =
                         [seen |-> healthStatus[c], failures |-> healthFailures[c]]]
      BY <1>2, <2>1
    <3>3. \A q \in Rounds : q # Free(c) => begun'[c][q] = Health!NotBegun
      BY <3>1, <3>2
    <3>4. begun'[c][Free(c)] = [seen |-> healthStatus[c], failures |-> healthFailures[c]]
      BY <1>1, <2>1, <3>2
    <3> QED
      BY <3>3, <3>4
  <2>2. CASE c \notin known
    BY <1>2, <2>2 DEF OneRun, Health!RunAllChecks
  <2> QED
    BY <2>1, <2>2
<1>5. CountFits'
  BY DEF CountFits, Health!RunAllChecks
<1> QED
  BY <1>3, <1>4, <1>5

LEMMA CheckEndsWell ==
  ASSUME NEW c \in Subsystems, NEW r \in Rounds, HealthInv, Health!CheckEnds(c, r)
  PROVE  HealthInv'
<1> USE DEF HealthInv, HealthTypes
<1>1. begun[c][r] # Health!NotBegun
  BY DEF Health!CheckEnds
<1>2. PICK healthy \in BOOLEAN :
        LET prev == begun[c][r]
            runs == IF healthy THEN 0 ELSE prev.failures + 1
        IN  /\ healthStatus' = [healthStatus EXCEPT ![c] = IF healthy THEN "healthy" ELSE "unhealthy"]
            /\ healthFailures' = [healthFailures EXCEPT ![c] = runs]
            /\ announced' =
                 IF prev.seen = "unknown" THEN announced
                 ELSE IF runs = threshold THEN [announced EXCEPT ![c] = "degraded"]
                 ELSE IF healthy /\ prev.failures >= threshold
                      THEN [announced EXCEPT ![c] = "recovered"]
                 ELSE announced
            /\ quiet' =
                 IF healthy THEN quiet \ {c}
                 ELSE IF prev.seen = "unknown" /\ runs >= threshold THEN quiet \union {c}
                 ELSE quiet
  BY DEF Health!CheckEnds
<1>3. begun' = [begun EXCEPT ![c][r] = Health!NotBegun]
      /\ UNCHANGED <<threshold, healthRunning, known, healthOverlapped>>
  BY DEF Health!CheckEnds
<1>4. begun[c][r] \in Findings /\ begun[c][r].failures \in Nat
  BY DEF Findings
<1>5. HealthTypes'
  <2>1. Health!NotBegun \in Findings
    BY DEF Health!NotBegun, Findings
  <2> QED
    BY <1>2, <1>3, <1>4, <2>1
<1>6. OneRun'
  <2> SUFFICES ASSUME NEW d \in Subsystems \ healthOverlapped, NEW q \in Rounds,
                      begun'[d][q] # Health!NotBegun
               PROVE  /\ begun'[d][q] =
                           [seen |-> healthStatus'[d], failures |-> healthFailures'[d]]
                      /\ \A p \in Rounds : p # q => begun'[d][p] = Health!NotBegun
    BY <1>3 DEF OneRun, Health!NotBegun
  <2>1. d # c
    <3> SUFFICES ASSUME d = c PROVE FALSE
      OBVIOUS
    <3>1. begun'[c] = [begun[c] EXCEPT ![r] = Health!NotBegun]
      BY <1>3
    <3>2. q # r /\ begun'[c][q] = begun[c][q]
      BY <3>1
    <3>3. begun[c][q] = Health!NotBegun
      BY <1>1, <3>2 DEF OneRun
    <3> QED
      BY <3>2, <3>3
  <2> QED
    BY <1>2, <1>3, <2>1 DEF OneRun
<1>7. CountFits'
  <2> SUFFICES ASSUME NEW d \in Subsystems \ healthOverlapped
               PROVE  /\ healthStatus'[d] # "unhealthy" => healthFailures'[d] = 0 /\ d \notin quiet'
                      /\ healthStatus'[d] = "unhealthy" => healthFailures'[d] > 0
                      /\ healthStatus'[d] = "unknown" => announced'[d] = "none"
                      /\ d \in quiet' => healthFailures'[d] >= threshold
                      /\ d \notin quiet' =>
                           (announced'[d] = "degraded" <=> healthFailures'[d] >= threshold)
    BY <1>3 DEF CountFits
  <2>1. CASE d # c
    <3>1. /\ healthStatus'[d] = healthStatus[d] /\ healthFailures'[d] = healthFailures[d]
          /\ announced'[d] = announced[d] /\ (d \in quiet' <=> d \in quiet)
      BY <1>2, <2>1
    <3> QED
      BY <1>3, <3>1 DEF CountFits
  <2>2. CASE d = c
    <3>1. begun[c][r].seen = healthStatus[c] /\ begun[c][r].failures = healthFailures[c]
      <4>1. begun[c][r] = [seen |-> healthStatus[c], failures |-> healthFailures[c]]
        BY <1>1, <2>2 DEF OneRun
      <4> QED
        BY <4>1
    <3>2. CASE healthy
      <4>1. healthStatus'[c] = "healthy" /\ healthFailures'[c] = 0 /\ c \notin quiet'
        BY <1>2, <3>2
      <4>2. announced'[c] # "degraded"
        BY <1>2, <2>2, <3>1, <3>2 DEF CountFits
      <4> QED
        BY <1>3, <2>2, <4>1, <4>2
    <3>3. CASE ~healthy
      <4>1. healthStatus'[c] = "unhealthy" /\ healthFailures'[c] = healthFailures[c] + 1
        BY <1>2, <3>1, <3>3
      <4>2. CASE healthStatus[c] = "unknown"
        BY <1>2, <1>3, <2>2, <3>1, <3>3, <4>1, <4>2 DEF CountFits
      <4>3. CASE healthStatus[c] # "unknown"
        <5>1. /\ c \in quiet' <=> c \in quiet
              /\ announced'[c] = IF healthFailures[c] + 1 = threshold THEN "degraded"
                                  ELSE announced[c]
          BY <1>2, <3>1, <3>3, <4>3
        <5> QED
          BY <1>3, <2>2, <4>1, <4>3, <5>1 DEF CountFits
      <4> QED
        BY <4>2, <4>3
    <3> QED
      BY <3>2, <3>3
  <2> QED
    BY <2>1, <2>2
<1> QED
  BY <1>5, <1>6, <1>7

LEMMA HealthKeepsInv ==
  ASSUME Late \in Subsystems
  PROVE  HealthInv /\ HealthStep => HealthInv'
<1> SUFFICES ASSUME HealthInv, HealthStep PROVE HealthInv'
  OBVIOUS
<1>1. CASE Health!Start
  BY <1>1, ChecksBegin DEF Health!Start
<1>2. CASE Health!Stop
  BY <1>2 DEF Health!Stop, HealthInv, HealthTypes, OneRun, CountFits
<1>3. CASE Health!Interval
  BY <1>3, ChecksBegin DEF Health!Interval
<1>4. CASE Health!RegisterCheck
  BY <1>4 DEF Health!RegisterCheck, HealthInv, HealthTypes, OneRun, CountFits
<1>5. ASSUME NEW c \in Subsystems, NEW r \in Rounds, Health!CheckEnds(c, r) PROVE HealthInv'
  BY <1>5, CheckEndsWell
<1>6. CASE UNCHANGED healthVars
  BY <1>6 DEF healthVars, HealthInv, HealthTypes, OneRun, CountFits
<1> QED
  BY <1>1, <1>2, <1>3, <1>4, <1>5, <1>6 DEF HealthStep, Health!Next

LEMMA HealthAnnounced == HealthInv => Health!Announced
<1> SUFFICES ASSUME HealthInv PROVE Health!AnnouncementsTellState /\ Health!NotReadyIsKnown
  BY DEF Health!Announced
<1> USE DEF HealthInv, HealthTypes, CountFits
<1>1. Health!AnnouncementsTellState
  BY DEF Health!AnnouncementsTellState
<1>2. Health!NotReadyIsKnown
  BY DEF Health!NotReadyIsKnown, Health!Ready, Health!OverallStatus, Health!Unhealthy
<1> QED
  BY <1>1, <1>2

-----------------------------------------------------------------------------
(* Telephone calls and callbacks.                                             *)

\* A call that is neither over while it is accepted nor handled twice has one accept() to
\* come, or one session, or none.
OneSession(c) ==
  /\ accepting[c] + alive[c] <= 1
  /\ alive[c] = IF c \in sessions THEN 1 ELSE 0
  /\ accepting[c] > 0 \/ c \in sessions => sipCall[c] = "up" /\ listeners > 0
  /\ sipCall[c] = "none" => accepting[c] = 0 /\ alive[c] = 0

BridgeInv == /\ listeners \in Nat
             /\ sipCall \in [Calls -> {"none", "up", "over"}]
             /\ accepting \in [Calls -> Nat] /\ alive \in [Calls -> Int]
             /\ \A c \in Calls \ (early \union doubled) : OneSession(c)

LEMMA BridgeKeepsInv == BridgeInv /\ BridgeStep => BridgeInv'
<1> SUFFICES ASSUME BridgeInv, BridgeStep PROVE BridgeInv'
  OBVIOUS
<1> USE DEF BridgeInv, OneSession
<1>1. CASE Bridge!Start
  BY <1>1 DEF Bridge!Start
<1>2. CASE Bridge!Stop
  <2>1. \A c \in Calls \ (early' \union doubled') : accepting[c] = 0
    BY <1>2 DEF Bridge!Stop, Bridge!Leave
  <2> QED
    BY <1>2, <2>1 DEF Bridge!Stop, Bridge!Leave, Bridge!EndSessions
<1>3. ASSUME NEW c \in Calls, Bridge!Invite(c) PROVE BridgeInv'
  BY <1>3 DEF Bridge!Invite
<1>4. ASSUME NEW c \in Calls, Bridge!Accepted(c) \/ Bridge!AcceptFails(c) PROVE BridgeInv'
  BY <1>4 DEF Bridge!Accepted, Bridge!AcceptFails
<1>5. ASSUME NEW c \in Calls, Bridge!Hangup(c) PROVE BridgeInv'
  BY <1>5 DEF Bridge!Hangup, Bridge!EndSessions
<1>6. CASE UNCHANGED bridgeVars
  BY <1>6 DEF bridgeVars
<1> QED
  BY <1>1, <1>2, <1>3, <1>4, <1>5, <1>6 DEF BridgeStep, Bridge!Next

LEMMA BridgeSound == BridgeInv => Bridge!NoOrphanSession
BY DEF BridgeInv, OneSession, Bridge!NoOrphanSession

CallbackInv == /\ triggerStatus \in [Triggers -> {"none", "pending_ws", "pending_sip",
                                                  "active", "completed"}]
               /\ posted \in [Triggers -> Nat]
               /\ pending \subseteq Triggers
               /\ Callbacks!CalledBackOnce

LEMMA CallbackCompletes ==
  ASSUME NEW t \in Triggers, CallbackInv, Callbacks!Complete(t)
  PROVE  CallbackInv'
<1> USE DEF CallbackInv, Callbacks!CalledBackOnce
<1>1. CASE t \in pending
  BY <1>1 DEF Callbacks!Complete
<1>2. CASE t \notin pending
  BY <1>2 DEF Callbacks!Complete
<1> QED
  BY <1>1, <1>2

LEMMA CallbackKeepsInv == CallbackInv /\ CallbackStep => CallbackInv'
<1> SUFFICES ASSUME CallbackInv, CallbackStep PROVE CallbackInv'
  OBVIOUS
<1>1. ASSUME NEW t \in Triggers, Callbacks!CreateTrigger(t) PROVE CallbackInv'
  BY <1>1 DEF Callbacks!CreateTrigger, CallbackInv, Callbacks!CalledBackOnce
<1>2. ASSUME NEW t \in Triggers, Callbacks!ActivateTrigger(t) PROVE CallbackInv'
  BY <1>2 DEF Callbacks!ActivateTrigger, CallbackInv, Callbacks!CalledBackOnce
<1>3. ASSUME NEW t \in Triggers, Callbacks!CompleteRoute(t) PROVE CallbackInv'
  BY <1>3, CallbackCompletes DEF Callbacks!CompleteRoute
<1>4. ASSUME NEW c \in Visits, Callbacks!Connect(c) PROVE CallbackInv'
  BY <1>4 DEF Callbacks!Connect, CallbackInv, Callbacks!CalledBackOnce
<1>5. ASSUME NEW c \in Visits, Callbacks!Disconnect(c) PROVE CallbackInv'
  <2>1. CASE Callbacks!SessionId(c) \in pending
    BY <1>5, <2>1, CallbackCompletes DEF Callbacks!Disconnect, CallbackInv
  <2>2. CASE Callbacks!SessionId(c) \notin pending
    BY <1>5, <2>2 DEF Callbacks!Disconnect, CallbackInv, Callbacks!CalledBackOnce
  <2> QED
    BY <2>1, <2>2
<1>6. CASE UNCHANGED callbacksVars
  BY <1>6 DEF callbacksVars, CallbackInv, Callbacks!CalledBackOnce
<1> QED
  BY <1>1, <1>2, <1>3, <1>4, <1>5, <1>6 DEF CallbackStep, Callbacks!Next

-----------------------------------------------------------------------------
(* The queue of callers.                                                      *)

\* What remains of a queue when one session has left it.
LEMMA QueueWithout ==
  ASSUME NEW q \in Seq(Sessions), NEW e, \E i \in DOMAIN q : q[i] = e
  PROVE  /\ Queue!RemoveFirst(q, e) \in Seq(Sessions)
         /\ Len(Queue!RemoveFirst(q, e)) = Len(q) - 1
         /\ \E k \in DOMAIN q :
              /\ q[k] = e
              /\ \A j \in 1..(Len(q) - 1) :
                   Queue!RemoveFirst(q, e)[j] = IF j < k THEN q[j] ELSE q[j + 1]
<1> DEFINE I == {i \in 1..Len(q) : q[i] = e}
           k == Queue!SelectInSeq(q, LAMBDA v : v = e)
<1>1. I # {} /\ I \in SUBSET Nat /\ \E i \in 1..Len(q) : q[i] = e
  OBVIOUS
<1>2. k = CHOOSE x \in I : \A y \in I : x <= y
  BY <1>1 DEF Queue!SelectInSeq, Queue!Min
<1>3. \E m \in I : \A y \in I : m <= y
  BY <1>1, LeastPlace
<1> HIDE DEF k
<1>4. k \in I
  BY <1>2, <1>3
<1>5. Queue!RemoveFirst(q, e) = Without(q, k)
  BY <1>1 DEF Queue!RemoveFirst, Queue!RemoveAt, k, Without
<1>6. k \in 1..Len(q) /\ q[k] = e
  BY <1>4
<1>7. Without(q, k) \in Seq(Sessions) /\ LeftOf(q, k, Without(q, k))
  BY <1>6, OneTakenOut
<1> HIDE DEF I
<1> DEFINE r == Queue!RemoveFirst(q, e)
<1>8. r \in Seq(Sessions) /\ LeftOf(q, k, r)
  BY <1>5, <1>7
<1> HIDE DEF r
<1>9. \A j \in 1..(Len(q) - 1) : r[j] = IF j < k THEN q[j] ELSE q[j + 1]
  <2>1. DOMAIN r = 1..(Len(q) - 1)
    BY <1>8 DEF LeftOf
  <2> QED
    BY <1>8, <2>1 DEF LeftOf, From
<1>10. Len(r) = Len(q) - 1 /\ k \in DOMAIN q
  BY <1>6, <1>8 DEF LeftOf
<1> QED
  BY <1>6, <1>8, <1>9, <1>10 DEF r

\* Who has metadata waits where it says; who was never enqueued while waiting is in one
\* place, and that is the place.
QueueTypes ==
  /\ queues \in [Tenants -> Seq(Sessions)]
  /\ meta \in [Sessions -> Tenants \union {NoTenant}]

MetaIsPlace ==
  \A s \in Sessions : meta[s] # NoTenant =>
    \E k \in DOMAIN queues[meta[s]] : queues[meta[s]][k] = s

OnePlaceEach ==
  \A t \in Tenants : \A k \in DOMAIN queues[t] : queues[t][k] \notin requeued =>
    /\ meta[queues[t][k]] = t
    /\ \A j \in DOMAIN queues[t] : queues[t][j] = queues[t][k] => j = k

QueueInv == QueueTypes /\ MetaIsPlace /\ OnePlaceEach

\* A session leaves the queue of a tenant and loses its metadata.
LEMMA LeavesQueue ==
  ASSUME QueueInv, NoTenant \notin Tenants, NEW t \in Tenants, NEW s \in Sessions, NEW q, NEW k \in DOMAIN queues[t],
         queues[t][k] = s, q \in Seq(Sessions), Len(q) = Len(queues[t]) - 1,
         \A j \in 1..Len(q) : q[j] = IF j < k THEN queues[t][j] ELSE queues[t][j + 1],
         queues' = [queues EXCEPT ![t] = q], meta' = [meta EXCEPT ![s] = NoTenant],
         requeued' = requeued
  PROVE  QueueInv'
<1> USE DEF QueueInv, QueueTypes
<1>1. QueueTypes'
  OBVIOUS
<1>2. queues'[t] = q /\ \A u \in Tenants : u # t => queues'[u] = queues[u]
  OBVIOUS
<1>3. meta'[s] = NoTenant /\ \A x \in Sessions : x # s => meta'[x] = meta[x]
  OBVIOUS
<1>4. DOMAIN q = 1..(Len(queues[t]) - 1) /\ Len(queues[t]) \in Nat
      /\ DOMAIN queues[t] = 1..Len(queues[t])
  OBVIOUS
<1>5. MetaIsPlace'
  <2> SUFFICES ASSUME NEW x \in Sessions, meta'[x] # NoTenant
               PROVE  \E j \in DOMAIN queues'[meta'[x]] : queues'[meta'[x]][j] = x
    BY DEF MetaIsPlace
  <2>1. x # s /\ meta'[x] = meta[x]
    BY <1>3
  <2>2. PICK j \in DOMAIN queues[meta[x]] : queues[meta[x]][j] = x
    BY <2>1 DEF MetaIsPlace
  <2>3. CASE meta[x] # t
    BY <1>2, <2>1, <2>2, <2>3
  <2>4. CASE meta[x] = t
    <3>1. j # k
      BY <2>1, <2>2, <2>4
    <3>2. CASE j < k
      <4>1. j \in 1..(Len(queues[t]) - 1) /\ q[j] = x
        BY <1>4, <2>2, <2>4, <3>2
      <4> QED
        BY <1>2, <1>4, <2>1, <2>4, <4>1
    <3>3. CASE j > k
      <4>1. j - 1 \in 1..(Len(queues[t]) - 1) /\ q[j - 1] = x
        BY <1>4, <2>2, <2>4, <3>3
      <4> QED
        BY <1>2, <1>4, <2>1, <2>4, <4>1
    <3> QED
      BY <1>4, <2>2, <2>4, <3>1, <3>2, <3>3
  <2> QED
    BY <2>3, <2>4
<1>6. OnePlaceEach'
  <2> SUFFICES ASSUME NEW u \in Tenants, NEW i \in DOMAIN queues'[u],
                      queues'[u][i] \notin requeued
               PROVE  /\ meta'[queues'[u][i]] = u
                      /\ \A j \in DOMAIN queues'[u] : queues'[u][j] = queues'[u][i] => j = i
    BY DEF OnePlaceEach
  <2>1. CASE u # t
    <3>1. queues'[u] = queues[u] /\ queues[u][i] \in Sessions
      BY <1>2, <2>1
    <3>2. queues[u][i] # s
      BY <2>1, <3>1 DEF OnePlaceEach
    <3> QED
      BY <1>3, <3>1, <3>2 DEF OnePlaceEach
  <2>2. CASE u = t
    <3> DEFINE Old(j) == IF j < k THEN j ELSE j + 1
    <3>1. \A j \in DOMAIN q : Old(j) \in DOMAIN queues[t] /\ Old(j) # k /\ q[j] = queues[t][Old(j)]
      BY <1>4
    <3>2. \A j \in DOMAIN q : Old(j) = Old(i) => j = i
      BY <1>2, <1>4, <2>2
    <3> HIDE DEF Old
    <3>3. i \in DOMAIN q /\ queues'[u] = q
      BY <1>2, <2>2
    <3>4. q[i] # s /\ q[i] \in Sessions
      BY <1>4, <3>1, <3>3, <2>2 DEF OnePlaceEach
    <3> QED
      BY <1>3, <2>2, <3>1, <3>2, <3>3, <3>4 DEF OnePlaceEach
  <2> QED
    BY <2>1, <2>2
<1> QED
  BY <1>1, <1>5, <1>6

LEMMA JoinsQueue ==
  ASSUME QueueInv, NEW t \in Tenants, NEW s \in Sessions, Queue!Enqueue(s, t)
  PROVE  QueueInv'
<1> USE DEF QueueInv, QueueTypes
<1> DEFINE n == Len(queues[t])
<1>1. /\ queues' = [queues EXCEPT ![t] = Append(queues[t], s)]
      /\ meta' = [meta EXCEPT ![s] = t]
      /\ requeued' = IF Queue!Queued(s) THEN requeued \union {s} ELSE requeued
  BY DEF Queue!Enqueue
<1>2. QueueTypes'
  BY <1>1
<1>3. /\ n \in Nat /\ DOMAIN queues[t] = 1..n /\ DOMAIN queues'[t] = 1..(n + 1)
      /\ queues'[t][n + 1] = s
      /\ \A j \in 1..n : queues'[t][j] = queues[t][j]
      /\ \A u \in Tenants : u # t => queues'[u] = queues[u]
  BY <1>1
<1> HIDE DEF n
<1>4. meta'[s] = t /\ \A x \in Sessions : x # s => meta'[x] = meta[x]
  BY <1>1
<1>5. MetaIsPlace'
  <2> SUFFICES ASSUME NEW x \in Sessions, meta'[x] # NoTenant
               PROVE  \E j \in DOMAIN queues'[meta'[x]] : queues'[meta'[x]][j] = x
    BY DEF MetaIsPlace
  <2>1. CASE x = s
    <3>1. n + 1 \in DOMAIN queues'[t] /\ queues'[t][n + 1] = s
      BY <1>3
    <3> QED
      BY <1>4, <2>1, <3>1
  <2>2. CASE x # s
    <3>1. PICK j \in DOMAIN queues[meta[x]] : queues[meta[x]][j] = x
      BY <1>4, <2>2 DEF MetaIsPlace
    <3>2. CASE meta[x] = t
      <4>1. j \in DOMAIN queues'[t] /\ queues'[t][j] = x
        BY <1>3, <3>1, <3>2
      <4> QED
        BY <1>4, <2>2, <3>2, <4>1
    <3>3. CASE meta[x] # t
      <4>1. meta'[x] = meta[x] /\ meta[x] \in Tenants
        BY <1>4, <2>2
      <4>2. queues'[meta[x]] = queues[meta[x]]
        BY <1>3, <3>3, <4>1
      <4> QED
        BY <3>1, <4>1, <4>2
    <3> QED
      BY <3>2, <3>3
  <2> QED
    BY <2>1, <2>2
<1>6. s \notin requeued' => \A u \in Tenants : \A j \in DOMAIN queues[u] : queues[u][j] # s
  BY <1>1 DEF Queue!Queued, Queue!ToSet
<1>7. OnePlaceEach'
  <2> SUFFICES ASSUME NEW u \in Tenants, NEW i \in DOMAIN queues'[u],
                      queues'[u][i] \notin requeued'
               PROVE  /\ meta'[queues'[u][i]] = u
                      /\ \A j \in DOMAIN queues'[u] : queues'[u][j] = queues'[u][i] => j = i
    BY DEF OnePlaceEach
  <2>1. queues'[u][i] \notin requeued
    BY <1>1
  <2>2. CASE u # t
    BY <1>3, <1>4, <1>6, <2>1, <2>2 DEF OnePlaceEach
  <2>3. CASE u = t /\ i = n + 1
    BY <1>3, <1>4, <1>6, <2>3
  <2>4. CASE u = t /\ i # n + 1
    <3>1. i \in 1..n /\ queues'[u][i] = queues[u][i]
      BY <1>3, <2>4
    <3>2. queues[u][i] # s
      BY <1>3, <1>6, <2>4, <3>1
    <3> QED
      BY <1>3, <1>4, <2>1, <2>4, <3>1, <3>2 DEF OnePlaceEach
  <2> QED
    BY <2>2, <2>3, <2>4
<1> QED
  BY <1>2, <1>5, <1>7

LEMMA QueueKeepsInv ==
  ASSUME NoTenant \notin Tenants
  PROVE  QueueInv /\ QueueStep => QueueInv'
<1> SUFFICES ASSUME QueueInv, QueueStep PROVE QueueInv'
  OBVIOUS
<1>1. ASSUME NEW s \in Sessions, NEW t \in Tenants, Queue!Enqueue(s, t) PROVE QueueInv'
  BY <1>1, JoinsQueue
<1>2. ASSUME NEW t \in Tenants, Queue!Dequeue(t) PROVE QueueInv'
  <2> DEFINE q == queues[t]
  <2>1. q \in Seq(Sessions) /\ q # <<>>
    BY <1>2 DEF Queue!Dequeue, QueueInv, QueueTypes
  <2>2. /\ 1 \in DOMAIN q /\ q[1] \in Sessions /\ Head(q) = q[1]
        /\ Tail(q) \in Seq(Sessions) /\ Len(Tail(q)) = Len(q) - 1
        /\ \A j \in 1..Len(Tail(q)) : Tail(q)[j] = q[j + 1]
    BY <2>1
  <2>3. \A j \in 1..Len(Tail(q)) : Tail(q)[j] = IF j < 1 THEN q[j] ELSE q[j + 1]
    BY <2>2
  <2>4. /\ queues' = [queues EXCEPT ![t] = Tail(q)] /\ requeued' = requeued
        /\ meta' = [meta EXCEPT ![q[1]] = NoTenant]
    BY <1>2, <2>2 DEF Queue!Dequeue
  <2> HIDE DEF q
  <2> QED
    BY <2>2, <2>3, <2>4, LeavesQueue DEF q
<1>3. ASSUME NEW s \in Sessions, Queue!RemoveSession(s) PROVE QueueInv'
  <2> DEFINE q == queues[meta[s]]
  <2>1. meta[s] \in Tenants /\ q \in Seq(Sessions)
    BY <1>3 DEF Queue!RemoveSession, QueueInv, QueueTypes
  <2>2. \E i \in DOMAIN q : q[i] = s
    BY <1>3 DEF Queue!RemoveSession, QueueInv, MetaIsPlace
  <2> DEFINE r == Queue!RemoveFirst(q, s)
  <2>3. PICK k \in DOMAIN q :
          /\ q[k] = s /\ r \in Seq(Sessions) /\ Len(r) = Len(q) - 1
          /\ \A j \in 1..Len(r) : r[j] = IF j < k THEN q[j] ELSE q[j + 1]
    <3>1. /\ r \in Seq(Sessions) /\ Len(r) = Len(q) - 1
          /\ \E k \in DOMAIN q : /\ q[k] = s
                               /\ \A j \in 1..(Len(q) - 1) :
                                    r[j] = IF j < k THEN q[j] ELSE q[j + 1]
      BY <2>1, <2>2, QueueWithout
    <3> QED
      BY <3>1
  <2>4. /\ queues' = [queues EXCEPT ![meta[s]] = r] /\ requeued' = requeued
        /\ meta' = [meta EXCEPT ![s] = NoTenant]
    BY <1>3, <2>1 DEF Queue!RemoveSession, QueueInv, QueueTypes
  <2> HIDE DEF r
  <2> QED
    BY <2>1, <2>3, <2>4, LeavesQueue
<1>4. CASE UNCHANGED queueVars
  BY <1>4 DEF queueVars, QueueInv, QueueTypes, MetaIsPlace, OnePlaceEach
<1> QED
  BY <1>1, <1>2, <1>3, <1>4 DEF QueueStep, Queue!Next

LEMMA QueueHasPlaces == NoTenant \notin Tenants /\ QueueInv => Queue!EveryoneHasAPlace
<1> SUFFICES ASSUME NoTenant \notin Tenants, QueueInv PROVE Queue!EveryoneHasAPlace
  OBVIOUS
<1>1. ASSUME NEW s \in Sessions, meta[s] # NoTenant PROVE Queue!Position(s) > 0
  <2> DEFINE q == queues[meta[s]]
             I == {i \in DOMAIN q : q[i] = s}
  <2>1. q \in Seq(Sessions) /\ DOMAIN q = 1..Len(q)
    BY <1>1 DEF QueueInv, QueueTypes
  <2>2. I # {} /\ I \in SUBSET Nat
    BY <1>1, <2>1 DEF QueueInv, MetaIsPlace
  <2>3. PICK m \in I : \A y \in I : m <= y
    BY <2>2, LeastPlace
  <2>4. m \in DOMAIN q /\ q[m] = s /\ \A j \in 1..(m - 1) : q[j] # s
    BY <2>1, <2>3
  <2>5. s \in Queue!ToSet(q)
    BY <2>4 DEF Queue!ToSet
  <2>6. Queue!Position(s) = CHOOSE k \in DOMAIN q : q[k] = s /\ \A j \in 1..(k - 1) : q[j] # s
    BY <1>1, <2>5 DEF Queue!Position
  <2> HIDE DEF q, I
  <2>7. Queue!Position(s) \in DOMAIN q
    BY <2>4, <2>6
  <2> QED
    BY <2>1, <2>7
<1>2. ASSUME NEW t \in Tenants, ~Queue!Readable(t)
      PROVE  Queue!ToSet(queues[t]) \intersect requeued # {}
  <2>1. PICK k \in DOMAIN queues[t] : meta[queues[t][k]] = NoTenant
    BY <1>2 DEF Queue!Readable
  <2>2. queues[t][k] \in requeued
    BY <2>1 DEF QueueInv, OnePlaceEach
  <2> QED
    BY <2>2 DEF Queue!ToSet
<1> QED
  BY <1>1, <1>2 DEF Queue!EveryoneHasAPlace

-----------------------------------------------------------------------------
(* The client libraries.                                                      *)

\* Attempts are numbered without gaps, so the number after the used ones is free.
LEMMA NextIsFree ==
  ASSUME MaxSockets \in Nat, NEW U \in SUBSET (1..MaxSockets),
         \A m \in 1..MaxSockets, n \in U : m <= n => m \in U
  PROVE  /\ Cardinality(U) + 1 \notin U
         /\ \A m \in 1..MaxSockets : m < Cardinality(U) + 1 => m \in U
<1>0. IsFiniteSet(1..MaxSockets)
  BY FS_Interval, 1 \in Int, MaxSockets \in Int
<1>1. IsFiniteSet(U)
  BY <1>0, FS_Subset
<1>2. Cardinality(U) \in Nat
  BY <1>1, FS_CardinalityType
<1>3. \A k \in Nat : Cardinality(1..k) = k /\ IsFiniteSet(1..k)
  BY FS_Interval
<1>4. ASSUME Cardinality(U) + 1 \in U PROVE FALSE
  <2>1. 1..(Cardinality(U) + 1) \subseteq U
    BY <1>2, <1>4
  <2>2. Cardinality(1..(Cardinality(U) + 1)) <= Cardinality(U)
    BY <1>1, <2>1, FS_Subset
  <2> QED
    BY <1>2, <1>3, <2>2
<1>5. ASSUME NEW m \in 1..MaxSockets, m < Cardinality(U) + 1, m \notin U PROVE FALSE
  <2>1. U \subseteq 1..(m - 1)
    BY <1>5
  <2>2. m - 1 \in Nat
    BY <1>5
  <2>3. Cardinality(U) <= Cardinality(1..(m - 1))
    BY <1>3, <2>1, <2>2, FS_Subset
  <2> QED
    BY <1>2, <1>3, <1>5, <2>2, <2>3
<1> QED
  BY <1>4, <1>5

LibraryTypes ==
  /\ libraryWs \in Library!Used \union {0}
  /\ librarySocket \in [1..MaxSockets -> {"none", "connecting", "open", "failed", "gone"}]
  /\ libraryAttached \subseteq Library!Used /\ libraryTimers \subseteq 1..MaxSockets
  /\ libraryPromise \in [1..MaxSockets -> {"none", "pending", "resolved", "rejected"}]
  /\ \A m, n \in 1..MaxSockets : m <= n /\ n \in Library!Used => m \in Library!Used

LibraryInv == LibraryTypes /\ Library!Sound

LEMMA LibraryBegins ==
  ASSUME MaxSockets \in Nat, LibraryInv, ~Library!Busy, Library!Begin
  PROVE  /\ LibraryTypes' /\ Library!FieldsTellTruth'
<1> USE DEF LibraryInv, LibraryTypes, Library!Attempts, Library!Used
<1> DEFINE n == Cardinality(Library!Used) + 1
<1>1. \A S : Library!Cardinality(S) = Cardinality(S)
  BY DEF Library!Cardinality, Cardinality
<1>2. n \notin Library!Used /\ \A m \in 1..MaxSockets : m < n => m \in Library!Used
  BY NextIsFree
<1>3. /\ n \in 1..MaxSockets
      /\ libraryState' = "connecting" /\ libraryWs' = n
      /\ librarySocket' = [librarySocket EXCEPT ![n] = "connecting"]
      /\ libraryAttached' = libraryAttached \union {n}
      /\ libraryTimers' = libraryTimers \union {n}
      /\ libraryPromise' = [libraryPromise EXCEPT ![n] = "pending"] /\ resolver' = n
  BY <1>1 DEF Library!Begin
<1>4. ~overlap' => ~overlap /\ Library!Alive = {} /\ libraryTimers = {}
  BY Zenon DEF Library!Begin
<1> HIDE DEF n
<1>5. LibraryTypes'
  BY <1>2, <1>3
<1>6. Library!FieldsTellTruth'
  BY <1>2, <1>3, <1>4 DEF Library!FieldsTellTruth, Library!Alive, Library!Sound
<1> QED
  BY <1>5, <1>6

\* A socket that is closed is heard of no more.
LEMMA LibraryCloses ==
  ASSUME MaxSockets \in Nat, LibraryTypes, Library!CloseSocket
  PROVE  /\ libraryWs' = 0 /\ Library!Used' = Library!Used
         /\ librarySocket' \in [1..MaxSockets ->
                               {"none", "connecting", "open", "failed", "gone"}]
         /\ libraryAttached' \subseteq libraryAttached
         /\ Library!Alive' = Library!Alive \ {libraryWs}
<1> USE DEF LibraryTypes, Library!CloseSocket, Library!Used, Library!Alive, Library!Attempts
<1>1. \A n \in 1..MaxSockets : librarySocket'[n] = IF n = libraryWs THEN "gone" ELSE librarySocket[n]
  OBVIOUS
<1>2. Library!Used' = Library!Used
  BY <1>1
<1>3. librarySocket' \in [1..MaxSockets -> {"none", "connecting", "open", "failed", "gone"}]
  OBVIOUS
<1>4. Library!Alive' = Library!Alive \ {libraryWs}
  BY <1>1
<1> QED
  BY <1>2, <1>3, <1>4

LEMMA LibraryKeepsInv ==
  ASSUME MaxSockets \in Nat
  PROVE  LibraryInv /\ LibraryStep => LibraryInv'
<1> SUFFICES ASSUME LibraryInv, LibraryStep PROVE LibraryInv'
  OBVIOUS
<1> USE DEF LibraryInv, LibraryTypes, Library!Sound, Library!EndIsFinal, Library!Busy,
            Library!FieldsTellTruth, Library!Alive, Library!Attempts, Library!Used
<1>1. CASE Library!Connect
  <2>1. LibraryTypes' /\ Library!FieldsTellTruth'
    BY <1>1, LibraryBegins DEF Library!Connect
  <2>2. Library!EndIsFinal'
    BY <1>1 DEF Library!Connect
  <2> QED
    BY <2>1, <2>2
<1>2. CASE Library!Reconnect
  <2>1. CASE Library!Busy
    BY <1>2, <2>1 DEF Library!Reconnect
  <2>2. CASE ~Library!Busy
    <3>1. LibraryTypes' /\ Library!FieldsTellTruth'
      BY <1>2, <2>2, LibraryBegins DEF Library!Reconnect
    <3>2. Library!EndIsFinal'
      BY <1>2 DEF Library!Reconnect
    <3> QED
      BY <3>1, <3>2
  <2> QED
    BY <2>1, <2>2
<1>3. CASE Library!EndSession
  <2>1. Library!CloseSocket
    BY <1>3 DEF Library!EndSession
  <2>2. /\ libraryState' = "disconnected" /\ libraryReconnectTimer' = FALSE
        /\ UNCHANGED <<libraryTimers, libraryPromise, resolver, overlap>>
    BY <1>3 DEF Library!EndSession
  <2>3. LibraryTypes'
    BY <2>1, <2>2, LibraryCloses
  <2>4. Library!Alive' = Library!Alive \ {libraryWs}
    BY <2>1, LibraryCloses
  <2>5. Library!Sound'
    BY <2>1, <2>2, <2>4, LibraryCloses
  <2> QED
    BY <2>3, <2>5
<1>4. ASSUME NEW n \in Library!Attempts, Library!Opens(n) PROVE LibraryInv'
  BY <1>4 DEF Library!Opens
<1>5. ASSUME NEW n \in Library!Attempts, Library!Message(n) PROVE LibraryInv'
  <2>1. /\ librarySocket[n] = "open" /\ n \in libraryAttached
        /\ libraryState = "connecting" /\ UNCHANGED <<libraryWs, librarySocket,
             libraryAttached, libraryReconnectTimer, overlap, libraryEnded>>
    BY <1>5 DEF Library!Message
  <2>2. PICK next \in {"ready", "error"}, outcome \in {"resolved", "rejected"} :
          Library!Conclude(next, outcome)
    BY <1>5 DEF Library!Message
  <2>3. libraryTimers' \subseteq libraryTimers /\ libraryState' = next
        /\ libraryPromise' = [m \in 1..MaxSockets |->
                                IF m = resolver THEN outcome ELSE libraryPromise[m]]
    BY <2>2 DEF Library!Conclude, Library!ClearConnectTimer, Library!Settle
  <2> QED
    BY <2>1, <2>3
<1>6. ASSUME NEW n \in Library!Attempts, Library!HandleError(n) PROVE LibraryInv'
  <2>1. /\ librarySocket[n] = "connecting"
        /\ librarySocket' = [librarySocket EXCEPT ![n] = "failed"]
        /\ UNCHANGED <<libraryWs, libraryAttached, libraryReconnectTimer, overlap, libraryEnded>>
    BY <1>6 DEF Library!HandleError
  <2>2. CASE n \in libraryAttached /\ libraryState = "connecting"
    <3>1. libraryTimers' \subseteq libraryTimers /\ libraryState' = "error"
          /\ libraryPromise' = [m \in 1..MaxSockets |->
                                  IF m = resolver THEN "rejected" ELSE libraryPromise[m]]
      BY <1>6, <2>2 DEF Library!HandleError, Library!Conclude, Library!ClearConnectTimer,
         Library!Settle
    <3> QED
      BY <2>1, <2>2, <3>1
  <2>3. CASE ~(n \in libraryAttached /\ libraryState = "connecting")
    <3>1. UNCHANGED <<libraryState, libraryTimers, libraryPromise, resolver>>
      BY <1>6, <2>3 DEF Library!HandleError, Library!Unsettled
    <3> QED
      BY <2>1, <2>3, <3>1
  <2> QED
    BY <2>2, <2>3
<1>7. ASSUME NEW n \in Library!Attempts, Library!HandleClose(n) PROVE LibraryInv'
  <2>1. /\ librarySocket[n] \in {"open", "failed"} /\ n \in libraryAttached
        /\ librarySocket' = [librarySocket EXCEPT ![n] = "gone"]
        /\ libraryState' = "disconnected"
        /\ UNCHANGED <<libraryWs, libraryAttached, overlap, libraryEnded>>
    BY <1>7 DEF Library!HandleClose, Library!Conclude
  <2>2. libraryReconnectTimer' => libraryReconnectTimer \/ libraryState = "ready"
    BY <1>7, Zenon DEF Library!HandleClose
  <2>3. CASE libraryState = "connecting"
    <3>1. libraryTimers' \subseteq libraryTimers
          /\ libraryPromise' = [m \in 1..MaxSockets |->
                                  IF m = resolver THEN "rejected" ELSE libraryPromise[m]]
      BY <1>7, <2>3 DEF Library!HandleClose, Library!Conclude, Library!ClearConnectTimer,
         Library!Settle
    <3> QED
      BY <2>1, <2>2, <2>3, <3>1
  <2>4. CASE libraryState # "connecting"
    <3>1. UNCHANGED <<libraryTimers, libraryPromise, resolver>>
      BY <1>7, <2>4 DEF Library!HandleClose, Library!Unsettled
    <3> QED
      BY <2>1, <2>2, <2>4, <3>1
  <2> QED
    BY <2>3, <2>4
<1>8. ASSUME NEW n \in Library!Attempts, Library!HandleConnectTimeout(n) PROVE LibraryInv'
  <2>1. Library!CloseSocket
    BY <1>8 DEF Library!HandleConnectTimeout
  <2>2. /\ libraryState' = "error" /\ libraryTimers' = libraryTimers \ {n}
        /\ libraryPromise' = [m \in 1..MaxSockets |->
                                IF m = resolver THEN "rejected" ELSE libraryPromise[m]]
        /\ UNCHANGED <<libraryReconnectTimer, overlap, libraryEnded>>
    BY <1>8 DEF Library!HandleConnectTimeout, Library!Settle
  <2>3. LibraryTypes'
    BY <2>1, <2>2, LibraryCloses
  <2>4. Library!Sound'
    BY <2>1, <2>2, LibraryCloses
  <2> QED
    BY <2>3, <2>4
<1>9. CASE UNCHANGED libraryVars
  BY <1>9 DEF libraryVars
<1> QED
  BY <1>1, <1>2, <1>3, <1>4, <1>5, <1>6, <1>7, <1>8, <1>9 DEF LibraryStep, Library!Next

SdkTypes ==
  /\ sdkWs \in Sdk!Used \union {0}
  /\ sdkSocket \in [1..MaxSockets -> {"none", "connecting", "open", "failed", "gone"}]
  /\ sdkAttached \subseteq Sdk!Used /\ sdkSettled \subseteq Sdk!Used
  /\ sdkTimers \subseteq 1..MaxSockets
  /\ sdkPromise \in [1..MaxSockets -> {"none", "pending", "resolved", "rejected"}]
  /\ \A m, n \in 1..MaxSockets : m <= n /\ n \in Sdk!Used => m \in Sdk!Used

\* An attempt that is heard and not decided is the one that connects.
UndecidedConnects ==
  ~shadowed => \A n \in sdkAttached \ sdkSettled : n = sdkWs /\ sdkState = "connecting"

SdkInv == SdkTypes /\ UndecidedConnects /\ Sdk!ClientSound

LEMMA SdkBegins ==
  ASSUME MaxSockets \in Nat, SdkInv, ~Sdk!Busy, Sdk!Begin
  PROVE  SdkTypes' /\ UndecidedConnects' /\ Sdk!StateIsOfSocket' /\ Sdk!PendingIsTimed'
<1> USE DEF SdkInv, SdkTypes, Sdk!Attempts, Sdk!Used
<1> DEFINE n == Cardinality(Sdk!Used) + 1
<1>1. \A S : Sdk!Cardinality(S) = Cardinality(S)
  BY DEF Sdk!Cardinality, Cardinality
<1>2. n \notin Sdk!Used /\ \A m \in 1..MaxSockets : m < n => m \in Sdk!Used
  BY NextIsFree
<1>3. /\ n \in 1..MaxSockets
      /\ sdkState' = "connecting" /\ sdkWs' = n
      /\ sdkSocket' = [sdkSocket EXCEPT ![n] = "connecting"]
      /\ sdkAttached' = sdkAttached \union {n}
      /\ sdkTimers' = sdkTimers \union {n}
      /\ sdkPromise' = [sdkPromise EXCEPT ![n] = "pending"]
      /\ sdkSettled' = sdkSettled /\ shadowed' = shadowed /\ listening' = listening
  BY <1>1 DEF Sdk!Begin
<1> HIDE DEF n
<1>4. SdkTypes'
  BY <1>2, <1>3
<1>5. UndecidedConnects'
  BY <1>2, <1>3 DEF UndecidedConnects, Sdk!Busy
<1>6. Sdk!StateIsOfSocket'
  BY <1>2, <1>3 DEF Sdk!StateIsOfSocket
<1>7. Sdk!PendingIsTimed'
  BY <1>2, <1>3 DEF Sdk!ClientSound, Sdk!PendingIsTimed
<1> QED
  BY <1>4, <1>5, <1>6, <1>7

LEMMA SdkCloses ==
  ASSUME MaxSockets \in Nat, SdkTypes, Sdk!CloseSocket
  PROVE  /\ sdkWs' = 0 /\ Sdk!Used' = Sdk!Used
         /\ sdkSocket' \in [1..MaxSockets -> {"none", "connecting", "open", "failed", "gone"}]
         /\ \A n \in 1..MaxSockets : sdkSocket[n] = "gone" => sdkSocket'[n] = "gone"
         /\ sdkAttached' = sdkAttached \ {sdkWs}
<1> USE DEF SdkTypes, Sdk!CloseSocket, Sdk!Used, Sdk!Attempts
<1>1. \A n \in 1..MaxSockets : sdkSocket'[n] = IF n = sdkWs THEN "gone" ELSE sdkSocket[n]
  OBVIOUS
<1>2. Sdk!Used' = Sdk!Used
  BY <1>1
<1>3. sdkSocket' \in [1..MaxSockets -> {"none", "connecting", "open", "failed", "gone"}]
  OBVIOUS
<1> QED
  BY <1>1, <1>2, <1>3

LEMMA FailureMeans ==
  Sdk!Failure \in {"rejected", "pending"} /\ (Sdk!Failure = "pending" => ~listening)
BY DEF Sdk!Failure

\* An attempt is decided.
LEMMA SdkSettles ==
  ASSUME SdkInv, NEW n \in sdkAttached \ sdkSettled,
         NEW outcome \in {"resolved", "rejected", "pending"}, outcome = "pending" => ~listening,
         NEW next \in {"ready", "error"}, Sdk!Settle(n, next, outcome), Sdk!Shadows(n),
         next = "ready" => outcome = "resolved" /\ sdkSocket'[n] = "open",
         sdkSocket' = sdkSocket \/ (/\ next = "error"
                                    /\ sdkSocket' = [sdkSocket EXCEPT ![n] = "failed"]),
         UNCHANGED <<listening, sdkWs, sdkAttached, sdkReconnectTimer, sdkEnded>>
  PROVE  SdkInv'
<1> USE DEF SdkInv, SdkTypes, UndecidedConnects, Sdk!ClientSound, Sdk!DisconnectIsFinal,
            Sdk!StateIsOfSocket, Sdk!PendingIsTimed, Sdk!Busy, Sdk!Attempts, Sdk!Used
<1>1. ~shadowed' => ~shadowed /\ (n = sdkWs \/ sdkWs = 0)
  BY Zenon DEF Sdk!Shadows
<1>2. /\ sdkSettled' = sdkSettled \union {n} /\ sdkTimers' = sdkTimers \ {n}
      /\ sdkState' = next /\ sdkPromise' = [sdkPromise EXCEPT ![n] = outcome]
  BY DEF Sdk!Settle
<1>3. SdkTypes'
  <2>1. n \in 1..MaxSockets
    OBVIOUS
  <2>2. sdkSocket' \in [1..MaxSockets -> {"none", "connecting", "open", "failed", "gone"}]
    OBVIOUS
  <2>3. sdkPromise' \in [1..MaxSockets -> {"none", "pending", "resolved", "rejected"}]
    BY <1>2
  <2> QED
    BY <1>2, <2>1, <2>2, <2>3
<1>4. UndecidedConnects'
  BY <1>1, <1>2
<1>5. Sdk!ClientSound'
  BY <1>1, <1>2
<1> QED
  BY <1>3, <1>4, <1>5

LEMMA SdkKeepsInv ==
  ASSUME MaxSockets \in Nat
  PROVE  SdkInv /\ SdkStep => SdkInv'
<1> SUFFICES ASSUME SdkInv, SdkStep PROVE SdkInv'
  OBVIOUS
<1> USE DEF SdkInv, SdkTypes, UndecidedConnects, Sdk!ClientSound, Sdk!DisconnectIsFinal,
            Sdk!StateIsOfSocket, Sdk!PendingIsTimed, Sdk!Busy, Sdk!Attempts, Sdk!Used
<1>1. CASE Sdk!Connect
  <2>1. SdkTypes' /\ UndecidedConnects' /\ Sdk!StateIsOfSocket' /\ Sdk!PendingIsTimed'
    BY <1>1, SdkBegins DEF Sdk!Connect
  <2>2. Sdk!DisconnectIsFinal'
    BY <1>1 DEF Sdk!Connect
  <2> QED
    BY <2>1, <2>2
<1>2. CASE Sdk!Reconnect
  <2>1. CASE Sdk!Busy
    <3>1. /\ sdkReconnectTimer' = FALSE
          /\ UNCHANGED <<listening, sdkState, sdkWs, sdkSocket, sdkAttached, sdkSettled,
                         sdkTimers, sdkPromise, shadowed, sdkEnded>>
      BY <1>2, <2>1 DEF Sdk!Reconnect
    <3>2. SdkTypes' /\ UndecidedConnects'
      BY <3>1
    <3> QED
      BY <3>1, <3>2
  <2>2. CASE ~Sdk!Busy
    <3>1. SdkTypes' /\ UndecidedConnects' /\ Sdk!StateIsOfSocket' /\ Sdk!PendingIsTimed'
      BY <1>2, <2>2, SdkBegins DEF Sdk!Reconnect
    <3>2. Sdk!DisconnectIsFinal'
      BY <1>2, <2>2 DEF Sdk!Reconnect, Sdk!Begin
    <3> QED
      BY <3>1, <3>2
  <2> QED
    BY <2>1, <2>2
<1>3. CASE Sdk!Disconnect
  <2>1. Sdk!CloseSocket
    BY <1>3 DEF Sdk!Disconnect
  <2>2. /\ sdkReconnectTimer' = FALSE /\ sdkState' = "disconnected"
        /\ UNCHANGED <<listening, sdkSettled, sdkTimers, sdkPromise, shadowed>>
    BY <1>3 DEF Sdk!Disconnect
  <2>3. SdkTypes'
    BY <2>1, <2>2, SdkCloses
  <2>4. UndecidedConnects' /\ Sdk!ClientSound'
    BY <2>1, <2>2, SdkCloses
  <2> QED
    BY <2>3, <2>4
<1>4. ASSUME NEW n \in Sdk!Attempts, Sdk!Opens(n) PROVE SdkInv'
  BY <1>4 DEF Sdk!Opens
<1>5. ASSUME NEW n \in Sdk!Attempts, Sdk!SessionReady(n) PROVE SdkInv'
  BY <1>5, SdkSettles DEF Sdk!SessionReady
<1>6. ASSUME NEW n \in Sdk!Attempts, Sdk!SessionError(n) PROVE SdkInv'
  BY <1>6, FailureMeans, SdkSettles DEF Sdk!SessionError
<1>7. ASSUME NEW n \in Sdk!Attempts, Sdk!HandleError(n) PROVE SdkInv'
  <2>1. CASE n \in sdkAttached \ sdkSettled
    BY <1>7, <2>1, FailureMeans, SdkSettles DEF Sdk!HandleError
  <2>2. CASE n \notin sdkAttached \ sdkSettled
    BY <1>7, <2>2 DEF Sdk!HandleError
  <2> QED
    BY <2>1, <2>2
<1>8. ASSUME NEW n \in Sdk!Attempts, Sdk!HandleClose(n) PROVE SdkInv'
  <2>1. ~shadowed' => ~shadowed /\ (n = sdkWs \/ sdkWs = 0)
    BY <1>8, Zenon DEF Sdk!HandleClose, Sdk!Shadows
  <2>2. sdkReconnectTimer' => sdkReconnectTimer \/ sdkState = "ready"
    BY <1>8, Zenon DEF Sdk!HandleClose
  <2>3. /\ sdkSocket[n] \in {"open", "failed"} /\ n \in sdkAttached
        /\ sdkSocket' = [sdkSocket EXCEPT ![n] = "gone"]
        /\ sdkSettled' = sdkSettled \union {n}
        /\ sdkTimers' = sdkTimers \ (IF n \in sdkSettled THEN {} ELSE {n})
        /\ sdkState' = "disconnected"
        /\ UNCHANGED <<listening, sdkWs, sdkAttached, sdkPromise, sdkEnded>>
    BY <1>8 DEF Sdk!HandleClose
  <2> QED
    BY <2>1, <2>2, <2>3
<1>9. ASSUME NEW n \in Sdk!Attempts, Sdk!ConnectTimeout(n) PROVE SdkInv'
  <2>1. ~shadowed' => ~shadowed /\ (n = sdkWs \/ sdkWs = 0)
    BY <1>9, Zenon DEF Sdk!ConnectTimeout, Sdk!Shadows
  <2>2. Sdk!CloseSocket
    BY <1>9 DEF Sdk!ConnectTimeout
  <2>3. /\ sdkTimers' = sdkTimers \ {n} /\ sdkState' = "error"
        /\ sdkPromise' = [sdkPromise EXCEPT ![n] = "rejected"]
        /\ UNCHANGED <<listening, sdkSettled, sdkReconnectTimer, sdkEnded>>
    BY <1>9 DEF Sdk!ConnectTimeout
  <2>4. SdkTypes'
    BY <2>2, <2>3, SdkCloses
  <2>5. UndecidedConnects' /\ Sdk!ClientSound'
    BY <2>1, <2>2, <2>3, SdkCloses
  <2> QED
    BY <2>4, <2>5
<1>10. CASE UNCHANGED sdkVars
  BY <1>10 DEF sdkVars
<1> QED
  BY <1>1, <1>2, <1>3, <1>4, <1>5, <1>6, <1>7, <1>8, <1>9, <1>10 DEF SdkStep, Sdk!Next

-----------------------------------------------------------------------------
(* The browser.                                                               *)

\* A call that awaits something is of the voice mode that is on, unless something slipped
\* in between; one of the talk button awaits the microphone alone and with the button
\* held, and whoever talks holds the button or has the open microphone on.
BrowserTypes ==
  /\ browserMode \in {"push-to-talk", "open-mic"}
  /\ echoes \in Seq({"push-to-talk", "open-mic"})
  /\ browserCall \in [Calls -> [kind : {"none", "push", "open"},
                                awaits : {"nothing", "microphone", "provider"}]]
  /\ \A c \in Calls : browserCall[c].awaits # "nothing" => browserCall[c].kind # "none"

CallsFollowUser ==
  /\ \A c \in Calls :
       /\ browserCall[c].kind = "open" => browserMode = "open-mic"
       /\ browserCall[c].kind = "push" => browserMode = "push-to-talk"
       /\ browserCall[c].awaits = "provider" => micReady
       /\ browserCall[c].kind = "push" /\ browserCall[c].awaits = "microphone" =>
            /\ pressed /\ browserState # "talking"
            /\ \A d \in Calls : d # c => browserCall[d].awaits = "nothing"
  /\ browserState = "talking" =>
       IF browserMode = "open-mic" THEN openMicActive ELSE pressed
  /\ capturing => pressed \/ (openMicActive /\ browserMode = "open-mic")

BrowserInv ==
  BrowserTypes /\ Browser!CapturesWhatIsThere /\ (~slipped => CallsFollowUser)

\* What a capture may change, said with implications.
LEMMA CaptureMeans ==
  ASSUME NEW kind, NEW s, NEW mic, Browser!Capture(kind, s, mic)
  PROVE  /\ browserState' = IF kind = "open" THEN "talking" ELSE s
         /\ openMicActive \/ kind = "open" => openMicActive'
         /\ capturing' => capturing \/ (mic /\ (kind = "open" \/ s = "talking"))
<1>1. browserState' = IF kind = "open" THEN "talking" ELSE s
  BY DEF Browser!Capture
<1>2. openMicActive \/ kind = "open" => openMicActive'
  BY Zenon DEF Browser!Capture
<1>3. capturing' => capturing \/ (mic /\ (kind = "open" \/ s = "talking"))
  BY Zenon DEF Browser!Capture
<1> QED
  BY <1>1, <1>2, <1>3

\* A call with the microphone at hand goes on, and captures or awaits the provider.
LEMMA ProceedKeepsInv ==
  ASSUME BrowserTypes, Browser!CapturesWhatIsThere, ~slipped' => CallsFollowUser,
         NEW c \in Calls, NEW kind \in {"push", "open"},
         Browser!Proceed(c, kind), micReady',
         UNCHANGED <<browserMode, provider, echoes>>,
         pressed => pressed',
         ~slipped' /\ kind = "open" => browserMode = "open-mic",
         ~slipped' /\ kind = "push" =>
           /\ browserMode = "push-to-talk" /\ pressed'
           /\ \A d \in Calls : d # c => browserCall[d].awaits # "microphone"
  PROVE  BrowserInv'
<1> USE DEF BrowserInv, BrowserTypes, CallsFollowUser, Browser!CapturesWhatIsThere,
            Browser!NoCall
<1> DEFINE s == IF kind = "push" THEN "talking" ELSE browserState
<1>1. CASE provider
  <2>1. Browser!Capture(kind, s, TRUE)
    BY <1>1 DEF Browser!Proceed
  <2>2. /\ browserState' = "talking"
        /\ openMicActive \/ kind = "open" => openMicActive'
        /\ kind = "push" \/ kind = "open"
    BY <2>1, CaptureMeans
  <2>3. browserCall' = [browserCall EXCEPT ![c] = Browser!NoCall]
    BY <1>1 DEF Browser!Proceed
  <2>4. CASE kind = "open"
    BY <2>2, <2>3, <2>4
  <2>5. CASE kind = "push"
    BY <2>2, <2>3, <2>5
  <2> QED
    BY <2>2, <2>4, <2>5
<1>2. CASE ~provider
  <2>1. /\ browserState' = s /\ UNCHANGED <<openMicActive, capturing>>
        /\ browserCall' = [browserCall EXCEPT ![c] = [kind |-> kind, awaits |-> "provider"]]
    BY <1>2 DEF Browser!Proceed
  <2>2. CASE kind = "open"
    BY <2>1, <2>2
  <2>3. CASE kind = "push"
    BY <2>1, <2>3
  <2> QED
    BY <2>2, <2>3
<1> QED
  BY <1>1, <1>2

\* A call of the mode that is on begins.
LEMMA BeginKeepsInv ==
  ASSUME BrowserInv, NEW kind \in {"push", "open"}, Browser!Begin(kind), Browser!NewTurn,
         UNCHANGED <<browserMode, micReady, provider, echoes>>,
         IF kind = "open" THEN browserMode = "open-mic" /\ UNCHANGED pressed
         ELSE browserMode = "push-to-talk" /\ ~pressed /\ pressed'
              /\ browserState = "connected"
  PROVE  BrowserInv'
<1> USE DEF BrowserInv, BrowserTypes, CallsFollowUser, Browser!CapturesWhatIsThere,
            Browser!NoCall
<1>1. PICK c \in Calls : /\ browserCall[c] = Browser!NoCall
                         /\ IF micReady
                            THEN Browser!Proceed(c, kind)
                            ELSE /\ browserCall' = [browserCall EXCEPT ![c] =
                                                 [kind |-> kind, awaits |-> "microphone"]]
                                 /\ UNCHANGED <<browserState, openMicActive, capturing>>
  BY DEF Browser!Begin
<1>5. ~slipped' => CallsFollowUser
  <2>1. ~slipped' => ~slipped \/ Browser!Quiet
    BY Zenon DEF Browser!NewTurn
  <2>2. Browser!Quiet => CallsFollowUser
    BY DEF Browser!Quiet, Browser!Underway
  <2> QED
    BY <2>1, <2>2
<1>2. ~slipped' /\ kind = "push" => \A d \in Calls : browserCall[d].awaits # "microphone"
  BY <1>5
<1>3. CASE micReady
  <2>1. micReady'
    BY <1>3
  <2> QED
    BY <1>1, <1>2, <1>3, <1>5, <2>1, ProceedKeepsInv
<1>4. CASE ~micReady
  BY <1>1, <1>2, <1>4, <1>5
<1> QED
  BY <1>3, <1>4

LEMMA BrowserKeepsInv == BrowserInv /\ BrowserStep => BrowserInv'
<1> SUFFICES ASSUME BrowserInv, BrowserStep PROVE BrowserInv'
  OBVIOUS
<1> USE DEF BrowserInv, BrowserTypes, CallsFollowUser, Browser!CapturesWhatIsThere,
            Browser!NoCall
<1>1. CASE Browser!Initialize
  BY <1>1 DEF Browser!Initialize
<1>2. CASE Browser!Initialized
  BY <1>2 DEF Browser!Initialized
<1>3. CASE Browser!Disconnect
  <2>1. ~slipped' => ~slipped /\ Browser!Underway = {}
    BY <1>3, Zenon DEF Browser!Disconnect
  <2>2. /\ browserState' = "idle" /\ capturing' = FALSE
        /\ UNCHANGED <<browserMode, openMicActive, pressed, browserCall>> /\ echoes' = <<>>
    BY <1>3 DEF Browser!Disconnect
  <2>3. ~slipped' => \A c \in Calls : browserCall[c] = Browser!NoCall
    BY <2>1 DEF Browser!Underway
  <2> QED
    BY <2>1, <2>2, <2>3
<1>4. CASE Browser!ProviderReady
  <2> DEFINE waiting == {c \in Calls : browserCall[c].awaits = "provider"}
             kind == IF \E c \in waiting : browserCall[c].kind = "open" THEN "open" ELSE "push"
  <2>1. Browser!Capture(kind, browserState, micReady)
    BY <1>4 DEF Browser!ProviderReady
  <2>2. /\ browserState' = IF kind = "open" THEN "talking" ELSE browserState
        /\ openMicActive \/ kind = "open" => openMicActive'
        /\ capturing' => capturing \/ (micReady /\ (kind = "open" \/ browserState = "talking"))
    BY <2>1, CaptureMeans
  <2>3. /\ browserCall' = [c \in Calls |-> IF c \in waiting THEN Browser!NoCall ELSE browserCall[c]]
        /\ UNCHANGED <<browserMode, micReady, pressed, echoes, slipped>>
    BY <1>4 DEF Browser!ProviderReady
  <2>4. ~slipped /\ kind = "open" => browserMode = "open-mic"
    OBVIOUS
  <2> HIDE DEF kind
  <2> QED
    BY <2>2, <2>3, <2>4
<1>5. ASSUME NEW c \in Calls, Browser!MicrophoneAnswers(c) PROVE BrowserInv'
  <2>1. browserCall[c].awaits = "microphone"
        /\ UNCHANGED <<browserMode, provider, pressed, echoes, slipped>>
    BY <1>5 DEF Browser!MicrophoneAnswers
  <2>2. CASE micReady' /\ Browser!Proceed(c, browserCall[c].kind)
    <3>1. CASE browserCall[c].kind = "none"
      BY <2>1, <2>2, <3>1
    <3>2. CASE browserCall[c].kind \in {"push", "open"}
      BY <2>1, <2>2, <3>2, ProceedKeepsInv
    <3> QED
      BY <3>1, <3>2
  <2>3. CASE /\ browserCall' = [browserCall EXCEPT ![c] = Browser!NoCall]
             /\ UNCHANGED <<browserState, openMicActive, micReady, capturing>>
    BY <2>1, <2>3
  <2> QED
    BY <1>5, <2>2, <2>3 DEF Browser!MicrophoneAnswers
<1>6. ASSUME NEW c \in Calls, Browser!ProviderTimeout(c) PROVE BrowserInv'
  <2> DEFINE kind == browserCall[c].kind
  <2>1. Browser!Capture(kind, browserState, micReady)
    BY <1>6 DEF Browser!ProviderTimeout
  <2>2. /\ browserState' = IF kind = "open" THEN "talking" ELSE browserState
        /\ openMicActive \/ kind = "open" => openMicActive'
        /\ capturing' => capturing \/ (micReady /\ (kind = "open" \/ browserState = "talking"))
    BY <2>1, CaptureMeans
  <2>3. /\ browserCall' = [browserCall EXCEPT ![c] = Browser!NoCall]
        /\ UNCHANGED <<browserMode, micReady, pressed, echoes, slipped>>
    BY <1>6 DEF Browser!ProviderTimeout
  <2>4. ~slipped /\ kind = "open" => browserMode = "open-mic"
    OBVIOUS
  <2> HIDE DEF kind
  <2> QED
    BY <2>2, <2>3, <2>4
<1>7. CASE Browser!PressToTalk
  BY <1>7, BeginKeepsInv DEF Browser!PressToTalk
<1>8. CASE Browser!PressOtherwise
  BY <1>8 DEF Browser!PressOtherwise
<1>9. CASE Browser!Release
  <2>1. CASE browserState = "talking" /\ browserMode = "push-to-talk"
    BY <1>9, <2>1 DEF Browser!Release
  <2>2. CASE ~(browserState = "talking" /\ browserMode = "push-to-talk")
    <3>1. ~slipped' => ~slipped /\ ~capturing /\ Browser!Underway = {}
      BY <1>9, <2>2, Zenon DEF Browser!Release
    <3>2. /\ UNCHANGED <<browserState, capturing, browserMode, openMicActive, micReady>>
          /\ UNCHANGED <<browserCall, echoes>>
      BY <1>9, <2>2 DEF Browser!Release
    <3>3. ~slipped' => \A c \in Calls : browserCall[c] = Browser!NoCall
      BY <3>1 DEF Browser!Underway
    <3> QED
      BY <2>2, <3>1, <3>2, <3>3
  <2> QED
    BY <2>1, <2>2
<1>10. CASE Browser!StartOpenMic
  BY <1>10, BeginKeepsInv DEF Browser!StartOpenMic
<1>11. CASE Browser!StopOpenMic
  BY <1>11 DEF Browser!StopOpenMic, Browser!StopMic
<1>12. CASE Browser!ToggleVoiceMode
  <2>1. ~slipped' => ~slipped /\ ~pressed /\ Browser!Underway = {}
    BY <1>12, Zenon DEF Browser!ToggleVoiceMode
  <2>2. ~slipped' => \A c \in Calls : browserCall[c] = Browser!NoCall
    BY <2>1 DEF Browser!Underway
  <2>3. /\ browserMode' = IF browserMode = "open-mic" THEN "push-to-talk" ELSE "open-mic"
        /\ UNCHANGED <<micReady, pressed, browserCall>>
        /\ echoes' \in Seq({"push-to-talk", "open-mic"})
    BY <1>12 DEF Browser!ToggleVoiceMode
  <2>4. CASE browserMode = "open-mic" /\ openMicActive
    BY <1>12, <2>1, <2>2, <2>3, <2>4 DEF Browser!ToggleVoiceMode, Browser!StopMic
  <2>5. CASE ~(browserMode = "open-mic" /\ openMicActive)
    <3>1. UNCHANGED <<browserState, openMicActive, capturing>>
      BY <1>12, <2>5 DEF Browser!ToggleVoiceMode
    <3> QED
      BY <2>1, <2>2, <2>3, <2>5, <3>1
  <2> QED
    BY <2>4, <2>5
<1>13. CASE \/ Browser!ResponseStart \/ Browser!AudioChunk \/ Browser!PlaybackEnds
            \/ Browser!ResponseEnd \/ Browser!CommitSkipped \/ Browser!CancelAck
            \/ Browser!FatalError
  BY <1>13 DEF Browser!ResponseStart, Browser!AudioChunk, Browser!PlaybackEnds,
     Browser!ResponseEnd, Browser!CommitSkipped, Browser!CancelAck, Browser!FatalError,
     Browser!Becomes
<1>14. CASE UNCHANGED browserVars
  BY <1>14 DEF browserVars
<1>15. CASE Browser!ModeChanged
  <2>1. /\ UNCHANGED <<browserState, openMicActive, micReady, capturing, pressed, browserCall>>
        /\ browserMode' = Head(echoes)
    BY <1>15 DEF Browser!ModeChanged
  <2>2. Head(echoes) \in {"push-to-talk", "open-mic"}
    BY <1>15 DEF Browser!ModeChanged
  <2>3. ~slipped' => /\ ~slipped
                     /\ \/ browserMode' = browserMode
                        \/ Browser!Underway = {} /\ ~pressed /\ ~openMicActive
    BY <1>15, Zenon DEF Browser!ModeChanged
  <2>4. Browser!Underway = {} => \A c \in Calls : browserCall[c] = Browser!NoCall
    BY DEF Browser!Underway
  <2>5. echoes' \in Seq({"push-to-talk", "open-mic"})
    BY <1>15 DEF Browser!ModeChanged
  <2> QED
    BY <2>1, <2>2, <2>3, <2>4, <2>5
<1>16. CASE Browser!ConnectionLost
  BY <1>16 DEF Browser!ConnectionLost
<1> QED
  BY <1>1, <1>2, <1>3, <1>4, <1>5, <1>6, <1>7, <1>8, <1>9, <1>10, <1>11, <1>12, <1>13,
     <1>14, <1>15, <1>16 DEF BrowserStep, Browser!Next

LEMMA BrowserFollows == BrowserInv => Browser!Discreet
BY DEF BrowserInv, CallsFollowUser, Browser!Discreet, Browser!MicFollowsUser

\* What goes on of the playback that runs: one source, or one timer.
GoesOn == \/ sounding = {} /\ waits = 1
          \/ sounding = {playerCurrent} /\ waits = 0

PlayerInv ==
  /\ playerQueue \in Nat /\ waits \in Nat /\ started \in Nat
  /\ ~overtaken /\ isPlaying => GoesOn /\ stopped = {}
  /\ ~overtaken /\ ~isPlaying => sounding = {}

LEMMA PlayerKeepsInv == PlayerInv /\ PlayerStep => PlayerInv'
<1> SUFFICES ASSUME PlayerInv, PlayerStep PROVE PlayerInv'
  OBVIOUS
<1> USE DEF PlayerInv, GoesOn
<1>1. CASE Player!EnqueueAudio
  <2>1. ~overtaken' => IF isPlaying THEN ~overtaken
                       ELSE stopped = {} /\ ~(waits > 0) /\ (overtaken => sounding = {})
    BY <1>1, Zenon DEF Player!EnqueueAudio
  <2>2. CASE isPlaying
    BY <1>1, <2>1, <2>2 DEF Player!EnqueueAudio
  <2>3. CASE ~isPlaying
    <3>1. /\ playerQueue' = playerQueue /\ started' = started + 1 /\ waits' = waits
          /\ sounding' = sounding \union {started'} /\ playerCurrent' = started'
          /\ isPlaying' /\ stopped' = stopped
      BY <1>1, <2>3 DEF Player!EnqueueAudio, Player!PlayNextChunk
    <3> QED
      BY <2>1, <2>3, <3>1
  <2> QED
    BY <2>2, <2>3
<1>2. CASE Player!WaitEnds
  BY <1>2 DEF Player!WaitEnds, Player!PlayNextChunk
<1>3. CASE Player!Stop
  BY <1>3 DEF Player!Stop, Player!Silence
<1>4. CASE Player!Cleanup \/ Player!Initialize
  BY <1>4 DEF Player!Cleanup, Player!Initialize
<1>5. ASSUME NEW s \in 1..MaxChunks, Player!SourceEnds(s) PROVE PlayerInv'
  BY <1>5 DEF Player!SourceEnds, Player!PlayNextChunk
<1>6. ASSUME NEW s \in 1..MaxChunks, Player!StoppedSourceEnds(s) PROVE PlayerInv'
  BY <1>6 DEF Player!StoppedSourceEnds, Player!PlayNextChunk
<1>7. CASE UNCHANGED playerVars
  BY <1>7 DEF playerVars
<1> QED
  BY <1>1, <1>2, <1>3, <1>4, <1>5, <1>6, <1>7 DEF PlayerStep, Player!Next

LEMMA OneStreamPlays == PlayerInv => Player!OneStream
<1>1. \A S : Player!Cardinality(S) = Cardinality(S)
  BY DEF Player!Cardinality, Cardinality
<1>2. Cardinality({}) = 0 /\ Cardinality({playerCurrent}) = 1
  BY FS_EmptySet, FS_Singleton
<1>3. ASSUME GoesOn
      PROVE  Cardinality(sounding) + waits = 1 /\ sounding \subseteq {playerCurrent}
  BY <1>2, <1>3 DEF GoesOn
<1>4. ASSUME GoesOn
      PROVE  Player!Cardinality(sounding) + waits = 1 /\ sounding \subseteq {playerCurrent}
  BY <1>1, <1>3, <1>4
<1> QED
  BY <1>4 DEF PlayerInv, Player!OneStream

-----------------------------------------------------------------------------
(* The audit trail.                                                           *)

Linked == [event : Nat, after : Nat, state : {"waiting", "writing", "written", "lost"}]

AuditTypes ==
  /\ events \in Seq(Audit!Kinds) /\ ends \in 0..Len(events)
  /\ links \in Seq(Linked) /\ tail \in 0..Len(links)
  /\ file \in Seq(Nat) /\ replay \in Seq(Nat)
  /\ replays \in Nat /\ auditFailures \in Nat
  /\ \A l \in 1..Len(links) : links[l].event \in 1..Len(events) /\ links[l].after \in 0..(l - 1)
  /\ \A i \in 1..Len(file) : file[i] \in 1..Len(events)
  /\ \A i \in 1..Len(replay) : replay[i] \in 1..Len(events)
  /\ \A e \in 1..Len(events) : events[e] = "session.end" => ends # 0 /\ ends <= e
  /\ ends # 0 => events[ends] = "session.end"

\* Who waits does so for a link that is not settled, and nobody else has such a link.
WaitsForUnsettled ==
  \A l \in 1..Len(links) : links[l].state = "waiting" <=> ~Audit!Settled(links[l].after)

\* Until the append of the first session.end has ended.
Open == ends = 0 \/ \E l \in 1..Len(links) : links[l].event = ends /\ ~Audit!Settled(l)

\* So long, the links are one chain in the order of the events and the file is in that
\* order; then, whatever was to be written up to session.end has been.
OneChain ==
  replays = 0 =>
    /\ replay = <<>>
    /\ \A k, l \in 1..Len(links) : k < l => links[k].event < links[l].event
    /\ \A i \in 1..Len(file) :
         \E l \in 1..Len(links) : links[l].event = file[i] /\ Audit!Settled(l)
    /\ Open =>
         /\ tail = Len(links)
         /\ \A l \in 1..Len(links) : links[l].after = l - 1
         /\ \A k, l \in 1..Len(links) : k < l /\ links[l].state # "waiting" => Audit!Settled(k)
         /\ \A i, j \in 1..Len(file) : i < j => file[i] < file[j]
    /\ ~Open =>
         /\ \A l \in 1..Len(links) : links[l].event <= ends => Audit!Settled(l)
         /\ \A i, j \in 1..Len(file) :
              i < j /\ (file[i] <= ends \/ file[j] <= ends) => file[i] < file[j]

Kept ==
  \A e \in 1..Len(events) :
    events[e] # "ignored" =>
      /\ auditFailures = 0 => e \in table
      /\ \/ \E i \in 1..Len(file) : file[i] = e
         \/ \E l \in 1..Len(links) : links[l].event = e /\ links[l].state # "written"

AuditInv == AuditTypes /\ WaitsForUnsettled /\ OneChain /\ Kept

LEMMA AuditIsFaithful == AuditInv => Audit!Faithful
<1> SUFFICES ASSUME AuditInv PROVE Audit!Faithful
  OBVIOUS
<1>1. /\ DOMAIN links = 1..Len(links) /\ DOMAIN file = 1..Len(file)
      /\ DOMAIN events = 1..Len(events)
  BY DEF AuditInv, AuditTypes
<1>2. Audit!InOrderUntilEnd
  BY <1>1 DEF AuditInv, AuditTypes, OneChain, Open, Audit!InOrderUntilEnd
<1>3. Audit!NothingForgotten
  BY <1>1 DEF AuditInv, Kept, Audit!NothingForgotten, Audit!ToSet
<1>4. Audit!ChainMoves
  BY <1>1 DEF AuditInv, AuditTypes, WaitsForUnsettled, Audit!ChainMoves
<1> QED
  BY <1>2, <1>3, <1>4 DEF Audit!Faithful

\* A link is added, for an event that may be new or replayed.
LEMMA LinkIsAdded ==
  ASSUME AuditTypes, NEW e \in Nat, NEW n \in Nat, n = Len(links), Audit!AppendJsonl(e)
  PROVE  /\ links' \in Seq(Linked) /\ Len(links') = n + 1 /\ tail' = n + 1
         /\ \A k \in 1..n : links'[k] = links[k] /\ (Audit!Settled(k)' <=> Audit!Settled(k))
         /\ links'[n + 1].event = e /\ links'[n + 1].after = tail
         /\ links'[n + 1].state = IF Audit!Settled(tail) THEN "writing" ELSE "waiting"
         /\ ~Audit!Settled(n + 1)' /\ Audit!Settled(0)'
<1> USE DEF AuditTypes
<1> DEFINE st == IF Audit!Settled(tail) THEN "writing" ELSE "waiting"
           x == [event |-> e, after |-> tail, state |-> st]
<1>1. links' = Append(links, x) /\ tail' = n + 1
  BY DEF Audit!AppendJsonl
<1>2. x \in Linked /\ x.event = e /\ x.after = tail /\ x.state = st
  BY DEF Linked
<1>3. st \notin {"written", "lost"}
  OBVIOUS
<1> HIDE DEF x
<1>4. /\ links' \in Seq(Linked) /\ Len(links') = n + 1
      /\ links'[n + 1] = x /\ \A k \in 1..n : links'[k] = links[k]
  BY <1>1, <1>2
<1>5. \A k \in 1..n : Audit!Settled(k)' <=> Audit!Settled(k)
  BY <1>4 DEF Audit!Settled
<1>6. ~Audit!Settled(n + 1)' /\ Audit!Settled(0)'
  BY <1>2, <1>3, <1>4 DEF Audit!Settled
<1> QED
  BY <1>1, <1>2, <1>4, <1>5, <1>6

LEMMA AddedLinkWaits ==
  ASSUME AuditTypes, WaitsForUnsettled, NEW e \in Nat, NEW n \in Nat, n = Len(links),
         Audit!AppendJsonl(e)
  PROVE  WaitsForUnsettled'
<1> SUFFICES ASSUME NEW l \in 1..(n + 1)
             PROVE  (links[l].state = "waiting" <=> ~Audit!Settled(links[l].after))'
  BY LinkIsAdded DEF WaitsForUnsettled, Audit!Settled
<1>0. /\ Len(links') = n + 1
      /\ \A k \in 1..n : links'[k] = links[k] /\ (Audit!Settled(k)' <=> Audit!Settled(k))
      /\ links'[n + 1].after = tail
      /\ links'[n + 1].state = IF Audit!Settled(tail) THEN "writing" ELSE "waiting"
      /\ Audit!Settled(0)' /\ Audit!Settled(0)
  BY LinkIsAdded DEF Audit!Settled
<1>1. \A k \in 0..n : Audit!Settled(k)' <=> Audit!Settled(k)
  BY <1>0
<1>2. tail \in 0..n /\ \A k \in 1..n : links[k].after \in 0..n
  BY DEF AuditTypes
<1>3. l = n + 1 \/ l \in 1..n
  OBVIOUS
<1>4. PICK a \in 0..n : a = links'[l].after
  BY <1>0, <1>2, <1>3
<1>5. Audit!Settled(links[l].after)' <=> Audit!Settled(a)'
  BY <1>4 DEF Audit!Settled
<1>6. CASE l = n + 1
  BY <1>0, <1>1, <1>4, <1>5, <1>6
<1>7. CASE l \in 1..n
  <2>1. links[l].state = "waiting" <=> ~Audit!Settled(a)
    BY <1>0, <1>4, <1>7 DEF WaitsForUnsettled
  <2> QED
    BY <1>0, <1>1, <1>5, <1>7, <2>1
<1> QED
  BY <1>3, <1>6, <1>7

LEMMA EventIsEmitted ==
  ASSUME AuditInv, NEW kind \in Audit!Kinds, Audit!Emit(kind)
  PROVE  AuditInv'
<1> USE DEF AuditInv
<1>0. PICK e \in Nat, n \in Nat : e = Len(events) + 1 /\ n = Len(links)
  BY DEF AuditTypes
<1>1. /\ events' = Append(events, kind)
      /\ ends' = IF kind = "session.end" /\ ends = 0 THEN e ELSE ends
      /\ UNCHANGED <<file, replay, replays>>
  BY <1>0 DEF Audit!Emit
<1>2. /\ e \in Nat /\ e >= 1 /\ n \in Nat /\ events' \in Seq(Audit!Kinds) /\ Len(events') = e
      /\ events'[e] = kind /\ \A k \in 1..Len(events) : events'[k] = events[k]
      /\ ends' \in 0..e
      /\ \A k \in 1..Len(events') : events'[k] = "session.end" => ends' # 0 /\ ends' <= k
      /\ ends' # 0 => events'[ends'] = "session.end"
  BY <1>0, <1>1 DEF AuditTypes
<1>3. CASE kind = "ignored"
  <2>1. UNCHANGED <<table, auditFailures, links, tail, ends>>
    BY <1>1, <1>3 DEF Audit!Emit
  <2>2. AuditTypes'
    BY <1>1, <1>2, <2>1 DEF AuditTypes
  <2>3. WaitsForUnsettled' /\ Open' = Open
    BY <2>1 DEF WaitsForUnsettled, Audit!Settled, Open
  <2>4. OneChain'
    BY <1>1, <2>1, <2>3 DEF OneChain, Audit!Settled
  <2>5. Kept'
    BY <1>1, <1>2, <1>3, <2>1 DEF Kept
  <2> QED
    BY <2>2, <2>3, <2>4, <2>5
<1>4. CASE kind # "ignored"
  <2>1. Audit!Insert(e) /\ Audit!AppendJsonl(e)
    BY <1>0, <1>4 DEF Audit!Emit
  <2>2. /\ auditFailures' \in Nat
        /\ auditFailures' = 0 => auditFailures = 0 /\ table' = table \union {e}
    BY <2>1 DEF Audit!Insert, Audit!Failure, AuditTypes
  <2>3. /\ links' \in Seq(Linked) /\ Len(links') = n + 1 /\ tail' = n + 1
        /\ \A k \in 1..n : links'[k] = links[k] /\ (Audit!Settled(k)' <=> Audit!Settled(k))
        /\ links'[n + 1].event = e /\ links'[n + 1].after = tail
        /\ links'[n + 1].state = IF Audit!Settled(tail) THEN "writing" ELSE "waiting"
        /\ ~Audit!Settled(n + 1)' /\ Audit!Settled(0)'
    BY <1>0, <2>1, LinkIsAdded
  <2>0. Audit!Settled(0)
    BY DEF Audit!Settled
  <2>8. \A l \in 1..(n + 1) :
          \/ l = n + 1
          \/ l \in 1..n /\ links'[l] = links[l] /\ (Audit!Settled(l)' <=> Audit!Settled(l))
    BY <1>0, <2>3
  <2>9. /\ tail \in 0..n
        /\ \A l \in 1..n : /\ links[l] \in Linked /\ links[l].event \in 1..Len(events)
                           /\ links[l].event < e /\ links[l].after \in 0..(l - 1)
    <3>1. tail \in 0..n /\ \A l \in 1..n : links[l].event \in 1..Len(events)
                                       /\ links[l].after \in 0..(l - 1)
      BY <1>0 DEF AuditTypes
    <3>2. \A l \in 1..n : links[l] \in Linked
      BY <1>0 DEF AuditTypes
    <3>3. Len(events) \in Nat /\ \A x \in 1..Len(events) : x < e
      BY <1>0 DEF AuditTypes
    <3> QED
      BY <3>1, <3>2, <3>3
  <2>4. AuditTypes'
    <3>1. /\ events' \in Seq(Audit!Kinds) /\ ends' \in 0..Len(events')
          /\ links' \in Seq(Linked) /\ tail' \in 0..Len(links')
          /\ file' \in Seq(Nat) /\ replay' \in Seq(Nat)
          /\ replays' \in Nat /\ auditFailures' \in Nat
      BY <1>0, <1>1, <1>2, <2>2, <2>3 DEF AuditTypes
    <3>2. Len(events) \in Nat /\ \A x \in 1..Len(events) : x \in 1..Len(events')
      BY <1>0, <1>2 DEF AuditTypes
    <3>3. e \in 1..Len(events')
      BY <1>2
    <3>4. \A l \in 1..(n + 1) : links'[l].event \in 1..Len(events') /\ links'[l].after \in 0..(l - 1)
      <4> TAKE l \in 1..(n + 1)
      <4>1. CASE l = n + 1
        BY <2>3, <2>9, <3>3, <4>1
      <4>2. CASE l # n + 1
        BY <2>8, <2>9, <3>2, <4>2
      <4> QED
        BY <4>1, <4>2
    <3>5. /\ \A i \in 1..Len(file') : file'[i] \in 1..Len(events')
          /\ \A i \in 1..Len(replay') : replay'[i] \in 1..Len(events')
      BY <1>1, <3>2 DEF AuditTypes
    <3> QED
      BY <1>2, <2>3, <3>1, <3>4, <3>5 DEF AuditTypes
  <2>5. WaitsForUnsettled'
    BY <1>0, <2>1, AddedLinkWaits
  <2>6. Kept'
    <3>1. \A l \in 1..n : l \in 1..(n + 1) /\ links'[l] = links[l]
      BY <1>2, <2>3
    <3> SUFFICES ASSUME NEW x \in 1..Len(events'), events'[x] # "ignored"
                 PROVE  /\ auditFailures' = 0 => x \in table'
                        /\ \/ \E i \in 1..Len(file) : file[i] = x
                           \/ \E l \in 1..(n + 1) : links'[l].event = x /\ links'[l].state # "written"
      BY <1>1, <2>3 DEF Kept
    <3>2. CASE x = e
      <4>1. n + 1 \in 1..(n + 1) /\ links'[n + 1].state # "written"
        BY <1>2, <2>3
      <4> QED
        BY <2>2, <2>3, <3>2, <4>1
    <3>3. CASE x # e
      <4>1. x \in 1..Len(events) /\ events'[x] = events[x]
        BY <1>0, <1>2, <3>3
      <4> QED
        <5>1. /\ auditFailures = 0 => x \in table
              /\ \/ \E i \in 1..Len(file) : file[i] = x
                 \/ \E l \in 1..n : links[l].event = x /\ links[l].state # "written"
          BY <1>0, <4>1 DEF Kept
        <5>2. auditFailures' = 0 => x \in table'
          BY <2>2, <5>1
        <5>3. CASE \E i \in 1..Len(file) : file[i] = x
          BY <5>2, <5>3
        <5>4. CASE \E l \in 1..n : links[l].event = x /\ links[l].state # "written"
          BY <3>1, <5>2, <5>4
        <5> QED
          BY <5>1, <5>3, <5>4
    <3> QED
      BY <3>2, <3>3
  <2>7. OneChain'
    <3> SUFFICES ASSUME replays = 0 PROVE OneChain'
      BY <1>1 DEF OneChain
    <3>1. \A k, l \in 1..n : k < l => links[k].event < links[l].event
      BY <1>0 DEF OneChain
    <3>2. \A k, l \in 1..(n + 1) : k < l => links'[k].event < links'[l].event
      BY <2>3, <2>8, <2>9, <3>1
    <3>3. \A i \in 1..Len(file) :
            \E l \in 1..(n + 1) : links'[l].event = file[i] /\ Audit!Settled(l)'
      <4> TAKE i \in 1..Len(file)
      <4>1. PICK l \in 1..n : links[l].event = file[i] /\ Audit!Settled(l)
        BY <1>0 DEF OneChain
      <4>2. l \in 1..(n + 1) /\ links'[l].event = file[i] /\ Audit!Settled(l)'
        BY <2>3, <4>1
      <4> QED
        BY <4>2
    <3>4. CASE Open
      <4>1. Open'
        <5>1. CASE ends = 0
          <6>1. n + 1 \in 1..Len(links') /\ links'[n + 1].event = e /\ ~Audit!Settled(n + 1)'
            BY <1>2, <2>3
          <6> QED
            BY <1>1, <5>1, <6>1 DEF Open
        <5>2. CASE ends # 0
          <6>1. PICK l \in 1..n : links[l].event = ends /\ ~Audit!Settled(l)
            BY <1>0, <3>4, <5>2 DEF Open
          <6>2. l \in 1..Len(links') /\ links'[l].event = ends' /\ ~Audit!Settled(l)'
            BY <1>1, <1>2, <2>3, <5>2, <6>1
          <6> QED
            BY <6>2 DEF Open
        <5> QED
          BY <5>1, <5>2
      <4>2. tail = n /\ \A l \in 1..n : links[l].after = l - 1
        BY <1>0, <3>4 DEF OneChain
      <4>3. \A l \in 1..(n + 1) : links'[l].after = l - 1
        BY <2>3, <2>8, <4>2
      <4>4. ASSUME NEW k \in 1..(n + 1), NEW l \in 1..(n + 1), k < l, links'[l].state # "waiting"
            PROVE  Audit!Settled(k)'
        <5>1. CASE l = n + 1
          <6>1. Audit!Settled(n) /\ k \in 1..n
            BY <1>2, <2>3, <4>2, <4>4, <5>1
          <6>2. CASE k = n
            BY <2>3, <6>1, <6>2
          <6>3. CASE k < n
            <7>1. n \in 1..n /\ links[n].state # "waiting"
              BY <1>2, <6>1, <6>3 DEF Audit!Settled
            <7> QED
              BY <1>0, <2>3, <3>4, <6>1, <6>3, <7>1 DEF OneChain
          <6> QED
            BY <1>2, <6>1, <6>2, <6>3
        <5>2. CASE l # n + 1
          <6>1. l \in 1..n /\ k \in 1..n
            BY <1>2, <4>4, <5>2
          <6> QED
            BY <1>0, <2>3, <3>4, <4>4, <6>1 DEF OneChain
        <5> QED
          BY <5>1, <5>2
      <4>5. \A i, j \in 1..Len(file) : i < j => file[i] < file[j]
        BY <3>4 DEF OneChain
      <4> QED
        BY <1>1, <2>3, <3>2, <3>3, <4>1, <4>3, <4>4, <4>5 DEF OneChain
    <3>5. CASE ~Open
      <4>1. ends # 0 /\ ends' = ends /\ ends < e
        BY <1>0, <1>1, <3>5 DEF Open, AuditTypes
      <4>2. \A l \in 1..(n + 1) : links'[l].event <= ends => Audit!Settled(l)'
        <5>1. \A l \in 1..n : links[l].event <= ends => Audit!Settled(l)
          BY <1>0, <3>5 DEF OneChain
        <5>2. ends \in Nat
          BY DEF AuditTypes
        <5> QED
          BY <2>3, <2>8, <4>1, <5>1, <5>2
      <4>3. ~Open'
        BY <2>3, <4>1, <4>2 DEF Open, AuditTypes
      <4>4. \A i, j \in 1..Len(file) :
              i < j /\ (file[i] <= ends \/ file[j] <= ends) => file[i] < file[j]
        BY <3>5 DEF OneChain
      <4> QED
        BY <1>1, <2>3, <3>2, <3>3, <4>1, <4>2, <4>3, <4>4 DEF OneChain
    <3> QED
      BY <3>4, <3>5
  <2> QED
    BY <2>4, <2>5, <2>6, <2>7
<1> QED
  BY <1>3, <1>4

LEMMA EventIsReplayed ==
  ASSUME AuditInv, Audit!ReplayNext
  PROVE  AuditInv'
<1> USE DEF AuditInv
<1>0. PICK n \in Nat : n = Len(links)
  BY DEF AuditTypes
<1>1. replay \in Seq(Nat) /\ replay # <<>> /\ replay' = Tail(replay) /\ Head(replay) = replay[1]
      /\ Len(replay) \in Nat /\ 1 \in 1..Len(replay)
      /\ UNCHANGED <<events, ends, file, replays>>
  BY DEF AuditTypes, Audit!ReplayNext
<1>2. PICK e \in 1..Len(events) : e = Head(replay)
  BY <1>1 DEF AuditTypes
<1>3. Audit!Insert(e) /\ Audit!AppendJsonl(e) /\ e \in Nat
  BY <1>2 DEF Audit!ReplayNext
<1>4. /\ auditFailures' \in Nat
      /\ auditFailures' = 0 => auditFailures = 0 /\ table' = table \union {e}
  <2>1. auditFailures \in Nat
    BY DEF AuditTypes
  <2>2. CASE table' = table \union {e} /\ UNCHANGED auditFailures
    BY <2>1, <2>2
  <2>3. CASE auditFailures' = auditFailures + 1
    BY <2>1, <2>3
  <2> QED
    BY <1>3, <2>2, <2>3 DEF Audit!Insert, Audit!Failure
<1>5. /\ links' \in Seq(Linked) /\ Len(links') = n + 1 /\ tail' = n + 1
      /\ \A k \in 1..n : links'[k] = links[k]
      /\ links'[n + 1].event = e /\ links'[n + 1].after = tail
  BY <1>0, <1>3, LinkIsAdded
<1>6. AuditTypes'
  <2>1. \A l \in 1..(n + 1) : links'[l].event \in 1..Len(events) /\ links'[l].after \in 0..(l - 1)
    <3> TAKE l \in 1..(n + 1)
    <3>1. CASE l = n + 1
      BY <1>0, <1>5, <3>1 DEF AuditTypes
    <3>2. CASE l # n + 1
      <4>1. l \in 1..n
        BY <3>2
      <4> QED
        BY <1>0, <1>5, <4>1 DEF AuditTypes
    <3> QED
      BY <3>1, <3>2
  <2>2. replay' \in Seq(Nat) /\ \A i \in 1..Len(replay') : replay'[i] \in 1..Len(events)
    <3>1. /\ replay' \in Seq(Nat) /\ Len(replay') = Len(replay) - 1
          /\ \A i \in 1..Len(replay') : replay'[i] = replay[i + 1] /\ i + 1 \in 1..Len(replay)
      BY <1>1
    <3> QED
      BY <3>1 DEF AuditTypes
  <2>3. tail' \in 0..Len(links')
    BY <1>5
  <2> QED
    BY <1>1, <1>4, <1>5, <2>1, <2>2, <2>3 DEF AuditTypes
<1>7. WaitsForUnsettled'
  BY <1>0, <1>3, AddedLinkWaits
<1>8. OneChain'
  BY <1>1 DEF OneChain
<1>9. Kept'
  <2> SUFFICES ASSUME NEW x \in 1..Len(events), events[x] # "ignored"
               PROVE  /\ auditFailures' = 0 => x \in table'
                      /\ \/ \E i \in 1..Len(file) : file[i] = x
                         \/ \E l \in 1..(n + 1) : links'[l].event = x /\ links'[l].state # "written"
    BY <1>1, <1>5 DEF Kept
  <2>1. \A l \in 1..n : l \in 1..(n + 1) /\ links'[l] = links[l]
    BY <1>5
  <2> QED
    BY <1>0, <1>4, <2>1 DEF Kept
<1> QED
  BY <1>6, <1>7, <1>8, <1>9

LEMMA AppendIsOver ==
  ASSUME AuditInv, NEW l \in DOMAIN links, Audit!AppendEnds(l)
  PROVE  AuditInv'
<1> USE DEF AuditInv
<1>0. PICK n \in Nat : n = Len(links) /\ l \in 1..n
  <2>1. links \in Seq(Linked)
    BY DEF AuditTypes
  <2>2. Len(links) \in Nat /\ DOMAIN links = 1..Len(links)
    BY <2>1
  <2> QED
    BY <2>2
<1>1. PICK result \in {"written", "lost"} :
        /\ IF result = "lost" THEN Audit!Failure ELSE UNCHANGED auditFailures
        /\ file' = IF result = "written" THEN Append(file, links[l].event) ELSE file
        /\ links' = [k \in DOMAIN links |->
                      [links[k] EXCEPT !.state = IF k = l THEN result
                                                 ELSE IF links[k].after = l THEN "writing" ELSE @]]
  BY DEF Audit!AppendEnds
<1>2. /\ links[l].state = "writing" /\ tail' = IF Audit!CleansUp(l) THEN 0 ELSE tail
      /\ UNCHANGED <<events, ends, table, replay, replays>>
  BY DEF Audit!AppendEnds
<1> DEFINE St(k) == IF k = l THEN result
                    ELSE IF links[k].after = l THEN "writing" ELSE links[k].state
<1>3. \A k \in 1..n : links[k] \in Linked
  BY <1>0 DEF AuditTypes
<1>4. /\ links' = [k \in 1..n |-> [links[k] EXCEPT !.state = St(k)]]
      /\ \A k \in 1..n : St(k) \in {"waiting", "writing", "written", "lost"}
  BY <1>0, <1>1, <1>3, SMTT(30) DEF AuditTypes, Linked
<1> HIDE DEF St
<1>5. \A k \in 1..n : /\ [links[k] EXCEPT !.state = St(k)] \in Linked
                      /\ [links[k] EXCEPT !.state = St(k)].event = links[k].event
                      /\ [links[k] EXCEPT !.state = St(k)].after = links[k].after
                      /\ [links[k] EXCEPT !.state = St(k)].state = St(k)
  BY <1>3, <1>4 DEF Linked
<1>6. /\ links' \in Seq(Linked) /\ Len(links') = n
      /\ \A k \in 1..n : links'[k].event = links[k].event /\ links'[k].after = links[k].after
                         /\ links'[k].state = St(k)
  <2> DEFINE r(k) == [links[k] EXCEPT !.state = St(k)]
  <2>1. links' = [k \in 1..n |-> r(k)] /\ \A k \in 1..n : r(k) \in Linked
    BY <1>4, <1>5
  <2>2. \A k \in 1..n : r(k).event = links[k].event /\ r(k).after = links[k].after
                         /\ r(k).state = St(k)
    BY <1>5
  <2> HIDE DEF r
  <2>3. links' \in [1..n -> Linked] /\ \A k \in 1..n : links'[k] = r(k)
    BY <2>1
  <2>4. links' \in Seq(Linked) /\ Len(links') = n
    BY <2>3
  <2> QED
    BY <2>2, <2>3, <2>4
<1>7. Audit!Settled(0) /\ Audit!Settled(0)'
  BY DEF Audit!Settled
\* Settled is what was, and this link.
<1>8. \A k \in 1..n : Audit!Settled(k)' <=> Audit!Settled(k) \/ k = l
  <2> TAKE k \in 1..n
  <2>1. links[k].after = l /\ k # l => ~Audit!Settled(k)
    <3>1. ~Audit!Settled(l)
      BY <1>0, <1>2 DEF Audit!Settled
    <3> QED
      BY <1>0, <3>1 DEF WaitsForUnsettled, Audit!Settled
  <2>2. Audit!Settled(k)' <=> St(k) \in {"written", "lost"}
    BY <1>0, <1>6 DEF Audit!Settled
  <2>3. Audit!Settled(k) <=> links[k].state \in {"written", "lost"}
    BY <1>0 DEF Audit!Settled
  <2> QED
    BY <2>1, <2>2, <2>3 DEF St
<1>9. /\ file' \in Seq(Nat) /\ Len(file) \in Nat /\ auditFailures' \in Nat
      /\ auditFailures' = 0 => auditFailures = 0
      /\ IF result = "written"
         THEN /\ Len(file') = Len(file) + 1 /\ file'[Len(file) + 1] = links[l].event
              /\ \A i \in 1..Len(file) : file'[i] = file[i]
         ELSE file' = file
  BY <1>0, <1>1 DEF AuditTypes, Audit!Failure
<1>10. /\ Len(file') \in Nat /\ Len(file') <= Len(file) + 1
       /\ \A i \in 1..Len(file) : file'[i] = file[i]
  <2>1. CASE result = "written"
    BY <1>9, <2>1
  <2>2. CASE result # "written"
    BY <1>9, <2>2
  <2> QED
    BY <2>1, <2>2
<1>11. AuditTypes'
  <2>1. \A i \in 1..Len(file') : file'[i] \in 1..Len(events)
    <3>1. links[l].event \in 1..Len(events) /\ \A i \in 1..Len(file) : file[i] \in 1..Len(events)
      BY <1>0 DEF AuditTypes
    <3>2. \A i \in 1..Len(file') : i \in 1..Len(file) \/ (result = "written" /\ i = Len(file) + 1)
      BY <1>9
    <3> QED
      BY <1>9, <3>1, <3>2
  <2>2. tail' \in 0..n
    BY <1>0, <1>2 DEF AuditTypes
  <2>3. \A k \in 1..n : links'[k].event \in 1..Len(events) /\ links'[k].after \in 0..(k - 1)
    BY <1>0, <1>6 DEF AuditTypes
  <2> QED
    BY <1>2, <1>6, <1>9, <2>1, <2>2, <2>3 DEF AuditTypes
<1>12. WaitsForUnsettled'
  <2> SUFFICES ASSUME NEW k \in 1..n
               PROVE  (links[k].state = "waiting" <=> ~Audit!Settled(links[k].after))'
    BY <1>6 DEF WaitsForUnsettled, Audit!Settled
  <2>1. PICK a \in 0..(k - 1) : a = links[k].after
    BY <1>0 DEF AuditTypes
  <2>2. Audit!Settled(links[k].after)' <=> Audit!Settled(a)'
    BY <1>6, <2>1 DEF Audit!Settled
  <2>3. links[k].state = "waiting" <=> ~Audit!Settled(a)
    BY <1>0, <2>1 DEF WaitsForUnsettled
  <2>4. Audit!Settled(a)' <=> Audit!Settled(a) \/ a = l
    BY <1>0, <1>7, <1>8
  <2>5. links[l].state # "waiting" /\ (k = l => Audit!Settled(a))
    BY <1>2, <2>3
  <2> QED
    BY <1>6, <2>1, <2>2, <2>3, <2>4, <2>5 DEF St
<1>13. Kept'
  <2> SUFFICES ASSUME NEW x \in 1..Len(events), events[x] # "ignored"
               PROVE  /\ auditFailures' = 0 => x \in table
                      /\ \/ \E i \in 1..Len(file') : file'[i] = x
                         \/ \E k \in 1..n : links'[k].event = x /\ links'[k].state # "written"
    BY <1>2, <1>6 DEF Kept
  <2>1. auditFailures' = 0 => x \in table
    BY <1>9 DEF Kept
  <2>2. CASE \E i \in 1..Len(file) : file[i] = x
    <3>1. PICK i \in 1..Len(file) : file[i] = x
      BY <2>2
    <3>2. i \in 1..Len(file') /\ file'[i] = x
      BY <1>9, <3>1
    <3> QED
      BY <2>1, <3>2
  <2>3. CASE \E k \in 1..n : links[k].event = x /\ links[k].state # "written"
    <3>1. PICK k \in 1..n : links[k].event = x /\ links[k].state # "written"
      BY <2>3
    <3>2. CASE k = l /\ result = "written"
      <4>1. Len(file) + 1 \in 1..Len(file') /\ file'[Len(file) + 1] = x
        BY <1>9, <3>1, <3>2
      <4> QED
        BY <2>1, <4>1
    <3>3. CASE ~(k = l /\ result = "written")
      BY <1>6, <2>1, <3>1, <3>3 DEF St
    <3> QED
      BY <3>2, <3>3
  <2> QED
    BY <1>0, <2>1, <2>2, <2>3 DEF Kept
<1>14. OneChain'
  <2> SUFFICES ASSUME replays = 0 PROVE OneChain'
    BY <1>2 DEF OneChain
  <2>1. \A k, m \in 1..n : k < m => links'[k].event < links'[m].event
    BY <1>0, <1>6 DEF OneChain
  <2>2. \A i \in 1..Len(file') :
          \E k \in 1..n : links'[k].event = file'[i] /\ Audit!Settled(k)'
    <3> TAKE i \in 1..Len(file')
    <3>1. CASE i \in 1..Len(file)
      <4>1. PICK k \in 1..n : links[k].event = file[i] /\ Audit!Settled(k)
        BY <1>0, <3>1 DEF OneChain
      <4>2. file'[i] = file[i]
        BY <1>9, <3>1
      <4> QED
        BY <1>6, <1>8, <4>1, <4>2
    <3>2. CASE i \notin 1..Len(file)
      <4>1. file'[i] = links[l].event
        BY <1>9, <3>2
      <4> QED
        BY <1>0, <1>6, <1>8, <4>1
    <3> QED
      BY <3>1, <3>2
  <2>3. replay' = <<>>
    BY <1>2 DEF OneChain
  <2>4. CASE Open
    <3>1. /\ tail = n /\ \A k \in 1..n : links[k].after = k - 1
          /\ \A k, m \in 1..n : k < m /\ links[m].state # "waiting" => Audit!Settled(k)
          /\ \A i, j \in 1..Len(file) : i < j => file[i] < file[j]
      BY <1>0, <2>4 DEF OneChain
    <3>2. \A i, j \in 1..Len(file') : i < j => file'[i] < file'[j]
      <4>1. \A i \in 1..Len(file) : file[i] < links[l].event
        <5> TAKE i \in 1..Len(file)
        <5>1. PICK k \in 1..n : links[k].event = file[i] /\ Audit!Settled(k)
          BY <1>0 DEF OneChain
        <5>2. k < l
          <6>1. ~Audit!Settled(l)
            BY <1>0, <1>2 DEF Audit!Settled
          <6>2. links[k].state # "waiting"
            BY <5>1 DEF Audit!Settled
          <6>3. ~(l < k)
            BY <1>0, <3>1, <6>1, <6>2
          <6> QED
            BY <1>0, <5>1, <6>1, <6>3
        <5> QED
          BY <1>0, <5>1, <5>2 DEF OneChain
      <4> TAKE i, j \in 1..Len(file')
      <4> SUFFICES ASSUME i < j PROVE file'[i] < file'[j]
        OBVIOUS
      <4>2. i \in 1..Len(file) /\ file'[i] = file[i]
        <5>1. i < Len(file')
          OBVIOUS
        <5>2. i \in 1..Len(file)
          BY <1>9, <1>10, <5>1
        <5> QED
          BY <1>10, <5>2
      <4>3. CASE j \in 1..Len(file)
        <5>1. file'[j] = file[j]
          BY <1>9, <4>3
        <5> QED
          BY <3>1, <4>2, <4>3, <5>1
      <4>4. CASE j \notin 1..Len(file)
        <5>1. file'[j] = links[l].event
          BY <1>9, <4>4
        <5> QED
          BY <4>1, <4>2, <5>1
      <4> QED
        BY <4>3, <4>4
    <3>3. \A k, m \in 1..n : k < m /\ links'[m].state # "waiting" => Audit!Settled(k)'
      <4> TAKE k, m \in 1..n
      <4> SUFFICES ASSUME k < m, links'[m].state # "waiting" PROVE Audit!Settled(k)'
        OBVIOUS
      <4>1. CASE m # l /\ links[m].after = l
        <5>1. k < l \/ k = l
          BY <1>0, <3>1, <4>1
        <5> QED
          BY <1>0, <1>2, <1>8, <3>1, <5>1
      <4>2. CASE ~(m # l /\ links[m].after = l)
        <5>1. links[m].state # "waiting"
          BY <1>2, <1>6, <4>2 DEF St
        <5> QED
          BY <1>8, <3>1, <5>1
      <4> QED
        BY <4>1, <4>2
    <3>4. CASE Audit!CleansUp(l)
      <4>1. links[l].event \in 1..Len(events) /\ events[links[l].event] = "session.end"
        BY <1>0, <3>4 DEF AuditTypes, Audit!CleansUp
      <4>2. ends # 0 /\ ends <= links[l].event
        BY <4>1 DEF AuditTypes
      <4>3. PICK f \in 1..n : links[f].event = ends /\ ~Audit!Settled(f)
        BY <1>0, <2>4, <4>2 DEF Open
      <4>4. f = l
        <5>1. ~(l < f)
          <6> SUFFICES ASSUME l < f PROVE FALSE
            OBVIOUS
          <6>1. links[l].event < links[f].event
            BY <1>0 DEF OneChain
          <6> QED
            BY <4>1, <4>2, <4>3, <6>1 DEF AuditTypes
        <5>2. ~(f < l)
          BY <1>0, <1>2, <3>1, <4>3
        <5> QED
          BY <1>0, <5>1, <5>2
      <4>5. \A k \in 1..n : links'[k].event <= ends => Audit!Settled(k)'
        <5> SUFFICES ASSUME NEW k \in 1..n, links[k].event <= ends PROVE Audit!Settled(k)'
          BY <1>6
        <5>1. ~(l < k)
          <6> SUFFICES ASSUME l < k PROVE FALSE
            OBVIOUS
          <6>1. links[l].event < links[k].event
            BY <1>0 DEF OneChain
          <6> QED
            BY <1>0, <4>1, <4>3, <4>4, <6>1 DEF AuditTypes
        <5> QED
          BY <1>0, <1>2, <1>8, <3>1, <5>1
      <4>6. ~Open'
        BY <1>2, <1>6, <4>2, <4>5, <2>1 DEF Open, AuditTypes
      <4> QED
        BY <1>2, <1>6, <2>1, <2>2, <2>3, <3>2, <4>5, <4>6 DEF OneChain
    <3>5. CASE ~Audit!CleansUp(l)
      <4>1. tail' = n /\ \A k \in 1..n : links'[k].after = k - 1
        BY <1>2, <1>6, <3>1, <3>5
      <4>2. Open'
        <5>1. CASE ends = 0
          BY <1>2, <5>1 DEF Open
        <5>2. CASE ends # 0
          <6>1. PICK f \in 1..n : links[f].event = ends /\ ~Audit!Settled(f)
            BY <1>0, <2>4, <5>2 DEF Open
          <6>2. events[ends] = "session.end"
            BY <5>2 DEF AuditTypes
          <6>3. f # l
            BY <3>5, <6>1, <6>2 DEF Audit!CleansUp
          <6>4. links'[f].event = ends' /\ ~Audit!Settled(f)' /\ f \in 1..Len(links')
            BY <1>2, <1>6, <1>8, <6>1, <6>3
          <6> QED
            BY <6>4 DEF Open
        <5> QED
          BY <5>1, <5>2
      <4> QED
        BY <1>6, <2>1, <2>2, <2>3, <3>2, <3>3, <4>1, <4>2 DEF OneChain
    <3> QED
      BY <3>4, <3>5
  <2>5. CASE ~Open
    <3>1. ends # 0 /\ \A k \in 1..n : links[k].event <= ends => Audit!Settled(k)
      BY <1>0, <2>5 DEF OneChain, Open
    <3>2. \A k \in 1..n : links'[k].event <= ends => Audit!Settled(k)'
      BY <1>6, <1>8, <3>1
    <3>3. ~Open'
      BY <1>2, <1>6, <3>1, <3>2 DEF Open, AuditTypes
    <3>4. links[l].event > ends
      <4>1. ~Audit!Settled(l)
        BY <1>0, <1>2 DEF Audit!Settled
      <4> QED
        BY <1>0, <3>1, <4>1 DEF AuditTypes
    <3>5. \A i, j \in 1..Len(file') :
            i < j /\ (file'[i] <= ends \/ file'[j] <= ends) => file'[i] < file'[j]
      <4> TAKE i, j \in 1..Len(file')
      <4> SUFFICES ASSUME i < j PROVE file'[i] <= ends \/ file'[j] <= ends => file'[i] < file'[j]
        OBVIOUS
      <4>1. /\ ends \in Nat /\ links[l].event \in Nat /\ \A k \in 1..Len(file) : file[k] \in Nat
            /\ \A a, b \in 1..Len(file) :
                 a < b /\ (file[a] <= ends \/ file[b] <= ends) => file[a] < file[b]
        <5>1. ends \in Nat
          BY DEF AuditTypes
        <5>2. links[l].event \in Nat
          BY <1>0 DEF AuditTypes
        <5>3. \A k \in 1..Len(file) : file[k] \in Nat
          BY DEF AuditTypes
        <5>4. \A a, b \in 1..Len(file) :
                a < b /\ (file[a] <= ends \/ file[b] <= ends) => file[a] < file[b]
          BY <2>5 DEF OneChain
        <5> QED
          BY <5>1, <5>2, <5>3, <5>4
      <4>2. i \in 1..Len(file) /\ file'[i] = file[i]
        <5>1. i < Len(file')
          OBVIOUS
        <5>2. i \in 1..Len(file)
          BY <1>9, <1>10, <5>1
        <5> QED
          BY <1>10, <5>2
      <4>3. CASE j \in 1..Len(file)
        <5>1. file'[j] = file[j]
          BY <1>9, <4>3
        <5> QED
          BY <4>1, <4>2, <4>3, <5>1
      <4>4. CASE j \notin 1..Len(file)
        <5>1. file'[j] = links[l].event
          BY <1>9, <4>4
        <5> QED
          BY <3>4, <4>1, <4>2, <5>1
      <4> QED
        BY <4>3, <4>4
    <3> QED
      BY <1>2, <1>6, <2>1, <2>2, <2>3, <3>2, <3>3, <3>5 DEF OneChain
  <2> QED
    BY <2>4, <2>5
<1> QED
  BY <1>11, <1>12, <1>13, <1>14

LEMMA AuditKeepsInv == AuditInv /\ AuditStep => AuditInv'
<1> SUFFICES ASSUME AuditInv, AuditStep PROVE AuditInv'
  OBVIOUS
<1>1. ASSUME NEW kind \in Audit!Kinds, Audit!Emit(kind) PROVE AuditInv'
  BY <1>1, EventIsEmitted
<1>2. ASSUME NEW l \in DOMAIN links, Audit!AppendEnds(l) PROVE AuditInv'
  BY <1>2, AppendIsOver
<1>3. CASE Audit!Replay
  <2>1. /\ replays' = replays + 1 /\ replay' = file
        /\ UNCHANGED <<events, ends, table, links, tail, file, auditFailures>>
    BY <1>3 DEF Audit!Replay
  <2>2. replays' \in Nat /\ replays' # 0
    BY <2>1 DEF AuditInv, AuditTypes
  <2> QED
    BY <2>1, <2>2 DEF AuditInv, AuditTypes, WaitsForUnsettled, OneChain, Kept, Audit!Settled
<1>4. CASE Audit!ReplayNext
  BY <1>4, EventIsReplayed
<1>5. CASE UNCHANGED auditVars
  BY <1>5 DEF auditVars, AuditInv, AuditTypes, WaitsForUnsettled, OneChain, Kept, Open,
     Audit!Settled
<1> QED
  BY <1>1, <1>2, <1>3, <1>4, <1>5 DEF AuditStep, Audit!Next

-----------------------------------------------------------------------------
(* The deliveries.                                                            *)

InQueue(i) == \E k \in DOMAIN webhookQueue : Webhooks!ItemOf(webhookQueue[k]) = i
InDead(i) == \E k \in DOMAIN dead : dead[k] = i
OnDisk(i) == \/ \E k \in DOMAIN webhookDisk[1] : Webhooks!ItemOf(webhookDisk[1][k]) = i
             \/ \E k \in DOMAIN webhookDisk[2] : webhookDisk[2][k] = i
Waits(e) == \E k \in DOMAIN webhookQueue : webhookQueue[k] = e

\* What a pass may be about to do: it sends for its first entry.
PassStates ==
  {w \in [todo : Seq(Webhooks!Entries), sending : SUBSET Hooks, begun : BOOLEAN,
          failed : BOOLEAN] : w.sending # {} => w.todo # <<>>}

WebhookTypes ==
  /\ active \subseteq Hooks
  /\ webhookQueue \in Seq(Webhooks!Entries) /\ dead \in Seq(Items)
  /\ webhookDisk[1] \in Seq(Webhooks!Entries) /\ webhookDisk[2] \in Seq(Items)
  /\ passes \in [Passes -> PassStates]
  /\ redrives \in 0..MaxRedrives /\ crashes \in Nat

\* What was accepted is somewhere, by the memory and by the file.
Accounted == \A i \in accepted : i \in webhookSettled \/ i \in cleared \/ InQueue(i) \/ InDead(i)
AccountedOnDisk == \A i \in accepted : i \in webhookSettled \/ i \in cleared \/ OnDisk(i)

OnceInQueue(i) ==
  \A k, l \in DOMAIN webhookQueue :
    Webhooks!ItemOf(webhookQueue[k]) = i /\ Webhooks!ItemOf(webhookQueue[l]) = i => k = l
OnceInDead(i) == \A k, l \in DOMAIN dead : dead[k] = i /\ dead[l] = i => k = l

\* An item is in one place at most, and in none before it is accepted.
InOnePlace(i) ==
  /\ i \notin accepted =>
       ~InQueue(i) /\ ~InDead(i) /\ i \notin webhookSettled /\ i \notin cleared
  /\ OnceInQueue(i) /\ OnceInDead(i)
  /\ ~(InQueue(i) /\ InDead(i))
  /\ i \in webhookSettled \/ i \in cleared => ~InQueue(i) /\ ~InDead(i)
  /\ ~(i \in webhookSettled /\ i \in cleared)

\* What a pass works on is in the queue, and no other pass works on it.
InOneHand(i) ==
  \A p \in Passes : \A k \in DOMAIN passes[p].todo :
    Webhooks!ItemOf(passes[p].todo[k]) = i =>
      /\ Waits(passes[p].todo[k])
      /\ \A q \in Passes : \A l \in DOMAIN passes[q].todo :
           Webhooks!ItemOf(passes[q].todo[l]) = i => p = q /\ k = l

WebhookInv ==
  /\ WebhookTypes /\ Accounted /\ AccountedOnDisk
  /\ crashes = 0 => \A i \in Items \ webhookOverlapped : InOnePlace(i) /\ InOneHand(i)

\* The queue loses an entry of the item.
LEMMA QueueLoses ==
  ASSUME WebhookTypes, NEW i, InQueue(i), webhookQueue' = Webhooks!WithoutItem(webhookQueue, i)
  PROVE  /\ webhookQueue' \in Seq(Webhooks!Entries)
         /\ \A j : j # i => (InQueue(j)' <=> InQueue(j))
         /\ \A e : Webhooks!ItemOf(e) # i => (Waits(e)' <=> Waits(e))
         /\ \A j : OnceInQueue(j) => OnceInQueue(j)'
         /\ OnceInQueue(i) => ~InQueue(i)'
<1> DEFINE I == {k \in 1..Len(webhookQueue) : Webhooks!ItemOf(webhookQueue[k]) = i}
           m == Webhooks!SelectInSeq(webhookQueue, LAMBDA e : Webhooks!ItemOf(e) = i)
<1>1. I # {} /\ I \in SUBSET Nat /\ webhookQueue \in Seq(Webhooks!Entries)
  <2>1. webhookQueue \in Seq(Webhooks!Entries) /\ DOMAIN webhookQueue = 1..Len(webhookQueue)
    BY DEF WebhookTypes
  <2> QED
    BY <2>1 DEF InQueue
<1>2. m = CHOOSE x \in I : \A y \in I : x <= y
  BY <1>1 DEF Webhooks!SelectInSeq, Webhooks!Min
<1>3. \E x \in I : \A y \in I : x <= y
  BY <1>1, LeastPlace
<1> HIDE DEF m
<1>4. m \in I
  BY <1>2, <1>3
<1>5. webhookQueue' = Without(webhookQueue, m)
  BY DEF InQueue, Webhooks!WithoutItem, Webhooks!RemoveAt, Webhooks!ToSet, m, Without
<1>6. PICK k \in 1..Len(webhookQueue) : k = m /\ Webhooks!ItemOf(webhookQueue[k]) = i
  BY <1>4
<1>7. /\ webhookQueue' \in Seq(Webhooks!Entries)
      /\ \A j \in DOMAIN webhookQueue' : From(j, k) \in DOMAIN webhookQueue \ {k}
                                         /\ webhookQueue'[j] = webhookQueue[From(j, k)]
      /\ \A j, l \in DOMAIN webhookQueue' : From(j, k) = From(l, k) => j = l
      /\ \A j \in DOMAIN webhookQueue \ {k} :
           \E l \in DOMAIN webhookQueue' : webhookQueue'[l] = webhookQueue[j]
  <2>1. webhookQueue \in Seq(Webhooks!Entries) /\ k \in 1..Len(webhookQueue) /\ webhookQueue' = Without(webhookQueue, k)
    BY <1>1, <1>5, <1>6
  <2>2. webhookQueue' \in Seq(Webhooks!Entries) /\ LeftOf(webhookQueue, k, webhookQueue')
    BY <2>1, OneTakenOut
  <2> QED
    BY <2>2 DEF LeftOf
<1>8. k \in DOMAIN webhookQueue /\ Webhooks!ItemOf(webhookQueue[k]) = i
  BY <1>1, <1>6
<1>9. ASSUME NEW j, j # i PROVE InQueue(j)' <=> InQueue(j)
  BY <1>7, <1>8, <1>9 DEF InQueue
<1>10. ASSUME NEW e, Webhooks!ItemOf(e) # i PROVE Waits(e)' <=> Waits(e)
  BY <1>7, <1>8, <1>10 DEF Waits
<1>11. ASSUME NEW j, OnceInQueue(j) PROVE OnceInQueue(j)'
  BY <1>7, <1>11 DEF OnceInQueue
<1>12. ASSUME OnceInQueue(i) PROVE ~InQueue(i)'
  BY <1>7, <1>8, <1>12 DEF OnceInQueue, InQueue
<1> QED
  BY <1>7, <1>9, <1>10, <1>11, <1>12

\* The queue gains an entry.
LEMMA QueueGains ==
  ASSUME WebhookTypes, NEW x \in Webhooks!Entries, webhookQueue' = Append(webhookQueue, x)
  PROVE  /\ webhookQueue' \in Seq(Webhooks!Entries)
         /\ \A j : InQueue(j)' <=> InQueue(j) \/ j = Webhooks!ItemOf(x)
         /\ \A e : Waits(e) => Waits(e)'
         /\ \A j : OnceInQueue(j) /\ j # Webhooks!ItemOf(x) => OnceInQueue(j)'
         /\ ~InQueue(Webhooks!ItemOf(x)) => OnceInQueue(Webhooks!ItemOf(x))'
<1>1. PICK n \in Nat : n = Len(webhookQueue)
  BY DEF WebhookTypes
<1>2. /\ webhookQueue' \in Seq(Webhooks!Entries) /\ DOMAIN webhookQueue = 1..n
      /\ DOMAIN webhookQueue' = 1..(n + 1) /\ webhookQueue'[n + 1] = x
      /\ \A k \in 1..n : webhookQueue'[k] = webhookQueue[k]
  BY <1>1 DEF WebhookTypes
<1>3. \A k \in 1..(n + 1) : k \in 1..n \/ k = n + 1
  OBVIOUS
<1>4. 1..n \subseteq 1..(n + 1) /\ n + 1 \in 1..(n + 1)
  OBVIOUS
<1>5. ASSUME NEW j PROVE InQueue(j)' <=> InQueue(j) \/ j = Webhooks!ItemOf(x)
  BY <1>2, <1>3, <1>4 DEF InQueue
<1>6. ASSUME NEW e, Waits(e) PROVE Waits(e)'
  BY <1>2, <1>4, <1>6 DEF Waits
<1>7. ASSUME NEW j, OnceInQueue(j), j # Webhooks!ItemOf(x) PROVE OnceInQueue(j)'
  BY <1>2, <1>3, <1>7 DEF OnceInQueue
<1>8. ASSUME ~InQueue(Webhooks!ItemOf(x)) PROVE OnceInQueue(Webhooks!ItemOf(x))'
  BY <1>2, <1>3, <1>8 DEF OnceInQueue, InQueue
<1> QED
  BY <1>2, <1>5, <1>6, <1>7, <1>8

\* The dead letters lose an item.
LEMMA DeadLose ==
  ASSUME WebhookTypes, NEW i, InDead(i), dead' = Webhooks!RemoveFirst(dead, i)
  PROVE  /\ dead' \in Seq(Items)
         /\ \A j : j # i => (InDead(j)' <=> InDead(j))
         /\ \A j : OnceInDead(j) => OnceInDead(j)'
         /\ OnceInDead(i) => ~InDead(i)'
<1> DEFINE I == {k \in 1..Len(dead) : dead[k] = i}
           m == Webhooks!SelectInSeq(dead, LAMBDA v : v = i)
<1>1. I # {} /\ I \in SUBSET Nat /\ dead \in Seq(Items)
  <2>1. dead \in Seq(Items) /\ DOMAIN dead = 1..Len(dead)
    BY DEF WebhookTypes
  <2> QED
    BY <2>1 DEF InDead
<1>2. m = CHOOSE x \in I : \A y \in I : x <= y
  BY <1>1 DEF Webhooks!SelectInSeq, Webhooks!Min
<1>3. \E x \in I : \A y \in I : x <= y
  BY <1>1, LeastPlace
<1> HIDE DEF m
<1>4. m \in I
  BY <1>2, <1>3
<1>5. dead' = Without(dead, m)
  BY <1>1 DEF Webhooks!RemoveFirst, Webhooks!RemoveAt, m, Without
<1>6. PICK k \in 1..Len(dead) : k = m /\ dead[k] = i
  BY <1>4
<1>7. /\ dead' \in Seq(Items)
      /\ \A j \in DOMAIN dead' : From(j, k) \in DOMAIN dead \ {k} /\ dead'[j] = dead[From(j, k)]
      /\ \A j, l \in DOMAIN dead' : From(j, k) = From(l, k) => j = l
      /\ \A j \in DOMAIN dead \ {k} : \E l \in DOMAIN dead' : dead'[l] = dead[j]
  <2>1. dead \in Seq(Items) /\ k \in 1..Len(dead) /\ dead' = Without(dead, k)
    BY <1>1, <1>5, <1>6
  <2>2. dead' \in Seq(Items) /\ LeftOf(dead, k, dead')
    BY <2>1, OneTakenOut
  <2> QED
    BY <2>2 DEF LeftOf
<1>8. k \in DOMAIN dead /\ dead[k] = i
  BY <1>1, <1>6
<1>9. ASSUME NEW j, j # i PROVE InDead(j)' <=> InDead(j)
  BY <1>7, <1>8, <1>9 DEF InDead
<1>10. ASSUME NEW j, OnceInDead(j) PROVE OnceInDead(j)'
  BY <1>7, <1>10 DEF OnceInDead
<1>11. ASSUME OnceInDead(i) PROVE ~InDead(i)'
  BY <1>7, <1>8, <1>11 DEF OnceInDead, InDead
<1> QED
  BY <1>7, <1>9, <1>10, <1>11

\* The dead letters gain an item.
LEMMA DeadGain ==
  ASSUME WebhookTypes, NEW i \in Items, dead' = Append(dead, i)
  PROVE  /\ dead' \in Seq(Items)
         /\ \A j : InDead(j)' <=> InDead(j) \/ j = i
         /\ \A j : OnceInDead(j) /\ j # i => OnceInDead(j)'
         /\ ~InDead(i) => OnceInDead(i)'
<1>1. PICK n \in Nat : n = Len(dead)
  BY DEF WebhookTypes
<1>2. /\ dead' \in Seq(Items) /\ DOMAIN dead = 1..n
      /\ DOMAIN dead' = 1..(n + 1) /\ dead'[n + 1] = i
      /\ \A k \in 1..n : dead'[k] = dead[k]
  BY <1>1 DEF WebhookTypes
<1>3. \A k \in 1..(n + 1) : k \in 1..n \/ k = n + 1
  OBVIOUS
<1>4. 1..n \subseteq 1..(n + 1) /\ n + 1 \in 1..(n + 1)
  OBVIOUS
<1>5. ASSUME NEW j PROVE InDead(j)' <=> InDead(j) \/ j = i
  BY <1>2, <1>3, <1>4 DEF InDead
<1>7. ASSUME NEW j, OnceInDead(j), j # i PROVE OnceInDead(j)'
  BY <1>2, <1>3, <1>7 DEF OnceInDead
<1>8. ASSUME ~InDead(i) PROVE OnceInDead(i)'
  BY <1>2, <1>3, <1>8 DEF OnceInDead, InDead
<1> QED
  BY <1>2, <1>5, <1>7, <1>8

\* A step that saves, and one that does not while nothing new is accepted.
LEMMA DiskFollows ==
  ASSUME WebhookInv, Accounted', webhookQueue' \in Seq(Webhooks!Entries), dead' \in Seq(Items),
         \/ Webhooks!Save
         \/ /\ UNCHANGED <<webhookDisk, accepted>>
            /\ webhookSettled \subseteq webhookSettled' /\ cleared \subseteq cleared'
  PROVE  /\ webhookDisk'[1] \in Seq(Webhooks!Entries) /\ webhookDisk'[2] \in Seq(Items)
         /\ AccountedOnDisk'
<1>1. CASE Webhooks!Save
  <2>1. webhookDisk'[1] = webhookQueue' /\ webhookDisk'[2] = dead'
    BY <1>1 DEF Webhooks!Save
  <2> QED
    BY <2>1 DEF Accounted, AccountedOnDisk, OnDisk, InQueue, InDead
<1>2. CASE /\ UNCHANGED <<webhookDisk, accepted>>
           /\ webhookSettled \subseteq webhookSettled' /\ cleared \subseteq cleared'
  BY <1>2 DEF WebhookInv, WebhookTypes, AccountedOnDisk, OnDisk
<1> QED
  BY <1>1, <1>2

\* Nothing moves.
LEMMA NothingMoves ==
  ASSUME WebhookInv, active' \subseteq Hooks,
         passes' \in [Passes -> PassStates],
         \A p \in Passes : passes'[p].todo = passes[p].todo,
         UNCHANGED <<webhookQueue, dead, webhookDisk, redrives, crashes, accepted,
                     webhookOverlapped, webhookSettled, cleared>>
  PROVE  WebhookInv'
<1>1. WebhookTypes' /\ Accounted' /\ AccountedOnDisk'
  BY DEF WebhookInv, WebhookTypes, Accounted, AccountedOnDisk, InQueue, InDead, OnDisk
<1>2. ASSUME NEW i, InOnePlace(i) PROVE InOnePlace(i)'
  BY <1>2 DEF InOnePlace, InQueue, InDead, OnceInQueue, OnceInDead
<1>3. ASSUME NEW i, InOneHand(i) PROVE InOneHand(i)'
  <2>1. ASSUME NEW p \in Passes, NEW k \in DOMAIN passes'[p].todo,
               Webhooks!ItemOf(passes'[p].todo[k]) = i
        PROVE  /\ Waits(passes[p].todo[k])'
               /\ \A q \in Passes : \A l \in DOMAIN passes'[q].todo :
                    Webhooks!ItemOf(passes'[q].todo[l]) = i => p = q /\ k = l
    <3>1. /\ passes'[p].todo = passes[p].todo /\ k \in DOMAIN passes[p].todo
          /\ \A q \in Passes : passes'[q].todo = passes[q].todo
      BY <2>1
    <3>2. Waits(passes[p].todo[k])
      BY <1>3, <2>1, <3>1 DEF InOneHand
    <3>3. Waits(passes[p].todo[k])'
      BY <3>1, <3>2 DEF Waits
    <3> QED
      BY <1>3, <2>1, <3>1, <3>3 DEF InOneHand
  <2> QED
    BY <2>1 DEF InOneHand
<1> QED
  BY <1>1, <1>2, <1>3 DEF WebhookInv

\* Where the place k of what q works on was before p went on to its next entry.
Ahead(p, q, k) == IF q = p THEN k + 1 ELSE k

LEMMA HandsMoveOn ==
  ASSUME WebhookTypes, NEW p \in Passes, passes[p].todo # <<>>,
         passes' = [passes EXCEPT ![p] = [Webhooks!Idle EXCEPT !.todo = Tail(passes[p].todo)]]
  PROVE  /\ passes' \in [Passes -> PassStates]
         /\ \A q \in Passes : \A k \in DOMAIN passes'[q].todo :
              /\ k \in Nat \ {0} /\ Ahead(p, q, k) \in DOMAIN passes[q].todo
              /\ passes'[q].todo[k] = passes[q].todo[Ahead(p, q, k)]
         /\ 1 \in DOMAIN passes[p].todo /\ passes[p].todo[1] = Head(passes[p].todo)
         /\ Head(passes[p].todo) \in Webhooks!Entries
<1> DEFINE t == passes[p].todo
<1>1. passes[p] \in PassStates
  BY DEF WebhookTypes
<1>2. t \in Seq(Webhooks!Entries) /\ t # <<>>
  BY <1>1 DEF PassStates
<1>3. /\ Tail(t) \in Seq(Webhooks!Entries) /\ Len(t) \in Nat \ {0} /\ Len(Tail(t)) = Len(t) - 1
      /\ \A k \in 1..(Len(t) - 1) : Tail(t)[k] = t[k + 1]
      /\ Head(t) = t[1] /\ t[1] \in Webhooks!Entries
  <2> HIDE DEF t
  <2> QED
    BY <1>2
<1>4. /\ passes'[p].todo = Tail(t)
      /\ \A q \in Passes \ {p} : passes'[q] = passes[q]
      /\ passes'[p] \in PassStates
  BY <1>3 DEF Webhooks!Idle, WebhookTypes, PassStates
<1>5. passes' \in [Passes -> PassStates]
  BY <1>4 DEF WebhookTypes
<1>6. ASSUME NEW q \in Passes, NEW k \in DOMAIN passes'[q].todo
      PROVE  /\ k \in Nat \ {0} /\ Ahead(p, q, k) \in DOMAIN passes[q].todo
             /\ passes'[q].todo[k] = passes[q].todo[Ahead(p, q, k)]
  <2>1. CASE q = p
    <3>1. DOMAIN Tail(t) = 1..(Len(t) - 1) /\ DOMAIN t = 1..Len(t)
      BY <1>2, <1>3
    <3>2. k \in 1..(Len(t) - 1)
      BY <1>4, <1>6, <2>1, <3>1
    <3> HIDE DEF t
    <3>3. k \in Nat \ {0} /\ k + 1 \in 1..Len(t)
      BY <1>3, <3>2
    <3> QED
      BY <1>3, <1>4, <2>1, <3>1, <3>2, <3>3 DEF Ahead, t
  <2>2. CASE q # p
    <3>1. passes'[q].todo = passes[q].todo /\ passes[q].todo \in Seq(Webhooks!Entries)
      BY <1>4, <2>2 DEF WebhookTypes, PassStates
    <3>2. k \in 1..Len(passes[q].todo)
      BY <3>1
    <3> QED
      BY <2>2, <3>1, <3>2 DEF Ahead
  <2> QED
    BY <2>1, <2>2
<1>7. 1 \in DOMAIN t
  <2> HIDE DEF t
  <2> QED
    BY <1>2, <1>3
<1> QED
  BY <1>3, <1>5, <1>6, <1>7

\* The first entry a pass works on is decided: the item has been delivered, it joins the
\* dead letters, or it stays in the queue.
LEMMA EntryIsDecided ==
  ASSUME WebhookInv, NEW p \in Passes, passes[p].todo # <<>>,
         Webhooks!Succeeds(p) \/ Webhooks!Fails(p), Webhooks!Advance(p),
         UNCHANGED <<active, redrives, crashes, accepted, webhookOverlapped, cleared>>
  PROVE  WebhookInv'
<1>1. PICK e : e = Head(passes[p].todo)
  OBVIOUS
<1>2. PICK i : i = Webhooks!ItemOf(e)
  OBVIOUS
<1>3. WebhookTypes
  BY DEF WebhookInv
<1>4. passes' = [passes EXCEPT ![p] = [Webhooks!Idle EXCEPT !.todo = Tail(passes[p].todo)]]
  BY DEF Webhooks!Advance
<1>5. /\ passes' \in [Passes -> PassStates]
      /\ \A q \in Passes : \A k \in DOMAIN passes'[q].todo :
           /\ k \in Nat \ {0} /\ Ahead(p, q, k) \in DOMAIN passes[q].todo
           /\ passes'[q].todo[k] = passes[q].todo[Ahead(p, q, k)]
      /\ 1 \in DOMAIN passes[p].todo /\ passes[p].todo[1] = e
      /\ e \in Webhooks!Entries /\ i \in Items
  <2>1. e \in Webhooks!Entries => Webhooks!ItemOf(e) \in Items
    BY DEF Webhooks!Entries, Webhooks!ItemOf
  <2> QED
    BY <1>1, <1>2, <1>3, <1>4, <2>1, HandsMoveOn
<1>6. \/ /\ webhookQueue' = Webhooks!WithoutItem(webhookQueue, i)
         /\ \/ webhookSettled' = webhookSettled \union {i} /\ dead' = dead
            \/ webhookSettled' = webhookSettled /\ dead' = Append(dead, i)
      \/ UNCHANGED <<webhookQueue, dead, webhookSettled>>
  BY <1>1, <1>2 DEF Webhooks!Succeeds, Webhooks!Fails, Webhooks!FailsFor
<1>7. /\ webhookQueue' \in Seq(Webhooks!Entries)
      /\ \A j : j # i => (InQueue(j)' <=> InQueue(j))
      /\ \A x : Webhooks!ItemOf(x) # i => (Waits(x)' <=> Waits(x))
      /\ \A j : OnceInQueue(j) => OnceInQueue(j)'
      /\ OnceInQueue(i) => ~InQueue(i)' \/ UNCHANGED <<webhookQueue, dead, webhookSettled>>
  <2>1. CASE webhookQueue' = Webhooks!WithoutItem(webhookQueue, i) /\ InQueue(i)
    BY <1>3, <2>1, QueueLoses
  <2>3. CASE webhookQueue' = Webhooks!WithoutItem(webhookQueue, i) /\ ~InQueue(i)
    <3>1. webhookQueue' = webhookQueue
      BY <2>3 DEF Webhooks!WithoutItem, InQueue, Webhooks!ToSet
    <3> QED
      BY <1>3, <2>3, <3>1 DEF WebhookTypes, InQueue, Waits, OnceInQueue
  <2>4. CASE UNCHANGED <<webhookQueue, dead, webhookSettled>>
    BY <1>3, <2>4 DEF WebhookTypes, InQueue, Waits, OnceInQueue
  <2> QED
    BY <1>6, <2>1, <2>3, <2>4
<1>8. /\ dead' \in Seq(Items)
      /\ \A j : j # i => (InDead(j)' <=> InDead(j))
      /\ \A j : OnceInDead(j) /\ j # i => OnceInDead(j)'
      /\ InDead(i) => InDead(i)'
      /\ dead' = dead \/ InDead(i)'
      /\ OnceInDead(i) /\ ~InDead(i) => OnceInDead(i)'
  <2>1. CASE dead' = dead
    BY <1>3, <2>1 DEF WebhookTypes, InDead, OnceInDead
  <2>2. CASE dead' = Append(dead, i)
    BY <1>3, <1>5, <2>2, DeadGain
  <2> QED
    BY <1>6, <2>1, <2>2
<1>9. ASSUME NEW j \in accepted
      PROVE  (j \in webhookSettled \/ j \in cleared \/ InQueue(j) \/ InDead(j))'
  <2>1. j \in webhookSettled \/ j \in cleared \/ InQueue(j) \/ InDead(j)
    BY DEF WebhookInv, Accounted
  <2>2. webhookSettled \subseteq webhookSettled' /\ cleared' = cleared
    BY <1>6
  <2>3. CASE j # i
    BY <1>7, <1>8, <2>1, <2>2, <2>3
  <2>4. CASE j = i
    <3>1. i \in webhookSettled' \/ InDead(i)' \/ UNCHANGED <<webhookQueue, dead, webhookSettled>>
      <4>1. dead' = Append(dead, i) => InDead(i)'
        BY <1>3, <1>5, DeadGain
      <4> QED
        BY <1>6, <4>1
    <3> QED
      BY <2>1, <2>2, <2>4, <3>1 DEF InQueue, InDead
  <2> QED
    BY <2>3, <2>4
<1>13. Accounted'
  BY <1>9 DEF Accounted
<1>10. /\ webhookDisk'[1] \in Seq(Webhooks!Entries) /\ webhookDisk'[2] \in Seq(Items)
       /\ AccountedOnDisk'
  <2>1. webhookSettled \subseteq webhookSettled'
    BY <1>6
  <2> QED
    BY <1>7, <1>8, <1>13, <2>1, DiskFollows DEF Webhooks!Advance
<1>11. WebhookTypes'
  BY <1>3, <1>5, <1>7, <1>8, <1>10 DEF WebhookTypes
<1>12. ASSUME crashes = 0, NEW j \in Items \ webhookOverlapped
       PROVE  InOnePlace(j)' /\ InOneHand(j)'
  <2>1. InOnePlace(j) /\ InOneHand(j)
    BY <1>12 DEF WebhookInv
  <2>2. CASE j # i
    <3>1. InOnePlace(j)'
      BY <1>6, <1>7, <1>8, <2>1, <2>2 DEF InOnePlace
    <3>2. \A x : Webhooks!ItemOf(x) = j => (Waits(x)' <=> Waits(x))
      BY <1>7, <2>2
    <3>3. \A q \in Passes, k, l \in Nat : Ahead(p, q, k) = Ahead(p, q, l) => k = l
      BY DEF Ahead
    <3>5. ASSUME NEW q \in Passes, NEW k \in DOMAIN passes'[q].todo,
                 Webhooks!ItemOf(passes'[q].todo[k]) = j
          PROVE  /\ Waits(passes[q].todo[k])'
                 /\ \A z \in Passes : \A l \in DOMAIN passes'[z].todo :
                      Webhooks!ItemOf(passes'[z].todo[l]) = j => q = z /\ k = l
      <4>1. /\ Ahead(p, q, k) \in DOMAIN passes[q].todo /\ k \in Nat
            /\ passes'[q].todo[k] = passes[q].todo[Ahead(p, q, k)]
        BY <1>5, <3>5
      <4>2. Waits(passes'[q].todo[k])
        BY <2>1, <3>5, <4>1 DEF InOneHand
      <4>3. PICK x : x = passes'[q].todo[k]
        OBVIOUS
      <4>4. Waits(x)'
        BY <3>2, <3>5, <4>2, <4>3
      <4>5. ASSUME NEW z \in Passes, NEW l \in DOMAIN passes'[z].todo,
                   Webhooks!ItemOf(passes'[z].todo[l]) = j
            PROVE  q = z /\ k = l
        <5>1. /\ Ahead(p, z, l) \in DOMAIN passes[z].todo /\ l \in Nat
              /\ passes'[z].todo[l] = passes[z].todo[Ahead(p, z, l)]
          BY <1>5, <4>5
        <5>2. q = z /\ Ahead(p, q, k) = Ahead(p, z, l)
          BY <2>1, <3>5, <4>1, <4>5, <5>1 DEF InOneHand
        <5> QED
          BY <3>3, <4>1, <5>1, <5>2
      <4>6. Waits(passes[q].todo[k])'
        BY <4>3, <4>4 DEF Waits
      <4> QED
        BY <4>5, <4>6
    <3>4. InOneHand(j)'
      BY <3>5 DEF InOneHand
    <3> QED
      BY <3>1, <3>4
  <2>3. CASE j = i
    <3>1. Waits(e) /\ (\A q \in Passes : \A l \in DOMAIN passes[q].todo :
            Webhooks!ItemOf(passes[q].todo[l]) = i => p = q /\ l = 1)
      BY <1>2, <1>5, <2>1, <2>3 DEF InOneHand
    <3>2. InQueue(i)
      BY <1>2, <3>1 DEF Waits, InQueue
    <3>3. InOnePlace(i)'
      <4>1. /\ i \in accepted /\ ~InDead(i) /\ i \notin webhookSettled /\ i \notin cleared
            /\ OnceInQueue(i) /\ OnceInDead(i)
        BY <2>1, <2>3, <3>2 DEF InOnePlace
      <4>2. CASE UNCHANGED <<webhookQueue, dead, webhookSettled>>
        BY <2>1, <2>3, <4>2 DEF InOnePlace, InQueue, InDead, OnceInQueue, OnceInDead
      <4>3. CASE ~InQueue(i)'
        <5>1. \/ webhookSettled' = webhookSettled \union {i} /\ ~InDead(i)'
              \/ webhookSettled' = webhookSettled
          BY <1>6, <4>1 DEF InDead
        <5> QED
          BY <1>7, <1>8, <4>1, <4>3, <5>1 DEF InOnePlace
      <4> QED
        BY <1>7, <4>1, <4>2, <4>3
    <3>4. ASSUME NEW q \in Passes, NEW k \in DOMAIN passes'[q].todo,
                 Webhooks!ItemOf(passes'[q].todo[k]) = i
          PROVE  FALSE
      <4>1. p = q /\ Ahead(p, q, k) = 1 /\ k \in Nat \ {0}
        BY <1>5, <3>1, <3>4
      <4> QED
        BY <4>1 DEF Ahead
    <3>5. InOneHand(i)'
      BY <3>4 DEF InOneHand
    <3> QED
      BY <2>3, <3>3, <3>5
  <2> QED
    BY <2>2, <2>3
<1> QED
  BY <1>10, <1>11, <1>12, <1>13 DEF WebhookInv

LEMMA HandsStay ==
  ASSUME NEW j, InOneHand(j), UNCHANGED passes, \A e : Waits(e) => Waits(e)'
  PROVE  InOneHand(j)'
<1>1. ASSUME NEW p \in Passes, NEW k \in DOMAIN passes'[p].todo,
             Webhooks!ItemOf(passes'[p].todo[k]) = j
      PROVE  /\ Waits(passes[p].todo[k])'
             /\ \A q \in Passes : \A l \in DOMAIN passes'[q].todo :
                  Webhooks!ItemOf(passes'[q].todo[l]) = j => p = q /\ k = l
  <2>1. PICK e : e = passes[p].todo[k]
    OBVIOUS
  <2>2. Waits(e)'
    BY <1>1, <2>1 DEF InOneHand
  <2>3. Waits(passes[p].todo[k])'
    BY <2>1, <2>2 DEF Waits
  <2> QED
    BY <1>1, <2>3 DEF InOneHand
<1> QED
  BY <1>1 DEF InOneHand

\* An item is accepted once.
LEMMA ItemIsAccepted ==
  ASSUME MaxRedrives \in Nat, WebhookInv, NEW i \in Items, Webhooks!Enqueue(i)
  PROVE  WebhookInv'
<1> DEFINE x == <<i, 0>>
<1>1. /\ webhookQueue' = Append(webhookQueue, x) /\ accepted' = accepted \union {i}
      /\ i \notin accepted /\ Webhooks!Save
      /\ UNCHANGED <<active, dead, passes, redrives, crashes, webhookOverlapped,
                     webhookSettled, cleared>>
  BY DEF Webhooks!Enqueue
<1>2. WebhookTypes /\ x \in Webhooks!Entries /\ Webhooks!ItemOf(x) = i
  BY DEF WebhookInv, Webhooks!Entries, Webhooks!ItemOf
<1> HIDE DEF x
<1>3. /\ webhookQueue' \in Seq(Webhooks!Entries)
      /\ \A j : InQueue(j)' <=> InQueue(j) \/ j = i
      /\ \A e : Waits(e) => Waits(e)'
      /\ \A j : OnceInQueue(j) /\ j # i => OnceInQueue(j)'
      /\ ~InQueue(i) => OnceInQueue(i)'
  BY <1>1, <1>2, QueueGains
<1>4. \A j : (InDead(j)' <=> InDead(j)) /\ (OnceInDead(j)' <=> OnceInDead(j))
  BY <1>1 DEF InDead, OnceInDead
<1>5. Accounted'
  BY <1>1, <1>3, <1>4 DEF WebhookInv, Accounted
<1>6. /\ webhookDisk'[1] \in Seq(Webhooks!Entries) /\ webhookDisk'[2] \in Seq(Items)
      /\ AccountedOnDisk'
  BY <1>1, <1>2, <1>3, <1>5, DiskFollows DEF WebhookTypes
<1>7. WebhookTypes'
  BY <1>1, <1>2, <1>3, <1>6 DEF WebhookTypes
<1>8. ASSUME crashes = 0, NEW j \in Items \ webhookOverlapped
      PROVE  InOnePlace(j)' /\ InOneHand(j)'
  <2>1. InOnePlace(j) /\ InOneHand(j)
    BY <1>8 DEF WebhookInv
  <2>2. InOnePlace(j)'
    BY <1>1, <1>3, <1>4, <2>1 DEF InOnePlace
  <2>3. InOneHand(j)'
    BY <1>1, <1>3, <2>1, HandsStay
  <2> QED
    BY <2>2, <2>3
<1> QED
  BY <1>1, <1>5, <1>6, <1>7, <1>8 DEF WebhookInv

\* A dead letter goes back to the queue.
LEMMA LetterIsRetried ==
  ASSUME MaxRedrives \in Nat, WebhookInv, NEW i \in Items, Webhooks!RetryDeadLetter(i)
  PROVE  WebhookInv'
<1>0. PICK x : x = <<i, redrives + 1>>
  OBVIOUS
<1>1. /\ webhookQueue' = Append(webhookQueue, x) /\ dead' = Webhooks!RemoveFirst(dead, i)
      /\ redrives' = redrives + 1 /\ redrives < MaxRedrives /\ InDead(i) /\ Webhooks!Save
      /\ UNCHANGED <<active, passes, crashes, accepted, webhookOverlapped, webhookSettled,
                     cleared>>
  BY <1>0 DEF Webhooks!RetryDeadLetter, Webhooks!ToSet, InDead
<1>2. WebhookTypes /\ x \in Webhooks!Entries /\ Webhooks!ItemOf(x) = i
      /\ redrives' \in 0..MaxRedrives
  BY <1>0, <1>1 DEF WebhookInv, WebhookTypes, Webhooks!Entries, Webhooks!ItemOf
<1>3. /\ webhookQueue' \in Seq(Webhooks!Entries)
      /\ \A j : InQueue(j)' <=> InQueue(j) \/ j = i
      /\ \A e : Waits(e) => Waits(e)'
      /\ \A j : OnceInQueue(j) /\ j # i => OnceInQueue(j)'
      /\ ~InQueue(i) => OnceInQueue(i)'
  BY <1>1, <1>2, QueueGains
<1>4. /\ dead' \in Seq(Items)
      /\ \A j : j # i => (InDead(j)' <=> InDead(j))
      /\ \A j : OnceInDead(j) => OnceInDead(j)'
      /\ OnceInDead(i) => ~InDead(i)'
  BY <1>1, <1>2, DeadLose
<1>5. Accounted'
  BY <1>1, <1>3, <1>4 DEF WebhookInv, Accounted
<1>6. /\ webhookDisk'[1] \in Seq(Webhooks!Entries) /\ webhookDisk'[2] \in Seq(Items)
      /\ AccountedOnDisk'
  BY <1>1, <1>3, <1>4, <1>5, DiskFollows
<1>7. WebhookTypes'
  BY <1>1, <1>2, <1>3, <1>4, <1>6 DEF WebhookTypes
<1>8. ASSUME crashes = 0, NEW j \in Items \ webhookOverlapped
      PROVE  InOnePlace(j)' /\ InOneHand(j)'
  <2>1. InOnePlace(j) /\ InOneHand(j)
    BY <1>8 DEF WebhookInv
  <2>2. InOnePlace(j)'
    BY <1>1, <1>3, <1>4, <2>1 DEF InOnePlace
  <2>3. InOneHand(j)'
    BY <1>1, <1>3, <2>1, HandsStay
  <2> QED
    BY <2>2, <2>3
<1> QED
  BY <1>1, <1>5, <1>6, <1>7, <1>8 DEF WebhookInv

\* A dead letter is cleared by hand.
LEMMA LetterIsCleared ==
  ASSUME WebhookInv, NEW i \in Items, Webhooks!ClearDeadLetter(i)
  PROVE  WebhookInv'
<1>1. /\ dead' = Webhooks!RemoveFirst(dead, i) /\ InDead(i) /\ Webhooks!Save
      /\ cleared' = cleared \union {i}
      /\ UNCHANGED <<active, webhookQueue, passes, redrives, crashes, accepted,
                     webhookOverlapped, webhookSettled>>
  BY DEF Webhooks!ClearDeadLetter, Webhooks!ToSet, InDead
<1>2. WebhookTypes
  BY DEF WebhookInv
<1>3. \A j : /\ InQueue(j)' <=> InQueue(j)
             /\ OnceInQueue(j)' <=> OnceInQueue(j)
             /\ Waits(j)' <=> Waits(j)
  BY <1>1 DEF InQueue, OnceInQueue, Waits
<1>4. /\ dead' \in Seq(Items)
      /\ \A j : j # i => (InDead(j)' <=> InDead(j))
      /\ \A j : OnceInDead(j) => OnceInDead(j)'
      /\ OnceInDead(i) => ~InDead(i)'
  BY <1>1, <1>2, DeadLose
<1>5. Accounted'
  BY <1>1, <1>3, <1>4 DEF WebhookInv, Accounted
<1>6. /\ webhookDisk'[1] \in Seq(Webhooks!Entries) /\ webhookDisk'[2] \in Seq(Items)
      /\ AccountedOnDisk'
  BY <1>1, <1>2, <1>4, <1>5, DiskFollows DEF WebhookTypes
<1>7. WebhookTypes'
  BY <1>1, <1>2, <1>4, <1>6 DEF WebhookTypes
<1>8. ASSUME crashes = 0, NEW j \in Items \ webhookOverlapped
      PROVE  InOnePlace(j)' /\ InOneHand(j)'
  <2>1. InOnePlace(j) /\ InOneHand(j)
    BY <1>8 DEF WebhookInv
  <2>2. InOnePlace(j)'
    BY <1>1, <1>3, <1>4, <2>1 DEF InOnePlace
  <2>3. InOneHand(j)'
    BY <1>1, <1>3, <2>1, HandsStay
  <2> QED
    BY <2>2, <2>3
<1> QED
  BY <1>1, <1>5, <1>6, <1>7, <1>8 DEF WebhookInv

\* A pass begins with entries of the queue, none of them twice.
LEMMA PassBegins ==
  ASSUME WebhookInv, NEW p \in Passes, Webhooks!StartPass(p)
  PROVE  WebhookInv'
<1>1. PICK taken \in Webhooks!Due(webhookQueue) :
        /\ passes[p] = Webhooks!Idle
        /\ passes' = [passes EXCEPT ![p] = [Webhooks!Idle EXCEPT !.todo = taken]]
        /\ webhookOverlapped' = webhookOverlapped \union
             {Webhooks!ItemOf(e) : e \in Webhooks!ToSet(taken) \intersect
                UNION {Webhooks!ToSet(passes[q].todo) : q \in Passes}}
        /\ UNCHANGED <<active, webhookQueue, dead, webhookDisk, redrives, crashes, accepted,
                       webhookSettled, cleared>>
  BY DEF Webhooks!StartPass, Webhooks!data
<1>2. PICK at \in Webhooks!DueAt(webhookQueue) :
        taken = [k \in DOMAIN at |-> webhookQueue[at[k]]]
  BY DEF Webhooks!Due
<1>3. PICK n \in Nat : at \in [1..n -> DOMAIN webhookQueue]
  BY DEF Webhooks!DueAt
<1>4. \A k, l \in 1..n : k < l => at[k] < at[l]
  BY <1>3 DEF Webhooks!DueAt
<1>5. /\ DOMAIN taken = 1..n
      /\ \A k \in 1..n : at[k] \in DOMAIN webhookQueue /\ taken[k] = webhookQueue[at[k]]
  BY <1>2, <1>3
<1>6. WebhookTypes /\ DOMAIN webhookQueue \subseteq Nat
  BY DEF WebhookInv, WebhookTypes
<1>7. taken \in Seq(Webhooks!Entries)
  <2>1. taken \in [1..n -> Webhooks!Entries]
    BY <1>2, <1>3, <1>6 DEF WebhookTypes
  <2> QED
    BY <2>1
<1>8. \A k, l \in 1..n : at[k] = at[l] => k = l
  BY <1>4, <1>5, <1>6
<1>9. /\ passes' \in [Passes -> PassStates]
      /\ passes'[p].todo = taken /\ passes[p].todo = <<>>
      /\ \A q \in Passes \ {p} : passes'[q] = passes[q]
  <2>1. [Webhooks!Idle EXCEPT !.todo = taken] \in PassStates
    BY <1>7 DEF Webhooks!Idle, PassStates
  <2>2. [Webhooks!Idle EXCEPT !.todo = taken].todo = taken /\ Webhooks!Idle.todo = <<>>
    BY DEF Webhooks!Idle
  <2>3. passes \in [Passes -> PassStates]
    BY <1>6 DEF WebhookTypes
  <2> QED
    BY <1>1, <2>1, <2>2, <2>3
<1>10. WebhookTypes' /\ Accounted' /\ AccountedOnDisk'
  BY <1>1, <1>9 DEF WebhookInv, WebhookTypes, Accounted, AccountedOnDisk, InQueue, InDead, OnDisk
<1>11. ASSUME crashes = 0, NEW j \in Items \ webhookOverlapped'
       PROVE  InOnePlace(j)' /\ InOneHand(j)'
  <2>1. j \in Items \ webhookOverlapped /\ InOnePlace(j) /\ InOneHand(j)
    BY <1>1, <1>11 DEF WebhookInv
  <2>2. InOnePlace(j)'
    BY <1>1, <2>1 DEF InOnePlace, InQueue, InDead, OnceInQueue, OnceInDead
  <2>3. \A e : Waits(e)' <=> Waits(e)
    BY <1>1 DEF Waits
  <2>4. ASSUME NEW k \in 1..n PROVE Waits(taken[k])
    BY <1>5 DEF Waits
  <2>5. ASSUME NEW q \in Passes \ {p}, NEW k \in DOMAIN passes[q].todo, NEW l \in 1..n,
               Webhooks!ItemOf(passes[q].todo[k]) = j, Webhooks!ItemOf(taken[l]) = j
        PROVE  FALSE
    <3>1. Waits(passes[q].todo[k])
      BY <2>1, <2>5 DEF InOneHand
    <3>2. passes[q].todo[k] = taken[l]
      BY <1>5, <2>1, <2>5, <3>1 DEF InOnePlace, OnceInQueue, Waits
    <3>3. taken[l] \in Webhooks!ToSet(passes[q].todo) /\ taken[l] \in Webhooks!ToSet(taken)
      BY <1>5, <3>2 DEF Webhooks!ToSet
    <3>4. j \in webhookOverlapped'
      BY <1>1, <2>5, <3>3
    <3> QED
      BY <1>11, <3>4
  <2>6. ASSUME NEW k \in 1..n, NEW l \in 1..n,
               Webhooks!ItemOf(taken[k]) = j, Webhooks!ItemOf(taken[l]) = j
        PROVE  k = l
    BY <1>5, <1>8, <2>1, <2>6 DEF InOnePlace, OnceInQueue
  <2>7. ASSUME NEW z \in Passes, NEW k \in DOMAIN passes'[z].todo,
               Webhooks!ItemOf(passes'[z].todo[k]) = j
        PROVE  /\ Waits(passes[z].todo[k])'
               /\ \A q \in Passes : \A l \in DOMAIN passes'[q].todo :
                    Webhooks!ItemOf(passes'[q].todo[l]) = j => z = q /\ k = l
    <3>1. Waits(passes[z].todo[k])'
      <4>1. CASE z = p
        BY <1>1, <1>5, <1>9, <2>4, <2>7, <4>1 DEF Waits
      <4>2. CASE z # p
        BY <1>1, <1>9, <2>1, <2>7, <4>2 DEF Waits, InOneHand
      <4> QED
        BY <4>1, <4>2
    <3>2. ASSUME NEW q \in Passes, NEW l \in DOMAIN passes'[q].todo,
                 Webhooks!ItemOf(passes'[q].todo[l]) = j
          PROVE  z = q /\ k = l
      <4>1. CASE z = p /\ q = p
        BY <1>5, <1>9, <2>6, <2>7, <3>2, <4>1
      <4>2. CASE z = p /\ q # p
        BY <1>5, <1>9, <2>5, <2>7, <3>2, <4>2
      <4>3. CASE z # p /\ q = p
        BY <1>5, <1>9, <2>5, <2>7, <3>2, <4>3
      <4>4. CASE z # p /\ q # p
        BY <1>9, <2>1, <2>7, <3>2, <4>4 DEF InOneHand
      <4> QED
        BY <4>1, <4>2, <4>3, <4>4
    <3> QED
      BY <3>1, <3>2
  <2>8. InOneHand(j)'
    BY <2>7 DEF InOneHand
  <2> QED
    BY <2>2, <2>8
<1> QED
  BY <1>1, <1>10, <1>11 DEF WebhookInv

\* The server starts again with what is on disk.
LEMMA ServerRestarts ==
  ASSUME WebhookInv, Webhooks!Restart
  PROVE  WebhookInv'
<1>1. /\ webhookQueue' = webhookDisk[1] /\ dead' = webhookDisk[2] /\ crashes' = crashes + 1
      /\ passes' = [p \in Passes |-> Webhooks!Idle]
      /\ UNCHANGED <<active, webhookDisk, redrives, accepted, webhookOverlapped,
                     webhookSettled, cleared>>
  BY DEF Webhooks!Restart, Webhooks!Load
<1>2. WebhookTypes' /\ crashes' # 0
  BY <1>1 DEF WebhookInv, WebhookTypes, Webhooks!Idle, PassStates
<1>3. Accounted' /\ AccountedOnDisk'
  BY <1>1 DEF WebhookInv, AccountedOnDisk, Accounted, OnDisk, InQueue, InDead
<1> QED
  BY <1>2, <1>3 DEF WebhookInv

LEMMA WebhooksKeepInv ==
  ASSUME MaxRedrives \in Nat
  PROVE  WebhookInv /\ WebhookStep => WebhookInv'
<1> SUFFICES ASSUME WebhookInv, WebhookStep PROVE WebhookInv'
  OBVIOUS
<1>1. active \subseteq Hooks /\ passes \in [Passes -> PassStates]
  BY DEF WebhookInv, WebhookTypes
<1>2. ASSUME NEW h \in Hooks, Webhooks!SwitchOn(h) \/ Webhooks!SwitchOff(h) PROVE WebhookInv'
  <2>1. /\ active' \subseteq Hooks /\ passes' = passes
        /\ UNCHANGED <<webhookQueue, dead, webhookDisk, redrives, crashes, accepted,
                       webhookOverlapped, webhookSettled, cleared>>
    BY <1>1, <1>2 DEF Webhooks!SwitchOn, Webhooks!SwitchOff, Webhooks!data, Webhooks!history
  <2> QED
    BY <1>1, <2>1, NothingMoves
<1>3. ASSUME NEW i \in Items,
             Webhooks!Enqueue(i) \/ Webhooks!RetryDeadLetter(i) \/ Webhooks!ClearDeadLetter(i)
      PROVE  WebhookInv'
  BY <1>3, ItemIsAccepted, LetterIsRetried, LetterIsCleared
<1>4. ASSUME NEW p \in Passes, Webhooks!StartPass(p) PROVE WebhookInv'
  BY <1>4, PassBegins
<1>5. ASSUME NEW p \in Passes, Webhooks!Deliver(p) PROVE WebhookInv'
  <2>1. /\ UNCHANGED <<active, redrives, crashes, accepted, webhookOverlapped, cleared>>
        /\ passes[p].todo # <<>>
    BY <1>5 DEF Webhooks!Deliver
  <2>2. CASE Webhooks!Fails(p) /\ Webhooks!Advance(p)
    BY <2>1, <2>2, EntryIsDecided
  <2>3. CASE /\ passes' = [passes EXCEPT ![p].begun = TRUE, ![p].sending = active]
             /\ UNCHANGED <<webhookQueue, dead, webhookDisk, webhookSettled>>
    <3>1. /\ passes' \in [Passes -> PassStates] /\ active' \subseteq Hooks
          /\ \A q \in Passes : passes'[q].todo = passes[q].todo
      BY <1>1, <2>1, <2>3 DEF PassStates
    <3> QED
      BY <2>1, <2>3, <3>1, NothingMoves
  <2> QED
    BY <1>5, <2>2, <2>3 DEF Webhooks!Deliver, Webhooks!data
<1>6. ASSUME NEW p \in Passes, Webhooks!Answered(p) PROVE WebhookInv'
  <2>1. PICK h \in passes[p].sending, failed \in BOOLEAN :
          /\ IF passes[p].sending # {h}
             THEN /\ passes' = [passes EXCEPT ![p].sending = @ \ {h}, ![p].failed = failed]
                  /\ UNCHANGED <<webhookQueue, dead, webhookDisk, webhookSettled>>
             ELSE /\ IF failed THEN Webhooks!Fails(p) ELSE Webhooks!Succeeds(p)
                  /\ Webhooks!Advance(p)
          /\ UNCHANGED <<active, redrives, crashes, accepted, webhookOverlapped, cleared>>
    <3>1. passes[p].failed \in BOOLEAN
      BY <1>1 DEF PassStates
    <3> QED
      BY <1>6, <3>1 DEF Webhooks!Answered, Webhooks!data
  <2>2. CASE passes[p].sending # {h}
    <3>1. /\ passes' \in [Passes -> PassStates] /\ active' \subseteq Hooks
          /\ \A q \in Passes : passes'[q].todo = passes[q].todo
      <4> DEFINE w == passes[p]
                 v == [w EXCEPT !.sending = @ \ {h}, !.failed = failed]
      <4>1. w \in PassStates /\ h \in w.sending
        BY <1>1
      <4>2. v \in PassStates /\ v.todo = w.todo
        BY <4>1 DEF PassStates
      <4>3. passes' = [passes EXCEPT ![p] = v]
        BY <1>1, <2>1, <2>2
      <4> HIDE DEF v
      <4> QED
        BY <1>1, <2>1, <4>2, <4>3
    <3> QED
      BY <2>1, <2>2, <3>1, NothingMoves
  <2>3. CASE passes[p].sending = {h}
    <3>1. passes[p].todo # <<>>
      BY <1>1, <2>3 DEF PassStates
    <3> QED
      BY <2>1, <2>3, <3>1, EntryIsDecided
  <2> QED
    BY <2>2, <2>3
<1>7. CASE Webhooks!Restart
  BY <1>7, ServerRestarts
<1>8. CASE UNCHANGED webhooksVars
  BY <1>1, <1>8, NothingMoves DEF webhooksVars
<1> QED
  BY <1>2, <1>3, <1>4, <1>5, <1>6, <1>7, <1>8 DEF WebhookStep, Webhooks!Next

\* Only enqueue() accepts.
LEMMA ItemsAreAccepted == accepted \subseteq Items /\ WebhookStep => accepted' \subseteq Items
BY DEF WebhookStep, webhooksVars, Webhooks!Next, Webhooks!SwitchOn, Webhooks!SwitchOff,
  Webhooks!history, Webhooks!Enqueue, Webhooks!RetryDeadLetter, Webhooks!ClearDeadLetter,
  Webhooks!StartPass, Webhooks!Deliver, Webhooks!Answered, Webhooks!Restart

LEMMA WebhooksBegin ==
  ASSUME MaxRedrives \in Nat, Webhooks!Init
  PROVE  WebhookInv /\ accepted \subseteq Items
<1>1. /\ active = {} /\ webhookQueue = <<>> /\ dead = <<>>
      /\ passes = [p \in Passes |-> Webhooks!Idle]
      /\ webhookDisk[1] = <<>> /\ webhookDisk[2] = <<>>
      /\ redrives = 0 /\ crashes = 0 /\ accepted = {} /\ webhookSettled = {} /\ cleared = {}
  BY DEF Webhooks!Init, Webhooks!data
<1>2. Webhooks!Idle \in PassStates /\ Webhooks!Idle.todo = <<>>
  BY DEF Webhooks!Idle, PassStates
<1>3. WebhookTypes
  BY <1>1, <1>2 DEF WebhookTypes
<1>4. Accounted /\ AccountedOnDisk
  BY <1>1 DEF Accounted, AccountedOnDisk
<1>5. ASSUME NEW i \in Items PROVE InOnePlace(i)
  BY <1>1 DEF InOnePlace, OnceInQueue, OnceInDead, InQueue, InDead
<1>6. ASSUME NEW i \in Items PROVE InOneHand(i)
  BY <1>1, <1>2 DEF InOneHand
<1> QED
  BY <1>1, <1>3, <1>4, <1>5, <1>6 DEF WebhookInv

\* Counting the places of an item.
LEMMA PlacesCount ==
  ASSUME WebhookTypes, NEW i
  PROVE  LET n == Cardinality({k \in DOMAIN webhookQueue : Webhooks!ItemOf(webhookQueue[k]) = i})
             d == Cardinality({k \in DOMAIN dead : dead[k] = i})
             s == Cardinality({i} \intersect webhookSettled)
             c == Cardinality({i} \intersect cleared)
         IN  /\ n \in Nat /\ d \in Nat
             /\ InQueue(i) => n >= 1
             /\ InDead(i) => d >= 1
             /\ OnceInQueue(i) => n = IF InQueue(i) THEN 1 ELSE 0
             /\ OnceInDead(i) => d = IF InDead(i) THEN 1 ELSE 0
             /\ s = IF i \in webhookSettled THEN 1 ELSE 0
             /\ c = IF i \in cleared THEN 1 ELSE 0
             /\ Webhooks!Places(i) = n + d + s + c
<1> DEFINE Q == {k \in DOMAIN webhookQueue : Webhooks!ItemOf(webhookQueue[k]) = i}
           D == {k \in DOMAIN dead : dead[k] = i}
           S == {i} \intersect webhookSettled
           C == {i} \intersect cleared
<1>1. \A X : Webhooks!Cardinality(X) = Cardinality(X)
  BY DEF Webhooks!Cardinality, Cardinality
<1>2. Webhooks!Places(i) = Cardinality(Q) + Cardinality(D) + Cardinality(S) + Cardinality(C)
  <2>1. Webhooks!Places(i) = Webhooks!Cardinality(Q) + Webhooks!Cardinality(D)
                               + Webhooks!Cardinality(S) + Webhooks!Cardinality(C)
    BY DEF Webhooks!Places
  <2> QED
    BY <1>1, <2>1
<1>3. IsFiniteSet(Q) /\ IsFiniteSet(D)
  <2>1. DOMAIN webhookQueue = 1..Len(webhookQueue) /\ Len(webhookQueue) \in Nat
        /\ DOMAIN dead = 1..Len(dead) /\ Len(dead) \in Nat
    BY DEF WebhookTypes
  <2>2. IsFiniteSet(DOMAIN webhookQueue) /\ IsFiniteSet(DOMAIN dead)
    BY <2>1, FS_Interval
  <2> QED
    BY <2>2, FS_Subset
<1>4. Cardinality({}) = 0 /\ \A k : Cardinality({k}) = 1
  BY FS_EmptySet, FS_Singleton
<1>5. Cardinality(Q) \in Nat /\ Cardinality(D) \in Nat
  BY <1>3, FS_CardinalityType
<1>6. (InQueue(i) => Q # {}) /\ (~InQueue(i) => Q = {})
      /\ (InDead(i) => D # {}) /\ (~InDead(i) => D = {})
  BY DEF InQueue, InDead
<1>7. (InQueue(i) => Cardinality(Q) >= 1) /\ (InDead(i) => Cardinality(D) >= 1)
  <2>1. (Q # {} => Cardinality(Q) # 0) /\ (D # {} => Cardinality(D) # 0)
    BY <1>3, FS_EmptySet
  <2> QED
    BY <1>5, <1>6, <2>1
<1>8. ASSUME OnceInQueue(i) PROVE Cardinality(Q) = IF InQueue(i) THEN 1 ELSE 0
  <2>1. CASE InQueue(i)
    <3>1. PICK k \in Q : TRUE
      BY <1>6, <2>1
    <3>2. Q = {k}
      BY <1>8, <3>1 DEF OnceInQueue
    <3> QED
      BY <1>4, <2>1, <3>2
  <2>2. CASE ~InQueue(i)
    BY <1>4, <1>6, <2>2
  <2> QED
    BY <2>1, <2>2
<1>9. ASSUME OnceInDead(i) PROVE Cardinality(D) = IF InDead(i) THEN 1 ELSE 0
  <2>1. CASE InDead(i)
    <3>1. PICK k \in D : TRUE
      BY <1>6, <2>1
    <3>2. D = {k}
      BY <1>9, <3>1 DEF OnceInDead
    <3> QED
      BY <1>4, <2>1, <3>2
  <2>2. CASE ~InDead(i)
    BY <1>4, <1>6, <2>2
  <2> QED
    BY <2>1, <2>2
<1>10. /\ Cardinality(S) = IF i \in webhookSettled THEN 1 ELSE 0
       /\ Cardinality(C) = IF i \in cleared THEN 1 ELSE 0
  <2>1. S = (IF i \in webhookSettled THEN {i} ELSE {}) /\ C = (IF i \in cleared THEN {i} ELSE {})
    OBVIOUS
  <2> QED
    BY <1>4, <2>1
<1> QED
  BY <1>2, <1>5, <1>7, <1>8, <1>9, <1>10

LEMMA WebhooksSettle ==
  WebhookInv /\ accepted \subseteq Items => Webhooks!Settlement
<1> SUFFICES ASSUME WebhookInv, accepted \subseteq Items PROVE Webhooks!Settlement
  OBVIOUS
<1> DEFINE n(i) == Cardinality({k \in DOMAIN webhookQueue :
                                  Webhooks!ItemOf(webhookQueue[k]) = i})
           d(i) == Cardinality({k \in DOMAIN dead : dead[k] = i})
           s(i) == Cardinality({i} \intersect webhookSettled)
           c(i) == Cardinality({i} \intersect cleared)
<1>1. ASSUME NEW i \in accepted
      PROVE  /\ n(i) \in Nat /\ d(i) \in Nat
             /\ InQueue(i) => n(i) >= 1
             /\ InDead(i) => d(i) >= 1
             /\ OnceInQueue(i) => n(i) = IF InQueue(i) THEN 1 ELSE 0
             /\ OnceInDead(i) => d(i) = IF InDead(i) THEN 1 ELSE 0
             /\ s(i) = IF i \in webhookSettled THEN 1 ELSE 0
             /\ c(i) = IF i \in cleared THEN 1 ELSE 0
             /\ Webhooks!Places(i) = n(i) + d(i) + s(i) + c(i)
  BY PlacesCount DEF WebhookInv
<1>2. \A i \in accepted : i \in webhookSettled \/ i \in cleared \/ InQueue(i) \/ InDead(i)
  BY DEF WebhookInv, Accounted
<1> HIDE DEF n, d, s, c
<1>3. Webhooks!NothingLost
  BY <1>1, <1>2 DEF Webhooks!NothingLost
<1>4. ASSUME NEW i \in accepted \ webhookOverlapped, crashes = 0 PROVE Webhooks!Places(i) = 1
  <2>1. InOnePlace(i)
    BY <1>4 DEF WebhookInv
  <2> QED
    BY <1>1, <1>2, <2>1 DEF InOnePlace
<1> QED
  BY <1>3, <1>4 DEF Webhooks!Settlement, Webhooks!OnePlace

-----------------------------------------------------------------------------
(* The rate limiters.                                                         *)

RateBounds == RouteMax \in Nat /\ Window \in Nat /\ MaxTime \in Nat /\ Limits \subseteq Nat

\* The tick the window under way began with, and the most that a limiter lets through in one.
Began(k) == entry[k].resetAt - Window
Most(k) == IF highest[k] = 0 THEN 1 ELSE highest[k]

RateTypes ==
  /\ now \in Rates!Times
  /\ entry \in [Rates!Limiters -> [count : Nat, resetAt : Int]]
  /\ quota \in Nat \union {Rates!NoQuota} /\ quota <= highest["tenant"]
  /\ granted \in [Rates!Limiters -> [Rates!Times -> Nat]]
  /\ highest \in [Rates!Limiters -> Nat]
  /\ \A k \in Rates!Limiters : RouteMax <= highest[k]

\* A span that begins in the last window holds no more than the window; one that began
\* before it and reaches into it, one window's requests more; and the future holds none.
WindowFits(k) ==
  /\ \A t \in Rates!Times : t > now \/ t > entry[k].resetAt => granted[k][t] = 0
  /\ entry[k] # Rates!NoEntry =>
       /\ Began(k) \in Rates!Times /\ Began(k) <= now
       /\ granted[k][Began(k)] <= entry[k].count
       /\ granted[k][Began(k)] <= Most(k)
       /\ \A t \in Rates!Times :
            /\ t >= Began(k) => granted[k][t] <= granted[k][Began(k)]
            /\ Began(k) \in Rates!Span(t) => granted[k][t] <= Most(k) + granted[k][Began(k)]
            /\ granted[k][t] <= 2 * Most(k)

RateInv == RateTypes /\ \A k \in Rates!Limiters : WindowFits(k)

\* A request counts in the window under way, or begins one.
LEMMA RequestIsCounted ==
  ASSUME RateBounds, RateInv, NEW k \in Rates!Limiters, NEW max \in Int, max <= highest[k],
         Rates!Request(k, max)
  PROVE  RateInv'
<1>1. /\ now \in Nat /\ now \in Rates!Times /\ Window \in Nat /\ entry[k].count \in Nat
      /\ entry[k].resetAt \in Int /\ Most(k) \in Nat /\ max <= Most(k) /\ Most(k) >= 1
      /\ Rates!Times = 0..MaxTime /\ Rates!Times \subseteq Nat
  BY DEF RateInv, RateTypes, RateBounds, Rates!Times, Most
<1>2. UNCHANGED <<now, quota, highest>>
  BY DEF Rates!Request
<1>3. /\ entry' = [entry EXCEPT ![k] = Rates!Hit(entry[k])]
      /\ Rates!Hit(entry[k]) \in [count : Nat, resetAt : Int]
  BY <1>1 DEF Rates!Request, Rates!Hit, RateInv, RateTypes
<1>4. /\ granted' \in [Rates!Limiters -> [Rates!Times -> Nat]]
      /\ \A j \in Rates!Limiters \ {k} : granted'[j] = granted[j]
  BY DEF Rates!Request, RateInv, RateTypes
<1>5. RateTypes'
  BY <1>2, <1>3, <1>4 DEF RateInv, RateTypes
<1>6. ASSUME NEW j \in Rates!Limiters, j # k PROVE WindowFits(j)'
  BY <1>2, <1>3, <1>4, <1>6 DEF RateInv, RateTypes, WindowFits, Began, Most
<1>7. WindowFits(k)
  BY DEF RateInv
<1>8. \A t \in Rates!Times : granted[k][t] \in Nat /\ granted'[k][t] \in Nat
  BY <1>4 DEF RateInv, RateTypes
<1>9. WindowFits(k)'
  <2>1. CASE now > entry[k].resetAt
    <3>1. entry'[k] = [count |-> 1, resetAt |-> now + Window] /\ Began(k)' = now
      BY <1>1, <1>3, <2>1 DEF Rates!Hit, Began, RateInv, RateTypes
    <3>2. \A t \in Rates!Times :
            granted'[k][t] = IF now \in Rates!Span(t) THEN granted[k][t] + 1 ELSE granted[k][t]
      BY <2>1 DEF Rates!Request, RateInv, RateTypes
    <3>3. \A t \in Rates!Times : now \in Rates!Span(t) <=> t <= now /\ now <= t + Window
      BY <1>1 DEF Rates!Span
    <3>4. \A t \in Rates!Times : t >= now => granted[k][t] = 0
      BY <1>1, <1>7, <2>1 DEF WindowFits
    <3>5. granted'[k][now] = 1
      BY <1>1, <3>2, <3>3, <3>4
    <3>6. \A t \in Rates!Times : t > now => granted'[k][t] = 0
      BY <1>1, <3>2, <3>3, <3>4
    <3>7. \A t \in Rates!Times : now \in Rates!Span(t) => granted[k][t] <= Most(k)
      <4>1. CASE entry[k] = Rates!NoEntry
        BY <1>1, <1>7, <1>8, <4>1 DEF WindowFits, Rates!NoEntry
      <4>2. CASE entry[k] # Rates!NoEntry
        <5>1. Began(k) \in Nat /\ entry[k].resetAt = Began(k) + Window
          BY <1>1, <1>7, <4>2 DEF WindowFits, Began
        <5>2. \A t \in Rates!Times : now \in Rates!Span(t) => t >= Began(k)
          BY <1>1, <3>3, <5>1, <2>1
        <5> QED
          BY <1>1, <1>7, <1>8, <4>2, <5>2 DEF WindowFits
      <4> QED
        BY <4>1, <4>2
    <3>8. \A t \in Rates!Times : granted[k][t] <= 2 * Most(k)
      BY <1>1, <1>7, <1>8 DEF WindowFits, Rates!NoEntry
    <3>9. Most(k)' = Most(k)
      BY <1>2 DEF Most
    <3>10. \A t \in Rates!Times :
             /\ t > now' \/ t > entry'[k].resetAt => granted'[k][t] = 0
             /\ t >= now => granted'[k][t] <= 1
             /\ now \in Rates!Span(t) => granted'[k][t] <= Most(k) + 1
             /\ granted'[k][t] <= 2 * Most(k)
      BY <1>1, <1>2, <1>8, <3>1, <3>2, <3>5, <3>6, <3>7, <3>8
    <3> QED
      BY <1>1, <1>2, <3>1, <3>5, <3>9, <3>10 DEF WindowFits
  <2>2. CASE now <= entry[k].resetAt
    <3>1. entry[k] # Rates!NoEntry
      BY <1>1, <2>2 DEF Rates!NoEntry
    <3>2. /\ entry'[k].count = entry[k].count + 1 /\ entry'[k].resetAt = entry[k].resetAt
          /\ Began(k)' = Began(k) /\ Most(k)' = Most(k)
      BY <1>1, <1>2, <1>3, <2>2 DEF Rates!Hit, Began, RateInv, RateTypes, Most
    <3>3. /\ Began(k) \in Rates!Times /\ Began(k) <= now
          /\ entry[k].resetAt = Began(k) + Window
      BY <1>1, <1>7, <3>1 DEF WindowFits, Began
    <3>4. CASE entry[k].count + 1 <= max
      <4>1. \A t \in Rates!Times :
              granted'[k][t] = IF now \in Rates!Span(t) THEN granted[k][t] + 1 ELSE granted[k][t]
        BY <3>4 DEF Rates!Request, RateInv, RateTypes
      <4>2. \A t \in Rates!Times : now \in Rates!Span(t) <=> t <= now /\ now <= t + Window
        BY <1>1 DEF Rates!Span
      <4>3. granted'[k][Began(k)] = granted[k][Began(k)] + 1
        BY <1>1, <2>2, <3>3, <4>1, <4>2
      <4>4. /\ granted'[k][Began(k)] <= entry'[k].count /\ granted'[k][Began(k)] <= Most(k)
        <5>1. granted[k][Began(k)] <= entry[k].count
          BY <1>7, <3>1 DEF WindowFits
        <5>2. granted[k][Began(k)] \in Nat
          BY <3>3 DEF RateInv, RateTypes
        <5> QED
          BY <1>1, <3>2, <3>4, <4>3, <5>1, <5>2
      <4>5. \A t \in Rates!Times :
              Began(k) \in Rates!Span(t) <=> t <= Began(k) /\ Began(k) <= t + Window
        BY <1>1, <3>3 DEF Rates!Span
      <4>6. ASSUME NEW t \in Rates!Times
            PROVE  /\ t > now' \/ t > entry'[k].resetAt => granted'[k][t] = 0
                   /\ t >= Began(k) => granted'[k][t] <= granted'[k][Began(k)]
                   /\ Began(k) \in Rates!Span(t) =>
                        granted'[k][t] <= Most(k) + granted'[k][Began(k)]
                   /\ granted'[k][t] <= 2 * Most(k)
        <5>1. /\ t > now \/ t > entry[k].resetAt => granted[k][t] = 0
              /\ t >= Began(k) => granted[k][t] <= granted[k][Began(k)]
              /\ Began(k) \in Rates!Span(t) =>
                        granted[k][t] <= Most(k) + granted[k][Began(k)]
              /\ granted[k][t] <= 2 * Most(k)
          BY <1>7, <3>1 DEF WindowFits
        <5>2. t > now' \/ t > entry'[k].resetAt => granted'[k][t] = 0
          BY <1>1, <1>2, <2>2, <3>2, <4>1, <4>2, <5>1
        <5> DEFINE g == granted[k][t]  b == granted[k][Began(k)]
                   h == granted'[k][t]  c == granted'[k][Began(k)]
        <5>6. g \in Nat /\ b \in Nat /\ h <= g + 1 /\ c = b + 1 /\ h \in Nat
          BY <1>8, <3>3, <4>1, <4>3
        <5>3. t >= Began(k) => h <= c
          <6> HIDE DEF g, b, h, c
          <6>1. t >= Began(k) => g <= b
            BY <5>1 DEF g, b
          <6> QED
            BY <5>6, <6>1
        <5>4. Began(k) \in Rates!Span(t) => h <= Most(k) + c
          <6> HIDE DEF g, b, h, c
          <6>1. Began(k) \in Rates!Span(t) => g <= Most(k) + b
            BY <5>1 DEF g, b
          <6> QED
            BY <1>1, <5>6, <6>1
        <5>5. granted'[k][t] <= 2 * Most(k)
          <6>1. CASE ~(now \in Rates!Span(t))
            BY <4>1, <5>1, <6>1
          <6>2. CASE now \in Rates!Span(t) /\ t >= Began(k)
            BY <1>1, <1>8, <3>3, <4>4, <5>3, <6>2
          <6>3. CASE now \in Rates!Span(t) /\ t < Began(k)
            BY <1>1, <1>8, <3>3, <4>2, <4>4, <4>5, <5>4, <6>3
          <6> QED
            BY <1>1, <3>3, <6>1, <6>2, <6>3
        <5> QED
          BY <5>2, <5>3, <5>4, <5>5
      <4> QED
        BY <1>2, <3>2, <3>3, <4>4, <4>6 DEF WindowFits
    <3>5. CASE ~(entry[k].count + 1 <= max)
      <4>1. granted' = granted
        BY <1>1, <2>2, <3>5 DEF Rates!Request
      <4>2. \A t \in Rates!Times : granted'[k][t] = granted[k][t]
        BY <4>1
      <4>3. granted'[k][Began(k)] <= entry'[k].count
        BY <1>1, <1>7, <1>8, <3>1, <3>2, <3>3, <4>1 DEF WindowFits
      <4> QED
        BY <1>2, <1>7, <3>1, <3>2, <3>3, <4>1, <4>3 DEF WindowFits
    <3> QED
      BY <3>4, <3>5
  <2> QED
    BY <1>1, <2>1, <2>2
<1> QED
  BY <1>5, <1>6, <1>9 DEF RateInv

LEMMA RateKeepsInv ==
  ASSUME RateBounds
  PROVE  RateInv /\ RateStep => RateInv'
<1> SUFFICES ASSUME RateInv, RateStep PROVE RateInv'
  OBVIOUS
<1>1. /\ "route" \in Rates!Limiters /\ "tenant" \in Rates!Limiters /\ RouteMax \in Int
      /\ \A k \in Rates!Limiters : RouteMax <= highest[k]
  BY DEF RateBounds, RateInv, RateTypes, Rates!Limiters
<1>2. CASE Rates!LimitRoute
  BY <1>1, <1>2, RequestIsCounted DEF Rates!LimitRoute
<1>3. CASE Rates!CheckRateLimit
  <2> DEFINE max == IF quota = Rates!NoQuota THEN RouteMax ELSE quota
  <2>1. max \in Int /\ max <= highest["tenant"]
    BY <1>1 DEF RateInv, RateTypes, Rates!NoQuota
  <2>2. Rates!Request("tenant", max)
    BY <1>3 DEF Rates!CheckRateLimit
  <2> QED
    BY <1>1, <2>1, <2>2, RequestIsCounted
<1>4. ASSUME NEW limit \in Limits, Rates!SetQuota(limit) PROVE RateInv'
  <2>1. /\ highest \in [Rates!Limiters -> Nat] /\ limit \in Nat
        /\ highest' = [highest EXCEPT !["tenant"] =
                         IF limit > highest["tenant"] THEN limit ELSE highest["tenant"]]
        /\ quota' = limit /\ UNCHANGED <<now, entry, granted>>
    BY <1>4 DEF Rates!SetQuota, RateInv, RateTypes, RateBounds
  <2>2. /\ highest' \in [Rates!Limiters -> Nat] /\ quota' <= highest'["tenant"]
        /\ \A k \in Rates!Limiters : highest[k] <= highest'[k]
    BY <1>1, <2>1
  <2>3. RateTypes'
    BY <2>1, <2>2 DEF RateInv, RateTypes, RateBounds
  <2>4. ASSUME NEW k \in Rates!Limiters PROVE WindowFits(k)'
    <3>1. Most(k) \in Nat /\ Most(k)' \in Nat /\ Most(k) <= Most(k)'
      BY <2>1, <2>2 DEF Most
    <3>2. Began(k)' = Began(k) /\ WindowFits(k)
      BY <2>1 DEF Began, RateInv
    <3>3. \A t \in Rates!Times : granted[k][t] \in Nat
      BY DEF RateInv, RateTypes
    <3> QED
      BY <2>1, <3>1, <3>2, <3>3 DEF WindowFits
  <2> QED
    BY <2>3, <2>4 DEF RateInv
<1>5. CASE Rates!DeleteQuota
  BY <1>5 DEF Rates!DeleteQuota, RateInv, RateTypes, WindowFits, Began, Most, Rates!NoQuota,
     Rates!Limiters
<1>6. CASE Rates!Tick
  <2>1. now' = now + 1 /\ now < MaxTime /\ UNCHANGED <<entry, quota, granted, highest>>
    BY <1>6 DEF Rates!Tick
  <2>2. RateTypes'
    BY <2>1 DEF RateInv, RateTypes, RateBounds, Rates!Times
  <2>3. ASSUME NEW k \in Rates!Limiters PROVE WindowFits(k)'
    <3>1. /\ now \in Nat /\ Rates!Times \subseteq Nat /\ WindowFits(k)
          /\ Began(k)' = Began(k) /\ Most(k)' = Most(k)
      BY <2>1 DEF RateInv, RateTypes, RateBounds, Rates!Times, Began, Most
    <3>2. \A t \in Rates!Times : t > now' => t > now
      BY <2>1, <3>1
    <3>3. entry[k] # Rates!NoEntry => Began(k) <= now'
      <4>1. entry[k] # Rates!NoEntry => Began(k) \in Rates!Times /\ Began(k) <= now
        BY <3>1 DEF WindowFits
      <4>2. Began(k) \in Rates!Times => Began(k) \in Int
        BY DEF Rates!Times
      <4>3. Began(k) \in Int /\ Began(k) <= now => Began(k) <= now'
        <5> DEFINE b == Began(k)
        <5> HIDE DEF b
        <5>1. b \in Int /\ b <= now => b <= now + 1
          BY <3>1
        <5> QED
          BY <2>1, <5>1 DEF b
      <4> QED
        BY <4>1, <4>2, <4>3
    <3> QED
      BY <2>1, <3>1, <3>2, <3>3 DEF WindowFits
  <2> QED
    BY <2>2, <2>3 DEF RateInv
<1>7. CASE UNCHANGED ratesVars
  BY <1>7 DEF ratesVars, RateInv, RateTypes, WindowFits, Began, Most
<1> QED
  BY <1>2, <1>3, <1>4, <1>5, <1>6, <1>7 DEF RateStep, Rates!Next

LEMMA RatesBegin ==
  ASSUME RateBounds, Rates!Init
  PROVE  RateInv
<1>1. RateTypes
  BY DEF Rates!Init, RateTypes, RateBounds, Rates!Times, Rates!NoEntry, Rates!NoQuota,
     Rates!Limiters
<1>2. \A k \in Rates!Limiters : WindowFits(k)
  BY DEF Rates!Init, WindowFits
<1> QED
  BY <1>1, <1>2 DEF RateInv

LEMMA RatesLimit == RateBounds /\ RateInv => Rates!AtMostTwice
<1> SUFFICES ASSUME RateBounds, RateInv, NEW k \in Rates!Limiters, NEW t \in Rates!Times
             PROVE  granted[k][t] <= 2 * Most(k)
  BY DEF Rates!AtMostTwice, Most
<1>1. granted[k][t] \in Nat /\ Most(k) \in Nat /\ WindowFits(k)
  BY DEF RateInv, RateTypes, Most
<1>4. t \in Nat
  BY DEF Rates!Times
<1>2. CASE entry[k] # Rates!NoEntry
  BY <1>1, <1>2 DEF WindowFits
<1>3. CASE entry[k] = Rates!NoEntry
  <2>1. t > entry[k].resetAt
    BY <1>4, <1>3 DEF Rates!NoEntry
  <2> QED
    BY <1>1, <2>1 DEF WindowFits
<1> QED
  BY <1>2, <1>3

-----------------------------------------------------------------------------
(* The policy pipeline.                                                       *)

PolicyTexts == [said : Contents, by : {"user", "assistant"}, final : BOOLEAN, response : Nat]

Results == [decision : {"allow", "rewrite", "refuse", "escalate"}, severity : 0..4,
            disclaimer : BOOLEAN]

PolicyTypes ==
  /\ texts \in Seq(PolicyTexts) /\ Len(texts) <= MaxTexts
  /\ done \in [Policy!Ids -> 0..3] /\ best \in [Policy!Ids -> Results]
  /\ decision \in [Policy!Ids -> {"none", "allow", "rewrite", "refuse", "escalate",
                                  "cancel_output"}]
  /\ DOMAIN policyMode = Policy!Ids /\ DOMAIN carried = Policy!Ids
  /\ response \in Nat /\ required \subseteq 1..Len(texts)

\* The best result is that of a check that was run, and none that was run outranks it.
BestOfRun(e) ==
  /\ \/ best[e] = Policy!Allow
     \/ \E k \in 1..done[e] : best[e] = Policy!Finds(Policy!Checks[k], texts[e])
  /\ \A k \in 1..done[e] : ~Policy!Outranks(Policy!Finds(Policy!Checks[k], texts[e]), best[e])
  /\ decision[e] # "none" => Policy!Decided(e) /\ decision[e] = Policy!Effective(best[e])

\* Who requires a disclaimer is the whole of a response, which is not spoken any more.
WrittenBefore(e) ==
  /\ texts[e].response <= response
  /\ best[e].disclaimer => texts[e].by = "assistant" /\ texts[e].final
  /\ texts[e].by = "assistant" /\ texts[e].final /\ texts[e].response = response =>
       answer # "spoken"
  /\ e \in required => best[e].disclaimer /\ decision[e] # "none"
  /\ texts[e].response \notin carried[e]

NotBegun(e) == /\ done[e] = 0 /\ best[e] = Policy!Allow /\ decision[e] = "none"
               /\ carried[e] = {}

PolicyInv ==
  /\ PolicyTypes
  /\ \A e \in 1..Len(texts) : BestOfRun(e) /\ WrittenBefore(e)
  /\ \A e \in Policy!Ids : e > Len(texts) => NotBegun(e)
  /\ Policy!FallbackFitsVeto

LEMMA Priorities ==
  /\ Policy!Priority("allow") = 1 /\ Policy!Priority("rewrite") = 2
  /\ Policy!Priority("refuse") = 3 /\ Policy!Priority("escalate") = 4
<1>1. /\ DOMAIN Policy!Decisions = 1..5
      /\ Policy!Decisions[1] = "allow" /\ Policy!Decisions[2] = "rewrite"
      /\ Policy!Decisions[3] = "refuse" /\ Policy!Decisions[4] = "escalate"
      /\ Policy!Decisions[5] = "cancel_output"
  BY DEF Policy!Decisions
<1>2. \A k \in 1..5 : k = 1 \/ k = 2 \/ k = 3 \/ k = 4 \/ k = 5
  OBVIOUS
<1>3. ASSUME NEW i \in 1..5
      PROVE  Policy!Priority(Policy!Decisions[i]) = i
  <2>1. \A k \in 1..5 : Policy!Decisions[k] = Policy!Decisions[i] => k = i
    BY <1>1, <1>2
  <2> QED
    BY <1>1, <2>1 DEF Policy!Priority
<1> QED
  BY <1>1, <1>3

\* What the checks find: the redactor and the checker of claims are never so severe that
\* the gate stops at them.
LEMMA ChecksFind ==
  ASSUME NEW t \in PolicyTexts
  PROVE  /\ \A k \in 1..3 : Policy!Finds(Policy!Checks[k], t) \in Results
         /\ \A k \in {1, 3} : /\ Policy!Finds(Policy!Checks[k], t).severity <= 3
                              /\ Policy!Finds(Policy!Checks[k], t).decision # "escalate"
         /\ \A k \in 1..3 : Policy!Finds(Policy!Checks[k], t).disclaimer =>
                              t.by = "assistant" /\ t.final
         /\ \/ Policy!Finds(Policy!Checks[1], t) = Policy!Allow
            \/ Policy!Outranks(Policy!Finds(Policy!Checks[1], t), Policy!Allow)
<1>1. /\ Policy!Finds(Policy!Checks[1], t) = Policy!PIIFinds(t)
      /\ Policy!Finds(Policy!Checks[2], t) = Policy!ModeratorFinds(t)
      /\ Policy!Finds(Policy!Checks[3], t) = Policy!ClaimsFinds(t)
  BY DEF Policy!Finds, Policy!Checks
<1>2. /\ Policy!PIIFinds(t) \in Results /\ Policy!PIIFinds(t).severity <= 3
      /\ Policy!PIIFinds(t).decision # "escalate" /\ ~Policy!PIIFinds(t).disclaimer
      /\ \/ Policy!PIIFinds(t) = Policy!Allow
         \/ Policy!Outranks(Policy!PIIFinds(t), Policy!Allow)
  BY Priorities DEF Policy!PIIFinds, Policy!Result, Policy!Allow, Results, Policy!Outranks
<1>3. Policy!ModeratorFinds(t) \in Results /\ ~Policy!ModeratorFinds(t).disclaimer
  BY DEF Policy!ModeratorFinds, Policy!Result, Policy!Allow, Results
<1>4. /\ Policy!ClaimsFinds(t) \in Results /\ Policy!ClaimsFinds(t).severity <= 3
      /\ Policy!ClaimsFinds(t).decision # "escalate"
      /\ Policy!ClaimsFinds(t).disclaimer => t.by = "assistant" /\ t.final
  BY DEF Policy!ClaimsFinds, Policy!Result, Policy!Allow, Results, PolicyTexts
<1>5. \A k \in 1..3 : k = 1 \/ k = 2 \/ k = 3
  OBVIOUS
<1> QED
  BY <1>1, <1>2, <1>3, <1>4, <1>5

\* A result that wins outranks what the one it wins over did not lose to.
LEMMA RanksAreOrdered ==
  ASSUME NEW a \in Results, NEW b \in Results, NEW c \in Results
  PROVE  /\ Policy!Outranks(a, b) /\ ~Policy!Outranks(c, b) => ~Policy!Outranks(c, a)
         /\ ~Policy!Outranks(a, a)
         /\ Policy!Terminal(a) /\ b.severity <= 3 /\ b.decision # "escalate" =>
              ~Policy!Outranks(b, a)
<1> DEFINE P(r) == Policy!Priority(r.decision)
<1>1. \A r \in Results :
        /\ r.decision \in {"allow", "rewrite", "refuse", "escalate"}
        /\ r.severity \in Int /\ r.severity <= 4
        /\ P(r) \in 1..4
        /\ P(r) = 4 <=> r.decision = "escalate"
        /\ r.decision = "refuse" => P(r) = 3
        /\ \A s \in Results : P(r) = P(s) => r.decision = s.decision
  BY Priorities DEF Results
<1>2. \A r, s \in Results :
        Policy!Outranks(r, s) <=> P(r) > P(s) \/ (P(r) = P(s) /\ r.severity > s.severity)
  BY <1>1 DEF Policy!Outranks
<1>3. Policy!Terminal(a) => P(a) >= 3 /\ a.severity = 4
  BY <1>1 DEF Policy!Terminal
<1> HIDE DEF P
<1> QED
  BY <1>1, <1>2, <1>3

\* What the checks find in a text does not change.
LEMMA FindingsStay ==
  ASSUME UNCHANGED opa, NEW i, texts'[i] = texts[i]
  PROVE  \A k : Policy!Finds(Policy!Checks[k], texts[i])' = Policy!Finds(Policy!Checks[k], texts[i])
<1>1. /\ Policy!PIIFinds(texts[i])' = Policy!PIIFinds(texts[i])
      /\ Policy!ModeratorFinds(texts[i])' = Policy!ModeratorFinds(texts[i])
      /\ Policy!ClaimsFinds(texts[i])' = Policy!ClaimsFinds(texts[i])
  BY DEF Policy!PIIFinds, Policy!ModeratorFinds, Policy!ClaimsFinds
<1> QED
  BY <1>1 DEF Policy!Finds, Policy!Checks

LEMMA BestStays ==
  ASSUME UNCHANGED opa, NEW i, UNCHANGED <<texts[i], done[i], best[i], decision[i]>>, BestOfRun(i)
  PROVE  BestOfRun(i)'
BY FindingsStay DEF BestOfRun, Policy!Decided, Policy!Terminal

\* One check more.
LEMMA CheckIsRun ==
  ASSUME MaxTexts \in Nat, PolicyInv, NEW e \in Policy!Ids, Policy!RunCheck(e)
  PROVE  PolicyInv'
<1>1. /\ UNCHANGED <<opa, texts, decision, last, lane, policyMode, response, answer,
                     responding, cancelling, required, carried>>
      /\ e \in 1..Len(texts) /\ decision[e] = "none" /\ done[e] \in 0..3 /\ done[e] # 3
      /\ texts[e] \in PolicyTexts /\ best[e] \in Results
  BY DEF Policy!RunCheck, Policy!Underway, Policy!Decided, Policy!Ids, PolicyInv, PolicyTypes,
     Policy!Checks
<1> DEFINE n == done[e] + 1
           f(k) == Policy!Finds(Policy!Checks[k], texts[e])
           winner == IF Policy!Outranks(f(n), best[e]) THEN f(n) ELSE best[e]
<1>2. done' = [done EXCEPT ![e] = n] /\ best' = [best EXCEPT ![e] = winner] /\ n \in 1..3
  BY <1>1 DEF Policy!RunCheck
<1>3. \A k \in 1..3 : f(k) \in Results /\ (f(k).disclaimer => texts[e].by = "assistant" /\ texts[e].final)
  BY <1>1, ChecksFind
<1>4. winner \in Results
  BY <1>1, <1>2, <1>3
<1> HIDE DEF winner
<1>5. PolicyTypes'
  BY <1>1, <1>2, <1>4 DEF PolicyInv, PolicyTypes
<1>6. ASSUME NEW i \in 1..Len(texts) PROVE BestOfRun(i)'
  <2>1. i \in Policy!Ids /\ BestOfRun(i)
    BY DEF PolicyInv, PolicyTypes, Policy!Ids
  <2>2. CASE i # e
    <3>1. done'[i] = done[i] /\ best'[i] = best[i]
      BY <1>2, <2>1, <2>2 DEF PolicyInv, PolicyTypes
    <3> QED
      BY <1>1, <2>1, <3>1, BestStays
  <2>3. CASE i = e
    <3>1. done'[e] = n /\ best'[e] = winner /\ decision'[e] = "none" /\ texts' = texts
      BY <1>1, <1>2 DEF PolicyInv, PolicyTypes
    <3>2. \/ best[e] = Policy!Allow
          \/ \E k \in 1..done[e] : best[e] = f(k)
      BY <2>1, <2>3 DEF BestOfRun
    <3>3. \A k \in 1..done[e] : ~Policy!Outranks(f(k), best[e])
      BY <2>1, <2>3 DEF BestOfRun
    <3>4. \A k \in 1..n : k \in 1..done[e] \/ k = n
      BY <1>1
    <3>5. 1..n \subseteq 1..3 /\ 1..done[e] \subseteq 1..n /\ n \in 1..n
      BY <1>1
    <3>6. winner = Policy!Allow \/ \E k \in 1..n : winner = f(k)
      BY <3>2, <3>5 DEF winner
    <3>7. ASSUME NEW k \in 1..n PROVE ~Policy!Outranks(f(k), winner)
      <4> HIDE DEF f, n
      <4>1. f(k) \in Results /\ f(n) \in Results
        BY <1>3, <3>5
      <4>2. CASE k = n
        BY <1>1, <4>1, <4>2, RanksAreOrdered DEF winner
      <4>3. CASE k \in 1..done[e]
        BY <1>1, <3>3, <4>1, <4>3, RanksAreOrdered DEF winner
      <4> QED
        BY <3>4, <4>2, <4>3
    <3>8. \A k : Policy!Finds(Policy!Checks[k], texts[e])' = Policy!Finds(Policy!Checks[k], texts[e])
      BY <1>1, FindingsStay
    <3> QED
      BY <2>3, <3>1, <3>6, <3>7, <3>8 DEF BestOfRun
  <2> QED
    BY <2>2, <2>3
<1>7. ASSUME NEW i \in 1..Len(texts) PROVE WrittenBefore(i)'
  <2>1. i \in Policy!Ids /\ WrittenBefore(i)
    BY DEF PolicyInv, PolicyTypes, Policy!Ids
  <2>2. CASE i # e
    <3>1. best'[i] = best[i]
      BY <1>2, <2>1, <2>2 DEF PolicyInv, PolicyTypes
    <3> QED
      BY <1>1, <2>1, <3>1 DEF WrittenBefore
  <2>3. CASE i = e
    <3>1. best'[e] = winner
      BY <1>2 DEF PolicyInv, PolicyTypes
    <3>2. winner.disclaimer => texts[e].by = "assistant" /\ texts[e].final
      BY <1>2, <1>3, <2>1, <2>3 DEF winner, WrittenBefore
    <3>3. e \notin required
      BY <1>1, <2>1, <2>3 DEF WrittenBefore
    <3> QED
      BY <1>1, <2>1, <2>3, <3>1, <3>2, <3>3 DEF WrittenBefore
  <2> QED
    BY <2>2, <2>3
<1>8. ASSUME NEW i \in Policy!Ids, i > Len(texts) PROVE NotBegun(i)'
  <2>1. i # e
    BY <1>1, <1>8
  <2> QED
    BY <1>1, <1>2, <1>8, <2>1 DEF PolicyInv, PolicyTypes, NotBegun
<1>9. Policy!FallbackFitsVeto'
  BY <1>1 DEF PolicyInv, Policy!FallbackFitsVeto
<1> QED
  BY <1>1, <1>5, <1>6, <1>7, <1>8, <1>9 DEF PolicyInv

\* A transcript is added, with the response it belongs to; none before it was written
\* while that response is spoken.
LEMMA TextIsAdded ==
  ASSUME MaxTexts \in Nat, PolicyInv, NEW by \in {"user", "assistant"}, NEW final \in BOOLEAN,
         NEW said \in Contents, Policy!Evaluate(by, final, said),
         UNCHANGED <<opa, done, best, decision, policyMode, response>>,
         \/ /\ by = "user" /\ UNCHANGED <<answer, required, carried>>
         \/ /\ by = "assistant" /\ answer = "spoken" /\ (final => answer' # "spoken")
            /\ \/ /\ required' = {}
                  /\ carried' = [i \in Policy!Ids |->
                       IF i \in required THEN carried[i] \union {response} ELSE carried[i]]
               \/ UNCHANGED <<carried, required>>
  PROVE  PolicyInv'
<1>0. PICK n \in Nat : n = Len(texts) + 1
  BY DEF PolicyInv, PolicyTypes
<1> DEFINE new == [said |-> said, by |-> by, final |-> final, response |-> response]
<1>1. /\ texts' = Append(texts, new) /\ n \in Policy!Ids /\ new \in PolicyTexts
      /\ texts \in Seq(PolicyTexts) /\ Len(texts) \in Nat
  BY <1>0 DEF Policy!Evaluate, PolicyInv, PolicyTypes, PolicyTexts, Policy!Ids
<1>2. /\ texts' \in Seq(PolicyTexts) /\ Len(texts') = n /\ texts'[n] = new
      /\ \A i \in 1..Len(texts) : texts'[i] = texts[i]
  BY <1>0, <1>1
<1>3. /\ required \subseteq 1..Len(texts) /\ required' \subseteq required
      /\ DOMAIN carried' = Policy!Ids
  BY DEF PolicyInv, PolicyTypes
<1>4. PolicyTypes'
  BY <1>0, <1>1, <1>2, <1>3 DEF PolicyInv, PolicyTypes, Policy!Evaluate
<1>5. NotBegun(n)
  BY <1>0, <1>1 DEF PolicyInv
<1>6. \A i \in Policy!Ids : i \notin required => carried'[i] = carried[i]
  BY DEF PolicyInv, PolicyTypes
<1>7. BestOfRun(n)' /\ WrittenBefore(n)'
  <2>1. n \notin required /\ n \notin required'
    BY <1>0, <1>1, <1>3
  <2>2. done'[n] = 0 /\ best'[n] = Policy!Allow /\ decision'[n] = "none" /\ carried'[n] = {}
    BY <1>1, <1>5, <1>6, <2>1 DEF NotBegun
  <2>3. BestOfRun(n)'
    BY <2>2 DEF BestOfRun
  <2>4. /\ texts'[n].response = response'
        /\ texts'[n].by = "assistant" /\ texts'[n].final => answer' # "spoken"
    BY <1>2
  <2>5. ~Policy!Allow.disclaimer /\ response' \in Nat
    BY DEF Policy!Allow, Policy!Result, PolicyInv, PolicyTypes
  <2> QED
    BY <2>1, <2>2, <2>3, <2>4, <2>5 DEF WrittenBefore
<1>8. ASSUME NEW i \in 1..Len(texts) PROVE BestOfRun(i)' /\ WrittenBefore(i)'
  <2>1. BestOfRun(i) /\ WrittenBefore(i) /\ texts'[i] = texts[i] /\ i \in Policy!Ids
    BY <1>2 DEF PolicyInv, PolicyTypes, Policy!Ids
  <2>2. BestOfRun(i)'
    BY <2>1, BestStays
  <2>3. texts[i].by = "assistant" /\ texts[i].final /\ texts[i].response = response =>
          answer' # "spoken"
    BY <2>1 DEF WrittenBefore
  <2>4. texts[i].response \notin carried'[i]
    <3>1. CASE i \in required
      <4>1. texts[i].response # response \/ answer # "spoken"
        BY <2>1, <3>1 DEF WrittenBefore
      <4> QED
        BY <2>1, <4>1 DEF WrittenBefore
    <3>2. CASE i \notin required
      BY <1>6, <2>1, <3>2 DEF WrittenBefore
    <3> QED
      BY <3>1, <3>2
  <2> QED
    BY <1>3, <2>1, <2>2, <2>3, <2>4 DEF WrittenBefore
<1>9. \A i \in 1..Len(texts') : i = n \/ i \in 1..Len(texts)
  BY <1>0, <1>1, <1>2
<1>10. ASSUME NEW i \in Policy!Ids, i > Len(texts') PROVE NotBegun(i)'
  <2>1. i > Len(texts) /\ i \notin required
    BY <1>0, <1>1, <1>2, <1>3, <1>10 DEF Policy!Ids
  <2> QED
    BY <1>6, <2>1 DEF PolicyInv, NotBegun
<1>11. Policy!FallbackFitsVeto'
  BY DEF PolicyInv, Policy!FallbackFitsVeto
<1> QED
  BY <1>4, <1>7, <1>8, <1>9, <1>10, <1>11 DEF PolicyInv

\* A decision is made, of the best result.
LEMMA DecisionIsMade ==
  ASSUME MaxTexts \in Nat, PolicyInv, NEW e \in Policy!Ids, Policy!Decide(e)
  PROVE  PolicyInv'
<1>1. /\ UNCHANGED <<opa, texts, done, best, response, answer, responding, carried>>
      /\ e \in 1..Len(texts) /\ decision[e] = "none" /\ Policy!Decided(e)
      /\ decision' = [decision EXCEPT ![e] = Policy!Effective(best[e])]
      /\ best[e] \in Results
  BY DEF Policy!Decide, Policy!Underway, Policy!Ids, PolicyInv, PolicyTypes
<1>2. /\ required' \subseteq 1..Len(texts) /\ required' \subseteq required \union {e}
      /\ e \in required' => e \in required \/ best[e].disclaimer
  BY <1>1 DEF Policy!Decide, Policy!PolicyCancel, PolicyInv, PolicyTypes
<1>3. /\ Policy!Effective(best[e]) \in {"allow", "rewrite", "refuse", "escalate", "cancel_output"}
      /\ Policy!Effective(best[e]) # "none"
  BY <1>1 DEF Policy!Effective, Results
<1>4. /\ decision'[e] = Policy!Effective(best[e])
      /\ \A i \in Policy!Ids \ {e} : decision'[i] = decision[i]
      /\ \A i \in Policy!Ids : decision[i] # "none" => decision'[i] = decision[i]
  BY <1>1 DEF PolicyInv, PolicyTypes
<1>5. \/ UNCHANGED policyMode
      \/ /\ Policy!Veto(decision'[e])
         /\ policyMode' = [policyMode EXCEPT ![e] = Policy!FallbackMode(decision'[e])]
  BY DEF Policy!Decide, Policy!PolicyCancel
<1>6. PolicyTypes'
  BY <1>1, <1>2, <1>3, <1>5 DEF PolicyInv, PolicyTypes
<1>7. ASSUME NEW i \in 1..Len(texts) PROVE BestOfRun(i)' /\ WrittenBefore(i)'
  <2>1. BestOfRun(i) /\ WrittenBefore(i) /\ i \in Policy!Ids
    BY DEF PolicyInv, PolicyTypes, Policy!Ids
  <2>2. BestOfRun(i)'
    <3>1. CASE i # e
      BY <1>1, <1>4, <2>1, <3>1, BestStays
    <3>2. CASE i = e
      BY <1>1, <1>4, <2>1, <3>2, FindingsStay DEF BestOfRun, Policy!Decided, Policy!Terminal
    <3> QED
      BY <3>1, <3>2
  <2>3. i \in required' => best[i].disclaimer /\ decision'[i] # "none"
    BY <1>2, <1>3, <1>4, <2>1 DEF WrittenBefore
  <2> QED
    BY <1>1, <2>1, <2>2, <2>3 DEF WrittenBefore
<1>8. ASSUME NEW i \in Policy!Ids, i > Len(texts') PROVE NotBegun(i)'
  <2>1. i # e /\ NotBegun(i)
    BY <1>1, <1>8 DEF PolicyInv, PolicyTypes, Policy!Ids
  <2> QED
    BY <1>1, <1>4, <2>1 DEF NotBegun
<1>9. ASSUME NEW i \in Policy!Ids, policyMode'[i] # "none"
      PROVE  Policy!Veto(decision'[i]) /\ policyMode'[i] = Policy!FallbackMode(decision'[i])
  <2>1. CASE policyMode'[i] = policyMode[i]
    <3>1. Policy!Veto(decision[i]) /\ policyMode[i] = Policy!FallbackMode(decision[i])
      BY <1>9, <2>1 DEF PolicyInv, Policy!FallbackFitsVeto
    <3>2. decision'[i] = decision[i]
      BY <1>4, <3>1 DEF Policy!Veto
    <3> QED
      BY <2>1, <3>1, <3>2
  <2>2. CASE policyMode'[i] # policyMode[i]
    BY <1>5, <2>2 DEF PolicyInv, PolicyTypes
  <2> QED
    BY <2>1, <2>2
<1> QED
  BY <1>1, <1>6, <1>7, <1>8, <1>9 DEF PolicyInv, Policy!FallbackFitsVeto

\* The responses come and go; what has been written of one stays written.
LEMMA ResponsesGoOn ==
  ASSUME PolicyInv, UNCHANGED <<opa, texts, done, best, decision, policyMode, carried>>,
         required' \subseteq required,
         \/ response' = response + 1
         \/ response' = response /\ (answer' = answer \/ answer' = "over")
  PROVE  PolicyInv'
<1>1. PolicyTypes' /\ response \in Nat
  BY DEF PolicyInv, PolicyTypes
<1>2. ASSUME NEW i \in 1..Len(texts) PROVE BestOfRun(i)' /\ WrittenBefore(i)'
  <2>1. BestOfRun(i) /\ WrittenBefore(i)
    BY DEF PolicyInv
  <2>4. texts[i].response \in Nat
    <3>1. texts[i] \in PolicyTexts
      BY DEF PolicyInv, PolicyTypes
    <3> QED
      BY <3>1 DEF PolicyTexts
  <2>2. BestOfRun(i)'
    BY <2>1, BestStays
  <2>3. texts[i].response <= response' /\ (texts[i].response = response' => response' = response)
    BY <1>1, <2>1, <2>4 DEF WrittenBefore
  <2>5. texts[i].response = response' => (answer' = "spoken" => answer = "spoken")
    BY <1>1, <2>1, <2>3, <2>4 DEF WrittenBefore
  <2> QED
    BY <2>1, <2>2, <2>3, <2>5 DEF WrittenBefore
<1> QED
  BY <1>1, <1>2 DEF PolicyInv, NotBegun, Policy!FallbackFitsVeto

LEMMA PolicyKeepsInv ==
  ASSUME MaxTexts \in Nat
  PROVE  PolicyInv /\ PolicyStep => PolicyInv'
<1> SUFFICES ASSUME PolicyInv, PolicyStep PROVE PolicyInv'
  OBVIOUS
<1>1. ASSUME NEW said \in Contents, Policy!UserTranscript(said) PROVE PolicyInv'
  BY <1>1, TextIsAdded DEF Policy!UserTranscript
<1>2. ASSUME NEW said \in Contents, NEW final \in BOOLEAN,
             Policy!AssistantTranscript(said, final)
      PROVE  PolicyInv'
  BY <1>2, TextIsAdded DEF Policy!AssistantTranscript
<1>3. CASE Policy!ResponseStarts
  BY <1>3, ResponsesGoOn DEF Policy!ResponseStarts, Policy!evaluation
<1>4. CASE Policy!ResponseEnds
  BY <1>4, ResponsesGoOn DEF Policy!ResponseEnds, Policy!evaluation
<1>5. CASE Policy!CancelGoesOn
  BY <1>5, ResponsesGoOn DEF Policy!CancelGoesOn, Policy!evaluation
<1>6. ASSUME NEW e \in Policy!Ids, Policy!RunCheck(e) PROVE PolicyInv'
  BY <1>6, CheckIsRun
<1>7. ASSUME NEW e \in Policy!Ids, Policy!Decide(e) PROVE PolicyInv'
  BY <1>7, DecisionIsMade
<1>8. CASE Policy!FallbackEnds \/ Policy!SessionEnds
  BY <1>8, ResponsesGoOn DEF Policy!FallbackEnds, Policy!SessionEnds, Policy!evaluation
<1>9. CASE UNCHANGED policyVars
  BY <1>9, ResponsesGoOn DEF policyVars
<1> QED
  BY <1>1, <1>2, <1>3, <1>4, <1>5, <1>6, <1>7, <1>8, <1>9 DEF PolicyStep, Policy!Next

LEMMA PolicyBegins ==
  ASSUME MaxTexts \in Nat, Policy!Init
  PROVE  PolicyInv
<1>1. texts = <<>> /\ required = {} /\ response = 0
  BY DEF Policy!Init
<1>2. Policy!Allow \in Results
  BY DEF Policy!Allow, Policy!Result, Results
<1>3. PolicyTypes
  BY <1>1, <1>2 DEF Policy!Init, PolicyTypes
<1>4. \A e \in Policy!Ids : NotBegun(e)
  BY DEF Policy!Init, NotBegun
<1>5. Policy!FallbackFitsVeto
  BY DEF Policy!Init, Policy!FallbackFitsVeto
<1> QED
  BY <1>1, <1>3, <1>4, <1>5 DEF PolicyInv

\* The gravest result of all decides: a check the gate did not get to could not have
\* outranked the one it stopped at.
LEMMA PolicyGoverns ==
  ASSUME MaxTexts \in Nat
  PROVE  PolicyInv => Policy!Governed
<1> SUFFICES ASSUME PolicyInv PROVE Policy!Governed
  OBVIOUS
<1>1. ASSUME NEW e \in 1..Len(texts), decision[e] # "none"
      PROVE  \E r \in Policy!Findings(texts[e]) :
               /\ \A other \in Policy!Findings(texts[e]) : ~Policy!Outranks(other, r)
               /\ decision[e] = Policy!Effective(r)
  <2> DEFINE f(k) == Policy!Finds(Policy!Checks[k], texts[e])
  <2>1. BestOfRun(e) /\ texts[e] \in PolicyTexts /\ done[e] \in 0..3 /\ best[e] \in Results
    BY DEF PolicyInv, PolicyTypes, Policy!Ids
  <2>2. /\ \A k \in 1..3 : f(k) \in Results
        /\ \A k \in {1, 3} : f(k).severity <= 3 /\ f(k).decision # "escalate"
        /\ f(1) = Policy!Allow \/ Policy!Outranks(f(1), Policy!Allow)
    BY <2>1, ChecksFind
  <2>3. Policy!Findings(texts[e]) = {f(k) : k \in 1..3}
    BY DEF Policy!Findings, Policy!Checks
  <2>4. /\ best[e] = Policy!Allow \/ \E k \in 1..done[e] : best[e] = f(k)
        /\ \A k \in 1..done[e] : ~Policy!Outranks(f(k), best[e])
        /\ Policy!Terminal(best[e]) \/ done[e] = 3
        /\ decision[e] = Policy!Effective(best[e])
    BY <1>1, <2>1 DEF BestOfRun, Policy!Decided, Policy!Checks
  <2> HIDE DEF f
  <2>5. ~Policy!Terminal(Policy!Allow)
    BY DEF Policy!Terminal, Policy!Allow, Policy!Result
  <2>6. PICK k \in 1..3 : best[e] = f(k) /\ (k <= done[e] \/ done[e] = 3)
    <3>1. CASE best[e] = Policy!Allow
      <4>1. done[e] = 3 /\ 1 \in 1..done[e]
        BY <2>4, <2>5, <3>1
      <4>2. ~Policy!Outranks(f(1), Policy!Allow)
        BY <2>4, <3>1, <4>1
      <4> QED
        BY <2>2, <3>1, <4>1, <4>2
    <3>2. CASE \E k \in 1..done[e] : best[e] = f(k)
      BY <2>1, <3>2
    <3> QED
      BY <2>4, <3>1, <3>2
  <2>7. ASSUME NEW j \in 1..3 PROVE ~Policy!Outranks(f(j), best[e])
    <3>1. CASE j \in 1..done[e]
      BY <2>4, <3>1
    <3>2. CASE j \notin 1..done[e]
      <4>1. Policy!Terminal(best[e]) /\ k < j
        BY <2>1, <2>4, <2>6, <3>2
      <4>2. k # 1
        BY <2>2, <2>6, <4>1 DEF Policy!Terminal, Results
      <4>3. j = 3
        BY <4>1, <4>2
      <4> QED
        BY <2>1, <2>2, <4>1, <4>3, RanksAreOrdered
    <3> QED
      BY <3>1, <3>2
  <2> QED
    BY <2>3, <2>4, <2>6, <2>7
<1>2. Policy!GravestDecides
  BY <1>1 DEF Policy!GravestDecides
<1>3. Policy!OwnDisclaimerMissed
  BY DEF PolicyInv, WrittenBefore, Policy!OwnDisclaimerMissed
<1> QED
  BY <1>2, <1>3 DEF PolicyInv, Policy!Governed

-----------------------------------------------------------------------------
(* The theorems.                                                              *)

\* A call's voice session does not outlive the call unless that was over while it was being
\* accepted or the bridge was started twice, a caller with metadata has a position, and a
\* trigger's callback is sent once, when it is completed: for any number of calls, starts,
\* callers, tenants and triggers.
THEOREM CallersKeepTheirPlaceAlways ==
  ASSUME NoTenant \notin Tenants
  PROVE  Spec => []CallersKeepTheirPlace
<1> DEFINE Inv == BridgeInv /\ QueueInv /\ CallbackInv
<1>1. Init => Inv
  <2> SUFFICES ASSUME Init PROVE Inv
    OBVIOUS
  <2>1. BridgeInv
    BY DEF Init, Bridge!Init, BridgeInv, OneSession
  <2>2. QueueInv
    BY DEF Init, Queue!Init, QueueInv, QueueTypes, MetaIsPlace, OnePlaceEach
  <2>3. CallbackInv
    BY DEF Init, Callbacks!Init, CallbackInv, Callbacks!CalledBackOnce
  <2> QED
    BY <2>1, <2>2, <2>3
<1>2. Inv /\ [Next]_vars => Inv'
  BY PartsStep, BridgeKeepsInv, QueueKeepsInv, CallbackKeepsInv
<1>3. Inv => CallersKeepTheirPlace
  BY QueueHasPlaces, BridgeSound DEF CallersKeepTheirPlace, CallbackInv
<1> QED
  BY <1>1, <1>2, <1>3, PTL DEF Spec

\* A supervisor hears the session last joined and no other, and the last announcement of
\* the health monitor is the state of the subsystem, for any supervisors and subsystems.
THEOREM WatchIsKept ==
  ASSUME NoSession \notin Sessions, Late \in Subsystems
  PROVE  Spec => []WatchKept
<1> DEFINE Inv == ConsoleInv /\ HealthInv
<1>1. Init => Inv
  <2> SUFFICES ASSUME Init PROVE Inv
    OBVIOUS
  <2>1. ConsoleInv
    BY DEF Init, Console!Init, ConsoleInv, ConsoleTypes, GoneWatchNothing, Console!Watched,
       Console!Audience, Console!Ids
  <2>2. HealthInv
    BY DEF Init, Health!Init, HealthInv, HealthTypes, OneRun, CountFits, Findings,
       Health!NotBegun
  <2> QED
    BY <2>1, <2>2
<1>2. Inv /\ [Next]_vars => Inv'
  BY PartsStep, ConsoleKeepsInv, HealthKeepsInv
<1>3. Inv => WatchKept
  BY HealthAnnounced DEF WatchKept, ConsoleInv
<1> QED
  BY <1>1, <1>2, <1>3, PTL DEF Spec

\* What a client library was told to end stays ended, its fields tell the truth as long as
\* no attempt overlaps what is left of an earlier one, and a connect() is rejected at the
\* latest by its timer unless the connection was closed before it was ready or it failed
\* with nobody listening to "error": for any number of attempts.
THEOREM ClientsAreSound ==
  ASSUME MaxSockets \in Nat
  PROVE  Spec => []ClientsSound
<1> DEFINE Inv == LibraryInv /\ SdkInv
<1>1. Init => Inv
  <2> SUFFICES ASSUME Init PROVE Inv
    OBVIOUS
  <2>1. LibraryInv
    BY DEF Init, Library!Init, LibraryInv, LibraryTypes, Library!Sound, Library!EndIsFinal,
       Library!FieldsTellTruth, Library!Alive, Library!Busy, Library!Used, Library!Attempts
  <2>2. SdkInv
    BY DEF Init, Sdk!Init, SdkInv, SdkTypes, UndecidedConnects, Sdk!ClientSound,
       Sdk!DisconnectIsFinal, Sdk!StateIsOfSocket, Sdk!PendingIsTimed, Sdk!Busy, Sdk!Used,
       Sdk!Attempts
  <2> QED
    BY <2>1, <2>2
<1>2. Inv /\ [Next]_vars => Inv'
  BY PartsStep, LibraryKeepsInv, SdkKeepsInv
<1>3. Inv => ClientsSound
  BY DEF ClientsSound, LibraryInv, SdkInv
<1> QED
  BY <1>1, <1>2, <1>3, PTL DEF Spec

\* The browser's microphone follows the user in a turn that nothing slipped into, and a
\* playback that no callback of an earlier one can join has one stream, for any number of
\* calls under way, of mode changes that were not answered yet, and of chunks.
THEOREM PageIsSound == Spec => []PageSound
<1> DEFINE Inv == BrowserInv /\ PlayerInv
<1>1. Init => Inv
  <2> SUFFICES ASSUME Init PROVE Inv
    OBVIOUS
  <2>1. BrowserInv
    BY DEF Init, Browser!Init, BrowserInv, BrowserTypes, CallsFollowUser,
       Browser!CapturesWhatIsThere, Browser!NoCall
  <2>2. PlayerInv
    BY DEF Init, Player!Init, PlayerInv, GoesOn
  <2> QED
    BY <2>1, <2>2
<1>2. Inv /\ [Next]_vars => Inv'
  BY PartsStep, BrowserKeepsInv, PlayerKeepsInv
<1>3. Inv => PageSound
  BY OneStreamPlays, BrowserFollows DEF PageSound
<1> QED
  BY <1>1, <1>2, <1>3, PTL DEF Spec

\* The end of the process is orderly, for any number of requests and clients, when the
\* two drains together are given as much time as the forced exit.
THEOREM EndIsOrderly ==
  ASSUME DrainFor \in Nat, ForceAfter \in Nat, ForceAfter <= DrainFor + DrainFor,
         IsFiniteSet(Requests)
  PROVE  Spec => []Orderly
<1>1. Init => OrderlyInv
  BY OrderlyIsInductive DEF Init
<1>2. OrderlyInv /\ [Next]_vars => OrderlyInv'
  BY PartsStep, OrderlyIsInductive
<1>3. OrderlyInv => Orderly
  BY OrderlyIsInductive DEF Orderly
<1> QED
  BY <1>1, <1>2, <1>3, PTL DEF Spec

\* The audit file is in the order of the events up to session.end, nothing recorded is
\* forgotten and no append waits for ever, for any number of events, replays and failures.
THEOREM TrailIsFaithful == Spec => []Faithful
<1>1. Init => AuditInv
  <2> SUFFICES ASSUME Init PROVE AuditInv
    OBVIOUS
  <2>1. events = <<>> /\ ends = 0 /\ links = <<>> /\ tail = 0 /\ file = <<>>
        /\ replay = <<>> /\ replays = 0 /\ auditFailures = 0
    BY DEF Init, Audit!Init
  <2> QED
    BY <2>1 DEF AuditInv, AuditTypes, WaitsForUnsettled, OneChain, Open, Kept
<1>2. AuditInv /\ [Next]_vars => AuditInv'
  BY PartsStep, AuditKeepsInv
<1>3. AuditInv => Faithful
  BY AuditIsFaithful DEF Faithful
<1> QED
  BY <1>1, <1>2, <1>3, PTL DEF Spec

\* An event that was accepted for delivery is never lost, and is in one place until two
\* passes hold it at once or the server has stopped: for any events, webhooks, passes,
\* attempts and restarts.
THEOREM EventsAreSettled ==
  ASSUME MaxRedrives \in Nat
  PROVE  Spec => []Settlement
<1> DEFINE Inv == WebhookInv /\ accepted \subseteq Items
<1>1. Init => Inv
  BY WebhooksBegin DEF Init
<1>2. Inv /\ [Next]_vars => Inv'
  BY PartsStep, WebhooksKeepInv, ItemsAreAccepted
<1>3. Inv => Settlement
  BY WebhooksSettle DEF Settlement
<1> QED
  BY <1>1, <1>2, <1>3, PTL DEF Spec

\* No span as long as the window lets through more than twice the largest limit that was in
\* force, whatever the limits, their changes and the length of the window.
THEOREM RatesAreLimited ==
  ASSUME RouteMax \in Nat, Window \in Nat, MaxTime \in Nat, Limits \subseteq Nat
  PROVE  Spec => []AtMostTwice
<1>1. RateBounds
  BY DEF RateBounds
<1>2. Init => RateInv
  BY <1>1, RatesBegin DEF Init
<1>3. RateInv /\ [Next]_vars => RateInv'
  BY <1>1, PartsStep, RateKeepsInv
<1>4. RateInv => AtMostTwice
  BY <1>1, RatesLimit DEF AtMostTwice
<1> QED
  BY <1>2, <1>3, <1>4, PTL DEF Spec

\* What policy decided about a text is what the most severe of its checks asks for, and
\* governs what is spoken: for any texts and any number of responses.
THEOREM TextsAreGoverned ==
  ASSUME MaxTexts \in Nat
  PROVE  Spec => []Governed
<1>1. Init => PolicyInv
  BY PolicyBegins DEF Init
<1>2. PolicyInv /\ [Next]_vars => PolicyInv'
  BY PartsStep, PolicyKeepsInv
<1>3. PolicyInv => Governed
  BY PolicyGoverns DEF Governed
<1> QED
  BY <1>1, <1>2, <1>3, PTL DEF Spec
=============================================================================

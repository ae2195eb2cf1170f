--------------------------- MODULE AgentVersions ----------------------------
(* The versions of the agents, which of them a tenant runs, the canary beside *)
(* it and the way back (services/AgentVersionStore.ts, api/agentVersions.ts). *)
(* A version is known by its age: the number of versions ever created before  *)
(* it, plus one. Every operation changes memory and then rewrites the file,   *)
(* which may fail: the caller gets an error and memory keeps the change.      *)
EXTENDS Naturals, FiniteSets, FiniteSetsExt

CONSTANTS Agents, Tenants,
          MaxVersions,  \* bound: versions ever created
          MaxFailures   \* bound: writes of the file that fail

VARIABLES versions,     \* the versions: [id, agent, number]
          running,      \* the deployment of an agent with a tenant, NotDeployed without
          disk,         \* <<versions, running>> as last written
          created, failures

vars == <<versions, running, disk, created, failures>>

NotDeployed == [active |-> 0, canary |-> 0]
Places == Tenants \X Agents
Numbers(a) == {v.number : v \in {w \in versions : w.agent = a}}
Known(id) == \E v \in versions : v.id = id
Deployed(id) == \E p \in Places : id \in {running[p].active, running[p].canary}

Init ==
  /\ versions = {}
  /\ running = [p \in Places |-> NotDeployed]
  /\ disk = <<versions, running>>
  /\ created = 0 /\ failures = 0

\* save(): the file is written after memory, or not.
Save ==
  \/ disk' = <<versions', running'>> /\ UNCHANGED failures
  \/ failures < MaxFailures /\ failures' = failures + 1 /\ UNCHANGED disk

\* Mutant: the versions are counted.
NumberByCount(a) == Cardinality(Numbers(a)) + 1

\* The number that the next version of an agent gets.
NextNumber(a) == Max(Numbers(a) \union {0}) + 1

CreateVersion(a) ==
  /\ created < MaxVersions
  /\ created' = created + 1
  /\ versions' = versions \union {[id |-> created', agent |-> a, number |-> NextNumber(a)]}
  /\ UNCHANGED running
  /\ Save

\* A version that no tenant runs, or tries, may be deleted.
DeleteVersion(v) ==
  /\ ~Deployed(v.id)
  /\ versions' = versions \ {v}
  /\ UNCHANGED <<running, created>>
  /\ Save

\* The agent of the version is not compared with the agent it is deployed as.
Deploy(p, v) ==
  /\ running' = [running EXCEPT ![p] = [active |-> v.id, canary |-> 0]]
  /\ UNCHANGED <<versions, created>>
  /\ Save

SetCanary(p, v) ==
  /\ running[p] # NotDeployed
  /\ v.id # running[p].active
  /\ running' = [running EXCEPT ![p].canary = v.id]
  /\ UNCHANGED <<versions, created>>
  /\ Save

ClearCanary(p) ==
  /\ running[p] # NotDeployed
  /\ running' = [running EXCEPT ![p].canary = 0]
  /\ UNCHANGED <<versions, created>>
  /\ Save

\* The versions that precede the active one in an agent's numbering.
Previous(p) ==
  {v \in versions : /\ v.agent = p[2]
                    /\ \E w \in versions : /\ w.id = running[p].active
                                           /\ v.number + 1 = w.number}

Rollback(p) ==
  /\ running[p] # NotDeployed
  /\ \E v \in Previous(p) :
       running' = [running EXCEPT ![p] = [active |-> v.id, canary |-> 0]]
  /\ UNCHANGED <<versions, created>>
  /\ Save

\* The server starts again from the file.
Restart ==
  /\ versions' = disk[1] /\ running' = disk[2]
  /\ UNCHANGED <<disk, created, failures>>

Next ==
  \/ \E a \in Agents : CreateVersion(a)
  \/ \E v \in versions : DeleteVersion(v)
  \/ \E p \in Places :
       \/ \E v \in versions : Deploy(p, v) \/ SetCanary(p, v)
       \/ ClearCanary(p)
       \/ Rollback(p)
  \/ Restart

Spec == Init /\ [][Next]_vars

-----------------------------------------------------------------------------
\* resolveVersion: what a session of this place may be given, by the hash of its name.
Resolved(p) ==
  IF running[p].canary = 0 THEN {running[p].active} ELSE {running[p].active, running[p].canary}

\* Whatever a session's hash, a tenant that runs an agent is given a version that
\* exists, in memory and after a restart, although versions are deleted, writes fail and
\* the agent may be rolled back meanwhile; and a canary differs from what it is tried
\* against.
ResolvesToVersion ==
  \A p \in Places :
    /\ running[p] # NotDeployed => \A id \in Resolved(p) : Known(id)
    /\ running[p].active # running[p].canary \/ running[p] = NotDeployed
    /\ disk[2][p] # NotDeployed =>
         \A id \in {disk[2][p].active, disk[2][p].canary} \ {0} :
           \E v \in disk[1] : v.id = id

\* Among an agent's versions a number is used once and a higher number is a younger
\* version, although deleting the last one frees its number: so a rollback of an agent
\* to its own previous version goes back in time.
NumbersFollowAge ==
  \A v, w \in versions :
    v.agent = w.agent /\ v.id < w.id => v.number < w.number

VersionsSound == ResolvesToVersion /\ NumbersFollowAge
=============================================================================

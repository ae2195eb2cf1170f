------------------------------- MODULE Voices -------------------------------
(* Voices of agents and of callers: voice profiles                            *)
(* (services/VoiceProfileStore.ts), voice tests                               *)
(* (services/VoiceAbTestService.ts), both behind api/voices.ts, and the       *)
(* voiceprints of callers (services/VoiceprintStore.ts, api/voiceprints.ts).  *)
(* The profiles of a tenant are a file of their own that is read when it is   *)
(* first needed. A feature stands for an embedding, and its distance to       *)
(* another one for their similarity.                                          *)
EXTENDS Integers, Sequences, FiniteSets, FiniteSetsExt

CONSTANTS Profiles, Owner(_),     \* profiles, and the tenant of each
          Tenants,
          MaxTests,               \* bound: voice tests of the tenant ever created
          Sessions,
          Callers, Features,
          Near,                   \* the distance at which a caller is recognised
          MaxSamples,             \* bound: samples of one voiceprint
          MaxFailures             \* bound: writes that fail

VARIABLES cache, index,           \* profiles in memory, and those found by their name
          loaded,                 \* tenants whose file was read
          file,                   \* profiles in the tenants' files
          born,                   \* the profiles ever created
          tests, results,         \* whether each test is active; <<test, session>>
          prints,                 \* of each caller [sum, n]: its samples, averaged
          failures

profileVars == <<cache, index, loaded, file, born, failures>>
testVars == <<tests, results>>
vars == <<profileVars, testVars, prints>>

NoPrint == [sum |-> 0, n |-> 0]

Init ==
  /\ cache = {} /\ index = {} /\ loaded = {} /\ file = {} /\ born = {}
  /\ tests = <<>> /\ results = {}
  /\ prints = [c \in Callers |-> NoPrint]
  /\ failures = 0

-----------------------------------------------------------------------------
(* Profiles.                                                                 *)

Of(t, set) == {p \in set : Owner(p) = t}

\* loadTenant and loadAllTenants: what is in memory already is not read again.
LoadTenants(ts) ==
  LET read == UNION {Of(t, file) : t \in ts \ loaded}
  IN  [cache |-> cache \union read, index |-> index \union read, loaded |-> loaded \union ts]

Remember(m) == cache' = m.cache /\ index' = m.index /\ loaded' = m.loaded

\* writeFileSync of one tenant's profiles, which may throw.
SaveTenant(t, profiles) ==
  \/ /\ file' = (file \ Of(t, file)) \union Of(t, profiles)
     /\ UNCHANGED failures
  \/ /\ failures < MaxFailures
     /\ failures' = failures + 1
     /\ UNCHANGED file

PostProfile(p) ==
  /\ p \notin born
  /\ born' = born \union {p}
  /\ LET m == LoadTenants({Owner(p)})
     IN  /\ Remember([m EXCEPT !.cache = @ \union {p}, !.index = @ \union {p}])
         /\ SaveTenant(Owner(p), m.cache \union {p})
  /\ UNCHANGED <<testVars, prints>>

\* getProfile: a name that is not in the index has every file read.
Looked(p) ==
  IF p \in index THEN LoadTenants({Owner(p)}) ELSE LoadTenants(Tenants)

GetProfile(p) ==
  /\ Remember(Looked(p))
  /\ UNCHANGED <<file, born, failures, testVars, prints>>

ListProfiles(t) ==
  /\ Remember(LoadTenants({t}))
  /\ UNCHANGED <<file, born, failures, testVars, prints>>

\* The route looks the profile up before it deletes it, as deleteProfile knows the index only.
DeleteProfile(p) ==
  LET m == Looked(p)
  IN  /\ p \in m.cache
      /\ Remember([m EXCEPT !.cache = @ \ {p}, !.index = @ \ {p}])
      /\ SaveTenant(Owner(p), m.cache \ {p})
      /\ UNCHANGED <<born, testVars, prints>>

\* Another process.
Restart ==
  /\ cache' = {} /\ index' = {} /\ loaded' = {}
  /\ UNCHANGED <<file, born, failures, testVars, prints>>

-----------------------------------------------------------------------------
(* Voice tests of one tenant. The first active one gets every session.       *)

CreateTest ==
  /\ Len(tests) < MaxTests
  /\ tests' = Append(tests, TRUE)
  /\ UNCHANGED <<profileVars, results, prints>>

DeactivateTest(i) ==
  /\ tests' = [tests EXCEPT ![i] = FALSE]
  /\ UNCHANGED <<profileVars, results, prints>>

\* Mutant: the newest active test gets the session.
AssignVoiceToNewest(s) ==
  \E i \in DOMAIN tests :
    /\ tests[i] /\ \A j \in DOMAIN tests : tests[j] => j <= i
    /\ results' = results \union {<<i, s>>}
    /\ UNCHANGED <<profileVars, tests, prints>>

AssignVoice(s) ==
  \E i \in DOMAIN tests :
    /\ tests[i] /\ \A j \in DOMAIN tests : tests[j] => j >= i
    /\ results' = results \union {<<i, s>>}
    /\ UNCHANGED <<profileVars, tests, prints>>

-----------------------------------------------------------------------------
(* Voiceprints. The stored embedding is the running average of the samples.  *)

Enroll(c, x) ==
  /\ prints[c].n < MaxSamples
  /\ prints' = [prints EXCEPT ![c].sum = @ + x, ![c].n = @ + 1]
  /\ UNCHANGED <<profileVars, testVars>>

DeleteVoiceprint(c) ==
  /\ prints[c] # NoPrint
  /\ prints' = [prints EXCEPT ![c] = NoPrint]
  /\ UNCHANGED <<profileVars, testVars>>

Enrolled == {c \in Callers : prints[c].n > 0}

\* How far a sample is from a caller's average, times the number of the samples.
Distance(c, x) ==
  LET d == prints[c].sum - x * prints[c].n IN IF d < 0 THEN 0 - d ELSE d

\* identify: the nearest voiceprint, if it is near enough.
Identify(x) ==
  {c \in Enrolled :
     /\ Distance(c, x) <= Near * prints[c].n
     /\ \A o \in Enrolled :
          Distance(c, x) * prints[o].n <= Distance(o, x) * prints[c].n}

Next ==
  \/ \E p \in Profiles : PostProfile(p) \/ GetProfile(p) \/ DeleteProfile(p)
  \/ \E t \in Tenants : ListProfiles(t)
  \/ Restart
  \/ CreateTest \/ \E i \in DOMAIN tests : DeactivateTest(i)
  \/ \E s \in Sessions : AssignVoice(s)
  \/ \E c \in Callers : DeleteVoiceprint(c) \/ \E x \in Features : Enroll(c, x)

Spec == Init /\ [][Next]_vars

-----------------------------------------------------------------------------
\* A profile in memory is found by its name, and by nothing else; as long as no write
\* failed, what was read of a tenant is what its file has, so that a profile that was
\* deleted stays so and one that was created is there for every later process.
ProfilesAreFound ==
  /\ index = cache
  /\ \A p \in cache : Owner(p) \in loaded
  /\ failures = 0 => \A t \in loaded : Of(t, cache) = Of(t, file)

\* A session takes part in a later test only when every earlier one it was in is over, so
\* that no voice is compared with another that the same call was promised to.
OneTestAtATime ==
  \A r, q \in results : r[2] = q[2] /\ r[1] < q[1] => ~tests[r[1]]

\* Who is recognised is enrolled and near enough, and a caller is recognised by a sample
\* that is its own average, or somebody is who is exactly as near.
KnownVoices ==
  \A c \in Callers, x \in Features :
    /\ c \in Identify(x) => c \in Enrolled /\ Distance(c, x) <= Near * prints[c].n
    /\ c \in Enrolled /\ Distance(c, x) = 0 => c \in Identify(x)

VoicesSound == ProfilesAreFound /\ OneTestAtATime /\ KnownVoices
=============================================================================

------------------------------ MODULE Tenants -------------------------------
(* The tenants' administration. KeysNext: API keys (services/ApiKeyStore.ts,  *)
(* api/auth.ts), the middleware that checks them (middleware/apiKeyAuth.ts)   *)
(* and the log of what it decided (services/AuditEventLogger.ts,              *)
(* api/auditEvents.ts). MigrationNext: the registry                           *)
(* (services/TenantRegistry.ts, api/admin.ts) and what TenantConfigMigrator   *)
(* moves from tenant to tenant. ValidationNext: services/ConfigValidator.ts.  *)
EXTENDS Naturals, Sequences, FiniteSets, FiniteSetsExt, SequencesExt

CONSTANTS MaxKeys, MaxEvents,       \* bounds
          Ring,                     \* RING_BUFFER_MAX
          Tenants, Bodies, MaxItems,
          Checks                    \* the checks of a configuration

VARIABLES keys, disk,   \* the keys in memory and in the file; a key is its number
          made,         \* how many were made
          lapsed,       \* the keys whose expiry has passed; one without an expiry never does
          fate,         \* history of a key: unknown, told to a client, tried to revoke
                        \* without success, revoked
          wiped,        \* history: a crash in the middle of a save emptied the file
          events, log, ring,    \* history: all events; those in the file; those in memory
          stream,       \* what an open event stream was sent since it opened, or Closed
          registered, items, nextId, snapshot, imported,    \* MigrationNext, see there
          outcome, report                                   \* ValidationNext

keyVars == <<keys, disk, made, lapsed, fate, wiped>>
logVars == <<events, log, ring, stream>>
migrationVars == <<registered, items, nextId, snapshot, imported>>
validationVars == <<outcome, report>>
vars == <<keyVars, logVars, migrationVars, validationVars>>

Closed == [from |-> 0, got |-> <<>>]
NoImport == [target |-> "none", bodies |-> {}]

Init ==
  /\ keys = {} /\ disk = {} /\ made = 0
  /\ lapsed = {}
  /\ fate = [k \in 1..MaxKeys |-> "unknown"] /\ wiped = FALSE
  /\ events = <<>> /\ log = <<>> /\ ring = <<>> /\ stream = Closed
  /\ registered = {} /\ items = {} /\ nextId = 0
  /\ snapshot = {} /\ imported = NoImport
  /\ outcome = [c \in Checks |-> "pending"] /\ report = "none"

-----------------------------------------------------------------------------
(* Keys. Every change writes the file whole; a write may fail, and then the   *)
(* request fails although memory has changed.                                 *)

Save(fails) == IF fails THEN UNCHANGED disk ELSE disk' = keys'

PostKey(fails) ==
  /\ made < MaxKeys
  /\ made' = made + 1
  /\ keys' = keys \union {made'}
  /\ Save(fails)
  /\ fate' = IF fails THEN fate ELSE [fate EXCEPT ![made'] = "told"]
  /\ UNCHANGED <<lapsed, wiped, logVars, migrationVars, validationVars>>

\* Mutant: the key is only forgotten in memory.
DeleteKeyInMemory(k, fails) ==
  /\ k \in keys
  /\ keys' = keys \ {k}
  /\ fate' = [fate EXCEPT ![k] = "revoked"]
  /\ UNCHANGED <<disk, made, lapsed, wiped, logVars, migrationVars, validationVars>>

\* revokeKey, and DELETE, which confirms it.
DeleteKey(k, fails) ==
  /\ k \in keys
  /\ keys' = keys \ {k}
  /\ Save(fails)
  /\ fate' = [fate EXCEPT ![k] = IF fails THEN "tried" ELSE "revoked"]
  /\ UNCHANGED <<made, lapsed, wiped, logVars, migrationVars, validationVars>>

\* Rotation revokes and creates, with a write each; both succeed here, or neither does.
RotateKey(k, fails) ==
  /\ k \in keys /\ made < MaxKeys
  /\ IF fails THEN keys' = keys \ {k} /\ made' = made
              ELSE keys' = (keys \ {k}) \union {made + 1} /\ made' = made + 1
  /\ Save(fails)
  /\ fate' = IF fails THEN [fate EXCEPT ![k] = "tried"]
             ELSE [fate EXCEPT ![k] = "revoked", ![made'] = "told"]
  /\ UNCHANGED <<lapsed, wiped, logVars, migrationVars, validationVars>>

Lapse(k) ==
  /\ k \in 1..made
  /\ lapsed' = lapsed \union {k}
  /\ UNCHANGED <<keys, disk, made, fate, wiped, logVars, migrationVars,
                 validationVars>>

\* log: a failed append leaves the event in memory only.
KeepLast(s, n) == IF Len(s) <= n THEN s ELSE SubSeq(s, Len(s) - n + 1, Len(s))
Log(e, fails) ==
  /\ Len(events) < MaxEvents
  /\ events' = Append(events, e)
  /\ log' = IF fails THEN log ELSE Append(log, e)
  /\ ring' = KeepLast(Append(ring, e), Ring)
  /\ stream' = IF stream = Closed THEN stream ELSE [stream EXCEPT !.got = Append(@, e)]

VerifyKey(k) == k \in keys /\ k \notin lapsed

\* The middleware; key 0 is one that was never made. A key that passes is touched, which
\* writes the file.
Request(k, fails) ==
  /\ k \in 0..made
  /\ IF VerifyKey(k) THEN disk' = keys /\ Log("used", fails)
     ELSE /\ UNCHANGED disk
          /\ Log(IF k \in keys THEN "expired" ELSE "invalid", fails)
  /\ UNCHANGED <<keys, made, lapsed, fate, wiped, migrationVars, validationVars>>

\* GET /audit/events/stream: the recent events, then each new one.
OpenStream ==
  /\ stream = Closed
  /\ stream' = [from |-> Len(events) + 1 - Len(ring), got |-> ring]
  /\ UNCHANGED <<keyVars, events, log, ring, migrationVars, validationVars>>

\* The process starts again; the crash may have come in the middle of a write of the keys,
\* which leaves a file that cannot be read, and load takes that for no keys.
Restart(torn) ==
  /\ disk' = IF torn THEN {} ELSE disk
  /\ keys' = disk'
  /\ wiped' = (wiped \/ torn)
  /\ ring' = KeepLast(log, Ring)
  /\ events' = log                  \* what was in memory only is lost
  /\ stream' = Closed
  /\ UNCHANGED <<made, lapsed, fate, log, migrationVars, validationVars>>

KeysNext ==
  \/ \E fails \in BOOLEAN :
       \/ PostKey(fails)
       \/ \E k \in keys : DeleteKey(k, fails) \/ RotateKey(k, fails)
       \/ \E k \in 0..made : Request(k, fails)
  \/ \E k \in 1..made : Lapse(k)
  \/ OpenStream
  \/ \E torn \in BOOLEAN : Restart(torn)

-----------------------------------------------------------------------------
(* Export and import of one kind of item; the migrator treats personas,       *)
(* knowledge, playbooks and menus alike. snapshot is the exported file,       *)
(* imported what the last import brought, while nothing changed since.        *)

ItemsOf(t) == {i \in items : i.tenant = t}

CreateItem(t, b) ==
  /\ nextId < MaxItems
  /\ items' = items \union {[id |-> nextId, tenant |-> t, body |-> b]}
  /\ nextId' = nextId + 1
  /\ imported' = NoImport
  /\ UNCHANGED <<registered, snapshot, keyVars, logVars, validationVars>>

DeleteItem(i) ==
  /\ i \in items
  /\ items' = items \ {i}
  /\ imported' = NoImport
  /\ UNCHANGED <<registered, nextId, snapshot, keyVars, logVars, validationVars>>

CreateTenant(t) ==
  /\ t \notin registered
  /\ registered' = registered \union {t}
  /\ UNCHANGED <<items, nextId, snapshot, imported, keyVars, logVars, validationVars>>

\* deleteTenant removes the registration and nothing else.
DeleteTenant(t) ==
  /\ t \in registered
  /\ registered' = registered \ {t}
  /\ UNCHANGED <<items, nextId, snapshot, imported, keyVars, logVars, validationVars>>

ExportTenant(t) ==
  /\ t \in registered
  /\ snapshot' = ItemsOf(t)
  /\ imported' = NoImport
  /\ UNCHANGED <<registered, items, nextId, keyVars, logVars, validationVars>>

\* importTenant: what the target has under the same id is skipped, or with overwrite
\* created once more; the copies get new ids. An item that fails becomes a warning.
ImportTenant(t, overwrite, failing) ==
  LET here == {i.id : i \in ItemsOf(t)}
      todo == {i \in snapshot \ failing : overwrite \/ i.id \notin here}
      copies == {[id |-> nextId + Cardinality({j \in todo : j.id < i.id}), tenant |-> t,
                  body |-> i.body] : i \in todo}
  IN  /\ snapshot # {}
      /\ nextId + Cardinality(todo) <= MaxItems
      /\ registered' = registered \union {t}
      /\ items' = items \union copies
      /\ nextId' = nextId + Cardinality(todo)
      /\ imported' = [target |-> t, bodies |-> {i.body : i \in snapshot \ failing}]
      /\ UNCHANGED <<snapshot, keyVars, logVars, validationVars>>

MigrationNext ==
  \/ \E t \in Tenants :
       \/ \E b \in Bodies : CreateItem(t, b)
       \/ CreateTenant(t) \/ DeleteTenant(t) \/ ExportTenant(t)
       \/ \E overwrite \in BOOLEAN, failing \in SUBSET snapshot : ImportTenant(t, overwrite, failing)
  \/ \E i \in items : DeleteItem(i)

-----------------------------------------------------------------------------
(* Validation: the checks run at once, each ends by itself or by its timeout. *)

CheckSettles(c, result) ==
  /\ outcome[c] = "pending"
  /\ outcome' = [outcome EXCEPT ![c] = result]
  /\ UNCHANGED <<report, keyVars, logVars, migrationVars>>

\* validate, after Promise.allSettled; a check that threw counts as failed.
Validated ==
  /\ report = "none" /\ \A c \in Checks : outcome[c] # "pending"
  /\ report' = IF \A c \in Checks : outcome[c] = "passed" THEN "valid" ELSE "invalid"
  /\ UNCHANGED <<outcome, keyVars, logVars, migrationVars>>

ValidationNext ==
  \/ \E c \in Checks, result \in {"passed", "failed", "threw"} : CheckSettles(c, result)
  \/ Validated

\* The three share no state here; Stores explores them one at a time.
Next == KeysNext \/ MigrationNext \/ ValidationNext
Spec == Init /\ [][Next]_vars

-----------------------------------------------------------------------------
\* A key whose revocation was confirmed never comes back, not after any restart; one that a
\* client was given and nobody tried to revoke is accepted until it lapses, unless a crash
\* emptied the file.
RevokedStaysOut ==
  \A k \in 1..MaxKeys :
    /\ fate[k] = "revoked" => k \notin keys \union disk
    /\ fate[k] = "told" /\ ~wiped => k \in keys \intersect disk

\* The log in memory is the end of what happened, and an open stream has shown an unbroken
\* run of it up to now.
LogIsUnbroken ==
  /\ ring = KeepLast(events, Ring)
  /\ stream # Closed => stream.got = SubSeq(events, stream.from, Len(events))

\* An import that was the last thing to happen brought everything it did not warn of, also
\* what it skipped; no copy took the name of another item, here or in the file.
ImportIsComplete ==
  /\ imported # NoImport => imported.bodies \subseteq {i.body : i \in ItemsOf(imported.target)}
  /\ \A i, j \in items : i.id = j.id => i = j
  /\ \A i \in snapshot, j \in items : i.id = j.id => i = j

TenantsSound ==
  /\ RevokedStaysOut /\ LogIsUnbroken /\ ImportIsComplete
  /\ report = "valid" => \A c \in Checks : outcome[c] = "passed"
=============================================================================

----------------------------- MODULE Offerings ------------------------------
(* What a tenant's agent is made from: personas (services/PersonaStore.ts,    *)
(* api/personas.ts) and templates with their marketplace                      *)
(* (services/AgentTemplateStore.ts, api/templates.ts). Identifiers are random *)
(* and never used twice. One built-in persona and one built-in template stand *)
(* for the five of each. Each file holds its data whole, so that a restart    *)
(* only returns a store to a state it was in: it is left out.                 *)
EXTENDS Naturals, FiniteSets

CONSTANTS Tenants, Personas, Templates,
          Shared        \* the tenant of what belongs to nobody (null)

VARIABLES persona,      \* of each custom persona its tenant, or "unborn" or "gone"
          assigned,     \* the persona that a tenant is assigned, or "none"
          template,     \* [tenant, published] of each custom template, or Absent
          born,         \* the templates that were ever created: no identifier comes twice
          asked         \* history: the templates whose publication was asked for last

vars == <<persona, assigned, template, born, asked>>

Owners == Tenants \union {Shared}
Absent == [tenant |-> "none", published |-> FALSE]
BuiltIn == "built-in"

Init ==
  /\ persona = [p \in Personas |-> "unborn"]
  /\ assigned = [t \in Tenants |-> "none"]
  /\ template = [x \in Templates |-> Absent]
  /\ born = {}
  /\ asked = {}

-----------------------------------------------------------------------------
(* Personas.                                                                 *)

IsBuiltIn(p) == p = BuiltIn
GetPersona(p) == IsBuiltIn(p) \/ (p \in Personas /\ persona[p] \in Owners)

\* What a tenant is offered: the built-in ones, its own, and those of nobody.
ListPersonas(t) == {BuiltIn} \union {p \in Personas : persona[p] \in {t, Shared}}

\* The persona in force for a tenant, if there is one.
GetTenantPersona(t) ==
  {p \in Personas \union {BuiltIn} : p = assigned[t] /\ GetPersona(p)}

CreatePersona(p, owner) ==
  /\ persona[p] = "unborn"
  /\ persona' = [persona EXCEPT ![p] = owner]

PostPersona(p, owner) ==
  /\ CreatePersona(p, owner)
  /\ UNCHANGED <<assigned, template, born, asked>>

UpdatePersona(p, owner) ==
  /\ ~IsBuiltIn(p) /\ GetPersona(p)
  /\ persona' = [persona EXCEPT ![p] = owner]

\* PUT may give a persona to another tenant.
PutPersona(p, owner) ==
  /\ GetPersona(p) /\ ~IsBuiltIn(p)
  /\ UpdatePersona(p, owner)
  /\ UNCHANGED <<assigned, template, born, asked>>

\* deletePersona leaves the assignments as they are.
DeletePersona(p) ==
  /\ ~IsBuiltIn(p) /\ GetPersona(p)
  /\ persona' = [persona EXCEPT ![p] = "gone"]

DeletePersonaRoute(p) ==
  /\ GetPersona(p) /\ ~IsBuiltIn(p)
  /\ DeletePersona(p)
  /\ UNCHANGED <<assigned, template, born, asked>>

AssignPersonaToTenant(t, p) ==
  /\ GetPersona(p)
  /\ assigned' = [assigned EXCEPT ![t] = p]

PostTenantPersona(t, p) ==
  /\ AssignPersonaToTenant(t, p)
  /\ UNCHANGED <<persona, template, born, asked>>

DeleteTenantPersona(t) ==
  /\ assigned' = [assigned EXCEPT ![t] = "none"]
  /\ UNCHANGED <<persona, template, born, asked>>

-----------------------------------------------------------------------------
(* Templates. The built-in one is published and cannot be changed.           *)

GetTemplate(x) == template[x] # Absent

ListTemplates(t) == {BuiltIn} \union {x \in Templates : template[x].tenant = t}

ListMarketplace == {BuiltIn} \union {x \in Templates : template[x].published}

CreateTemplate(x, owner) ==
  /\ x \notin born
  /\ template' = [template EXCEPT ![x] =
                    [tenant |-> owner, published |-> FALSE]]
  /\ born' = born \union {x}

PostTemplate(x, owner) ==
  /\ CreateTemplate(x, owner)
  /\ UNCHANGED <<persona, assigned, asked>>

\* Mutant: the body of the request is taken whole.
PutTemplateWhole(x, owner) ==
  /\ GetTemplate(x)
  /\ template' = [template EXCEPT ![x].tenant = owner, ![x].published = TRUE]
  /\ UNCHANGED <<persona, assigned, born, asked>>

\* The body of the request is taken field by field; `published` is no such field.
PutTemplate(x, owner) ==
  /\ GetTemplate(x)
  /\ template' = [template EXCEPT ![x].tenant = owner]
  /\ UNCHANGED <<persona, assigned, born, asked>>

DeleteTemplate(x) ==
  /\ GetTemplate(x)
  /\ template' = [template EXCEPT ![x] = Absent]
  /\ UNCHANGED <<persona, assigned, born, asked>>

PublishTemplate(x) ==
  /\ GetTemplate(x)
  /\ template' = [template EXCEPT ![x].published = TRUE]
  /\ asked' = asked \union {x}
  /\ UNCHANGED <<persona, assigned, born>>

UnpublishTemplate(x) ==
  /\ GetTemplate(x)
  /\ template' = [template EXCEPT ![x].published = FALSE]
  /\ asked' = asked \ {x}
  /\ UNCHANGED <<persona, assigned, born>>

\* Only what is published can be installed, as an unpublished copy of the tenant's own.
InstallTemplate(source, x, t) ==
  /\ source \in ListMarketplace
  /\ CreateTemplate(x, t)
  /\ UNCHANGED <<persona, assigned, asked>>

Next ==
  \/ \E p \in Personas, o \in Owners : PostPersona(p, o) \/ PutPersona(p, o)
  \/ \E p \in Personas : DeletePersonaRoute(p)
  \/ \E t \in Tenants : \/ DeleteTenantPersona(t)
                        \/ \E p \in Personas \union {BuiltIn} : PostTenantPersona(t, p)
  \/ \E x \in Templates :
       \/ \E o \in Owners : PostTemplate(x, o) \/ PutTemplate(x, o)
       \/ DeleteTemplate(x) \/ PublishTemplate(x) \/ UnpublishTemplate(x)
       \/ \E s \in Templates \union {BuiltIn}, t \in Tenants : InstallTemplate(s, x, t)

Spec == Init /\ [][Next]_vars

-----------------------------------------------------------------------------
\* A tenant speaks with a persona that exists; one whose persona was deleted speaks with
\* none, and with no other that comes to be.
PersonaInForce ==
  \A t \in Tenants :
    /\ \A p \in GetTenantPersona(t) : GetPersona(p)
    /\ GetTenantPersona(t) = {} =>
         assigned[t] = "none" \/ persona[assigned[t]] = "gone"

\* The marketplace shows what its owner asked to publish and nothing else, whatever was
\* edited, installed or moved to another tenant meanwhile; an installed copy starts hidden.
MarketplaceIsAsked == \A x \in Templates : x \in ListMarketplace => x \in asked

OfferingsSound == PersonaInForce /\ MarketplaceIsAsked
=============================================================================

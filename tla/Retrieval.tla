----------------------------- MODULE Retrieval ------------------------------
(* What an answer may be based on: the facts pack                             *)
(* (retrieval/RetrievalService.ts, KnowledgePack.ts, RAGPipeline.ts), the     *)
(* catalogue of disclaimers with its cache (retrieval/DisclaimerLookup.ts)    *)
(* and the connection to a tenant's collection in ChromaDB                    *)
(* (retrieval/ChromaDbVectorStore.ts, services/TenantVectorStoreFactory.ts).  *)
(* Similarities and sizes are numbers given with the facts.                   *)
EXTENDS Ranking, Functions, FiniteSetsExt

CONSTANTS Facts,        \* the facts in their order, for a query: [id, score, size, category]
          Disclaimers,  \* [for, size]: what a disclaimer is required for
          TopicSize, Cap, \* the size of the topic and the cap of a pack
          TopK,
          Callers,      \* who calls the collection at once
          Attempts      \* bound: calls of the server

VARIABLES collection,   \* the collection that the store holds: a version, or 0
          connected,
          server,       \* the version of the collection on the server, or 0
          versions,     \* bound and history: how many versions there were
          call,         \* what each caller awaits: [op, got]
          calls,
          broken,       \* history: a clear failed after its collection was deleted, and
                        \* no connect and no clear has succeeded since
          catalogue,    \* the cached catalogue: "none", "empty", or "read"
          readable      \* whether the catalogue's file can be read

storeVars == <<collection, connected, server, versions, call, calls, broken>>
vars == <<storeVars, catalogue, readable>>

Idle == [op |-> "idle", uses |-> 0]

Init ==
  /\ collection = 0 /\ connected = FALSE /\ server = 0 /\ versions = 0
  /\ call = [c \in Callers |-> Idle] /\ calls = 0 /\ broken = FALSE
  /\ catalogue = "none" /\ readable \in BOOLEAN

-----------------------------------------------------------------------------
(* The facts pack, for one query.                                            *)

\* VectorStore.search: what is similar at all, the most similar first, up to TopK. The sort
\* keeps the order of equals.
Found(topK) ==
  LET similar == {f \in Facts : f.score > 0}
      order == {p \in similar \X similar :
                  \/ p[1].score > p[2].score
                  \/ p[1].score = p[2].score /\ p[1].id < p[2].id}
  IN  Slice(Ranked(similar, order), topK)

\* selectDisclaimerIds: those for all sessions, and those that a found fact's category
\* calls for, whether or not that fact gets into the pack.
Required(found) ==
  {d \in Disclaimers : d.for = "all" \/ \E i \in DOMAIN found : found[i].category = d.for}

Size(set) == SumFunction([x \in set |-> x.size])
Fits(facts, notes, cap) == TopicSize + Size(facts) + Size(notes) <= cap

\* Mutant: the disclaimers are fitted in after the facts.
NotesThatFit(found, cap) ==
  IF Fits(Range(found) \union Required(found), {}, cap) THEN Required(found) ELSE {}

\* The disclaimers go in first, all or none.
PackNotes(found, cap) == IF Fits({}, Required(found), cap) THEN Required(found) ELSE {}

\* The facts follow in their order, up to the first that does not fit; trimToCaps has
\* nothing left to take then, unless the topic alone is too long.
PackFacts(found, cap) ==
  LET first(n) == {found[i] : i \in 1..n}
      fitting == {n \in 0..Len(found) : \A m \in 1..n : Fits(first(m), PackNotes(found, cap), cap)}
  IN  first(Max(fitting))

Pack(topK, cap) ==
  LET found == Found(topK)
  IN  [facts |-> PackFacts(found, cap), notes |-> PackNotes(found, cap)]

-----------------------------------------------------------------------------
(* The collection. Each method awaits the server; others run meanwhile.      *)

Await(c, op, uses) ==
  /\ call[c] = Idle /\ calls < Attempts
  /\ calls' = calls + 1
  /\ call' = [call EXCEPT ![c] = [op |-> op, uses |-> uses]]
  /\ UNCHANGED <<collection, connected, server, versions, broken, catalogue, readable>>

Connect(c) == ~connected /\ Await(c, "connect", 0)

\* What getOrCreateCollection and deleteCollection do on the server; a collection goes by
\* its name, whichever version it is.
GetOrCreate ==
  /\ server' = IF server = 0 THEN versions + 1 ELSE server
  /\ versions' = IF server = 0 THEN versions + 1 ELSE versions
Delete == server' = 0 /\ UNCHANGED versions

\* getOrCreateCollection answers.
Connected(c) ==
  /\ call[c].op = "connect"
  /\ GetOrCreate
  /\ collection' = server'
  /\ connected' = TRUE /\ broken' = FALSE
  /\ call' = [call EXCEPT ![c] = Idle]
  /\ UNCHANGED <<calls, catalogue, readable>>

\* index and search use the collection that is there when they are called.
Query(c) == connected /\ collection # 0 /\ Await(c, "query", collection)

Answered(c) ==
  /\ call[c].op = "query"
  /\ call' = [call EXCEPT ![c] = Idle]
  /\ UNCHANGED <<collection, connected, server, versions, calls, broken, catalogue, readable>>

Clear(c) == connected /\ collection # 0 /\ Await(c, "delete", collection)

\* deleteCollection answers.
Deleted(c) ==
  /\ call[c].op = "delete"
  /\ Delete
  /\ call' = [call EXCEPT ![c].op = "recreate"]
  /\ UNCHANGED <<collection, connected, calls, broken, catalogue, readable>>

\* A close that came meanwhile is undone in part: the collection is set again.
Recreated(c) ==
  /\ call[c].op = "recreate"
  /\ GetOrCreate
  /\ collection' = server' /\ broken' = FALSE
  /\ call' = [call EXCEPT ![c] = Idle]
  /\ UNCHANGED <<connected, calls, catalogue, readable>>

\* Any await may throw, with the work done on the server or not; clear() swallows it, and
\* leaves the old collection in place.
Fails(c) ==
  /\ call[c] # Idle
  /\ call' = [call EXCEPT ![c] = Idle]
  /\ \/ UNCHANGED <<server, versions>> /\ broken' = (broken \/ call[c].op = "recreate")
     \/ /\ call[c].op \in {"connect", "recreate"} /\ GetOrCreate
        /\ broken' = (broken \/ call[c].op = "recreate")
     \/ call[c].op = "delete" /\ Delete /\ broken' = TRUE
  /\ UNCHANGED <<collection, connected, calls, catalogue, readable>>

Close ==
  /\ connected
  /\ connected' = FALSE /\ collection' = 0
  /\ UNCHANGED <<server, versions, call, calls, broken, catalogue, readable>>

-----------------------------------------------------------------------------
(* The catalogue of disclaimers is read once; a failure is kept as an empty  *)
(* catalogue until the cache is reset.                                       *)

LoadCatalogue ==
  /\ catalogue = "none"
  /\ catalogue' = IF readable THEN "read" ELSE "empty"
  /\ UNCHANGED <<storeVars, readable>>

ResetCache ==
  /\ catalogue' = "none"
  /\ UNCHANGED <<storeVars, readable>>

FileChanges ==
  /\ readable' = ~readable
  /\ UNCHANGED <<storeVars, catalogue>>

\* formatDisclaimerBlock: the texts that are known, and the names of the others.
Block(ids) ==
  LET known == IF catalogue = "read" THEN Disclaimers ELSE {}
  IN  [texts |-> ids \intersect known, missing |-> ids \ known]

Next ==
  \/ \E c \in Callers : \/ Connect(c) \/ Connected(c) \/ Query(c) \/ Answered(c)
                        \/ Clear(c) \/ Deleted(c) \/ Recreated(c) \/ Fails(c)
  \/ Close
  \/ LoadCatalogue \/ ResetCache \/ FileChanges

Spec == Init /\ [][Next]_vars

-----------------------------------------------------------------------------
\* A pack stays under its cap; a fact is left out only for want of room; and no fact comes
\* without the disclaimers it calls for, unless these alone are too long.
PackIsGrounded ==
  \A topK \in 0..TopK, cap \in 0..Cap :
    LET pack == Pack(topK, cap)
        found == Found(topK)
    IN  /\ Fits({}, {}, cap) => Fits(pack.facts, pack.notes, cap)
        /\ pack.facts = Range(found) \/ ~Fits(Range(found), pack.notes, cap)
        /\ Fits({}, Required(found), cap) =>
             \A f \in pack.facts : \A d \in Disclaimers : d.for = f.category => d \in pack.notes

\* A connected store talks to the collection that is on the server, however connects,
\* clears and closes overlap, except between the two calls of a clear, and after one that
\* failed once its collection was deleted, its answer lost or not: then until a connect
\* or another clear succeeds.
TalksToServer ==
  connected /\ collection # server =>
    broken \/ \E c \in Callers : call[c].op = "recreate"

\* A disclaimer is either in the block or named as missing, never dropped unnoticed, and
\* none is made up.
NothingDropped ==
  \A ids \in SUBSET Disclaimers :
    LET block == Block(ids)
    IN  block.texts \union block.missing = ids /\ block.texts \intersect block.missing = {}

RetrievalSound == PackIsGrounded /\ TalksToServer /\ NothingDropped
=============================================================================

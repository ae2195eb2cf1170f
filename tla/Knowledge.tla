----------------------------- MODULE Knowledge ------------------------------
(* The knowledge bases of the tenants (services/KnowledgeBaseStore.ts,        *)
(* api/knowledge.ts), the search in them during a call                        *)
(* (services/LiveKbSearchService.ts, api/kbSearch.ts) and the questions that  *)
(* are taken from transcripts (services/FaqExtractor.ts). The entries of a    *)
(* tenant are a file of their own that is read when the tenant is first named;*)
(* an entry's name is known only once its file was read. A text is the set of *)
(* its words.                                                                 *)
EXTENDS Ranking, Functions, FiniteSetsExt

CONSTANTS Entries, Owner(_),      \* entries in the order of their creation, and their tenants
          Tenants,
          Title(_), Body(_),      \* the words of an entry's question and answer
          Queries,
          TopN,                   \* how many entries a search shows: 3 in the code
          Transcripts, Questions, \* turns of calls, and the texts that are questions
          Opening(_),             \* the first thirty characters of a text, without case
          MaxFaqs,                \* how many questions are taken: 10 in the code
          MaxHits,                \* bound: hits of one entry
          MaxFailures             \* bound: writes that fail

VARIABLES cache,                  \* entries in memory
          index,                  \* the entries that are known by their name
          loaded,                 \* tenants whose file was read
          hits,                   \* how often an entry was found
          file,                   \* what the files have: hits of an entry, or -1
          born, failures,
          deleted                 \* history: entries whose deletion was confirmed

vars == <<cache, index, loaded, hits, file, born, failures, deleted>>

Init ==
  /\ cache = {} /\ index = {} /\ loaded = {} /\ born = {} /\ deleted = {}
  /\ hits = [e \in Entries |-> 0] /\ file = [e \in Entries |-> -1]
  /\ failures = 0

Of(t, set) == {e \in set : Owner(e) = t}
OnFile == {e \in Entries : file[e] >= 0}

\* loadTenant: the store after a tenant was read, if it was not read before.
Read(t) ==
  IF t \in loaded THEN [cache |-> cache, index |-> index, hits |-> hits]
  ELSE [cache |-> cache \union Of(t, OnFile),
        index |-> index \union Of(t, OnFile),
        hits  |-> [e \in Entries |-> IF e \in Of(t, OnFile) THEN file[e] ELSE hits[e]]]

Keep(t, m) ==
  cache' = m.cache /\ index' = m.index /\ hits' = m.hits /\ loaded' = loaded \union {t}

\* saveTenant: the file is written whole, or not at all and the caller gets an error.
Written(t, m) ==
  [e \in Entries |-> IF Owner(e) # t THEN file[e]
                     ELSE IF e \in m.cache THEN m.hits[e] ELSE -1]
SaveTenant(t, m) == file' = Written(t, m) /\ UNCHANGED failures
SaveFails == failures < MaxFailures /\ failures' = failures + 1 /\ UNCHANGED file

-----------------------------------------------------------------------------
PostEntry(e) ==
  LET m == Read(Owner(e))
      added == [m EXCEPT !.cache = @ \union {e}, !.index = @ \union {e}]
  IN  /\ e \notin born
      /\ born' = born \union {e}
      /\ Keep(Owner(e), added)
      /\ SaveTenant(Owner(e), added) \/ SaveFails
      /\ UNCHANGED deleted

\* getEntry: only what the index names is looked for.
GetEntry(e) == e \in index /\ e \in Read(Owner(e)).cache

\* An update writes the file of an entry that was found.
PutEntry(e) ==
  /\ GetEntry(e)
  /\ SaveTenant(Owner(e), Read(Owner(e))) \/ SaveFails
  /\ UNCHANGED <<cache, index, loaded, hits, born, deleted>>

DeleteEntry(e) ==
  LET m == Read(Owner(e))
      left == [m EXCEPT !.cache = @ \ {e}, !.index = @ \ {e}]
  IN  /\ GetEntry(e)
      /\ Keep(Owner(e), left)
      /\ \/ SaveTenant(Owner(e), left) /\ deleted' = deleted \union {e}
         \/ SaveFails /\ UNCHANGED deleted
      /\ UNCHANGED born

ListEntries(t) ==
  /\ Keep(t, Read(t))
  /\ UNCHANGED <<file, born, failures, deleted>>

\* search: entries whose question shares a word, the most often found first.
Search(m, t, query) ==
  LET found == {e \in Of(t, m.cache) : Title(e) \intersect query # {}}
  IN  Slice(Ranked(found, MostFirst(found, m.hits)), TopN)

\* The route counts a hit of each result and writes the file after each; a write that
\* fails ends it there, with its own hit counted in memory.
SearchRoute(t, query) ==
  LET m == Read(t)
      results == Search(m, t, query)
      after(n) == [m EXCEPT !.hits = [e \in Entries |->
                     @[e] + IF \E i \in 1..n : results[i] = e THEN 1 ELSE 0]]
  IN  /\ \A i \in DOMAIN results : m.hits[results[i]] < MaxHits
      /\ \/ /\ Keep(t, after(Len(results)))
            /\ IF results = <<>> THEN UNCHANGED <<file, failures>>
               ELSE SaveTenant(t, after(Len(results)))
         \/ \E n \in 1..Len(results) :
              /\ Keep(t, after(n))
              /\ failures < MaxFailures /\ failures' = failures + 1
              /\ file' = IF n = 1 THEN file ELSE Written(t, after(n - 1))
      /\ UNCHANGED <<born, deleted>>

\* Mutant: the names stay.
ClearTenantKeepsNames(t) ==
  /\ cache' = cache \ Of(t, cache)
  /\ file' = [e \in Entries |-> IF Owner(e) = t THEN -1 ELSE file[e]]
  /\ UNCHANGED <<index, loaded, hits, born, failures, deleted>>

\* clearTenant forgets the entries' names, then the entries, then their file.
ClearTenant(t) ==
  /\ index' = index \ Of(t, cache)
  /\ cache' = cache \ Of(t, cache)
  /\ loaded' = loaded \ {t}
  /\ \/ /\ file' = [e \in Entries |-> IF Owner(e) = t THEN -1 ELSE file[e]]
        /\ deleted' = deleted \union Of(t, OnFile)
        /\ UNCHANGED failures
     \/ OnFile # {} /\ SaveFails /\ UNCHANGED deleted
  /\ UNCHANGED <<hits, born>>

Restart ==
  /\ cache' = {} /\ index' = {} /\ loaded' = {}
  /\ hits' = [e \in Entries |-> 0]
  /\ UNCHANGED <<file, born, failures, deleted>>

-----------------------------------------------------------------------------
\* LiveKbSearchService.search: a word of the title counts twice; a tenth of what could be
\* had is enough. The sum of the weights decides the order, the name breaks a tie.
Weight(e, query) ==
  2 * Cardinality(query \intersect Title(e))
    + Cardinality((query \intersect Body(e)) \ Title(e))

LiveSearch(t, query) ==
  LET found == {e \in Of(t, Read(t).cache) :
                  query # {} /\ 10 * Weight(e, query) >= 2 * Cardinality(query)}
  IN  Slice(Ranked(found, MostFirst(found, [e \in found |-> Weight(e, query)])), TopN)

\* extract: of the questions with the same opening the first, with the answer that comes
\* next, up to MaxFaqs. A turn is <<speaker, text>>.
Extract(turns) ==
  LET answer(i) == LET later == {j \in DOMAIN turns : j > i /\ turns[j][1] = "assistant"}
                   IN  IF later = {} THEN "" ELSE turns[Min(later)][2]
      asked(i) == turns[i][1] = "user" /\ turns[i][2] \in Questions
      first(i) == asked(i) /\ \A j \in 1..(i - 1) :
                                 asked(j) => Opening(turns[j][2]) # Opening(turns[i][2])
      firsts == {i \in DOMAIN turns : first(i)}
      taken == Slice(Ranked(firsts, Ascending(firsts)), MaxFaqs)
  IN  [n \in DOMAIN taken |-> <<turns[taken[n]][2], answer(taken[n])>>]

Next ==
  \/ \E e \in Entries : PostEntry(e) \/ PutEntry(e) \/ DeleteEntry(e)
  \/ \E t \in Tenants : ListEntries(t) \/ ClearTenant(t)
                        \/ \E q \in Queries : SearchRoute(t, q)
  \/ Restart

Spec == Init /\ [][Next]_vars

-----------------------------------------------------------------------------
\* An entry is known by its name exactly while it is in memory; what was read is on file
\* unless a write failed, and what was deleted with success is never found again.
NamesLeadToEntries ==
  /\ index = cache
  /\ \A e \in cache : Owner(e) \in loaded
  /\ failures = 0 => \A t \in loaded : Of(t, cache) = Of(t, OnFile)
  /\ failures = 0 => (cache \union OnFile) \intersect deleted = {}
  /\ failures = 0 => \A e \in cache : hits[e] = file[e]

\* A search during a call shows the best: nothing it leaves out has a greater weight than
\* what it shows, and it shows an entry of another tenant to nobody.
LiveSearchIsBest ==
  \A t \in Tenants, q \in Queries :
    LET shown == Range(LiveSearch(t, q))
    IN  /\ \A e \in shown : Owner(e) = t /\ (Title(e) \union Body(e)) \intersect q # {}
        /\ \A e \in Of(t, Read(t).cache) \ shown : Cardinality(shown) = TopN =>
             \A o \in shown : Weight(o, q) >= Weight(e, q)

\* The questions of a transcript are taken in the order they came, of those with the same
\* opening only the first, each with the first answer that follows it; one is passed over
\* only if its opening was taken, or if the limit was reached before it.
FaqsAreFirst ==
  \A turns \in Transcripts :
    LET faqs == Extract(turns)
        asked == {i \in DOMAIN turns : turns[i][1] = "user" /\ turns[i][2] \in Questions}
        alike(i, j) == Opening(turns[i][2]) = Opening(turns[j][2])
    IN  \E at \in [DOMAIN faqs -> asked] :
          /\ \A n, m \in DOMAIN faqs : n < m => at[n] < at[m]
          /\ \A n \in DOMAIN faqs :
               /\ turns[at[n]][2] = faqs[n][1]
               /\ \A i \in asked : alike(i, at[n]) => at[n] <= i
               /\ \E j \in at[n]..Len(turns) :
                    /\ faqs[n][2] # "" => turns[j] = <<"assistant", faqs[n][2]>>
                    /\ \A k \in (at[n] + 1)..(j - 1) : turns[k][1] # "assistant"
          /\ \A i \in asked :
               \/ \E n \in DOMAIN faqs : alike(i, at[n])
               \/ Len(faqs) >= MaxFaqs /\ \A n \in DOMAIN faqs : at[n] < i

KnowledgeSound == FaqsAreFirst /\ NamesLeadToEntries /\ LiveSearchIsBest
=============================================================================

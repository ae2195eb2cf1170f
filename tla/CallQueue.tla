----------------------------- MODULE CallQueue -----------------------------
(* The waiting callers of each tenant (services/CallQueueService.ts) behind  *)
(* the queue routes of api/routing.ts. A caller's metadata is kept once per  *)
(* session, its place once per enqueue(). `requeued` is history.             *)
EXTENDS Naturals, Sequences, FiniteSets, SequencesExt

CONSTANTS Sessions, Tenants,
          NoTenant,     \* a session without metadata
          MaxLength     \* bound: places in a queue

VARIABLES queues, meta, requeued

vars == <<queues, meta, requeued>>

Init ==
  /\ queues = [t \in Tenants |-> <<>>]
  /\ meta = [s \in Sessions |-> NoTenant]
  /\ requeued = {}

Queued(s) == \E t \in Tenants : s \in ToSet(queues[t])

\* enqueue() does not ask whether the session is waiting already.
Enqueue(s, t) ==
  /\ Len(queues[t]) < MaxLength
  /\ queues' = [queues EXCEPT ![t] = Append(@, s)]
  /\ meta' = [meta EXCEPT ![s] = t]
  /\ requeued' = IF Queued(s) THEN requeued \union {s} ELSE requeued

Dequeue(t) ==
  /\ queues[t] # <<>>
  /\ queues' = [queues EXCEPT ![t] = Tail(@)]
  /\ meta' = [meta EXCEPT ![Head(queues[t])] = NoTenant]
  /\ UNCHANGED requeued

\* remove() follows the metadata, and takes away one place.
RemoveSession(s) ==
  /\ meta[s] # NoTenant
  /\ queues' = [queues EXCEPT ![meta[s]] = RemoveFirst(@, s)]
  /\ meta' = [meta EXCEPT ![s] = NoTenant]
  /\ UNCHANGED requeued

Next ==
  \/ \E s \in Sessions, t \in Tenants : Enqueue(s, t)
  \/ \E t \in Tenants : Dequeue(t)
  \/ \E s \in Sessions : RemoveSession(s)

Spec == Init /\ [][Next]_vars

\* getPosition(): none without metadata, else the first place.
Position(s) ==
  IF meta[s] = NoTenant \/ s \notin ToSet(queues[meta[s]]) THEN 0
  ELSE CHOOSE k \in DOMAIN queues[meta[s]] :
         /\ queues[meta[s]][k] = s
         /\ \A j \in 1..(k - 1) : queues[meta[s]][j] # s

\* getQueueStatus() of a tenant reads the metadata of every entry, and throws when
\* one has none.
Readable(t) == \A k \in DOMAIN queues[t] : meta[queues[t][k]] # NoTenant

\* A caller with metadata waits where the metadata says and has a position there; a
\* status that throws is the doing of a session that was enqueued while it waited.
EveryoneHasAPlace ==
  /\ \A s \in Sessions : meta[s] # NoTenant => Position(s) > 0
  /\ \A t \in Tenants : ~Readable(t) => ToSet(queues[t]) \intersect requeued # {}
=============================================================================

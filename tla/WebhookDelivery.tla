-------------------------- MODULE WebhookDelivery --------------------------
(* Webhook delivery (services/WebhookService.ts) with its retry queue        *)
(* (services/WebhookRetryQueue.ts) and the routes that drive both            *)
(* (api/webhooks.ts, api/webhookRetry.ts), for one tenant and one event.     *)
(* An entry of the queue is an object that a pass keeps a reference to, so   *)
(* an entry is named by its item and by how often the item was brought back  *)
(* from the dead letters. `overlapped`, `settled`, `cleared` and `crashes`   *)
(* are history.                                                              *)
EXTENDS Naturals, Sequences, FiniteSets, SequencesExt

CONSTANTS Items,        \* the events to deliver
          Hooks,        \* the webhooks of the tenant
          Passes,       \* calls of processQueue under way at once
          MaxAttempts,  \* maxAttempts of the code
          MaxRedrives,  \* bound: dead letters brought back
          MaxCrashes    \* bound: restarts of the server

VARIABLES active,       \* the webhooks that deliver() sends to
          queue, dead,  \* WebhookRetryQueue.data
          tries,        \* attemptCount of an entry
          passes,       \* what each processQueue() is about to do
          disk,         \* the file of the queue
          redrives, crashes, accepted, overlapped, settled, cleared

data == <<queue, dead, tries>>
history == <<redrives, crashes, accepted, overlapped, settled, cleared>>
vars == <<active, data, passes, disk, history>>

Entries == Items \X (0..MaxRedrives)
ItemOf(e) == e[1]
Idle == [todo |-> <<>>, sending |-> {}, begun |-> FALSE, failed |-> FALSE]

\* load() of a file that does not exist yet.
Init ==
  /\ active = {}
  /\ queue = <<>> /\ dead = <<>>
  /\ tries = [e \in Entries |-> 0]
  /\ passes = [p \in Passes |-> Idle]
  /\ disk = data
  /\ redrives = 0 /\ crashes = 0
  /\ accepted = {} /\ overlapped = {} /\ settled = {} /\ cleared = {}

\* save() writes the whole data, whatever the caller changed of it.
Save == disk' = <<queue', dead', tries'>>
Load == queue' = disk[1] /\ dead' = disk[2] /\ tries' = disk[3]

-----------------------------------------------------------------------------
(* The webhooks. Every change is on disk before its route answers. One that  *)
(* is off is inactive, deleted or not made yet: deliver() does not see it.   *)

\* createWebhook, or an update that activates the webhook.
SwitchOn(h) ==
  /\ active' = active \union {h}
  /\ UNCHANGED <<data, passes, disk, history>>

\* deleteWebhook, or an update that takes its activity or its subscription away.
SwitchOff(h) ==
  /\ active' = active \ {h}
  /\ UNCHANGED <<data, passes, disk, history>>

-----------------------------------------------------------------------------
(* The queue.                                                                *)

Enqueue(i) ==
  /\ i \notin accepted
  /\ queue' = Append(queue, <<i, 0>>)
  /\ accepted' = accepted \union {i}
  /\ UNCHANGED <<active, dead, tries, passes, redrives, crashes, overlapped, settled, cleared>>
  /\ Save

\* removeFromQueue: the first entry of the item, whichever entry is meant.
WithoutItem(q, i) ==
  IF \E e \in ToSet(q) : ItemOf(e) = i
  THEN RemoveAt(q, SelectInSeq(q, LAMBDA e : ItemOf(e) = i))
  ELSE q

\* The places of what a pass may find due, in order: nextAttemptAt of a new entry is the
\* time it was made, and of the others some have come.
DueAt(q) ==
  {at \in UNION {[1..n -> DOMAIN q] : n \in 1..Len(q)} :
     /\ \A k, l \in DOMAIN at : k < l => at[k] < at[l]
     /\ \A j \in DOMAIN q : tries[q[j]] = 0 => j \in ToSet(at)}

Due(q) == {[k \in DOMAIN at |-> q[at[k]]] : at \in DueAt(q)}

\* Mutant: the entries a pass takes leave the queue until they are decided.
StartPassTakesOut(p) ==
  \E taken \in Due(queue) :
    /\ passes[p] = Idle
    /\ passes' = [passes EXCEPT ![p] = [Idle EXCEPT !.todo = taken]]
    /\ queue' = SelectSeq(queue, LAMBDA e : e \notin ToSet(taken))
    /\ UNCHANGED <<active, dead, tries, disk, history>>

\* processQueue takes the entries that are due now, and works on them to the end.
StartPass(p) ==
  \E taken \in Due(queue) :
    /\ passes[p] = Idle
    /\ passes' = [passes EXCEPT ![p] = [Idle EXCEPT !.todo = taken]]
    /\ overlapped' = overlapped \union
         {ItemOf(e) : e \in ToSet(taken) \intersect UNION {ToSet(passes[q].todo) : q \in Passes}}
    /\ UNCHANGED <<active, data, disk, redrives, crashes, accepted, settled, cleared>>

\* The pass leaves its first entry behind; after the last one it saves.
Advance(p) ==
  LET rest == Tail(passes[p].todo)
  IN  /\ passes' = [passes EXCEPT ![p] = [Idle EXCEPT !.todo = rest]]
      /\ IF rest = <<>> THEN Save ELSE UNCHANGED disk

Succeeds(p) ==
  LET i == ItemOf(Head(passes[p].todo))
  IN  /\ queue' = WithoutItem(queue, i)
      /\ settled' = settled \union {i}
      /\ UNCHANGED <<dead, tries>>

\* The entry counts the failure, and is moved to the dead letters or postponed.
FailsFor(p, limit) ==
  LET e == Head(passes[p].todo)
      i == ItemOf(e)
  IN  /\ tries' = [tries EXCEPT ![e] = @ + 1]
      /\ IF tries[e] + 1 >= limit
         THEN /\ queue' = WithoutItem(queue, i)
              /\ dead' = Append(dead, i)
         ELSE UNCHANGED <<queue, dead>>
      /\ UNCHANGED settled

Fails(p) == FailsFor(p, MaxAttempts)

\* deliver() captures who it sends to, at the start of each entry. When there is
\* nobody, it returns no delivery and the entry has failed.
Deliver(p) ==
  /\ passes[p].todo # <<>>
  /\ ~passes[p].begun
  /\ IF active = {}
     THEN Fails(p) /\ Advance(p)
     ELSE /\ passes' = [passes EXCEPT ![p].begun = TRUE, ![p].sending = active]
          /\ UNCHANGED <<data, disk, settled>>
  /\ UNCHANGED <<active, redrives, crashes, accepted, overlapped, cleared>>

\* One request of the pass is answered. sendToWebhook does not throw, so the next
\* webhook is tried whatever happened to this one.
Answered(p) ==
  \E h \in passes[p].sending, ok \in BOOLEAN :
    LET failed == passes[p].failed \/ ~ok
    IN  /\ IF passes[p].sending # {h}
           THEN /\ passes' = [passes EXCEPT ![p].sending = @ \ {h}, ![p].failed = failed]
                /\ UNCHANGED <<data, disk, settled>>
           ELSE /\ IF failed THEN Fails(p) ELSE Succeeds(p)
                /\ Advance(p)
        /\ UNCHANGED <<active, redrives, crashes, accepted, overlapped, cleared>>

\* retryDeadLetter makes a new entry for the item.
RetryDeadLetter(i) ==
  /\ i \in ToSet(dead)
  /\ redrives < MaxRedrives
  /\ redrives' = redrives + 1
  /\ dead' = RemoveFirst(dead, i)
  /\ queue' = Append(queue, <<i, redrives + 1>>)
  /\ UNCHANGED <<active, tries, passes, crashes, accepted, overlapped, settled, cleared>>
  /\ Save

ClearDeadLetter(i) ==
  /\ i \in ToSet(dead)
  /\ dead' = RemoveFirst(dead, i)
  /\ cleared' = cleared \union {i}
  /\ UNCHANGED <<active, queue, tries, passes, redrives, crashes, accepted, overlapped, settled>>
  /\ Save

\* The server stops between two steps and starts again from its files.
Restart ==
  /\ crashes < MaxCrashes
  /\ crashes' = crashes + 1
  /\ Load
  /\ passes' = [p \in Passes |-> Idle]
  /\ UNCHANGED <<active, disk, redrives, accepted, overlapped, settled, cleared>>

Next ==
  \/ \E h \in Hooks : SwitchOn(h) \/ SwitchOff(h)
  \/ \E i \in Items : Enqueue(i) \/ RetryDeadLetter(i) \/ ClearDeadLetter(i)
  \/ \E p \in Passes : StartPass(p) \/ Deliver(p) \/ Answered(p)
  \/ Restart

Spec == Init /\ [][Next]_vars

-----------------------------------------------------------------------------
\* In how many places an accepted item is accounted for.
Places(i) ==
  Cardinality({k \in DOMAIN queue : ItemOf(queue[k]) = i})
    + Cardinality({k \in DOMAIN dead : dead[k] = i})
    + Cardinality({i} \intersect settled) + Cardinality({i} \intersect cleared)

\* An item that enqueue() accepted is waiting, in the dead letters, delivered or
\* cleared by hand, after any number of overlapping passes and restarts.
NothingLost == \A i \in accepted : Places(i) >= 1

\* It is in one of these places only, so it is not delivered again and no delivered
\* item is reported dead, unless two passes held it at once or the server stopped
\* after a delivery that no save had recorded.
OnePlace == \A i \in accepted \ overlapped : crashes = 0 => Places(i) = 1

Settlement == NothingLost /\ OnePlace
=============================================================================

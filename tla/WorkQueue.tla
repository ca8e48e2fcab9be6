------------------------------- MODULE WorkQueue -------------------------------
(***************************************************************************)
(* The rate-limited work queue of client-go (workqueue.RateLimitingInterface)*)
(* as pkg/controller uses it: handlers Add keys, the worker Gets one, marks *)
(* it Done, and re-queues it with AddRateLimited or clears its failures with*)
(* Forget.  The library is not in this repository; what is modelled is the  *)
(* contract controller.go and handler.go rely on.                           *)
(*                                                                          *)
(* A queue is a record                                                      *)
(*   queue       the keys waiting for a worker, in order;                   *)
(*   dirty       the keys that need processing;                             *)
(*   processing  the keys handed to a worker and not yet Done;              *)
(*   waiting     the keys an AddRateLimited holds back until their delay    *)
(*               expires (the delaying queue keeps one entry per key);      *)
(*   failures    the rate limiter's count per key (NumRequeues).            *)
(*                                                                          *)
(* The operators below are functions from queue to queue, so that a caller's*)
(* step that calls the queue more than once is one composition of them.     *)
(***************************************************************************)
EXTENDS Naturals, Sequences

CONSTANT Key

WorkQueues ==
    [queue : Seq(Key), dirty : SUBSET Key, processing : SUBSET Key,
     waiting : SUBSET Key, failures : [Key -> Nat]]

EmptyQueue ==
    [queue |-> << >>, dirty |-> {}, processing |-> {}, waiting |-> {},
     failures |-> [k \in Key |-> 0]]

\* Fault: a key that is being processed is not marked.
AddedUnlessProcessed(q, k) ==
    IF k \in q.dirty \cup q.processing THEN q
    ELSE [q EXCEPT !.dirty = @ \cup {k}, !.queue = Append(@, k)]

\* Fault: the key is queued although a worker still has it.
AddedTwice(q, k) ==
    IF k \in q.dirty THEN q
    ELSE [q EXCEPT !.dirty = @ \cup {k}, !.queue = Append(@, k)]

\* Add: a key already dirty is coalesced; a key being processed is only marked.
Added(q, k) ==
    IF k \in q.dirty THEN q
    ELSE [q EXCEPT !.dirty = @ \cup {k},
                   !.queue = IF k \in q.processing THEN @ ELSE Append(@, k)]

\* Get: the head of the queue is handed to the caller.
CanGet(q) == q.queue # << >>

Taken(q) ==
    [q EXCEPT !.queue = Tail(@),
              !.dirty = @ \ {Head(q.queue)},
              !.processing = @ \cup {Head(q.queue)}]

\* Done: a key marked dirty while it was processed goes back into the queue.
Finished(q, k) ==
    [q EXCEPT !.processing = @ \ {k},
              !.queue = IF k \in q.dirty THEN Append(@, k) ELSE @]

\* Fault: the failure is counted and the key forgotten.
DelayedForEver(q, k) == [q EXCEPT !.failures[k] = @ + 1]

\* AddRateLimited: count a failure, add the key once its back-off has expired.
Delayed(q, k) ==
    [q EXCEPT !.waiting = @ \cup {k}, !.failures[k] = @ + 1]

Forgotten(q, k) == [q EXCEPT !.failures[k] = 0]

NumRequeues(q, k) == q.failures[k]

\* The back-off of a waiting key expires.
Ripened(q, k) == Added([q EXCEPT !.waiting = @ \ {k}], k)

(***************************************************************************)
(* What the callers rely on: a key is queued at most once, exactly when it  *)
(* is dirty and nobody processes it.  So no key is handed to two workers at *)
(* once, and none that was added is lost.                                   *)
(***************************************************************************)
NoDuplicates(s) == \A i, j \in 1 .. Len(s) : s[i] = s[j] => i = j

Occurs(s, k) == \E i \in 1 .. Len(s) : s[i] = k

QueuedWhenDirty(q) ==
    \A k \in Key : Occurs(q.queue, k) <=> k \in q.dirty /\ k \notin q.processing

QueueConsistent(q) == NoDuplicates(q.queue) /\ QueuedWhenDirty(q)
================================================================================

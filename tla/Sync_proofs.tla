------------------------------ MODULE Sync_proofs ------------------------------
(***************************************************************************)
(* No service is forgotten, for every set of services and ports, all port   *)
(* ranges and bounds, with a lagging lister, failing calls, unseen          *)
(* deletions, crashes and restarts.  The argument: what the worker has read *)
(* of a service is the current version, or something that comes after this  *)
(* visit (Elsewhere) will read the service again.  The same holds of the    *)
(* shadow services of deleted services, when no deletion goes unnoticed and *)
(* the lister is current, and of the configuration, when none goes          *)
(* unnoticed.                                                               *)
(***************************************************************************)
EXTENDS Controller_proofs, SequenceTheorems

\* A handler call, a place in the queue or a back-off comes after the visit in process.
InEvents(s) == \E i \in 1 .. Len(events) : events[i] = s

Elsewhere(s) == InEvents(s) \/ s \in wq.dirty \cup wq.waiting

\* Ports that a shadow service of the version can have.  When a table is full, a TCP or
\* UDP port is left out, and only logged.  An HTTP port leads to the entry point of its index.
PortOf(p) == [port |-> p.port, proto |-> p.proto]

HasHTTPTarget(p, v) ==
    \E i \in 1 .. Len(v.ports) : v.ports[i] = PortOf(p) /\ p.target = HTTPPort(i)

Fits(ports, v) ==
    \A p \in ports :
        /\ PortOf(p) \in WantedPorts(v) /\ p.target \in TargetRange(v.type)
        /\ v.type = "http" => HasHTTPTarget(p, v)

HasHTTPPorts(ports, v, next) ==
    v.type = "http" =>
        \A i \in 1 .. Len(v.ports) :
            i < next /\ Suitable("http", v.ports[i]) /\ HTTPPort(i) <= MaxHTTPPort =>
                \E p \in ports : PortOf(p) = v.ports[i]

\* The shadow service is one of this version of the service.
InStep(s) ==
    LET v == svcs[s]
    IN  /\ shadows[s] # NoShadow
        /\ Fits(shadows[s], v) /\ HasHTTPPorts(shadows[s], v, Len(v.ports) + 1)

NeedsSync(s) == Watched(svcs[s]) /\ ~InStep(s)

\* No service out of step is forgotten.
OutOfStepIsPending == up => \A s \in Service : NeedsSync(s) => Pending(s)

\* What the worker holds is current, or the service is visited again.
HeldIsCurrent ==
    /\ worker.pc \in {"shadow", "ports", "delete"} =>
        (Watched(svcs[worker.key]) =>
            worker.version = svcs[worker.key] \/ Elsewhere(worker.key))
    /\ worker.pc = "delete" => worker.version = Absent
    /\ worker.pc = "build" /\ worker.key # RefreshKey =>
        (NeedsSync(worker.key) => Elsewhere(worker.key))

\* The ports collected so far are those of the version.
PortsSoFar ==
    worker.pc = "ports" =>
        /\ Fits(worker.ports, worker.version)
        /\ HasHTTPPorts(worker.ports, worker.version, worker.next)

\* A process that is not running has nothing in memory.
StoppedIsEmpty == ~up => events = << >> /\ wq = EmptyQueue /\ worker = IdleWorker

SyncInv ==
    StoppedIsEmpty /\ OutOfStepIsPending /\ PortsSoFar /\ (up => HeldIsCurrent)
--------------------------------------------------------------------------------
(* Events and the queue                                                         *)

\* The operations of the queue, by what is dirty, waiting and in process.
LEMMA QueueContents ==
    ASSUME NEW q \in WorkQueues, NEW k \in Key
    PROVE  /\ Added(q, k).dirty = q.dirty \cup {k} /\ Added(q, k).waiting = q.waiting
           /\ Added(q, k).processing = q.processing
           /\ Ripened(q, k).dirty = q.dirty \cup {k}
           /\ Ripened(q, k).waiting = q.waiting \ {k}
           /\ Ripened(q, k).processing = q.processing
           /\ Finished(q, k).dirty = q.dirty /\ Finished(q, k).waiting = q.waiting
           /\ Finished(q, k).processing = q.processing \ {k}
           /\ Delayed(q, k) \in WorkQueues
           /\ Delayed(q, k).dirty = q.dirty /\ Delayed(q, k).waiting = q.waiting \cup {k}
           /\ Delayed(q, k).processing = q.processing
           /\ Forgotten(q, k) \in WorkQueues
           /\ Forgotten(q, k).dirty = q.dirty /\ Forgotten(q, k).waiting = q.waiting
           /\ Forgotten(q, k).processing = q.processing
<1> DEFINE r == [q EXCEPT !.waiting = @ \ {k}]
<1>1. /\ r \in WorkQueues /\ r.dirty = q.dirty /\ r.waiting = q.waiting \ {k}
      /\ r.processing = q.processing
  BY DEF WorkQueues
<1>2. ASSUME NEW x \in WorkQueues
      PROVE  /\ Added(x, k).dirty = x.dirty \cup {k} /\ Added(x, k).waiting = x.waiting
             /\ Added(x, k).processing = x.processing
  BY DEF Added, WorkQueues
<1>3. Ripened(q, k) = Added(r, k)
  BY DEF Ripened
<1> HIDE DEF r
<1>4. /\ Ripened(q, k).dirty = q.dirty \cup {k}
      /\ Ripened(q, k).waiting = q.waiting \ {k}
      /\ Ripened(q, k).processing = q.processing
  BY <1>1, <1>2, <1>3
<1>5. /\ Finished(q, k).dirty = q.dirty /\ Finished(q, k).waiting = q.waiting
      /\ Finished(q, k).processing = q.processing \ {k}
  BY DEF Finished, WorkQueues
<1>6. /\ Delayed(q, k) \in WorkQueues
      /\ Delayed(q, k).dirty = q.dirty /\ Delayed(q, k).waiting = q.waiting \cup {k}
      /\ Delayed(q, k).processing = q.processing
  <2> DEFINE waiting == q.waiting \cup {k}
             failures == [q.failures EXCEPT ![k] = @ + 1]
  <2>1. waiting \in SUBSET Key /\ failures \in [Key -> Nat]
    BY DEF WorkQueues
  <2>2. Delayed(q, k) = [q EXCEPT !.waiting = waiting, !.failures = failures]
    BY DEF Delayed, WorkQueues
  <2> HIDE DEF waiting, failures
  <2>3. /\ Delayed(q, k) \in WorkQueues
        /\ Delayed(q, k).dirty = q.dirty /\ Delayed(q, k).waiting = waiting
        /\ Delayed(q, k).processing = q.processing
    BY <2>1, <2>2 DEF WorkQueues
  <2> QED
    BY <2>3 DEF waiting
<1>7. /\ Forgotten(q, k) \in WorkQueues
      /\ Forgotten(q, k).dirty = q.dirty /\ Forgotten(q, k).waiting = q.waiting
      /\ Forgotten(q, k).processing = q.processing
  BY DEF Forgotten, WorkQueues
<1> QED
  BY <1>2, <1>4, <1>5, <1>6, <1>7

\* Events that are appended or handled.
LEMMA EventsAppended ==
    ASSUME NEW s, NEW t, events \in Seq(Service), s \in Service,
           events' = Append(events, s)
    PROVE  InEvents(s)' /\ (InEvents(t) => InEvents(t)')
<1>1. /\ Len(events) \in Nat /\ Len(events') = Len(events) + 1
      /\ events'[Len(events) + 1] = s
      /\ \A i \in 1 .. Len(events) : events'[i] = events[i]
  BY AppendProperties
<1>2. InEvents(s)'
  BY <1>1 DEF InEvents
<1>3. ASSUME InEvents(t) PROVE InEvents(t)'
  BY <1>1, <1>3 DEF InEvents
<1> QED
  BY <1>2, <1>3

\* The handler takes the oldest event; the others stay.
LEMMA EventHandled ==
    ASSUME NEW t, events \in Seq(Service), events # << >>, events' = Tail(events),
           InEvents(t)
    PROVE  t = Head(events) \/ InEvents(t)'
<1>1. /\ Len(events) \in Nat \ {0} /\ Len(events') = Len(events) - 1
      /\ Head(events) = events[1]
      /\ \A i \in 1 .. Len(events) - 1 : events'[i] = events[i + 1]
  BY HeadTailProperties
<1>2. PICK i \in 1 .. Len(events) : events[i] = t
  BY DEF InEvents
<1>3. CASE i = 1
  BY <1>1, <1>2, <1>3
<1>4. CASE i # 1
  <2>1. i - 1 \in 1 .. Len(events') /\ events'[i - 1] = t
    BY <1>1, <1>2, <1>4
  <2> QED
    BY <2>1 DEF InEvents
<1> QED
  BY <1>3, <1>4

\* All steps but those of the worker, the crash and the start.
EnvironmentStep ==
    \/ \E s \in Service : ChangeService(s) \/ DeleteUnseen(s) \/ ListerCatchesUp(s)
    \/ HandleEvent \/ OtherResourceEvent
    \/ \E k \in Key : DelayExpires(k)

\* Such a step loses nothing that is to be visited, and a change of a service that is
\* noticed is to be visited.
LEMMA EnvironmentLosesNothing ==
    ASSUME IInv, EnvironmentStep
    PROVE  /\ UNCHANGED <<worker, shadows, up>>
           /\ \A t \in Service : /\ Elsewhere(t) => Elsewhere(t)'
                                 /\ Pending(t) => Pending(t)'
           /\ \A t \in Service :
                \/ svcs'[t] = svcs[t]
                \/ (up /\ Notified(svcs[t], svcs'[t]) => Elsewhere(t)')
                \/ Tombstones /\ svcs'[t] = Absent
<1>1. /\ events \in Seq(Service) /\ wq \in WorkQueues
      /\ svcs \in [Service -> ServiceVersion \cup {Absent}]
  BY DEF IInv, InputsOK, QueueOK
<1>2. ASSUME NEW s \in Service, ChangeService(s), NEW t \in Service
      PROVE  /\ Elsewhere(t) => Elsewhere(t)'
             /\ Pending(t) => Pending(t)'
             /\ \/ svcs'[t] = svcs[t]
                \/ (up /\ Notified(svcs[t], svcs'[t]) => Elsewhere(t)')
  <2>1. PICK v \in ServiceVersion \cup {Absent} :
            /\ svcs' = [svcs EXCEPT ![s] = v]
            /\ events' = IF up /\ Notified(svcs[s], v) THEN Append(events, s) ELSE events
    BY <1>2 DEF ChangeService
  <2>2. wq' = wq /\ dropped' = dropped
    BY <1>2 DEF ChangeService
  <2>3. CASE up /\ Notified(svcs[s], v)
    <3>1. InEvents(s)' /\ (InEvents(t) => InEvents(t)')
      BY <1>1, <2>1, <2>3, EventsAppended
    <3>2. t = s \/ svcs'[t] = svcs[t]
      BY <1>1, <2>1
    <3> QED
      BY <2>2, <3>1, <3>2 DEF Elsewhere, Pending, InEvents
  <2>4. CASE ~(up /\ Notified(svcs[s], v))
    <3>1. events' = events
      BY <2>1, <2>4
    <3>2. (t # s /\ svcs'[t] = svcs[t]) \/ (t = s /\ svcs'[t] = v)
      BY <1>1, <2>1
    <3>3. \/ svcs'[t] = svcs[t]
          \/ ~(up /\ Notified(svcs[t], svcs'[t]))
      BY <2>4, <3>2
    <3> QED
      BY <2>2, <3>1, <3>3 DEF Elsewhere, Pending, InEvents
  <2> QED
    BY <2>3, <2>4
<1>3. ASSUME NEW s \in Service, DeleteUnseen(s), NEW t \in Service
      PROVE  /\ Elsewhere(t) => Elsewhere(t)'
             /\ Pending(t) => Pending(t)'
             /\ svcs'[t] = svcs[t] \/ (Tombstones /\ svcs'[t] = Absent)
  BY <1>1, <1>3 DEF DeleteUnseen, Elsewhere, Pending, InEvents
<1>4. ASSUME HandleEvent, NEW t \in Service
      PROVE  (Elsewhere(t) => Elsewhere(t)') /\ (Pending(t) => Pending(t)')
  <2>1. Head(events) \in Service /\ events # << >>
    BY <1>1, <1>4 DEF HandleEvent
  <2>2. /\ wq'.dirty = wq.dirty \cup {Head(events)} /\ wq'.waiting = wq.waiting
        /\ wq'.processing = wq.processing /\ events' = Tail(events) /\ dropped' = dropped
    BY <1>1, <1>4, <2>1, KeysAndClaims, QueueContents DEF HandleEvent
  <2>3. InEvents(t) => t = Head(events) \/ InEvents(t)'
    BY <1>1, <2>1, <2>2, EventHandled
  <2> QED
    BY <2>2, <2>3 DEF Elsewhere, Pending, InEvents
<1>5. ASSUME NEW k \in Key, \/ (OtherResourceEvent /\ k = RefreshKey)
                            \/ DelayExpires(k),
             NEW t \in Service
      PROVE  (Elsewhere(t) => Elsewhere(t)') /\ (Pending(t) => Pending(t)')
  <2>1. /\ wq'.dirty = wq.dirty \cup {k} /\ wq.waiting \subseteq wq'.waiting \cup {k}
        /\ wq'.processing = wq.processing /\ events' = events /\ dropped' = dropped
    BY <1>1, <1>5, QueueContents DEF OtherResourceEvent, DelayExpires
  <2> QED
    BY <2>1 DEF Elsewhere, Pending, InEvents
<1>6. ASSUME NEW s \in Service, ListerCatchesUp(s), NEW t \in Service
      PROVE  (Elsewhere(t) => Elsewhere(t)') /\ (Pending(t) => Pending(t)')
  BY <1>6 DEF ListerCatchesUp, Elsewhere, Pending, InEvents
<1>7. \/ svcs' = svcs \/ \E s \in Service : ChangeService(s) \/ DeleteUnseen(s)
  BY DEF EnvironmentStep, HandleEvent, OtherResourceEvent, DelayExpires, ListerCatchesUp,
         clusterVars
<1>8. ASSUME NEW t \in Service
      PROVE  /\ Elsewhere(t) => Elsewhere(t)'
             /\ Pending(t) => Pending(t)'
  BY <1>2, <1>3, <1>4, <1>5, <1>6, KeysAndClaims DEF EnvironmentStep
<1>9. UNCHANGED <<worker, shadows, up>>
  BY DEF EnvironmentStep, ChangeService, DeleteUnseen, HandleEvent, OtherResourceEvent,
         DelayExpires, ListerCatchesUp, clusterVars
<1> QED
  BY <1>2, <1>3, <1>7, <1>8, <1>9

--------------------------------------------------------------------------------
(* Steps of the worker                                                          *)

\* What is pending depends on events, the queue and the keys given up.
LEMMA SamePending ==
    ASSUME UNCHANGED <<events, wq, dropped>>, NEW t
    PROVE  Pending(t)' = Pending(t) /\ Elsewhere(t)' = Elsewhere(t)
BY DEF Pending, Elsewhere, InEvents

\* A visit that fails leaves its key behind, waiting or given up.
LEMMA FailKeepsPending ==
    ASSUME IInv, worker.pc # "idle", FailItem, UNCHANGED events
    PROVE  /\ worker' = IdleWorker
           /\ \A t \in Service : Pending(t) \/ t = worker.key => Pending(t)'
<1>1. /\ worker.key \in Key /\ wq \in WorkQueues /\ wq.processing = {worker.key}
  BY DEF IInv, QueueOK, WorkIsQueuedOnce, WorkerOK, WorkerStates
<1> DEFINE k == worker.key
<1>2. CASE wq' = Finished(Delayed(wq, k), k) /\ dropped' = dropped
  <2>1. /\ wq'.dirty = wq.dirty /\ wq'.waiting = wq.waiting \cup {k}
    BY <1>1, <1>2, QueueContents
  <2> QED
    BY <1>1, <1>2, <2>1 DEF Pending, FailItem
<1>3. CASE wq' = Finished(Forgotten(wq, k), k) /\ dropped' = dropped \cup {k}
  <2>1. /\ wq'.dirty = wq.dirty /\ wq'.waiting = wq.waiting
    BY <1>1, <1>3, QueueContents
  <2> QED
    BY <1>1, <1>3, <2>1 DEF Pending, FailItem
<1> QED
  BY <1>2, <1>3 DEF FailItem

\* The key in process is pending.
LEMMA InProcessIsPending ==
    ASSUME IInv, worker.pc # "idle"
    PROVE  Pending(worker.key)
BY DEF IInv, QueueOK, WorkIsQueuedOnce, Pending

\* A failed visit backs off or puts the key in the queue again: it stays pending.
LEMMA FailKeepsSync ==
    ASSUME IInv, SyncInv, up, worker.pc # "idle", FailItem, UNCHANGED <<svcs, events, up>>,
           \A t \in Service : t # worker.key => shadows'[t] = shadows[t]
    PROVE  SyncInv'
<1>1. /\ worker'.pc = "idle"
      /\ \A t \in Service : Pending(t) \/ t = worker.key => Pending(t)'
  BY FailKeepsPending DEF IdleWorker
<1>2. ASSUME NEW t \in Service, NeedsSync(t)' PROVE Pending(t)'
  <2>1. t = worker.key \/ NeedsSync(t)
    BY <1>2 DEF NeedsSync, InStep
  <2> QED
    BY <1>1, <2>1 DEF SyncInv, OutOfStepIsPending
<1> QED
  BY <1>1, <1>2 DEF SyncInv, StoppedIsEmpty, OutOfStepIsPending, PortsSoFar, HeldIsCurrent

\* A visit that ends without an error leaves what is out of step pending.
LEMMA SyncedKeepsSync ==
    ASSUME IInv, SyncInv, up, worker.pc # "idle", NEW s \in Service, s = worker.key,
           Synced, UNCHANGED <<svcs, events, up>>,
           \A t \in Service : t # s => shadows'[t] = shadows[t],
           NeedsSync(s)' => Elsewhere(s)
    PROVE  SyncInv'
<1>1. worker'.pc = "build" /\ worker'.key = worker.key
  BY DEF Synced, IdleWorker
<1>2. \A t \in Service : Pending(t)' = Pending(t) /\ Elsewhere(t)' = Elsewhere(t)
  BY SamePending DEF Synced
<1>3. ASSUME NEW t \in Service, NeedsSync(t)' PROVE Pending(t)'
  <2>1. t = worker.key \/ NeedsSync(t)
    BY <1>3 DEF NeedsSync, InStep
  <2> QED
    BY <1>2, <2>1, InProcessIsPending DEF SyncInv, OutOfStepIsPending
<1>4. HeldIsCurrent'
  BY <1>1, <1>2 DEF HeldIsCurrent
<1> QED
  BY <1>1, <1>3, <1>4 DEF SyncInv, StoppedIsEmpty, OutOfStepIsPending, PortsSoFar

\* The visit goes on with what was read.
LEMMA VisitKeepsSync ==
    ASSUME IInv, SyncInv, up, worker.pc # "idle", worker.key \in Service,
           UNCHANGED <<svcs, events, up, shadows, wq, dropped>>,
           worker'.key = worker.key, worker'.pc \in {"shadow", "ports", "delete"},
           \/ worker'.version = svcs[worker.key]
           \/ /\ worker'.version = worker.version
              /\ worker.pc \in {"shadow", "ports", "delete"},
           worker'.pc = "delete" => worker'.version = Absent,
           PortsSoFar'
    PROVE  SyncInv'
<1>1. \A t \in Service : Pending(t)' = Pending(t) /\ Elsewhere(t)' = Elsewhere(t)
  BY SamePending
<1>2. \A t \in Service : NeedsSync(t)' = NeedsSync(t)
  BY DEF NeedsSync, InStep
<1>3. HeldIsCurrent'
  BY <1>1 DEF SyncInv, HeldIsCurrent
<1> QED
  BY <1>1, <1>2, <1>3 DEF SyncInv, StoppedIsEmpty, OutOfStepIsPending

\* Only a running process has a worker that takes steps.
LEMMA WorkerRuns ==
    ASSUME StoppedIsEmpty, WorkerStep
    PROVE  up
<1> SUFFICES ASSUME ~up PROVE FALSE
  OBVIOUS
<1>1. worker.pc = "idle" /\ ~CanGet(wq)
  BY DEF StoppedIsEmpty, IdleWorker, EmptyQueue, CanGet
<1> QED
  BY <1>1 DEF WorkerStep, GetKey, ReadService, StartCreateOrUpdate, SkipUnsuitablePort,
     MapHTTPPort, MapTCPPort, MapUDPPort, MappingPorts, WriteShadow, StartDelete,
     DeleteShadow, BuildConfig

--------------------------------------------------------------------------------
(* Every action keeps the invariant                                             *)

\* Creations, updates, deletions, handlers, timers and the lister.
LEMMA EnvironmentKeepsSync ==
    ASSUME IInv, SyncInv, EnvironmentStep
    PROVE  SyncInv'
<1>1. /\ UNCHANGED <<worker, shadows, up>>
      /\ \A t \in Service : /\ Elsewhere(t) => Elsewhere(t)'
                            /\ Pending(t) => Pending(t)'
      /\ \A t \in Service :
           \/ svcs'[t] = svcs[t]
           \/ (up /\ Notified(svcs[t], svcs'[t]) => Elsewhere(t)')
           \/ (Tombstones /\ svcs'[t] = Absent)
  BY EnvironmentLosesNothing
<1>2. \A t \in Service : up /\ Watched(svcs'[t]) => svcs'[t] = svcs[t] \/ Elsewhere(t)'
  BY <1>1 DEF Watched, Notified
<1>3. ASSUME NEW t \in Service, up, NeedsSync(t)' PROVE NeedsSync(t) \/ Elsewhere(t)'
  BY <1>1, <1>2, <1>3 DEF NeedsSync, InStep
<1>4. \A t \in Service : Elsewhere(t)' => Pending(t)'
  BY DEF Elsewhere, Pending, InEvents
<1>5. OutOfStepIsPending'
  BY <1>1, <1>3, <1>4 DEF SyncInv, OutOfStepIsPending
<1>6. PortsSoFar'
  BY <1>1 DEF SyncInv, PortsSoFar
<1>7. up' => HeldIsCurrent'
  <2> SUFFICES ASSUME up PROVE HeldIsCurrent'
    BY <1>1
  <2> DEFINE k == worker.key
  <2>1. worker.pc \in {"shadow", "ports", "delete"} => k \in Service
    BY DEF IInv, WorkerOK
  <2>2. worker.pc = "build" /\ k # RefreshKey => k \in Service
    BY KeysAndClaims DEF IInv, WorkerOK, WorkerStates
  <2>3. worker.pc \in {"shadow", "ports", "delete"} =>
            (Watched(svcs'[k]) => worker.version = svcs'[k] \/ Elsewhere(k)')
    BY <1>1, <1>2, <2>1 DEF SyncInv, HeldIsCurrent
  <2>4. worker.pc = "build" /\ k # RefreshKey => (NeedsSync(k)' => Elsewhere(k)')
    BY <1>1, <1>3, <2>2 DEF SyncInv, HeldIsCurrent
  <2>5. worker.pc = "delete" => worker.version = Absent
    BY DEF SyncInv, HeldIsCurrent
  <2> QED
    BY <1>1, <2>3, <2>4, <2>5 DEF HeldIsCurrent
<1>8. StoppedIsEmpty'
  <2> SUFFICES ASSUME ~up PROVE events' = << >> /\ wq' = EmptyQueue /\ worker' = IdleWorker
    BY <1>1 DEF StoppedIsEmpty
  <2>1. events = << >> /\ wq = EmptyQueue /\ worker = IdleWorker
    BY DEF SyncInv, StoppedIsEmpty
  <2>2. wq.waiting = {}
    BY <2>1 DEF EmptyQueue
  <2> QED
    BY <2>1, <2>2 DEF EnvironmentStep, ChangeService, DeleteUnseen, ListerCatchesUp,
       HandleEvent, OtherResourceEvent, DelayExpires
<1> QED
  BY <1>5, <1>6, <1>7, <1>8 DEF SyncInv

\* The worker takes a key: what was pending in the queue is now in process.
LEMMA GetKeyKeepsSync ==
    ASSUME IInv, SyncInv, up, GetKey
    PROVE  SyncInv'
<1> DEFINE k == Head(wq.queue)
<1>1. wq \in WorkQueues
  BY DEF IInv, QueueOK
<1>2. /\ wq'.dirty = wq.dirty \ {k} /\ wq'.waiting = wq.waiting
      /\ wq'.processing = wq.processing \cup {k} /\ dropped' = dropped \ {k}
  BY <1>1 DEF GetKey, Taken, WorkQueues
<1>3. UNCHANGED <<events, svcs, shadows, up>>
  BY DEF GetKey, clusterVars
<1>4. \A t \in Service : Pending(t) => Pending(t)'
  BY <1>2, <1>3 DEF Pending
<1>5. /\ worker'.pc \in {"build", "sync"}
      /\ worker'.pc = "build" => worker'.key = RefreshKey
  <2> HIDE DEF k
  <2>1. worker' = [IdleWorker EXCEPT !.key = k,
                       !.pc = IF k = RefreshKey THEN "build" ELSE "sync"]
    BY DEF GetKey, k
  <2> QED
    BY <2>1 DEF IdleWorker
<1>6. \A t \in Service : NeedsSync(t)' = NeedsSync(t)
  BY <1>3 DEF NeedsSync, InStep
<1> QED
  BY <1>3, <1>4, <1>5, <1>6
     DEF SyncInv, StoppedIsEmpty, OutOfStepIsPending, PortsSoFar, HeldIsCurrent

\* The lister may lag behind, but then an event of the service is on its way.
LEMMA ReadServiceKeepsSync ==
    ASSUME IInv, SyncInv, up, ReadService
    PROVE  SyncInv'
<1>1. worker.key \in Service /\ worker.pc # "idle" /\ worker \in WorkerStates
  BY DEF IInv, WorkerOK, ReadService
<1>2. /\ worker'.pc = "shadow" /\ worker'.key = worker.key
      /\ worker'.version = svcs[worker.key]
  BY <1>1 DEF ReadService, WorkerStates
<1> QED
  BY <1>1, <1>2, VisitKeepsSync DEF ReadService, clusterVars, PortsSoFar

\* The worker reads the shadow service, before it collects ports.
LEMMA StartCreateOrUpdateKeepsSync ==
    ASSUME IInv, SyncInv, up, StartCreateOrUpdate
    PROVE  SyncInv'
<1>1. /\ worker.key \in Service /\ worker.pc = "shadow" /\ worker \in WorkerStates
      /\ worker.ports = {} /\ worker.next = 1 /\ worker.version \in ServiceVersion
  BY DEF IInv, WorkerOK, WorkerStates, StartCreateOrUpdate
<1>2. UNCHANGED <<svcs, events, up, shadows>>
  BY DEF StartCreateOrUpdate, clusterVars
<1>3. CASE FailItem
  BY <1>1, <1>2, <1>3, FailKeepsSync
<1>4. ASSUME NEW old, NEW fresh,
             worker' = [worker EXCEPT !.pc = "ports", !.old = old, !.fresh = fresh],
             UNCHANGED <<wq, dropped>>
      PROVE  SyncInv'
  <2>1. /\ worker'.pc = "ports" /\ worker'.key = worker.key
        /\ worker'.version = worker.version /\ worker'.ports = {} /\ worker'.next = 1
    BY <1>1, <1>4 DEF WorkerStates
  <2>2. PortsSoFar'
    BY <2>1 DEF PortsSoFar, Fits, HasHTTPPorts
  <2> QED
    BY <1>1, <1>2, <1>4, <2>1, <2>2, VisitKeepsSync
<1> QED
  BY <1>3, <1>4 DEF StartCreateOrUpdate

\* One iteration over the ports: a port is left out that an HTTP service does not need,
\* or one is collected with a target of its table.
LEMMA IterationKeepsSync ==
    ASSUME IInv, SyncInv, up, NEW type, MappingPorts(type),
           UNCHANGED <<svcs, events, up, shadows, wq, dropped>>,
           \/ /\ SkipPort
              /\ ~(type = "http" /\ Suitable(type, NextPort)
                    /\ HTTPPort(worker.next) <= MaxHTTPPort)
           \/ /\ Suitable(type, NextPort)
              /\ type = "http" => HTTPPort(worker.next) <= MaxHTTPPort
              /\ \E target \in TargetRange(type) :
                    /\ type = "http" => target = HTTPPort(worker.next)
                    /\ KeepPort(NextPort, target)
    PROVE  SyncInv'
<1> DEFINE v == worker.version
           n == worker.next
           sp == v.ports[n]
<1>1. /\ worker \in WorkerStates /\ worker.pc = "ports" /\ worker.key \in Service
      /\ v \in ServiceVersion /\ n \in Nat \ {0} /\ n <= Len(v.ports) /\ v.type = type
      /\ Fits(worker.ports, v) /\ HasHTTPPorts(worker.ports, v, n)
  BY DEF IInv, WorkerOK, WorkerStates, MappingPorts, SyncInv, PortsSoFar
<1>2. Len(v.ports) \in Nat /\ sp \in ServicePort
  BY <1>1, VersionPorts
<1>3. CASE SkipPort /\ ~(type = "http" /\ Suitable(type, sp) /\ HTTPPort(n) <= MaxHTTPPort)
  <2>1. /\ worker'.pc = "ports" /\ worker'.key = worker.key /\ worker'.version = v
        /\ worker'.ports = worker.ports /\ worker'.next = n + 1
    BY <1>1, <1>3 DEF SkipPort, WorkerStates
  <2>2. HasHTTPPorts(worker.ports, v, n + 1)
    BY <1>1, <1>2, <1>3 DEF HasHTTPPorts
  <2>3. PortsSoFar'
    BY <1>1, <2>1, <2>2 DEF PortsSoFar, Fits, HasHTTPPorts
  <2> QED
    BY <1>1, <2>1, <2>3, VisitKeepsSync
<1>4. ASSUME NEW target \in TargetRange(type), KeepPort(sp, target), Suitable(type, sp),
             type = "http" => HTTPPort(n) <= MaxHTTPPort /\ target = HTTPPort(n)
      PROVE  SyncInv'
  <2> DEFINE new == [port |-> sp.port, proto |-> sp.proto, target |-> target]
             all == worker.ports \cup {new}
  <2>1. worker' = [worker EXCEPT !.next = n + 1, !.ports = all]
    BY <1>4 DEF KeepPort
  <2>2. /\ worker'.pc = "ports" /\ worker'.key = worker.key /\ worker'.version = v
        /\ worker'.ports = all /\ worker'.next = n + 1
    <3> HIDE DEF all
    <3> QED
      BY <1>1, <2>1 DEF WorkerStates
  <2>3. PortOf(new) = sp /\ new.target = target
    BY <1>2 DEF PortOf, ServicePort
  <2>4. sp \in WantedPorts(v)
    BY <1>1, <1>2, <1>4 DEF WantedPorts
  <2>5. Fits(all, v)
    <3>1. type = "http" => HasHTTPTarget(new, v)
      BY <1>1, <1>2, <1>4, <2>3 DEF HasHTTPTarget
    <3> QED
      BY <1>1, <1>4, <2>3, <2>4, <3>1 DEF Fits
  <2>6. HasHTTPPorts(all, v, n + 1)
    BY <1>1, <1>2, <2>3 DEF HasHTTPPorts
  <2>7. PortsSoFar'
    <3> HIDE DEF all
    <3> QED
      BY <2>2, <2>5, <2>6 DEF PortsSoFar, Fits, HasHTTPPorts
  <2> QED
    BY <1>1, <2>2, <2>7, VisitKeepsSync
<1> QED
  BY <1>3, <1>4 DEF NextPort

\* A port that the traffic type of the service does not take.
LEMMA SkipUnsuitablePortKeepsSync ==
    ASSUME IInv, SyncInv, up, SkipUnsuitablePort
    PROVE  SyncInv'
BY IterationKeepsSync DEF SkipUnsuitablePort, clusterVars

\* HTTP ports get the target port of their index.
LEMMA MapHTTPPortKeepsSync ==
    ASSUME IInv, SyncInv, up, MapHTTPPort
    PROVE  SyncInv'
<1>1. worker.next \in Nat \ {0}
  BY DEF IInv, WorkerOK, WorkerStates
<1>2. MappingPorts("http") /\ Suitable("http", NextPort)
  BY DEF MapHTTPPort
<1>3. UNCHANGED <<svcs, events, up, shadows, wq, dropped>>
  BY DEF MapHTTPPort, clusterVars
<1>4. CASE HTTPPort(worker.next) > MaxHTTPPort /\ SkipPort
  <2>1. ~(HTTPPort(worker.next) <= MaxHTTPPort)
    BY <1>1, <1>4, RangeAssumption DEF HTTPPort
  <2> QED
    BY <1>2, <1>3, <1>4, <2>1, IterationKeepsSync
<1>5. CASE ~(HTTPPort(worker.next) > MaxHTTPPort) /\ KeepPort(NextPort, HTTPPort(worker.next))
  <2>1. /\ HTTPPort(worker.next) <= MaxHTTPPort
        /\ HTTPPort(worker.next) \in TargetRange("http")
    BY <1>1, <1>5, RangeAssumption DEF HTTPPort, TargetRange, HTTPPorts
  <2> QED
    BY <1>2, <1>3, <1>5, <2>1, IterationKeepsSync
<1> QED
  BY <1>4, <1>5 DEF MapHTTPPort

\* One TCP or UDP port of a service is mapped, or left out of a full table.
LEMMA MapTablePortKeepsSync ==
    ASSUME IInv, SyncInv, up, NEW type \in {"tcp", "udp"}, MappingPorts(type),
           Suitable(type, NextPort), UNCHANGED <<svcs, events, up, shadows, wq, dropped>>,
           NEW table \in Tables(TargetRange(type)), NEW newTable,
           MapTablePort(table, newTable)
    PROVE  SyncInv'
<1> DEFINE claim == <<worker.key, NextPort.port>>
<1>1. TargetRange(type) \in SUBSET Nat
  BY RangesAreNaturals DEF TargetRange
<1>2. type # "http"
  OBVIOUS
<1>3. CASE SkipPort
  BY <1>2, <1>3, IterationKeepsSync
<1>4. CASE IsMapped(table, claim) /\ KeepPort(NextPort, Find(table, claim))
  <2>1. Find(table, claim) \in TargetRange(type)
    BY <1>4, FindReturnsHolder
  <2> QED
    BY <1>2, <1>4, <2>1, IterationKeepsSync
<1>5. CASE CanAdd(table) /\ KeepPort(NextPort, FirstAvailable(table))
  <2>1. FirstAvailable(table) \in TargetRange(type)
    BY <1>1, <1>5, FirstAvailableIsFree
  <2> QED
    BY <1>2, <1>5, <2>1, IterationKeepsSync
<1> QED
  BY <1>3, <1>4, <1>5 DEF MapTablePort

\* The TCP and UDP steps of the loop over the ports.
LEMMA MapTablePortsKeepSync ==
    ASSUME IInv, SyncInv, up, MapTCPPort \/ MapUDPPort
    PROVE  SyncInv'
<1>1. /\ TargetRange("tcp") = TCPPorts /\ TargetRange("udp") = UDPPorts
      /\ tcp \in Tables(TCPPorts) /\ udp \in Tables(UDPPorts)
  BY DEF TargetRange, IInv, TablesOK
<1>2. CASE MapTCPPort
  BY <1>1, <1>2, MapTablePortKeepsSync DEF MapTCPPort, clusterVars
<1>3. CASE MapUDPPort
  BY <1>1, <1>3, MapTablePortKeepsSync DEF MapUDPPort, clusterVars
<1> QED
  BY <1>2, <1>3

\* The write is the point where what was read becomes what is stored.
LEMMA WriteShadowKeepsSync ==
    ASSUME IInv, SyncInv, up, WriteShadow
    PROVE  SyncInv'
<1> PICK s : s = worker.key
  OBVIOUS
<1>1. /\ s \in Service /\ worker.pc = "ports" /\ worker \in WorkerStates
      /\ worker.version \in ServiceVersion
  BY DEF IInv, WorkerOK, WriteShadow
<1>2. UNCHANGED <<svcs, events, up>>
  BY DEF WriteShadow
<1>3. \A t \in Service : t # s => shadows'[t] = shadows[t]
  BY DEF IInv, ShadowsOK, WriteShadow, CallFaults, ShadowWritten
<1>4. CASE FailItem
  BY <1>1, <1>2, <1>3, <1>4, FailKeepsSync
<1>5. CASE WriteAccepted /\ ShadowWritten(s, worker.ports) /\ Synced
  <2>1. shadows'[s] = worker.ports /\ worker.ports # {}
    BY <1>1, <1>5 DEF IInv, ShadowsOK, ShadowWritten, WriteAccepted
  <2>2. Fits(worker.ports, worker.version)
    BY <1>1 DEF SyncInv, PortsSoFar
  <2>3. HasHTTPPorts(worker.ports, worker.version, Len(worker.version.ports) + 1)
    <3>1. HasHTTPPorts(worker.ports, worker.version, worker.next)
      BY <1>1 DEF SyncInv, PortsSoFar
    <3>2. /\ Len(worker.version.ports) \in Nat /\ worker.next \in Nat
          /\ worker.next > Len(worker.version.ports)
      BY <1>1, VersionPorts DEF WorkerStates, WriteShadow
    <3> QED
      BY <3>1, <3>2 DEF HasHTTPPorts
  <2>4. Watched(svcs[s]) => worker.version = svcs[s] \/ Elsewhere(s)
    BY <1>1 DEF SyncInv, HeldIsCurrent
  <2>5. worker.version = svcs[s] => InStep(s)'
    BY <1>2, <2>1, <2>2, <2>3 DEF InStep, NoShadow
  <2>6. NeedsSync(s)' => Elsewhere(s)
    BY <1>2, <2>4, <2>5 DEF NeedsSync
  <2> QED
    BY <1>1, <1>2, <1>3, <1>5, <2>6, SyncedKeepsSync
<1> QED
  BY <1>4, <1>5 DEF WriteShadow, CallFaults

\* The worker finds the shadow service of a service it did not find.
LEMMA StartDeleteKeepsSync ==
    ASSUME IInv, SyncInv, up, StartDelete
    PROVE  SyncInv'
<1> PICK s : s = worker.key
  OBVIOUS
<1>1. /\ s \in Service /\ worker.pc = "shadow" /\ worker \in WorkerStates
      /\ worker.version = Absent
  BY DEF IInv, WorkerOK, StartDelete
<1>2. UNCHANGED <<svcs, events, up, shadows>>
  BY DEF StartDelete, clusterVars
<1>3. Watched(svcs[s]) => Elsewhere(s)
  BY <1>1 DEF SyncInv, HeldIsCurrent, Watched
<1>4. CASE Synced
  BY <1>1, <1>2, <1>3, <1>4, SyncedKeepsSync DEF NeedsSync
<1>5. CASE worker' = [worker EXCEPT !.pc = "delete"] /\ UNCHANGED <<wq, dropped>>
  <2>1. /\ worker'.pc = "delete" /\ worker'.key = worker.key
        /\ worker'.version = worker.version
    BY <1>1, <1>5 DEF WorkerStates
  <2> QED
    BY <1>1, <1>2, <1>5, <2>1, VisitKeepsSync DEF PortsSoFar
<1> QED
  BY <1>4, <1>5 DEF StartDelete

\* The shadow service is deleted; a service created meanwhile is pending.
LEMMA DeleteShadowKeepsSync ==
    ASSUME IInv, SyncInv, up, DeleteShadow
    PROVE  SyncInv'
<1> PICK s : s = worker.key
  OBVIOUS
<1>1. s \in Service /\ worker.pc = "delete"
  BY DEF IInv, WorkerOK, DeleteShadow
<1>2. UNCHANGED <<svcs, events, up>>
  BY DEF DeleteShadow
<1>3. \A t \in Service : t # s => shadows'[t] = shadows[t]
  BY DEF IInv, ShadowsOK, DeleteShadow, CallFaults, ShadowWritten
<1>4. Watched(svcs[s]) => Elsewhere(s)
  BY <1>1 DEF SyncInv, HeldIsCurrent, Watched
<1>5. CASE FailItem
  BY <1>1, <1>2, <1>3, <1>5, FailKeepsSync
<1>6. CASE Synced
  BY <1>1, <1>2, <1>3, <1>4, <1>6, SyncedKeepsSync DEF NeedsSync
<1> QED
  BY <1>5, <1>6 DEF DeleteShadow, CallFaults

\* The visit ends: its key is no longer in process.
LEMMA BuildConfigKeepsSync ==
    ASSUME IInv, SyncInv, up, BuildConfig
    PROVE  SyncInv'
<1> DEFINE k == worker.key
<1>1. /\ k \in Key /\ wq \in WorkQueues /\ wq.processing = {k} /\ worker.pc = "build"
  BY DEF IInv, QueueOK, WorkIsQueuedOnce, WorkerOK, WorkerStates, BuildConfig
<1>2. wq'.dirty = wq.dirty /\ wq'.waiting = wq.waiting
  BY <1>1, QueueContents DEF BuildConfig
<1>3. UNCHANGED <<events, svcs, shadows, up, dropped>> /\ worker'.pc = "idle"
  BY DEF BuildConfig, clusterVars, IdleWorker
<1>4. ASSUME NEW t \in Service, NeedsSync(t)' PROVE Pending(t)'
  <2>1. NeedsSync(t)
    BY <1>3, <1>4 DEF NeedsSync, InStep
  <2>2. CASE t = k
    <3>1. Elsewhere(t)
      BY <1>1, <2>1, <2>2, NameAssumption DEF SyncInv, HeldIsCurrent
    <3> QED
      BY <1>2, <1>3, <3>1 DEF Elsewhere, InEvents, Pending
  <2>3. CASE t # k
    <3>1. Pending(t)
      BY <2>1 DEF SyncInv, OutOfStepIsPending
    <3> QED
      BY <1>1, <1>2, <1>3, <2>3, <3>1 DEF Pending
  <2> QED
    BY <2>2, <2>3
<1> QED
  BY <1>3, <1>4 DEF SyncInv, StoppedIsEmpty, OutOfStepIsPending, PortsSoFar, HeldIsCurrent

\* After a crash nothing runs, until Start reports every service.
LEMMA CrashKeepsSync ==
    ASSUME IInv, SyncInv, Crash
    PROVE  SyncInv'
<1>1. /\ ~up' /\ events' = << >> /\ wq' = EmptyQueue /\ worker' = IdleWorker
      /\ worker'.pc = "idle"
  BY DEF Crash, IdleWorker
<1> QED
  BY <1>1 DEF SyncInv, StoppedIsEmpty, OutOfStepIsPending, PortsSoFar

\* An ordering reports every service.
LEMMA OrderingsReportAll ==
    ASSUME NEW S \in SUBSET Service, NEW q \in Orderings(S), NEW t \in S
    PROVE  \E i \in 1 .. Len(q) : q[i] = t
<1> DEFINE n == Cardinality(S)
<1>1. IsFiniteSet(S) /\ n \in Nat
  BY FS_Subset, NameAssumption, FS_CardinalityType
<1>2. q \in [1 .. n -> S] /\ \A i, j \in 1 .. n : q[i] = q[j] => i = j
  BY DEF Orderings
<1> HIDE DEF n
<1>3. IsFiniteSet(1 .. n) /\ Cardinality(1 .. n) = n
  BY <1>1, FS_Interval
<1>4. q \in Surjection(1 .. n, S)
  <2>1. q \in Injection(1 .. n, S)
    BY <1>2 DEF Injection, IsInjective
  <2> QED
    BY <1>1, <1>3, <2>1, FS_Injection DEF n
<1>5. \E i \in 1 .. n : q[i] = t
  BY <1>4 DEF Surjection
<1>6. Len(q) = n
  BY <1>1, <1>2
<1> QED
  BY <1>5, <1>6

\* At start every service that is watched is reported by an event.
LEMMA StartKeepsSync ==
    ASSUME IInv, SyncInv, Start
    PROVE  SyncInv'
<1> DEFINE watched == {s \in Service : Watched(svcs[s])}
<1>1. /\ up' /\ ~up /\ events' \in Orderings(watched)
      /\ UNCHANGED <<svcs, shadows, wq, worker, dropped>>
  BY DEF Start, clusterVars
<1>2. worker.pc = "idle"
  BY <1>1 DEF SyncInv, StoppedIsEmpty, IdleWorker
<1>3. ASSUME NEW t \in Service, NeedsSync(t)' PROVE Pending(t)'
  <2>1. t \in watched
    BY <1>1, <1>3 DEF NeedsSync
  <2> HIDE DEF watched
  <2>2. \E i \in 1 .. Len(events') : events'[i] = t
    BY <1>1, <2>1, OrderingsReportAll DEF watched
  <2> QED
    BY <2>2 DEF Pending
<1> QED
  BY <1>1, <1>2, <1>3
     DEF SyncInv, StoppedIsEmpty, OutOfStepIsPending, PortsSoFar, HeldIsCurrent

\* Nothing runs at first.
LEMMA SyncInitially == Init => SyncInv
BY DEF Init, SyncInv, StoppedIsEmpty, OutOfStepIsPending, PortsSoFar, IdleWorker

\* Every step keeps the invariant.
LEMMA SyncPreserved == IInv /\ SyncInv /\ [Next]_vars => SyncInv'
<1> SUFFICES ASSUME IInv, SyncInv, [Next]_vars PROVE SyncInv'
  OBVIOUS
<1>1. CASE UNCHANGED vars
  <2>1. /\ UNCHANGED <<svcs, events, shadows, up, wq, worker, dropped>>
    BY <1>1 DEF vars
  <2> QED
    BY <2>1 DEF SyncInv, StoppedIsEmpty, OutOfStepIsPending, PortsSoFar, HeldIsCurrent,
       NeedsSync, InStep, Pending, Elsewhere, InEvents
<1>2. CASE EnvironmentStep
  BY <1>2, EnvironmentKeepsSync
<1>3. CASE WorkerStep
  <2>1. up
    BY <1>3, WorkerRuns DEF SyncInv
  <2>2. CASE GetKey \/ ReadService \/ StartCreateOrUpdate
    BY <2>1, <2>2, GetKeyKeepsSync, ReadServiceKeepsSync, StartCreateOrUpdateKeepsSync
  <2>3. CASE SkipUnsuitablePort \/ MapHTTPPort \/ MapTCPPort \/ MapUDPPort
    BY <2>1, <2>3, SkipUnsuitablePortKeepsSync, MapHTTPPortKeepsSync, MapTablePortsKeepSync
  <2>4. CASE WriteShadow \/ StartDelete \/ DeleteShadow \/ BuildConfig
    BY <2>1, <2>4, WriteShadowKeepsSync, StartDeleteKeepsSync, DeleteShadowKeepsSync,
       BuildConfigKeepsSync
  <2> QED
    BY <1>3, <2>2, <2>3, <2>4 DEF WorkerStep
<1>4. CASE Crash \/ Start
  BY <1>4, CrashKeepsSync, StartKeepsSync
<1> QED
  BY <1>1, <1>2, <1>3, <1>4 DEF Next, EnvironmentStep

\* SyncInv is an invariant, by induction with the type invariant of Controller.
LEMMA SyncAlways == Spec => []SyncInv
<1>1. Spec => []IInv
  BY IInvAlways
<1> QED
  BY <1>1, SyncInitially, SyncPreserved, PTL DEF Spec

--------------------------------------------------------------------------------
(* The theorems                                                                 *)

\* A watched service whose shadow service is missing, has ports of another version or
\* in another table, or has an HTTP port without its entry point, will be visited or was
\* given up: through changes while its key is in process, stale reads, failed calls,
\* retries and restarts.
THEOREM NothingOutOfStepIsForgotten == Spec => []OutOfStepIsPending
<1>1. SyncInv => OutOfStepIsPending
  BY DEF SyncInv
<1> QED
  BY <1>1, SyncAlways, PTL

\* Full tables leave out ports of a version, which getShadowServicePorts only logs; a
\* version with one port for a table has all its ports or none.
OnePortPerTable ==
    \A v \in ServiceVersion : v.type # "http" =>
        \A p, q \in WantedPorts(v) : p = q

\* With such versions NoServiceForgotten holds without a restriction: the only ports a
\* shadow service of a watched service can lack are those that did not fit in a table.
THEOREM ServicesAreNotForgotten ==
    ASSUME OnePortPerTable
    PROVE  Spec => []NoServiceForgotten
<1>1. ASSUME IInv, NEW s \in Service, Watched(svcs[s]), InStep(s) PROVE Served(s)
  <2> DEFINE v == svcs[s]
             listed == {[port |-> p.port, proto |-> p.proto] : p \in shadows[s]}
  <2>1. v \in ServiceVersion /\ Len(v.ports) \in Nat
    BY <1>1, VersionPorts DEF IInv, InputsOK, Watched
  <2>2. shadows[s] # {} /\ Fits(shadows[s], v) /\ HasHTTPPorts(shadows[s], v, Len(v.ports) + 1)
    BY <1>1 DEF InStep, NoShadow
  <2>3. listed \subseteq WantedPorts(v) /\ listed # {}
    BY <2>2 DEF Fits, PortOf
  <2>4. CASE v.type = "http"
    <3>1. ASSUME NEW w \in WantedPorts(v) PROVE w \in listed
      <4>1. PICK i \in 1 .. Len(v.ports) :
                w = v.ports[i] /\ Suitable("http", w) /\ HTTPPort(i) <= MaxHTTPPort
        BY <2>4 DEF WantedPorts
      <4>2. \E p \in shadows[s] : PortOf(p) = w
        BY <2>1, <2>2, <2>4, <4>1 DEF HasHTTPPorts
      <4> QED
        BY <4>2 DEF PortOf
    <3> QED
      BY <2>2, <2>3, <3>1 DEF Served, Fits, NoShadow
  <2>5. CASE v.type # "http"
    <3>1. listed = WantedPorts(v)
      BY <2>1, <2>3, <2>5 DEF OnePortPerTable
    <3> QED
      BY <2>2, <3>1 DEF Served, Fits, NoShadow
  <2> QED
    BY <2>4, <2>5
<1>2. IInv /\ SyncInv => NoServiceForgotten
  BY <1>1 DEF SyncInv, OutOfStepIsPending, NeedsSync, NoServiceForgotten
<1> QED
  BY <1>2, IInvAlways, SyncAlways, PTL

--------------------------------------------------------------------------------
(* Shadow services of deleted services                                          *)

\* The lister is current, and no deletion goes unnoticed: not because the watch missed
\* it, nor because the process was down, nor because the filter ignored the service.
DeletionsAreSeen ==
    /\ ~ListerLag /\ ~Tombstones /\ MaxCrashes = 0
    /\ \A v \in ServiceVersion : v.watched

NeedsDelete(s) == svcs[s] = Absent /\ shadows[s] # NoShadow

ListerIsCurrent ==
    /\ shadowCache = shadows
    /\ \A s \in Service : shadowWatch[s] = << >>

NothingBeforeStart == ~up => \A s \in Service : shadows[s] = NoShadow

\* What the worker has read is a deletion, or the service is visited again.
HeldIsDeleted ==
    /\ worker.pc \in {"shadow", "ports"} =>
        (svcs[worker.key] = Absent => worker.version = Absent \/ Elsewhere(worker.key))
    /\ worker.pc = "build" /\ worker.key # RefreshKey =>
        (NeedsDelete(worker.key) => Elsewhere(worker.key))

DeleteInv ==
    /\ ListerIsCurrent /\ NothingBeforeStart /\ NoShadowForgotten
    /\ up => HeldIsDeleted

\* A write is in the lister at once.
LEMMA WriteKeepsListerCurrent ==
    ASSUME ~ListerLag, IInv, ListerIsCurrent, NEW s \in Service, NEW new,
           ShadowWritten(s, new)
    PROVE  ListerIsCurrent'
<1>1. shadows \in [Service -> SUBSET ShadowPort]
  BY DEF IInv, ShadowsOK
<1>2. shadowWatch' = shadowWatch
  BY DEF ShadowWritten
<1>3. CASE new = shadows[s]
  <2>1. shadows' = shadows /\ shadowCache' = shadowCache
    BY <1>1, <1>3 DEF ShadowWritten
  <2> QED
    BY <1>2, <2>1 DEF ListerIsCurrent
<1>4. CASE new # shadows[s]
  <2>1. shadowCache' = [shadowCache EXCEPT ![s] = new] /\ shadows' = [shadows EXCEPT ![s] = new]
    BY <1>4 DEF ShadowWritten
  <2> QED
    BY <1>2, <2>1 DEF ListerIsCurrent
<1> QED
  BY <1>3, <1>4

\* Creations, updates, deletions, handlers, timers and the lister.
LEMMA EnvironmentKeepsDelete ==
    ASSUME DeletionsAreSeen, IInv, DeleteInv, EnvironmentStep
    PROVE  DeleteInv'
<1>1. /\ UNCHANGED <<worker, shadows, up>>
      /\ \A t \in Service : /\ Elsewhere(t) => Elsewhere(t)'
                            /\ Pending(t) => Pending(t)'
      /\ \A t \in Service :
           \/ svcs'[t] = svcs[t]
           \/ (up /\ Notified(svcs[t], svcs'[t]) => Elsewhere(t)')
  BY EnvironmentLosesNothing DEF DeletionsAreSeen
<1>2. ASSUME NEW t \in Service, up, svcs'[t] = Absent
      PROVE  svcs[t] = Absent \/ Elsewhere(t)'
  <2>1. svcs[t] \in ServiceVersion \cup {Absent}
    BY DEF IInv, InputsOK
  <2>2. svcs[t] # Absent => Watched(svcs[t])
    BY <2>1 DEF DeletionsAreSeen, Watched
  <2> QED
    BY <1>1, <1>2, <2>2 DEF Notified
<1>3. \A t \in Service : up /\ NeedsDelete(t)' => NeedsDelete(t) \/ Elsewhere(t)'
  BY <1>1, <1>2 DEF NeedsDelete
<1>4. \A t \in Service : Elsewhere(t)' => Pending(t)'
  BY DEF Elsewhere, Pending, InEvents
<1>5. NoShadowForgotten'
  <2> SUFFICES ASSUME up, NEW t \in Service, NeedsDelete(t)' PROVE Pending(t)'
    BY <1>1 DEF NoShadowForgotten, NeedsDelete
  <2>1. NeedsDelete(t) => Pending(t)
    BY DEF DeleteInv, NoShadowForgotten, NeedsDelete
  <2> QED
    BY <1>1, <1>3, <1>4, <2>1
<1>6. up' => HeldIsDeleted'
  <2> SUFFICES ASSUME up PROVE HeldIsDeleted'
    BY <1>1
  <2> PICK k : k = worker.key
    OBVIOUS
  <2>1. worker.pc \in {"shadow", "ports"} => k \in Service
    BY DEF IInv, WorkerOK
  <2>2. worker.pc = "build" /\ k # RefreshKey => k \in Service
    BY KeysAndClaims DEF IInv, WorkerOK, WorkerStates
  <2>3. worker.pc \in {"shadow", "ports"} =>
            (svcs'[k] = Absent => worker.version = Absent \/ Elsewhere(k)')
    BY <1>1, <1>2, <2>1 DEF DeleteInv, HeldIsDeleted
  <2>4. worker.pc = "build" /\ k # RefreshKey => (NeedsDelete(k)' => Elsewhere(k)')
    BY <1>1, <1>3, <2>2 DEF DeleteInv, HeldIsDeleted
  <2> QED
    BY <1>1, <2>3, <2>4 DEF HeldIsDeleted
<1>7. UNCHANGED <<shadowCache, shadowWatch>>
  BY DEF DeleteInv, ListerIsCurrent, EnvironmentStep, ChangeService, DeleteUnseen,
     ListerCatchesUp, HandleEvent, OtherResourceEvent, DelayExpires, clusterVars
<1> QED
  BY <1>1, <1>5, <1>6, <1>7 DEF DeleteInv, ListerIsCurrent, NothingBeforeStart

\* A failed visit leaves its key pending.
LEMMA FailKeepsDelete ==
    ASSUME IInv, DeleteInv, up, worker.pc # "idle", FailItem, UNCHANGED <<svcs, events, up>>,
           \A t \in Service : t # worker.key => shadows'[t] = shadows[t], ListerIsCurrent'
    PROVE  DeleteInv'
<1>1. /\ worker'.pc = "idle"
      /\ \A t \in Service : Pending(t) \/ t = worker.key => Pending(t)'
  BY FailKeepsPending DEF IdleWorker
<1>2. NoShadowForgotten'
  BY <1>1 DEF DeleteInv, NoShadowForgotten
<1> QED
  BY <1>1, <1>2 DEF DeleteInv, NothingBeforeStart, HeldIsDeleted

\* A visit that ends without an error.
LEMMA SyncedKeepsDelete ==
    ASSUME IInv, DeleteInv, up, worker.pc # "idle", NEW s \in Service, s = worker.key,
           Synced, UNCHANGED <<svcs, events, up>>,
           \A t \in Service : t # s => shadows'[t] = shadows[t], ListerIsCurrent',
           NeedsDelete(s)' => Elsewhere(s)
    PROVE  DeleteInv'
<1>1. worker'.pc = "build" /\ worker'.key = s
  BY DEF Synced, IdleWorker
<1>2. \A t \in Service : Pending(t)' = Pending(t) /\ Elsewhere(t)' = Elsewhere(t)
  BY SamePending DEF Synced
<1>3. Pending(s)
  BY InProcessIsPending
<1>4. NoShadowForgotten'
  BY <1>2, <1>3 DEF DeleteInv, NoShadowForgotten
<1>5. HeldIsDeleted'
  BY <1>1, <1>2 DEF HeldIsDeleted
<1> QED
  BY <1>4, <1>5 DEF DeleteInv, NothingBeforeStart

\* Steps of a visit that change only the worker.
LEMMA VisitKeepsDelete ==
    ASSUME IInv, DeleteInv, up, worker.pc # "idle", worker.key \in Service,
           UNCHANGED <<svcs, events, up, shadows, shadowCache, shadowWatch, wq, dropped>>,
           worker'.key = worker.key, worker'.pc \in {"shadow", "ports", "delete"},
           \/ worker'.version = svcs[worker.key]
           \/ worker'.version = worker.version /\ worker.pc \in {"shadow", "ports"}
    PROVE  DeleteInv'
<1>1. \A t \in Service : Pending(t)' = Pending(t) /\ Elsewhere(t)' = Elsewhere(t)
  BY SamePending
<1>2. HeldIsDeleted'
  BY <1>1 DEF DeleteInv, HeldIsDeleted
<1>3. NoShadowForgotten'
  BY <1>1 DEF DeleteInv, NoShadowForgotten
<1> QED
  BY <1>2, <1>3 DEF DeleteInv, ListerIsCurrent, NothingBeforeStart

\* The worker takes a key, or forgets the last one.
LEMMA GetKeyKeepsDelete ==
    ASSUME IInv, DeleteInv, up, GetKey
    PROVE  DeleteInv'
<1> PICK k : k = Head(wq.queue)
  OBVIOUS
<1>1. wq \in WorkQueues
  BY DEF IInv, QueueOK
<1>2. /\ wq'.dirty = wq.dirty \ {k} /\ wq'.waiting = wq.waiting
      /\ wq'.processing = wq.processing \cup {k} /\ dropped' = dropped \ {k}
  BY <1>1 DEF GetKey, Taken, WorkQueues
<1>3. UNCHANGED <<events, svcs, shadows, shadowCache, shadowWatch, up>>
  BY DEF GetKey, clusterVars
<1>4. \A t \in Service : Pending(t) => Pending(t)'
  BY <1>2, <1>3 DEF Pending
<1>5. /\ worker'.pc \in {"build", "sync"}
      /\ worker'.pc = "build" => worker'.key = RefreshKey
  BY DEF GetKey, IdleWorker
<1>6. NoShadowForgotten'
  BY <1>3, <1>4 DEF DeleteInv, NoShadowForgotten
<1> QED
  BY <1>3, <1>5, <1>6 DEF DeleteInv, ListerIsCurrent, NothingBeforeStart, HeldIsDeleted

\* The worker reads the service, which the lister knows to be deleted or not.
LEMMA ReadingKeepsDelete ==
    ASSUME IInv, DeleteInv, up, ReadService \/ StartCreateOrUpdate
    PROVE  DeleteInv'
<1>1. worker.key \in Service /\ worker.pc # "idle" /\ worker \in WorkerStates
  BY DEF IInv, WorkerOK, ReadService, StartCreateOrUpdate
<1>2. UNCHANGED <<svcs, events, up, shadows, shadowCache, shadowWatch>>
  BY DEF ReadService, StartCreateOrUpdate, clusterVars
<1>3. CASE ReadService
  <2>1. /\ worker'.pc = "shadow" /\ worker'.key = worker.key
        /\ worker'.version = svcs[worker.key]
    BY <1>1, <1>3 DEF ReadService, WorkerStates
  <2> QED
    BY <1>1, <1>2, <1>3, <2>1, VisitKeepsDelete DEF ReadService
<1>4. CASE FailItem
  BY <1>1, <1>2, <1>4, FailKeepsDelete DEF DeleteInv, ListerIsCurrent
<1>5. ASSUME NEW old, NEW fresh, worker.pc = "shadow",
             worker' = [worker EXCEPT !.pc = "ports", !.old = old, !.fresh = fresh],
             UNCHANGED <<wq, dropped>>
      PROVE  DeleteInv'
  <2>1. /\ worker'.pc = "ports" /\ worker'.key = worker.key
        /\ worker'.version = worker.version
    BY <1>1, <1>5 DEF WorkerStates
  <2> QED
    BY <1>1, <1>2, <1>5, <2>1, VisitKeepsDelete
<1> QED
  BY <1>3, <1>4, <1>5 DEF StartCreateOrUpdate

\* The loop over the ports keeps the shadow services.
LEMMA IterationKeepsDelete ==
    ASSUME IInv, DeleteInv, up,
           SkipUnsuitablePort \/ MapHTTPPort \/ MapTCPPort \/ MapUDPPort
    PROVE  DeleteInv'
<1>1. /\ worker.key \in Service /\ worker.pc = "ports" /\ worker \in WorkerStates
  BY DEF IInv, WorkerOK, SkipUnsuitablePort, MapHTTPPort, MapTCPPort, MapUDPPort,
     MappingPorts
<1>2. UNCHANGED <<svcs, events, up, shadows, shadowCache, shadowWatch, wq, dropped>>
  BY DEF SkipUnsuitablePort, MapHTTPPort, MapTCPPort, MapUDPPort, clusterVars
<1>3. \/ SkipPort
      \/ \E target : KeepPort(NextPort, target)
  BY DEF SkipUnsuitablePort, MapHTTPPort, MapTCPPort, MapUDPPort, MapTablePort
<1>4. ASSUME NEW next, NEW ports,
             \/ worker' = [worker EXCEPT !.next = next]
             \/ worker' = [worker EXCEPT !.next = next, !.ports = ports]
      PROVE  worker'.pc = "ports" /\ worker'.key = worker.key /\ worker'.version = worker.version
  BY <1>1, <1>4 DEF WorkerStates
<1>5. worker'.pc = "ports" /\ worker'.key = worker.key /\ worker'.version = worker.version
  BY <1>3, <1>4 DEF SkipPort, KeepPort
<1> QED
  BY <1>1, <1>2, <1>5, VisitKeepsDelete

\* A shadow service written for a service deleted meanwhile: the deletion is pending.
LEMMA WriteShadowKeepsDelete ==
    ASSUME DeletionsAreSeen, IInv, DeleteInv, up, WriteShadow
    PROVE  DeleteInv'
<1> PICK s : s = worker.key
  OBVIOUS
<1>1. s \in Service /\ worker.pc = "ports" /\ worker.version # Absent
  BY NameAssumption DEF IInv, WorkerOK, WriteShadow
<1>2. UNCHANGED <<svcs, events, up>>
  BY DEF WriteShadow
<1>3. \A t \in Service : t # s => shadows'[t] = shadows[t]
  BY DEF IInv, ShadowsOK, WriteShadow, CallFaults, ShadowWritten
<1>4. ListerIsCurrent'
  <2>1. CASE ShadowWritten(s, worker.ports)
    BY <1>1, <2>1, WriteKeepsListerCurrent DEF DeleteInv, DeletionsAreSeen
  <2>2. CASE UNCHANGED <<shadows, shadowCache, shadowWatch>>
    BY <2>2 DEF DeleteInv, ListerIsCurrent
  <2> QED
    BY <2>1, <2>2 DEF WriteShadow, CallFaults
<1>5. NeedsDelete(s)' => Elsewhere(s)
  BY <1>1, <1>2 DEF DeleteInv, HeldIsDeleted, NeedsDelete
<1>6. CASE FailItem
  BY <1>1, <1>2, <1>3, <1>4, <1>6, FailKeepsDelete
<1>7. CASE Synced
  BY <1>1, <1>2, <1>3, <1>4, <1>5, <1>7, SyncedKeepsDelete
<1> QED
  BY <1>6, <1>7 DEF WriteShadow, CallFaults

\* The worker finds the shadow service to delete, or none.
LEMMA StartDeleteKeepsDelete ==
    ASSUME IInv, DeleteInv, up, StartDelete
    PROVE  DeleteInv'
<1> PICK s : s = worker.key
  OBVIOUS
<1>1. s \in Service /\ worker.pc = "shadow" /\ worker \in WorkerStates
  BY DEF IInv, WorkerOK, StartDelete
<1>2. UNCHANGED <<svcs, events, up, shadows, shadowCache, shadowWatch>>
  BY DEF StartDelete, clusterVars
<1>3. CASE shadowCache[s] = NoShadow /\ Synced
  <2>1. ListerIsCurrent /\ ListerIsCurrent'
    BY <1>2 DEF DeleteInv, ListerIsCurrent
  <2>2. ~NeedsDelete(s)'
    BY <1>2, <1>3, <2>1 DEF ListerIsCurrent, NeedsDelete
  <2> QED
    BY <1>1, <1>2, <1>3, <2>1, <2>2, SyncedKeepsDelete
<1>4. CASE worker' = [worker EXCEPT !.pc = "delete"] /\ UNCHANGED <<wq, dropped>>
  <2>1. /\ worker'.pc = "delete" /\ worker'.key = worker.key
        /\ worker'.version = worker.version
    BY <1>1, <1>4 DEF WorkerStates
  <2> QED
    BY <1>1, <1>2, <1>4, <2>1, VisitKeepsDelete
<1> QED
  BY <1>3, <1>4 DEF StartDelete

\* The shadow service of a deleted service goes.
LEMMA DeleteShadowKeepsDelete ==
    ASSUME DeletionsAreSeen, IInv, DeleteInv, up, DeleteShadow
    PROVE  DeleteInv'
<1> PICK s : s = worker.key
  OBVIOUS
<1>1. s \in Service /\ worker.pc = "delete"
  BY DEF IInv, WorkerOK, DeleteShadow
<1>2. UNCHANGED <<svcs, events, up>>
  BY DEF DeleteShadow
<1>3. \A t \in Service : t # s => shadows'[t] = shadows[t]
  BY DEF IInv, ShadowsOK, DeleteShadow, CallFaults, ShadowWritten
<1>4. ListerIsCurrent'
  <2>1. CASE ShadowWritten(s, NoShadow)
    BY <1>1, <2>1, WriteKeepsListerCurrent DEF DeleteInv, DeletionsAreSeen
  <2>2. CASE UNCHANGED <<shadows, shadowCache, shadowWatch>>
    BY <2>2 DEF DeleteInv, ListerIsCurrent
  <2> QED
    BY <2>1, <2>2 DEF DeleteShadow, CallFaults
<1>5. CASE FailItem
  BY <1>1, <1>2, <1>3, <1>4, <1>5, FailKeepsDelete
<1>6. CASE ShadowWritten(s, NoShadow) /\ Synced
  <2>1. shadows'[s] = NoShadow
    BY <1>1, <1>6 DEF IInv, ShadowsOK, ShadowWritten
  <2>2. ~NeedsDelete(s)'
    BY <2>1 DEF NeedsDelete
  <2> QED
    BY <1>1, <1>2, <1>3, <1>4, <1>6, <2>2, SyncedKeepsDelete
<1> QED
  BY <1>5, <1>6 DEF DeleteShadow, CallFaults

\* The visit ends: its key is no longer in process.
LEMMA BuildConfigKeepsDelete ==
    ASSUME IInv, DeleteInv, up, BuildConfig
    PROVE  DeleteInv'
<1> PICK k : k = worker.key
  OBVIOUS
<1>1. /\ k \in Key /\ wq \in WorkQueues /\ wq.processing = {k} /\ worker.pc = "build"
  BY DEF IInv, QueueOK, WorkIsQueuedOnce, WorkerOK, WorkerStates, BuildConfig
<1>2. wq'.dirty = wq.dirty /\ wq'.waiting = wq.waiting
  BY <1>1, QueueContents DEF BuildConfig
<1>3. /\ UNCHANGED <<events, svcs, shadows, shadowCache, shadowWatch, up, dropped>>
      /\ worker'.pc = "idle"
  BY DEF BuildConfig, clusterVars, IdleWorker
<1>4. ASSUME NEW t \in Service, NeedsDelete(t) PROVE Pending(t)'
  <2>1. CASE t = k
    <3>1. Elsewhere(t)
      BY <1>1, <1>4, <2>1, NameAssumption DEF DeleteInv, HeldIsDeleted
    <3> QED
      BY <1>2, <1>3, <3>1 DEF Elsewhere, InEvents, Pending
  <2>2. CASE t # k
    <3>1. Pending(t)
      BY <1>4 DEF DeleteInv, NoShadowForgotten, NeedsDelete
    <3> QED
      BY <1>1, <1>2, <1>3, <2>2, <3>1 DEF Pending
  <2> QED
    BY <2>1, <2>2
<1>5. NoShadowForgotten'
  BY <1>3, <1>4 DEF NoShadowForgotten, NeedsDelete
<1> QED
  BY <1>3, <1>5 DEF DeleteInv, ListerIsCurrent, NothingBeforeStart, HeldIsDeleted

\* Without downtime, the process starts before there are shadow services.
LEMMA StartKeepsDelete ==
    ASSUME SyncInv, DeleteInv, Start
    PROVE  DeleteInv'
<1>1. /\ up' /\ ~up
      /\ UNCHANGED <<svcs, shadows, shadowCache, shadowWatch, wq, worker, dropped>>
  BY DEF Start, clusterVars
<1>2. worker.pc = "idle"
  BY <1>1 DEF SyncInv, StoppedIsEmpty, IdleWorker
<1>3. NoShadowForgotten'
  BY <1>1 DEF DeleteInv, NothingBeforeStart, NoShadowForgotten
<1> QED
  BY <1>1, <1>2, <1>3 DEF DeleteInv, ListerIsCurrent, NothingBeforeStart, HeldIsDeleted

\* Every step keeps the invariant, when no deletion goes unnoticed.
LEMMA DeletePreserved ==
    ASSUME DeletionsAreSeen, IInv, SyncInv, DeleteInv, [Next]_vars
    PROVE  DeleteInv'
<1>1. CASE UNCHANGED vars
  BY <1>1 DEF vars, DeleteInv, ListerIsCurrent, NothingBeforeStart, NoShadowForgotten,
     HeldIsDeleted, NeedsDelete, Pending, Elsewhere, InEvents
<1>2. CASE EnvironmentStep
  BY <1>2, EnvironmentKeepsDelete
<1>3. CASE WorkerStep
  <2>1. up
    BY <1>3, WorkerRuns DEF SyncInv
  <2>2. CASE GetKey \/ ReadService \/ StartCreateOrUpdate
    BY <2>1, <2>2, GetKeyKeepsDelete, ReadingKeepsDelete
  <2>3. CASE SkipUnsuitablePort \/ MapHTTPPort \/ MapTCPPort \/ MapUDPPort
    BY <2>1, <2>3, IterationKeepsDelete
  <2>4. CASE WriteShadow \/ StartDelete \/ DeleteShadow \/ BuildConfig
    BY <2>1, <2>4, WriteShadowKeepsDelete, StartDeleteKeepsDelete,
       DeleteShadowKeepsDelete, BuildConfigKeepsDelete
  <2> QED
    BY <1>3, <2>2, <2>3, <2>4 DEF WorkerStep
<1>4. ~Crash
  BY DEF DeletionsAreSeen, IInv, InputsOK, Crash
<1>5. CASE Start
  BY <1>5, StartKeepsDelete
<1> QED
  BY <1>1, <1>2, <1>3, <1>4, <1>5 DEF Next, EnvironmentStep

\* The shadow service of a deleted service is deleted, or the service is still to be
\* visited or was given up, through failed calls and changes during a visit.
THEOREM ShadowsAreNotForgotten ==
    ASSUME DeletionsAreSeen
    PROVE  Spec => []NoShadowForgotten
<1>1. Init => DeleteInv
  BY DEF Init, DeleteInv, ListerIsCurrent, NothingBeforeStart, NoShadowForgotten
<1>2. IInv /\ SyncInv /\ DeleteInv /\ [Next]_vars => DeleteInv'
  BY DeletePreserved
<1>3. DeleteInv => NoShadowForgotten
  BY DEF DeleteInv
<1> QED
  BY <1>1, <1>2, <1>3, IInvAlways, SyncAlways, PTL DEF Spec

--------------------------------------------------------------------------------
(* The configuration                                                            *)

\* What is to be done ends with BuildConfig.
LEMMA WorkKeepsConf ==
    ASSUME NoConfigurationForgotten, WorkIsLeft', UNCHANGED <<up, conf>>
    PROVE  NoConfigurationForgotten'
BY DEF NoConfigurationForgotten

\* Changes of watched services are announced, the others change no route.
LEMMA EnvironmentKeepsConf ==
    ASSUME ~Tombstones, IInv, NoConfigurationForgotten, EnvironmentStep
    PROVE  NoConfigurationForgotten'
<1>1. events \in Seq(Service) /\ wq \in WorkQueues
  BY DEF IInv, InputsOK, QueueOK
<1>2. ASSUME NEW s \in Service, ChangeService(s) PROVE NoConfigurationForgotten'
  <2>1. UNCHANGED <<up, tcp, udp, wq, worker, conf, dropped>>
    BY <1>2 DEF ChangeService
  <2>2. PICK v \in ServiceVersion \cup {Absent} :
            /\ svcs' = [svcs EXCEPT ![s] = v]
            /\ events' = IF up /\ Notified(svcs[s], v) THEN Append(events, s) ELSE events
    BY <1>2 DEF ChangeService
  <2>3. CASE up /\ Notified(svcs[s], v)
    <3>1. events' # << >>
      BY <1>1, <2>2, <2>3, AppendProperties
    <3> QED
      BY <2>1, <2>3, <3>1 DEF NoConfigurationForgotten, WorkIsLeft
  <2>4. CASE up /\ ~Notified(svcs[s], v)
    <3>1. svcs \in [Service -> ServiceVersion \cup {Absent}]
      BY DEF IInv, InputsOK
    <3>2. \A t \in Service : /\ Watched(svcs'[t]) <=> Watched(svcs[t])
                             /\ Watched(svcs[t]) => svcs'[t] = svcs[t]
      BY <2>2, <2>4, <3>1 DEF Notified
    <3>3. \A t \in Service : Watched(svcs[t]) =>
              RoutesOf(t, svcs[t])' = RoutesOf(t, svcs[t])
      BY <2>1, <3>2 DEF RoutesOf, HTTPRoutes, TableRoutes
    <3>4. Routes' = Routes
      BY <3>2, <3>3 DEF Routes
    <3> QED
      BY <2>1, <2>2, <2>4, <3>4 DEF NoConfigurationForgotten, WorkIsLeft
  <2>5. CASE ~up
    BY <2>1, <2>5 DEF NoConfigurationForgotten
  <2> QED
    BY <2>3, <2>4, <2>5
<1>3. ASSUME NEW s \in Service PROVE ~DeleteUnseen(s)
  BY DEF DeleteUnseen
<1>4. ASSUME NEW s \in Service, ListerCatchesUp(s) PROVE NoConfigurationForgotten'
  <2>1. UNCHANGED <<svcs, events, up, tcp, udp, wq, worker, conf, dropped>>
    BY <1>4 DEF ListerCatchesUp
  <2>2. Routes' = Routes
    BY <2>1 DEF Routes, RoutesOf, HTTPRoutes, TableRoutes
  <2> QED
    BY <2>1, <2>2 DEF NoConfigurationForgotten, WorkIsLeft
<1>5. ASSUME NEW k \in Key, wq'.dirty = wq.dirty \cup {k}, UNCHANGED <<up, conf>>
      PROVE  NoConfigurationForgotten'
  <2>1. WorkIsLeft'
    BY <1>5 DEF WorkIsLeft
  <2> QED
    BY <1>5, <2>1, WorkKeepsConf
<1>6. CASE HandleEvent
  <2>1. events # << >> /\ wq' = Added(wq, Head(events))
    BY <1>6 DEF HandleEvent
  <2>2. Head(events) \in Key
    BY <1>1, <2>1, KeysAndClaims
  <2>3. wq'.dirty = wq.dirty \cup {Head(events)} /\ UNCHANGED <<up, conf>>
    BY <1>1, <1>6, <2>1, <2>2, QueueContents DEF HandleEvent
  <2> QED
    BY <1>5, <2>2, <2>3
<1>7. CASE OtherResourceEvent
  BY <1>1, <1>5, <1>7, QueueContents, NameAssumption DEF OtherResourceEvent
<1>8. ASSUME NEW k \in Key, DelayExpires(k) PROVE NoConfigurationForgotten'
  BY <1>1, <1>5, <1>8, QueueContents DEF DelayExpires
<1> QED
  BY <1>2, <1>3, <1>4, <1>6, <1>7, <1>8 DEF EnvironmentStep

\* A failed visit leaves its key behind, waiting or given up.
LEMMA FailLeavesWork ==
    ASSUME IInv, worker.pc # "idle", FailItem
    PROVE  WorkIsLeft'
<1>1. worker.key \in Key /\ wq \in WorkQueues
  BY DEF IInv, QueueOK, WorkerOK, WorkerStates
<1>2. CASE wq' = Finished(Delayed(wq, worker.key), worker.key)
  <2>1. wq'.waiting = wq.waiting \cup {worker.key}
    BY <1>1, <1>2, QueueContents
  <2> QED
    BY <2>1 DEF WorkIsLeft
<1>3. CASE dropped' = dropped \cup {worker.key}
  BY <1>3 DEF WorkIsLeft
<1> QED
  BY <1>2, <1>3 DEF FailItem

\* Every visit that does not fail goes on to BuildConfig, the only step that stores a
\* configuration, made of what it sees in one instant.
LEMMA WorkerKeepsConf ==
    ASSUME IInv, up, NoConfigurationForgotten, WorkerStep
    PROVE  NoConfigurationForgotten'
<1>1. worker \in WorkerStates
  BY DEF IInv, WorkerOK
<1>2. CASE BuildConfig
  <2>1. UNCHANGED <<svcs, tcp, udp, up, events, dropped>> /\ conf' = Routes
    BY <1>2 DEF BuildConfig, clusterVars
  <2>2. Routes' = Routes
    BY <2>1 DEF Routes, RoutesOf, HTTPRoutes, TableRoutes
  <2> QED
    BY <2>1, <2>2 DEF NoConfigurationForgotten
<1>3. CASE ~BuildConfig
  <2>1. UNCHANGED <<up, conf>>
    BY <1>3 DEF WorkerStep, GetKey, ReadService, StartCreateOrUpdate, SkipUnsuitablePort,
       MapHTTPPort, MapTCPPort, MapUDPPort, WriteShadow, StartDelete, DeleteShadow,
       clusterVars
  <2> SUFFICES WorkIsLeft'
    BY <2>1, WorkKeepsConf
  <2>2. ASSUME worker.pc = "ports" PROVE SkipPort => worker'.pc = "ports"
    BY <1>1, <2>2 DEF SkipPort, WorkerStates
  <2>3. ASSUME worker.pc = "ports", NEW target
        PROVE  KeepPort(NextPort, target) => worker'.pc = "ports"
    BY <1>1, <2>3 DEF KeepPort, WorkerStates
  <2>4. Synced => worker'.pc = "build"
    BY DEF Synced, IdleWorker
  <2>5. CASE GetKey \/ ReadService
    BY <1>1, <2>5 DEF GetKey, ReadService, IdleWorker, WorkerStates, WorkIsLeft
  <2>6. CASE StartCreateOrUpdate \/ StartDelete
    <3>1. worker.pc # "idle" /\ (FailItem \/ Synced \/ worker'.pc \in {"ports", "delete"})
      BY <1>1, <2>6 DEF StartCreateOrUpdate, StartDelete, WorkerStates
    <3> QED
      BY <2>4, <3>1, FailLeavesWork DEF WorkIsLeft
  <2>7. CASE SkipUnsuitablePort \/ MapHTTPPort
    <3>1. worker'.pc = "ports"
      BY <2>2, <2>3, <2>7 DEF SkipUnsuitablePort, MapHTTPPort, MappingPorts
    <3> QED
      BY <3>1 DEF WorkIsLeft
  <2>8. CASE MapTCPPort \/ MapUDPPort
    <3>1. worker'.pc = "ports"
      BY <2>2, <2>3, <2>8 DEF MapTCPPort, MapUDPPort, MapTablePort, MappingPorts
    <3> QED
      BY <3>1 DEF WorkIsLeft
  <2>9. CASE WriteShadow \/ DeleteShadow
    <3>1. worker.pc # "idle" /\ (FailItem \/ Synced)
      BY <2>9 DEF WriteShadow, DeleteShadow, CallFaults
    <3> QED
      BY <2>4, <3>1, FailLeavesWork DEF WorkIsLeft
  <2> QED
    BY <1>3, <2>5, <2>6, <2>7, <2>8, <2>9 DEF WorkerStep
<1> QED
  BY <1>2, <1>3

\* A process starts without a configuration, and with an event for every watched service.
LEMMA StartKeepsConf ==
    ASSUME NoConfigurationForgotten, Start
    PROVE  NoConfigurationForgotten'
<1> DEFINE watched == {s \in Service : Watched(svcs[s])}
<1>1. /\ up' /\ ~up /\ events' \in Orderings(watched)
      /\ UNCHANGED <<svcs, conf>>
  BY DEF Start, clusterVars
<1>2. CASE events' # << >>
  BY <1>1, <1>2 DEF NoConfigurationForgotten, WorkIsLeft
<1>3. CASE events' = << >>
  <2>1. ASSUME NEW t \in watched PROVE FALSE
    <3> HIDE DEF watched
    <3>1. \E i \in 1 .. Len(events') : events'[i] = t
      BY <1>1, <2>1, OrderingsReportAll DEF watched
    <3>2. Len(events') = 0
      BY <1>3
    <3> QED
      BY <3>1, <3>2
  <2>2. Routes' = {}
    BY <1>1, <2>1 DEF Routes
  <2>3. conf' = {}
    BY <1>1 DEF NoConfigurationForgotten
  <2> QED
    BY <1>1, <2>2, <2>3 DEF NoConfigurationForgotten
<1> QED
  BY <1>2, <1>3

\* When every deletion is announced, the stored configuration is the one of the services
\* and tables as they are, or an event, a key or a visit stands for a rebuild, or a key
\* was given up: also after changes during a visit, failed calls and restarts.
THEOREM ConfigurationIsNotForgotten ==
    ASSUME ~Tombstones
    PROVE  Spec => []NoConfigurationForgotten
<1>1. Init => NoConfigurationForgotten
  BY DEF Init, NoConfigurationForgotten
<1>2. IInv /\ SyncInv /\ NoConfigurationForgotten /\ [Next]_vars => NoConfigurationForgotten'
  <2> SUFFICES ASSUME IInv, SyncInv, NoConfigurationForgotten, [Next]_vars PROVE NoConfigurationForgotten'
    OBVIOUS
  <2>1. CASE EnvironmentStep
    BY <2>1, EnvironmentKeepsConf
  <2>2. CASE WorkerStep
    BY <2>2, WorkerRuns, WorkerKeepsConf DEF SyncInv
  <2>3. CASE Crash
    BY <2>3 DEF Crash, NoConfigurationForgotten
  <2>4. CASE Start
    BY <2>4, StartKeepsConf
  <2>5. CASE UNCHANGED vars
    <3>1. UNCHANGED <<svcs, events, up, tcp, udp, wq, worker, conf, dropped>>
      BY <2>5 DEF vars
    <3>2. Routes' = Routes
      BY <3>1 DEF Routes, RoutesOf, HTTPRoutes, TableRoutes
    <3> QED
      BY <3>1, <3>2 DEF NoConfigurationForgotten, WorkIsLeft
  <2> QED
    BY <2>1, <2>2, <2>3, <2>4, <2>5 DEF Next, EnvironmentStep
<1> QED
  BY <1>1, <1>2, IInvAlways, SyncAlways, PTL DEF Spec
================================================================================

---------------------------- MODULE Controller_proofs ----------------------------
(***************************************************************************)
(* What holds of the controller for every set of services and ports, all    *)
(* port ranges and every bound, with a lagging lister, failing calls,       *)
(* unseen deletions, crashes and restarts: types, the consistency of the    *)
(* work queue with the worker, and one mesh port per service port.          *)
(*                                                                          *)
(* The inductive invariant adds to these what LoadState needs after a       *)
(* restart: no shadow service has two ports with one number.  That is true  *)
(* of what the API server keeps because the ports the worker collects come  *)
(* from distinct ports of the service with the protocol of one traffic type.*)
(***************************************************************************)
EXTENDS Controller, FiniteSetTheorems, WellFoundedInduction, TLAPS

--------------------------------------------------------------------------------
(* What the operations on a mapping table return and preserve, for every range  *)
(* of mesh ports and every set of claims.                                       *)

\* NewPortMapping returns a table that maps nothing twice.
LEMMA EmptyTableType ==
    ASSUME NEW range
    PROVE  EmptyTable(range) \in Tables(range) /\ MappedOnce(EmptyTable(range))
BY DEF EmptyTable, Tables, MappedOnce

\* Find returns a mesh port of the range that the claim holds.
LEMMA FindReturnsHolder ==
    ASSUME NEW range, NEW table \in Tables(range), NEW claim, IsMapped(table, claim)
    PROVE  Find(table, claim) \in range /\ table[Find(table, claim)] = claim
BY DEF Find, IsMapped, Tables

\* The order of the naturals has no infinite descent.
LEMMA NaturalsAreWellFounded ==
    \E R : IsWellFoundedOn(R, Nat) /\ \A m, n \in Nat : <<m, n>> \in R <=> m < n
<1> DEFINE below == OpToRel(<, Nat)
<1>1. \A m, n \in Nat : <<m, n>> \in below <=> m < n
  BY DEF OpToRel
<1>2. IsWellFoundedOn(below, Nat)
  BY NatLessThanWellFounded
<1> HIDE DEF below
<1> QED
  BY <1>1, <1>2, Zenon

\* A non-empty set of naturals has a lowest member, so Add finds the first free port.
LEMMA LowestOfNaturals ==
    ASSUME NEW S \in SUBSET Nat, S # {}
    PROVE  \E m \in S : \A n \in S : m <= n
<1>1. PICK R : IsWellFoundedOn(R, Nat) /\ \A m, n \in Nat : <<m, n>> \in R <=> m < n
  BY NaturalsAreWellFounded
<1>2. IsWellFoundedOn(R, Nat)
  BY <1>1
<1>3. PICK m \in S : \A n \in S : <<n, m>> \notin R
  BY <1>2, WFMin
<1>4. ASSUME NEW n \in S PROVE m <= n
  <2>1. m \in Nat /\ n \in Nat
    OBVIOUS
  <2>2. <<n, m>> \in R <=> n < m
    BY <1>1, <2>1, Zenon
  <2>3. ~(n < m)
    BY <1>3, <2>2, Zenon
  <2> QED
    BY <2>1, <2>3
<1> QED
  BY <1>4

\* The search of Add ends at the lowest free port of the range, if there is one.
LEMMA FirstAvailableIsFree ==
    ASSUME NEW range \in SUBSET Nat, NEW table \in Tables(range), CanAdd(table)
    PROVE  /\ FirstAvailable(table) \in range
           /\ table[FirstAvailable(table)] = NoClaim
           /\ \A m \in range : m < FirstAvailable(table) => table[m] # NoClaim
<1> DEFINE free == Available(table)
<1>1. free \in SUBSET Nat /\ free # {}
  BY DEF Available, CanAdd, Tables
<1>2. \E m \in free : \A n \in free : m <= n
  <2> HIDE DEF free
  <2> QED
    BY <1>1, LowestOfNaturals
<1>3. /\ FirstAvailable(table) \in Available(table)
      /\ \A n \in Available(table) : FirstAvailable(table) <= n
  BY <1>2 DEF FirstAvailable
<1> QED
  BY <1>1, <1>3 DEF Available, Tables

\* Add after a failed Find keeps every claim mapped once: the race-free order of
\* getMappedPort.
LEMMA AddKeepsMappedOnce ==
    ASSUME NEW range \in SUBSET Nat, NEW table \in Tables(range),
           NEW claim \in Claim, CanAdd(table)
    PROVE  /\ Add(table, claim) \in Tables(range)
           /\ MappedOnce(table) /\ ~IsMapped(table, claim)
                  => MappedOnce(Add(table, claim))
<1>1. Add(table, claim) \in Tables(range)
  BY DEF Add, Tables
<1>2. ASSUME MappedOnce(table), ~IsMapped(table, claim)
      PROVE  MappedOnce(Add(table, claim))
  BY <1>2, FirstAvailableIsFree DEF Add, Tables, MappedOnce, IsMapped
<1> QED
  BY <1>1, <1>2

\* Removing mappings keeps every other claim mapped as it was.
LEMMA ReleaseKeepsMappedOnce ==
    ASSUME NEW range, NEW table \in Tables(range), NEW claims
    PROVE  /\ Release(table, claims) \in Tables(range)
           /\ MappedOnce(table) => MappedOnce(Release(table, claims))
BY DEF Release, Tables, MappedOnce

\* The loops of removeUnusedPortMappings, cleanupPortMappings and Delete call Remove
\* for one port of the shadow service after the other.  When every claim is mapped
\* once, the loop frees exactly the entries of all its claims, in any order.
THEOREM ReleaseIsRemoveInALoop ==
    ASSUME NEW range, NEW table \in Tables(range), MappedOnce(table),
           NEW claims \in SUBSET Claim, NEW claim \in Claim
    PROVE  /\ Release(table, {}) = table
           /\ Release(table, claims \cup {claim}) = Remove(Release(table, claims), claim)
<1> DEFINE rest == Release(table, claims)
<1>1. rest \in Tables(range) /\ MappedOnce(rest)
  BY ReleaseKeepsMappedOnce
<1>2. Release(table, {}) = table
  BY DEF Release, Tables
<1>3. CASE IsMapped(rest, claim)
  <2>1. \A m \in range : rest[m] = claim <=> m = Find(rest, claim)
    BY <1>1, <1>3, FindReturnsHolder, NoClaimAssumption DEF MappedOnce, Tables
  <2>2. Remove(rest, claim) = [m \in range |-> IF rest[m] = claim THEN NoClaim ELSE rest[m]]
    BY <1>1, <1>3, <2>1 DEF Remove, Tables
  <2> QED
    BY <1>2, <2>2, NoClaimAssumption DEF Release, Tables
<1>4. CASE ~IsMapped(rest, claim)
  <2>1. \A m \in range : rest[m] # claim
    BY <1>1, <1>4 DEF IsMapped, Tables
  <2> QED
    BY <1>2, <1>4, <2>1, NoClaimAssumption DEF Release, Remove, Tables
<1> QED
  BY <1>3, <1>4

\* LoadState maps every claim once when no two of the loaded shadow ports have one
\* claim, whichever entry wins a target that two of them have.
LEMMA LoadedMapsOnce ==
    ASSUME NEW range, NEW entries, NEW table \in Loaded(range, entries),
           \A e, f \in entries : e.claim = f.claim => e.target = f.target
    PROVE  table \in Tables(range) /\ MappedOnce(table)
<1>1. table \in Tables(range)
  BY DEF Loaded
<1>2. ASSUME NEW m \in range, table[m] # NoClaim
      PROVE  \E e \in entries : e.target = m /\ e.claim = table[m]
  BY <1>2 DEF Loaded
<1> QED
  BY <1>1, <1>2 DEF MappedOnce, Tables

--------------------------------------------------------------------------------
(* Every operation of the work queue keeps it consistent: a key is queued once  *)
(* exactly when it is dirty and not in process.                                 *)

\* Appending a key that does not occur keeps a sequence of keys free of duplicates.
LEMMA AppendFresh ==
    ASSUME NEW s \in Seq(Key), NEW k \in Key, NoDuplicates(s), ~Occurs(s, k)
    PROVE  /\ Append(s, k) \in Seq(Key)
           /\ NoDuplicates(Append(s, k))
           /\ \A x \in Key : Occurs(Append(s, k), x) <=> Occurs(s, x) \/ x = k
<1>1. /\ Append(s, k) \in Seq(Key)
      /\ Len(Append(s, k)) = Len(s) + 1 /\ Len(s) \in Nat
      /\ \A i \in 1 .. Len(s) : Append(s, k)[i] = s[i]
      /\ Append(s, k)[Len(s) + 1] = k
  OBVIOUS
<1>2. NoDuplicates(Append(s, k))
  BY <1>1 DEF NoDuplicates, Occurs
<1>3. ASSUME NEW x \in Key
      PROVE  Occurs(Append(s, k), x) <=> Occurs(s, x) \/ x = k
  <2>1. Occurs(s, x) => Occurs(Append(s, k), x)
    BY <1>1 DEF Occurs
  <2>2. x = k => Occurs(Append(s, k), x)
    BY <1>1 DEF Occurs
  <2>3. Occurs(Append(s, k), x) => Occurs(s, x) \/ x = k
    BY <1>1 DEF Occurs
  <2> QED
    BY <2>1, <2>2, <2>3
<1> QED
  BY <1>1, <1>2, <1>3

\* Taking the head off a sequence without duplicates removes that key and no other.
LEMMA TailDropsHead ==
    ASSUME NEW s \in Seq(Key), s # << >>, NoDuplicates(s)
    PROVE  /\ Head(s) \in Key /\ Occurs(s, Head(s))
           /\ Tail(s) \in Seq(Key)
           /\ NoDuplicates(Tail(s))
           /\ \A x \in Key : Occurs(Tail(s), x) <=> Occurs(s, x) /\ x # Head(s)
<1>1. /\ Tail(s) \in Seq(Key)
      /\ Len(s) \in Nat \ {0} /\ Len(Tail(s)) = Len(s) - 1
      /\ Head(s) = s[1] /\ s[1] \in Key
      /\ \A i \in 1 .. Len(s) - 1 : Tail(s)[i] = s[i + 1]
  OBVIOUS
<1>2. NoDuplicates(Tail(s))
  BY <1>1 DEF NoDuplicates
<1>3. ASSUME NEW x \in Key
      PROVE  Occurs(Tail(s), x) <=> Occurs(s, x) /\ x # Head(s)
  <2>1. Occurs(Tail(s), x) => Occurs(s, x) /\ x # Head(s)
    BY <1>1 DEF Occurs, NoDuplicates
  <2>2. ASSUME Occurs(s, x), x # Head(s)
        PROVE  Occurs(Tail(s), x)
    <3>1. PICK i \in 1 .. Len(s) : s[i] = x
      BY <2>2 DEF Occurs
    <3>2. i - 1 \in 1 .. Len(s) - 1 /\ Tail(s)[i - 1] = x
      BY <1>1, <2>2, <3>1
    <3> QED
      BY <1>1, <3>2 DEF Occurs
  <2> QED
    BY <2>1, <2>2
<1> QED
  BY <1>1, <1>2, <1>3 DEF Occurs

\* The queue NewMeshController makes is consistent.
LEMMA EmptyQueueConsistent ==
    EmptyQueue \in WorkQueues /\ QueueConsistent(EmptyQueue)
BY DEF EmptyQueue, WorkQueues, QueueConsistent, NoDuplicates, QueuedWhenDirty, Occurs

\* Add keeps the queue consistent, whether or not a worker has the key.
LEMMA AddedConsistent ==
    ASSUME NEW q \in WorkQueues, NEW k \in Key, QueueConsistent(q)
    PROVE  /\ Added(q, k) \in WorkQueues /\ QueueConsistent(Added(q, k))
           /\ Added(q, k).processing = q.processing
<1>1. CASE k \in q.dirty
  BY <1>1 DEF Added
<1>2. CASE k \notin q.dirty /\ k \in q.processing
  BY <1>2 DEF Added, WorkQueues, QueueConsistent, QueuedWhenDirty
<1>3. CASE k \notin q.dirty /\ k \notin q.processing
  <2>1. q.queue \in Seq(Key) /\ NoDuplicates(q.queue) /\ ~Occurs(q.queue, k)
    BY <1>3 DEF WorkQueues, QueueConsistent, QueuedWhenDirty
  <2>2. /\ Added(q, k).queue = Append(q.queue, k)
        /\ Added(q, k).dirty = q.dirty \cup {k}
        /\ Added(q, k).processing = q.processing
        /\ Added(q, k) \in WorkQueues
    BY <1>3, <2>1, AppendFresh DEF Added, WorkQueues
  <2> QED
    BY <1>3, <2>1, <2>2, AppendFresh DEF QueueConsistent, QueuedWhenDirty
<1> QED
  BY <1>1, <1>2, <1>3

\* Get hands out a dirty key nobody processes and keeps the queue consistent.
LEMMA TakenConsistent ==
    ASSUME NEW q \in WorkQueues, QueueConsistent(q), CanGet(q)
    PROVE  /\ Head(q.queue) \in Key
           /\ Head(q.queue) \in q.dirty /\ Head(q.queue) \notin q.processing
           /\ Taken(q) \in WorkQueues /\ QueueConsistent(Taken(q))
           /\ Taken(q).processing = q.processing \cup {Head(q.queue)}
<1>1. q.queue \in Seq(Key) /\ q.queue # << >> /\ NoDuplicates(q.queue)
  BY DEF WorkQueues, QueueConsistent, CanGet
<1>2. /\ Taken(q).queue = Tail(q.queue)
      /\ Taken(q).dirty = q.dirty \ {Head(q.queue)}
      /\ Taken(q).processing = q.processing \cup {Head(q.queue)}
      /\ Taken(q) \in WorkQueues
  <2>1. Head(q.queue) \in Key /\ Tail(q.queue) \in Seq(Key)
    BY <1>1, TailDropsHead
  <2> QED
    BY <2>1 DEF Taken, WorkQueues
<1>3. Head(q.queue) \in Key /\ Head(q.queue) \in q.dirty
          /\ Head(q.queue) \notin q.processing
  BY <1>1, TailDropsHead DEF QueueConsistent, QueuedWhenDirty
<1>4. /\ NoDuplicates(Tail(q.queue))
      /\ \A x \in Key :
             Occurs(Tail(q.queue), x) <=> Occurs(q.queue, x) /\ x # Head(q.queue)
  BY <1>1, TailDropsHead
<1>5. QueueConsistent(Taken(q))
  BY <1>2, <1>3, <1>4 DEF QueueConsistent, QueuedWhenDirty
<1> QED
  BY <1>2, <1>3, <1>5

\* Done puts a key that was added meanwhile back, once, and frees it.
LEMMA FinishedConsistent ==
    ASSUME NEW q \in WorkQueues, NEW k \in Key, QueueConsistent(q), k \in q.processing
    PROVE  /\ Finished(q, k) \in WorkQueues /\ QueueConsistent(Finished(q, k))
           /\ Finished(q, k).processing = q.processing \ {k}
<1>1. q.queue \in Seq(Key) /\ NoDuplicates(q.queue) /\ ~Occurs(q.queue, k)
  BY DEF WorkQueues, QueueConsistent, QueuedWhenDirty
<1>2. /\ Finished(q, k).queue = IF k \in q.dirty THEN Append(q.queue, k) ELSE q.queue
      /\ Finished(q, k).dirty = q.dirty
      /\ Finished(q, k).processing = q.processing \ {k}
      /\ Finished(q, k) \in WorkQueues
  BY <1>1, AppendFresh DEF Finished, WorkQueues
<1>3. /\ NoDuplicates(Append(q.queue, k))
      /\ \A x \in Key : Occurs(Append(q.queue, k), x) <=> Occurs(q.queue, x) \/ x = k
  BY <1>1, AppendFresh
<1>4. QueueConsistent(Finished(q, k))
  BY <1>1, <1>2, <1>3 DEF QueueConsistent, QueuedWhenDirty
<1> QED
  BY <1>2, <1>4

\* AddRateLimited touches neither the queue nor the keys in process.
LEMMA DelayedConsistent ==
    ASSUME NEW q \in WorkQueues, NEW k \in Key, QueueConsistent(q)
    PROVE  /\ Delayed(q, k) \in WorkQueues /\ QueueConsistent(Delayed(q, k))
           /\ Delayed(q, k).processing = q.processing
<1>1. /\ Delayed(q, k).queue = q.queue /\ Delayed(q, k).dirty = q.dirty
      /\ Delayed(q, k).processing = q.processing
  BY DEF Delayed, WorkQueues
<1>2. Delayed(q, k) \in WorkQueues
  <2> DEFINE f == [q.failures EXCEPT ![k] = @ + 1]
             w == q.waiting \cup {k}
  <2>1. f \in [Key -> Nat] /\ w \in SUBSET Key
    BY DEF WorkQueues
  <2>2. Delayed(q, k) = [q EXCEPT !.waiting = w, !.failures = f]
    BY DEF Delayed, WorkQueues
  <2> HIDE DEF f, w
  <2> QED
    BY <2>1, <2>2 DEF WorkQueues
<1> QED
  BY <1>1, <1>2 DEF QueueConsistent, QueuedWhenDirty

\* Forget touches neither the queue nor the keys in process.
LEMMA ForgottenConsistent ==
    ASSUME NEW q \in WorkQueues, NEW k \in Key, QueueConsistent(q)
    PROVE  /\ Forgotten(q, k) \in WorkQueues /\ QueueConsistent(Forgotten(q, k))
           /\ Forgotten(q, k).processing = q.processing
BY DEF Forgotten, WorkQueues, QueueConsistent, QueuedWhenDirty

\* The end of a back-off adds the key like any Add.
LEMMA RipenedConsistent ==
    ASSUME NEW q \in WorkQueues, NEW k \in Key, QueueConsistent(q)
    PROVE  /\ Ripened(q, k) \in WorkQueues /\ QueueConsistent(Ripened(q, k))
           /\ Ripened(q, k).processing = q.processing
<1> DEFINE r == [q EXCEPT !.waiting = @ \ {k}]
<1>1. r \in WorkQueues /\ QueueConsistent(r) /\ r.processing = q.processing
  BY DEF WorkQueues, QueueConsistent, QueuedWhenDirty
<1> HIDE DEF r
<1>2. /\ Added(r, k) \in WorkQueues /\ QueueConsistent(Added(r, k))
      /\ Added(r, k).processing = r.processing
  BY <1>1, AddedConsistent
<1> QED
  BY <1>1, <1>2 DEF Ripened, r

--------------------------------------------------------------------------------
(* The inductive invariant.                                                     *)

OnePortPerNumber(ports) == \A p, q \in ports : p.port = q.port => p = q

InputsOK ==
    /\ svcs \in [Service -> ServiceVersion \cup {Absent}]
    /\ events \in Seq(Service)
    /\ up \in BOOLEAN
    /\ changes \in Nat /\ faults \in Nat /\ crashes \in Nat

ShadowsOK ==
    /\ shadows \in [Service -> SUBSET ShadowPort]
    /\ shadowCache \in [Service -> SUBSET ShadowPort]
    /\ shadowWatch \in [Service -> Seq(SUBSET ShadowPort)]
    /\ \A s \in Service : OnePortPerNumber(shadows[s])

RouteType == [svc : Service, port : Port, entry : MeshPort]

TablesOK ==
    /\ tcp \in Tables(TCPPorts) /\ MappedOnce(tcp)
    /\ udp \in Tables(UDPPorts) /\ MappedOnce(udp)

QueueOK == wq \in WorkQueues /\ WorkIsQueuedOnce /\ dropped \subseteq Key

\* The ports collected so far are suitable ports of the version before the next one.
CollectedFrom(version, next, ports) ==
    \A p \in ports : \E i \in 1 .. Len(version.ports) :
        /\ i < next
        /\ version.ports[i] = [port |-> p.port, proto |-> p.proto]
        /\ Suitable(version.type, version.ports[i])

WorkerOK ==
    /\ worker \in WorkerStates
    /\ worker.pc \in {"sync", "shadow", "ports", "delete"} => worker.key \in Service
    /\ worker.pc = "ports" =>
        /\ worker.version \in ServiceVersion
        /\ OnePortPerNumber(worker.ports)
        /\ CollectedFrom(worker.version, worker.next, worker.ports)
    /\ worker.pc # "ports" => worker.ports = {} /\ worker.next = 1

IInv ==
    InputsOK /\ ShadowsOK /\ TablesOK /\ QueueOK /\ WorkerOK /\ conf \subseteq RouteType

--------------------------------------------------------------------------------
(* Constants and values *)

\* The ranges of mesh ports are sets of naturals and part of the mesh ports.
LEMMA RangesAreNaturals ==
    /\ TCPPorts \in SUBSET Nat /\ UDPPorts \in SUBSET Nat
    /\ HTTPPorts \subseteq MeshPort /\ TCPPorts \subseteq MeshPort
    /\ UDPPorts \subseteq MeshPort
BY RangeAssumption DEF HTTPPorts, TCPPorts, UDPPorts, MeshPort

\* Service names are queue keys, and every port of a service is a claim.
LEMMA KeysAndClaims ==
    /\ Service \subseteq Key /\ RefreshKey \in Key
    /\ \A k \in Key : k # RefreshKey => k \in Service
    /\ \A s \in Service, p \in Port : <<s, p>> \in Claim
BY NameAssumption

\* A version of a service has a type and distinct ports.
LEMMA VersionPorts ==
    ASSUME NEW v \in ServiceVersion
    PROVE  /\ v # Absent /\ Len(v.ports) \in Nat /\ v.type \in TrafficType
           /\ \A i \in 1 .. Len(v.ports) : /\ v.ports[i] \in ServicePort
                                          /\ v.ports[i].port \in Port
                                          /\ v.ports[i].proto \in Protocol
           /\ \A i, j \in 1 .. Len(v.ports) : v.ports[i] = v.ports[j] => i = j
<1>1. v \in Version /\ v # Absent
  BY VersionAssumption, NameAssumption
<1>2. v.ports \in Seq(ServicePort) /\ v.type \in TrafficType
  BY <1>1 DEF Version
<1>3. \A i, j \in 1 .. Len(v.ports) : v.ports[i] = v.ports[j] => i = j
  BY VersionAssumption
<1>4. Len(v.ports) \in Nat /\ \A i \in 1 .. Len(v.ports) : v.ports[i] \in ServicePort
  BY <1>2
<1> QED
  BY <1>1, <1>2, <1>3, <1>4 DEF ServicePort

\* What the worker releases keeps the tables well formed.
LEMMA ReleasePortsKeepsTables ==
    ASSUME TablesOK, NEW s, NEW ports, ReleasePorts(s, ports)
    PROVE  TablesOK'
BY ReleaseKeepsMappedOnce DEF TablesOK, ReleasePorts

\* A worker between two keys holds nothing of the last one.
LEMMA IdleWorkerTyped == IdleWorker \in WorkerStates
BY KeysAndClaims DEF IdleWorker, WorkerStates, NoShadow

\* A worker that has become idle is well formed.
LEMMA IdleWorkerOK ==
    ASSUME worker' = IdleWorker
    PROVE  WorkerOK'
BY IdleWorkerTyped DEF WorkerOK, IdleWorker

\* The outcome of a failed work item: the key is delayed or given up, and free.
LEMMA FailItemKeepsQueue ==
    ASSUME QueueOK, WorkerOK, worker.pc # "idle", FailItem
    PROVE  QueueOK' /\ WorkerOK'
<1> DEFINE k == worker.key
<1>1. k \in Key /\ wq \in WorkQueues /\ QueueConsistent(wq) /\ wq.processing = {k}
  BY DEF QueueOK, WorkIsQueuedOnce, WorkerOK, WorkerStates
<1>2. worker' = IdleWorker
  BY DEF FailItem
<1>3. WorkerOK'
  BY <1>2, IdleWorkerOK
<1>4. CASE wq' = Finished(Delayed(wq, k), k) /\ dropped' = dropped
  <2>1. /\ Delayed(wq, k) \in WorkQueues /\ QueueConsistent(Delayed(wq, k))
        /\ Delayed(wq, k).processing = {k}
    BY <1>1, DelayedConsistent
  <2>2. /\ wq' \in WorkQueues /\ QueueConsistent(wq') /\ wq'.processing = {}
    BY <1>1, <1>4, <2>1, FinishedConsistent
  <2> QED
    BY <1>2, <1>3, <1>4, <2>2 DEF QueueOK, WorkIsQueuedOnce, IdleWorker
<1>5. CASE wq' = Finished(Forgotten(wq, k), k) /\ dropped' = dropped \cup {k}
  <2>1. /\ Forgotten(wq, k) \in WorkQueues /\ QueueConsistent(Forgotten(wq, k))
        /\ Forgotten(wq, k).processing = {k}
    BY <1>1, ForgottenConsistent
  <2>2. /\ wq' \in WorkQueues /\ QueueConsistent(wq') /\ wq'.processing = {}
    BY <1>1, <1>5, <2>1, FinishedConsistent
  <2> QED
    BY <1>1, <1>2, <1>3, <1>5, <2>2 DEF QueueOK, WorkIsQueuedOnce, IdleWorker
<1> QED
  BY <1>4, <1>5 DEF FailItem

\* The worker goes on with its key while the queue stays as it is.
LEMMA WorkerGoesOn ==
    ASSUME QueueOK, worker.pc # "idle", worker'.pc # "idle",
           worker'.key = worker.key, UNCHANGED <<wq, dropped>>
    PROVE  QueueOK'
BY DEF QueueOK, WorkIsQueuedOnce

\* The worker goes on to rebuild the configuration.
LEMMA SyncedKeepsQueue ==
    ASSUME QueueOK, WorkerOK, worker.pc # "idle", Synced
    PROVE  QueueOK' /\ WorkerOK'
<1>1. worker.key \in Key
  BY DEF WorkerOK, WorkerStates
<1>2. /\ worker' \in WorkerStates /\ worker'.pc = "build" /\ worker'.key = worker.key
      /\ worker'.ports = {} /\ worker'.next = 1
  BY <1>1, IdleWorkerTyped DEF Synced, IdleWorker, WorkerStates
<1>3. QueueOK'
  BY <1>2, WorkerGoesOn DEF Synced
<1> QED
  BY <1>2, <1>3 DEF WorkerOK

\* A write of a shadow service whose ports have distinct numbers.
LEMMA ShadowWrittenOK ==
    ASSUME ShadowsOK, NEW s \in Service, NEW new \in SUBSET ShadowPort,
           OnePortPerNumber(new), ShadowWritten(s, new)
    PROVE  ShadowsOK'
<1>1. /\ shadows' \in [Service -> SUBSET ShadowPort]
      /\ \A t \in Service : OnePortPerNumber(shadows'[t])
  BY DEF ShadowsOK, ShadowWritten
<1>2. shadowCache' \in [Service -> SUBSET ShadowPort]
  BY DEF ShadowsOK, ShadowWritten
<1>3. shadowWatch' \in [Service -> Seq(SUBSET ShadowPort)]
  <2>1. Append(shadowWatch[s], new) \in Seq(SUBSET ShadowPort)
    BY DEF ShadowsOK
  <2> DEFINE queued == Append(shadowWatch[s], new)
  <2>2. shadowWatch' = shadowWatch \/ shadowWatch' = [shadowWatch EXCEPT ![s] = queued]
    BY DEF ShadowWritten
  <2> HIDE DEF queued
  <2> QED
    BY <2>1, <2>2 DEF ShadowsOK, queued
<1> QED
  BY <1>1, <1>2, <1>3 DEF ShadowsOK

\* The routes of the configuration lead from mesh ports to services.
LEMMA RoutesTyped ==
    ASSUME InputsOK, TablesOK
    PROVE  Routes \subseteq RouteType
<1> SUFFICES ASSUME NEW s \in Service, Watched(svcs[s]), NEW r \in RoutesOf(s, svcs[s])
             PROVE  r \in RouteType
  BY DEF Routes
<1> DEFINE v == svcs[s]
<1>1. v \in ServiceVersion
  BY DEF InputsOK, Watched
<1>2. Len(v.ports) \in Nat /\ \A i \in 1 .. Len(v.ports) : v.ports[i].port \in Port
  BY <1>1, VersionPorts
<1>3. CASE r \in HTTPRoutes(s, v)
  <2>1. PICK i \in 1 .. Len(v.ports) :
            /\ HTTPPort(i) <= MaxHTTPPort
            /\ r = [svc |-> s, port |-> v.ports[i].port, entry |-> HTTPPort(i)]
    BY <1>3 DEF HTTPRoutes
  <2>2. HTTPPort(i) \in MeshPort
    BY <2>1, <1>2, RangeAssumption DEF HTTPPort, MeshPort, HTTPPorts
  <2> QED
    BY <2>1, <2>2, <1>2 DEF RouteType
<1>4. ASSUME NEW range \in SUBSET MeshPort, NEW table \in Tables(range),
             r \in TableRoutes(s, v, table)
      PROVE  r \in RouteType
  <2>1. PICK i \in 1 .. Len(v.ports) :
            /\ IsMapped(table, <<s, v.ports[i].port>>)
            /\ r = [svc |-> s, port |-> v.ports[i].port,
                    entry |-> Find(table, <<s, v.ports[i].port>>)]
    BY <1>4 DEF TableRoutes
  <2>2. Find(table, <<s, v.ports[i].port>>) \in MeshPort
    BY <2>1, FindReturnsHolder
  <2> QED
    BY <2>1, <2>2, <1>2 DEF RouteType
<1>5. CASE r \in TableRoutes(s, v, tcp)
  BY <1>4, <1>5, RangesAreNaturals DEF TablesOK
<1>6. CASE r \in TableRoutes(s, v, udp)
  BY <1>4, <1>6, RangesAreNaturals DEF TablesOK
<1> QED
  BY <1>3, <1>5, <1>6 DEF RoutesOf

--------------------------------------------------------------------------------
(* Users, informers and the delaying queue *)

\* A change of a service touches the cache and the handler calls only.
LEMMA ChangeServiceKeepsIInv ==
    ASSUME IInv, NEW s \in Service, ChangeService(s)
    PROVE  IInv'
<1>1. InputsOK'
  <2>1. Append(events, s) \in Seq(Service)
    BY DEF IInv, InputsOK
  <2> QED
    BY <2>1, BoundAssumption DEF IInv, InputsOK, ChangeService
<1>2. /\ UNCHANGED <<shadows, shadowCache, shadowWatch, tcp, udp, wq, worker, conf>>
      /\ UNCHANGED dropped
  BY DEF ChangeService
<1>3. ShadowsOK' /\ TablesOK' /\ QueueOK' /\ WorkerOK' /\ conf' \subseteq RouteType
  BY <1>2 DEF IInv, ShadowsOK, TablesOK, QueueOK, WorkIsQueuedOnce, WorkerOK
<1> QED
  BY <1>1, <1>3 DEF IInv

\* An unseen deletion touches the cache only.
LEMMA DeleteUnseenKeepsIInv ==
    ASSUME IInv, NEW s \in Service, DeleteUnseen(s)
    PROVE  IInv'
<1>1. InputsOK'
  BY DEF IInv, InputsOK, DeleteUnseen
<1>2. /\ UNCHANGED <<shadows, shadowCache, shadowWatch, tcp, udp, wq, worker, conf>>
      /\ UNCHANGED dropped
  BY DEF DeleteUnseen
<1>3. ShadowsOK' /\ TablesOK' /\ QueueOK' /\ WorkerOK' /\ conf' \subseteq RouteType
  BY <1>2 DEF IInv, ShadowsOK, TablesOK, QueueOK, WorkIsQueuedOnce, WorkerOK
<1> QED
  BY <1>1, <1>3 DEF IInv

\* A key is added while the worker may hold any key, also the same one.
LEMMA AddedKeepsQueue ==
    ASSUME QueueOK, NEW k \in Key, UNCHANGED <<worker, dropped>>,
           wq' = Added(wq, k) \/ wq' = Ripened(wq, k)
    PROVE  QueueOK'
<1>1. /\ wq' \in WorkQueues /\ QueueConsistent(wq') /\ wq'.processing = wq.processing
  BY AddedConsistent, RipenedConsistent DEF QueueOK, WorkIsQueuedOnce
<1> QED
  BY <1>1 DEF QueueOK, WorkIsQueuedOnce

\* A handler call only adds its key.
LEMMA HandleEventKeepsIInv ==
    ASSUME IInv, HandleEvent
    PROVE  IInv'
<1>1. Head(events) \in Service /\ Tail(events) \in Seq(Service)
  BY DEF IInv, InputsOK, HandleEvent
<1>2. InputsOK'
  BY <1>1 DEF IInv, InputsOK, HandleEvent, clusterVars, budgetVars
<1>3. QueueOK'
  BY <1>1, KeysAndClaims, AddedKeepsQueue DEF IInv, HandleEvent
<1>4. ShadowsOK' /\ TablesOK' /\ WorkerOK' /\ conf' \subseteq RouteType
  BY DEF HandleEvent, clusterVars, IInv, ShadowsOK, TablesOK, WorkerOK
<1> QED
  BY <1>2, <1>3, <1>4 DEF IInv

\* Another event only adds the refresh key.
LEMMA OtherResourceEventKeepsIInv ==
    ASSUME IInv, OtherResourceEvent
    PROVE  IInv'
<1>1. InputsOK'
  BY DEF IInv, InputsOK, OtherResourceEvent, clusterVars
<1>2. QueueOK'
  BY KeysAndClaims, AddedKeepsQueue DEF IInv, OtherResourceEvent
<1>3. ShadowsOK' /\ TablesOK' /\ WorkerOK' /\ conf' \subseteq RouteType
  BY DEF OtherResourceEvent, clusterVars, IInv, ShadowsOK, TablesOK, WorkerOK
<1> QED
  BY <1>1, <1>2, <1>3 DEF IInv

\* The end of a back-off only adds its key.
LEMMA DelayExpiresKeepsIInv ==
    ASSUME IInv, NEW k \in Key, DelayExpires(k)
    PROVE  IInv'
<1>1. InputsOK'
  BY DEF IInv, InputsOK, DelayExpires, clusterVars, budgetVars
<1>2. QueueOK'
  BY AddedKeepsQueue DEF IInv, DelayExpires
<1>3. ShadowsOK' /\ TablesOK' /\ WorkerOK' /\ conf' \subseteq RouteType
  BY DEF DelayExpires, clusterVars, IInv, ShadowsOK, TablesOK, WorkerOK
<1> QED
  BY <1>1, <1>2, <1>3 DEF IInv

\* The lister shows a shadow service as it was written.
LEMMA ListerCatchesUpKeepsIInv ==
    ASSUME IInv, NEW s \in Service, ListerCatchesUp(s)
    PROVE  IInv'
<1> DEFINE watched == shadowWatch[s]
<1>1. watched \in Seq(SUBSET ShadowPort) /\ watched # << >>
  BY DEF IInv, ShadowsOK, ListerCatchesUp
<1>2. Head(watched) \in SUBSET ShadowPort /\ Tail(watched) \in Seq(SUBSET ShadowPort)
  <2> HIDE DEF watched
  <2> QED
    BY <1>1
<1>3. /\ shadowCache' = [shadowCache EXCEPT ![s] = Head(watched)]
      /\ shadowWatch' = [shadowWatch EXCEPT ![s] = Tail(watched)]
      /\ shadows' = shadows
  BY DEF ListerCatchesUp
<1>4. ShadowsOK'
  <2> HIDE DEF watched
  <2> QED
    BY <1>2, <1>3 DEF IInv, ShadowsOK
<1>5. InputsOK'
  BY DEF IInv, InputsOK, ListerCatchesUp, budgetVars
<1>6. TablesOK' /\ QueueOK' /\ WorkerOK' /\ conf' \subseteq RouteType
  BY DEF ListerCatchesUp, IInv, TablesOK, QueueOK, WorkIsQueuedOnce, WorkerOK
<1> QED
  BY <1>4, <1>5, <1>6 DEF IInv

--------------------------------------------------------------------------------
(* The worker *)

\* The worker takes a key it does not have yet.
LEMMA GetKeyKeepsIInv ==
    ASSUME IInv, GetKey
    PROVE  IInv'
<1> DEFINE k == Head(wq.queue)
<1>1. wq \in WorkQueues /\ QueueConsistent(wq) /\ CanGet(wq) /\ wq.processing = {}
  BY DEF IInv, QueueOK, WorkIsQueuedOnce, GetKey
<1>2. /\ k \in Key /\ Taken(wq) \in WorkQueues /\ QueueConsistent(Taken(wq))
      /\ Taken(wq).processing = {k}
  BY <1>1, TakenConsistent
<1>3. /\ wq' = Taken(wq) /\ dropped' = dropped \ {k}
      /\ worker' = [IdleWorker EXCEPT !.key = k,
                       !.pc = IF k = RefreshKey THEN "build" ELSE "sync"]
  BY DEF GetKey
<1>4. /\ worker' \in WorkerStates /\ worker'.key = k
      /\ worker'.pc \in {"build", "sync"} /\ (worker'.pc = "sync" => k # RefreshKey)
      /\ worker'.ports = {} /\ worker'.next = 1
  <2> HIDE DEF k
  <2> QED
    BY <1>2, <1>3, IdleWorkerTyped DEF IdleWorker, WorkerStates
<1>5. QueueOK'
  BY <1>2, <1>3, <1>4 DEF IInv, QueueOK, WorkIsQueuedOnce
<1>6. WorkerOK'
  BY <1>2, <1>4, KeysAndClaims DEF WorkerOK
<1>7. InputsOK' /\ ShadowsOK' /\ TablesOK' /\ conf' \subseteq RouteType
  BY DEF GetKey, clusterVars, budgetVars, IInv, InputsOK, ShadowsOK, TablesOK
<1> QED
  BY <1>5, <1>6, <1>7 DEF IInv

\* The worker reads a version of the service, or that it is gone.
LEMMA ReadServiceKeepsIInv ==
    ASSUME IInv, ReadService
    PROVE  IInv'
<1>1. /\ worker.key \in Service /\ worker \in WorkerStates
      /\ worker.ports = {} /\ worker.next = 1 /\ worker.pc # "idle"
  BY DEF IInv, WorkerOK, ReadService
<1>2. svcs[worker.key] \in ServiceVersion \cup {Absent}
  BY <1>1 DEF IInv, InputsOK
<1>3. /\ worker' \in WorkerStates /\ worker'.pc = "shadow" /\ worker'.key = worker.key
      /\ worker'.ports = {} /\ worker'.next = 1
  BY <1>1, <1>2 DEF ReadService, WorkerStates
<1>4. QueueOK'
  BY <1>1, <1>3, WorkerGoesOn DEF IInv, ReadService
<1>5. WorkerOK'
  BY <1>1, <1>3 DEF WorkerOK
<1>6. InputsOK' /\ ShadowsOK' /\ TablesOK' /\ conf' \subseteq RouteType
  BY DEF ReadService, clusterVars, budgetVars, IInv, InputsOK, ShadowsOK, TablesOK
<1> QED
  BY <1>4, <1>5, <1>6 DEF IInv

\* removeUnusedPortMappings keeps the tables well formed, an unsupported traffic type the queue.
LEMMA StartCreateOrUpdateKeepsIInv ==
    ASSUME IInv, StartCreateOrUpdate
    PROVE  IInv'
<1>1. /\ worker.key \in Service /\ worker \in WorkerStates /\ worker.pc = "shadow"
      /\ worker.ports = {} /\ worker.next = 1 /\ worker.version \in ServiceVersion
  BY DEF IInv, WorkerOK, WorkerStates, StartCreateOrUpdate
<1>2. TablesOK'
  BY ReleasePortsKeepsTables DEF IInv, StartCreateOrUpdate
<1>3. InputsOK' /\ ShadowsOK' /\ conf' \subseteq RouteType
  BY DEF StartCreateOrUpdate, clusterVars, budgetVars, IInv, InputsOK, ShadowsOK
<1>4. CASE FailItem
  BY <1>1, <1>2, <1>3, <1>4, FailItemKeepsQueue DEF IInv
<1>5. CASE /\ worker' = [worker EXCEPT !.pc = "ports", !.old = shadowCache[worker.key],
                                       !.fresh = shadowWatch[worker.key] = << >>]
           /\ UNCHANGED <<wq, dropped>>
  <2> DEFINE fresh == shadowWatch[worker.key] = << >>
             old == shadowCache[worker.key]
  <2>1. fresh \in BOOLEAN
    OBVIOUS
  <2>2. old \in SUBSET ShadowPort
    BY <1>1 DEF IInv, ShadowsOK
  <2>3. worker' = [worker EXCEPT !.pc = "ports", !.old = old, !.fresh = fresh]
    BY <1>5
  <2> HIDE DEF fresh, old
  <2>4. worker' \in WorkerStates
    BY <1>1, <2>1, <2>2, <2>3 DEF WorkerStates
  <2>5. /\ worker'.pc = "ports" /\ worker'.key = worker.key /\ worker'.ports = {}
        /\ worker'.version = worker.version
    BY <1>1, <2>3 DEF WorkerStates
  <2>6. WorkerOK'
    BY <1>1, <2>4, <2>5 DEF WorkerOK, OnePortPerNumber, CollectedFrom
  <2>7. QueueOK'
    BY <1>1, <1>5, <2>5, WorkerGoesOn DEF IInv
  <2> QED
    BY <1>2, <1>3, <2>6, <2>7 DEF IInv
<1> QED
  BY <1>4, <1>5 DEF StartCreateOrUpdate

\* One iteration of getShadowServicePorts: a port is left out, or collected with the
\* mesh port it got.
LEMMA IterationKeepsWorker ==
    ASSUME IInv, NEW type, MappingPorts(type),
           \/ SkipPort
           \/ /\ Suitable(type, NextPort)
              /\ \E target \in MeshPort : KeepPort(NextPort, target),
           UNCHANGED <<wq, dropped>>
    PROVE  QueueOK' /\ WorkerOK'
<1> DEFINE v == worker.version
           n == worker.next
           sp == v.ports[n]
<1>1. /\ worker \in WorkerStates /\ worker.pc = "ports" /\ worker.key \in Service
      /\ v \in ServiceVersion /\ n \in Nat \ {0} /\ n <= Len(v.ports) /\ v.type = type
      /\ worker.ports \in SUBSET ShadowPort
      /\ OnePortPerNumber(worker.ports) /\ CollectedFrom(v, n, worker.ports)
  BY DEF IInv, WorkerOK, WorkerStates, MappingPorts
<1>2. /\ Len(v.ports) \in Nat /\ sp \in ServicePort
      /\ \A i, j \in 1 .. Len(v.ports) : v.ports[i] = v.ports[j] => i = j
  BY <1>1, VersionPorts
<1>3. CASE SkipPort
  <2>1. worker' \in WorkerStates /\ worker' = [worker EXCEPT !.next = n + 1]
    BY <1>1, <1>3 DEF SkipPort, WorkerStates
  <2>2. /\ worker'.pc = "ports" /\ worker'.key = worker.key /\ worker'.version = v
        /\ worker'.ports = worker.ports /\ worker'.next = n + 1
    BY <1>1, <2>1 DEF WorkerStates
  <2>3. CollectedFrom(v, n + 1, worker.ports)
    BY <1>1, <1>2 DEF CollectedFrom
  <2>4. WorkerOK'
    BY <1>1, <2>1, <2>2, <2>3 DEF WorkerOK
  <2> QED
    BY <1>1, <2>2, <2>4, WorkerGoesOn DEF IInv
<1>4. ASSUME Suitable(type, sp), NEW target \in MeshPort, KeepPort(sp, target)
      PROVE  QueueOK' /\ WorkerOK'
  <2> DEFINE new == [port |-> sp.port, proto |-> sp.proto, target |-> target]
             all == worker.ports \cup {new}
  <2>1. new \in ShadowPort /\ all \in SUBSET ShadowPort
    BY <1>1, <1>2 DEF ShadowPort, ServicePort
  <2>2. worker' = [worker EXCEPT !.next = n + 1, !.ports = all]
    BY <1>4 DEF KeepPort
  <2>3. /\ worker' \in WorkerStates
        /\ worker'.pc = "ports" /\ worker'.key = worker.key /\ worker'.version = v
        /\ worker'.ports = all /\ worker'.next = n + 1
    <3>1. worker \in WorkerStates /\ n + 1 \in Nat \ {0} /\ worker.pc = "ports"
      BY <1>1
    <3> HIDE DEF all
    <3>2. worker' \in WorkerStates
      BY <2>1, <2>2, <3>1 DEF WorkerStates
    <3>3. /\ worker'.pc = worker.pc /\ worker'.key = worker.key
          /\ worker'.version = worker.version
          /\ worker'.ports = all /\ worker'.next = n + 1
      BY <2>2, <3>1 DEF WorkerStates
    <3> QED
      BY <3>1, <3>2, <3>3
  <2>4. CollectedFrom(v, n + 1, all)
    <3>1. sp = [port |-> sp.port, proto |-> sp.proto]
      BY <1>2 DEF ServicePort
    <3>2. ASSUME NEW p \in all
          PROVE  \E i \in 1 .. Len(v.ports) :
                     /\ i < n + 1
                     /\ v.ports[i] = [port |-> p.port, proto |-> p.proto]
                     /\ Suitable(v.type, v.ports[i])
      <4>1. CASE p \in worker.ports
        BY <1>1, <1>2, <4>1 DEF CollectedFrom
      <4>2. CASE p = new
        BY <1>1, <1>2, <1>4, <3>1, <4>2
      <4> QED
        BY <4>1, <4>2
    <3> QED
      BY <3>2 DEF CollectedFrom
  <2>5. ASSUME NEW p \in worker.ports PROVE p.port # sp.port
    <3>1. PICK i \in 1 .. Len(v.ports) :
              /\ i < n
              /\ v.ports[i] = [port |-> p.port, proto |-> p.proto]
              /\ Suitable(v.type, v.ports[i])
      BY <1>1 DEF CollectedFrom
    <3>2. v.ports[i].proto = sp.proto
      BY <1>1, <1>4, <3>1 DEF Suitable
    <3>3. v.ports[i] # sp
      BY <1>1, <1>2, <3>1
    <3>4. p.proto = sp.proto
      BY <3>1, <3>2
    <3> QED
      BY <1>2, <3>1, <3>3, <3>4 DEF ServicePort
  <2>6. OnePortPerNumber(all)
    BY <1>1, <2>5 DEF OnePortPerNumber
  <2>7. WorkerOK'
    BY <1>1, <2>3, <2>4, <2>6 DEF WorkerOK
  <2> QED
    BY <1>1, <2>3, <2>7, WorkerGoesOn DEF IInv
<1> QED
  BY <1>3, <1>4 DEF NextPort

\* An unsuitable port is left out.
LEMMA SkipUnsuitablePortKeepsIInv ==
    ASSUME IInv, SkipUnsuitablePort
    PROVE  IInv'
<1>1. PICK type \in TrafficType : MappingPorts(type) /\ ~Suitable(type, NextPort)
  BY DEF SkipUnsuitablePort
<1>2. QueueOK' /\ WorkerOK'
  BY <1>1, IterationKeepsWorker DEF SkipUnsuitablePort
<1>3. InputsOK' /\ ShadowsOK' /\ TablesOK' /\ conf' \subseteq RouteType
  BY DEF SkipUnsuitablePort, clusterVars, budgetVars, IInv, InputsOK, ShadowsOK, TablesOK
<1> QED
  BY <1>2, <1>3 DEF IInv

\* An HTTP port gets the mesh port of its position.
LEMMA MapHTTPPortKeepsIInv ==
    ASSUME IInv, MapHTTPPort
    PROVE  IInv'
<1>1. worker.next \in Nat \ {0}
  BY DEF IInv, WorkerOK, WorkerStates
<1>2. HTTPPort(worker.next) <= MaxHTTPPort => HTTPPort(worker.next) \in MeshPort
  BY <1>1, RangeAssumption DEF HTTPPort, HTTPPorts, MeshPort
<1>3. QueueOK' /\ WorkerOK'
  <2>1. CASE SkipPort
    BY <2>1, IterationKeepsWorker DEF MapHTTPPort
  <2>2. CASE /\ HTTPPort(worker.next) <= MaxHTTPPort
             /\ KeepPort(NextPort, HTTPPort(worker.next))
    BY <1>2, <2>2, IterationKeepsWorker DEF MapHTTPPort
  <2>3. HTTPPort(worker.next) > MaxHTTPPort \/ HTTPPort(worker.next) <= MaxHTTPPort
    BY <1>1, RangeAssumption DEF HTTPPort
  <2> QED
    BY <2>1, <2>2, <2>3 DEF MapHTTPPort
<1>4. InputsOK' /\ ShadowsOK' /\ TablesOK' /\ conf' \subseteq RouteType
  BY DEF MapHTTPPort, clusterVars, budgetVars, IInv, InputsOK, ShadowsOK, TablesOK
<1> QED
  BY <1>3, <1>4 DEF IInv

\* getMappedPort on one of the tables: the claim is looked up before it is added.
LEMMA MapTablePortOK ==
    ASSUME IInv, NEW type, MappingPorts(type), Suitable(type, NextPort),
           NEW range \in SUBSET Nat, range \subseteq MeshPort,
           NEW table \in Tables(range), MappedOnce(table),
           NEW newTable, MapTablePort(table, newTable),
           UNCHANGED <<wq, dropped>>
    PROVE  /\ newTable \in Tables(range) /\ MappedOnce(newTable)
           /\ QueueOK' /\ WorkerOK'
<1> DEFINE claim == <<worker.key, NextPort.port>>
<1>1. claim \in Claim
  <2>1. /\ worker.key \in Service /\ worker.version \in ServiceVersion
        /\ worker.next \in Nat \ {0} /\ worker.next <= Len(worker.version.ports)
    BY DEF IInv, WorkerOK, WorkerStates, MappingPorts
  <2>2. NextPort.port \in Port
    BY <2>1, VersionPorts DEF NextPort
  <2> QED
    BY <2>1, <2>2, KeysAndClaims
<1>2. CASE IsMapped(table, claim) /\ newTable = table /\ KeepPort(NextPort, Find(table, claim))
  <2>1. Find(table, claim) \in MeshPort
    BY <1>2, FindReturnsHolder
  <2> QED
    BY <1>2, <2>1, IterationKeepsWorker
<1>3. CASE /\ ~IsMapped(table, claim) /\ CanAdd(table) /\ newTable = Add(table, claim)
           /\ KeepPort(NextPort, FirstAvailable(table))
  <2>1. FirstAvailable(table) \in MeshPort
    BY <1>3, FirstAvailableIsFree
  <2>2. newTable \in Tables(range) /\ MappedOnce(newTable)
    BY <1>1, <1>3, AddKeepsMappedOnce
  <2> QED
    BY <1>3, <2>1, <2>2, IterationKeepsWorker
<1>4. CASE newTable = table /\ SkipPort
  BY <1>4, IterationKeepsWorker
<1> QED
  BY <1>2, <1>3, <1>4 DEF MapTablePort

\* A TCP port is mapped in the TCP table.
LEMMA MapTCPPortKeepsIInv ==
    ASSUME IInv, MapTCPPort
    PROVE  IInv'
<1>1. tcp' \in Tables(TCPPorts) /\ MappedOnce(tcp') /\ QueueOK' /\ WorkerOK'
  BY MapTablePortOK, RangesAreNaturals DEF IInv, TablesOK, MapTCPPort
<1>2. /\ InputsOK' /\ ShadowsOK' /\ conf' \subseteq RouteType
      /\ udp' \in Tables(UDPPorts) /\ MappedOnce(udp')
  BY DEF MapTCPPort, clusterVars, budgetVars, IInv, InputsOK, ShadowsOK, TablesOK
<1> QED
  BY <1>1, <1>2 DEF IInv, TablesOK

\* A UDP port is mapped in the UDP table.
LEMMA MapUDPPortKeepsIInv ==
    ASSUME IInv, MapUDPPort
    PROVE  IInv'
<1>1. udp' \in Tables(UDPPorts) /\ MappedOnce(udp') /\ QueueOK' /\ WorkerOK'
  BY MapTablePortOK, RangesAreNaturals DEF IInv, TablesOK, MapUDPPort
<1>2. /\ InputsOK' /\ ShadowsOK' /\ conf' \subseteq RouteType
      /\ tcp' \in Tables(TCPPorts) /\ MappedOnce(tcp')
  BY DEF MapUDPPort, clusterVars, budgetVars, IInv, InputsOK, ShadowsOK, TablesOK
<1> QED
  BY <1>1, <1>2 DEF IInv, TablesOK

\* cleanupPortMappings and the write, whether it succeeds, fails or both.
LEMMA WriteShadowKeepsIInv ==
    ASSUME IInv, WriteShadow
    PROVE  IInv'
<1> DEFINE s == worker.key
<1>1. /\ s \in Service /\ worker.pc = "ports" /\ worker.ports \in SUBSET ShadowPort
      /\ OnePortPerNumber(worker.ports)
  BY DEF IInv, WorkerOK, WorkerStates, WriteShadow
<1>2. TablesOK'
  BY ReleasePortsKeepsTables DEF IInv, WriteShadow
<1>3. QueueOK' /\ WorkerOK'
  BY <1>1, SyncedKeepsQueue, FailItemKeepsQueue DEF IInv, WriteShadow, CallFaults
<1>4. ShadowsOK'
  <2>1. \/ ShadowWritten(s, worker.ports)
        \/ UNCHANGED <<shadows, shadowCache, shadowWatch>>
    BY DEF WriteShadow, CallFaults
  <2>2. CASE ShadowWritten(s, worker.ports)
    BY <1>1, <2>2, ShadowWrittenOK DEF IInv
  <2> QED
    BY <2>1, <2>2 DEF IInv, ShadowsOK
<1>5. InputsOK' /\ conf' \subseteq RouteType
  BY DEF WriteShadow, CallFaults, IInv, InputsOK
<1> QED
  BY <1>2, <1>3, <1>4, <1>5 DEF IInv

\* Delete removes the mappings of the shadow service in the lister.
LEMMA StartDeleteKeepsIInv ==
    ASSUME IInv, StartDelete
    PROVE  IInv'
<1>1. /\ worker.key \in Service /\ worker \in WorkerStates /\ worker.pc = "shadow"
      /\ worker.ports = {} /\ worker.next = 1
  BY DEF IInv, WorkerOK, StartDelete
<1>2. TablesOK'
  BY ReleasePortsKeepsTables DEF IInv, StartDelete
<1>3. InputsOK' /\ ShadowsOK' /\ conf' \subseteq RouteType
  BY DEF StartDelete, clusterVars, budgetVars, IInv, InputsOK, ShadowsOK
<1>4. CASE Synced
  BY <1>1, <1>2, <1>3, <1>4, SyncedKeepsQueue DEF IInv
<1>5. CASE worker' = [worker EXCEPT !.pc = "delete"] /\ UNCHANGED <<wq, dropped>>
  <2>1. /\ worker' \in WorkerStates /\ worker'.pc = "delete" /\ worker'.key = worker.key
        /\ worker'.ports = {} /\ worker'.next = 1
    BY <1>1, <1>5 DEF WorkerStates
  <2>2. QueueOK' /\ WorkerOK'
    BY <1>1, <1>5, <2>1, WorkerGoesOn DEF IInv, WorkerOK
  <2> QED
    BY <1>2, <1>3, <2>2 DEF IInv
<1> QED
  BY <1>4, <1>5 DEF StartDelete

\* The API call of Delete, whether it succeeds, fails or both.
LEMMA DeleteShadowKeepsIInv ==
    ASSUME IInv, DeleteShadow
    PROVE  IInv'
<1>1. worker.key \in Service /\ worker.pc = "delete"
  BY DEF IInv, WorkerOK, DeleteShadow
<1>2. QueueOK' /\ WorkerOK'
  BY <1>1, SyncedKeepsQueue, FailItemKeepsQueue DEF IInv, DeleteShadow, CallFaults
<1>3. ShadowsOK'
  <2>1. \/ ShadowWritten(worker.key, NoShadow)
        \/ UNCHANGED <<shadows, shadowCache, shadowWatch>>
    BY DEF DeleteShadow, CallFaults
  <2>2. CASE ShadowWritten(worker.key, NoShadow)
    BY <1>1, <2>2, ShadowWrittenOK DEF IInv, NoShadow, OnePortPerNumber
  <2> QED
    BY <2>1, <2>2 DEF IInv, ShadowsOK
<1>4. InputsOK' /\ TablesOK' /\ conf' \subseteq RouteType
  BY DEF DeleteShadow, CallFaults, IInv, InputsOK, TablesOK
<1> QED
  BY <1>2, <1>3, <1>4 DEF IInv

\* The worker publishes the routes and marks its key Done.
LEMMA BuildConfigKeepsIInv ==
    ASSUME IInv, BuildConfig
    PROVE  IInv'
<1> DEFINE k == worker.key
<1>1. k \in Key /\ wq \in WorkQueues /\ QueueConsistent(wq) /\ wq.processing = {k}
  BY DEF IInv, QueueOK, WorkIsQueuedOnce, WorkerOK, WorkerStates, BuildConfig
<1>2. /\ Forgotten(wq, k) \in WorkQueues /\ QueueConsistent(Forgotten(wq, k))
      /\ Forgotten(wq, k).processing = {k}
  BY <1>1, ForgottenConsistent
<1>3. wq' \in WorkQueues /\ QueueConsistent(wq') /\ wq'.processing = {}
  BY <1>1, <1>2, FinishedConsistent DEF BuildConfig
<1>4. worker' = IdleWorker
  BY DEF BuildConfig
<1>5. QueueOK'
  BY <1>3, <1>4 DEF IInv, QueueOK, WorkIsQueuedOnce, IdleWorker, BuildConfig
<1>6. WorkerOK'
  BY <1>4, IdleWorkerOK
<1>7. conf' \subseteq RouteType
  BY RoutesTyped DEF IInv, BuildConfig
<1>8. InputsOK' /\ ShadowsOK' /\ TablesOK'
  BY DEF BuildConfig, clusterVars, budgetVars, IInv, InputsOK, ShadowsOK, TablesOK
<1> QED
  BY <1>5, <1>6, <1>7, <1>8 DEF IInv

--------------------------------------------------------------------------------
(* Crash, restart and the initial state *)

\* The memory of a new process.
LEMMA ResetState ==
    ASSUME tcp' = EmptyTable(TCPPorts), udp' = EmptyTable(UDPPorts), wq' = EmptyQueue,
           worker' = IdleWorker, dropped' = {}
    PROVE  TablesOK' /\ QueueOK' /\ WorkerOK'
<1>1. TablesOK'
  BY EmptyTableType DEF TablesOK
<1>2. QueueOK'
  BY EmptyQueueConsistent DEF QueueOK, WorkIsQueuedOnce, EmptyQueue, IdleWorker
<1> QED
  BY <1>1, <1>2, IdleWorkerOK

\* A crash loses the memory of the process and nothing else.
LEMMA CrashKeepsIInv ==
    ASSUME IInv, Crash
    PROVE  IInv'
<1>1. TablesOK' /\ QueueOK' /\ WorkerOK'
  BY ResetState DEF Crash
<1>2. InputsOK'
  <2>1. up' = FALSE
    BY DEF Crash
  <2>2. up' \in BOOLEAN
    BY <2>1, Zenon
  <2>3. /\ svcs' = svcs /\ events' = << >> /\ changes' = changes /\ faults' = faults
        /\ crashes' = crashes + 1
    BY DEF Crash
  <2> QED
    BY <2>2, <2>3 DEF IInv, InputsOK
<1>3. shadowWatch' \in [Service -> Seq(SUBSET ShadowPort)]
  BY DEF Crash
<1>4. ShadowsOK'
  BY <1>3 DEF IInv, ShadowsOK, Crash
<1>5. conf' \subseteq RouteType
  BY DEF Crash
<1> QED
  BY <1>1, <1>2, <1>4, <1>5 DEF IInv

\* The informer reports the services of a finite set in some order.
LEMMA OrderingsAreSequences ==
    ASSUME NEW S \in SUBSET Service, NEW q \in Orderings(S)
    PROVE  q \in Seq(Service)
<1>1. IsFiniteSet(S)
  BY FS_Subset, NameAssumption
<1>2. Cardinality(S) \in Nat
  BY <1>1, FS_CardinalityType
<1>3. q \in [1 .. Cardinality(S) -> Service]
  BY DEF Orderings
<1> QED
  BY <1>2, <1>3

\* What LoadState reads after any history of failed calls and crashes has one
\* target per claim.
LEMMA ShadowEntriesHaveOneTarget ==
    ASSUME ShadowsOK
    PROVE  \A e, f \in ShadowEntries : e.claim = f.claim => e.target = f.target
<1> SUFFICES ASSUME NEW e \in ShadowEntries, NEW f \in ShadowEntries, e.claim = f.claim
             PROVE  e.target = f.target
  OBVIOUS
<1>1. PICK s \in Service : \E p \in shadows[s] :
          e = [target |-> p.target, claim |-> <<s, p.port>>]
  BY DEF ShadowEntries
<1>2. PICK p \in shadows[s] : e = [target |-> p.target, claim |-> <<s, p.port>>]
  BY <1>1
<1>3. PICK t \in Service : \E q \in shadows[t] :
          f = [target |-> q.target, claim |-> <<t, q.port>>]
  BY DEF ShadowEntries
<1>4. PICK q \in shadows[t] : f = [target |-> q.target, claim |-> <<t, q.port>>]
  BY <1>3
<1>5. s = t /\ p.port = q.port
  BY <1>2, <1>4
<1> QED
  BY <1>2, <1>4, <1>5 DEF ShadowsOK, OnePortPerNumber

\* A start loads the tables from the shadow services.
LEMMA StartKeepsIInv ==
    ASSUME IInv, Start
    PROVE  IInv'
<1>1. TablesOK'
  BY LoadedMapsOnce, ShadowEntriesHaveOneTarget DEF IInv, TablesOK, Start
<1>2. events' \in Seq(Service)
  BY OrderingsAreSequences DEF Start
<1>3. InputsOK'
  BY <1>2 DEF IInv, InputsOK, Start, clusterVars, budgetVars
<1>4. ShadowsOK' /\ QueueOK' /\ WorkerOK' /\ conf' \subseteq RouteType
  BY DEF Start, clusterVars, IInv, ShadowsOK, QueueOK, WorkIsQueuedOnce, WorkerOK
<1> QED
  BY <1>1, <1>3, <1>4 DEF IInv

\* The invariant holds before the first start.
LEMMA IInvInitially == Init => IInv
<1> SUFFICES ASSUME Init PROVE IInv
  OBVIOUS
<1>1. InputsOK
  <2>1. up = FALSE
    BY DEF Init
  <2>2. up \in BOOLEAN
    BY <2>1, Zenon
  <2> QED
    BY <2>2 DEF Init, InputsOK
<1>2. ShadowsOK
  BY DEF Init, ShadowsOK, NoShadow, OnePortPerNumber
<1>3. TablesOK
  BY EmptyTableType DEF Init, TablesOK
<1>4. QueueOK
  BY EmptyQueueConsistent DEF Init, QueueOK, WorkIsQueuedOnce, EmptyQueue, IdleWorker
<1>5. WorkerOK
  BY IdleWorkerTyped DEF Init, WorkerOK, IdleWorker
<1> QED
  BY <1>1, <1>2, <1>3, <1>4, <1>5 DEF Init, IInv

\* Every step keeps the invariant.
LEMMA IInvPreserved == IInv /\ [Next]_vars => IInv'
<1> SUFFICES ASSUME IInv, [Next]_vars PROVE IInv'
  OBVIOUS
<1>1. CASE UNCHANGED vars
  BY <1>1 DEF vars, IInv, InputsOK, ShadowsOK, TablesOK, QueueOK, WorkIsQueuedOnce, WorkerOK
<1>2. ASSUME NEW s \in Service, ChangeService(s) \/ DeleteUnseen(s) \/ ListerCatchesUp(s)
      PROVE  IInv'
  BY <1>2, ChangeServiceKeepsIInv, DeleteUnseenKeepsIInv, ListerCatchesUpKeepsIInv
<1>3. CASE HandleEvent \/ OtherResourceEvent
  BY <1>3, HandleEventKeepsIInv, OtherResourceEventKeepsIInv
<1>4. ASSUME NEW k \in Key, DelayExpires(k) PROVE IInv'
  BY <1>4, DelayExpiresKeepsIInv
<1>5. CASE WorkerStep
  <2>1. CASE GetKey \/ ReadService \/ StartCreateOrUpdate
    BY <2>1, GetKeyKeepsIInv, ReadServiceKeepsIInv, StartCreateOrUpdateKeepsIInv
  <2>2. CASE SkipUnsuitablePort \/ MapHTTPPort \/ MapTCPPort \/ MapUDPPort
    BY <2>2, SkipUnsuitablePortKeepsIInv, MapHTTPPortKeepsIInv, MapTCPPortKeepsIInv,
       MapUDPPortKeepsIInv
  <2>3. CASE WriteShadow \/ StartDelete \/ DeleteShadow \/ BuildConfig
    BY <2>3, WriteShadowKeepsIInv, StartDeleteKeepsIInv, DeleteShadowKeepsIInv,
       BuildConfigKeepsIInv
  <2> QED
    BY <1>5, <2>1, <2>2, <2>3 DEF WorkerStep
<1>6. CASE Crash \/ Start
  BY <1>6, CrashKeepsIInv, StartKeepsIInv
<1> QED
  BY <1>1, <1>2, <1>3, <1>4, <1>5, <1>6 DEF Next

\* The invariant holds at all times.
LEMMA IInvAlways == Spec => []IInv
BY IInvInitially, IInvPreserved, PTL DEF Spec

--------------------------------------------------------------------------------
(* The theorems *)

\* Every variable of the controller holds what the code can store in it, in
\* particular a worker that maps ports does so for a service it has read.
THEOREM ControllerTypeOK == Spec => []TypeOK
<1>1. IInv => TypeOK
  BY DEF IInv, InputsOK, ShadowsOK, TablesOK, QueueOK, WorkerOK, RouteType, TypeOK
<1> QED
  BY <1>1, IInvAlways, PTL

\* No service port ever holds two mesh ports, neither by an Add nor by a LoadState
\* from the shadow services that crashes and failed calls left behind: Find, Remove
\* and the callers' release loops act on the one entry there is.
THEOREM ServicePortsHaveOneMeshPort == Spec => []OneMeshPortPerClaim
<1>1. IInv => OneMeshPortPerClaim
  BY DEF IInv, TablesOK, OneMeshPortPerClaim
<1> QED
  BY <1>1, IInvAlways, PTL

\* The handlers, the back-offs and the worker use the queue so that a key is queued
\* exactly when it is dirty and not in process, and the one in process is the key the
\* worker will mark Done.
THEOREM KeysAreQueuedOnce == Spec => []WorkIsQueuedOnce
<1>1. IInv => WorkIsQueuedOnce
  BY DEF IInv, QueueOK
<1> QED
  BY <1>1, IInvAlways, PTL
================================================================================

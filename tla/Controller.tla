------------------------------- MODULE Controller -------------------------------
(***************************************************************************)
(* The mesh controller of pkg/controller: the shared informer and its       *)
(* handler, the work queue, the one worker that keeps a shadow service per  *)
(* user service, the TCP and UDP port mapping tables, and the routing       *)
(* configuration published at the end of every successful work item.        *)
(*                                                                          *)
(* Around it: users who create, change and delete services, the Kubernetes  *)
(* API server holding the shadow services, the lister that shows them with  *)
(* a delay, failing API calls, and crashes and restarts of the process.     *)
(*                                                                          *)
(* User services exist here as the informer cache shows them: the           *)
(* controller reads them nowhere else, so a user's change and its arrival   *)
(* in the cache are one step.  The shadow services are written to the API   *)
(* server and read from the cache, so these two are kept apart.             *)
(***************************************************************************)
EXTENDS Integers, Sequences, FiniteSets, PortMapping, WorkQueue

CONSTANTS
    Service,        \* names (namespace and name) of user services
    Port,           \* port numbers of services
    ServiceVersion, \* the versions users give to services, see VersionAssumption
    RefreshKey,     \* configRefreshKey
    Absent,         \* no such object
    MinHTTPPort, MaxHTTPPort, MinTCPPort, MaxTCPPort, MinUDPPort, MaxUDPPort,
    MaxRetries,     \* maxRetries
    ListerLag,      \* may the lister show a shadow service as it was earlier?
    Tombstones,     \* may a deletion reach the informer only as a tombstone?
    MaxChanges,     \* bound: events on user services and other resources
    MaxFaults,      \* bound: API calls that fail
    MaxCrashes      \* bound: crashes of the controller

HTTPPorts == MinHTTPPort .. MaxHTTPPort
TCPPorts == MinTCPPort .. MaxTCPPort
UDPPorts == MinUDPPort .. MaxUDPPort
MeshPort == HTTPPorts \cup TCPPorts \cup UDPPorts

Protocol == {"TCP", "UDP"}
TrafficType == {"http", "tcp", "udp", "unsupported"}

\* The fields of a service the controller reads.  watched is FALSE for a service
\* the resource filter ignores because of its ExternalName type.
ServicePort == [port : Port, proto : Protocol]
Version == [type : TrafficType, watched : BOOLEAN, ports : Seq(ServicePort)]

\* A shadow service is the set of its ports.  The API server keeps no service without
\* ports, so the empty set stands for "no such shadow service".
ShadowPort == [port : Port, proto : Protocol, target : MeshPort]
NoShadow == {}

\* The API server rejects a service that lists a port and protocol twice.
ASSUME VersionAssumption ==
    /\ ServiceVersion \subseteq Version
    /\ \A v \in ServiceVersion : \A i, j \in 1 .. Len(v.ports) :
           v.ports[i] = v.ports[j] => i = j

\* cmd/mesh computes the ranges from limits that keep them apart by default.
ASSUME RangeAssumption ==
    /\ {MinHTTPPort, MaxHTTPPort, MinTCPPort, MaxTCPPort, MinUDPPort, MaxUDPPort}
           \subseteq Nat
    /\ MinHTTPPort <= MaxHTTPPort /\ MaxHTTPPort < MinTCPPort
    /\ MinTCPPort <= MaxTCPPort /\ MaxTCPPort < MinUDPPort

ASSUME NameAssumption ==
    /\ Claim = Service \X Port
    /\ Key = Service \cup {RefreshKey}
    /\ RefreshKey \notin Service
    /\ Absent \notin ServiceVersion
    /\ IsFiniteSet(Service)

ASSUME BoundAssumption ==
    /\ {MaxRetries, MaxChanges, MaxFaults, MaxCrashes} \subseteq Nat
    /\ {ListerLag, Tombstones} \subseteq BOOLEAN

VARIABLES
    svcs,           \* the user services in the informer cache
    events,         \* the handler calls the informer still has to make, in order
    shadows,        \* the shadow services on the API server
    shadowCache,    \* the shadow services as the lister shows them
    shadowWatch,    \* per shadow service, the changes not yet in the lister
    up,             \* is the process running?
    tcp, udp,       \* tcpStateTable and udpStateTable
    wq,             \* workQueue
    worker,         \* the worker goroutine: its place in the code and its locals
    conf,           \* the routes of the configuration last stored
    dropped,        \* keys handleErr gave up on, until they are taken again
    changes, faults, crashes

clusterVars == <<svcs, shadows, shadowCache, shadowWatch>>
budgetVars == <<changes, faults, crashes>>
vars == <<svcs, events, shadows, shadowCache, shadowWatch, up, tcp, udp, wq,
          worker, conf, dropped, changes, faults, crashes>>

--------------------------------------------------------------------------------
(* Services, ports and routes *)

Watched(v) == v # Absent /\ v.watched

\* Fault: only the new object is looked at.
NotifiedOfNew(old, new) == Watched(new)

\* The FilteringResourceEventHandler calls the handler when either side of the
\* change passes the filter.
Notified(old, new) == Watched(old) \/ Watched(new)

\* isPortSuitable
Suitable(type, sp) ==
    IF type = "udp" THEN sp.proto = "UDP"
    ELSE type \in {"tcp", "http"} /\ sp.proto = "TCP"

HTTPPort(i) == MinHTTPPort + i - 1

\* Fault: only the first port of the service is compared.
ContainsFirst(v, p) ==
    Len(v.ports) > 0 /\ v.ports[1].port = p.port /\ v.ports[1].proto = p.proto

\* containsPort, for a shadow port and a version of the service
Contains(v, p) ==
    \E i \in 1 .. Len(v.ports) :
        v.ports[i].port = p.port /\ v.ports[i].proto = p.proto

\* removeServicePortMapping, for a set of ports of the shadow service of s: the
\* claims it removes from the table of the given protocol.  HTTP ports are in no
\* table.
MappedClaims(s, ports, proto) ==
    {<<s, p.port>> : p \in {x \in ports : x.proto = proto /\ x.target > MaxHTTPPort}}

ReleasePorts(s, ports) ==
    /\ tcp' = Release(tcp, MappedClaims(s, ports, "TCP"))
    /\ udp' = Release(udp, MappedClaims(s, ports, "UDP"))

\* BuildConfig without traffic targets and splits: the entry point of the route of
\* each port of each service in the topology.  Two HTTP ports with one number
\* have one router key, and the last of them keeps it.
HTTPRoutes(s, v) ==
    {[svc |-> s, port |-> v.ports[i].port, entry |-> HTTPPort(i)] :
        i \in {j \in 1 .. Len(v.ports) :
                /\ HTTPPort(j) <= MaxHTTPPort
                /\ \A k \in j + 1 .. Len(v.ports) :
                       v.ports[k].port = v.ports[j].port => HTTPPort(k) > MaxHTTPPort}}

TableRoutes(s, v, table) ==
    {[svc |-> s, port |-> v.ports[i].port, entry |-> Find(table, <<s, v.ports[i].port>>)] :
        i \in {j \in 1 .. Len(v.ports) : IsMapped(table, <<s, v.ports[j].port>>)}}

RoutesOf(s, v) ==
    CASE v.type = "http" -> HTTPRoutes(s, v)
      [] v.type = "tcp" -> TableRoutes(s, v, tcp)
      [] v.type = "udp" -> TableRoutes(s, v, udp)
      [] OTHER -> {}

Routes == UNION {RoutesOf(s, svcs[s]) : s \in {x \in Service : Watched(svcs[x])}}

--------------------------------------------------------------------------------
(* Initial state *)

\* The worker's locals: the key in process, the version read from the lister, the
\* shadow service read from the lister and whether it was current, the index of
\* the next port to map and the shadow ports mapped so far.
IdleWorker ==
    [pc |-> "idle", key |-> RefreshKey, version |-> Absent, old |-> NoShadow,
     fresh |-> TRUE, next |-> 1, ports |-> {}]

Init ==
    /\ svcs = [s \in Service |-> Absent]
    /\ events = << >>
    /\ shadows = [s \in Service |-> NoShadow]
    /\ shadowCache = shadows
    /\ shadowWatch = [s \in Service |-> << >>]
    /\ up = FALSE
    /\ tcp = EmptyTable(TCPPorts)
    /\ udp = EmptyTable(UDPPorts)
    /\ wq = EmptyQueue
    /\ worker = IdleWorker
    /\ conf = {}
    /\ dropped = {}
    /\ changes = 0 /\ faults = 0 /\ crashes = 0

--------------------------------------------------------------------------------
(* Users, informers and the delaying queue *)

\* A service is created, updated or deleted, and the informer cache shows it.
ChangeService(s) ==
    /\ changes < MaxChanges
    /\ \E v \in ServiceVersion \cup {Absent} :
        /\ v # svcs[s]
        /\ svcs' = [svcs EXCEPT ![s] = v]
        /\ events' = IF up /\ Notified(svcs[s], v) THEN Append(events, s) ELSE events
    /\ changes' = changes + 1
    /\ UNCHANGED <<shadows, shadowCache, shadowWatch, up, tcp, udp, wq, worker,
                   conf, dropped, faults, crashes>>

\* The informer missed the deletion and learns of it from a new list: the handler
\* would get a DeletedFinalStateUnknown, which IsIgnored cannot read and ignores.
DeleteUnseen(s) ==
    /\ Tombstones
    /\ changes < MaxChanges
    /\ up
    /\ svcs[s] # Absent
    /\ svcs' = [svcs EXCEPT ![s] = Absent]
    /\ changes' = changes + 1
    /\ UNCHANGED <<events, shadows, shadowCache, shadowWatch, up, tcp, udp, wq,
                   worker, conf, dropped, faults, crashes>>

\* OnAdd, OnUpdate or OnDelete of a service: its key is enqueued.
HandleEvent ==
    /\ events # << >>
    /\ wq' = Added(wq, Head(events))
    /\ events' = Tail(events)
    /\ UNCHANGED <<clusterVars, up, tcp, udp, worker, conf, dropped, budgetVars>>

\* An event on another watched resource: the configuration has to be rebuilt.
OtherResourceEvent ==
    /\ up
    /\ changes < MaxChanges
    /\ wq' = Added(wq, RefreshKey)
    /\ changes' = changes + 1
    /\ UNCHANGED <<clusterVars, events, up, tcp, udp, worker, conf, dropped,
                   faults, crashes>>

DelayExpires(k) ==
    /\ k \in wq.waiting
    /\ wq' = Ripened(wq, k)
    /\ UNCHANGED <<clusterVars, events, up, tcp, udp, worker, conf, dropped, budgetVars>>

\* The lister catches up with one change of a shadow service.  The resource filter
\* ignores shadow services (app=maesh), so no handler is called.
ListerCatchesUp(s) ==
    /\ shadowWatch[s] # << >>
    /\ shadowCache' = [shadowCache EXCEPT ![s] = Head(shadowWatch[s])]
    /\ shadowWatch' = [shadowWatch EXCEPT ![s] = Tail(@)]
    /\ UNCHANGED <<svcs, events, shadows, up, tcp, udp, wq, worker, conf, dropped,
                   budgetVars>>

\* A write of the shadow service of s reaches the API server.  An update that
\* changes nothing makes no event.
ShadowWritten(s, new) ==
    /\ shadows' = [shadows EXCEPT ![s] = new]
    /\ IF new = shadows[s] THEN UNCHANGED <<shadowCache, shadowWatch>>
       ELSE IF ListerLag
       THEN /\ shadowWatch' = [shadowWatch EXCEPT ![s] = Append(@, new)]
            /\ UNCHANGED shadowCache
       ELSE /\ shadowCache' = [shadowCache EXCEPT ![s] = new]
            /\ UNCHANGED shadowWatch

--------------------------------------------------------------------------------
(* The worker: processNextWorkItem *)

GetKey ==
    /\ worker.pc = "idle"
    /\ CanGet(wq)
    /\ LET k == Head(wq.queue)
       IN  /\ wq' = Taken(wq)
           /\ worker' = [IdleWorker EXCEPT !.key = k,
                            !.pc = IF k = RefreshKey THEN "build" ELSE "sync"]
           /\ dropped' = dropped \ {k}
    /\ UNCHANGED <<clusterVars, events, up, tcp, udp, conf, budgetVars>>

\* Fault: the failed key is only marked Done.
FailItemSilently ==
    /\ wq' = Finished(wq, worker.key)
    /\ worker' = IdleWorker
    /\ UNCHANGED dropped

\* handleErr and the deferred Done.
FailItem ==
    LET k == worker.key
    IN  /\ IF NumRequeues(wq, k) < MaxRetries
           THEN /\ wq' = Finished(Delayed(wq, k), k)
                /\ dropped' = dropped
           ELSE /\ wq' = Finished(Forgotten(wq, k), k)
                /\ dropped' = dropped \cup {k}
        /\ worker' = IdleWorker

\* The shadow service is in place: go on and rebuild the configuration.
Synced ==
    /\ worker' = [IdleWorker EXCEPT !.pc = "build", !.key = worker.key]
    /\ UNCHANGED <<wq, dropped>>

\* syncShadowService reads the service.
ReadService ==
    /\ worker.pc = "sync"
    /\ worker' = [worker EXCEPT !.pc = "shadow", !.version = svcs[worker.key]]
    /\ UNCHANGED <<clusterVars, events, up, tcp, udp, wq, conf, dropped, budgetVars>>

\* CreateOrUpdate reads the shadow service and removes the mappings of the ports
\* the service no longer has.  An unsupported traffic type fails only after that.
StartCreateOrUpdate ==
    /\ worker.pc = "shadow"
    /\ worker.version # Absent
    /\ LET s == worker.key
           old == shadowCache[s]
       IN  /\ ReleasePorts(s, {p \in old : ~Contains(worker.version, p)})
           /\ IF worker.version.type = "unsupported" THEN FailItem
              ELSE /\ worker' = [worker EXCEPT !.pc = "ports", !.old = old,
                                               !.fresh = shadowWatch[s] = << >>]
                   /\ UNCHANGED <<wq, dropped>>
    /\ UNCHANGED <<clusterVars, events, up, conf, budgetVars>>

\* One iteration of getShadowServicePorts.
SkipPort == worker' = [worker EXCEPT !.next = @ + 1]

KeepPort(sp, target) ==
    worker' = [worker EXCEPT !.next = @ + 1,
                  !.ports = @ \cup {[port |-> sp.port, proto |-> sp.proto,
                                     target |-> target]}]

NextPort == worker.version.ports[worker.next]

MappingPorts(type) ==
    /\ worker.pc = "ports"
    /\ worker.next <= Len(worker.version.ports)
    /\ worker.version.type = type

SkipUnsuitablePort ==
    /\ \E type \in TrafficType : MappingPorts(type) /\ ~Suitable(type, NextPort)
    /\ SkipPort
    /\ UNCHANGED <<clusterVars, events, up, tcp, udp, wq, conf, dropped, budgetVars>>

\* Fault: the last HTTP entry point is passed by one.
MapHTTPPortBeyond ==
    /\ MappingPorts("http")
    /\ Suitable("http", NextPort)
    /\ IF HTTPPort(worker.next) > MaxHTTPPort + 1 THEN SkipPort
       ELSE KeepPort(NextPort, HTTPPort(worker.next))
    /\ UNCHANGED <<clusterVars, events, up, tcp, udp, wq, conf, dropped, budgetVars>>

MapHTTPPort ==
    /\ MappingPorts("http")
    /\ Suitable("http", NextPort)
    /\ IF HTTPPort(worker.next) > MaxHTTPPort THEN SkipPort
       ELSE KeepPort(NextPort, HTTPPort(worker.next))
    /\ UNCHANGED <<clusterVars, events, up, tcp, udp, wq, conf, dropped, budgetVars>>

\* Fault: a mapping is added without looking for the known one.
MapTablePortAnew(table, newTable) ==
    LET claim == <<worker.key, NextPort.port>>
    IN  \/ /\ CanAdd(table)
           /\ newTable = Add(table, claim)
           /\ KeepPort(NextPort, FirstAvailable(table))
        \/ /\ ~CanAdd(table)
           /\ newTable = table
           /\ SkipPort

\* getMappedPort on a table: the known mapping, a new one, or an error, on which
\* the port is left out of the shadow service.
MapTablePort(table, newTable) ==
    LET claim == <<worker.key, NextPort.port>>
    IN  \/ /\ IsMapped(table, claim)
           /\ newTable = table
           /\ KeepPort(NextPort, Find(table, claim))
        \/ /\ ~IsMapped(table, claim)
           /\ CanAdd(table)
           /\ newTable = Add(table, claim)
           /\ KeepPort(NextPort, FirstAvailable(table))
        \/ /\ ~IsMapped(table, claim)
           /\ ~CanAdd(table)
           /\ newTable = table
           /\ SkipPort

MapTCPPort ==
    /\ MappingPorts("tcp")
    /\ Suitable("tcp", NextPort)
    /\ MapTablePort(tcp, tcp')
    /\ UNCHANGED <<clusterVars, events, up, udp, wq, conf, dropped, budgetVars>>

MapUDPPort ==
    /\ MappingPorts("udp")
    /\ Suitable("udp", NextPort)
    /\ MapTablePort(udp, udp')
    /\ UNCHANGED <<clusterVars, events, up, tcp, wq, conf, dropped, budgetVars>>

\* A call to the API server fails, although it may have been carried out.
CallFaults(effect, noEffect) ==
    /\ faults < MaxFaults
    /\ faults' = faults + 1
    /\ FailItem
    /\ effect \/ noEffect

\* The API server refuses a service without ports, a Create of an existing object
\* (AlreadyExists), and an Update of a missing object (NotFound) or from another
\* version than the current one (Conflict).
WriteAccepted ==
    /\ worker.ports # {}
    /\ IF worker.old = NoShadow THEN shadows[worker.key] = NoShadow ELSE worker.fresh

\* The end of CreateOrUpdate: cleanupPortMappings if the shadow service exists,
\* then Create or Update.  needsCleanup compares port, protocol and target.
WriteShadow ==
    /\ worker.pc = "ports"
    /\ worker.next > Len(worker.version.ports)
    /\ ReleasePorts(worker.key, worker.old \ worker.ports)
    /\ \/ /\ WriteAccepted
          /\ ShadowWritten(worker.key, worker.ports)
          /\ Synced
          /\ UNCHANGED faults
       \/ /\ ~WriteAccepted
          /\ FailItem
          /\ UNCHANGED <<shadows, shadowCache, shadowWatch, faults>>
       \/ CallFaults(WriteAccepted /\ ShadowWritten(worker.key, worker.ports),
                     UNCHANGED <<shadows, shadowCache, shadowWatch>>)
    /\ UNCHANGED <<svcs, events, up, conf, changes, crashes>>

\* Delete: nothing to do without a shadow service in the lister, else the mappings
\* of its ports are removed.
StartDelete ==
    /\ worker.pc = "shadow"
    /\ worker.version = Absent
    /\ LET old == shadowCache[worker.key]
       IN  /\ ReleasePorts(worker.key, old)
           /\ IF old = NoShadow THEN Synced
              ELSE /\ worker' = [worker EXCEPT !.pc = "delete"]
                   /\ UNCHANGED <<wq, dropped>>
    /\ UNCHANGED <<clusterVars, events, up, conf, budgetVars>>

\* Fault: the error of the API call is ignored.
DeleteShadowUnchecked ==
    /\ worker.pc = "delete"
    /\ Synced
    /\ \/ ShadowWritten(worker.key, NoShadow) /\ UNCHANGED faults
       \/ /\ faults < MaxFaults
          /\ faults' = faults + 1
          /\ UNCHANGED <<shadows, shadowCache, shadowWatch>>
    /\ UNCHANGED <<svcs, events, up, tcp, udp, conf, changes, crashes>>

\* The end of Delete: the API call, which fails with NotFound on a missing object.
DeleteShadow ==
    /\ worker.pc = "delete"
    /\ \/ /\ shadows[worker.key] # NoShadow
          /\ ShadowWritten(worker.key, NoShadow)
          /\ Synced
          /\ UNCHANGED faults
       \/ /\ shadows[worker.key] = NoShadow
          /\ FailItem
          /\ UNCHANGED <<shadows, shadowCache, shadowWatch, faults>>
       \/ CallFaults(ShadowWritten(worker.key, NoShadow),
                     UNCHANGED <<shadows, shadowCache, shadowWatch>>)
    /\ UNCHANGED <<svcs, events, up, tcp, udp, conf, changes, crashes>>

\* Build, BuildConfig, SetTopology, SetConfig, Forget and the deferred Done.  The
\* builder reads nothing but listers, so it does not fail.
BuildConfig ==
    /\ worker.pc = "build"
    /\ conf' = Routes
    /\ wq' = Finished(Forgotten(wq, worker.key), worker.key)
    /\ worker' = IdleWorker
    /\ UNCHANGED <<clusterVars, events, up, tcp, udp, dropped, budgetVars>>

WorkerStep ==
    \/ GetKey \/ ReadService
    \/ StartCreateOrUpdate \/ SkipUnsuitablePort
    \/ MapHTTPPort \/ MapTCPPort \/ MapUDPPort \/ WriteShadow
    \/ StartDelete \/ DeleteShadow
    \/ BuildConfig

--------------------------------------------------------------------------------
(* Crash and start *)

\* Everything the process holds in memory is lost.
Crash ==
    /\ up
    /\ crashes < MaxCrashes
    /\ crashes' = crashes + 1
    /\ up' = FALSE
    /\ tcp' = EmptyTable(TCPPorts) /\ udp' = EmptyTable(UDPPorts)
    /\ wq' = EmptyQueue
    /\ worker' = IdleWorker
    /\ events' = << >>
    /\ conf' = {}
    /\ dropped' = {}
    /\ shadowCache' = shadows
    /\ shadowWatch' = [s \in Service |-> << >>]
    /\ UNCHANGED <<svcs, shadows, changes, faults>>

\* The orders in which the informer can report the services of a set.
Orderings(set) ==
    {q \in [1 .. Cardinality(set) -> set] :
        \A i, j \in 1 .. Cardinality(set) : q[i] = q[j] => i = j}

\* What LoadState reads: the target of every shadow port, and its claim.
ShadowEntries ==
    UNION {{[target |-> p.target, claim |-> <<s, p.port>>] : p \in shadows[s]} :
            s \in Service}

\* Run: the informers sync and report every watched service, the port mappers load
\* their state, then the worker starts.
Start ==
    /\ ~up
    /\ up' = TRUE
    /\ events' \in Orderings({s \in Service : Watched(svcs[s])})
    /\ tcp' \in Loaded(TCPPorts, ShadowEntries)
    /\ udp' \in Loaded(UDPPorts, ShadowEntries)
    /\ UNCHANGED <<clusterVars, wq, worker, conf, dropped, budgetVars>>

--------------------------------------------------------------------------------
(* Specification *)

Next ==
    \/ \E s \in Service : ChangeService(s) \/ DeleteUnseen(s) \/ ListerCatchesUp(s)
    \/ HandleEvent \/ OtherResourceEvent
    \/ \E k \in Key : DelayExpires(k)
    \/ WorkerStep
    \/ Crash \/ Start

Spec == Init /\ [][Next]_vars

\* The goroutines run, back-offs end, watches deliver and a stopped pod is started
\* again.  Nothing is assumed of users, faults and crashes.
Fairness ==
    /\ WF_vars(WorkerStep)
    /\ WF_vars(HandleEvent)
    /\ \A k \in Key : WF_vars(DelayExpires(k))
    /\ \A s \in Service : WF_vars(ListerCatchesUp(s))
    /\ WF_vars(Start)

FairSpec == Spec /\ Fairness

--------------------------------------------------------------------------------
(* Types *)

WorkerStates ==
    [pc : {"idle", "sync", "shadow", "ports", "delete", "build"},
     key : Key, version : ServiceVersion \cup {Absent}, old : SUBSET ShadowPort,
     fresh : BOOLEAN, next : Nat \ {0}, ports : SUBSET ShadowPort]

\* Every variable holds what the code can store in it; the worker maps ports only
\* for a service it read.
TypeOK ==
    /\ svcs \in [Service -> ServiceVersion \cup {Absent}]
    /\ events \in Seq(Service)
    /\ shadows \in [Service -> SUBSET ShadowPort]
    /\ shadowCache \in [Service -> SUBSET ShadowPort]
    /\ shadowWatch \in [Service -> Seq(SUBSET ShadowPort)]
    /\ up \in BOOLEAN
    /\ tcp \in Tables(TCPPorts) /\ udp \in Tables(UDPPorts)
    /\ wq \in WorkQueues
    /\ worker \in WorkerStates
    /\ worker.pc \in {"sync", "shadow", "ports", "delete"} => worker.key \in Service
    /\ worker.pc = "ports" => worker.version \in ServiceVersion
    /\ conf \subseteq [svc : Service, port : Port, entry : MeshPort]
    /\ dropped \subseteq Key
    /\ {changes, faults, crashes} \subseteq Nat

--------------------------------------------------------------------------------
(* Mapping tables and queue, whatever the environment does *)

\* PortMapping.Find returns the first entry a map iteration meets, Remove deletes
\* that entry only, and LoadState writes entries without looking for the claim.
\* All of them rely on a service port being mapped once, also after restarts from
\* shadow services that failed calls and stale reads left behind.
OneMeshPortPerClaim == MappedOnce(tcp) /\ MappedOnce(udp)

\* The queue hands out what was added: every dirty key nobody processes is queued
\* exactly once, and the key in process is the worker's.
WorkIsQueuedOnce ==
    /\ QueueConsistent(wq)
    /\ wq.processing = IF worker.pc = "idle" THEN {} ELSE {worker.key}

--------------------------------------------------------------------------------
(* No work is lost *)

\* The ports the shadow service of a version should have, with room in the tables.
WantedPorts(v) ==
    {v.ports[i] : i \in {j \in 1 .. Len(v.ports) :
        Suitable(v.type, v.ports[j]) /\ (v.type = "http" => HTTPPort(j) <= MaxHTTPPort)}}

TargetRange(type) ==
    CASE type = "http" -> HTTPPorts [] type = "tcp" -> TCPPorts [] OTHER -> UDPPorts

Served(s) ==
    LET v == svcs[s]
    IN  /\ shadows[s] # NoShadow
        /\ {[port |-> p.port, proto |-> p.proto] : p \in shadows[s]} = WantedPorts(v)
        /\ \A p \in shadows[s] : p.target \in TargetRange(v.type)

\* Something will still process the key of s, or it was given up and logged.
Pending(s) ==
    \/ \E i \in 1 .. Len(events) : events[i] = s
    \/ s \in wq.dirty \cup wq.processing \cup wq.waiting \cup dropped

\* A watched service whose shadow service is missing or has other ports or another
\* traffic type is never forgotten: not by a change while its key is in process, a
\* stale read, a failed call, a retry or a restart.
NoServiceForgotten ==
    up => \A s \in Service : Watched(svcs[s]) /\ ~Served(s) => Pending(s)

\* Nor is the shadow service of a deleted service.  This needs a lister that is
\* current, deletions that are seen, and no deletion while the process is down.
NoShadowForgotten ==
    up => \A s \in Service : svcs[s] = Absent /\ shadows[s] # NoShadow => Pending(s)

--------------------------------------------------------------------------------
(* Shadow services, tables and routes agree *)

MappedTo(p, s) ==
    /\ p.target \in TCPPorts => tcp[p.target] = <<s, p.port>>
    /\ p.target \in UDPPorts => udp[p.target] = <<s, p.port>>

\* CreateOrUpdate and Delete take the ports of the shadow service for the ports that
\* are mapped for the service (service.go:66, 136).
ShadowPortsAreMapped ==
    up /\ worker.pc \in {"idle", "sync", "shadow", "build"} =>
        \A s \in Service : \A p \in shadows[s] : MappedTo(p, s)

\* No two shadow service ports lead to the same TCP or UDP entry point, at no time,
\* not even between the steps of an update or after a crash in the middle of one:
\* a TCP or UDP router takes all the traffic of its entry point.
ExclusiveTargets ==
    \A s, t \in Service : \A p \in shadows[s], q \in shadows[t] :
        p.target = q.target /\ p.target > MaxHTTPPort => s = t /\ p = q

\* No work is left and nothing was given up.
Quiet ==
    /\ up /\ events = << >> /\ wq.dirty = {} /\ wq.waiting = {} /\ dropped = {}
    /\ worker.pc = "idle"
    /\ \A s \in Service : shadowWatch[s] = << >>

\* Once the work is done, the stored configuration is the one of the current
\* services, and every shadow service port leads to an entry point with a route
\* to its service.
QuietRoutesLeadHome ==
    Quiet =>
        /\ conf = Routes
        /\ \A s \in Service : \A p \in shadows[s] :
               Watched(svcs[s]) => [svc |-> s, port |-> p.port, entry |-> p.target] \in conf

WorkIsLeft ==
    \/ events # << >> \/ wq.dirty # {} \/ wq.waiting # {} \/ dropped # {}
    \/ worker.pc # "idle"

\* A key whose shadow service cannot be synchronised ends before the configuration is
\* built (controller.go:346).  The stored configuration is still the one of the services
\* and tables as they are, or an event, a key, a back-off or a visit stands for a rebuild,
\* or a key was given up and logged.  This needs deletions that are seen.
NoConfigurationForgotten == IF up THEN conf = Routes \/ WorkIsLeft ELSE conf = {}

\* The shadow services on the API server implement an exclusive and stable
\* allocation of the TCP and UDP mesh ports, restarts of the controller included.
Leases ==
    UNION {{[mesh |-> p.target, svc |-> s, port |-> p.port, proto |-> p.proto] :
              p \in {x \in shadows[s] : x.target > MaxHTTPPort}} : s \in Service}

Allocation == INSTANCE PortAllocation
                  WITH MeshPort <- TCPPorts \cup UDPPorts, leases <- Leases

ImplementsAllocation == Allocation!Spec

--------------------------------------------------------------------------------
(* Liveness *)

\* The bounds end the changes, the crashes and the failing calls.  When the failing
\* calls do not exhaust the retries, from then on every watched service ends up
\* served and the configuration is that of the current services.
Converges ==
    <>[](/\ up
         /\ dropped = {}
         /\ conf = Routes
         /\ \A s \in Service : Watched(svcs[s]) => Served(s))

--------------------------------------------------------------------------------
(* What comments of the code promise and the code does not keep *)

\* service.go:111: the clean-up of an update removes the mappings the old version
\* leaves behind, so the ports of the shadow service just stored stay mapped.
StoredPortsAreMapped ==
    worker.pc = "build" /\ worker.key # RefreshKey =>
        \A p \in shadows[worker.key] : MappedTo(p, worker.key)
================================================================================

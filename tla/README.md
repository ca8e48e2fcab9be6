# Verification of the Traefik Mesh controller

TLA+ models of the control plane in `src/` (Traefik Mesh, Go), the TLC runs that check them
on small instances, and theorems with TLAPS proofs. References such as `service.go:113` are
to files under `src/pkg/` unless a directory is given.

Traefik Mesh is a service mesh without sidecars. For every user service the controller keeps a
*shadow service* whose ports lead to entry points of the Traefik proxies (*mesh ports*), and it
publishes a routing configuration in which every entry point of a service has a router to the
service's pods. Requests work only when three things agree: the shadow services on the API
server, the mapping tables of TCP and UDP mesh ports in memory, and the configuration.

## 1. Inventory

| component | source | state | operations | what makes it correct |
|---|---|---|---|---|
| port mapping tables | `controller/portmapping.go` | a map mesh port -> service port, for TCP and UDP | LoadState, Find, Add, Remove | a service port has at most one mesh port; a mesh port is never given out twice; both across restarts |
| shadow service manager | `controller/service.go` | none (tables, lister, API server) | CreateOrUpdate, Delete | shadow ports are mapped; failed calls are retried; nothing is forgotten |
| controller loop | `controller/controller.go` | work queue, stored configuration | Run, Shutdown, processNextWorkItem, handleErr | every change leads to a current configuration; retries end; shutdown drains the queue |
| event handler, resource filter | `controller/handler.go`, `k8s/filter.go` | none | OnAdd, OnUpdate, OnDelete, IsIgnored | every relevant change is queued |
| work queue (client-go) | used in `controller/controller.go` | queue, dirty, processing, waiting, failures | Add, Get, Done, AddRateLimited, Forget | a key is processed by one worker at a time and never lost |
| informers, listers, API server | used in `controller/` | objects, caches, watches | change, notify, write | environment: lag, Conflict, AlreadyExists, NotFound, errors, tombstones |
| topology builder | `topology/builder.go`, `topology.go` | the graph of services, pods, targets, splits | Build | loops of splits are removed, others kept; the pods that may call a split are right |
| routing configuration | `provider/*.go` | none | BuildConfig | every shadow port has a router to its service; ACL lets through exactly the allowed pods |
| process lifecycle | `cmd/mesh/mesh.go`, `cmd/context.go` | context, goroutines, channels, wait groups | start, signal, select, stop | the process ends when told to, after the worker |
| API, shared store | `api/api.go`, `safe/safe.go` | the published configuration and topology, readiness | Set, Get | readers see the last published values |
| DNS configuration, cleanup | `dns/dns.go`, `cleanup/cleanup.go`, `cmd/prepare`, `cmd/cleanup` | config maps, annotations of pods | patch, restart, restore | a patched configuration is used; restore undoes patch; both survive a failure in between |
| annotations | `annotations/*.go` | none | GetTrafficType, middlewares | an unsupported traffic type is an error |
| clients, flags, SMI check, panic wrapper | `k8s/client.go`, `k8s/smi.go`, `cmd/*.go`, `safe/recover.go` | none | construction, parsing | - |

**Interactions.** Informer goroutines call the handler, which adds keys to the work queue. One
worker takes a key, reads the service and its shadow service from *listers* (caches fed by
watches), changes the tables, calls the API server, and finally builds a topology from the
listers and a configuration from the topology and stores it for the API, which the proxies poll.
The handler, the watches, the API server and the worker run concurrently; only the worker touches
the tables. A crash loses the queue, the tables and the configuration; the shadow services remain
and are what LoadState reads.

**Hard behaviours.** A key changed while it is processed; a lister behind the API server; an
API call that fails after the tables were changed; a crash between a table change and the call;
retries with back-off that give up; port tables that are full; a service that changes its traffic
type and thus its table; a change to a type the mesh ignores; deletions no event reports;
shutdown before, during and after start-up; loops of traffic splits. `PROJECT.json` lists each
at the line where it bites.

## 2. Modules

| module | models | extends |
|---|---|---|
| `PortMapping` | the tables as functions from mesh ports to claims (a service and a port), and their operations as operators | - |
| `WorkQueue` | the client-go queue as a record, and its operations as operators | - |
| `Controller` | informer, handler, queue, worker, API server, lister, crash and restart, configuration without ACL and splits | `PortMapping`, `WorkQueue` |
| `PortAllocation` | abstract: mesh ports leased to service ports, exclusively and without moving | - |
| `Lifecycle` | the goroutines of the process: signals, select, API server, Run, wait.Until and the wait groups | - |
| `Topology` | `Builder.Build` | - |
| `RoutingConfig` | `Provider.BuildConfig` with ACL, traffic targets and splits, and a request on its way through the proxies | `Topology` |
| `DNS` | the commands `prepare` and `cleanup`, call by call | - |
| `MCController`, `MCRouting`, `MCDNS` | the instances TLC checks | - |
| `Controller_proofs`, `Lifecycle_proofs`, `DNS_proofs` | theorems | the module and `TLAPS` |
| `Topology_proofs` | theorems: induction and recursive functions, the topology that `Build` returns | `Topology` |
| `RoutingConfig_proofs` | theorems: what the routers make of a request | `RoutingConfig`, `Topology_proofs` |
| `Serving_proofs` | theorems: requests that are allowed are served | `RoutingConfig_proofs` |
| `Sync_proofs` | theorems: no service is forgotten | `Controller_proofs` |
| `Allocation_proofs` | theorems: shadow services and tables agree, the refinement of `PortAllocation`, routes | `Sync_proofs` |

### Controller

* `svcs` are the user services as the informer cache has them. The controller reads them
  nowhere else, so a user's change and its arrival in the cache are one step (`ChangeService`);
  the *event* of the change waits in `events` until `HandleEvent` runs. `Notified` is the filtering
  handler: OnUpdate is called when the old or the new object passes the filter.
* `shadows` are the shadow services on the API server, `shadowCache` what the lister shows,
  `shadowWatch` the versions on their way. With `ListerLag = FALSE` a write is in the cache at once.
* A shadow service is a set of ports with targets. The API server keeps no service without ports,
  so the empty set means "does not exist". That is why an update that leaves no port is *refused*.
* `worker` is the position in `processNextWorkItem`. One visit is cut where other goroutines can
  be seen: `GetKey` (Get), `ReadService` (syncShadowService: the service lister),
  `StartCreateOrUpdate` (the shadow lister and removeUnusedPortMappings), one `SkipPort` or
  `KeepPort` step per port (getShadowServicePorts; finer than any observer needs, but it is where
  a crash can fall), `WriteShadow` (Create or Update, then cleanupPortMappings), `StartDelete`,
  `DeleteShadow`, `BuildConfig` (build and publish, Forget, Done). An error leads to `FailItem`
  (handleErr: AddRateLimited, or give up and Forget; Done is deferred).
* `CallFaults` lets any API call fail while the budget `MaxFaults` lasts; `WriteAccepted` is the
  API server's own answer: AlreadyExists, NotFound, Conflict on an old version, no ports.
* `conf` are the routes: service, port and entry point. HTTP entry points are the index of the port
  in the service, TCP and UDP ones come from the tables.
* `Crash` loses the tables, the queue, the events and the worker; `Start` replays every watched
  service in any order, and loads the tables from the shadow services (`Loaded`: two entries for
  one target are written in any order).

### Lifecycle

Each goroutine is a small program counter. `signals` is the goroutine of `ContextWithSignal`, whose
unbuffered channel drops a signal it does not wait for; `main` is `traefikMeshCommand` with its
select; `run` is `Controller.Run`; `until` is the goroutine of `wait.Until`, which looks at
`stopCh` before it calls the worker for the first time; loading the tables (`LoadState`) may fail, which ends Run; `running` is Run's wait group. Items are
counted, what they do is Controller's matter.

### Topology

`Build` is sequential; what varies is the cluster, chosen in `Init`, and the order in which the map
of splits is ranged over. Loops whose order leaves no trace are one action. The recursion of
`getIncomingPodsForTrafficSplit` is the recursive function `IncomingPods`: its argument is the set of visited
splits, its value a function from splits to outcomes. A backend gets a copy of the set, the splits of one
service share a map. `Selected` is a loop over a sequence that keeps some elements, `WithSplit` an assignment
to the map of splits. `InCommon` is the loop
around `unionPod` (an intersection, despite its name) with both early returns. Rules are sequences of
TCP routes and HTTP route groups, with all matches of a group or the named ones; a rule whose group,
route or match does not exist drops the target or the split (`SpecsExist`). The ports of a target are
those of its service with the number of the target, or all (`DestinationPorts`).

### RoutingConfig

The module continues Topology's state machine where `Build` has ended; the topology is only read from then on.

* `BuildConfig` is one pass of the loop of `BuildConfig` (`provider.go:61`): a service in any order,
  with its routers written over those that are there. `RoutersOf` is `buildConfigForService`: the
  routers that block (or serve) everything, those of the traffic targets, those of the splits; its two
  early returns for wrong annotations are `SkipService`. `Merged` is a map written in a loop, so that two
  routers with the same key are one, the later.
* A router is a record of what decides about a request: the entry point, the rule (services, matches, is
  `X-Forwarded-For` asked for, and the number of `&&` and `||`, which `RulePriority` counts), whom the
  whitelist lets through, the priority, and the pods or backends it leads to. Services, middlewares and
  server URLs of Traefik are part of it.
* The variable `rule`, which the indirect router of one port overwrites before the direct router of the
  next is made (`provider.go:346`, `452`), is the third argument of `RuleOf` in `Direct`.
* The rest is the environment, Traefik and the shadow services, modelled from how the code uses
  them: a caller sends a request to a port of a service (`SendRequest`), the shadow port leads to an entry
  point, the best router that matches decides (`Chosen`), and the request is refused (`Refuse`,
  `FindNoRouter`), finds nobody (`FindNoServer`, `FindNoEntryPoint`), gets to a pod (`Serve`), or is sent
  to a backend of a split, with the address of the last caller in `X-Forwarded-For` (`Forward`).

What the module assumes of Traefik and the cluster: a whitelist with no address lets nobody through;
callers do not send `X-Forwarded-For` themselves; the proxies have the whole configuration. The constant
`Joined` is the text a name adds to a key. Names of one kind have different texts (`KeysAssumption`), which the
code does not make sure: names with hyphens can collide, and the key of a target leaves its namespace out
(`key.go:18`). The model is not meant for such clusters: the keys of whitelists have no port, so two targets
whose texts are equal can have routers of their own and share a whitelist, and a router would not be one record.

### DNS

`prepare` and `cleanup` are processes: `cmd[c].pc` is the call that comes next, and between two
calls a process can fail (`Fail`: a call fails, an answer is lost, or it is killed) and be started
again. The commands can run at the same time. `content` is what each config map says about the
mesh: nothing, nothing but an empty or foreign list of stub domains (`RestoreKubeDNS` tells the two
apart), the block of another release, or the block of this one. `running` is what the pods have
read and `rollout` the deployments whose pods are to be restarted. `current` is which objects a
process has an up-to-date copy of: the API server refuses an update with an old one (`Refused`), and
every accepted update and every other writer (`ObjectChanges`) makes copies old. `CoreMap` is the
choice between `coredns-custom` and the Corefile; the code takes any error of the first read for
"there is none", which is the second disjunct of `ReadCore`. `unsteady` remembers that this, or a
late `CustomAppears`, has happened. The CoreDNS of the mesh, which `ConfigureKubeDNS` configures
too, has its own map and deployment. `last` is the command whose latest process nothing else ran
besides.

The controller may be running all the time: `ControllerCreates` and `ControllerDeletes` are its calls of Create
(`service.go:107`) and Delete, at any moment of a cleanup. `CleanShadowServices` reads one list and deletes what it
lists, so it does not see a shadow service that is created later. The auxiliary variable `created` is the set of
shadow services that exist and were created since the latest cleanup read its list; no guard reads it. A process
that fails loses what it had read (`EndFailed`).

## 3. Runs

| run | question | result |
|---|---|---|
| `MCCalm` | ports that all fit, four changes, one crash: do shadow services, tables and routes agree, and is `PortAllocation` implemented? | yes |
| `MCFaulty` | odd versions (other protocol, unsupported type, beyond the last entry point), a TCP table of one port, two failing calls: are types kept, services, shadow services and the rebuild of the configuration never forgotten? | yes |
| `MCChaos` | lagging lister, tombstones, one failing call, one crash: is a claim mapped once, the queue consistent, no service forgotten? | yes |
| `MCConverge` | liveness: after the last change, fault and crash, is everything served with the current configuration? | yes |
| `MCLifecycle` | does Run wait for the worker, and does the process end? | yes |
| `MCRouting` | topology: are splits without loops kept, are the callers of a split those every service below allows, has a callable split no loop? configuration: is a request served exactly if it is allowed, by the right pod, and does it keep to its ways? | yes |
| `MCDNS` | three starts, two failures, conflicting writers, a controller that creates and deletes shadow services: has a `prepare` or `cleanup` that succeeds done its whole work? | yes |
| `MCMistakeFixed` | does the clean-up only remove leaked mappings (comment at `service.go:111`)? | no |
| `MCLifecycleHang` | does Shutdown shut the controller down (comment at `controller.go:237`) before the worker has started? | no |
| `MCSplitLoop` | are cycles of splits detected (comment at `builder.go:297`)? | no |
| `MCBackendPorts` | do the middlewares of traffic targets work on the second port of a backend (comment at `provider.go:341`)? | no |
| `MCDNSCustom` | does cleanup restore the pre-install state (comment at `dns.go:317`) when `coredns-custom` appears late or cannot be read? | no |

The properties, in the order of the runs:

* `ShadowPortsAreMapped`, `ExclusiveTargets`, `QuietRoutesLeadHome`: the agreement of the three
  pieces of state; the second at every step, also after a crash in the middle of an update. They need
  versions whose ports fit: `MCMistakeFixed` shows what happens when an update is refused.
* `ImplementsAllocation`: `PortAllocation` under the refinement mapping `Leases`: a step of the
  controller changes the leases of one service, takes free mesh ports only, and never moves the
  mesh port of a service port that stays.
* `NoServiceForgotten`, `NoShadowForgotten`: a service that is not served is still in an event,
  the queue, a back-off, in process, or was given up and logged. A lost update would show here.
* `NoConfigurationForgotten`: the stored configuration is the one of the current services and tables, or something
  that is left to do stands for a rebuild, or a key was given up. A visit that fails returns before the topology is
  built (`controller.go:346`), so the rebuild hangs on the retry.
* `OneMeshPortPerClaim`, `WorkIsQueuedOnce`: see section 5.
* `Converges`: the same eventually, under fairness.
* `StopsAfterTheWorker`, `WorkerStopsWithProcess`, `FailedRunEndsProcess`: see section 4.
* `AcyclicSplitsAreKept`, `IncomingIsAllowedEverywhere`, `CallableSplitsHaveNoLoop`: stated on the
  graph of the returned topology, with connections as least closed sets (`Reach`), independently of
  the recursion in the code. `IncomingIsAllowedEverywhere` holds for every kept split, in a loop or not: the
  recursion returns no pod when it has met a loop.
* `ServedAsAllowed`: in ACL mode a pod gets a request only if a traffic target of its service lists the
  caller and has a match for it, also when the request comes through splits, whose routers rank above
  the ones that block everything.
* `AllowedIsServed`: the converse. A request is lost only if a service on its ways has no routers or entry
  point, or one at the end of its ways does not allow it. It relates the whitelist of a split (an
  intersection over all backends), the routers for forwarded requests and their priorities.
* `ServedByItsEnds`, `NoRequestReturns`, `NoRequestStrays`: a split is never bypassed and the port stays the
  one asked for; no request goes round a loop of splits; and no request gets to a service, or to a pod of one,
  that is not on the ways of the service it was sent to.
* `CleanupRestores`, `PrepareConfigures`: a command that ends without an error, and alone, has reached
  its goal, whatever earlier attempts have left half done. The first includes that no pod runs with the
  mesh's configuration unless its restart is requested, and that no shadow service is left but those that a
  controller has created since cleanup listed them. When the controller was stopped before, there are none of these;
  the code does not make sure that it was (hazard at `cleanup.go:35`).

**Findings.** (1) `CreateOrUpdate` frees mappings before the call that drops the ports; a TCP service
annotated as UDP by mistake loses its mesh port although its shadow service still leads there, because the
API server refuses one without ports. When the annotation is corrected and another service has taken the
port, `cleanupPortMappings` removes the mapping just made: it looks it up by the service port and not by
the old target (`MCMistakeFixed`). (2) Run waits for a worker that `wait.Until` never
starts when the stop channel is closed first (`MCLifecycleHang`). (3) The search for cycles of splits ends when
no pod is left in common; without ACL no service has traffic targets, so a loop is found only along first
backends (`MCSplitLoop`). (4) `RestoreCoreDNS` restores one of two maps without knowing which one `prepare`
changed, and takes a failed read for an absent map (`MCDNSCustom`). (5) In a service that is the backend of a
split, the direct routers of every port but the first ask for `X-Forwarded-For`, because the variable with the
rule has been overwritten. A direct request of an allowed caller to the second port matches the router that
blocks only (`MCBackendPorts`).

Seen in the code and modelled, but without a run of its own: the resource filter drops
`DeletedFinalStateUnknown` (`filter.go:69`), so a deletion the informer learns of from a new list reaches
no handler (`DeleteUnseen`, part of `MCChaos`), nor does the deletion of a service that was made ExternalName; `Delete` (`service.go:122`) trusts a lister that may not
show a new shadow service yet and then leaves it behind, which is why `MCChaos`, with a lagging lister, does
not claim `NoShadowForgotten`; a `prepare` that stops between the update of a map and
the restart of the pods is followed by one that finds the map patched and does not restart them; and an HTTP
service with a TCP and then a UDP port of one number gets one router, at the entry point of the UDP port
(`provider.go:240`), while its shadow service leads to that of the TCP port: with such a version
`QuietRoutesLeadHome` fails, so `MCCalm` has none. Not modelled: `NewAPI` (`api.go:62`) starts its informer
under a context that ends when it returns, so the list of mesh nodes stays as it was at start-up.

### Bounds

Two services and two port numbers: every property of Controller is about at most two services (two
claims for one mesh port, a port freed by one and taken by the other) and a service with one port
kept and one dropped. TCP ranges have one port (full at once), two (one spare) or four (everything
fits); HTTP has one entry point, so a second port is beyond it. `MaxRetries = 1` makes both a retry
and giving up happen. `MaxChanges` (2 to 4), `MaxFaults` (0 to 2) and `MaxCrashes` (0 or 1) bound the
environment in the guards; the controller itself has no bound. Four changes are needed to create two
services, take a port away from one and give it to the other. Versions come from four small sets in
`MCController`. `RangeAssumption` states the order of the port ranges that the default limits give; the code does
not validate them (`mesh.go:104` in `src/cmd/mesh`). `ServiceSymmetry` is used for safety only. `MaxItems = 2` lets an item wait while
another is processed. `MCRouting` has two kinds of clusters. In the
11880 `TopologyClusters` four services and three splits are enough for a chain, a diamond,
two splits on one service and a loop, with three sets of services that can be called, splits with
missing specs, service or backend, and a backend that exposes fewer ports; they are explored until
`Build` returns (constraint `BuildsConfig`). In the 95 `RoutingClusters` two callers send requests of
three kinds to three services: HTTP with ACL (one port with splits, two without), HTTP without ACL (with a
third port beyond the last of the two entry points), TCP and UDP, services with a wrong annotation, pods
without IP and pods without the named port. `MCSplitLoop` and `MCBackendPorts` take a subset of the clusters.

The routing clusters leave out what the code does not claim to handle, or what is a run of its own: nested
splits under ACL (announced as unsupported at `provider.go:536`; the router for forwarded requests of the
inner split has a lower priority than its direct one), loops that `Build` does not find (`MCSplitLoop`),
backends with several ports (`MCBackendPorts`), targets for a port that is not the first of its
service (`provider.go:321`: the entry point is the index in the ports of the target), targets of one service
with the same matches (the router with more conditions, or either, decides whose sources count), matches
without conditions (they add nothing to the disjunction in `rule.go:28`), and TCP splits whose target port
has another number (backends are called at the target's number, `provider.go:479`). `MCDNS` has two shadow
services, so that a deletion can fail with one left, three starts (two failed attempts and the one that
succeeds, or a prepare between two cleanups) and two failures; initially the maps hold every combination
an earlier release can have left, and any of the shadow services exist. They are interchangeable
(`ShadowSymmetry`, for safety properties only); creations and deletions by the controller need no bound.

Deadlock checking is off in Controller, DNS and RoutingConfig: with the budgets used up and the work done,
nothing is left to do; `Build` and the request end. It is off in Lifecycle because the process ends.

## 4. Fairness

`Controller!Fairness` is weak fairness of the worker, the handler, the back-off timers, the watches and
the restart of the pod: each is a goroutine, a timer or a Kubernetes controller that runs on its own.
Users, faults and crashes get none; their budgets end them. `MCConverge` states `dropped = {}` in its
conclusion because one failure never exhausts one retry in that run; a key that was given up is by
design not served until its next event.

`Lifecycle!Fairness` is weak fairness of each goroutine. A goroutine that chooses between two ready
channels may choose either, so no strong fairness is assumed. Signals, failures and events get none.
`WorkerStopsWithProcess` is stated for a worker that has started, `MCLifecycleHang` shows the other case.

## 5. Proofs

All of `*_proofs` is checked by TLAPS for every set of services, ports and versions, every range and every
bound that satisfies the ASSUMEs of the modules.

`Controller_proofs` shows `Spec => []IInv` by one lemma per action, with

    IInv == InputsOK /\ ShadowsOK /\ TablesOK /\ QueueOK /\ WorkerOK /\ conf \subseteq RouteType

and from it `ControllerTypeOK`, `ServicePortsHaveOneMeshPort` (`OneMeshPortPerClaim`) and
`KeysAreQueuedOnce` (`WorkIsQueuedOnce`). `OneMeshPortPerClaim` is not inductive for two reasons:

* A restart fills the tables from the shadow services. Two targets stored for one claim would become two
  mesh ports of it, so `ShadowsOK` says that a shadow service on the API server (and every version of it
  in the lister or on its way) has one port per number in the same table (`OnePortPerNumber`).
* What the worker is about to write must have that property too. `WorkerOK` says that the ports collected
  so far come from ports of the version before the next one (`CollectedFrom`), that they are suitable for
  its traffic type, and that the version lists no port and protocol twice (`VersionAssumption`, which the API
  server enforces).

`QueueOK` is `WorkIsQueuedOnce` with the types. The lemmas these steps rest on come first in the module:
each operation of the queue preserves `QueueConsistent`, and, for the tables, Add, Remove, Release and Loaded preserve `MappedOnce`, and
`ReleaseIsRemoveInALoop` justifies that the model frees a set of claims at once where the code calls
Remove in a loop.

`Sync_proofs` shows that no service is forgotten, through changes during a visit, stale reads, failed calls,
retries, crashes and restarts. `NoServiceForgotten` alone is not inductive, because the worker writes what it
has read some steps before. The invariant says that what the worker holds is the current version, or something
that comes *after* this visit will read the service again: an event, a dirty key or a back-off (`Elsewhere`),
but not the key in process. With it goes what the ports collected so far have to do with the version held
(`PortsSoFar`), down to the entry point of an HTTP port. `NothingOutOfStepIsForgotten` needs no
assumption. It allows one difference between a service and its shadow service, a TCP or UDP port that did
not fit in its table, which the code only logs;
`ServicesAreNotForgotten` (`NoServiceForgotten`) excludes it by `OnePortPerTable`. For deletions,
`ShadowsAreNotForgotten` (`NoShadowForgotten`) assumes `DeletionsAreSeen`: a current lister, no tombstones, no
crash and no version the filter ignores. Each is needed: the hazards at `service.go:126`, `filter.go:69`,
`controller.go:215` and `controller.go:32`.

`Allocation_proofs` shows that shadow services and tables agree (`StoredPortsStayMapped`,
`MeshPortsAreExclusive`) and that the controller implements `PortAllocation`
(`ControllerImplementsAllocation`), for any number of crashes. All three assume `PortsFit`: every service has
a supported type and a port of it, each table has a mesh port for every service port that can claim one, the
lister is current and no call fails. This is what `MCCalm` satisfies; `MCMistakeFixed` shows that
`ShadowPortsAreMapped` fails when an update is refused for want of ports, and a full table or a failed call
likewise leaves a shadow service whose ports were freed. The argument is in four steps. A port of a
shadow service is without its mapping only while the worker is at its service, and only if the version in
process does not have the port (`Freed`, `Mapped`). The ports collected meanwhile are mapped (`Collecting`): the
table has room for each, by the pigeonhole principle (`ClaimsFit`), as it holds nothing but claims and one mesh
port per claim (`OneMeshPortPerClaim`). So the clean-up after the call frees no port that was just written
(`KeptPortsKeepTargets`): an old and a new port for one claim have one target. And what a restart
loads is complete, because no two stored ports share a target (`LoadedMapsShadows`).

`RoutesLeadHome` (`QuietRoutesLeadHome`) puts the three arguments together: the configuration is current
(`ConfigurationIsNotForgotten`, in `Sync_proofs`, which is `NoConfigurationForgotten`: every visit that does not fail ends in a rebuild, and no visit is
forgotten; it assumes that no deletion is hidden in a tombstone, nothing else), no service is out of step
(`NothingOutOfStepIsForgotten`), and the ports of one in step are mapped (`Mapped`), each once. It also
assumes that no HTTP service lists a number twice, the hazard at `provider.go:240`.

`Lifecycle_proofs` shows that the wait group counts exactly the started worker and therefore that Run
returns after it (`RunWaitsForTheWorker`).

`DNS_proofs` shows `CleanupUndoesTheInstallation` (`CleanupRestores`) and `PrepareIsComplete`
(`PrepareConfigures`) from an invariant with, for each place of a command that runs alone, what it has
achieved there (`CleanupProgress`, `PrepareProgress`). Two more parts carry the argument: only one of the
two maps of CoreDNS is ever used while nothing is `unsteady` (`OneMapUsed`), and as long as no stub domains
are defined no pod has read one of the mesh (`NoStubDomainsYet`), which is why `RestoreKubeDNS` may return
early. Both theorems hold for any finite or infinite set of shadow services, assume natural bounds and nothing about
the controller: it may create and delete shadow services at any time. That is why `CleanupRestores` excludes those in
`created`: every shadow service is still to be deleted by the running cleanup or was created since its list was read
(`shadows \subseteq created \cup todo` in `CleanupProgress`), so with a controller that has stopped none is left.

`Topology_proofs` shows the properties of the topology for every finite set of splits and any cluster:
`TopologyIsTyped` (`TypeOK`), `AcyclicSplitsStay` (`AcyclicSplitsAreKept`), `IncomingPodsAreAllowed`
(`IncomingIsAllowedEverywhere`) and `CallableSplitsAreLoopFree` (`CallableSplitsHaveNoLoop`). The last three are
about the recursion `IncomingPods`. The induction theorems of the library have a predicate as a parameter, which
the provers here cannot instantiate; the module first states them with *sets* instead. `MeasureInduction` says
that a set that has every element whose smaller elements it has is everything; `SupersetInduction` is that for
the subsets of a finite set, from the larger to the smaller, which is the way the recursion goes. A recursive
function is a CHOOSE, so that it has a value at all is proved too: partial functions that satisfy the equation
agree, and their union is total. The argument about `IncomingPods` is then:

* A pod that is found is allowed at the ends of all ways from the split, and no way is a loop: a loop ends at a
  visited split, whose error every call on the way would return (`FoundIsAllowed`).
* A pod that is allowed at all ends is found, because the intersection of sets that have it is not empty, so no
  early return cuts the search short (`AllowedIsFound`).
* Without a loop below, a visited split is never met, so there is no error, and the split is kept.

An early return hides a loop only where the outcome has no pod; that is why a callable split has none, and why
the unrestricted claim fails (`MCSplitLoop`). The inductive invariant (`BuildInv`) says, besides the properties,
what the loops of `Build` have put into the maps so far (`TopologyInv`): a service has the splits attached to it,
each once, and after the targets are evaluated exactly those that apply.

`RoutingConfig_proofs` is about requests, for every set of clusters, of whatever shape of splits, ports and
targets and any number of entry points, where different names have different texts in keys (`KeysAssumption`). The
mesh ports of a cluster are distinct for the service ports of one type (`RoutingAssumption`): they are looked
up in a table, which is a map from a mesh port to one service port. The invariant speaks of single
routers. A router with pods or backends is chosen for requests to one service only, by its rule (HTTP) or its
mesh port (TCP, UDP) (`IsFor`); with pods they are those of that service (`IsOfPods`); with backends it was made
from a split of the service, with the split's matches and callers (`IsOfSplit`); and in ACL mode an HTTP router
with pods has the whitelist, the rule and the pods of one traffic target (`IsGuarded`). What `Merged` makes of a
sequence of writes is one lemma: every router in it is one of those written.

* `OnlyAllowedRequestsAreServed` (`ServedAsAllowed`) needs no ranks, for every router that serves is guarded;
  that split routers lead to backends only, and that the address in `X-Forwarded-For` is the caller's own as long
  as one split is passed, it does need. `ServersAreGuarded` is the part about routers.
* `RequestsKeepToTheirWays` (`NoRequestStrays`) follows from `IsFor`, `IsOfSplit` and `IsOfPods`.
* `TopologyStaysSound`: the properties of `Topology_proofs` hold in the composed module as well.
* A request that comes back has passed a split that leads to a loop that `Build` has left (`PassedInv`). In
  ACL mode such a split has an empty whitelist, so no request returns to an HTTP service
  (`ListedRequestsDoNotReturn`, no assumption). In general `NoRequestReturns` holds as long as `Build` leaves no
  loop (`RequestsReturnByLoopsOnly`); `MCSplitLoop` is the reason for that premise.
* `SplitsAreNotBypassed` (`ServedByItsEnds`) takes the whole configuration and not one router: whenever a router
  with pods matches a request to a service with splits, the router of a split matches too and ranks higher.
  For HTTP there is such a router for every split and port (`SplitsHaveRouters`, and no other router has taken
  its key: `AllKeyed`), its priority is 4000 and more, that of routers with pods at most 3999. Its rule asks for
  `X-Forwarded-For` only where those of the pods do as well. The routers of a TCP or UDP split have the keys of the
  service's own ones and replace all of them. The number stays the one asked for (`NumberInv`), because a split
  router has the port's number and a service leads to its pods at the port of that number.

`SplitsAreNotBypassed` has premises, each at a line where the code is exposed. `OrdinaryCluster`: an HTTP service lists no number twice (`provider.go:240`), in ACL mode the ports of
an HTTP target are the first ones of the service (`provider.go:321`), a TCP or UDP service with splits has target ports
with the number of the port (`provider.go:479`), and a match of a split asks for something (`rule.go:28`). `ShortRules`: no rule has
1000 operators, the distance of two priority classes. All 163996 states of `MCRouting` satisfy both.

`Serving_proofs` shows the converse, `AllowedRequestsAreServed` (`AllowedIsServed`). The other theorems say that a
router that serves was made for a good reason; here *every* router that may be chosen has to let the request
through and lead on. The argument, with its invariant `ServeInv`:

* `ListInv` (`RoutersAreListed`, which needs no premise): each router was made from a service, a target or a split
  (`IsListed`), and the keys that nothing may remove are there (`HasKeys`). As different objects have different keys,
  the router at such a key is the one meant.
* At the entry point of a port the router of a split for the request is chosen if there is one, otherwise that of the
  target that allows it, for the caller's address or for the forwarded one, otherwise that of the service: by the
  classes of priorities, and by `ShortRules` within them. Which of several splits wins is open; each leads on.
* A split lets through whoever all its backends allow (`FlatInv`, from `AllowedIsFound` and from `BackendsInv`: a
  backend knows its splits), so its whitelist refuses nobody that the ends of the ways allow.
* Behind a split, the address that the first proxy adds is the sender's, and the service that gets the request is
  a backend without splits of its own (`WayInv`), hence one with routers that look at that address.

It adds `PlainTopology` to the premises of `SplitsAreNotBypassed`. Each part names where a request that is allowed
is *not* served, by what the code leaves open or gets wrong:

| premise | where it bites |
|---|---|
| `PortsAreDistinct` | two ports of one number have one key (`provider.go:240`) |
| `PodsRunTogether` | without ACL every address of the endpoints is a server, also that of a pod that has no IP any more; where only some pods have one, the server picked may not answer |
| `TargetMatchesAsk` | a match without conditions is dropped from the rule of others (`rule.go:28`) |
| `OneTargetObeys` | of two targets for a request the router that ranks first decides, with its sources only (`provider.go:24`) |
| `BackendsHaveOnePort` | the direct router of a backend's second port asks for `X-Forwarded-For` (`provider.go:346`); `MCBackendPorts` shows that the property fails then |
| `SplitsAreFlat` | a split of a backend: not supported with ACL, as `provider.go:536` logs; backends are HTTP services or have the split's type |

They restrict clusters, not behaviours. In `MCRouting` every configuration through which requests are sent satisfies
them, nested splits of TCP and UDP services and those without ACL included; TLC checked the parts of `ServeInv` on its states before they were proved.
The set of traffic targets is assumed finite (`FiniteTargets`), as that of splits is: both are lists from the API server.

Only model-checked:

* liveness (`Converges`, `WorkerStopsWithProcess`, `FailedRunEndsProcess`) and everything with ENABLED, which
  TLAPS does not do here;
* what `AllowedIsServed` and `ServedByItsEnds` say outside their premises, and `NoRequestReturns` where `Build` leaves a
  loop: there they can fail, and TLC finds it for some (`MCBackendPorts`, `MCSplitLoop`).

## 6. Not modelled

* Names, namespaces, labels and topology keys of shadow services; the informer's resync, which changes nothing.
* The mutex of the tables: one worker changes them, the topology and the provider read them in the same goroutine.
* In the routing configuration: the readiness service, the servers' scheme, weights of backends, the
  middlewares of annotations, and the text of rules and keys. TCP has no whitelist, so the sources of a TCP
  target are not looked at, in the code as in the model; UDP targets are an error.
* `SourceOf` and `DestinationOf` of the topology's pods, which only the API reports.
* What a block or a stub domain says beyond whose it is, and the blank lines `addStubDomain` and
  `removeStubDomain` leave; the wait for the IP address of the mesh's CoreDNS, which is one failing call.
* The HTTP handlers of the API, which encode stored values; parsing of flags, construction of clients, the SMI
  version check, the panic wrapper, and the conversion of middleware annotations: no state and no control.
* The proxies and Kubernetes' own routing.

## 7. Order of the work

1. *Done.* `PortMapping`, `WorkQueue`, `Controller` with `PortAllocation`, `Lifecycle`, `Topology`, `DNS`,
   `RoutingConfig`; their invariants as said in section 5.
2. *Next.* Proofs: what of `AllocInv` survives failed calls.
3. `Controller` and `RoutingConfig` in one instance, with the API's readiness.

----------------------------- MODULE RoutingConfig -----------------------------
(***************************************************************************)
(* BuildConfig of pkg/provider: the routers the proxies of the mesh run     *)
(* with, made from the topology of module Topology, and a request that goes *)
(* through the proxies.  A router that serves pods or the backends of a     *)
(* split is one record here; Traefik has a router, a service and a          *)
(* middleware that refer to each other by keys.  The names in a condition,  *)
(* the weights, the middlewares of annotations and ports whose protocol     *)
(* does not suit the traffic type are left out.                             *)
(*                                                                          *)
(* More fields of a cluster matter here:                                    *)
(*   type           the traffic type of each service, "invalid" when the    *)
(*                  annotation is;                                          *)
(*   misannotated   the services with a bad scheme or middleware annotation;*)
(*   acl            whether the controller runs in ACL mode;                *)
(*   containerPort  the number of the named port of each pod, 0 if it has   *)
(*                  none (one name stands for all);                         *)
(*   meshPort       the mapping tables, from <<service, port number>>, one  *)
(*                  for TCP and one for UDP, each without a port that occurs *)
(*                  twice (see PortMapping);                                *)
(*   callers        the pods that send requests.                            *)
(***************************************************************************)
EXTENDS Topology

CONSTANTS
    Joined,             \* the text in a key that stands for a service or a target
    HTTPEntryPoints,    \* MaxHTTPPort - MinHTTPPort + 1
    RequestKind,        \* sets of conditions a request can fulfil
    Proxy,              \* the address of any proxy
    None                \* no address, no request

ASSUME RoutingAssumption ==
    /\ HTTPEntryPoints \in Nat
    /\ RequestKind \subseteq SUBSET Condition
    /\ Proxy \notin Pod /\ None \notin Pod /\ Proxy # None
    /\ \A c \in Cluster :
        /\ c.acl \in BOOLEAN
        /\ \A s \in DOMAIN c.ports : c.type[s] \in {"http", "tcp", "udp", "invalid"}
        /\ c.misannotated \subseteq DOMAIN c.ports
        /\ c.containerPort \in [Pod -> Nat]
        /\ DOMAIN c.meshPort \subseteq Name \X Nat
        /\ \A k, l \in DOMAIN c.meshPort :
                /\ k[1] \in DOMAIN c.ports /\ l[1] \in DOMAIN c.ports
                /\ c.type[k[1]] = c.type[l[1]] /\ c.meshPort[k] = c.meshPort[l]
                => k = l
        /\ c.callers \subseteq Pod

\* Objects of one kind have different texts in keys, also where hyphens join them.  The
\* key of a whitelist is that of its routers without the port (key.go): if texts were
\* equal, the whitelist of one target could stand for that of another, and the routers
\* of both keep their own keys; one record would not do for a router.
ASSUME KeysAssumption ==
    \A kind \in {Name, Target, Split} : \A x, y \in kind : Joined[x] = Joined[y] => x = y

VARIABLES
    configured,     \* the services BuildConfig is done with
    routers,        \* the routers of the configuration, by key
    request         \* a request on its way or answered, or None

routingVars == <<vars, configured, routers, request>>

RoutingInit == Init /\ configured = {} /\ routers = << >> /\ request = None

--------------------------------------------------------------------------------
(* Parts of routers.                                                        *)

PriorityService == 1
PriorityTrafficTargetDirect == 2
PriorityTrafficTargetIndirect == 3
PriorityTrafficSplit == 4

\* The number of && and || in a rule: one between the two hosts, one before each
\* condition, one before the header.
Operators(rules, forwarded) ==
    LET Conditions(m, n) == Cardinality(m) + n
    IN  1 + FoldSeq(Conditions, 0, HTTPMatches(rules)) + (IF forwarded THEN 1 ELSE 0)

\* Fault: the matches of a target or a split without the hosts of the service.
HostlessRuleOf(s, rules, forwarded) ==
    [services |-> IF rules = << >> THEN {s} ELSE Name,
     matches |-> ToSet(HTTPMatches(rules)) \ {{}},
     forwarded |-> forwarded,
     operators |-> Operators(rules, forwarded)]

\* The rule of rule.go for a service and specs; "forwarded" asks for the header
\* X-Forwarded-For.  A match without conditions adds nothing to the disjunction.
RuleOf(s, rules, forwarded) ==
    [services |-> {s},
     matches |-> ToSet(HTTPMatches(rules)) \ {{}},
     forwarded |-> forwarded,
     operators |-> Operators(rules, forwarded)]

\* The rule of TCP and UDP routers.
RuleOfAny == [services |-> Name, matches |-> {}, forwarded |-> FALSE, operators |-> 0]

RulePriority(rule, priority) == priority * 1000 + rule.operators

\* Who passes the middlewares of a router, by remote address or X-Forwarded-For.
Anybody == [open |-> TRUE, pods |-> {}, forwarded |-> FALSE]
Nobody == [open |-> FALSE, pods |-> {}, forwarded |-> FALSE]
Whitelist(pods, forwarded) == [open |-> FALSE, pods |-> pods, forwarded |-> forwarded]

\* ResolveServicePort.
ResolvedPort(port, pod) ==
    IF port.target # 0 THEN port.target ELSE cluster.containerPort[pod]

\* The pods whose port can be resolved.
ToPods(pods, port) ==
    [servers |-> {<<p, ResolvedPort(port, p)>> : p \in {q \in pods : ResolvedPort(port, q) # 0}},
     backends |-> << >>, number |-> 0]

ToBackends(backends, number) ==
    [servers |-> {}, backends |-> backends, number |-> number]

Router(entry, rule, access, priority, target) ==
    [entry |-> entry, rule |-> rule, access |-> access, priority |-> priority,
     target |-> target]

HTTPRouter(i, rule, access, priority, target) ==
    Router(<<"http", i>>, rule, access, RulePriority(rule, priority), target)

\* The entry point of a TCP or UDP port: Find in the table of the type.
IsMapped(s, port) == <<s, port.number>> \in DOMAIN cluster.meshPort
MappedEntryPoint(s, port) == <<cluster.type[s], cluster.meshPort[<<s, port.number>>]>>

\* TCP and UDP routers have no priority and let everybody through.
MappedRouter(s, port, target) ==
    Router(MappedEntryPoint(s, port), RuleOfAny, Anybody, 0, target)

ServiceKey(s, port) == <<Joined[s], port.number>>
TargetKey(tt, s, port, way) == <<Joined[s], Joined[tt], port.number, "target", way>>
SplitKey(ts, s, port, way) == <<Joined[s], Joined[ts], port.number, "split", way>>

Write(key, router) == [k \in {key} |-> router]

\* A map that a loop writes: the last value given to a key stays.
Merged(writes) ==
    LET LastAt(i) == {k \in DOMAIN writes[i] :
                        \A j \in DOMAIN writes : j > i => k \notin DOMAIN writes[j]}
    IN  [k \in UNION {LastAt(i) : i \in DOMAIN writes} |->
            writes[CHOOSE i \in DOMAIN writes : k \in LastAt(i)][k]]

--------------------------------------------------------------------------------
(* The routers of a service, of its targets and of its splits.              *)

Ports(s) == cluster.ports[s]

\* buildBlockAllRouters; this priority is not multiplied.
BlockAllRouters(s) ==
    Merged([i \in DOMAIN Ports(s) |->
        IF i > HTTPEntryPoints THEN << >>
        ELSE Write(ServiceKey(s, Ports(s)[i]),
                Router(<<"http", i>>, RuleOf(s, << >>, FALSE), Nobody, PriorityService,
                       ToPods({}, Ports(s)[i])))])

\* buildServicesAndRoutersForService for HTTP, and for TCP and UDP.
HTTPServiceRouters(s) ==
    Merged([i \in DOMAIN Ports(s) |->
        IF i > HTTPEntryPoints THEN << >>
        ELSE Write(ServiceKey(s, Ports(s)[i]),
                HTTPRouter(i, RuleOf(s, << >>, FALSE), Anybody, PriorityService,
                           ToPods(cluster.endpoints[s], Ports(s)[i])))])

MappedServiceRouters(s) ==
    Merged([i \in DOMAIN Ports(s) |->
        IF ~ IsMapped(s, Ports(s)[i]) THEN << >>
        ELSE Write(ServiceKey(s, Ports(s)[i]),
                MappedRouter(s, Ports(s)[i], ToPods(cluster.endpoints[s], Ports(s)[i])))])

\* Fault: no routers for forwarded requests.
IsNeverBackend(s) == FALSE

\* Is an additional router for forwarded requests needed?
IsBackend(s) == services[s].backendOf # {}

\* buildTrafficTargetDestination: the pods of the service with the account and an IP.
DestinationPods(tt, s) ==
    {p \in cluster.endpoints[s] \cap cluster.running :
        cluster.account[p] = cluster.targets[tt].account}

\* Fault: the router for forwarded requests lets everybody through.
UnlistedSources(tt, s, forwarded) ==
    IF forwarded THEN Anybody ELSE Whitelist(serviceTrafficTargets[<<s, tt>>], FALSE)

ListedSources(tt, s, forwarded) == Whitelist(serviceTrafficTargets[<<s, tt>>], forwarded)

\* buildHTTPServicesAndRoutersForTrafficTarget.  The entry point is the index in the
\* ports of the target.  The variable "rule" holds the rule for forwarded requests
\* once a port of a backend is done, and the direct routers of later ports get it.
HTTPTargetRouters(tt, s) ==
    LET ports == DestinationPorts(tt, s)
        rules == cluster.targets[tt].rules
        To(i) == ToPods(DestinationPods(tt, s), ports[i])
        Direct(i) ==
            Write(TargetKey(tt, s, ports[i], "direct"),
                HTTPRouter(i, RuleOf(s, rules, IsBackend(s) /\ i > 1),
                           ListedSources(tt, s, FALSE), PriorityTrafficTargetDirect, To(i)))
        Indirect(i) ==
            Write(TargetKey(tt, s, ports[i], "indirect"),
                HTTPRouter(i, RuleOf(s, rules, TRUE),
                           ListedSources(tt, s, TRUE), PriorityTrafficTargetIndirect, To(i)))
    IN  Merged([i \in DOMAIN ports |->
            IF i > HTTPEntryPoints THEN << >>
            ELSE IF IsBackend(s) THEN Merged(<<Direct(i), Indirect(i)>>)
            ELSE Direct(i)])

\* buildTCPServicesAndRoutersForTrafficTarget: the keys are those of the service.
TCPTargetRouters(tt, s) ==
    LET ports == DestinationPorts(tt, s)
    IN  Merged([i \in DOMAIN ports |->
            IF ~ HasTCPRoute(cluster.targets[tt].rules) \/ ~ IsMapped(s, ports[i]) THEN << >>
            ELSE Write(ServiceKey(s, ports[i]),
                    MappedRouter(s, ports[i], ToPods(DestinationPods(tt, s), ports[i])))])

\* Fault: the routers of a split rank below those of a target.
LowSplitPriority == PriorityService

SplitPriority == PriorityTrafficSplit

\* buildHTTPServiceAndRoutersForTrafficSplit.  The variable "rule" is overwritten as
\* in HTTPTargetRouters; the router for forwarded requests has a priority of targets.
HTTPSplitRouters(ts, s) ==
    LET rules == cluster.splits[ts].rules
        To(i) == ToBackends(trafficSplits[ts].backends, Ports(s)[i].number)
        indirect == cluster.acl /\ IsBackend(s)
        Listed(forwarded) ==
            IF cluster.acl THEN Whitelist(trafficSplits[ts].incoming, forwarded) ELSE Anybody
        Direct(i) ==
            Write(SplitKey(ts, s, Ports(s)[i], "direct"),
                HTTPRouter(i, RuleOf(s, rules, indirect /\ i > 1), Listed(FALSE),
                           SplitPriority, To(i)))
        Indirect(i) ==
            Write(SplitKey(ts, s, Ports(s)[i], "indirect"),
                HTTPRouter(i, RuleOf(s, rules, TRUE), Listed(TRUE),
                           PriorityTrafficTargetIndirect, To(i)))
    IN  Merged([i \in DOMAIN Ports(s) |->
            IF i > HTTPEntryPoints THEN << >>
            ELSE IF indirect THEN Merged(<<Direct(i), Indirect(i)>>)
            ELSE Direct(i)])

\* buildTCPServiceAndRoutersForTrafficSplit and the same for UDP: the backends are
\* called at the number of the target port, 0 if it is named.
MappedSplitRouters(ts, s) ==
    Merged([i \in DOMAIN Ports(s) |->
        IF ~ IsMapped(s, Ports(s)[i]) THEN << >>
        ELSE Write(ServiceKey(s, Ports(s)[i]),
                MappedRouter(s, Ports(s)[i],
                             ToBackends(trafficSplits[ts].backends, Ports(s)[i].target)))])

\* The routers without targets and splits.
BaseRouters(s) ==
    CASE cluster.type[s] = "http" /\ cluster.acl -> BlockAllRouters(s)
      [] cluster.type[s] = "http" /\ ~ cluster.acl -> HTTPServiceRouters(s)
      [] cluster.type[s] # "http" /\ ~ cluster.acl -> MappedServiceRouters(s)
      [] cluster.type[s] # "http" /\ cluster.acl -> << >>

\* Traffic targets are looked at in ACL mode only; on a UDP service they are an error.
TargetRouters(tt, s) ==
    CASE cluster.acl /\ cluster.type[s] = "http" -> HTTPTargetRouters(tt, s)
      [] cluster.acl /\ cluster.type[s] = "tcp" -> TCPTargetRouters(tt, s)
      [] ~ cluster.acl \/ cluster.type[s] = "udp" -> << >>

SplitRouters(ts, s) ==
    IF cluster.type[s] = "http" THEN HTTPSplitRouters(ts, s) ELSE MappedSplitRouters(ts, s)

\* buildConfigForService with the targets of the service in some order.
RoutersOf(s, targets) ==
    Merged(<<BaseRouters(s),
             Merged([i \in DOMAIN targets |-> TargetRouters(targets[i], s)]),
             Merged([i \in DOMAIN services[s].splits |->
                        SplitRouters(services[s].splits[i], s)])>>)

HasRouters(s) == cluster.type[s] # "invalid" /\ s \notin cluster.misannotated

\* The early returns of buildConfigForService leave a service without routers.
SkipService(s) == ~ HasRouters(s) /\ UNCHANGED routers

AddService(s) ==
    /\ HasRouters(s)
    /\ \E targets \in SetToSeqs(services[s].targets) :
        routers' = Merged(<<routers, RoutersOf(s, targets)>>)

\* The loop of BuildConfig; the map of the services is ranged over in any order.
BuildConfig ==
    /\ step \in {"built", "configured"}
    /\ \E s \in DOMAIN services \ configured :
        /\ SkipService(s) \/ AddService(s)
        /\ configured' = configured \cup {s}
    /\ step' = "configured"
    /\ UNCHANGED <<cluster, services, trafficSplits, serviceTrafficTargets, request>>

--------------------------------------------------------------------------------
(* A request on its way through the proxies (Traefik, external), which have *)
(* the whole configuration.  The shadow service of the service it asks for  *)
(* leads to an entry point; the router with the highest priority whose rule *)
(* matches decides.  Callers do not send X-Forwarded-For themselves.        *)

IsComplete == step = "configured" /\ configured = DOMAIN services

Unanswered == [kind |-> "none", server |-> << >>]
Refused == [kind |-> "refused", server |-> << >>]
Unavailable == [kind |-> "unavailable", server |-> << >>]
ServedBy(server) == [kind |-> "served", server |-> server]

SendRequest ==
    /\ IsComplete /\ request = None
    /\ \E from \in cluster.callers, s \in Known, meets \in RequestKind :
        \E i \in DOMAIN Ports(s) :
            request' = [from |-> from, root |-> s, asked |-> Ports(s)[i].number,
                        meets |-> meets, remote |-> from, via |-> None, service |-> s,
                        number |-> Ports(s)[i].number, passed |-> {},
                        answer |-> Unanswered]
    /\ UNCHANGED <<vars, configured, routers>>

\* The entry points of a port of a shadow service (getShadowServicePorts).
EntryPoints(s, number) ==
    LET indexes == {i \in DOMAIN Ports(s) : Ports(s)[i].number = number}
    IN  IF s \notin Known \/ cluster.type[s] = "invalid" THEN {}
        ELSE IF cluster.type[s] = "http"
        THEN {<<"http", i>> : i \in {j \in indexes : j <= HTTPEntryPoints}}
        ELSE {MappedEntryPoint(s, Ports(s)[i]) :
                i \in {j \in indexes : IsMapped(s, Ports(s)[j])}}

MatchesRule(r, rule) ==
    /\ r.service \in rule.services
    /\ rule.matches = {} \/ \E m \in rule.matches : m \subseteq r.meets
    /\ rule.forwarded => r.via # None

\* The routers that may be chosen for a request at an entry point.
Chosen(r, entry) ==
    LET matching == {routers[k] : k \in {l \in DOMAIN routers :
                        routers[l].entry = entry /\ MatchesRule(r, routers[l].rule)}}
    IN  {router \in matching : \A other \in matching : other.priority <= router.priority}

LetsThrough(access, r) ==
    access.open \/ (IF access.forwarded THEN r.via ELSE r.remote) \in access.pods

Answer(answer) ==
    /\ request' = [request EXCEPT !.answer = answer]
    /\ UNCHANGED <<vars, configured, routers>>

IsAtProxy == request # None /\ request.answer = Unanswered

\* Nothing listens at the address the request goes to.
FindNoEntryPoint ==
    /\ IsAtProxy
    /\ EntryPoints(request.service, request.number) = {}
    /\ Answer(Unavailable)

FindNoRouter ==
    /\ IsAtProxy
    /\ \E entry \in EntryPoints(request.service, request.number) :
        Chosen(request, entry) = {}
    /\ Answer(Refused)

Refuse ==
    /\ IsAtProxy
    /\ \E entry \in EntryPoints(request.service, request.number) :
        \E router \in Chosen(request, entry) : ~ LetsThrough(router.access, request)
    /\ Answer(Refused)

FindNoServer ==
    /\ IsAtProxy
    /\ \E entry \in EntryPoints(request.service, request.number) :
        \E router \in Chosen(request, entry) :
            /\ LetsThrough(router.access, request)
            /\ router.target.servers = {} /\ router.target.backends = << >>
    /\ Answer(Unavailable)

\* A pod without an IP has no address to be reached at.
Serve ==
    /\ IsAtProxy
    /\ \E entry \in EntryPoints(request.service, request.number) :
        \E router \in Chosen(request, entry) :
            /\ LetsThrough(router.access, request)
            /\ \E server \in router.target.servers :
                Answer(IF server[1] \in cluster.running THEN ServedBy(server) ELSE Unavailable)

\* The proxy calls a backend of a split and adds the address of its own caller.
Forward ==
    /\ IsAtProxy
    /\ \E entry \in EntryPoints(request.service, request.number) :
        \E router \in Chosen(request, entry) :
            /\ LetsThrough(router.access, request)
            /\ \E b \in ToSet(router.target.backends) :
                request' = [request EXCEPT !.via = request.remote, !.remote = Proxy,
                                           !.service = b, !.number = router.target.number,
                                           !.passed = @ \cup {request.service}]
    /\ UNCHANGED <<vars, configured, routers>>

BuildTopology == Next /\ UNCHANGED <<configured, routers, request>>

RoutingNext ==
    \/ BuildTopology
    \/ BuildConfig
    \/ SendRequest
    \/ FindNoEntryPoint \/ FindNoRouter \/ Refuse \/ FindNoServer \/ Serve \/ Forward

RoutingSpec == RoutingInit /\ [][RoutingNext]_routingVars

--------------------------------------------------------------------------------
(* Properties of what becomes of a request.                                 *)

IsAnswered == request # None /\ request.answer # Unanswered
IsServed == request # None /\ request.answer.kind = "served"

\* No match asks for anything, or all that some match asks for is fulfilled.
Admits(rules, meets) ==
    LET matches == ToSet(HTTPMatches(rules))
    IN  matches = {} \/ \E m \in matches : m \subseteq meets

\* The splits of a service that are for a request, and the services it can get to.
SplitsFor(r, s) ==
    {ts \in ToSet(services[s].splits) :
        cluster.type[s] = "http" => Admits(cluster.splits[ts].rules, r.meets)}

Reached(r) == Reach(UNION {SplitsFor(r, s) : s \in Known}, r.root)

EndsOf(r) == {s \in Reached(r) : SplitsFor(r, s) = {}}

\* The ports of a sequence that were asked for and that a pod of a set has.
PortsAt(ports, r, pods) ==
    {i \in DOMAIN ports : /\ ports[i].number = r.asked
                          /\ \E p \in pods : ResolvedPort(ports[i], p) # 0}

\* A traffic target that allows a request to a service.  Who calls is not looked at in
\* TCP, which has no middlewares, and nothing is allowed in UDP.
Allows(tt, s, r) ==
    /\ Applies(tt, s)
    /\ \/ /\ cluster.type[s] = "http"
          /\ r.from \in SourcePods(tt) /\ Admits(cluster.targets[tt].rules, r.meets)
       \/ cluster.type[s] = "tcp" /\ HasTCPRoute(cluster.targets[tt].rules)

\* Is a request at the end of its way to be served?
IsToBeServed(r, s) ==
    IF cluster.acl
    THEN \E tt \in Target :
            Allows(tt, s, r) /\ PortsAt(DestinationPorts(tt, s), r, DestinationPods(tt, s)) # {}
    ELSE PortsAt(Ports(s), r, cluster.endpoints[s] \cap cluster.running) # {}

\* In ACL mode a pod of an HTTP service gets a request only if a traffic target of the
\* service has this pod, lists the caller as a source and has a match for the request,
\* directly and through splits: "all traffic must be forbidden unless explicitly
\* authorized via a TrafficTarget" (buildConfigForService), although the routers for
\* forwarded requests and those of splits rank above the ones that block.
ServedAsAllowed ==
    IsServed /\ cluster.acl /\ cluster.type[request.service] = "http" =>
        \E tt \in Target :
            /\ Applies(tt, request.service)
            /\ request.from \in SourcePods(tt)
            /\ Admits(cluster.targets[tt].rules, request.meets)
            /\ request.answer.server[1] \in DestinationPods(tt, request.service)

\* A request is refused or lost only if some service it can get to is not reachable, or
\* one at the end of its ways does not allow it or has no pod for it.  The routers of a
\* backend must let through whom the splits above let through, who must be the pods
\* that may call every backend (buildHTTPServicesAndRoutersForTrafficTarget,
\* buildHTTPServiceAndRoutersForTrafficSplit).
AllowedIsServed ==
    IsAnswered /\ ~ IsServed =>
        \/ \E s \in Reached(request) :
            \/ ~ HasRouters(s) \/ EntryPoints(s, request.asked) = {}
            \/ \E ts \in SplitsFor(request, s) : trafficSplits[ts].backends = << >>
        \/ \E s \in EndsOf(request) : ~ IsToBeServed(request, s)

\* A request is served by a pod of a service at the end of its ways, on the port that
\* was asked for: a split is never bypassed, neither by the routers of its service nor
\* by those of targets ("we should always prioritize the TrafficSplit", provider.go).
ServedByItsEnds ==
    IsServed =>
        LET s == request.service
            pod == request.answer.server[1]
        IN  /\ s \in EndsOf(request)
            /\ \E i \in DOMAIN Ports(s) :
                /\ Ports(s)[i].number = request.asked
                /\ ResolvedPort(Ports(s)[i], pod) = request.answer.server[2]

\* A request is only at services that the splits for it lead to from the one it was sent
\* to, and is served by a pod of the service it is at: routers of other services do not
\* get it, although HTTP services share entry points, and routers of TCP and UDP services
\* ask for nothing else than their entry point and share their keys.
NoRequestStrays ==
    request # None =>
        /\ request.service \in Reached(request)
        /\ IsServed => request.answer.server[1] \in cluster.endpoints[request.service]

\* No request comes to a service it has passed: the splits BuildConfig reads are those
\* that removeLoopCausingTrafficSplits has left.
NoRequestReturns == request # None => request.service \notin request.passed
================================================================================

-------------------------- MODULE RoutingConfig_proofs --------------------------
(***************************************************************************)
(* What routers promise to requests, for every cluster, every number of     *)
(* entry points and any kinds of requests.                                  *)
(*                                                                          *)
(* In ACL mode no order of the maps, no rank of routers and no way through  *)
(* splits gives a request to a pod of an HTTP service unless a traffic      *)
(* target allows it.  The argument is about single routers: in ACL mode     *)
(* every HTTP router with servers was made from a traffic target of its     *)
(* service and has the sources of that target as its whitelist (IsGuarded); *)
(* how routers rank is not needed.                                          *)
(*                                                                          *)
(* A router with pods or backends is chosen for requests to one service     *)
(* only, by its rule or by its mesh port (IsFor), and its pods are of that  *)
(* service (IsOfPods).  One with backends was made from a split of the      *)
(* service (IsOfSplit), so a request that is passed on follows the splits   *)
(* of the topology, and every service it has passed leads to where it is    *)
(* (PassedInv).  When it comes back, the split it came by leads to a loop:  *)
(* Build has left one, and no pod may call it in ACL mode.                  *)
(*                                                                          *)
(* That a split is not bypassed takes the ranks, the keys and what the      *)
(* configuration contains besides the router that is chosen, and is not     *)
(* true for every cluster (OrdinaryCluster, ShortRules).                    *)
(***************************************************************************)
EXTENDS RoutingConfig, Topology_proofs

\* What a traffic target of a service in the topology is.
TargetsApply ==
    \A s \in DOMAIN services :
        /\ s \in Known
        /\ \A tt \in services[s].targets :
            /\ tt \in Target /\ Applies(tt, s)
            /\ serviceTrafficTargets[<<s, tt>>] = SourcePods(tt)

\* A router made from a traffic target of a service.
Guards(tt, s, router) ==
    /\ Applies(tt, s)
    /\ router.rule.services = {s}
    /\ router.rule.matches = ToSet(HTTPMatches(cluster.targets[tt].rules)) \ {{}}
    /\ ~ router.access.open /\ router.access.pods = SourcePods(tt)
    /\ \A server \in router.target.servers : server[1] \in DestinationPods(tt, s)

IsGuarded(router) ==
    cluster.acl /\ router.entry[1] = "http" /\ router.target.servers # {} =>
        \E s \in Name, tt \in Target : Guards(tt, s, router)

RoutersAreGuarded == \A k \in DOMAIN routers : IsGuarded(routers[k])

\* A router that requests for other services do not get to.
IsFor(s, router) ==
    IF cluster.type[s] = "http"
    THEN router.entry[1] = "http" /\ router.rule.services = {s}
    ELSE \E k \in DOMAIN cluster.meshPort :
            k[1] = s /\ router.entry = <<cluster.type[s], cluster.meshPort[k]>>

\* A router made from a split of a service.
Splits(ts, s, router) ==
    /\ IsFor(s, router)
    /\ router.target.backends = trafficSplits[ts].backends
    /\ cluster.type[s] = "http" =>
          router.rule.matches = ToSet(HTTPMatches(cluster.splits[ts].rules)) \ {{}}
    /\ cluster.acl /\ cluster.type[s] = "http" =>
          ~ router.access.open /\ router.access.pods = trafficSplits[ts].incoming

IsOfSplit(router) ==
    router.target.backends # << >> =>
        \E s \in Known : \E ts \in ToSet(services[s].splits) : Splits(ts, s, router)

IsOfPods(router) ==
    router.target.servers # {} =>
        \E s \in Known :
            /\ IsFor(s, router)
            /\ \A server \in router.target.servers : server[1] \in cluster.endpoints[s]

IsMade(router) == IsGuarded(router) /\ IsOfSplit(router) /\ IsOfPods(router)

AllMade(map) == \A k \in DOMAIN map : IsMade(map[k])

RoutersAreMade == AllMade(routers)

\* Whom the addresses of a request stand for.
RequestInv ==
    request # None =>
        /\ DOMAIN request = {"from", "root", "asked", "meets", "remote", "via", "service",
                             "number", "passed", "answer"}
        /\ request.via \in {None, Proxy, request.from}
        /\ request.remote \in {Proxy, request.from}

\* The topology that requests are forwarded by is complete.
EarlyInv == step # "configured" => routers = << >> /\ request = None

\* The splits of the topology, without those that were removed.
SplitsLeft == {ts \in Split : Kept(ts)}

\* A service that a request has passed has a split that leads to where the request is; in
\* ACL mode some pod may call it.
Passed(q) ==
    \E ts \in SplitsLeft :
        /\ trafficSplits[ts].service = q
        /\ cluster.acl /\ cluster.type[q] = "http" => trafficSplits[ts].incoming # {}
        /\ \E b \in ToSet(trafficSplits[ts].backends) : request.service \in Reach(SplitsLeft, b)

\* The splits that a request can be led on by.
Along(r) == UNION {SplitsFor(r, s) : s \in Known}

PassedInv == request # None => \A q \in request.passed : Passed(q)

IInv ==
    /\ BuildInv /\ EarlyInv /\ RoutersAreMade
    /\ RequestInv /\ PassedInv /\ ServedAsAllowed /\ NoRequestStrays

--------------------------------------------------------------------------------
(* What a step that leaves the topology alone leaves alone.                     *)

\* The pods of a traffic target depend on the cluster only.
LEMMA PodsStay ==
    ASSUME UNCHANGED cluster, NEW tt, NEW s
    PROVE  /\ SourcePods(tt)' = SourcePods(tt)
           /\ DestinationPods(tt, s)' = DestinationPods(tt, s)
BY DEF SourcePods, DestinationPods

\* So does whether a router guards one.
LEMMA GuardsStay ==
    ASSUME UNCHANGED cluster, NEW tt, NEW s, NEW router
    PROVE  Guards(tt, s, router)' = Guards(tt, s, router)
<1>1. HTTPMatches(cluster.targets[tt].rules)' = HTTPMatches(cluster.targets[tt].rules)
    BY SpecsStay
<1> QED BY <1>1, AppliesStays, PodsStay DEF Guards

\* And so does whom a router is for.
LEMMA IsForStays ==
    ASSUME UNCHANGED cluster, NEW s, NEW router
    PROVE  IsFor(s, router)' = IsFor(s, router)
BY DEF IsFor

\* Whether a router is one of a split depends on the splits of the topology, too.
LEMMA SplitsStays ==
    ASSUME UNCHANGED cluster, UNCHANGED trafficSplits, NEW ts, NEW s, NEW router
    PROVE  Splits(ts, s, router)' = Splits(ts, s, router)
<1>1. HTTPMatches(cluster.splits[ts].rules)' = HTTPMatches(cluster.splits[ts].rules)
    BY SpecsStay
<1> QED BY <1>1, IsForStays DEF Splits

\* A router stays what it was made from as long as the topology does.
LEMMA MadeStays ==
    ASSUME UNCHANGED <<cluster, services, trafficSplits>>, NEW router, IsMade(router)
    PROVE  IsMade(router)'
<1>1. IsGuarded(router)'
    BY GuardsStay DEF IsMade, IsGuarded
<1>2. IsOfSplit(router)'
    BY SplitsStays DEF IsMade, IsOfSplit, Known
<1>3. IsOfPods(router)'
    BY IsForStays DEF IsMade, IsOfPods, Known
<1> QED BY <1>1, <1>2, <1>3 DEF IsMade

\* What Build leaves is complete.
LEMMA TargetsAreApplied ==
    ASSUME BuildInv
    PROVE  ClusterInv /\ TargetsApply
<1> USE DEF BuildInv, TopologyInv
<1>1. \A s \in DOMAIN services : s \in Known
    BY DEF ServicesInv
<1>2. ASSUME NEW s \in DOMAIN services, NEW tt \in services[s].targets
      PROVE  tt \in Target /\ Applies(tt, s) /\ serviceTrafficTargets[<<s, tt>>] = SourcePods(tt)
    <2>1. step \notin {"services", "splits", "targets"}
        BY DEF TargetsInv
    <2>2. Applies(tt, s) /\ tt \in Target
        BY <2>1 DEF TargetsInv
    <2>3. s \in Destinations(tt) /\ s \in Name
        BY <1>1, <2>2, ClusterAssumption DEF Applies, ClusterInv, Known
    <2> QED BY <2>1, <2>2, <2>3 DEF TargetsInv
<1> QED BY <1>1, <1>2 DEF TargetsApply

--------------------------------------------------------------------------------
(* The routers of a service.                                                    *)

\* What the loops of the provider write into a map, they have made from a port, a
\* target or a split.
LEMMA MergedIsMade ==
    ASSUME NEW writes, \A i \in DOMAIN writes : AllMade(writes[i])
    PROVE  AllMade(Merged(writes))
BY DEF Merged, AllMade

\* The routers of two calls together.
LEMMA BothAreMade ==
    ASSUME NEW map1, NEW map2, AllMade(map1), AllMade(map2)
    PROVE  AllMade(Merged(<<map1, map2>>))
<1> DEFINE both == <<map1, map2>>
<1>1. \A i \in DOMAIN both : AllMade(both[i])
    OBVIOUS
<1> HIDE DEF both
<1>2. AllMade(Merged(both))
    BY <1>1, MergedIsMade
<1> QED BY <1>2 DEF both

\* No routers.
LEMMA NothingIsMade == AllMade(<< >>)
BY DEF AllMade

\* One router.
LEMMA OneIsMade ==
    ASSUME NEW key, NEW router, IsMade(router)
    PROVE  AllMade(Write(key, router))
BY DEF AllMade, Write

\* A router that leads to pods of its service.
LEMMA ToPodsIsMade ==
    ASSUME NEW s \in Known, NEW pods \in SUBSET cluster.endpoints[s], NEW port,
           NEW router, router.target = ToPods(pods, port), IsFor(s, router), IsGuarded(router)
    PROVE  IsMade(router)
<1>1. router.target.backends = << >>
    BY DEF ToPods
<1>2. \A server \in router.target.servers : server[1] \in cluster.endpoints[s]
    BY DEF ToPods
<1> QED BY <1>1, <1>2 DEF IsMade, IsOfSplit, IsOfPods

\* An HTTP router with a rule of its service.
LEMMA HTTPRouterIsFor ==
    ASSUME NEW s, cluster.type[s] = "http", NEW i, NEW rules, NEW forwarded, NEW access,
           NEW priority, NEW target
    PROVE  /\ IsFor(s, Router(<<"http", i>>, RuleOf(s, rules, forwarded), access, priority, target))
           /\ IsFor(s, HTTPRouter(i, RuleOf(s, rules, forwarded), access, priority, target))
<1>1. RuleOf(s, rules, forwarded).services = {s}
    BY DEF RuleOf
<1> QED BY <1>1 DEF IsFor, HTTPRouter, Router

\* Block-all routers have no servers.
LEMMA BlockAllIsMade ==
    ASSUME NEW s \in Known, cluster.type[s] = "http"
    PROVE  AllMade(BlockAllRouters(s))
<1> DEFINE key(i) == ServiceKey(s, Ports(s)[i])
           router(i) == Router(<<"http", i>>, RuleOf(s, << >>, FALSE), Nobody,
                               PriorityService, ToPods({}, Ports(s)[i]))
           write(i) == IF i > HTTPEntryPoints THEN << >> ELSE Write(key(i), router(i))
<1>1. ASSUME NEW i PROVE AllMade(write(i))
    <2>1. router(i).target = ToPods({}, Ports(s)[i])
        BY DEF Router
    <2>2. router(i).target.servers = {}
        BY DEF Router, ToPods
    <2>3. IsFor(s, router(i))
        BY HTTPRouterIsFor
    <2>4. IsMade(router(i))
        <3> HIDE DEF router
        <3> QED BY <2>1, <2>2, <2>3, ToPodsIsMade DEF IsGuarded
    <2> HIDE DEF router
    <2> QED BY <2>4, OneIsMade, NothingIsMade
<1>2. AllMade(Merged([i \in DOMAIN Ports(s) |-> write(i)]))
    <2> HIDE DEF write
    <2> QED BY <1>1, MergedIsMade
<1> QED BY <1>2 DEF BlockAllRouters

\* Without ACL nothing guards the routers of services.
LEMMA HTTPServicesAreMade ==
    ASSUME NEW s \in Known, cluster.type[s] = "http", ~ cluster.acl
    PROVE  AllMade(HTTPServiceRouters(s))
<1> DEFINE pods(i) == ToPods(cluster.endpoints[s], Ports(s)[i])
           router(i) == HTTPRouter(i, RuleOf(s, << >>, FALSE), Anybody, PriorityService, pods(i))
           write(i) == IF i > HTTPEntryPoints THEN << >>
                       ELSE Write(ServiceKey(s, Ports(s)[i]), router(i))
<1>1. ASSUME NEW i PROVE AllMade(write(i))
    <2>1. router(i).target = pods(i)
        BY DEF HTTPRouter, Router
    <2>2. IsFor(s, router(i))
        BY HTTPRouterIsFor
    <2>3. IsMade(router(i))
        <3> HIDE DEF router, pods
        <3>1. router(i).target = ToPods(cluster.endpoints[s], Ports(s)[i])
            BY <2>1 DEF pods
        <3> QED BY <2>2, <3>1, ToPodsIsMade DEF IsGuarded
    <2> HIDE DEF router
    <2> QED BY <2>3, OneIsMade, NothingIsMade
<1>2. AllMade(Merged([i \in DOMAIN Ports(s) |-> write(i)]))
    <2> HIDE DEF write
    <2> QED BY <1>1, MergedIsMade
<1> QED BY <1>2 DEF HTTPServiceRouters

\* A TCP or UDP router at a mesh port of its service.
LEMMA MappedRouterIsFor ==
    ASSUME NEW s, cluster.type[s] # "http", NEW port, IsMapped(s, port), NEW target
    PROVE  IsFor(s, MappedRouter(s, port, target)) /\ MappedRouter(s, port, target).target = target
           /\ MappedRouter(s, port, target).entry[1] # "http"
<1> DEFINE router == MappedRouter(s, port, target)
           k == <<s, port.number>>
<1>1. /\ router.entry = <<cluster.type[s], cluster.meshPort[k]>>
      /\ router.target = target
    BY DEF MappedRouter, Router, MappedEntryPoint
<1>2. k \in DOMAIN cluster.meshPort /\ k[1] = s
    BY DEF IsMapped
<1>3. router.entry[1] # "http"
    BY <1>1
<1> HIDE DEF router, k
<1>4. IsFor(s, router)
    BY <1>1, <1>2 DEF IsFor
<1> QED BY <1>1, <1>3, <1>4 DEF router

\* A TCP or UDP router that leads to pods of its service.
LEMMA MappedPodsAreMade ==
    ASSUME NEW s \in Known, cluster.type[s] # "http", NEW port, IsMapped(s, port),
           NEW pods \in SUBSET cluster.endpoints[s]
    PROVE  IsMade(MappedRouter(s, port, ToPods(pods, port)))
<1> DEFINE router == MappedRouter(s, port, ToPods(pods, port))
<1>1. IsFor(s, router) /\ router.target = ToPods(pods, port) /\ router.entry[1] # "http"
    BY MappedRouterIsFor
<1> HIDE DEF router
<1>2. IsMade(router)
    BY <1>1, ToPodsIsMade DEF IsGuarded
<1> QED BY <1>2 DEF router

\* The TCP or UDP routers of a service.
LEMMA MappedServicesAreMade ==
    ASSUME NEW s \in Known, cluster.type[s] # "http"
    PROVE  AllMade(MappedServiceRouters(s))
<1> DEFINE write(i) ==
               IF ~ IsMapped(s, Ports(s)[i]) THEN << >>
               ELSE Write(ServiceKey(s, Ports(s)[i]),
                       MappedRouter(s, Ports(s)[i], ToPods(cluster.endpoints[s], Ports(s)[i])))
<1>1. ASSUME NEW i PROVE AllMade(write(i))
    BY MappedPodsAreMade, OneIsMade, NothingIsMade
<1>2. AllMade(Merged([i \in DOMAIN Ports(s) |-> write(i)]))
    <2> HIDE DEF write
    <2> QED BY <1>1, MergedIsMade
<1> QED BY <1>2 DEF MappedServiceRouters

\* The TCP routers of a traffic target lead to its destinations, which are pods of the
\* service.
LEMMA MappedTargetsAreMade ==
    ASSUME NEW s \in Known, cluster.type[s] # "http", NEW tt
    PROVE  AllMade(TCPTargetRouters(tt, s))
<1> DEFINE ports == DestinationPorts(tt, s)
           write(i) ==
               IF ~ HasTCPRoute(cluster.targets[tt].rules) \/ ~ IsMapped(s, ports[i]) THEN << >>
               ELSE Write(ServiceKey(s, ports[i]),
                       MappedRouter(s, ports[i], ToPods(DestinationPods(tt, s), ports[i])))
<1>1. DestinationPods(tt, s) \in SUBSET cluster.endpoints[s]
    BY DEF DestinationPods
<1>2. ASSUME NEW i PROVE AllMade(write(i))
    BY <1>1, MappedPodsAreMade, OneIsMade, NothingIsMade
<1>3. AllMade(Merged([i \in DOMAIN ports |-> write(i)]))
    <2> HIDE DEF write
    <2> QED BY <1>2, MergedIsMade
<1> QED BY <1>3 DEF TCPTargetRouters

\* A TCP or UDP router of a split has the backends of the split, at a mesh port of its
\* service.
LEMMA MappedSplitsAreMade ==
    ASSUME NEW s \in Known, cluster.type[s] # "http", NEW ts \in ToSet(services[s].splits)
    PROVE  AllMade(MappedSplitRouters(ts, s))
<1> DEFINE target(i) == ToBackends(trafficSplits[ts].backends, Ports(s)[i].target)
           router(i) == MappedRouter(s, Ports(s)[i], target(i))
           write(i) == IF ~ IsMapped(s, Ports(s)[i]) THEN << >>
                       ELSE Write(ServiceKey(s, Ports(s)[i]), router(i))
<1>1. ASSUME NEW i, IsMapped(s, Ports(s)[i]) PROVE IsMade(router(i))
    <2>1. IsFor(s, router(i)) /\ router(i).target = target(i) /\ router(i).entry[1] # "http"
        BY <1>1, MappedRouterIsFor
    <2>2. target(i).servers = {} /\ target(i).backends = trafficSplits[ts].backends
        BY DEF ToBackends
    <2> HIDE DEF router, target
    <2> QED BY <2>1, <2>2 DEF IsMade, IsGuarded, IsOfSplit, IsOfPods, Splits
<1>2. ASSUME NEW i PROVE AllMade(write(i))
    <2> HIDE DEF router
    <2> QED BY <1>1, OneIsMade, NothingIsMade
<1>3. AllMade(Merged([i \in DOMAIN Ports(s) |-> write(i)]))
    <2> HIDE DEF write
    <2> QED BY <1>2, MergedIsMade
<1> QED BY <1>3 DEF MappedSplitRouters

\* Both routers of a traffic target have its sources as their whitelist.
LEMMA HTTPTargetsAreMade ==
    ASSUME ClusterInv, TargetsApply, NEW s \in DOMAIN services, NEW tt \in services[s].targets,
           cluster.type[s] = "http"
    PROVE  AllMade(HTTPTargetRouters(tt, s))
<1> DEFINE ports == DestinationPorts(tt, s)
           rules == cluster.targets[tt].rules
           To(i) == ToPods(DestinationPods(tt, s), ports[i])
           direct(i) == HTTPRouter(i, RuleOf(s, rules, IsBackend(s) /\ i > 1),
                                   ListedSources(tt, s, FALSE), PriorityTrafficTargetDirect, To(i))
           indirect(i) == HTTPRouter(i, RuleOf(s, rules, TRUE),
                                     ListedSources(tt, s, TRUE), PriorityTrafficTargetIndirect, To(i))
           Direct(i) == Write(TargetKey(tt, s, ports[i], "direct"), direct(i))
           Indirect(i) == Write(TargetKey(tt, s, ports[i], "indirect"), indirect(i))
           write(i) == IF i > HTTPEntryPoints THEN << >>
                       ELSE IF IsBackend(s) THEN Merged(<<Direct(i), Indirect(i)>>)
                       ELSE Direct(i)
<1>1. /\ s \in Name /\ s \in Known /\ tt \in Target /\ Applies(tt, s)
      /\ serviceTrafficTargets[<<s, tt>>] = SourcePods(tt)
      /\ DestinationPods(tt, s) \in SUBSET cluster.endpoints[s]
    BY ClusterAssumption DEF ClusterInv, TargetsApply, Known, DestinationPods
<1>2. ASSUME NEW i, NEW forwarded, NEW listed, NEW priority
      PROVE  IsMade(HTTPRouter(i, RuleOf(s, rules, forwarded),
                               ListedSources(tt, s, listed), priority, To(i)))
    <2> DEFINE router == HTTPRouter(i, RuleOf(s, rules, forwarded),
                                    ListedSources(tt, s, listed), priority, To(i))
    <2>1. router.rule = RuleOf(s, rules, forwarded)
        BY DEF HTTPRouter, Router
    <2>2. router.rule.services = {s} /\ router.rule.matches = ToSet(HTTPMatches(rules)) \ {{}}
        <3> HIDE DEF router
        <3> QED BY <2>1 DEF RuleOf
    <2>3. ~ router.access.open /\ router.access.pods = SourcePods(tt)
        BY <1>1 DEF HTTPRouter, Router, ListedSources, Whitelist
    <2>4. \A server \in router.target.servers : server[1] \in DestinationPods(tt, s)
        BY DEF HTTPRouter, Router, ToPods
    <2>5. Guards(tt, s, router)
        BY <1>1, <2>2, <2>3, <2>4 DEF Guards
    <2>6. router.target = ToPods(DestinationPods(tt, s), ports[i]) /\ IsFor(s, router)
        BY HTTPRouterIsFor DEF HTTPRouter, Router
    <2> HIDE DEF router
    <2>7. IsMade(router)
        BY <1>1, <2>5, <2>6, ToPodsIsMade DEF IsGuarded
    <2> QED BY <2>7 DEF router
<1>3. ASSUME NEW i PROVE AllMade(write(i))
    <2>1. IsMade(direct(i)) /\ IsMade(indirect(i))
        BY <1>2
    <2>2. AllMade(Direct(i)) /\ AllMade(Indirect(i))
        <3> HIDE DEF direct, indirect
        <3> QED BY <2>1, OneIsMade
    <2> HIDE DEF Direct, Indirect
    <2> QED BY <2>2, BothAreMade, NothingIsMade
<1>4. AllMade(Merged([i \in DOMAIN ports |-> write(i)]))
    <2> HIDE DEF write
    <2> QED BY <1>3, MergedIsMade
<1> QED BY <1>4 DEF HTTPTargetRouters

\* Routers of splits have backends and no servers.
LEMMA HTTPSplitsAreMade ==
    ASSUME NEW s \in Known, cluster.type[s] = "http", NEW ts \in ToSet(services[s].splits)
    PROVE  AllMade(HTTPSplitRouters(ts, s))
<1> DEFINE rules == cluster.splits[ts].rules
           To(i) == ToBackends(trafficSplits[ts].backends, Ports(s)[i].number)
           needed == cluster.acl /\ IsBackend(s)
           Listed(forwarded) ==
               IF cluster.acl THEN Whitelist(trafficSplits[ts].incoming, forwarded) ELSE Anybody
           direct(i) == HTTPRouter(i, RuleOf(s, rules, needed /\ i > 1), Listed(FALSE),
                                   SplitPriority, To(i))
           indirect(i) == HTTPRouter(i, RuleOf(s, rules, TRUE), Listed(TRUE),
                                     PriorityTrafficTargetIndirect, To(i))
           Direct(i) == Write(SplitKey(ts, s, Ports(s)[i], "direct"), direct(i))
           Indirect(i) == Write(SplitKey(ts, s, Ports(s)[i], "indirect"), indirect(i))
           write(i) == IF i > HTTPEntryPoints THEN << >>
                       ELSE IF needed THEN Merged(<<Direct(i), Indirect(i)>>)
                       ELSE Direct(i)
<1>1. ASSUME NEW i, NEW forwarded, NEW listed, NEW priority
      PROVE  IsMade(HTTPRouter(i, RuleOf(s, rules, forwarded), Listed(listed), priority, To(i)))
    <2> DEFINE router == HTTPRouter(i, RuleOf(s, rules, forwarded), Listed(listed), priority, To(i))
    <2>1. router.target = To(i) /\ router.access = Listed(listed) /\ IsFor(s, router)
        BY HTTPRouterIsFor DEF HTTPRouter, Router
    <2>6. router.rule.matches = ToSet(HTTPMatches(rules)) \ {{}}
        BY DEF HTTPRouter, Router, RuleOf
    <2>2. To(i).servers = {} /\ To(i).backends = trafficSplits[ts].backends
        BY DEF ToBackends
    <2>3. cluster.acl => ~ Listed(listed).open /\ Listed(listed).pods = trafficSplits[ts].incoming
        BY DEF Whitelist
    <2> HIDE DEF router, To, Listed
    <2>4. Splits(ts, s, router)
        BY <2>1, <2>2, <2>3, <2>6 DEF Splits
    <2>5. IsMade(router)
        BY <2>1, <2>2, <2>4 DEF IsMade, IsGuarded, IsOfSplit, IsOfPods
    <2> QED BY <2>5 DEF router
<1>2. ASSUME NEW i PROVE AllMade(write(i))
    <2>1. IsMade(direct(i)) /\ IsMade(indirect(i))
        BY <1>1
    <2>2. AllMade(Direct(i)) /\ AllMade(Indirect(i))
        <3> HIDE DEF direct, indirect
        <3> QED BY <2>1, OneIsMade
    <2> HIDE DEF Direct, Indirect
    <2> QED BY <2>2, BothAreMade, NothingIsMade
<1>3. AllMade(Merged([i \in DOMAIN Ports(s) |-> write(i)]))
    <2> HIDE DEF write
    <2> QED BY <1>2, MergedIsMade
<1> QED BY <1>3 DEF HTTPSplitRouters

\* The routers that a service has before its targets and splits are looked at.
LEMMA BaseIsMade ==
    ASSUME ClusterInv, NEW s \in Known
    PROVE  AllMade(BaseRouters(s))
<1>1. cluster.acl \in BOOLEAN
    BY RoutingAssumption DEF ClusterInv
<1>2. CASE cluster.type[s] = "http"
    BY <1>1, <1>2, BlockAllIsMade, HTTPServicesAreMade DEF BaseRouters
<1>3. CASE cluster.type[s] # "http"
    BY <1>1, <1>3, NothingIsMade, MappedServicesAreMade DEF BaseRouters
<1> QED BY <1>2, <1>3

\* The routers of one traffic target.
LEMMA TargetsAreMade ==
    ASSUME ClusterInv, TargetsApply,
           NEW s \in DOMAIN services, NEW tt \in services[s].targets,
           cluster.type[s] \in {"http", "tcp", "udp"}
    PROVE  AllMade(TargetRouters(tt, s))
<1>1. CASE ~ cluster.acl \/ cluster.type[s] = "udp"
    BY <1>1, NothingIsMade DEF TargetRouters
<1>2. CASE cluster.acl /\ cluster.type[s] = "http"
    BY <1>2, HTTPTargetsAreMade DEF TargetRouters
<1>3. CASE cluster.acl /\ cluster.type[s] = "tcp"
    BY <1>3, MappedTargetsAreMade DEF TargetRouters, TargetsApply
<1> QED BY <1>1, <1>2, <1>3

\* The routers of one service, in every order of its traffic targets.
LEMMA RoutersOfAreMade ==
    ASSUME BuildInv, NEW s \in DOMAIN services, HasRouters(s),
           NEW targets \in SetToSeqs(services[s].targets)
    PROVE  AllMade(RoutersOf(s, targets))
<1> DEFINE ofTargets == [i \in DOMAIN targets |-> TargetRouters(targets[i], s)]
           ofSplits == [i \in DOMAIN services[s].splits |->
                           SplitRouters(services[s].splits[i], s)]
           all == <<BaseRouters(s), Merged(ofTargets), Merged(ofSplits)>>
<1>1. ClusterInv /\ TargetsApply /\ s \in Known
    BY TargetsAreApplied DEF TargetsApply
<1>2. cluster.type[s] \in {"http", "tcp", "udp"}
    BY <1>1, RoutingAssumption DEF ClusterInv, HasRouters, Known
<1>3. \A i \in DOMAIN targets : targets[i] \in services[s].targets
    BY DEF SetToSeqs
<1>4. AllMade(Merged(ofTargets))
    <2>1. \A i \in DOMAIN ofTargets : AllMade(ofTargets[i])
        BY <1>1, <1>2, <1>3, TargetsAreMade
    <2> HIDE DEF ofTargets
    <2> QED BY <2>1, MergedIsMade
<1>5. AllMade(Merged(ofSplits))
    <2>1. \A i \in DOMAIN ofSplits : AllMade(ofSplits[i])
        BY <1>1, HTTPSplitsAreMade, MappedSplitsAreMade DEF SplitRouters, ToSet
    <2> HIDE DEF ofSplits
    <2> QED BY <2>1, MergedIsMade
<1>6. AllMade(Merged(all))
    <2> HIDE DEF ofTargets, ofSplits
    <2>1. \A j \in DOMAIN all : AllMade(all[j])
        BY <1>1, <1>4, <1>5, BaseIsMade
    <2> HIDE DEF all
    <2> QED BY <2>1, MergedIsMade
<1> QED BY <1>6 DEF RoutersOf

--------------------------------------------------------------------------------
(* The steps.                                                                   *)

\* The first state.
LEMMA InitHolds == RoutingInit => IInv
<1> SUFFICES ASSUME RoutingInit PROVE IInv
    OBVIOUS
<1>1. BuildInv
    BY BuildStarts DEF RoutingInit
<1> QED BY <1>1 DEF RoutingInit, IInv, EarlyInv, RoutersAreMade, AllMade, RequestInv, PassedInv,
                    ServedAsAllowed, NoRequestStrays, IsServed

\* BuildConfig makes the routers of one service more.
LEMMA BuildConfigKeeps ==
    ASSUME BuildInv, RoutersAreMade, BuildConfig
    PROVE  BuildInv' /\ RoutersAreMade'
<1>1. UNCHANGED <<cluster, services, trafficSplits>> /\ Configures
    BY DEF BuildConfig, Configures
<1>2. BuildInv'
    BY <1>1, ConfiguresKeeps
<1>3. PICK s \in DOMAIN services : SkipService(s) \/ AddService(s)
    BY DEF BuildConfig
<1>4. AllMade(routers')
    <2>1. CASE SkipService(s)
        BY <2>1 DEF SkipService, RoutersAreMade
    <2>2. CASE AddService(s)
        <3>1. PICK targets \in SetToSeqs(services[s].targets) :
                routers' = Merged(<<routers, RoutersOf(s, targets)>>)
            BY <2>2 DEF AddService
        <3>2. AllMade(routers) /\ AllMade(RoutersOf(s, targets))
            BY <2>2, RoutersOfAreMade DEF AddService, RoutersAreMade
        <3> QED BY <3>1, <3>2, BothAreMade
    <2> QED BY <1>3, <2>1, <2>2
<1>5. \A k \in DOMAIN routers' : IsMade(routers'[k])
    BY <1>4 DEF AllMade
<1>6. \A k \in DOMAIN routers' : IsMade(routers[k])'
    BY <1>1, <1>5, MadeStays
<1> QED BY <1>2, <1>6 DEF RoutersAreMade, AllMade

\* What answers and forwarded requests leave alone.
LEMMA ConfigurationStays ==
    ASSUME BuildInv, RoutersAreMade, UNCHANGED <<vars, routers>>
    PROVE  BuildInv' /\ RoutersAreMade'
<1>1. BuildInv' /\ UNCHANGED <<cluster, services, trafficSplits>>
    BY BuildStutters DEF vars
<1>2. \A k \in DOMAIN routers : IsMade(routers[k])
    BY DEF RoutersAreMade, AllMade
<1>3. \A k \in DOMAIN routers' : IsMade(routers[k])'
    BY <1>1, <1>2, MadeStays
<1> QED BY <1>1, <1>3 DEF RoutersAreMade, AllMade

\* The graph of the splits that are left stays as it is when BuildConfig has begun.
LEMMA LeftStay ==
    ASSUME UNCHANGED <<cluster, services, trafficSplits>>
    PROVE  /\ SplitsLeft' = SplitsLeft /\ SplitsLeft \in SUBSET Split
           /\ \A s : Reach(SplitsLeft, s)' = Reach(SplitsLeft, s)
           /\ \A s : LeadsToLoop(SplitsLeft, s)' <=> LeadsToLoop(SplitsLeft, s)
<1> DEFINE left == SplitsLeft
<1>1. SameSplits
    BY DEF SameSplits
<1>2. \A ts \in Split : Kept(ts)' <=> Kept(ts)
    BY AttachedStays DEF Kept
<1>3. left' = left /\ left \in SUBSET Split
    BY <1>2 DEF SplitsLeft
<1> HIDE DEF left
<1>4. \A X \in SUBSET Split : \A s : Reach(X, s)' = Reach(X, s)
    BY <1>1, ReachStays
<1>5. \A X \in SUBSET Split : \A s : LeadsToLoop(X, s)' <=> LeadsToLoop(X, s)
    BY <1>1, LoopsStay
<1>6. \A s : Reach(left, s)' = Reach(left, s)
    BY <1>3, <1>4
<1>7. \A s : LeadsToLoop(left, s)' <=> LeadsToLoop(left, s)
    BY <1>3, <1>5
<1> QED BY <1>3, <1>6, <1>7 DEF left

\* A service that was passed stays one while the request is at the same service.
LEMMA PassedStays ==
    ASSUME UNCHANGED <<cluster, services, trafficSplits>>, request'.service = request.service,
           NEW q, Passed(q)
    PROVE  Passed(q)'
BY LeftStay DEF Passed

\* A request that matches a rule has what the specs ask for.
LEMMA RuleAdmits ==
    ASSUME NEW rule, NEW rules, rule.matches = ToSet(HTTPMatches(rules)) \ {{}},
           MatchesRule(request, rule)
    PROVE  Admits(rules, request.meets)
<1> DEFINE matches == ToSet(HTTPMatches(rules))
<1>1. matches \ {{}} = {} \/ \E m \in matches : m \subseteq request.meets
    BY DEF MatchesRule
<1>2. matches = {} \/ \E m \in matches : m \subseteq request.meets
    <2> HIDE DEF matches
    <2>1. CASE matches \ {{}} = {}
        <3>1. \A m \in matches : m = {}
            BY <2>1
        <3> QED BY <3>1
    <2> QED BY <1>1, <2>1
<1> QED BY <1>2 DEF Admits

\* A server is reached through a guarded router only, which lets only sources of its
\* target through: the address it looks at is that of the caller or of a proxy.
LEMMA ServedFromGuarded ==
    ASSUME ClusterInv, RoutersAreMade, RequestInv, request # None,
           cluster.acl, cluster.type[request.service] = "http",
           NEW entry \in EntryPoints(request.service, request.number),
           NEW router \in Chosen(request, entry),
           LetsThrough(router.access, request),
           NEW server \in router.target.servers
    PROVE  \E tt \in Target :
              /\ Applies(tt, request.service)
              /\ request.from \in SourcePods(tt)
              /\ Admits(cluster.targets[tt].rules, request.meets)
              /\ server[1] \in DestinationPods(tt, request.service)
<1>1. entry[1] = "http"
    BY DEF EntryPoints
<1>2. /\ router.entry = entry /\ MatchesRule(request, router.rule)
      /\ \E k \in DOMAIN routers : router = routers[k]
    BY DEF Chosen
<1>3. PICK s \in Name, tt \in Target : Guards(tt, s, router)
    BY <1>1, <1>2 DEF RoutersAreMade, AllMade, IsMade, IsGuarded
<1>4. s = request.service
    BY <1>2, <1>3 DEF Guards, MatchesRule
<1>5. request.from \in SourcePods(tt)
    <2>1. request.via \in SourcePods(tt) \/ request.remote \in SourcePods(tt)
        BY <1>3 DEF Guards, LetsThrough
    <2>2. SourcePods(tt) \subseteq Pod
        BY ClusterAssumption DEF SourcePods, ClusterInv
    <2>3. Proxy \notin SourcePods(tt) /\ None \notin SourcePods(tt)
        BY <2>2, RoutingAssumption
    <2> QED BY <2>1, <2>3 DEF RequestInv
<1>6. Admits(cluster.targets[tt].rules, request.meets)
    BY <1>2, <1>3, RuleAdmits DEF Guards
<1> QED BY <1>3, <1>4, <1>5, <1>6 DEF Guards

\* The splits of a service in a complete topology.
LEMMA LeftOf ==
    ASSUME BuildInv, step = "configured", NEW s \in Known, NEW ts \in ToSet(services[s].splits)
    PROVE  ts \in SplitsLeft /\ trafficSplits[ts].service = s
<1>1. ts \in SplitsAt(s) /\ DOMAIN trafficSplits = Split
    BY DEF BuildInv, TopologyInv, AttachedInv, SplitsInv
<1>2. Attached(ts) /\ trafficSplits[ts].service = s
    BY <1>1 DEF SplitsAt, BuildInv, TopologyInv, SplitsInv
<1> QED BY <1>1, <1>2 DEF SplitsLeft, Kept, SplitsAt

\* The entry point and the rule of a router that is chosen for a request are for the
\* service it is at.
LEMMA ChosenIsFor ==
    ASSUME ClusterInv, NEW entry \in EntryPoints(request.service, request.number),
           NEW router \in Chosen(request, entry), NEW s \in Known, IsFor(s, router)
    PROVE  s = request.service
<1>1. router.entry = entry /\ MatchesRule(request, router.rule)
    BY DEF Chosen
<1>2. cluster \in Cluster /\ request.service \in Known
    BY DEF EntryPoints, ClusterInv
<1>3. CASE cluster.type[request.service] = "http"
    <2>1. entry[1] = "http"
        BY <1>3 DEF EntryPoints
    <2>2. cluster.type[s] = "http"
        BY <1>1, <2>1 DEF IsFor
    <2> QED BY <1>1, <2>2 DEF IsFor, MatchesRule
<1>4. CASE cluster.type[request.service] # "http"
    <2>1. PICK i : /\ IsMapped(request.service, Ports(request.service)[i])
                   /\ entry = MappedEntryPoint(request.service, Ports(request.service)[i])
        BY <1>4 DEF EntryPoints
    <2> DEFINE l == <<request.service, Ports(request.service)[i].number>>
    <2>2. l \in DOMAIN cluster.meshPort /\ entry = <<cluster.type[request.service], cluster.meshPort[l]>>
        BY <2>1 DEF IsMapped, MappedEntryPoint
    <2>3. l[1] = request.service
        OBVIOUS
    <2> HIDE DEF l
    <2>4. cluster.type[s] # "http"
        BY <1>1, <1>4, <2>2 DEF IsFor
    <2>5. PICK k \in DOMAIN cluster.meshPort :
            k[1] = s /\ router.entry = <<cluster.type[s], cluster.meshPort[k]>>
        BY <2>4 DEF IsFor
    <2>6. k = l
        BY <1>1, <1>2, <2>2, <2>3, <2>5, RoutingAssumption DEF Known
    <2> QED BY <2>3, <2>5, <2>6
<1> QED BY <1>3, <1>4

\* A request is forwarded along a split of the service it is at.  In ACL mode the router
\* of an HTTP service lets only pods through that may call the split.
LEMMA ForwardFollowsSplit ==
    ASSUME BuildInv, RoutersAreMade, step = "configured",
           NEW entry \in EntryPoints(request.service, request.number),
           NEW router \in Chosen(request, entry),
           LetsThrough(router.access, request),
           NEW b \in ToSet(router.target.backends)
    PROVE  \E ts \in SplitsLeft :
              /\ trafficSplits[ts].service = request.service
              /\ b \in ToSet(trafficSplits[ts].backends)
              /\ request.service \in Known /\ ts \in SplitsFor(request, request.service)
              /\ cluster.acl /\ cluster.type[request.service] = "http" =>
                    trafficSplits[ts].incoming # {}
<1>1. router.target.backends # << >>
    BY DEF ToSet
<1>2. \E k \in DOMAIN routers : router = routers[k]
    BY DEF Chosen
<1>3. PICK s \in Known : \E ts \in ToSet(services[s].splits) : Splits(ts, s, router)
    BY <1>1, <1>2 DEF RoutersAreMade, AllMade, IsMade, IsOfSplit
<1>4. PICK ts \in ToSet(services[s].splits) : Splits(ts, s, router)
    BY <1>3
<1>5. s = request.service
    BY <1>4, ChosenIsFor DEF Splits, BuildInv, TopologyInv
<1>6. ts \in SplitsLeft /\ trafficSplits[ts].service = s
    BY LeftOf
<1>7. ts \in SplitsFor(request, s)
    <2>1. MatchesRule(request, router.rule)
        BY DEF Chosen
    <2>2. cluster.type[s] = "http" => Admits(cluster.splits[ts].rules, request.meets)
        BY <1>4, <2>1, RuleAdmits DEF Splits
    <2> QED BY <2>2 DEF SplitsFor
<1> QED BY <1>4, <1>5, <1>6, <1>7 DEF Splits, LetsThrough

\* A request is served by a pod of the service it is at.
LEMMA ServedByOwnPod ==
    ASSUME ClusterInv, RoutersAreMade,
           NEW entry \in EntryPoints(request.service, request.number),
           NEW router \in Chosen(request, entry),
           NEW server \in router.target.servers
    PROVE  server[1] \in cluster.endpoints[request.service]
<1>1. \E k \in DOMAIN routers : router = routers[k]
    BY DEF Chosen
<1>2. PICK s \in Known :
        /\ IsFor(s, router)
        /\ \A x \in router.target.servers : x[1] \in cluster.endpoints[s]
    BY <1>1 DEF RoutersAreMade, AllMade, IsMade, IsOfPods
<1>3. s = request.service
    BY <1>2, ChosenIsFor
<1> QED BY <1>2, <1>3

\* What the rules of a traffic target admit depends on the cluster only.
LEMMA AdmitsStays ==
    ASSUME UNCHANGED cluster, NEW rules, NEW meets
    PROVE  Admits(rules, meets)' = Admits(rules, meets)
BY SpecsStay DEF Admits

\* The ways of a request are made of splits that are left, and stay.
LEMMA ReachedStays ==
    ASSUME BuildInv, step = "configured", UNCHANGED <<cluster, services, trafficSplits>>, NEW r
    PROVE  Along(r) \in SUBSET Split /\ Reached(r)' = Reached(r)
<1> DEFINE along == Along(r)
<1>1. \A s \in Known : ToSet(services[s].splits) \subseteq Split
    BY LeftOf DEF SplitsLeft
<1>2. along \in SUBSET Split
    BY <1>1 DEF Along, SplitsFor
<1>3. \A s : SplitsFor(r, s)' = SplitsFor(r, s)
    BY AdmitsStays DEF SplitsFor
<1>4. along' = along
    BY <1>3 DEF Along, Known
<1> HIDE DEF along
<1>5. Reach(along, r.root)' = Reach(along, r.root)
    <2>1. \A X \in SUBSET Split : \A s : Reach(X, s)' = Reach(X, s)
        BY ReachStays DEF SameSplits
    <2> PICK s : s = r.root
        OBVIOUS
    <2>2. Reach(along, s)' = Reach(along, s)
        BY <1>2, <1>4, <2>1
    <2> QED BY <2>2
<1> QED BY <1>2, <1>5 DEF Reached, Along, along

\* A request is on its ways when it was, or when a split of the service it was at has led
\* it on.
LEMMA StaysOnWays ==
    ASSUME BuildInv, step = "configured", UNCHANGED <<cluster, services, trafficSplits>>,
           NEW r, NEW q, r = request', q = request'.service, q \in Reached(r),
           IsServed' => request'.answer.server[1] \in cluster.endpoints[q]
    PROVE  NoRequestStrays'
<1>1. Reached(r)' = Reached(r)
    BY ReachedStays
<1> QED BY <1>1 DEF NoRequestStrays

\* The ways depend on the service a request was sent to and what it meets.
LEMMA SameWays ==
    ASSUME NEW r1, NEW r2, r1.root = r2.root, r1.meets = r2.meets
    PROVE  Reached(r1) = Reached(r2)
BY DEF Reached, SplitsFor

\* Steps that only answer a request, or do not concern it.
LEMMA StraysStay ==
    ASSUME BuildInv, EarlyInv, UNCHANGED <<cluster, services, trafficSplits>>,
           NoRequestStrays,
           request' = request \/ /\ request # None /\ request'.root = request.root
                                 /\ request'.meets = request.meets
                                 /\ request'.service = request.service,
           IsServed' => \/ request' = request
                        \/ request'.answer.server[1] \in cluster.endpoints[request.service]
    PROVE  NoRequestStrays'
<1>1. CASE request' = None
    BY <1>1 DEF NoRequestStrays, IsServed
<1>2. CASE request' # None
    <2> PICK r, q : r = request' /\ q = request.service
        OBVIOUS
    <2>1. request # None /\ r.root = request.root /\ r.meets = request.meets
          /\ q = request'.service /\ step = "configured"
        BY <1>2 DEF EarlyInv
    <2>2. q \in Reached(r)
        BY <2>1, SameWays DEF NoRequestStrays
    <2>3. IsServed' => request'.answer.server[1] \in cluster.endpoints[q]
        BY <2>1 DEF NoRequestStrays, IsServed
    <2> QED BY <2>1, <2>2, <2>3, StaysOnWays
<1> QED BY <1>1, <1>2

\* A request that was served as allowed stays so.
LEMMA ServedStays ==
    ASSUME ServedAsAllowed, UNCHANGED <<cluster, request>>
    PROVE  ServedAsAllowed'
<1>1. ASSUME NEW tt, NEW s, NEW meets
      PROVE  /\ Applies(tt, s)' = Applies(tt, s)
             /\ SourcePods(tt)' = SourcePods(tt)
             /\ DestinationPods(tt, s)' = DestinationPods(tt, s)
             /\ Admits(cluster.targets[tt].rules, meets)' = Admits(cluster.targets[tt].rules, meets)
    BY AppliesStays, PodsStay, AdmitsStays
<1> QED BY <1>1 DEF ServedAsAllowed, IsServed

\* Init and the loops of Build are over before the first router is made.
LEMMA EarlyStays ==
    ASSUME EarlyInv, UNCHANGED <<step, routers>>, step = "configured" \/ UNCHANGED request
    PROVE  EarlyInv'
BY DEF EarlyInv

\* An answer other than that of a server.
LEMMA AnswerKeeps ==
    ASSUME IInv, IsAtProxy, NEW answer, Answer(answer), answer.kind # "served"
    PROVE  IInv'
<1>1. /\ request' = [request EXCEPT !.answer = answer]
      /\ UNCHANGED <<cluster, services, trafficSplits, step>> /\ UNCHANGED <<vars, routers>>
      /\ step = "configured"
    BY DEF Answer, vars, IInv, EarlyInv, IsAtProxy
<1>2. /\ RequestInv' /\ request'.answer = answer /\ request'.service = request.service
      /\ request'.passed = request.passed /\ request'.root = request.root
      /\ request'.meets = request.meets
    BY <1>1 DEF IInv, RequestInv, IsAtProxy
<1>3. PassedInv' /\ EarlyInv'
    BY <1>1, <1>2, PassedStays, EarlyStays DEF IInv, PassedInv, IsAtProxy
<1>4. NoRequestStrays'
    BY <1>1, <1>2, StraysStay DEF IInv, IsAtProxy, IsServed
<1> QED BY <1>1, <1>2, <1>3, <1>4, ConfigurationStays DEF IInv, ServedAsAllowed, IsServed

\* A new request, at the service it is for.
LEMMA SendKeeps ==
    ASSUME IInv, SendRequest
    PROVE  IInv'
<1>1. UNCHANGED <<vars, routers>> /\ step = "configured" /\ UNCHANGED step
    BY DEF SendRequest, IsComplete, vars
<1>2. RequestInv' /\ ~ IsServed' /\ PassedInv'
    BY DEF SendRequest, RequestInv, IsServed, Unanswered, PassedInv
<1>3. NoRequestStrays'
    <2> PICK r, q : r = request' /\ q = request'.service
        OBVIOUS
    <2>1. q \in Known /\ r.root = q
        BY DEF SendRequest
    <2>2. q \in Reached(r)
        BY <2>1, ReachStart DEF Reached
    <2>3. UNCHANGED <<cluster, services, trafficSplits>>
        BY <1>1 DEF vars
    <2> QED BY <1>1, <1>2, <2>2, <2>3, StaysOnWays DEF IInv
<1> QED BY <1>1, <1>2, <1>3, ConfigurationStays, EarlyStays DEF IInv, ServedAsAllowed

\* A request that a proxy gives to a backend of a split: the services it has passed lead to
\* the backend too.
LEMMA ForwardKeeps ==
    ASSUME IInv, Forward
    PROVE  IInv'
<1>1. UNCHANGED <<vars, routers>> /\ UNCHANGED <<cluster, services, trafficSplits, step>>
    BY DEF Forward, vars
<1>2. PICK entry \in EntryPoints(request.service, request.number) :
        \E router \in Chosen(request, entry) :
            /\ LetsThrough(router.access, request)
            /\ \E b \in ToSet(router.target.backends) :
                request' = [request EXCEPT !.via = request.remote, !.remote = Proxy,
                                           !.service = b, !.number = router.target.number,
                                           !.passed = @ \cup {request.service}]
    BY DEF Forward
<1>3. PICK router \in Chosen(request, entry) :
            /\ LetsThrough(router.access, request)
            /\ \E b \in ToSet(router.target.backends) :
                request' = [request EXCEPT !.via = request.remote, !.remote = Proxy,
                                           !.service = b, !.number = router.target.number,
                                           !.passed = @ \cup {request.service}]
    BY <1>2
<1>4. PICK b \in ToSet(router.target.backends) :
                request' = [request EXCEPT !.via = request.remote, !.remote = Proxy,
                                           !.service = b, !.number = router.target.number,
                                           !.passed = @ \cup {request.service}]
    BY <1>3
<1>5. IsAtProxy /\ step = "configured"
    BY DEF Forward, IInv, EarlyInv, IsAtProxy
<1>6. /\ RequestInv' /\ request'.answer = request.answer
      /\ request'.service = b /\ request'.passed = request.passed \cup {request.service}
      /\ request'.root = request.root /\ request'.meets = request.meets
    BY <1>4, <1>5 DEF IInv, RequestInv, IsAtProxy
<1>7. PICK ts \in SplitsLeft :
        /\ trafficSplits[ts].service = request.service
        /\ b \in ToSet(trafficSplits[ts].backends)
        /\ request.service \in Known /\ ts \in SplitsFor(request, request.service)
        /\ cluster.acl /\ cluster.type[request.service] = "http" =>
              trafficSplits[ts].incoming # {}
    BY <1>3, <1>5, ForwardFollowsSplit DEF IInv
<1>8. SplitsLeft \in SUBSET Split /\ BackendsKnown
    BY <1>5 DEF SplitsLeft, BackendsKnown, IInv, BuildInv, TopologyInv, SplitsInv
<1>9. b \in Known /\ b \in Reach(SplitsLeft, b)
    BY <1>7, <1>8, BackendIsKnown, ReachStart
<1>10. PassedInv'
    <2>1. ASSUME NEW q \in request.passed
          PROVE  Passed(q)'
        <3>1. PICK u \in SplitsLeft :
                /\ trafficSplits[u].service = q
                /\ cluster.acl /\ cluster.type[q] = "http" => trafficSplits[u].incoming # {}
                /\ \E c \in ToSet(trafficSplits[u].backends) : request.service \in Reach(SplitsLeft, c)
            BY <1>5, <2>1 DEF IInv, PassedInv, Passed, IsAtProxy
        <3>2. PICK c \in ToSet(trafficSplits[u].backends) : request.service \in Reach(SplitsLeft, c)
            BY <3>1
        <3>3. b \in Reach(SplitsLeft, c)
            BY <1>7, <1>8, <3>2, ReachStep
        <3> QED BY <1>1, <1>6, <3>1, <3>3, LeftStay DEF Passed
    <2>2. ASSUME NEW q, q = request.service
          PROVE  Passed(q)'
        BY <1>1, <1>6, <1>7, <1>9, <2>2, LeftStay DEF Passed
    <2>3. \A q \in request'.passed : Passed(q)'
        <3>1. \A q \in request.passed \cup {request.service} : Passed(q)'
            BY <2>1, <2>2
        <3> QED BY <1>6, <3>1
    <2> QED BY <2>3 DEF PassedInv
<1>11. ~ IsServed'
    BY <1>5, <1>6 DEF IsServed, IsAtProxy, Unanswered
<1>12. NoRequestStrays'
    <2> PICK r, q : r = request' /\ q = request'.service
        OBVIOUS
    <2>1. request.service \in Reach(Along(request), request.root)
        BY <1>5 DEF IInv, NoRequestStrays, IsAtProxy, Reached, Along
    <2>2. Along(request) \in SUBSET Split /\ ts \in Along(request)
        BY <1>1, <1>5, <1>7, ReachedStays DEF Along, IInv
    <2>3. b \in Reach(Along(request), request.root)
        BY <1>7, <1>8, <2>1, <2>2, ReachStep
    <2>4. Reached(r) = Reached(request)
        BY <1>6, SameWays
    <2>5. q \in Reached(r)
        BY <1>6, <2>3, <2>4 DEF Reached, Along
    <2> QED BY <1>1, <1>5, <1>11, <2>5, StaysOnWays DEF IInv
<1> QED BY <1>1, <1>5, <1>6, <1>10, <1>11, <1>12, ConfigurationStays, EarlyStays
        DEF IInv, ServedAsAllowed

\* The answer of a server.
LEMMA ServeKeeps ==
    ASSUME IInv, Serve
    PROVE  IInv'
<1>1. IsAtProxy
    BY DEF Serve
<1>2. PICK entry \in EntryPoints(request.service, request.number) :
        \E router \in Chosen(request, entry) :
            /\ LetsThrough(router.access, request)
            /\ \E server \in router.target.servers :
                Answer(IF server[1] \in cluster.running THEN ServedBy(server) ELSE Unavailable)
    BY DEF Serve
<1>3. PICK router \in Chosen(request, entry) :
        /\ LetsThrough(router.access, request)
        /\ \E server \in router.target.servers :
            Answer(IF server[1] \in cluster.running THEN ServedBy(server) ELSE Unavailable)
    BY <1>2
<1>4. PICK server \in router.target.servers :
        Answer(IF server[1] \in cluster.running THEN ServedBy(server) ELSE Unavailable)
    BY <1>3
<1>5. CASE server[1] \notin cluster.running
    BY <1>1, <1>4, <1>5, AnswerKeeps DEF Unavailable
<1>6. CASE server[1] \in cluster.running
    <2>1. /\ request' = [request EXCEPT !.answer = ServedBy(server)]
          /\ UNCHANGED <<cluster, services, trafficSplits, step>> /\ UNCHANGED <<vars, routers>>
          /\ step = "configured"
        BY <1>1, <1>4, <1>6 DEF Answer, vars, IInv, EarlyInv, IsAtProxy
    <2>2. /\ RequestInv'
          /\ request'.answer.server = server /\ request'.service = request.service
          /\ request'.from = request.from /\ request'.meets = request.meets
          /\ request'.passed = request.passed /\ request'.root = request.root
        BY <1>1, <2>1 DEF IInv, RequestInv, IsAtProxy, ServedBy
    <2>3. ASSUME cluster.acl, cluster.type[request.service] = "http"
          PROVE  \E tt \in Target :
                    /\ Applies(tt, request.service)
                    /\ request.from \in SourcePods(tt)
                    /\ Admits(cluster.targets[tt].rules, request.meets)
                    /\ server[1] \in DestinationPods(tt, request.service)
        BY <1>1, <1>3, <2>3, TargetsAreApplied, ServedFromGuarded DEF IInv, IsAtProxy
    <2>4. ASSUME NEW tt
          PROVE  /\ Applies(tt, request.service)' = Applies(tt, request'.service)
                 /\ Applies(tt, request'.service) = Applies(tt, request.service)
                 /\ SourcePods(tt)' = SourcePods(tt)
                 /\ Admits(cluster.targets[tt].rules, request.meets)'
                    = Admits(cluster.targets[tt].rules, request.meets)
                 /\ DestinationPods(tt, request.service)' = DestinationPods(tt, request.service)
        BY <2>1, <2>2, AppliesStays, PodsStay, AdmitsStays
    <2>5. ServedAsAllowed'
        BY <2>1, <2>2, <2>3, <2>4 DEF ServedAsAllowed
    <2>6. PassedInv' /\ EarlyInv'
        BY <1>1, <2>1, <2>2, PassedStays, EarlyStays DEF IInv, PassedInv, IsAtProxy
    <2>7. NoRequestStrays'
        <3>1. server[1] \in cluster.endpoints[request.service]
            BY <1>3, TargetsAreApplied, ServedByOwnPod DEF IInv
        <3> QED BY <1>1, <2>1, <2>2, <3>1, StraysStay DEF IInv, IsAtProxy
    <2> QED BY <2>1, <2>2, <2>5, <2>6, <2>7, ConfigurationStays DEF IInv
<1> QED BY <1>5, <1>6

\* Build: there are no routers and no requests yet.
LEMMA BuildTopologyKeeps ==
    ASSUME IInv, BuildTopology
    PROVE  IInv'
<1>1. BuildInv' /\ UNCHANGED <<routers, request>>
    BY NextKeeps DEF BuildTopology, IInv
<1>2. step # "configured"
    BY DEF BuildTopology, Next, EvaluateServices, EvaluateTrafficSplit, EvaluateTrafficTargets,
           PopulateIncoming
<1>3. routers = << >> /\ request = None
    BY <1>2 DEF IInv, EarlyInv
<1> QED BY <1>1, <1>3 DEF IInv, EarlyInv, RoutersAreMade, AllMade, RequestInv, PassedInv,
                          ServedAsAllowed, NoRequestStrays, IsServed

\* Every step keeps the invariant.
LEMMA StepKeeps == IInv /\ [RoutingNext]_routingVars => IInv'
<1> SUFFICES ASSUME IInv, [RoutingNext]_routingVars PROVE IInv'
    OBVIOUS
<1>1. CASE BuildConfig
    <2>1. /\ UNCHANGED <<cluster, services, trafficSplits, request>> /\ step' = "configured"
          /\ BuildInv' /\ RoutersAreMade'
        BY <1>1, BuildConfigKeeps DEF BuildConfig, IInv
    <2>2. RequestInv' /\ PassedInv' /\ EarlyInv'
        BY <2>1, PassedStays DEF IInv, RequestInv, PassedInv, EarlyInv
    <2>3. NoRequestStrays'
        BY <2>1, StraysStay DEF IInv
    <2> QED BY <2>1, <2>2, <2>3, ServedStays DEF IInv
<1>2. CASE FindNoEntryPoint \/ FindNoRouter \/ Refuse \/ FindNoServer
    <2>1. IsAtProxy /\ (Answer(Unavailable) \/ Answer(Refused))
        BY <1>2 DEF FindNoEntryPoint, FindNoRouter, Refuse, FindNoServer
    <2> QED BY <2>1, AnswerKeeps DEF Unavailable, Refused
<1>3. CASE UNCHANGED routingVars
    <2>1. UNCHANGED <<vars, routers>> /\ UNCHANGED <<cluster, services, trafficSplits, step, request>>
        BY <1>3 DEF routingVars, vars
    <2>2. RequestInv' /\ PassedInv' /\ EarlyInv'
        BY <2>1, PassedStays, EarlyStays DEF IInv, RequestInv, PassedInv
    <2>3. NoRequestStrays'
        BY <2>1, StraysStay DEF IInv
    <2> QED BY <2>1, <2>2, <2>3, ConfigurationStays, ServedStays DEF IInv
<1> QED BY <1>1, <1>2, <1>3, BuildTopologyKeeps, SendKeeps, ServeKeeps, ForwardKeeps DEF RoutingNext

\* In ACL mode a pod of an HTTP service gets a request only if a traffic target of the
\* service has this pod, lists the caller and has a match for the request: the routers
\* buildHTTPServicesAndRoutersForTrafficTarget makes are the only ones with servers.
THEOREM OnlyAllowedRequestsAreServed == RoutingSpec => []ServedAsAllowed
<1>1. IInv => ServedAsAllowed
    BY DEF IInv
<1> QED BY InitHolds, StepKeeps, <1>1, PTL DEF RoutingSpec

\* Every HTTP router with servers comes from a traffic target and whitelists its sources.
THEOREM ServersAreGuarded == RoutingSpec => []RoutersAreGuarded
<1>1. IInv => RoutersAreGuarded
    BY DEF IInv, RoutersAreMade, AllMade, IsMade, RoutersAreGuarded
<1> QED BY InitHolds, StepKeeps, <1>1, PTL DEF RoutingSpec

\* However routers rank and share keys, no request leaves the ways of the splits
\* of the service it was sent to, nor gets to a pod of another service than it is at: the
\* rules of HTTP routers name their service, and the mesh ports of the others are their own.
THEOREM RequestsKeepToTheirWays == RoutingSpec => []NoRequestStrays
<1>1. IInv => NoRequestStrays
    BY DEF IInv
<1> QED BY InitHolds, StepKeeps, <1>1, PTL DEF RoutingSpec

\* BuildConfig, which reads the topology, and the requests leave it as Build returned it.
THEOREM TopologyStaysSound ==
    RoutingSpec => [](TypeOK /\ AcyclicSplitsAreKept /\ IncomingIsAllowedEverywhere
                        /\ CallableSplitsHaveNoLoop)
<1>1. IInv => TypeOK /\ AcyclicSplitsAreKept /\ IncomingIsAllowedEverywhere
              /\ CallableSplitsHaveNoLoop
    BY BuildIsSound DEF IInv
<1> QED BY InitHolds, StepKeeps, <1>1, PTL DEF RoutingSpec

--------------------------------------------------------------------------------
(* Requests that come back.                                                     *)

\* A request that comes back has passed a split that leads to a loop.
LEMMA ReturnMeansLoop ==
    ASSUME IInv, NEW q, q = request.service, Passed(q)
    PROVE  \E ts \in SplitsLeft :
              /\ trafficSplits[ts].service = q
              /\ cluster.acl /\ cluster.type[q] = "http" => trafficSplits[ts].incoming # {}
              /\ \E b \in ToSet(trafficSplits[ts].backends) : LeadsToLoop(SplitsLeft, b)
              /\ LeadsToLoop(SplitsLeft, q)
<1>1. PICK ts \in SplitsLeft :
        /\ trafficSplits[ts].service = q
        /\ cluster.acl /\ cluster.type[q] = "http" => trafficSplits[ts].incoming # {}
        /\ \E b \in ToSet(trafficSplits[ts].backends) : q \in Reach(SplitsLeft, b)
    BY DEF Passed
<1>2. PICK b \in ToSet(trafficSplits[ts].backends) : q \in Reach(SplitsLeft, b)
    BY <1>1
<1>3. LeadsToLoop(SplitsLeft, b)
    BY <1>1, <1>2 DEF LeadsToLoop
<1>4. q \in Known
    BY <1>2, ReachIsKnown
<1>5. q \in Reach(SplitsLeft, q)
    BY <1>4, ReachStart
<1>6. LeadsToLoop(SplitsLeft, q)
    BY <1>1, <1>2, <1>5 DEF LeadsToLoop
<1> QED BY <1>1, <1>3, <1>6

\* In ACL mode no request comes back to an HTTP service it has passed, although the
\* recursion of Build may have missed a loop: the whitelist of a split in it is empty.
NoListedRequestReturns ==
    request # None /\ cluster.acl /\ cluster.type[request.service] = "http" =>
        request.service \notin request.passed

\* In ACL mode no request comes back to an HTTP service it has passed, whatever Build missed.
THEOREM ListedRequestsDoNotReturn == RoutingSpec => []NoListedRequestReturns
<1>1. IInv => NoListedRequestReturns
    <2> SUFFICES ASSUME IInv, request # None, cluster.acl, cluster.type[request.service] = "http",
                        request.service \in request.passed
                 PROVE  FALSE
        BY DEF NoListedRequestReturns
    <2>1. Passed(request.service) /\ step = "configured"
        BY DEF IInv, PassedInv, EarlyInv
    <2>2. PICK ts \in SplitsLeft :
            /\ trafficSplits[ts].incoming # {}
            /\ \E b \in ToSet(trafficSplits[ts].backends) : LeadsToLoop(SplitsLeft, b)
        BY <2>1, ReturnMeansLoop
    <2>3. NoCallableLoop
        BY <2>1 DEF IInv, BuildInv
    <2> QED BY <2>2, <2>3 DEF NoCallableLoop, SplitsLeft
<1> QED BY InitHolds, StepKeeps, <1>1, PTL DEF RoutingSpec

\* Nothing else than a loop that Build has left makes a request come back, in any mode and
\* for any traffic type: the routers of BuildConfig follow the splits of the topology.
NoLoopLeft ==
    step = "configured" =>
        \A ts \in SplitsLeft : ~ LeadsToLoop(SplitsLeft, trafficSplits[ts].service)

\* Where Build has left no loop of splits, the routers it led to let no request return.
THEOREM RequestsReturnByLoopsOnly == RoutingSpec /\ []KeptSplitsHaveNoLoop => []NoRequestReturns
<1>1. RoutingInit => NoLoopLeft
    BY DEF RoutingInit, Init, NoLoopLeft
<1>2. IInv /\ NoLoopLeft /\ KeptSplitsHaveNoLoop /\ [RoutingNext]_routingVars => NoLoopLeft'
    <2> SUFFICES ASSUME IInv, NoLoopLeft, KeptSplitsHaveNoLoop, [RoutingNext]_routingVars,
                        step' = "configured"
                 PROVE  NoLoopLeft'
        BY DEF NoLoopLeft
    <2>1. UNCHANGED <<cluster, services, trafficSplits>> /\ step \in {"built", "configured"}
        <3>1. ~ BuildTopology
            BY DEF BuildTopology, Next, EvaluateServices, EvaluateTrafficSplit,
                   EvaluateTrafficTargets, PopulateIncoming
        <3> QED BY <3>1 DEF RoutingNext, BuildConfig, SendRequest, FindNoEntryPoint, FindNoRouter,
                Refuse, FindNoServer, Serve, Forward, Answer, routingVars, vars
    <2>2. \A ts \in SplitsLeft : ~ LeadsToLoop(SplitsLeft, trafficSplits[ts].service)
        BY <2>1 DEF NoLoopLeft, KeptSplitsHaveNoLoop, Built, SplitsLeft
    <2> QED BY <2>1, <2>2, LeftStay DEF NoLoopLeft
<1>3. IInv /\ NoLoopLeft => NoRequestReturns
    <2> SUFFICES ASSUME IInv, NoLoopLeft, request # None, request.service \in request.passed
                 PROVE  FALSE
        BY DEF NoRequestReturns
    <2>1. Passed(request.service) /\ step = "configured"
        BY DEF IInv, PassedInv, EarlyInv
    <2> QED BY <2>1, ReturnMeansLoop DEF NoLoopLeft
<1> QED BY InitHolds, StepKeeps, <1>1, <1>2, <1>3, PTL DEF RoutingSpec

--------------------------------------------------------------------------------
(* Splits are not bypassed.  The argument is about what is in the configuration *)
(* besides the router that is chosen: for every split of an HTTP service and    *)
(* every port of it there is a router that ranks above all that lead to pods    *)
(* (SplitsHaveRouters, AllKeyed), and it matches whenever one of those does;    *)
(* the routers of a TCP or UDP split replace all others of its service.         *)

\* The greatest of the numbers up to n in a set.
LEMMA LastOf ==
    ASSUME NEW n \in Nat, NEW T \in SUBSET (1 .. n), T # {}
    PROVE  \E k \in T : \A l \in T : l <= k
<1> DEFINE U == {n - k : k \in T}
<1>1. U \in SUBSET Nat /\ U # {}
    <2>1. \A k \in T : n - k \in Nat
        OBVIOUS
    <2>2. PICK k \in T : TRUE
        OBVIOUS
    <2> QED BY <2>1, <2>2
<1>2. PICK u \in U : \A v \in U : u <= v
    <2> HIDE DEF U
    <2> QED BY <1>1, FirstOf
<1>3. PICK k \in T : u = n - k
    BY <1>2
<1>4. ASSUME NEW l \in T PROVE l <= k
    <2>1. n - l \in U
        OBVIOUS
    <2>2. u <= n - l
        BY <1>2, <2>1
    <2> QED BY <1>3, <2>2
<1> QED BY <1>4

\* What is written into a map stays in it, and its keys are those written.
LEMMA MergedKeys ==
    ASSUME NEW n \in Nat, NEW writes, DOMAIN writes = 1 .. n, NEW k
    PROVE  k \in DOMAIN Merged(writes) <=> \E i \in 1 .. n : k \in DOMAIN writes[i]
<1> DEFINE LastAt(i) == {x \in DOMAIN writes[i] :
                            \A j \in DOMAIN writes : j > i => x \notin DOMAIN writes[j]}
           T == {i \in 1 .. n : k \in DOMAIN writes[i]}
<1>1. DOMAIN Merged(writes) = UNION {LastAt(i) : i \in DOMAIN writes}
    BY DEF Merged
<1>2. ASSUME T # {} PROVE \E i \in 1 .. n : k \in LastAt(i)
    <2>1. PICK i \in T : \A l \in T : l <= i
        <3> HIDE DEF T
        <3>1. T \in SUBSET (1 .. n)
            BY DEF T
        <3> QED BY <1>2, <3>1, LastOf
    <2>2. \A j \in DOMAIN writes : j > i => k \notin DOMAIN writes[j]
        BY <2>1
    <2> QED BY <2>1, <2>2
<1> QED BY <1>1, <1>2

\* The last of three maps that has a key decides.
LEMMA LastOfThree ==
    ASSUME NEW map1, NEW map2, NEW map3, NEW k \in DOMAIN Merged(<<map1, map2, map3>>)
    PROVE  /\ k \in DOMAIN map1 \/ k \in DOMAIN map2 \/ k \in DOMAIN map3
           /\ k \in DOMAIN map3 => Merged(<<map1, map2, map3>>)[k] = map3[k]
<1> DEFINE all == <<map1, map2, map3>>
           LastAt(i) == {x \in DOMAIN all[i] :
                            \A j \in DOMAIN all : j > i => x \notin DOMAIN all[j]}
<1>1. DOMAIN all = 1 .. 3 /\ all[1] = map1 /\ all[2] = map2 /\ all[3] = map3
    OBVIOUS
<1> HIDE DEF all
<1>2. \E i \in 1 .. 3 : k \in DOMAIN all[i]
    BY <1>1, MergedKeys DEF all
<1>3. ASSUME k \in DOMAIN map3 PROVE Merged(all)[k] = map3[k]
    <2>1. \A i \in DOMAIN all : k \in LastAt(i) <=> i = 3
        BY <1>1, <1>3
    <2>2. (CHOOSE i \in DOMAIN all : k \in LastAt(i)) = 3
        BY <1>1, <2>1
    <2>3. Merged(all)[k] = all[CHOOSE i \in DOMAIN all : k \in LastAt(i)][k]
        BY DEF Merged, all
    <2> QED BY <1>1, <2>2, <2>3
<1> QED BY <1>1, <1>2, <1>3 DEF all

\* The i-th port of a service has a router: the one at its entry point.
IsOfPort(s, i, router) ==
    IF cluster.type[s] = "http"
    THEN router.entry = <<"http", i>> /\ router.rule.services = {s}
    ELSE IsMapped(s, Ports(s)[i]) /\ router.entry = MappedEntryPoint(s, Ports(s)[i])

\* A router leads to pods at their number of the port, or to backends at the number of the
\* port.  One with pods does not rank as a split, and on a later port of a backend, in ACL
\* mode, it is for forwarded requests.
Leads(s, i, router) ==
    /\ router.target.backends # << >> => router.target.number = Ports(s)[i].number
    /\ \A server \in router.target.servers : server[2] = ResolvedPort(Ports(s)[i], server[1])
    /\ cluster.type[s] = "http" /\ router.target.servers # {} =>
          /\ \E class \in 1 .. 3 : router.priority = class * 1000 + router.rule.operators
          /\ cluster.acl /\ IsBackend(s) /\ i > 1 => router.rule.forwarded

Fits(s, router) == \E i \in DOMAIN Ports(s) : IsOfPort(s, i, router) /\ Leads(s, i, router)

AllFit(s, map) == \A k \in DOMAIN map : Fits(s, map[k])

\* The router that BuildConfig makes for a split, a port of its service and callers that
\* call the service themselves.
IsDirect(s, ts, i, router) ==
    /\ router.entry = <<"http", i>> /\ router.rule.services = {s}
    /\ router.rule.matches = ToSet(HTTPMatches(cluster.splits[ts].rules)) \ {{}}
    /\ router.rule.forwarded => cluster.acl /\ IsBackend(s) /\ i > 1
    /\ router.priority = 4000 + router.rule.operators

\* No other router has the key of such a router.
AllKeyed(map) ==
    \A s \in Known, ts \in Split : \A i \in DOMAIN Ports(s) :
        LET k == SplitKey(ts, s, Ports(s)[i], "direct")
        IN  cluster.type[s] = "http" /\ k \in DOMAIN map => IsDirect(s, ts, i, map[k])

\* Every match of a split asks for something.
MatchesAsk ==
    \A ts \in Split : SpecsExist(cluster.splits[ts].rules) =>
        {} \notin ToSet(HTTPMatches(cluster.splits[ts].rules))

\* The clusters without what the code does not claim to handle: an HTTP service that lists
\* a number twice; in ACL mode a traffic target that names a port after the first one; a TCP or UDP service with splits whose target port has another
\* number; a match of a split that asks for nothing.
OrdinaryCluster ==
    /\ \A s \in Known : cluster.type[s] = "http" =>
          \A i, j \in DOMAIN Ports(s) : Ports(s)[i].number = Ports(s)[j].number => i = j
    /\ \A s \in Known, tt \in Target : cluster.acl /\ cluster.type[s] = "http" /\ Applies(tt, s) =>
          \A i \in DOMAIN DestinationPorts(tt, s) :
              i \in DOMAIN Ports(s) /\ DestinationPorts(tt, s)[i] = Ports(s)[i]
    /\ \A ts \in Split, s \in Known :
          cluster.splits[ts].service = s /\ cluster.type[s] \in {"tcp", "udp"} =>
              \A i \in DOMAIN Ports(s) : Ports(s)[i].target = Ports(s)[i].number
    /\ MatchesAsk

\* No rule is as long as a class of priorities is wide.
ShortRules == \A k \in DOMAIN routers : routers[k].rule.operators \in 0 .. 999

\* Maps of such routers, and what a loop makes of them.
LEMMA MergedFits ==
    ASSUME NEW s, NEW writes, \A i \in DOMAIN writes : AllFit(s, writes[i])
    PROVE  AllFit(s, Merged(writes))
BY DEF Merged, AllFit

\* One router.
LEMMA OneFits ==
    ASSUME NEW s, NEW key, NEW router, Fits(s, router)
    PROVE  AllFit(s, Write(key, router))
BY DEF AllFit, Write

\* No routers.
LEMMA NothingFits == ASSUME NEW s PROVE AllFit(s, << >>)
BY DEF AllFit

\* The routers of two calls together.
LEMMA BothFit ==
    ASSUME NEW s, NEW map1, NEW map2, AllFit(s, map1), AllFit(s, map2)
    PROVE  AllFit(s, Merged(<<map1, map2>>))
<1> DEFINE both == <<map1, map2>>
<1>1. \A i \in DOMAIN both : AllFit(s, both[i])
    OBVIOUS
<1> HIDE DEF both
<1>2. AllFit(s, Merged(both))
    BY <1>1, MergedFits
<1> QED BY <1>2 DEF both

\* The routers that block everything.
LEMMA BlockAllFits ==
    ASSUME NEW s \in Known, cluster.type[s] = "http"
    PROVE  AllFit(s, BlockAllRouters(s))
<1> DEFINE router(i) == Router(<<"http", i>>, RuleOf(s, << >>, FALSE), Nobody,
                               PriorityService, ToPods({}, Ports(s)[i]))
           write(i) == IF i > HTTPEntryPoints THEN << >>
                       ELSE Write(ServiceKey(s, Ports(s)[i]), router(i))
<1>1. ASSUME NEW i \in DOMAIN Ports(s) PROVE AllFit(s, write(i))
    <2>1. /\ router(i).target.servers = {} /\ router(i).target.backends = << >>
          /\ router(i).entry = <<"http", i>> /\ router(i).rule.services = {s}
        BY DEF Router, ToPods, RuleOf
    <2> HIDE DEF router
    <2>2. Fits(s, router(i))
        BY <2>1 DEF Fits, IsOfPort, Leads
    <2> QED BY <2>2, OneFits, NothingFits
<1>2. AllFit(s, Merged([i \in DOMAIN Ports(s) |-> write(i)]))
    <2> HIDE DEF write
    <2> QED BY <1>1, MergedFits
<1> QED BY <1>2 DEF BlockAllRouters

\* An HTTP router that leads to pods.
LEMMA HTTPPodsFit ==
    ASSUME NEW s \in Known, cluster.type[s] = "http", NEW i \in DOMAIN Ports(s), NEW rules,
           NEW forwarded, NEW access, NEW class \in 1 .. 3, NEW pods,
           cluster.acl /\ IsBackend(s) /\ i > 1 => forwarded
    PROVE  Fits(s, HTTPRouter(i, RuleOf(s, rules, forwarded), access, class,
                              ToPods(pods, Ports(s)[i])))
<1> DEFINE rule == RuleOf(s, rules, forwarded)
           router == HTTPRouter(i, rule, access, class, ToPods(pods, Ports(s)[i]))
<1>1. rule.services = {s} /\ rule.forwarded = forwarded
    BY DEF RuleOf
<1> HIDE DEF rule
<1>2. /\ router.target.backends = << >> /\ router.entry = <<"http", i>> /\ router.rule = rule
      /\ router.priority = class * 1000 + rule.operators
      /\ \A server \in router.target.servers : server[2] = ResolvedPort(Ports(s)[i], server[1])
    BY DEF HTTPRouter, Router, ToPods, RulePriority
<1> HIDE DEF router
<1>3. Fits(s, router)
    BY <1>1, <1>2 DEF Fits, IsOfPort, Leads
<1> QED BY <1>3 DEF router, rule

\* The HTTP routers of a service without ACL.
LEMMA HTTPServicesFit ==
    ASSUME NEW s \in Known, cluster.type[s] = "http", ~ cluster.acl
    PROVE  AllFit(s, HTTPServiceRouters(s))
<1> DEFINE router(i) == HTTPRouter(i, RuleOf(s, << >>, FALSE), Anybody, PriorityService,
                                   ToPods(cluster.endpoints[s], Ports(s)[i]))
           write(i) == IF i > HTTPEntryPoints THEN << >>
                       ELSE Write(ServiceKey(s, Ports(s)[i]), router(i))
<1>1. ASSUME NEW i \in DOMAIN Ports(s) PROVE AllFit(s, write(i))
    <2>1. PriorityService \in 1 .. 3
        BY DEF PriorityService
    <2>2. Fits(s, router(i))
        BY <2>1, HTTPPodsFit
    <2> HIDE DEF router
    <2> QED BY <2>2, OneFits, NothingFits
<1>2. AllFit(s, Merged([i \in DOMAIN Ports(s) |-> write(i)]))
    <2> HIDE DEF write
    <2> QED BY <1>1, MergedFits
<1> QED BY <1>2 DEF HTTPServiceRouters

\* A TCP or UDP router that leads to pods.
LEMMA MappedPodsFit ==
    ASSUME NEW s \in Known, cluster.type[s] # "http", NEW i \in DOMAIN Ports(s),
           IsMapped(s, Ports(s)[i]), NEW pods
    PROVE  Fits(s, MappedRouter(s, Ports(s)[i], ToPods(pods, Ports(s)[i])))
<1> DEFINE router == MappedRouter(s, Ports(s)[i], ToPods(pods, Ports(s)[i]))
<1>1. /\ router.target.backends = << >> /\ router.entry = MappedEntryPoint(s, Ports(s)[i])
      /\ \A server \in router.target.servers : server[2] = ResolvedPort(Ports(s)[i], server[1])
    BY DEF MappedRouter, Router, ToPods
<1> HIDE DEF router
<1>2. Fits(s, router)
    BY <1>1 DEF Fits, IsOfPort, Leads
<1> QED BY <1>2 DEF router

\* The TCP or UDP routers of a service.
LEMMA MappedServicesFit ==
    ASSUME NEW s \in Known, cluster.type[s] # "http"
    PROVE  AllFit(s, MappedServiceRouters(s))
<1> DEFINE router(i) == MappedRouter(s, Ports(s)[i], ToPods(cluster.endpoints[s], Ports(s)[i]))
           write(i) == IF ~ IsMapped(s, Ports(s)[i]) THEN << >>
                       ELSE Write(ServiceKey(s, Ports(s)[i]), router(i))
<1>1. ASSUME NEW i \in DOMAIN Ports(s) PROVE AllFit(s, write(i))
    BY MappedPodsFit, OneFits, NothingFits
<1>2. AllFit(s, Merged([i \in DOMAIN Ports(s) |-> write(i)]))
    <2> HIDE DEF write
    <2> QED BY <1>1, MergedFits
<1> QED BY <1>2 DEF MappedServiceRouters

\* The routers without targets and splits.
LEMMA BaseFits ==
    ASSUME ClusterInv, NEW s \in Known
    PROVE  AllFit(s, BaseRouters(s))
<1>1. cluster.acl \in BOOLEAN
    BY RoutingAssumption DEF ClusterInv
<1>2. CASE cluster.type[s] = "http"
    BY <1>1, <1>2, BlockAllFits, HTTPServicesFit DEF BaseRouters
<1>3. CASE cluster.type[s] # "http"
    BY <1>1, <1>3, NothingFits, MappedServicesFit DEF BaseRouters
<1> QED BY <1>2, <1>3

\* The sequence of a set with at most one element.
LEMMA SmallSetToSeq ==
    ASSUME NEW S, \A x, y \in S : x = y
    PROVE  \A j \in DOMAIN SetToSeq(S) : SetToSeq(S)[j] \in S
<1>1. CASE S = {}
    <2>1. Cardinality(S) = 0
        BY <1>1, FS_EmptySet
    <2> DEFINE f == [j \in 1 .. 0 |-> j]
    <2>2. f \in [1 .. Cardinality(S) -> S] /\ IsInjective(f)
        BY <2>1 DEF IsInjective
    <2> HIDE DEF f
    <2> QED BY <2>2 DEF SetToSeq
<1>2. CASE S # {}
    <2>1. PICK x : S = {x}
        BY <1>2
    <2>2. Cardinality(S) = 1
        BY <2>1, FS_Singleton
    <2> DEFINE f == [j \in 1 .. 1 |-> x]
    <2>3. f \in [1 .. Cardinality(S) -> S] /\ IsInjective(f)
        BY <2>1, <2>2 DEF IsInjective
    <2> HIDE DEF f
    <2> QED BY <2>3 DEF SetToSeq
<1> QED BY <1>1, <1>2

\* The ports of a traffic target are ports of its service.
LEMMA DestinationPortIsPort ==
    ASSUME ClusterInv, NEW s \in Known, NEW tt, NEW j \in DOMAIN DestinationPorts(tt, s)
    PROVE  \E i \in DOMAIN Ports(s) : DestinationPorts(tt, s)[j] = Ports(s)[i]
<1> DEFINE port == cluster.targets[tt].port
           ports == cluster.ports[s]
           first == {i \in DOMAIN ports : /\ ports[i].target = port
                                          /\ \A k \in 1 .. i - 1 : ports[k].target # port}
           S == {ports[i] : i \in first}
<1>1. CASE port = AnyPort
    BY <1>1 DEF DestinationPorts, Ports
<1>2. CASE port # AnyPort
    <2>1. ports \in Seq(PortType)
        BY ClusterAssumption DEF ClusterInv, Known
    <2>2. \A i, k \in first : i = k
        <3>1. \A i, k \in first : ~ (i < k)
            BY <2>1
        <3>2. first \subseteq Nat
            BY <2>1
        <3> HIDE DEF first
        <3> QED BY <3>1, <3>2
    <2>3. \A x, y \in S : x = y
        BY <2>2
    <2>4. DestinationPorts(tt, s) = SetToSeq(S)
        BY <1>2 DEF DestinationPorts
    <2>5. DestinationPorts(tt, s)[j] \in S
        <3> HIDE DEF S
        <3> QED BY <2>3, <2>4, SmallSetToSeq
    <2> QED BY <2>5 DEF Ports
<1> QED BY <1>1, <1>2

\* The routers of a traffic target of a TCP service, at the mesh ports of its own ports.
LEMMA TCPTargetsFit ==
    ASSUME ClusterInv, NEW s \in Known, cluster.type[s] # "http", NEW tt
    PROVE  AllFit(s, TCPTargetRouters(tt, s))
<1> DEFINE ports == DestinationPorts(tt, s)
           router(j) == MappedRouter(s, ports[j], ToPods(DestinationPods(tt, s), ports[j]))
           write(j) ==
               IF ~ HasTCPRoute(cluster.targets[tt].rules) \/ ~ IsMapped(s, ports[j]) THEN << >>
               ELSE Write(ServiceKey(s, ports[j]), router(j))
<1>1. ASSUME NEW j \in DOMAIN ports, IsMapped(s, ports[j])
      PROVE  Fits(s, router(j))
    BY <1>1, DestinationPortIsPort, MappedPodsFit
<1>2. ASSUME NEW j \in DOMAIN ports PROVE AllFit(s, write(j))
    <2> HIDE DEF router
    <2> QED BY <1>1, OneFits, NothingFits
<1>3. AllFit(s, Merged([j \in DOMAIN ports |-> write(j)]))
    <2> HIDE DEF write
    <2> QED BY <1>2, MergedFits
<1> QED BY <1>3 DEF TCPTargetRouters

\* The routers of a traffic target of an HTTP service: the entry point is that of the
\* service if the ports of the target are its first ones.
LEMMA HTTPTargetsFit ==
    ASSUME OrdinaryCluster, cluster.acl, NEW s \in Known, cluster.type[s] = "http", NEW tt \in Target,
           Applies(tt, s)
    PROVE  AllFit(s, HTTPTargetRouters(tt, s))
<1> DEFINE ports == DestinationPorts(tt, s)
           rules == cluster.targets[tt].rules
           To(i) == ToPods(DestinationPods(tt, s), ports[i])
           direct(i) == HTTPRouter(i, RuleOf(s, rules, IsBackend(s) /\ i > 1),
                                   ListedSources(tt, s, FALSE), PriorityTrafficTargetDirect, To(i))
           indirect(i) == HTTPRouter(i, RuleOf(s, rules, TRUE),
                                     ListedSources(tt, s, TRUE), PriorityTrafficTargetIndirect, To(i))
           Direct(i) == Write(TargetKey(tt, s, ports[i], "direct"), direct(i))
           Indirect(i) == Write(TargetKey(tt, s, ports[i], "indirect"), indirect(i))
           write(i) == IF i > HTTPEntryPoints THEN << >>
                       ELSE IF IsBackend(s) THEN Merged(<<Direct(i), Indirect(i)>>)
                       ELSE Direct(i)
<1>1. PriorityTrafficTargetDirect \in 1 .. 3 /\ PriorityTrafficTargetIndirect \in 1 .. 3
    BY DEF PriorityTrafficTargetDirect, PriorityTrafficTargetIndirect
<1>2. ASSUME NEW i \in DOMAIN ports
      PROVE  Fits(s, direct(i)) /\ Fits(s, indirect(i))
    <2>1. i \in DOMAIN Ports(s) /\ ports[i] = Ports(s)[i]
        BY DEF OrdinaryCluster
    <2> HIDE DEF ports
    <2>2. Fits(s, direct(i))
        BY <1>1, <2>1, HTTPPodsFit
    <2>3. Fits(s, indirect(i))
        BY <1>1, <2>1, HTTPPodsFit
    <2> QED BY <2>2, <2>3
<1>3. ASSUME NEW i \in DOMAIN ports PROVE AllFit(s, write(i))
    <2>1. AllFit(s, Direct(i)) /\ AllFit(s, Indirect(i))
        <3> HIDE DEF direct, indirect
        <3> QED BY <1>2, OneFits
    <2> HIDE DEF Direct, Indirect
    <2> QED BY <2>1, BothFit, NothingFits
<1>4. AllFit(s, Merged([i \in DOMAIN ports |-> write(i)]))
    <2> HIDE DEF write
    <2> QED BY <1>3, MergedFits
<1> QED BY <1>4 DEF HTTPTargetRouters

\* A router that leads to backends.
LEMMA HTTPBackendsFit ==
    ASSUME NEW s \in Known, cluster.type[s] = "http", NEW i \in DOMAIN Ports(s), NEW rules,
           NEW forwarded, NEW access, NEW class, NEW backends
    PROVE  Fits(s, HTTPRouter(i, RuleOf(s, rules, forwarded), access, class,
                              ToBackends(backends, Ports(s)[i].number)))
<1> DEFINE router == HTTPRouter(i, RuleOf(s, rules, forwarded), access, class,
                                ToBackends(backends, Ports(s)[i].number))
<1>1. RuleOf(s, rules, forwarded).services = {s}
    BY DEF RuleOf
<1>2. /\ router.entry = <<"http", i>> /\ router.rule.services = {s}
      /\ router.target.servers = {} /\ router.target.number = Ports(s)[i].number
    BY <1>1 DEF HTTPRouter, Router, ToBackends
<1> HIDE DEF router
<1>3. Fits(s, router)
    BY <1>2 DEF Fits, IsOfPort, Leads
<1> QED BY <1>3 DEF router

\* The routers of an HTTP split.
LEMMA HTTPSplitsFit ==
    ASSUME NEW s \in Known, cluster.type[s] = "http", NEW ts
    PROVE  AllFit(s, HTTPSplitRouters(ts, s))
<1> DEFINE rules == cluster.splits[ts].rules
           To(i) == ToBackends(trafficSplits[ts].backends, Ports(s)[i].number)
           needed == cluster.acl /\ IsBackend(s)
           Listed(forwarded) ==
               IF cluster.acl THEN Whitelist(trafficSplits[ts].incoming, forwarded) ELSE Anybody
           direct(i) == HTTPRouter(i, RuleOf(s, rules, needed /\ i > 1), Listed(FALSE),
                                   SplitPriority, To(i))
           indirect(i) == HTTPRouter(i, RuleOf(s, rules, TRUE), Listed(TRUE),
                                     PriorityTrafficTargetIndirect, To(i))
           Direct(i) == Write(SplitKey(ts, s, Ports(s)[i], "direct"), direct(i))
           Indirect(i) == Write(SplitKey(ts, s, Ports(s)[i], "indirect"), indirect(i))
           write(i) == IF i > HTTPEntryPoints THEN << >>
                       ELSE IF needed THEN Merged(<<Direct(i), Indirect(i)>>) ELSE Direct(i)
<1>1. ASSUME NEW i \in DOMAIN Ports(s) PROVE AllFit(s, write(i))
    <2>1. Fits(s, direct(i)) /\ Fits(s, indirect(i))
        BY HTTPBackendsFit
    <2>2. AllFit(s, Direct(i)) /\ AllFit(s, Indirect(i))
        <3> HIDE DEF direct, indirect
        <3> QED BY <2>1, OneFits
    <2> HIDE DEF Direct, Indirect
    <2> QED BY <2>2, BothFit, NothingFits
<1>2. AllFit(s, Merged([i \in DOMAIN Ports(s) |-> write(i)]))
    <2> HIDE DEF write
    <2> QED BY <1>1, MergedFits
<1> QED BY <1>2 DEF HTTPSplitRouters

\* The TCP or UDP routers of a split; they have no servers.
LEMMA MappedSplitsFit ==
    ASSUME OrdinaryCluster, NEW s \in Known, cluster.type[s] \in {"tcp", "udp"},
           NEW ts \in Split, cluster.splits[ts].service = s
    PROVE  AllFit(s, MappedSplitRouters(ts, s))
<1> DEFINE router(i) == MappedRouter(s, Ports(s)[i],
                             ToBackends(trafficSplits[ts].backends, Ports(s)[i].target))
           write(i) == IF ~ IsMapped(s, Ports(s)[i]) THEN << >>
                       ELSE Write(ServiceKey(s, Ports(s)[i]), router(i))
<1>1. ASSUME NEW i \in DOMAIN Ports(s), IsMapped(s, Ports(s)[i])
      PROVE  Fits(s, router(i))
    <2>1. /\ router(i).entry = MappedEntryPoint(s, Ports(s)[i])
          /\ router(i).target.servers = {} /\ router(i).target.number = Ports(s)[i].target
        BY DEF MappedRouter, Router, ToBackends
    <2>2. Ports(s)[i].target = Ports(s)[i].number
        BY DEF OrdinaryCluster
    <2> HIDE DEF router
    <2> QED BY <1>1, <2>1, <2>2 DEF Fits, IsOfPort, Leads
<1>2. ASSUME NEW i \in DOMAIN Ports(s) PROVE AllFit(s, write(i))
    <2> HIDE DEF router
    <2> QED BY <1>1, OneFits, NothingFits
<1>3. AllFit(s, Merged([i \in DOMAIN Ports(s) |-> write(i)]))
    <2> HIDE DEF write
    <2> QED BY <1>2, MergedFits
<1> QED BY <1>3 DEF MappedSplitRouters

\* No router of a map has the key of a router for a split and callers of its own.
Plain(map) ==
    \A k \in DOMAIN map : \A s, ts, port : k # SplitKey(ts, s, port, "direct")

\* Every value of a map is one of those written.
LEMMA MergedValue ==
    ASSUME NEW writes, NEW k \in DOMAIN Merged(writes)
    PROVE  \E i \in DOMAIN writes : k \in DOMAIN writes[i] /\ Merged(writes)[k] = writes[i][k]
BY DEF Merged

\* What a loop makes of maps without such keys.
LEMMA MergedPlain ==
    ASSUME NEW writes, \A i \in DOMAIN writes : Plain(writes[i])
    PROVE  Plain(Merged(writes))
<1>1. \A k \in DOMAIN Merged(writes) : \E i \in DOMAIN writes : k \in DOMAIN writes[i]
    BY MergedValue
<1> QED BY <1>1 DEF Plain

\* The routers of two calls together.
LEMMA BothPlain ==
    ASSUME NEW map1, NEW map2, Plain(map1), Plain(map2)
    PROVE  Plain(Merged(<<map1, map2>>))
<1> DEFINE both == <<map1, map2>>
<1>1. \A i \in DOMAIN both : Plain(both[i])
    OBVIOUS
<1> HIDE DEF both
<1>2. Plain(Merged(both))
    BY <1>1, MergedPlain
<1> QED BY <1>2 DEF both

\* No routers.
LEMMA NothingIsPlain == Plain(<< >>)
BY DEF Plain

\* The keys of services, of targets and of the other routers of splits.
LEMMA OneIsPlain ==
    ASSUME NEW router, NEW s, NEW x, NEW port, NEW way
    PROVE  /\ Plain(Write(ServiceKey(s, port), router))
           /\ Plain(Write(TargetKey(x, s, port, way), router))
           /\ Plain(Write(SplitKey(x, s, port, "indirect"), router))
<1>1. ASSUME NEW t, NEW ts, NEW p
      PROVE  /\ ServiceKey(s, port) # SplitKey(ts, t, p, "direct")
             /\ TargetKey(x, s, port, way) # SplitKey(ts, t, p, "direct")
             /\ SplitKey(x, s, port, "indirect") # SplitKey(ts, t, p, "direct")
    BY DEF ServiceKey, TargetKey, SplitKey
<1> QED BY <1>1 DEF Plain, Write

\* The routers without targets and splits.
LEMMA BaseIsPlain ==
    ASSUME NEW s
    PROVE  /\ Plain(BlockAllRouters(s)) /\ Plain(HTTPServiceRouters(s))
           /\ Plain(MappedServiceRouters(s))
<1>1. Plain(BlockAllRouters(s))
    <2> DEFINE write(i) ==
                IF i > HTTPEntryPoints THEN << >>
                ELSE Write(ServiceKey(s, Ports(s)[i]),
                        Router(<<"http", i>>, RuleOf(s, << >>, FALSE), Nobody, PriorityService,
                               ToPods({}, Ports(s)[i])))
    <2>1. \A i : Plain(write(i))
        BY OneIsPlain, NothingIsPlain
    <2>2. Plain(Merged([i \in DOMAIN Ports(s) |-> write(i)]))
        <3> HIDE DEF write
        <3> QED BY <2>1, MergedPlain
    <2> QED BY <2>2 DEF BlockAllRouters
<1>2. Plain(HTTPServiceRouters(s))
    <2> DEFINE write(i) ==
                IF i > HTTPEntryPoints THEN << >>
                ELSE Write(ServiceKey(s, Ports(s)[i]),
                        HTTPRouter(i, RuleOf(s, << >>, FALSE), Anybody, PriorityService,
                                   ToPods(cluster.endpoints[s], Ports(s)[i])))
    <2>1. \A i : Plain(write(i))
        BY OneIsPlain, NothingIsPlain
    <2>2. Plain(Merged([i \in DOMAIN Ports(s) |-> write(i)]))
        <3> HIDE DEF write
        <3> QED BY <2>1, MergedPlain
    <2> QED BY <2>2 DEF HTTPServiceRouters
<1>3. Plain(MappedServiceRouters(s))
    <2> DEFINE write(i) ==
                IF ~ IsMapped(s, Ports(s)[i]) THEN << >>
                ELSE Write(ServiceKey(s, Ports(s)[i]),
                        MappedRouter(s, Ports(s)[i], ToPods(cluster.endpoints[s], Ports(s)[i])))
    <2>1. \A i : Plain(write(i))
        BY OneIsPlain, NothingIsPlain
    <2>2. Plain(Merged([i \in DOMAIN Ports(s) |-> write(i)]))
        <3> HIDE DEF write
        <3> QED BY <2>1, MergedPlain
    <2> QED BY <2>2 DEF MappedServiceRouters
<1> QED BY <1>1, <1>2, <1>3

\* The routers of a traffic target.
LEMMA TargetsArePlain ==
    ASSUME NEW s, NEW tt
    PROVE  Plain(HTTPTargetRouters(tt, s)) /\ Plain(TCPTargetRouters(tt, s))
<1> DEFINE ports == DestinationPorts(tt, s)
<1>1. Plain(HTTPTargetRouters(tt, s))
    <2> DEFINE rules == cluster.targets[tt].rules
               To(i) == ToPods(DestinationPods(tt, s), ports[i])
               Direct(i) ==
                   Write(TargetKey(tt, s, ports[i], "direct"),
                       HTTPRouter(i, RuleOf(s, rules, IsBackend(s) /\ i > 1),
                                  ListedSources(tt, s, FALSE), PriorityTrafficTargetDirect, To(i)))
               Indirect(i) ==
                   Write(TargetKey(tt, s, ports[i], "indirect"),
                       HTTPRouter(i, RuleOf(s, rules, TRUE),
                                  ListedSources(tt, s, TRUE), PriorityTrafficTargetIndirect, To(i)))
               write(i) == IF i > HTTPEntryPoints THEN << >>
                           ELSE IF IsBackend(s) THEN Merged(<<Direct(i), Indirect(i)>>)
                           ELSE Direct(i)
    <2>1. \A i : Plain(Direct(i)) /\ Plain(Indirect(i))
        BY OneIsPlain
    <2>2. \A i : Plain(write(i))
        <3> HIDE DEF Direct, Indirect
        <3> QED BY <2>1, BothPlain, NothingIsPlain
    <2>3. Plain(Merged([i \in DOMAIN ports |-> write(i)]))
        <3> HIDE DEF write
        <3> QED BY <2>2, MergedPlain
    <2> QED BY <2>3 DEF HTTPTargetRouters
<1>2. Plain(TCPTargetRouters(tt, s))
    <2> DEFINE write(i) ==
            IF ~ HasTCPRoute(cluster.targets[tt].rules) \/ ~ IsMapped(s, ports[i]) THEN << >>
            ELSE Write(ServiceKey(s, ports[i]),
                    MappedRouter(s, ports[i], ToPods(DestinationPods(tt, s), ports[i])))
    <2>1. \A i : Plain(write(i))
        BY OneIsPlain, NothingIsPlain
    <2>2. Plain(Merged([i \in DOMAIN ports |-> write(i)]))
        <3> HIDE DEF write
        <3> QED BY <2>1, MergedPlain
    <2> QED BY <2>2 DEF TCPTargetRouters
<1> QED BY <1>1, <1>2

\* The routers of a TCP or UDP split have the keys of the service.
LEMMA MappedSplitsArePlain ==
    ASSUME NEW s, NEW ts
    PROVE  Plain(MappedSplitRouters(ts, s))
<1> DEFINE write(i) ==
            IF ~ IsMapped(s, Ports(s)[i]) THEN << >>
            ELSE Write(ServiceKey(s, Ports(s)[i]),
                    MappedRouter(s, Ports(s)[i],
                                 ToBackends(trafficSplits[ts].backends, Ports(s)[i].target)))
<1>1. \A i : Plain(write(i))
    BY OneIsPlain, NothingIsPlain
<1>2. Plain(Merged([i \in DOMAIN Ports(s) |-> write(i)]))
    <2> HIDE DEF write
    <2> QED BY <1>1, MergedPlain
<1> QED BY <1>2 DEF MappedSplitRouters

\* Such a map says nothing wrong about splits.
LEMMA PlainIsKeyed ==
    ASSUME NEW map, Plain(map)
    PROVE  AllKeyed(map)
BY DEF Plain, AllKeyed

\* Maps written in a loop.
LEMMA MergedKeyed ==
    ASSUME NEW writes, \A i \in DOMAIN writes : AllKeyed(writes[i])
    PROVE  AllKeyed(Merged(writes))
<1> SUFFICES ASSUME NEW s \in Known, NEW ts \in Split, NEW i \in DOMAIN Ports(s), NEW k,
                    k = SplitKey(ts, s, Ports(s)[i], "direct"),
                    cluster.type[s] = "http", k \in DOMAIN Merged(writes)
             PROVE  IsDirect(s, ts, i, Merged(writes)[k])
    BY DEF AllKeyed
<1>1. PICK j \in DOMAIN writes : k \in DOMAIN writes[j] /\ Merged(writes)[k] = writes[j][k]
    BY MergedValue
<1> QED BY <1>1 DEF AllKeyed

\* The routers of two calls together.
LEMMA BothKeyed ==
    ASSUME NEW map1, NEW map2, AllKeyed(map1), AllKeyed(map2)
    PROVE  AllKeyed(Merged(<<map1, map2>>))
<1> DEFINE both == <<map1, map2>>
<1>1. \A i \in DOMAIN both : AllKeyed(both[i])
    OBVIOUS
<1> HIDE DEF both
<1>2. AllKeyed(Merged(both))
    BY <1>1, MergedKeyed
<1> QED BY <1>2 DEF both

\* Two of these keys are equal for one split, service and port only.
LEMMA OneKeyed ==
    ASSUME ClusterInv, OrdinaryCluster, NEW s \in Known, NEW ts \in Split,
           NEW i \in DOMAIN Ports(s), NEW router, IsDirect(s, ts, i, router)
    PROVE  AllKeyed(Write(SplitKey(ts, s, Ports(s)[i], "direct"), router))
<1> DEFINE key == SplitKey(ts, s, Ports(s)[i], "direct")
<1> SUFFICES ASSUME NEW t \in Known, NEW u \in Split, NEW j \in DOMAIN Ports(t),
                    cluster.type[t] = "http", SplitKey(u, t, Ports(t)[j], "direct") = key
             PROVE  IsDirect(t, u, j, router)
    BY DEF AllKeyed, Write
<1>1. Joined[t] = Joined[s] /\ Joined[u] = Joined[ts] /\ Ports(t)[j].number = Ports(s)[i].number
    BY DEF SplitKey
<1>2. t = s /\ u = ts
    BY <1>1, KeysAssumption, ClusterAssumption DEF ClusterInv, Known
<1>3. j = i
    BY <1>1, <1>2 DEF OrdinaryCluster
<1> QED BY <1>2, <1>3

\* The routers of an HTTP split: one for every port with an entry point.
LEMMA HTTPSplitsKeyed ==
    ASSUME ClusterInv, OrdinaryCluster, NEW s \in Known, cluster.type[s] = "http",
           NEW ts \in Split
    PROVE  /\ AllKeyed(HTTPSplitRouters(ts, s))
           /\ \A i \in DOMAIN Ports(s) : i <= HTTPEntryPoints =>
                 SplitKey(ts, s, Ports(s)[i], "direct") \in DOMAIN HTTPSplitRouters(ts, s)
<1> DEFINE rules == cluster.splits[ts].rules
           To(i) == ToBackends(trafficSplits[ts].backends, Ports(s)[i].number)
           needed == cluster.acl /\ IsBackend(s)
           Listed(forwarded) ==
               IF cluster.acl THEN Whitelist(trafficSplits[ts].incoming, forwarded) ELSE Anybody
           direct(i) == HTTPRouter(i, RuleOf(s, rules, needed /\ i > 1), Listed(FALSE),
                                   SplitPriority, To(i))
           indirect(i) == HTTPRouter(i, RuleOf(s, rules, TRUE), Listed(TRUE),
                                     PriorityTrafficTargetIndirect, To(i))
           key(i) == SplitKey(ts, s, Ports(s)[i], "direct")
           Direct(i) == Write(key(i), direct(i))
           Indirect(i) == Write(SplitKey(ts, s, Ports(s)[i], "indirect"), indirect(i))
           both(i) == <<Direct(i), Indirect(i)>>
           write(i) == IF i > HTTPEntryPoints THEN << >>
                       ELSE IF needed THEN Merged(both(i)) ELSE Direct(i)
           writes == [i \in DOMAIN Ports(s) |-> write(i)]
<1>1. HTTPSplitRouters(ts, s) = Merged(writes)
    BY DEF HTTPSplitRouters
<1>2. ASSUME NEW i \in DOMAIN Ports(s)
      PROVE  IsDirect(s, ts, i, direct(i))
    <2> DEFINE rule == RuleOf(s, rules, needed /\ i > 1)
    <2>1. /\ rule.services = {s} /\ rule.matches = ToSet(HTTPMatches(rules)) \ {{}}
          /\ rule.forwarded = (needed /\ i > 1)
        BY DEF RuleOf
    <2> HIDE DEF rule
    <2>2. /\ direct(i).entry = <<"http", i>> /\ direct(i).rule = rule
          /\ direct(i).priority = 4000 + rule.operators
        <3>1. SplitPriority * 1000 = 4000
            BY DEF SplitPriority, PriorityTrafficSplit
        <3> QED BY <3>1 DEF HTTPRouter, Router, RulePriority, rule
    <2>3. rule.forwarded => cluster.acl /\ IsBackend(s) /\ i > 1
        BY <2>1
    <2> HIDE DEF direct, needed
    <2> QED BY <2>1, <2>2, <2>3 DEF IsDirect
<1>3. ASSUME NEW i \in DOMAIN Ports(s)
      PROVE  AllKeyed(Direct(i)) /\ AllKeyed(Indirect(i)) /\ key(i) \in DOMAIN Direct(i)
    <2> HIDE DEF direct, indirect
    <2>1. AllKeyed(Direct(i))
        BY <1>2, OneKeyed
    <2>2. AllKeyed(Indirect(i))
        BY OneIsPlain, PlainIsKeyed
    <2>3. key(i) \in DOMAIN Direct(i)
        BY DEF Write
    <2> QED BY <2>1, <2>2, <2>3
<1>4. ASSUME NEW i \in DOMAIN Ports(s)
      PROVE  AllKeyed(write(i)) /\ (i <= HTTPEntryPoints => key(i) \in DOMAIN write(i))
    <2> HIDE DEF Direct, Indirect
    <2>1. AllKeyed(Merged(both(i))) /\ key(i) \in DOMAIN Merged(both(i))
        <3>1. AllKeyed(Merged(both(i)))
            BY <1>3, BothKeyed
        <3>2. PICK n \in Nat : n = 2
            OBVIOUS
        <3>3. DOMAIN both(i) = 1 .. n /\ both(i)[1] = Direct(i) /\ 1 \in 1 .. n
            BY <3>2
        <3>4. key(i) \in DOMAIN both(i)[1]
            BY <1>3, <3>3
        <3> HIDE DEF both, key
        <3> QED BY <3>1, <3>3, <3>4, MergedKeys
    <2>2. AllKeyed(<< >>)
        BY NothingIsPlain, PlainIsKeyed
    <2>3. i \in Nat /\ HTTPEntryPoints \in Nat
        BY ClusterAssumption, RoutingAssumption DEF ClusterInv, Known, Ports
    <2> HIDE DEF both, needed
    <2> QED BY <1>3, <2>1, <2>2, <2>3
<1>5. AllKeyed(Merged(writes))
    <2> HIDE DEF write
    <2> QED BY <1>4, MergedKeyed
<1>6. ASSUME NEW i \in DOMAIN Ports(s), i <= HTTPEntryPoints
      PROVE  key(i) \in DOMAIN Merged(writes)
    <2>1. PICK n \in Nat : DOMAIN Ports(s) = 1 .. n
        BY ClusterAssumption DEF ClusterInv, Known, Ports
    <2>2. DOMAIN writes = 1 .. n /\ key(i) \in DOMAIN writes[i]
        BY <1>4, <1>6, <2>1
    <2> HIDE DEF writes, key
    <2> QED BY <2>1, <2>2, MergedKeys
<1> QED BY <1>1, <1>5, <1>6

\* The routers of a TCP or UDP split have the keys of all routers of the service, and no
\* servers.
LEMMA MappedSplitKeys ==
    ASSUME ClusterInv, NEW s \in Known, NEW ts
    PROVE  /\ \A i \in DOMAIN Ports(s) : IsMapped(s, Ports(s)[i]) =>
                 ServiceKey(s, Ports(s)[i]) \in DOMAIN MappedSplitRouters(ts, s)
           /\ \A k \in DOMAIN MappedSplitRouters(ts, s) :
                 MappedSplitRouters(ts, s)[k].target.servers = {}
<1> DEFINE router(i) == MappedRouter(s, Ports(s)[i],
                             ToBackends(trafficSplits[ts].backends, Ports(s)[i].target))
           key(i) == ServiceKey(s, Ports(s)[i])
           write(i) == IF ~ IsMapped(s, Ports(s)[i]) THEN << >>
                       ELSE Write(key(i), router(i))
           writes == [i \in DOMAIN Ports(s) |-> write(i)]
<1>1. MappedSplitRouters(ts, s) = Merged(writes)
    BY DEF MappedSplitRouters
<1>2. ASSUME NEW i \in DOMAIN Ports(s), IsMapped(s, Ports(s)[i])
      PROVE  key(i) \in DOMAIN Merged(writes)
    <2>1. PICK n \in Nat : DOMAIN Ports(s) = 1 .. n
        BY ClusterAssumption DEF ClusterInv, Known, Ports
    <2>2. DOMAIN writes = 1 .. n /\ key(i) \in DOMAIN writes[i]
        BY <1>2, <2>1 DEF Write
    <2> HIDE DEF writes, key
    <2> QED BY <2>1, <2>2, MergedKeys
<1>3. \A i : router(i).target.servers = {}
    BY DEF MappedRouter, Router, ToBackends
<1>4. ASSUME NEW k \in DOMAIN Merged(writes)
      PROVE  Merged(writes)[k].target.servers = {}
    <2>1. PICK i \in DOMAIN writes : k \in DOMAIN writes[i] /\ Merged(writes)[k] = writes[i][k]
        <3> HIDE DEF writes
        <3> QED BY MergedValue
    <2>2. writes[i][k] = router(i)
        <3> HIDE DEF router, key
        <3> QED BY <2>1 DEF Write
    <2> QED BY <1>3, <2>1, <2>2
<1> QED BY <1>1, <1>2, <1>4

\* The keys of the TCP or UDP routers of a service and of its targets.
LEMMA MappedKeys ==
    ASSUME ClusterInv, NEW s \in Known, NEW tt
    PROVE  \A k : \/ k \in DOMAIN MappedServiceRouters(s)
                  \/ k \in DOMAIN TCPTargetRouters(tt, s)
                  => \E i \in DOMAIN Ports(s) : IsMapped(s, Ports(s)[i]) /\ k = ServiceKey(s, Ports(s)[i])
<1>1. ASSUME NEW k \in DOMAIN MappedServiceRouters(s)
      PROVE  \E i \in DOMAIN Ports(s) : IsMapped(s, Ports(s)[i]) /\ k = ServiceKey(s, Ports(s)[i])
    <2> DEFINE router(i) == MappedRouter(s, Ports(s)[i], ToPods(cluster.endpoints[s], Ports(s)[i]))
               write(i) == IF ~ IsMapped(s, Ports(s)[i]) THEN << >>
                           ELSE Write(ServiceKey(s, Ports(s)[i]), router(i))
               writes == [i \in DOMAIN Ports(s) |-> write(i)]
    <2>1. k \in DOMAIN Merged(writes)
        BY DEF MappedServiceRouters
    <2>2. PICK i \in DOMAIN writes : k \in DOMAIN writes[i]
        <3> HIDE DEF writes
        <3> QED BY <2>1, MergedValue
    <2> HIDE DEF router
    <2> QED BY <2>2 DEF Write
<1>2. ASSUME NEW k \in DOMAIN TCPTargetRouters(tt, s)
      PROVE  \E i \in DOMAIN Ports(s) : IsMapped(s, Ports(s)[i]) /\ k = ServiceKey(s, Ports(s)[i])
    <2> DEFINE ports == DestinationPorts(tt, s)
               router(j) == MappedRouter(s, ports[j], ToPods(DestinationPods(tt, s), ports[j]))
               write(j) ==
                   IF ~ HasTCPRoute(cluster.targets[tt].rules) \/ ~ IsMapped(s, ports[j]) THEN << >>
                   ELSE Write(ServiceKey(s, ports[j]), router(j))
               writes == [j \in DOMAIN ports |-> write(j)]
    <2>1. k \in DOMAIN Merged(writes)
        BY DEF TCPTargetRouters
    <2>2. PICK j \in DOMAIN writes : k \in DOMAIN writes[j]
        <3> HIDE DEF writes
        <3> QED BY <2>1, MergedValue
    <2>3. IsMapped(s, ports[j]) /\ k = ServiceKey(s, ports[j])
        <3> HIDE DEF router, ports
        <3> QED BY <2>2 DEF Write
    <2>4. \E i \in DOMAIN Ports(s) : ports[j] = Ports(s)[i]
        BY <2>2, DestinationPortIsPort
    <2> QED BY <2>3, <2>4
<1> QED BY <1>1, <1>2

\* The splits and targets of a service that BuildConfig looks at.
LEMMA OwnSplits ==
    ASSUME BuildInv, step # "services", NEW s \in DOMAIN services
    PROVE  /\ ClusterInv /\ TargetsApply /\ s \in Known
           /\ services[s].splits \in Seq(Split)
           /\ \A ts \in ToSet(services[s].splits) : ts \in Split /\ cluster.splits[ts].service = s
<1>1. ClusterInv /\ TargetsApply /\ s \in Known
    BY TargetsAreApplied DEF TargetsApply
<1>2. services[s].splits \in Seq(Split)
    BY <1>1 DEF BuildInv, TopologyInv, ServicesInv
<1>3. \A ts \in ToSet(services[s].splits) : ts \in Split /\ cluster.splits[ts].service = s
    BY <1>1 DEF BuildInv, TopologyInv, AttachedInv, SplitsInv, SplitsAt
<1> QED BY <1>1, <1>2, <1>3

\* A service with routers has one of three types.
LEMMA TypesOfServices ==
    ASSUME ClusterInv, NEW s \in Known, HasRouters(s)
    PROVE  cluster.type[s] \in {"http", "tcp", "udp"} /\ cluster.acl \in BOOLEAN
BY RoutingAssumption DEF ClusterInv, HasRouters, Known

\* All routers of a service are routers of its ports.
LEMMA RoutersOfFit ==
    ASSUME BuildInv, step # "services", OrdinaryCluster, NEW s \in DOMAIN services, HasRouters(s),
           NEW targets \in SetToSeqs(services[s].targets)
    PROVE  AllFit(s, RoutersOf(s, targets))
<1> DEFINE ofTargets == [i \in DOMAIN targets |-> TargetRouters(targets[i], s)]
           ofSplits == [i \in DOMAIN services[s].splits |->
                           SplitRouters(services[s].splits[i], s)]
           all == <<BaseRouters(s), Merged(ofTargets), Merged(ofSplits)>>
<1>1. /\ ClusterInv /\ TargetsApply /\ s \in Known
      /\ \A ts \in ToSet(services[s].splits) : ts \in Split /\ cluster.splits[ts].service = s
    BY OwnSplits
<1>2. cluster.type[s] \in {"http", "tcp", "udp"} /\ cluster.acl \in BOOLEAN
    BY <1>1, TypesOfServices
<1>3. \A i \in DOMAIN targets : targets[i] \in Target /\ Applies(targets[i], s)
    BY <1>1 DEF SetToSeqs, TargetsApply
<1>4. AllFit(s, Merged(ofTargets))
    <2>1. ASSUME NEW tt \in Target, Applies(tt, s)
          PROVE  AllFit(s, TargetRouters(tt, s))
        <3>1. CASE ~ cluster.acl \/ cluster.type[s] = "udp"
            BY <3>1, NothingFits DEF TargetRouters
        <3>2. CASE cluster.acl /\ cluster.type[s] = "http"
            BY <1>1, <2>1, <3>2, HTTPTargetsFit DEF TargetRouters
        <3>3. CASE cluster.acl /\ cluster.type[s] = "tcp"
            BY <1>1, <3>3, TCPTargetsFit DEF TargetRouters
        <3> QED BY <1>2, <3>1, <3>2, <3>3
    <2>2. \A i \in DOMAIN ofTargets : AllFit(s, ofTargets[i])
        BY <1>3, <2>1
    <2> HIDE DEF ofTargets
    <2> QED BY <2>2, MergedFits
<1>5. AllFit(s, Merged(ofSplits))
    <2>1. \A i \in DOMAIN ofSplits : AllFit(s, ofSplits[i])
        BY <1>1, <1>2, HTTPSplitsFit, MappedSplitsFit DEF SplitRouters, ToSet
    <2> HIDE DEF ofSplits
    <2> QED BY <2>1, MergedFits
<1>6. AllFit(s, Merged(all))
    <2> HIDE DEF ofTargets, ofSplits
    <2>1. \A j \in DOMAIN all : AllFit(s, all[j])
        BY <1>1, <1>4, <1>5, BaseFits
    <2> HIDE DEF all
    <2> QED BY <2>1, MergedFits
<1> QED BY <1>6 DEF RoutersOf

\* None of them has the key of a router of another service or split.
LEMMA RoutersOfKeyed ==
    ASSUME BuildInv, step # "services", OrdinaryCluster,
           NEW s \in DOMAIN services, HasRouters(s), NEW targets
    PROVE  AllKeyed(RoutersOf(s, targets))
<1> DEFINE ofTargets == [i \in DOMAIN targets |-> TargetRouters(targets[i], s)]
           ofSplits == [i \in DOMAIN services[s].splits |->
                           SplitRouters(services[s].splits[i], s)]
           all == <<BaseRouters(s), Merged(ofTargets), Merged(ofSplits)>>
<1>1. /\ ClusterInv /\ s \in Known
      /\ \A ts \in ToSet(services[s].splits) : ts \in Split
    BY OwnSplits
<1>2. cluster.type[s] \in {"http", "tcp", "udp"} /\ cluster.acl \in BOOLEAN
    BY <1>1, TypesOfServices
<1>3. AllKeyed(BaseRouters(s))
    BY <1>2, BaseIsPlain, NothingIsPlain, PlainIsKeyed DEF BaseRouters
<1>4. AllKeyed(Merged(ofTargets))
    <2>1. \A tt : AllKeyed(TargetRouters(tt, s))
        BY <1>2, TargetsArePlain, NothingIsPlain, PlainIsKeyed DEF TargetRouters
    <2>2. \A i \in DOMAIN ofTargets : AllKeyed(ofTargets[i])
        BY <2>1
    <2> HIDE DEF ofTargets
    <2> QED BY <2>2, MergedKeyed
<1>5. AllKeyed(Merged(ofSplits))
    <2>1. ASSUME NEW ts \in Split
          PROVE  AllKeyed(SplitRouters(ts, s))
        BY <1>1, HTTPSplitsKeyed, MappedSplitsArePlain, PlainIsKeyed DEF SplitRouters
    <2>2. \A i \in DOMAIN ofSplits : AllKeyed(ofSplits[i])
        BY <1>1, <2>1 DEF ToSet
    <2> HIDE DEF ofSplits
    <2> QED BY <2>2, MergedKeyed
<1>6. AllKeyed(Merged(all))
    <2> HIDE DEF ofTargets, ofSplits
    <2>1. \A j \in DOMAIN all : AllKeyed(all[j])
        BY <1>3, <1>4, <1>5
    <2> HIDE DEF all
    <2> QED BY <2>1, MergedKeyed
<1> QED BY <1>6 DEF RoutersOf

\* Every split of a service and every port of it has its router.
LEMMA RoutersOfSplits ==
    ASSUME BuildInv, step # "services", OrdinaryCluster,
           NEW s \in DOMAIN services, cluster.type[s] = "http", NEW targets,
           NEW ts \in ToSet(services[s].splits), NEW i \in DOMAIN Ports(s), i <= HTTPEntryPoints
    PROVE  SplitKey(ts, s, Ports(s)[i], "direct") \in DOMAIN RoutersOf(s, targets)
<1> DEFINE key == SplitKey(ts, s, Ports(s)[i], "direct")
           ofTargets == [j \in DOMAIN targets |-> TargetRouters(targets[j], s)]
           ofSplits == [j \in DOMAIN services[s].splits |->
                           SplitRouters(services[s].splits[j], s)]
           all == <<BaseRouters(s), Merged(ofTargets), Merged(ofSplits)>>
<1>1. ClusterInv /\ s \in Known /\ ts \in Split /\ services[s].splits \in Seq(Split)
    BY OwnSplits
<1>2. key \in DOMAIN SplitRouters(ts, s)
    BY <1>1, HTTPSplitsKeyed DEF SplitRouters
<1>3. key \in DOMAIN Merged(ofSplits)
    <2>1. PICK n \in Nat : DOMAIN services[s].splits = 1 .. n
        BY <1>1
    <2>2. PICK j \in DOMAIN services[s].splits : services[s].splits[j] = ts
        BY DEF ToSet
    <2>3. DOMAIN ofSplits = 1 .. n /\ j \in 1 .. n /\ key \in DOMAIN ofSplits[j]
        BY <1>2, <2>1, <2>2
    <2> HIDE DEF ofSplits, key
    <2> QED BY <2>3, MergedKeys
<1>4. key \in DOMAIN Merged(all)
    <2> HIDE DEF ofTargets, ofSplits, key
    <2>1. PICK n \in Nat : n = 3
        OBVIOUS
    <2>2. DOMAIN all = 1 .. n /\ 3 \in 1 .. n /\ all[3] = Merged(ofSplits)
        BY <2>1
    <2> HIDE DEF all
    <2> QED BY <1>3, <2>2, MergedKeys
<1> QED BY <1>4 DEF RoutersOf

\* The routers of a TCP or UDP split take the place of all others of its service.
LEMMA RoutersOfSplit ==
    ASSUME BuildInv, step # "services", NEW s \in DOMAIN services, HasRouters(s),
           cluster.type[s] # "http", services[s].splits # << >>,
           NEW targets, NEW k \in DOMAIN RoutersOf(s, targets)
    PROVE  \E j \in DOMAIN services[s].splits :
              /\ k \in DOMAIN MappedSplitRouters(services[s].splits[j], s)
              /\ RoutersOf(s, targets)[k] = MappedSplitRouters(services[s].splits[j], s)[k]
<1> DEFINE ofTargets == [j \in DOMAIN targets |-> TargetRouters(targets[j], s)]
           ofSplits == [j \in DOMAIN services[s].splits |->
                           SplitRouters(services[s].splits[j], s)]
           base == BaseRouters(s)
           all == <<base, Merged(ofTargets), Merged(ofSplits)>>
<1>1. ClusterInv /\ s \in Known /\ services[s].splits \in Seq(Split)
    BY OwnSplits
<1>2. cluster.type[s] \in {"tcp", "udp"} /\ cluster.acl \in BOOLEAN
    BY <1>1, TypesOfServices
<1>3. \A ts : SplitRouters(ts, s) = MappedSplitRouters(ts, s)
    BY DEF SplitRouters
<1>4. ASSUME NEW x \in DOMAIN Merged(ofSplits)
      PROVE  \E j \in DOMAIN services[s].splits :
                /\ x \in DOMAIN MappedSplitRouters(services[s].splits[j], s)
                /\ Merged(ofSplits)[x] = MappedSplitRouters(services[s].splits[j], s)[x]
    <2>1. PICK j \in DOMAIN ofSplits : x \in DOMAIN ofSplits[j] /\ Merged(ofSplits)[x] = ofSplits[j][x]
        <3> HIDE DEF ofSplits
        <3> QED BY MergedValue
    <2>2. j \in DOMAIN services[s].splits /\ ofSplits[j] = MappedSplitRouters(services[s].splits[j], s)
        BY <1>3
    <2> HIDE DEF ofSplits
    <2> QED BY <2>1, <2>2
<1>5. ASSUME NEW i \in DOMAIN Ports(s), IsMapped(s, Ports(s)[i])
      PROVE  ServiceKey(s, Ports(s)[i]) \in DOMAIN Merged(ofSplits)
    <2>1. PICK n \in Nat : DOMAIN services[s].splits = 1 .. n /\ 1 \in 1 .. n
        BY <1>1
    <2>2. ServiceKey(s, Ports(s)[i]) \in DOMAIN MappedSplitRouters(services[s].splits[1], s)
        BY <1>1, <1>5, MappedSplitKeys
    <2>3. DOMAIN ofSplits = 1 .. n /\ ServiceKey(s, Ports(s)[i]) \in DOMAIN ofSplits[1]
        BY <1>3, <2>1, <2>2
    <2> HIDE DEF ofSplits
    <2> QED BY <2>1, <2>3, MergedKeys
<1>6. ASSUME NEW x, x \in DOMAIN base \/ x \in DOMAIN Merged(ofTargets)
      PROVE  x \in DOMAIN Merged(ofSplits)
    <2>1. ASSUME NEW tt
          PROVE  \A y \in DOMAIN TargetRouters(tt, s) :
                    \E i \in DOMAIN Ports(s) : IsMapped(s, Ports(s)[i]) /\ y = ServiceKey(s, Ports(s)[i])
        <3>1. TargetRouters(tt, s) = << >> \/ TargetRouters(tt, s) = TCPTargetRouters(tt, s)
            BY <1>2 DEF TargetRouters
        <3> QED BY <1>1, <3>1, MappedKeys
    <2>2. base = << >> \/ base = MappedServiceRouters(s)
        BY <1>2 DEF BaseRouters
    <2>3. CASE x \in DOMAIN base
        <3> HIDE DEF base, ofSplits
        <3>1. \E i \in DOMAIN Ports(s) : IsMapped(s, Ports(s)[i]) /\ x = ServiceKey(s, Ports(s)[i])
            BY <1>1, <2>2, <2>3, MappedKeys
        <3> QED BY <1>5, <3>1
    <2>4. CASE x \in DOMAIN Merged(ofTargets)
        <3>1. PICK j \in DOMAIN ofTargets : x \in DOMAIN ofTargets[j]
            <4> HIDE DEF ofTargets
            <4> QED BY <2>4, MergedValue
        <3>2. x \in DOMAIN TargetRouters(targets[j], s)
            BY <3>1
        <3> HIDE DEF ofSplits
        <3> QED BY <1>5, <2>1, <3>2
    <2> QED BY <1>6, <2>3, <2>4
<1>7. RoutersOf(s, targets) = Merged(all)
    BY DEF RoutersOf
<1> HIDE DEF base, ofTargets, ofSplits
<1>8. k \in DOMAIN Merged(ofSplits)
    BY <1>6, <1>7, LastOfThree
<1> QED BY <1>4, <1>7, <1>8, LastOfThree

\* So a TCP or UDP service with a split has no router with servers.
LEMMA RoutersOfServers ==
    ASSUME BuildInv, step # "services", NEW s \in DOMAIN services, HasRouters(s),
           cluster.type[s] # "http", services[s].splits # << >>,
           NEW targets, NEW k \in DOMAIN RoutersOf(s, targets)
    PROVE  RoutersOf(s, targets)[k].target.servers = {}
<1>1. PICK j \in DOMAIN services[s].splits :
        /\ k \in DOMAIN MappedSplitRouters(services[s].splits[j], s)
        /\ RoutersOf(s, targets)[k] = MappedSplitRouters(services[s].splits[j], s)[k]
    BY RoutersOfSplit
<1>2. ClusterInv /\ s \in Known
    BY OwnSplits
<1> QED BY <1>1, <1>2, MappedSplitKeys

--------------------------------------------------------------------------------
(* The configuration as it grows, and requests.                                 *)

\* The routers of the services that are configured.
IsRanked(router) ==
    \E s \in Known :
        /\ HasRouters(s) /\ Fits(s, router)
        /\ cluster.type[s] # "http" /\ services[s].splits # << >> => router.target.servers = {}

RoutersAreRanked == \A k \in DOMAIN routers : IsRanked(routers[k])

SplitsHaveRouters ==
    \A s \in configured : cluster.type[s] = "http" /\ HasRouters(s) =>
        \A ts \in ToSet(services[s].splits) : \A i \in DOMAIN Ports(s) :
            i <= HTTPEntryPoints => SplitKey(ts, s, Ports(s)[i], "direct") \in DOMAIN routers

RankInv ==
    /\ configured \subseteq DOMAIN services
    /\ RoutersAreRanked /\ AllKeyed(routers) /\ SplitsHaveRouters

\* A request asks for the port it was sent to at every service.
NumberInv == request # None => IsComplete /\ request.number = request.asked

EndsInv ==
    /\ step # "configured" => configured = {}
    /\ OrdinaryCluster =>
          RankInv /\ NumberInv /\ (ShortRules => ServedByItsEnds)

\* What routers are depends on the cluster and on which services are backends.
LEMMA FitsStays ==
    ASSUME UNCHANGED cluster, UNCHANGED services, NEW s, NEW router
    PROVE  Fits(s, router)' = Fits(s, router)
BY DEF Fits, IsOfPort, Leads, Ports, IsMapped, MappedEntryPoint, ResolvedPort, IsBackend

\* So do the routers of splits.
LEMMA DirectStays ==
    ASSUME UNCHANGED cluster, UNCHANGED services, NEW s, NEW ts, NEW i, NEW router
    PROVE  IsDirect(s, ts, i, router)' = IsDirect(s, ts, i, router)
<1>1. HTTPMatches(cluster.splits[ts].rules)' = HTTPMatches(cluster.splits[ts].rules)
    BY SpecsStay
<1> QED BY <1>1 DEF IsDirect, IsBackend

\* The cluster stays one without the exceptions.
LEMMA OrdinaryStays ==
    ASSUME UNCHANGED cluster
    PROVE  OrdinaryCluster' = OrdinaryCluster
<1>1. MatchesAsk' = MatchesAsk
    BY SpecsStay DEF MatchesAsk
<1>2. ASSUME NEW tt, NEW s
      PROVE  Applies(tt, s)' = Applies(tt, s) /\ DestinationPorts(tt, s)' = DestinationPorts(tt, s)
    BY AppliesStays, TargetStays
<1> QED BY <1>1, <1>2 DEF OrdinaryCluster, Known, Ports

\* A router of a service that is configured stays one.
LEMMA RankedStays ==
    ASSUME UNCHANGED cluster, UNCHANGED services, NEW router, IsRanked(router)
    PROVE  IsRanked(router)'
BY FitsStays DEF IsRanked, Known, HasRouters

\* What the routers of the next state are, when the topology stays.
LEMMA RankedNext ==
    ASSUME UNCHANGED cluster, UNCHANGED services, NEW map, map = routers',
           \A k \in DOMAIN map : IsRanked(map[k]), AllKeyed(map)
    PROVE  RoutersAreRanked' /\ AllKeyed(routers)'
<1>1. \A k \in DOMAIN routers' : IsRanked(routers'[k])
    OBVIOUS
<1>2. \A k \in DOMAIN routers' : IsRanked(routers[k])'
    BY <1>1, RankedStays
<1>3. RoutersAreRanked'
    BY <1>2 DEF RoutersAreRanked
<1>4. ASSUME NEW s \in Known, NEW ts \in Split, NEW i \in DOMAIN Ports(s),
             cluster.type[s] = "http", NEW k, k = SplitKey(ts, s, Ports(s)[i], "direct"),
             k \in DOMAIN map
      PROVE  IsDirect(s, ts, i, map[k])'
    <2>1. IsDirect(s, ts, i, map[k])
        BY <1>4 DEF AllKeyed
    <2> QED BY <2>1, DirectStays
<1>5. AllKeyed(map)'
    BY <1>4 DEF AllKeyed, Known, Ports, SplitKey
<1>6. AllKeyed(routers)'
    BY <1>5 DEF AllKeyed
<1> QED BY <1>3, <1>6

\* Steps that leave topology and configuration alone.
LEMMA RankStays ==
    ASSUME UNCHANGED <<cluster, services, routers, configured>>, RankInv
    PROVE  RankInv'
<1>1. UNCHANGED cluster /\ UNCHANGED services
    OBVIOUS
<1>2. PICK map : map = routers' /\ map = routers
    OBVIOUS
<1>3. (\A k \in DOMAIN map : IsRanked(map[k])) /\ AllKeyed(map)
    BY <1>2 DEF RankInv, RoutersAreRanked
<1>4. RoutersAreRanked' /\ AllKeyed(routers)'
    BY <1>1, <1>2, <1>3, RankedNext
<1>5. SplitsHaveRouters'
    BY <1>1 DEF RankInv, SplitsHaveRouters, HasRouters, Ports, SplitKey
<1> QED BY <1>1, <1>4, <1>5 DEF RankInv

\* BuildConfig gives a service its routers.
LEMMA BuildConfigRanks ==
    ASSUME BuildInv, OrdinaryCluster, RankInv, BuildConfig
    PROVE  RankInv'
<1>1. /\ UNCHANGED <<cluster, services, trafficSplits>> /\ UNCHANGED cluster /\ UNCHANGED services
      /\ step # "services"
    BY DEF BuildConfig
<1>2. PICK s \in DOMAIN services \ configured :
        /\ SkipService(s) \/ AddService(s)
        /\ configured' = configured \cup {s}
    BY DEF BuildConfig
<1>3. s \in Known
    BY <1>1, OwnSplits
<1>4. CASE SkipService(s)
    <2>1. ~ HasRouters(s) /\ UNCHANGED routers
        BY <1>4 DEF SkipService
    <2>2. PICK map : map = routers' /\ map = routers
        BY <2>1
    <2>3. (\A k \in DOMAIN map : IsRanked(map[k])) /\ AllKeyed(map)
        BY <2>2 DEF RankInv, RoutersAreRanked
    <2>4. RoutersAreRanked' /\ AllKeyed(routers)'
        BY <1>1, <2>2, <2>3, RankedNext
    <2>5. SplitsHaveRouters'
        BY <1>1, <1>2, <2>1 DEF RankInv, SplitsHaveRouters, HasRouters, Ports, SplitKey
    <2> QED BY <1>1, <1>2, <2>4, <2>5 DEF RankInv
<1>5. CASE AddService(s)
    <2>1. HasRouters(s)
        BY <1>5 DEF AddService
    <2>2. PICK targets \in SetToSeqs(services[s].targets) :
            routers' = Merged(<<routers, RoutersOf(s, targets)>>)
        BY <1>5 DEF AddService
    <2>3. PICK old, new : old = routers /\ new = RoutersOf(s, targets)
        OBVIOUS
    <2> DEFINE both == <<old, new>>
    <2>4. PICK map : map = routers' /\ map = Merged(both)
        BY <2>2, <2>3
    <2>5. AllFit(s, new) /\ AllKeyed(new) /\ AllKeyed(old) /\ \A k \in DOMAIN old : IsRanked(old[k])
        BY <1>1, <2>1, <2>3, RoutersOfFit, RoutersOfKeyed DEF RankInv, RoutersAreRanked
    <2>6. \A k \in DOMAIN new : IsRanked(new[k])
        <3>1. ASSUME NEW k \in DOMAIN new, cluster.type[s] # "http", services[s].splits # << >>
              PROVE  new[k].target.servers = {}
            BY <1>1, <2>1, <2>3, <3>1, RoutersOfServers
        <3> QED BY <1>3, <2>1, <2>5, <3>1 DEF AllFit, IsRanked
    <2>7. AllKeyed(map)
        BY <2>4, <2>5, BothKeyed
    <2>8. \A k \in DOMAIN map : IsRanked(map[k])
        <3>1. ASSUME NEW k \in DOMAIN map
              PROVE  IsRanked(map[k])
            <4>1. PICK i \in DOMAIN both : k \in DOMAIN both[i] /\ map[k] = both[i][k]
                <5> HIDE DEF both
                <5> QED BY <2>4, <3>1, MergedValue
            <4> QED BY <2>5, <2>6, <4>1
        <3> QED BY <3>1
    <2>9. RoutersAreRanked' /\ AllKeyed(routers)'
        BY <1>1, <2>4, <2>7, <2>8, RankedNext
    <2>10. DOMAIN map = DOMAIN old \cup DOMAIN new
        <3>1. PICK n \in Nat : n = 2
            OBVIOUS
        <3>2. DOMAIN both = 1 .. n /\ 1 .. n = {1, 2} /\ both[1] = old /\ both[2] = new
            BY <3>1
        <3> HIDE DEF both
        <3>3. \A k : k \in DOMAIN map <=> \E i \in 1 .. n : k \in DOMAIN both[i]
            BY <2>4, <3>2, MergedKeys
        <3> QED BY <3>2, <3>3
    <2>11. ASSUME NEW t \in configured', cluster.type[t] = "http", HasRouters(t),
                  NEW ts \in ToSet(services[t].splits), NEW i \in DOMAIN Ports(t),
                  i <= HTTPEntryPoints
           PROVE  SplitKey(ts, t, Ports(t)[i], "direct") \in DOMAIN map
        <3>1. CASE t = s
            BY <1>1, <2>3, <2>10, <2>11, <3>1, RoutersOfSplits
        <3>2. CASE t # s
            <4>1. t \in configured
                BY <1>2, <3>2
            <4> QED BY <2>3, <2>10, <2>11, <4>1 DEF RankInv, SplitsHaveRouters
        <3> QED BY <3>1, <3>2
    <2>12. SplitsHaveRouters'
        BY <1>1, <2>4, <2>11 DEF SplitsHaveRouters, HasRouters, Ports, SplitKey
    <2> QED BY <1>1, <1>2, <2>9, <2>12 DEF RankInv
<1> QED BY <1>2, <1>4, <1>5

\* The router that is chosen for a request is one of the port that it asks for.
LEMMA ChosenPort ==
    ASSUME ClusterInv, RoutersAreRanked,
           NEW entry \in EntryPoints(request.service, request.number),
           NEW router \in Chosen(request, entry)
    PROVE  \E i \in DOMAIN Ports(request.service) :
              /\ request.service \in Known /\ HasRouters(request.service)
              /\ Ports(request.service)[i].number = request.number
              /\ cluster.type[request.service] = "http" => i <= HTTPEntryPoints /\ entry = <<"http", i>>
              /\ Leads(request.service, i, router)
              /\ cluster.type[request.service] # "http" /\ services[request.service].splits # << >>
                    => router.target.servers = {}
<1>1. PICK s \in Known :
        /\ HasRouters(s) /\ Fits(s, router)
        /\ cluster.type[s] # "http" /\ services[s].splits # << >> => router.target.servers = {}
    BY DEF Chosen, RoutersAreRanked, IsRanked
<1>2. PICK i \in DOMAIN Ports(s) : IsOfPort(s, i, router) /\ Leads(s, i, router)
    BY <1>1 DEF Fits
<1>3. IsFor(s, router)
    <2>1. CASE cluster.type[s] = "http"
        BY <1>2, <2>1 DEF IsOfPort, IsFor
    <2>2. CASE cluster.type[s] # "http"
        <3> DEFINE k == <<s, Ports(s)[i].number>>
        <3>1. k \in DOMAIN cluster.meshPort /\ router.entry = <<cluster.type[s], cluster.meshPort[k]>>
            BY <1>2, <2>2 DEF IsOfPort, IsMapped, MappedEntryPoint
        <3>2. k[1] = s
            OBVIOUS
        <3> HIDE DEF k
        <3> QED BY <2>2, <3>1, <3>2 DEF IsFor
    <2> QED BY <2>1, <2>2
<1>4. s = request.service
    BY <1>3, ChosenIsFor
<1>5. router.entry = entry
    BY DEF Chosen
<1>6. CASE cluster.type[s] = "http"
    <2>1. router.entry = <<"http", i>>
        BY <1>2, <1>6 DEF IsOfPort
    <2>2. PICK j \in DOMAIN Ports(s) :
            Ports(s)[j].number = request.number /\ j <= HTTPEntryPoints /\ entry = <<"http", j>>
        BY <1>4, <1>6 DEF EntryPoints
    <2>3. <<"http", i>> = <<"http", j>>
        BY <1>5, <2>1, <2>2
    <2>4. i = j
        BY <2>3
    <2> QED BY <1>1, <1>2, <1>4, <1>6, <2>2, <2>4
<1>7. CASE cluster.type[s] # "http"
    <2>1. IsMapped(s, Ports(s)[i]) /\ router.entry = MappedEntryPoint(s, Ports(s)[i])
        BY <1>2, <1>7 DEF IsOfPort
    <2>2. PICK j \in DOMAIN Ports(s) :
            /\ Ports(s)[j].number = request.number /\ IsMapped(s, Ports(s)[j])
            /\ entry = MappedEntryPoint(s, Ports(s)[j])
        BY <1>4, <1>7 DEF EntryPoints
    <2> DEFINE k == <<s, Ports(s)[i].number>>
               l == <<s, Ports(s)[j].number>>
    <2>3. /\ k \in DOMAIN cluster.meshPort /\ l \in DOMAIN cluster.meshPort
          /\ cluster.meshPort[k] = cluster.meshPort[l]
        <3>1. k \in DOMAIN cluster.meshPort /\ l \in DOMAIN cluster.meshPort
            BY <2>1, <2>2 DEF IsMapped
        <3>2. MappedEntryPoint(s, Ports(s)[i]) = MappedEntryPoint(s, Ports(s)[j])
            BY <1>5, <2>1, <2>2
        <3>3. <<cluster.type[s], cluster.meshPort[k]>> = <<cluster.type[s], cluster.meshPort[l]>>
            BY <3>2 DEF MappedEntryPoint
        <3> HIDE DEF k, l
        <3> QED BY <3>1, <3>3
    <2>4. k = l
        <3>1. k[1] = s /\ l[1] = s
            OBVIOUS
        <3> HIDE DEF k, l
        <3> QED BY <2>3, <3>1, RoutingAssumption DEF ClusterInv, Known
    <2>5. Ports(s)[i].number = request.number
        BY <2>2, <2>4
    <2> QED BY <1>1, <1>2, <1>4, <1>7, <2>5
<1> QED BY <1>6, <1>7

\* A split that is for a request keeps it from the pods of the service.
LEMMA SplitDecides ==
    ASSUME BuildInv, step # "services", RankInv, OrdinaryCluster, ShortRules, IsComplete,
           NEW entry \in EntryPoints(request.service, request.number),
           NEW router \in Chosen(request, entry), router.target.servers # {}
    PROVE  SplitsFor(request, request.service) = {}
<1> PICK s : s = request.service
    OBVIOUS
<1>1. ClusterInv
    BY DEF BuildInv, TopologyInv
<1>2. PICK i \in DOMAIN Ports(s) :
              /\ s \in Known /\ HasRouters(s) /\ Ports(s)[i].number = request.number
              /\ cluster.type[s] = "http" => i <= HTTPEntryPoints /\ entry = <<"http", i>>
              /\ Leads(s, i, router)
              /\ cluster.type[s] # "http" /\ services[s].splits # << >>
                    => router.target.servers = {}
    BY <1>1, ChosenPort DEF RankInv
<1>3. CASE cluster.type[s] # "http"
    <2>1. services[s].splits = << >>
        BY <1>2, <1>3
    <2> QED BY <2>1 DEF SplitsFor, ToSet
<1>4. CASE cluster.type[s] = "http"
    <2> SUFFICES ASSUME NEW ts \in SplitsFor(request, s) PROVE FALSE
        OBVIOUS
    <2>1. s \in DOMAIN services
        BY <1>2 DEF BuildInv, TopologyInv, ServicesInv
    <2>2. /\ ts \in ToSet(services[s].splits) /\ ts \in Split
          /\ Admits(cluster.splits[ts].rules, request.meets)
        BY <1>4, <2>1, OwnSplits DEF SplitsFor
    <2>0. SpecsExist(cluster.splits[ts].rules)
        BY <1>2, <2>2 DEF BuildInv, TopologyInv, AttachedInv, SplitsAt, Attached
    <2>3. PICK k : k = SplitKey(ts, s, Ports(s)[i], "direct")
        OBVIOUS
    <2>4. k \in DOMAIN routers
        BY <1>2, <1>4, <2>1, <2>2, <2>3 DEF RankInv, SplitsHaveRouters, IsComplete
    <2>5. IsDirect(s, ts, i, routers[k])
        BY <1>2, <1>4, <2>2, <2>3, <2>4 DEF RankInv, AllKeyed
    <2>6. PICK class \in 1 .. 3 : router.priority = class * 1000 + router.rule.operators
        BY <1>2, <1>4 DEF Leads
    <2>7. PICK l \in DOMAIN routers : router = routers[l] /\ MatchesRule(request, router.rule)
        BY DEF Chosen
    <2>8. MatchesRule(request, routers[k].rule)
        <3>1. request.service \in routers[k].rule.services
            BY <2>5 DEF IsDirect
        <3>2. PICK matches : matches = ToSet(HTTPMatches(cluster.splits[ts].rules))
            OBVIOUS
        <3>3. {} \notin matches
            BY <2>2, <2>0, <3>2 DEF OrdinaryCluster, MatchesAsk
        <3>4. routers[k].rule.matches = matches
            <4>1. matches \ {{}} = matches
                BY <3>3
            <4> QED BY <2>5, <3>2, <4>1 DEF IsDirect
        <3>5. matches = {} \/ \E m \in matches : m \subseteq request.meets
            BY <2>2, <3>2 DEF Admits
        <3>6. routers[k].rule.forwarded => request.via # None
            <4> SUFFICES ASSUME routers[k].rule.forwarded PROVE request.via # None
                OBVIOUS
            <4>1. cluster.acl /\ IsBackend(s) /\ i > 1
                BY <2>5 DEF IsDirect
            <4>2. router.rule.forwarded
                BY <1>2, <1>4, <4>1 DEF Leads
            <4> QED BY <2>7, <4>2 DEF MatchesRule
        <3> QED BY <3>1, <3>4, <3>5, <3>6 DEF MatchesRule
    <2>9. routers[k].priority <= router.priority
        BY <1>2, <1>4, <2>4, <2>5, <2>8 DEF Chosen, IsDirect
    <2>10. /\ router.rule.operators \in 0 .. 999
           /\ routers[k].rule.operators \in 0 .. 999
        BY <2>4, <2>7 DEF ShortRules
    <2>11. routers[k].priority = 4000 + routers[k].rule.operators
        BY <2>5 DEF IsDirect
    <2>12. PICK m, n : m = router.rule.operators /\ n = routers[k].rule.operators
        OBVIOUS
    <2>13. PICK p, q : p = router.priority /\ q = routers[k].priority
        OBVIOUS
    <2>14. /\ m \in 0 .. 999 /\ n \in 0 .. 999 /\ p = class * 1000 + m /\ q = 4000 + n /\ q <= p
        <3>1. m \in 0 .. 999 /\ n \in 0 .. 999
            BY <2>10, <2>12
        <3>2. p = class * 1000 + m
            BY <2>6, <2>12, <2>13
        <3>3. q = 4000 + n
            BY <2>11, <2>12, <2>13
        <3>4. q <= p
            BY <2>9, <2>13
        <3> QED BY <3>1, <3>2, <3>3, <3>4
    <2>15. class * 1000 <= 3000 /\ class * 1000 \in Int
        OBVIOUS
    <2> QED BY <2>14, <2>15
<1> QED BY <1>3, <1>4

\* The ends of the ways of a request stay.
LEMMA EndsStay ==
    ASSUME BuildInv, step = "configured", UNCHANGED <<cluster, services, trafficSplits>>, NEW r
    PROVE  EndsOf(r)' = EndsOf(r)
<1>1. Reached(r)' = Reached(r)
    BY ReachedStays
<1>2. \A s : SplitsFor(r, s)' = SplitsFor(r, s)
    BY AdmitsStays DEF SplitsFor
<1> QED BY <1>1, <1>2 DEF EndsOf

\* They depend on the service a request was sent to and what it meets.
LEMMA SameEnds ==
    ASSUME NEW r1, NEW r2, r1.root = r2.root, r1.meets = r2.meets
    PROVE  EndsOf(r1) = EndsOf(r2)
<1>1. Reached(r1) = Reached(r2)
    BY SameWays
<1>2. \A s : SplitsFor(r1, s) = SplitsFor(r2, s)
    BY DEF SplitsFor
<1> QED BY <1>1, <1>2 DEF EndsOf

\* A router with servers gets a request at an end of its ways, and has the port asked for.
LEMMA ServesAtEnd ==
    ASSUME IInv, OrdinaryCluster, ShortRules, RankInv, NumberInv, IsAtProxy,
           NEW entry \in EntryPoints(request.service, request.number),
           NEW router \in Chosen(request, entry), NEW server \in router.target.servers
    PROVE  /\ request.service \in EndsOf(request)
           /\ \E i \in DOMAIN Ports(request.service) :
                /\ Ports(request.service)[i].number = request.asked
                /\ ResolvedPort(Ports(request.service)[i], server[1]) = server[2]
<1>1. BuildInv /\ ClusterInv /\ IsComplete /\ step # "services" /\ request.number = request.asked
    BY DEF IInv, BuildInv, TopologyInv, NumberInv, IsAtProxy, IsComplete
<1>2. SplitsFor(request, request.service) = {}
    BY <1>1, SplitDecides
<1>3. request.service \in Reached(request)
    BY DEF IInv, NoRequestStrays, IsAtProxy
<1>4. PICK i \in DOMAIN Ports(request.service) :
        /\ Ports(request.service)[i].number = request.number
        /\ Leads(request.service, i, router)
    BY <1>1, ChosenPort DEF RankInv
<1> QED BY <1>1, <1>2, <1>3, <1>4 DEF EndsOf, Leads

\* A step that leaves the configuration alone and answers a request, or leaves it as it is.
LEMMA AnswerKeepsEnds ==
    ASSUME IInv, RankInv, NumberInv, UNCHANGED <<vars, configured, routers>>,
           request' # None => /\ request # None /\ request'.asked = request.asked
                              /\ request'.number = request.number
    PROVE  RankInv' /\ NumberInv'
<1>1. UNCHANGED <<cluster, services, step>>
    BY DEF vars
<1>2. RankInv'
    BY <1>1, RankStays
<1>3. IsComplete' = IsComplete
    BY <1>1 DEF IsComplete
<1> QED BY <1>2, <1>3 DEF NumberInv

\* What was served stays served by an end.
LEMMA ServedByEndStays ==
    ASSUME IInv, ServedByItsEnds, UNCHANGED <<cluster, services, trafficSplits>>,
           UNCHANGED request
    PROVE  ServedByItsEnds'
<1> SUFFICES ASSUME IsServed' PROVE ServedByItsEnds'
    BY DEF ServedByItsEnds
<1>1. IsServed /\ step = "configured"
    BY DEF IsServed, IInv, EarlyInv
<1>2. PICK r : r = request /\ r = request'
    OBVIOUS
<1>3. /\ r.service \in EndsOf(r)
      /\ \E i \in DOMAIN Ports(r.service) :
            /\ Ports(r.service)[i].number = r.asked
            /\ ResolvedPort(Ports(r.service)[i], r.answer.server[1]) = r.answer.server[2]
    BY <1>1, <1>2 DEF ServedByItsEnds
<1>4. EndsOf(r)' = EndsOf(r)
    BY <1>1, EndsStay DEF IInv
<1>5. r.service \in EndsOf(r)'
    BY <1>3, <1>4
<1>6. \E i \in DOMAIN Ports(r.service)' :
            /\ Ports(r.service)'[i].number = r.asked
            /\ ResolvedPort(Ports(r.service)[i], r.answer.server[1])' = r.answer.server[2]
    BY <1>3 DEF Ports, ResolvedPort
<1> QED BY <1>2, <1>5, <1>6 DEF ServedByItsEnds

\* The answer of a server.
LEMMA ServeKeepsEnds ==
    ASSUME IInv, OrdinaryCluster, RankInv, NumberInv, ShortRules, Serve
    PROVE  ServedByItsEnds'
<1>1. IsAtProxy
    BY DEF Serve
<1>2. PICK entry \in EntryPoints(request.service, request.number) :
        \E router \in Chosen(request, entry) :
            /\ LetsThrough(router.access, request)
            /\ \E server \in router.target.servers :
                Answer(IF server[1] \in cluster.running THEN ServedBy(server) ELSE Unavailable)
    BY DEF Serve
<1>3. PICK router \in Chosen(request, entry) :
        \E server \in router.target.servers :
            Answer(IF server[1] \in cluster.running THEN ServedBy(server) ELSE Unavailable)
    BY <1>2
<1>4. PICK server \in router.target.servers :
        Answer(IF server[1] \in cluster.running THEN ServedBy(server) ELSE Unavailable)
    BY <1>3
<1>5. CASE server[1] \notin cluster.running
    <2>1. ~ IsServed'
        BY <1>1, <1>4, <1>5 DEF Answer, Unavailable, IsServed, IInv, RequestInv, IsAtProxy
    <2> QED BY <2>1 DEF ServedByItsEnds
<1>6. CASE server[1] \in cluster.running
    <2>1. PICK r, q : r = request' /\ q = request
        OBVIOUS
    <2>2. /\ UNCHANGED <<cluster, services, trafficSplits>> /\ step = "configured"
          /\ r = [q EXCEPT !.answer = ServedBy(server)]
        BY <1>1, <1>4, <1>6, <2>1 DEF Answer, vars, IInv, EarlyInv, IsAtProxy
    <2>3. /\ r.answer.server = server /\ r.service = q.service /\ r.asked = q.asked
          /\ r.root = q.root /\ r.meets = q.meets
        BY <1>1, <2>1, <2>2 DEF IInv, RequestInv, IsAtProxy, ServedBy
    <2>4. /\ q.service \in EndsOf(q)
          /\ \E i \in DOMAIN Ports(q.service) :
                /\ Ports(q.service)[i].number = q.asked
                /\ ResolvedPort(Ports(q.service)[i], server[1]) = server[2]
        BY <1>1, <2>1, ServesAtEnd
    <2>5. EndsOf(r)' = EndsOf(r) /\ EndsOf(r) = EndsOf(q)
        BY <2>2, <2>3, EndsStay, SameEnds DEF IInv
    <2>6. r.service \in EndsOf(r)'
        BY <2>3, <2>4, <2>5
    <2>7. \E i \in DOMAIN Ports(r.service)' :
            /\ Ports(r.service)'[i].number = r.asked
            /\ ResolvedPort(Ports(r.service)[i], r.answer.server[1])' = r.answer.server[2]
        BY <2>2, <2>3, <2>4 DEF Ports, ResolvedPort
    <2> QED BY <2>1, <2>6, <2>7 DEF ServedByItsEnds
<1> QED BY <1>5, <1>6

\* A request that is sent on asks for the same port.
LEMMA ForwardKeepsEnds ==
    ASSUME IInv, RankInv, NumberInv, Forward
    PROVE  RankInv' /\ NumberInv' /\ ~ IsServed'
<1>1. IsAtProxy /\ UNCHANGED <<vars, configured, routers>>
    BY DEF Forward
<1>2. PICK entry \in EntryPoints(request.service, request.number) :
        \E router \in Chosen(request, entry) :
            \E b \in ToSet(router.target.backends) :
                request' = [request EXCEPT !.via = request.remote, !.remote = Proxy,
                                           !.service = b, !.number = router.target.number,
                                           !.passed = @ \cup {request.service}]
    BY DEF Forward
<1>3. PICK router \in Chosen(request, entry) :
            \E b \in ToSet(router.target.backends) :
                request' = [request EXCEPT !.via = request.remote, !.remote = Proxy,
                                           !.service = b, !.number = router.target.number,
                                           !.passed = @ \cup {request.service}]
    BY <1>2
<1>4. PICK b \in ToSet(router.target.backends) :
                request' = [request EXCEPT !.via = request.remote, !.remote = Proxy,
                                           !.service = b, !.number = router.target.number,
                                           !.passed = @ \cup {request.service}]
    BY <1>3
<1>5. /\ request'.number = router.target.number /\ request'.asked = request.asked
      /\ request'.answer = Unanswered
    BY <1>1, <1>4 DEF IInv, RequestInv, IsAtProxy
<1>6. router.target.number = request.number
    <2>1. PICK i \in DOMAIN Ports(request.service) :
            /\ Ports(request.service)[i].number = request.number
            /\ Leads(request.service, i, router)
        BY ChosenPort DEF IInv, BuildInv, TopologyInv, RankInv
    <2>2. router.target.backends # << >>
        BY <1>4 DEF ToSet
    <2> QED BY <2>1, <2>2 DEF Leads
<1>7. request # None
    BY <1>1 DEF IsAtProxy
<1>8. RankInv' /\ NumberInv'
    BY <1>1, <1>5, <1>6, <1>7, AnswerKeepsEnds
<1> QED BY <1>5, <1>8 DEF IsServed, Unanswered

\* The first state.
LEMMA EndsStart == RoutingInit => EndsInv
<1> SUFFICES ASSUME RoutingInit PROVE EndsInv
    OBVIOUS
<1>1. configured = {} /\ routers = << >> /\ request = None
    BY DEF RoutingInit
<1>2. RankInv
    BY <1>1 DEF RankInv, RoutersAreRanked, AllKeyed, SplitsHaveRouters
<1> QED BY <1>1, <1>2 DEF EndsInv, NumberInv, ServedByItsEnds, IsServed

\* Every step keeps what is said of the ends of the ways.
LEMMA EndsKeep == IInv /\ EndsInv /\ [RoutingNext]_routingVars => EndsInv'
<1> SUFFICES ASSUME IInv, EndsInv, [RoutingNext]_routingVars PROVE EndsInv'
    OBVIOUS
<1>1. UNCHANGED cluster
    BY DEF RoutingNext, BuildTopology, Next, EvaluateServices, EvaluateTrafficSplit,
           EvaluateTrafficTargets, PopulateIncoming, BuildConfig, SendRequest, FindNoEntryPoint,
           FindNoRouter, Refuse, FindNoServer, Serve, Forward, Answer, vars, routingVars
<1>2. OrdinaryCluster' = OrdinaryCluster
    BY <1>1, OrdinaryStays
<1>3. CASE BuildTopology
    <2>1. /\ step # "configured" /\ UNCHANGED <<configured, routers, request>>
          /\ routers = << >> /\ request = None /\ configured = {}
        BY <1>3 DEF BuildTopology, Next, EvaluateServices, EvaluateTrafficSplit,
           EvaluateTrafficTargets, PopulateIncoming, IInv, EarlyInv, EndsInv
    <2>2. RankInv'
        BY <2>1 DEF RankInv, RoutersAreRanked, AllKeyed, SplitsHaveRouters
    <2> QED BY <2>1, <2>2 DEF EndsInv, NumberInv, ServedByItsEnds, IsServed
<1>4. CASE BuildConfig
    <2>1. step' = "configured" /\ UNCHANGED request /\ ~ IsComplete
        BY <1>4 DEF BuildConfig, IsComplete
    <2>2. ASSUME OrdinaryCluster
          PROVE  RankInv' /\ request = None
        BY <1>4, <2>1, <2>2, BuildConfigRanks DEF EndsInv, IInv, NumberInv
    <2> QED BY <1>2, <2>1, <2>2 DEF EndsInv, NumberInv, ServedByItsEnds, IsServed
<1>5. CASE SendRequest
    <2>1. /\ step = "configured" /\ IsComplete /\ UNCHANGED <<vars, configured, routers>>
          /\ UNCHANGED <<services, step>> /\ UNCHANGED <<cluster, services, routers, configured>>
        BY <1>5 DEF SendRequest, IsComplete, vars
    <2>2. IsComplete' /\ request'.number = request'.asked /\ ~ IsServed'
        BY <1>5, <2>1 DEF SendRequest, IsComplete, IsServed, Unanswered
    <2>3. RankInv => RankInv'
        BY <2>1, RankStays
    <2> QED BY <1>2, <2>1, <2>2, <2>3 DEF EndsInv, NumberInv, ServedByItsEnds
<1>6. CASE FindNoEntryPoint \/ FindNoRouter \/ Refuse \/ FindNoServer \/ Serve
    <2>1. /\ IsAtProxy /\ UNCHANGED <<vars, configured, routers>> /\ UNCHANGED <<step, routers>>
          /\ \E answer : request' = [request EXCEPT !.answer = answer]
                         /\ (Serve \/ answer.kind # "served")
        <3>1. CASE FindNoEntryPoint \/ FindNoRouter \/ Refuse \/ FindNoServer
            <4>1. IsAtProxy /\ (Answer(Unavailable) \/ Answer(Refused))
                BY <3>1 DEF FindNoEntryPoint, FindNoRouter, Refuse, FindNoServer
            <4>2. Unavailable.kind # "served" /\ Refused.kind # "served"
                BY DEF Unavailable, Refused
            <4> QED BY <4>1, <4>2 DEF Answer, vars
        <3>2. CASE Serve
            <4>1. IsAtProxy /\ \E answer : Answer(answer)
                BY <3>2 DEF Serve
            <4> QED BY <3>2, <4>1 DEF Answer, vars
        <3> QED BY <1>6, <3>1, <3>2
    <2>2. /\ request # None /\ request'.asked = request.asked /\ request'.number = request.number
          /\ Serve \/ ~ IsServed'
          /\ step = "configured"
        BY <2>1 DEF IInv, RequestInv, IsAtProxy, IsServed, EarlyInv
    <2>3. ASSUME OrdinaryCluster
          PROVE  RankInv' /\ NumberInv' /\ (ShortRules' => ServedByItsEnds')
        <3>1. RankInv' /\ NumberInv'
            BY <2>1, <2>2, <2>3, AnswerKeepsEnds DEF EndsInv
        <3>2. CASE Serve
            <4>1. ShortRules' => ShortRules
                BY <2>1 DEF ShortRules
            <4> QED BY <2>3, <3>1, <3>2, <4>1, ServeKeepsEnds DEF EndsInv
        <3>3. CASE ~ Serve
            BY <2>2, <3>1, <3>3 DEF ServedByItsEnds
        <3> QED BY <3>2, <3>3
    <2>4. step = "configured" /\ UNCHANGED step
        BY <2>1, <2>2 DEF IInv, EarlyInv
    <2> QED BY <1>2, <2>3, <2>4 DEF EndsInv
<1>7. CASE Forward
    <2>1. step = "configured" /\ UNCHANGED step
        BY <1>7 DEF Forward, vars, IsAtProxy, IInv, EarlyInv
    <2>2. ASSUME OrdinaryCluster
          PROVE  RankInv' /\ NumberInv' /\ ServedByItsEnds'
        BY <1>7, <2>2, ForwardKeepsEnds DEF EndsInv, ServedByItsEnds
    <2> QED BY <1>2, <2>1, <2>2 DEF EndsInv
<1>8. CASE UNCHANGED routingVars
    <2>1. /\ UNCHANGED <<vars, configured, routers>> /\ UNCHANGED <<step, configured, routers, request>>
          /\ UNCHANGED <<cluster, services, trafficSplits>> /\ UNCHANGED request
        BY <1>8 DEF routingVars, vars
    <2>2. ASSUME OrdinaryCluster, ShortRules'
          PROVE  ServedByItsEnds'
        <3>1. ShortRules
            BY <2>1, <2>2 DEF ShortRules
        <3> QED BY <2>1, <2>2, <3>1, ServedByEndStays DEF EndsInv
    <2>3. ASSUME RankInv, NumberInv
          PROVE  RankInv' /\ NumberInv'
        BY <2>1, <2>3, AnswerKeepsEnds
    <2> QED BY <1>2, <2>1, <2>2, <2>3 DEF EndsInv
<1> QED BY <1>3, <1>4, <1>5, <1>6, <1>7, <1>8 DEF RoutingNext

\* A request is served by a pod of a service at the end of its ways, on the port that was
\* asked for, unless the cluster has something the code does not claim to handle or the
\* length of a rule reaches the next class of priorities: "we should always prioritize the
\* TrafficSplit" (provider.go) is kept by priorities for HTTP and by equal keys for the rest.
THEOREM SplitsAreNotBypassed ==
    RoutingSpec => [](OrdinaryCluster /\ ShortRules => ServedByItsEnds)
<1>1. IInv /\ EndsInv => (OrdinaryCluster /\ ShortRules => ServedByItsEnds)
    BY DEF EndsInv
<1> QED BY InitHolds, StepKeeps, EndsStart, EndsKeep, <1>1, PTL DEF RoutingSpec
================================================================================

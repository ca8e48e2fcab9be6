----------------------------- MODULE Serving_proofs -----------------------------
(***************************************************************************)
(* A request that is allowed at every end of its ways is served, whatever   *)
(* order the maps are ranged over in, whichever way splits send it and      *)
(* whoever wins between routers of the same rank: AllowedIsServed.          *)
(*                                                                          *)
(* This is the other half of the other properties of requests.  They say    *)
(* that a router that serves was made for a good reason; here every router  *)
(* that may be chosen has to let the request through and lead on.  So the   *)
(* argument needs all routers of the configuration (IsListed), the keys     *)
(* that must be there (HasKeys) because no other service, target or split   *)
(* takes them, and the ranks.  Of the entry point of a port the router of a *)
(* split for the request is chosen if there is one, otherwise that of the   *)
(* target that allows it, otherwise that of the service.                    *)
(*                                                                          *)
(* A split lets through whom all its backends allow, and the routers of a   *)
(* backend for forwarded requests look at the address that the first proxy  *)
(* adds (WayInv).  The code does not serve every cluster in this way:       *)
(* PlainTopology names where it fails, next to OrdinaryCluster and          *)
(* ShortRules.                                                              *)
(***************************************************************************)
EXTENDS RoutingConfig_proofs


--------------------------------------------------------------------------------
(* The routers of a configuration and what each was made from.              *)

\* An HTTP router for requests to a service at the entry point of its i-th port.
IsAtPort(s, i, router) ==
    /\ i <= HTTPEntryPoints
    /\ router.entry = <<"http", i>> /\ router.rule.services = {s}

\* The HTTP router of a port of a service; in ACL mode it blocks.
IsOfBaseAt(s, k, router, i) ==
    /\ k = ServiceKey(s, Ports(s)[i]) /\ IsAtPort(s, i, router)
    /\ router.rule.matches = {} /\ ~ router.rule.forwarded
    /\ router.priority \in {1, 1000 + router.rule.operators}
    /\ ~ cluster.acl =>
          /\ router.access = Anybody
          /\ router.target = ToPods(cluster.endpoints[s], Ports(s)[i])

IsOfBase(s, k, router) == \E i \in DOMAIN Ports(s) : IsOfBaseAt(s, k, router, i)

\* The HTTP routers of a traffic target.
IsOfTargetAt(s, k, router, tt, way, i) ==
    /\ cluster.acl
    /\ k = TargetKey(tt, s, DestinationPorts(tt, s)[i], way) /\ IsAtPort(s, i, router)
    /\ router.rule.matches = ToSet(HTTPMatches(cluster.targets[tt].rules)) \ {{}}
    /\ way = "direct" =>
          /\ ~ (IsBackend(s) /\ i > 1) => ~ router.rule.forwarded
          /\ ~ router.access.forwarded
          /\ router.priority = 2000 + router.rule.operators
    /\ way = "indirect" =>
          /\ router.rule.forwarded
          /\ router.access.forwarded
          /\ router.priority = 3000 + router.rule.operators
    /\ router.access.pods = serviceTrafficTargets[<<s, tt>>]
    /\ router.target = ToPods(DestinationPods(tt, s), DestinationPorts(tt, s)[i])

IsOfTarget(s, k, router) ==
    \E tt \in services[s].targets, way \in {"direct", "indirect"} :
        \E i \in DOMAIN DestinationPorts(tt, s) : IsOfTargetAt(s, k, router, tt, way, i)

\* The HTTP routers of a split.
IsOfHTTPSplitAt(s, k, router, ts, way, i) ==
    /\ k = SplitKey(ts, s, Ports(s)[i], way) /\ IsAtPort(s, i, router)
    /\ router.rule.matches = ToSet(HTTPMatches(cluster.splits[ts].rules)) \ {{}}
    /\ way = "direct" =>
          /\ ~ (cluster.acl /\ IsBackend(s) /\ i > 1) => ~ router.rule.forwarded
          /\ router.priority = 4000 + router.rule.operators
    /\ way = "indirect" => router.priority = 3000 + router.rule.operators
    /\ ~ cluster.acl => router.access = Anybody
    /\ cluster.acl =>
          /\ router.access.pods = trafficSplits[ts].incoming
          /\ way = "direct" => ~ router.access.forwarded
          /\ way = "indirect" => router.access.forwarded
    /\ router.target.backends = trafficSplits[ts].backends /\ router.target.servers = {}

IsOfHTTPSplit(s, k, router) ==
    \E ts \in ToSet(services[s].splits), way \in {"direct", "indirect"} :
        \E i \in DOMAIN Ports(s) : IsOfHTTPSplitAt(s, k, router, ts, way, i)

\* A TCP or UDP router at the mesh port of a port: it leads to the pods of the service, to
\* those of a traffic target or to the backends of a split.
IsOfMappedAt(s, k, router, i) ==
    /\ k = ServiceKey(s, Ports(s)[i]) /\ IsMapped(s, Ports(s)[i])
    /\ router.entry = MappedEntryPoint(s, Ports(s)[i])
    /\ router.rule = RuleOfAny /\ router.access = Anybody /\ router.priority = 0
    /\ \/ ~ cluster.acl /\ router.target = ToPods(cluster.endpoints[s], Ports(s)[i])
       \/ /\ cluster.acl
          /\ \E tt \in services[s].targets :
                /\ HasTCPRoute(cluster.targets[tt].rules)
                /\ router.target = ToPods(DestinationPods(tt, s), Ports(s)[i])
       \/ \E ts \in ToSet(services[s].splits) :
                router.target.backends = trafficSplits[ts].backends

IsOfMapped(s, k, router) == \E i \in DOMAIN Ports(s) : IsOfMappedAt(s, k, router, i)

IsListed(s, k, router) ==
    IF cluster.type[s] = "http"
    THEN IsOfBase(s, k, router) \/ IsOfTarget(s, k, router) \/ IsOfHTTPSplit(s, k, router)
    ELSE IsOfMapped(s, k, router)

AllListed(s, map) == \A k \in DOMAIN map : IsListed(s, k, map[k])

\* Maps of such routers, and what a loop makes of them.
LEMMA MergedListed ==
    ASSUME NEW s, NEW writes, \A i \in DOMAIN writes : AllListed(s, writes[i])
    PROVE  AllListed(s, Merged(writes))
<1> SUFFICES ASSUME NEW k \in DOMAIN Merged(writes) PROVE IsListed(s, k, Merged(writes)[k])
    BY DEF AllListed
<1>1. PICK i \in DOMAIN writes : k \in DOMAIN writes[i] /\ Merged(writes)[k] = writes[i][k]
    BY MergedValue
<1> QED BY <1>1 DEF AllListed

\* One router.
LEMMA OneListed ==
    ASSUME NEW s, NEW key, NEW router, IsListed(s, key, router)
    PROVE  AllListed(s, Write(key, router))
BY DEF AllListed, Write

\* No routers.
LEMMA NothingListed == ASSUME NEW s PROVE AllListed(s, << >>)
BY DEF AllListed

\* The routers of two calls together.
LEMMA BothListed ==
    ASSUME NEW s, NEW map1, NEW map2, AllListed(s, map1), AllListed(s, map2)
    PROVE  AllListed(s, Merged(<<map1, map2>>))
<1> DEFINE both == <<map1, map2>>
<1>1. \A i \in DOMAIN both : AllListed(s, both[i])
    OBVIOUS
<1> HIDE DEF both
<1>2. AllListed(s, Merged(both))
    BY <1>1, MergedListed
<1> QED BY <1>2 DEF both

\* The keys of two maps together, and of three.
LEMMA MergedOfTwo ==
    ASSUME NEW map1, NEW map2, NEW k
    PROVE  k \in DOMAIN Merged(<<map1, map2>>) <=> k \in DOMAIN map1 \/ k \in DOMAIN map2
<1> DEFINE both == <<map1, map2>>
<1>1. PICK n \in Nat : n = 2
    OBVIOUS
<1>2. DOMAIN both = 1 .. n /\ 1 .. n = {1, 2} /\ both[1] = map1 /\ both[2] = map2
    BY <1>1
<1> HIDE DEF both
<1>3. k \in DOMAIN Merged(both) <=> \E i \in 1 .. n : k \in DOMAIN both[i]
    BY <1>2, MergedKeys
<1> QED BY <1>2, <1>3 DEF both

LEMMA MergedOfThree ==
    ASSUME NEW map1, NEW map2, NEW map3, NEW k
    PROVE  k \in DOMAIN Merged(<<map1, map2, map3>>)
              <=> k \in DOMAIN map1 \/ k \in DOMAIN map2 \/ k \in DOMAIN map3
<1> DEFINE all == <<map1, map2, map3>>
<1>1. PICK n \in Nat : n = 3
    OBVIOUS
<1>2. /\ DOMAIN all = 1 .. n /\ 1 .. n = {1, 2, 3}
      /\ all[1] = map1 /\ all[2] = map2 /\ all[3] = map3
    BY <1>1
<1> HIDE DEF all
<1>3. k \in DOMAIN Merged(all) <=> \E i \in 1 .. n : k \in DOMAIN all[i]
    BY <1>2, MergedKeys
<1> QED BY <1>2, <1>3 DEF all

\* Without specs there are no matches.
LEMMA NoSpecsNoMatches == HTTPMatches(<< >>) = << >>
<1> DEFINE none == [i \in DOMAIN << >> |-> SelectedMatches(<< >>[i])]
<1>1. none = << >>
    OBVIOUS
<1> HIDE DEF none
<1>2. FlattenSeq(none) = << >>
    BY <1>1 DEF FlattenSeq
<1> QED BY <1>2 DEF HTTPMatches, none

\* The routers that block everything.
LEMMA BlockAllListed ==
    ASSUME ClusterInv, NEW s \in Known, cluster.type[s] = "http", cluster.acl
    PROVE  AllListed(s, BlockAllRouters(s))
<1> DEFINE rule == RuleOf(s, << >>, FALSE)
           router(i) == Router(<<"http", i>>, rule, Nobody, PriorityService, ToPods({}, Ports(s)[i]))
           key(i) == ServiceKey(s, Ports(s)[i])
           write(i) == IF i > HTTPEntryPoints THEN << >> ELSE Write(key(i), router(i))
<1>0. rule.services = {s} /\ rule.matches = {} /\ rule.forwarded = FALSE
    <2>1. HTTPMatches(<< >>) = << >>
        BY NoSpecsNoMatches
    <2>2. rule.services = {s} /\ rule.matches = ToSet(HTTPMatches(<< >>)) \ {{}} /\ rule.forwarded = FALSE
        BY DEF RuleOf
    <2> HIDE DEF rule
    <2> QED BY <2>1, <2>2 DEF ToSet
<1> HIDE DEF rule
<1>1. ASSUME NEW i \in DOMAIN Ports(s) PROVE AllListed(s, write(i))
    <2>0. i \in Nat /\ HTTPEntryPoints \in Nat
        BY ClusterAssumption, RoutingAssumption DEF ClusterInv, Known, Ports
    <2>1. /\ router(i).entry = <<"http", i>> /\ router(i).rule = rule /\ router(i).priority = 1
        BY DEF Router, PriorityService
    <2> HIDE DEF router
    <2>2. CASE i > HTTPEntryPoints
        BY <2>2, NothingListed
    <2>3. CASE i <= HTTPEntryPoints
        <3>1. IsOfBase(s, key(i), router(i))
            BY <1>0, <2>1, <2>3 DEF IsOfBase, IsOfBaseAt, IsAtPort
        <3> QED BY <2>0, <2>3, <3>1, OneListed DEF IsListed
    <2> QED BY <2>0, <2>2, <2>3
<1>2. AllListed(s, Merged([i \in DOMAIN Ports(s) |-> write(i)]))
    <2> HIDE DEF write
    <2> QED BY <1>1, MergedListed
<1> QED BY <1>2 DEF BlockAllRouters, rule

\* The routers of an HTTP service without ACL, one for every port with an entry point.
LEMMA HTTPServicesListed ==
    ASSUME ClusterInv, NEW s \in Known, cluster.type[s] = "http", ~ cluster.acl
    PROVE  /\ AllListed(s, HTTPServiceRouters(s))
           /\ \A i \in DOMAIN Ports(s) : i <= HTTPEntryPoints =>
                 ServiceKey(s, Ports(s)[i]) \in DOMAIN HTTPServiceRouters(s)
<1> DEFINE rule == RuleOf(s, << >>, FALSE)
           pods(i) == ToPods(cluster.endpoints[s], Ports(s)[i])
           router(i) == HTTPRouter(i, rule, Anybody, PriorityService, pods(i))
           key(i) == ServiceKey(s, Ports(s)[i])
           write(i) == IF i > HTTPEntryPoints THEN << >> ELSE Write(key(i), router(i))
           writes == [i \in DOMAIN Ports(s) |-> write(i)]
<1>0. rule.services = {s} /\ rule.matches = {} /\ rule.forwarded = FALSE
    <2>1. rule.services = {s} /\ rule.matches = ToSet(HTTPMatches(<< >>)) \ {{}} /\ rule.forwarded = FALSE
        BY DEF RuleOf
    <2> HIDE DEF rule
    <2> QED BY <2>1, NoSpecsNoMatches DEF ToSet
<1>1. PICK n \in Nat : DOMAIN Ports(s) = 1 .. n
    BY ClusterAssumption DEF ClusterInv, Known, Ports
<1>2. HTTPEntryPoints \in Nat
    BY RoutingAssumption
<1>3. HTTPServiceRouters(s) = Merged(writes)
    BY DEF HTTPServiceRouters
<1> HIDE DEF rule
<1>4. ASSUME NEW i \in DOMAIN Ports(s), i <= HTTPEntryPoints
      PROVE  IsListed(s, key(i), router(i))
    <2>1. /\ router(i).entry = <<"http", i>> /\ router(i).rule = rule
          /\ router(i).priority = 1000 + rule.operators
          /\ router(i).access = Anybody /\ router(i).target = pods(i)
        BY DEF HTTPRouter, Router, RulePriority, PriorityService
    <2> HIDE DEF router
    <2>2. IsOfBase(s, key(i), router(i))
        BY <1>0, <1>4, <2>1 DEF IsOfBase, IsOfBaseAt, IsAtPort
    <2> QED BY <2>2 DEF IsListed
<1>5. ASSUME NEW i \in DOMAIN Ports(s)
      PROVE  AllListed(s, write(i)) /\ (i <= HTTPEntryPoints => key(i) \in DOMAIN write(i))
    <2>1. AllListed(s, << >>) /\ i \in Nat
        BY <1>1, NothingListed
    <2>2. i <= HTTPEntryPoints => AllListed(s, Write(key(i), router(i)))
        <3> HIDE DEF router, key
        <3> QED BY <1>4, OneListed
    <2>3. key(i) \in DOMAIN Write(key(i), router(i))
        BY DEF Write
    <2> HIDE DEF router, key
    <2> QED BY <1>2, <2>1, <2>2, <2>3
<1>6. AllListed(s, Merged(writes))
    <2> HIDE DEF write
    <2> QED BY <1>5, MergedListed
<1>7. ASSUME NEW i \in DOMAIN Ports(s), i <= HTTPEntryPoints
      PROVE  key(i) \in DOMAIN Merged(writes)
    <2>1. DOMAIN writes = 1 .. n /\ key(i) \in DOMAIN writes[i]
        BY <1>1, <1>5, <1>7
    <2> HIDE DEF writes, key
    <2> QED BY <1>1, <2>1, MergedKeys
<1> QED BY <1>3, <1>6, <1>7

\* A TCP or UDP router of a port with a mesh port.
LEMMA MappedListed ==
    ASSUME NEW s \in Known, cluster.type[s] # "http", NEW i \in DOMAIN Ports(s),
           IsMapped(s, Ports(s)[i]), NEW target,
           \/ ~ cluster.acl /\ target = ToPods(cluster.endpoints[s], Ports(s)[i])
           \/ /\ cluster.acl
              /\ \E tt \in services[s].targets :
                    /\ HasTCPRoute(cluster.targets[tt].rules)
                    /\ target = ToPods(DestinationPods(tt, s), Ports(s)[i])
           \/ \E ts \in ToSet(services[s].splits) : target.backends = trafficSplits[ts].backends
    PROVE  /\ IsListed(s, ServiceKey(s, Ports(s)[i]), MappedRouter(s, Ports(s)[i], target))
           /\ MappedRouter(s, Ports(s)[i], target).target = target
<1> DEFINE router == MappedRouter(s, Ports(s)[i], target)
<1>1. /\ router.entry = MappedEntryPoint(s, Ports(s)[i]) /\ router.rule = RuleOfAny
      /\ router.access = Anybody /\ router.priority = 0 /\ router.target = target
    BY DEF MappedRouter, Router
<1> HIDE DEF router
<1>2. IsOfMapped(s, ServiceKey(s, Ports(s)[i]), router)
    BY <1>1 DEF IsOfMapped, IsOfMappedAt
<1>3. IsListed(s, ServiceKey(s, Ports(s)[i]), router)
    BY <1>2 DEF IsListed
<1> QED BY <1>1, <1>3 DEF router

\* The TCP or UDP routers of a service without ACL, one for every mesh port.
LEMMA MappedServicesListed ==
    ASSUME ClusterInv, NEW s \in Known, cluster.type[s] # "http", ~ cluster.acl
    PROVE  /\ AllListed(s, MappedServiceRouters(s))
           /\ \A i \in DOMAIN Ports(s) : IsMapped(s, Ports(s)[i]) =>
                 ServiceKey(s, Ports(s)[i]) \in DOMAIN MappedServiceRouters(s)
<1> DEFINE router(i) == MappedRouter(s, Ports(s)[i], ToPods(cluster.endpoints[s], Ports(s)[i]))
           key(i) == ServiceKey(s, Ports(s)[i])
           write(i) == IF ~ IsMapped(s, Ports(s)[i]) THEN << >> ELSE Write(key(i), router(i))
           writes == [i \in DOMAIN Ports(s) |-> write(i)]
<1>1. PICK n \in Nat : DOMAIN Ports(s) = 1 .. n
    BY ClusterAssumption DEF ClusterInv, Known, Ports
<1>2. MappedServiceRouters(s) = Merged(writes)
    BY DEF MappedServiceRouters
<1>3. ASSUME NEW i \in DOMAIN Ports(s)
      PROVE  AllListed(s, write(i)) /\ (IsMapped(s, Ports(s)[i]) => key(i) \in DOMAIN write(i))
    <2>1. IsMapped(s, Ports(s)[i]) => IsListed(s, key(i), router(i))
        BY MappedListed
    <2>2. key(i) \in DOMAIN Write(key(i), router(i))
        BY DEF Write
    <2> HIDE DEF router, key
    <2> QED BY <2>1, <2>2, OneListed, NothingListed
<1>4. AllListed(s, Merged(writes))
    <2> HIDE DEF write
    <2> QED BY <1>3, MergedListed
<1>5. ASSUME NEW i \in DOMAIN Ports(s), IsMapped(s, Ports(s)[i])
      PROVE  key(i) \in DOMAIN Merged(writes)
    <2>1. DOMAIN writes = 1 .. n /\ key(i) \in DOMAIN writes[i]
        BY <1>1, <1>3, <1>5
    <2> HIDE DEF writes, key
    <2> QED BY <1>1, <2>1, MergedKeys
<1> QED BY <1>2, <1>4, <1>5

\* The ports of a traffic target are a sequence, and some of its service.
LEMMA DestinationPortsAre ==
    ASSUME ClusterInv, NEW s \in Known, NEW tt
    PROVE  \E n \in Nat : DOMAIN DestinationPorts(tt, s) = 1 .. n
<1> DEFINE port == cluster.targets[tt].port
           ports == cluster.ports[s]
           first == {i \in DOMAIN ports : /\ ports[i].target = port
                                          /\ \A k \in 1 .. i - 1 : ports[k].target # port}
           S == {ports[i] : i \in first}
<1>1. ports \in Seq(PortType)
    BY ClusterAssumption DEF ClusterInv, Known
<1>2. CASE port = AnyPort
    BY <1>1, <1>2 DEF DestinationPorts
<1>3. CASE port # AnyPort
    <2>1. \A i, k \in first : i = k
        <3>1. \A i, k \in first : ~ (i < k)
            BY <1>1
        <3>2. first \subseteq Nat
            BY <1>1
        <3> HIDE DEF first
        <3> QED BY <3>1, <3>2
    <2>2. \A x, y \in S : x = y
        BY <2>1
    <2>3. DestinationPorts(tt, s) = SetToSeq(S)
        BY <1>3 DEF DestinationPorts
    <2> HIDE DEF S
    <2>4. Cardinality(S) \in Nat
        <3>1. CASE S = {}
            BY <3>1, FS_EmptySet
        <3>2. CASE S # {}
            <4>1. PICK x : S = {x}
                BY <2>2, <3>2
            <4> QED BY <4>1, FS_Singleton
        <3> QED BY <3>1, <3>2
    <2>5. DOMAIN SetToSeq(S) = 1 .. Cardinality(S)
        <3>1. \E f \in [1 .. Cardinality(S) -> S] : IsInjective(f)
            <4>1. CASE S = {}
                <5>1. Cardinality(S) = 0
                    BY <4>1, FS_EmptySet
                <5> DEFINE f == [j \in 1 .. 0 |-> j]
                <5>2. f \in [1 .. Cardinality(S) -> S] /\ IsInjective(f)
                    BY <5>1 DEF IsInjective
                <5> HIDE DEF f
                <5> QED BY <5>2
            <4>2. CASE S # {}
                <5>1. PICK x : S = {x}
                    BY <2>2, <4>2
                <5>2. Cardinality(S) = 1
                    BY <5>1, FS_Singleton
                <5> DEFINE f == [j \in 1 .. 1 |-> x]
                <5>3. f \in [1 .. Cardinality(S) -> S] /\ IsInjective(f)
                    BY <5>1, <5>2 DEF IsInjective
                <5> HIDE DEF f
                <5> QED BY <5>3
            <4> QED BY <4>1, <4>2
        <3> QED BY <3>1 DEF SetToSeq
    <2> QED BY <2>3, <2>4, <2>5
<1> QED BY <1>2, <1>3

\* The routers of a traffic target of an HTTP service, in ACL mode: one for every port with
\* an entry point, and one more for a backend.
LEMMA HTTPTargetsListed ==
    ASSUME ClusterInv, NEW s \in Known, cluster.type[s] = "http", cluster.acl,
           NEW tt \in services[s].targets
    PROVE  /\ AllListed(s, HTTPTargetRouters(tt, s))
           /\ \A i \in DOMAIN DestinationPorts(tt, s) : i <= HTTPEntryPoints =>
                 /\ TargetKey(tt, s, DestinationPorts(tt, s)[i], "direct")
                        \in DOMAIN HTTPTargetRouters(tt, s)
                 /\ IsBackend(s) => TargetKey(tt, s, DestinationPorts(tt, s)[i], "indirect")
                                        \in DOMAIN HTTPTargetRouters(tt, s)
<1> DEFINE ports == DestinationPorts(tt, s)
           rules == cluster.targets[tt].rules
           To(i) == ToPods(DestinationPods(tt, s), ports[i])
           key(i, way) == TargetKey(tt, s, ports[i], way)
           direct(i) == HTTPRouter(i, RuleOf(s, rules, IsBackend(s) /\ i > 1),
                                   ListedSources(tt, s, FALSE), PriorityTrafficTargetDirect, To(i))
           indirect(i) == HTTPRouter(i, RuleOf(s, rules, TRUE),
                                     ListedSources(tt, s, TRUE), PriorityTrafficTargetIndirect, To(i))
           Direct(i) == Write(key(i, "direct"), direct(i))
           Indirect(i) == Write(key(i, "indirect"), indirect(i))
           write(i) == IF i > HTTPEntryPoints THEN << >>
                       ELSE IF IsBackend(s) THEN Merged(<<Direct(i), Indirect(i)>>)
                       ELSE Direct(i)
           writes == [i \in DOMAIN ports |-> write(i)]
<1>0. "direct" # "indirect"
    OBVIOUS
<1>1. PICK n \in Nat : DOMAIN ports = 1 .. n
    BY DestinationPortsAre
<1>2. HTTPEntryPoints \in Nat
    BY RoutingAssumption
<1>3. HTTPTargetRouters(tt, s) = Merged(writes)
    BY DEF HTTPTargetRouters
<1>4. ASSUME NEW i \in DOMAIN ports, i <= HTTPEntryPoints
      PROVE  IsListed(s, key(i, "direct"), direct(i))
    <2> DEFINE rule == RuleOf(s, rules, IsBackend(s) /\ i > 1)
    <2>1. /\ rule.services = {s} /\ rule.matches = ToSet(HTTPMatches(rules)) \ {{}}
          /\ ~ (IsBackend(s) /\ i > 1) => ~ rule.forwarded
        BY DEF RuleOf
    <2>2. direct(i) = HTTPRouter(i, rule, ListedSources(tt, s, FALSE),
                                 PriorityTrafficTargetDirect, To(i))
        OBVIOUS
    <2> HIDE DEF rule, direct
    <2>3. /\ direct(i).entry = <<"http", i>> /\ direct(i).rule = rule
          /\ direct(i).priority = 2000 + rule.operators
          /\ direct(i).access.pods = serviceTrafficTargets[<<s, tt>>]
          /\ ~ direct(i).access.forwarded
          /\ direct(i).target = To(i)
        BY <2>2 DEF HTTPRouter, Router, RulePriority, PriorityTrafficTargetDirect,
                       ListedSources, Whitelist
    <2>4. /\ IsAtPort(s, i, direct(i)) /\ direct(i).rule.matches = ToSet(HTTPMatches(rules)) \ {{}}
          /\ ~ (IsBackend(s) /\ i > 1) => ~ direct(i).rule.forwarded
          /\ direct(i).priority = 2000 + direct(i).rule.operators
          /\ direct(i).access.pods = serviceTrafficTargets[<<s, tt>>]
          /\ ~ direct(i).access.forwarded
        BY <1>4, <2>1, <2>3 DEF IsAtPort
    <2>5. IsOfTargetAt(s, key(i, "direct"), direct(i), tt, "direct", i)
        BY <1>0, <2>3, <2>4 DEF IsOfTargetAt
    <2>6. IsOfTarget(s, key(i, "direct"), direct(i))
        BY <2>5 DEF IsOfTarget
    <2> QED BY <2>6 DEF IsListed
<1>5. ASSUME NEW i \in DOMAIN ports, i <= HTTPEntryPoints
      PROVE  IsListed(s, key(i, "indirect"), indirect(i))
    <2> DEFINE rule == RuleOf(s, rules, TRUE)
    <2>1. /\ rule.services = {s} /\ rule.matches = ToSet(HTTPMatches(rules)) \ {{}}
          /\ rule.forwarded
        BY DEF RuleOf
    <2>2. indirect(i) = HTTPRouter(i, rule, ListedSources(tt, s, TRUE),
                                   PriorityTrafficTargetIndirect, To(i))
        OBVIOUS
    <2> HIDE DEF rule, indirect
    <2>3. /\ indirect(i).entry = <<"http", i>> /\ indirect(i).rule = rule
          /\ indirect(i).priority = 3000 + rule.operators
          /\ indirect(i).access.pods = serviceTrafficTargets[<<s, tt>>]
          /\ indirect(i).access.forwarded
          /\ indirect(i).target = To(i)
        BY <2>2 DEF HTTPRouter, Router, RulePriority, PriorityTrafficTargetIndirect,
                       ListedSources, Whitelist
    <2>4. /\ IsAtPort(s, i, indirect(i))
          /\ indirect(i).rule.matches = ToSet(HTTPMatches(rules)) \ {{}}
          /\ indirect(i).rule.forwarded
          /\ indirect(i).priority = 3000 + indirect(i).rule.operators
          /\ indirect(i).access.pods = serviceTrafficTargets[<<s, tt>>]
          /\ indirect(i).access.forwarded
        BY <1>5, <2>1, <2>3 DEF IsAtPort
    <2>5. IsOfTargetAt(s, key(i, "indirect"), indirect(i), tt, "indirect", i)
        BY <1>0, <2>3, <2>4 DEF IsOfTargetAt
    <2>6. IsOfTarget(s, key(i, "indirect"), indirect(i))
        BY <2>5 DEF IsOfTarget
    <2> QED BY <2>6 DEF IsListed
<1>6. ASSUME NEW i \in DOMAIN ports
      PROVE  /\ AllListed(s, write(i))
             /\ i <= HTTPEntryPoints => /\ key(i, "direct") \in DOMAIN write(i)
                                        /\ IsBackend(s) => key(i, "indirect") \in DOMAIN write(i)
    <2>1. key(i, "direct") \in DOMAIN Direct(i) /\ key(i, "indirect") \in DOMAIN Indirect(i)
        BY DEF Write
    <2>2. i <= HTTPEntryPoints => AllListed(s, Direct(i)) /\ AllListed(s, Indirect(i))
        <3> HIDE DEF direct, indirect, key, ports
        <3> QED BY <1>4, <1>5, OneListed
    <2> HIDE DEF Direct, Indirect, key
    <2>3. i <= HTTPEntryPoints => AllListed(s, Merged(<<Direct(i), Indirect(i)>>))
        BY <2>2, BothListed
    <2>4. /\ key(i, "direct") \in DOMAIN Merged(<<Direct(i), Indirect(i)>>)
          /\ key(i, "indirect") \in DOMAIN Merged(<<Direct(i), Indirect(i)>>)
        BY <2>1, MergedOfTwo
    <2>5. AllListed(s, << >>) /\ i \in Nat
        BY <1>1, NothingListed
    <2> QED BY <1>2, <2>1, <2>2, <2>3, <2>4, <2>5
<1>7. AllListed(s, Merged(writes))
    <2> HIDE DEF write
    <2> QED BY <1>6, MergedListed
<1>8. ASSUME NEW i \in DOMAIN ports, i <= HTTPEntryPoints
      PROVE  /\ key(i, "direct") \in DOMAIN Merged(writes)
             /\ IsBackend(s) => key(i, "indirect") \in DOMAIN Merged(writes)
    <2>1. DOMAIN writes = 1 .. n /\ writes[i] = write(i)
        BY <1>1
    <2> HIDE DEF writes, key, write
    <2> QED BY <1>1, <1>6, <1>8, <2>1, MergedKeys
<1> QED BY <1>3, <1>7, <1>8

\* The routers of a traffic target of a TCP service, in ACL mode: one for every mesh port,
\* if the target has a TCPRoute.
LEMMA TCPTargetsListed ==
    ASSUME ClusterInv, NEW s \in Known, cluster.type[s] # "http", cluster.acl,
           NEW tt \in services[s].targets
    PROVE  /\ AllListed(s, TCPTargetRouters(tt, s))
           /\ \A j \in DOMAIN DestinationPorts(tt, s) :
                 /\ HasTCPRoute(cluster.targets[tt].rules)
                 /\ IsMapped(s, DestinationPorts(tt, s)[j])
                 => ServiceKey(s, DestinationPorts(tt, s)[j]) \in DOMAIN TCPTargetRouters(tt, s)
<1> DEFINE ports == DestinationPorts(tt, s)
           route == HasTCPRoute(cluster.targets[tt].rules)
           router(j) == MappedRouter(s, ports[j], ToPods(DestinationPods(tt, s), ports[j]))
           key(j) == ServiceKey(s, ports[j])
           write(j) == IF ~ route \/ ~ IsMapped(s, ports[j]) THEN << >> ELSE Write(key(j), router(j))
           writes == [j \in DOMAIN ports |-> write(j)]
<1>1. PICK n \in Nat : DOMAIN ports = 1 .. n
    BY DestinationPortsAre
<1>2. TCPTargetRouters(tt, s) = Merged(writes)
    BY DEF TCPTargetRouters
<1>3. ASSUME NEW j \in DOMAIN ports, route, IsMapped(s, ports[j])
      PROVE  IsListed(s, key(j), router(j))
    <2>1. PICK i \in DOMAIN Ports(s) : ports[j] = Ports(s)[i]
        BY DestinationPortIsPort
    <2> DEFINE target == ToPods(DestinationPods(tt, s), Ports(s)[i])
    <2>2. IsMapped(s, Ports(s)[i])
        BY <1>3, <2>1
    <2>3. \E t \in services[s].targets :
                /\ HasTCPRoute(cluster.targets[t].rules)
                /\ target = ToPods(DestinationPods(t, s), Ports(s)[i])
        BY <1>3
    <2> HIDE DEF target
    <2>4. IsListed(s, ServiceKey(s, Ports(s)[i]), MappedRouter(s, Ports(s)[i], target))
        BY <2>2, <2>3, MappedListed
    <2> QED BY <2>1, <2>4 DEF target
<1>4. ASSUME NEW j \in DOMAIN ports
      PROVE  AllListed(s, write(j)) /\ (route /\ IsMapped(s, ports[j]) => key(j) \in DOMAIN write(j))
    <2>1. key(j) \in DOMAIN Write(key(j), router(j))
        BY DEF Write
    <2> HIDE DEF router, key, ports, route
    <2> QED BY <1>3, <2>1, OneListed, NothingListed
<1>5. AllListed(s, Merged(writes))
    <2> HIDE DEF write
    <2> QED BY <1>4, MergedListed
<1>6. ASSUME NEW j \in DOMAIN ports, route, IsMapped(s, ports[j])
      PROVE  key(j) \in DOMAIN Merged(writes)
    <2>1. DOMAIN writes = 1 .. n /\ key(j) \in DOMAIN writes[j]
        BY <1>1, <1>4, <1>6
    <2> HIDE DEF writes, key
    <2> QED BY <1>1, <2>1, MergedKeys
<1> QED BY <1>2, <1>5, <1>6

\* The routers of a split of an HTTP service.
LEMMA HTTPSplitsListed ==
    ASSUME ClusterInv, NEW s \in Known, cluster.type[s] = "http", NEW ts \in ToSet(services[s].splits)
    PROVE  AllListed(s, HTTPSplitRouters(ts, s))
<1> DEFINE rules == cluster.splits[ts].rules
           To(i) == ToBackends(trafficSplits[ts].backends, Ports(s)[i].number)
           both == cluster.acl /\ IsBackend(s)
           Listed(forwarded) ==
               IF cluster.acl THEN Whitelist(trafficSplits[ts].incoming, forwarded) ELSE Anybody
           key(i, way) == SplitKey(ts, s, Ports(s)[i], way)
           direct(i) == HTTPRouter(i, RuleOf(s, rules, both /\ i > 1), Listed(FALSE),
                                   SplitPriority, To(i))
           indirect(i) == HTTPRouter(i, RuleOf(s, rules, TRUE), Listed(TRUE),
                                     PriorityTrafficTargetIndirect, To(i))
           Direct(i) == Write(key(i, "direct"), direct(i))
           Indirect(i) == Write(key(i, "indirect"), indirect(i))
           write(i) == IF i > HTTPEntryPoints THEN << >>
                       ELSE IF both THEN Merged(<<Direct(i), Indirect(i)>>)
                       ELSE Direct(i)
<1>0. "direct" # "indirect"
    OBVIOUS
<1>1. /\ ~ cluster.acl => Listed(FALSE) = Anybody /\ Listed(TRUE) = Anybody
      /\ cluster.acl => /\ Listed(FALSE).pods = trafficSplits[ts].incoming
                        /\ Listed(TRUE).pods = trafficSplits[ts].incoming
                        /\ ~ Listed(FALSE).forwarded /\ Listed(TRUE).forwarded
    BY DEF Whitelist
<1>2. ASSUME NEW i \in DOMAIN Ports(s), i <= HTTPEntryPoints
      PROVE  IsListed(s, key(i, "direct"), direct(i))
    <2> DEFINE rule == RuleOf(s, rules, both /\ i > 1)
               access == Listed(FALSE)
    <2>1. /\ rule.services = {s} /\ rule.matches = ToSet(HTTPMatches(rules)) \ {{}}
          /\ ~ (both /\ i > 1) => ~ rule.forwarded
        BY DEF RuleOf
    <2>2. direct(i) = HTTPRouter(i, rule, access, SplitPriority, To(i))
        OBVIOUS
    <2>3. /\ ~ cluster.acl => access = Anybody
          /\ cluster.acl => access.pods = trafficSplits[ts].incoming /\ ~ access.forwarded
        BY <1>1
    <2> HIDE DEF rule, direct, access
    <2>4. /\ direct(i).entry = <<"http", i>> /\ direct(i).rule = rule
          /\ direct(i).priority = 4000 + rule.operators
          /\ direct(i).access = access
          /\ direct(i).target = To(i)
        BY <2>2 DEF HTTPRouter, Router, RulePriority, SplitPriority, PriorityTrafficSplit
    <2>5. /\ IsAtPort(s, i, direct(i)) /\ direct(i).rule.matches = ToSet(HTTPMatches(rules)) \ {{}}
          /\ ~ (both /\ i > 1) => ~ direct(i).rule.forwarded
          /\ direct(i).priority = 4000 + direct(i).rule.operators
          /\ ~ cluster.acl => direct(i).access = Anybody
          /\ cluster.acl => /\ direct(i).access.pods = trafficSplits[ts].incoming
                            /\ ~ direct(i).access.forwarded
          /\ direct(i).target.backends = trafficSplits[ts].backends
          /\ direct(i).target.servers = {}
        BY <1>2, <2>1, <2>3, <2>4 DEF IsAtPort, ToBackends
    <2>6. IsOfHTTPSplitAt(s, key(i, "direct"), direct(i), ts, "direct", i)
        BY <1>0, <2>5 DEF IsOfHTTPSplitAt
    <2>7. IsOfHTTPSplit(s, key(i, "direct"), direct(i))
        BY <2>6 DEF IsOfHTTPSplit
    <2> QED BY <2>7 DEF IsListed
<1>3. ASSUME NEW i \in DOMAIN Ports(s), i <= HTTPEntryPoints
      PROVE  IsListed(s, key(i, "indirect"), indirect(i))
    <2> DEFINE rule == RuleOf(s, rules, TRUE)
               access == Listed(TRUE)
    <2>1. rule.services = {s} /\ rule.matches = ToSet(HTTPMatches(rules)) \ {{}}
        BY DEF RuleOf
    <2>2. indirect(i) = HTTPRouter(i, rule, access, PriorityTrafficTargetIndirect, To(i))
        OBVIOUS
    <2>3. /\ ~ cluster.acl => access = Anybody
          /\ cluster.acl => access.pods = trafficSplits[ts].incoming /\ access.forwarded
        BY <1>1
    <2> HIDE DEF rule, indirect, access
    <2>4. /\ indirect(i).entry = <<"http", i>> /\ indirect(i).rule = rule
          /\ indirect(i).priority = 3000 + rule.operators
          /\ indirect(i).access = access
          /\ indirect(i).target = To(i)
        BY <2>2 DEF HTTPRouter, Router, RulePriority, PriorityTrafficTargetIndirect
    <2>5. /\ IsAtPort(s, i, indirect(i))
          /\ indirect(i).rule.matches = ToSet(HTTPMatches(rules)) \ {{}}
          /\ indirect(i).priority = 3000 + indirect(i).rule.operators
          /\ ~ cluster.acl => indirect(i).access = Anybody
          /\ cluster.acl => /\ indirect(i).access.pods = trafficSplits[ts].incoming
                            /\ indirect(i).access.forwarded
          /\ indirect(i).target.backends = trafficSplits[ts].backends
          /\ indirect(i).target.servers = {}
        BY <1>3, <2>1, <2>3, <2>4 DEF IsAtPort, ToBackends
    <2>6. IsOfHTTPSplitAt(s, key(i, "indirect"), indirect(i), ts, "indirect", i)
        BY <1>0, <2>5 DEF IsOfHTTPSplitAt
    <2>7. IsOfHTTPSplit(s, key(i, "indirect"), indirect(i))
        BY <2>6 DEF IsOfHTTPSplit
    <2> QED BY <2>7 DEF IsListed
<1>4. ASSUME NEW i \in DOMAIN Ports(s) PROVE AllListed(s, write(i))
    <2>1. i \in Nat /\ HTTPEntryPoints \in Nat
        BY ClusterAssumption, RoutingAssumption DEF ClusterInv, Known, Ports
    <2>2. i <= HTTPEntryPoints => AllListed(s, Direct(i)) /\ AllListed(s, Indirect(i))
        <3> HIDE DEF direct, indirect, key
        <3> QED BY <1>2, <1>3, OneListed
    <2> HIDE DEF Direct, Indirect
    <2>3. i <= HTTPEntryPoints => AllListed(s, Merged(<<Direct(i), Indirect(i)>>))
        BY <2>2, BothListed
    <2> QED BY <2>1, <2>2, <2>3, NothingListed
<1>5. AllListed(s, Merged([i \in DOMAIN Ports(s) |-> write(i)]))
    <2> HIDE DEF write
    <2> QED BY <1>4, MergedListed
<1> QED BY <1>5 DEF HTTPSplitRouters

\* The routers of a split of a TCP or UDP service.
LEMMA MappedSplitsListed ==
    ASSUME NEW s \in Known, cluster.type[s] # "http", NEW ts \in ToSet(services[s].splits)
    PROVE  /\ AllListed(s, MappedSplitRouters(ts, s))
           /\ \A k \in DOMAIN MappedSplitRouters(ts, s) :
                 MappedSplitRouters(ts, s)[k].target.backends = trafficSplits[ts].backends
<1> DEFINE target(i) == ToBackends(trafficSplits[ts].backends, Ports(s)[i].target)
           router(i) == MappedRouter(s, Ports(s)[i], target(i))
           write(i) == IF ~ IsMapped(s, Ports(s)[i]) THEN << >>
                       ELSE Write(ServiceKey(s, Ports(s)[i]), router(i))
           writes == [i \in DOMAIN Ports(s) |-> write(i)]
<1>1. MappedSplitRouters(ts, s) = Merged(writes)
    BY DEF MappedSplitRouters
<1>2. ASSUME NEW i \in DOMAIN Ports(s), IsMapped(s, Ports(s)[i])
      PROVE  /\ IsListed(s, ServiceKey(s, Ports(s)[i]), router(i))
             /\ router(i).target.backends = trafficSplits[ts].backends
    <2>1. target(i).backends = trafficSplits[ts].backends
        BY DEF ToBackends
    <2> HIDE DEF target
    <2> QED BY <1>2, <2>1, MappedListed
<1>3. ASSUME NEW i \in DOMAIN Ports(s) PROVE AllListed(s, write(i))
    <2> HIDE DEF router
    <2> QED BY <1>2, OneListed, NothingListed
<1>4. AllListed(s, Merged(writes))
    <2> HIDE DEF write
    <2> QED BY <1>3, MergedListed
<1>5. ASSUME NEW k \in DOMAIN Merged(writes)
      PROVE  Merged(writes)[k].target.backends = trafficSplits[ts].backends
    <2>1. PICK i \in DOMAIN writes : k \in DOMAIN writes[i] /\ Merged(writes)[k] = writes[i][k]
        <3> HIDE DEF writes
        <3> QED BY <1>5, MergedValue
    <2>2. i \in DOMAIN Ports(s) /\ writes[i] = write(i)
        BY <2>1
    <2> HIDE DEF router
    <2>3. IsMapped(s, Ports(s)[i]) /\ write(i)[k] = router(i)
        BY <2>1, <2>2 DEF Write
    <2> QED BY <1>2, <2>1, <2>2, <2>3
<1> QED BY <1>1, <1>4, <1>5

--------------------------------------------------------------------------------
(* The keys that a service has.                                             *)

\* The keys that a map of a service has at least: of the ports of an HTTP service or of
\* those of its targets, and of the mesh ports that some router is for.
HasTargetKeys(s, map) ==
    \A tt \in services[s].targets : \A i \in DOMAIN DestinationPorts(tt, s) :
        i <= HTTPEntryPoints =>
            /\ TargetKey(tt, s, DestinationPorts(tt, s)[i], "direct") \in DOMAIN map
            /\ IsBackend(s) =>
                  TargetKey(tt, s, DestinationPorts(tt, s)[i], "indirect") \in DOMAIN map

HasMappedTargetKeys(s, map) ==
    \A tt \in services[s].targets : \A j \in DOMAIN DestinationPorts(tt, s) :
        /\ HasTCPRoute(cluster.targets[tt].rules)
        /\ IsMapped(s, DestinationPorts(tt, s)[j])
        => ServiceKey(s, DestinationPorts(tt, s)[j]) \in DOMAIN map

HasPortKeys(s, map) ==
    \A i \in DOMAIN Ports(s) : i <= HTTPEntryPoints => ServiceKey(s, Ports(s)[i]) \in DOMAIN map

HasMappedKeys(s, map) ==
    \A i \in DOMAIN Ports(s) : IsMapped(s, Ports(s)[i]) => ServiceKey(s, Ports(s)[i]) \in DOMAIN map

HasKeys(s, map) ==
    /\ cluster.type[s] = "http" /\ ~ cluster.acl => HasPortKeys(s, map)
    /\ cluster.type[s] = "http" /\ cluster.acl => HasTargetKeys(s, map)
    /\ cluster.type[s] # "http" /\ (~ cluster.acl \/ services[s].splits # << >>)
          => HasMappedKeys(s, map)
    /\ cluster.type[s] = "tcp" /\ cluster.acl => HasMappedTargetKeys(s, map)

\* Every target of a service has its turn in the loop.
LEMMA TargetsHaveTurns ==
    ASSUME NEW S \in SUBSET Target, NEW targets \in SetToSeqs(S)
    PROVE  \E n \in Nat : /\ DOMAIN targets = 1 .. n
                          /\ \A i \in 1 .. n : targets[i] \in S
                          /\ \A tt \in S : \E i \in 1 .. n : targets[i] = tt
<1>1. IsFiniteSet(S) /\ Cardinality(S) \in Nat
    BY FiniteTargets, FS_Subset, FS_CardinalityType
<1> DEFINE n == Cardinality(S)
<1>2. targets \in [1 .. n -> S] /\ \A i, j \in 1 .. n : i # j => targets[i] # targets[j]
    BY DEF SetToSeqs
<1>3. IsFiniteSet(1 .. n) /\ Cardinality(1 .. n) = n
    BY <1>1, FS_Interval
<1>4. targets \in Injection(1 .. n, S)
    BY <1>2 DEF Injection, IsInjective
<1>5. targets \in Surjection(1 .. n, S)
    BY <1>1, <1>3, <1>4, FS_Injection
<1> QED BY <1>1, <1>2, <1>5 DEF Surjection

\* The routers of a service without those of its targets and splits.
LEMMA BaseListed ==
    ASSUME ClusterInv, NEW s \in Known, HasRouters(s)
    PROVE  /\ AllListed(s, BaseRouters(s))
           /\ cluster.type[s] = "http" /\ ~ cluster.acl => HasPortKeys(s, BaseRouters(s))
           /\ cluster.type[s] # "http" /\ ~ cluster.acl => HasMappedKeys(s, BaseRouters(s))
<1>1. cluster.type[s] \in {"http", "tcp", "udp"} /\ cluster.acl \in BOOLEAN
    BY TypesOfServices
<1>2. CASE cluster.type[s] = "http" /\ cluster.acl
    BY <1>2, BlockAllListed DEF BaseRouters
<1>3. CASE cluster.type[s] = "http" /\ ~ cluster.acl
    BY <1>3, HTTPServicesListed DEF BaseRouters, HasPortKeys
<1>4. CASE cluster.type[s] # "http" /\ ~ cluster.acl
    BY <1>4, MappedServicesListed DEF BaseRouters, HasMappedKeys
<1>5. CASE cluster.type[s] # "http" /\ cluster.acl
    BY <1>5, NothingListed DEF BaseRouters
<1> QED BY <1>1, <1>2, <1>3, <1>4, <1>5

\* The routers of one target.
LEMMA OfTargetListed ==
    ASSUME ClusterInv, NEW s \in Known, HasRouters(s), NEW tt \in services[s].targets
    PROVE  AllListed(s, TargetRouters(tt, s))
<1>1. cluster.type[s] \in {"http", "tcp", "udp"} /\ cluster.acl \in BOOLEAN
    BY TypesOfServices
<1>2. CASE cluster.acl /\ cluster.type[s] = "http"
    BY <1>2, HTTPTargetsListed DEF TargetRouters
<1>3. CASE cluster.acl /\ cluster.type[s] = "tcp"
    BY <1>3, TCPTargetsListed DEF TargetRouters
<1>4. CASE ~ cluster.acl \/ cluster.type[s] = "udp"
    BY <1>4, NothingListed DEF TargetRouters
<1> QED BY <1>1, <1>2, <1>3, <1>4

\* The routers of a service are listed.
LEMMA RoutersOfListed ==
    ASSUME BuildInv, step # "services", NEW s \in DOMAIN services, HasRouters(s),
           NEW targets \in SetToSeqs(services[s].targets)
    PROVE  AllListed(s, RoutersOf(s, targets))
<1> DEFINE ofTargets == [i \in DOMAIN targets |-> TargetRouters(targets[i], s)]
           ofSplits == [i \in DOMAIN services[s].splits |->
                           SplitRouters(services[s].splits[i], s)]
           all == <<BaseRouters(s), Merged(ofTargets), Merged(ofSplits)>>
<1>1. ClusterInv /\ s \in Known
    BY OwnSplits
<1>2. AllListed(s, Merged(ofTargets))
    <2>1. \A i \in DOMAIN targets : targets[i] \in services[s].targets
        BY DEF SetToSeqs
    <2>2. \A i \in DOMAIN ofTargets : AllListed(s, ofTargets[i])
        BY <1>1, <2>1, OfTargetListed
    <2> HIDE DEF ofTargets
    <2> QED BY <2>2, MergedListed
<1>3. AllListed(s, Merged(ofSplits))
    <2>1. ASSUME NEW ts \in ToSet(services[s].splits) PROVE AllListed(s, SplitRouters(ts, s))
        BY <1>1, HTTPSplitsListed, MappedSplitsListed DEF SplitRouters
    <2>2. \A i \in DOMAIN ofSplits : AllListed(s, ofSplits[i])
        BY <2>1 DEF ToSet
    <2> HIDE DEF ofSplits
    <2> QED BY <2>2, MergedListed
<1>4. AllListed(s, Merged(all))
    <2> HIDE DEF ofTargets, ofSplits
    <2>1. \A j \in DOMAIN all : AllListed(s, all[j])
        BY <1>1, <1>2, <1>3, BaseListed
    <2> HIDE DEF all
    <2> QED BY <2>1, MergedListed
<1> QED BY <1>4 DEF RoutersOf

\* More keys in a map.
LEMMA HasMoreKeys ==
    ASSUME NEW s, NEW map1, NEW map2, HasKeys(s, map1), DOMAIN map1 \subseteq DOMAIN map2
    PROVE  HasKeys(s, map2)
<1>1. HasPortKeys(s, map1) => HasPortKeys(s, map2)
    BY DEF HasPortKeys
<1>2. HasTargetKeys(s, map1) => HasTargetKeys(s, map2)
    BY DEF HasTargetKeys
<1>3. HasMappedKeys(s, map1) => HasMappedKeys(s, map2)
    BY DEF HasMappedKeys
<1>4. HasMappedTargetKeys(s, map1) => HasMappedTargetKeys(s, map2)
    BY DEF HasMappedTargetKeys
<1> QED BY <1>1, <1>2, <1>3, <1>4 DEF HasKeys

\* The routers of a service have all keys that they should.
LEMMA RoutersOfHave ==
    ASSUME BuildInv, step # "services", NEW s \in DOMAIN services, HasRouters(s),
           NEW targets \in SetToSeqs(services[s].targets)
    PROVE  HasKeys(s, RoutersOf(s, targets))
<1> DEFINE ofTargets == [i \in DOMAIN targets |-> TargetRouters(targets[i], s)]
           ofSplits == [i \in DOMAIN services[s].splits |->
                           SplitRouters(services[s].splits[i], s)]
           map == RoutersOf(s, targets)
<1>1. ClusterInv /\ s \in Known /\ TargetsApply /\ services[s].splits \in Seq(Split)
    BY OwnSplits
<1>2. cluster.type[s] \in {"http", "tcp", "udp"} /\ cluster.acl \in BOOLEAN
    BY <1>1, TypesOfServices
<1>3. \A k : k \in DOMAIN map <=> \/ k \in DOMAIN BaseRouters(s) \/ k \in DOMAIN Merged(ofTargets)
                                  \/ k \in DOMAIN Merged(ofSplits)
    <2>1. map = Merged(<<BaseRouters(s), Merged(ofTargets), Merged(ofSplits)>>)
        BY DEF RoutersOf
    <2> HIDE DEF map, ofTargets, ofSplits
    <2> QED BY <2>1, MergedOfThree
<1>4. ASSUME NEW tt \in services[s].targets, NEW k \in DOMAIN TargetRouters(tt, s)
      PROVE  k \in DOMAIN map
    <2>1. services[s].targets \in SUBSET Target
        BY <1>1 DEF TargetsApply
    <2>2. PICK n \in Nat : DOMAIN targets = 1 .. n /\ \E i \in 1 .. n : targets[i] = tt
        BY <2>1, TargetsHaveTurns
    <2>3. PICK i \in 1 .. n : targets[i] = tt
        BY <2>2
    <2>4. DOMAIN ofTargets = 1 .. n /\ k \in DOMAIN ofTargets[i]
        BY <1>4, <2>2, <2>3
    <2> HIDE DEF map, ofTargets, ofSplits
    <2>5. k \in DOMAIN Merged(ofTargets)
        BY <2>4, MergedKeys
    <2> QED BY <1>3, <2>5
<1>5. ASSUME NEW j \in DOMAIN services[s].splits,
             NEW k \in DOMAIN SplitRouters(services[s].splits[j], s)
      PROVE  k \in DOMAIN map
    <2>1. PICK n \in Nat : DOMAIN services[s].splits = 1 .. n
        BY <1>1
    <2>2. DOMAIN ofSplits = 1 .. n /\ k \in DOMAIN ofSplits[j]
        BY <1>5, <2>1
    <2> HIDE DEF map, ofTargets, ofSplits
    <2>3. k \in DOMAIN Merged(ofSplits)
        BY <2>1, <2>2, MergedKeys
    <2> QED BY <1>3, <2>3
<1> HIDE DEF map
<1>6. cluster.type[s] = "http" /\ ~ cluster.acl => HasPortKeys(s, map)
    BY <1>1, <1>3, BaseListed DEF HasPortKeys
<1>7. ASSUME cluster.type[s] = "http", cluster.acl PROVE HasTargetKeys(s, map)
    <2>1. \A tt \in services[s].targets : TargetRouters(tt, s) = HTTPTargetRouters(tt, s)
        BY <1>7 DEF TargetRouters
    <2>2. ASSUME NEW tt \in services[s].targets, NEW i \in DOMAIN DestinationPorts(tt, s),
                 i <= HTTPEntryPoints
          PROVE  /\ TargetKey(tt, s, DestinationPorts(tt, s)[i], "direct") \in DOMAIN map
                 /\ IsBackend(s) =>
                       TargetKey(tt, s, DestinationPorts(tt, s)[i], "indirect") \in DOMAIN map
        BY <1>1, <1>4, <1>7, <2>1, <2>2, HTTPTargetsListed
    <2> QED BY <2>2 DEF HasTargetKeys
<1>8. ASSUME cluster.type[s] # "http", ~ cluster.acl \/ services[s].splits # << >>
      PROVE  HasMappedKeys(s, map)
    <2>1. CASE ~ cluster.acl
        BY <1>1, <1>3, <1>8, <2>1, BaseListed DEF HasMappedKeys
    <2>2. CASE services[s].splits # << >>
        <3>1. 1 \in DOMAIN services[s].splits
            BY <1>1, <2>2
        <3>2. SplitRouters(services[s].splits[1], s) = MappedSplitRouters(services[s].splits[1], s)
            BY <1>8 DEF SplitRouters
        <3>3. ASSUME NEW i \in DOMAIN Ports(s), IsMapped(s, Ports(s)[i])
              PROVE  ServiceKey(s, Ports(s)[i]) \in DOMAIN map
            <4>1. ServiceKey(s, Ports(s)[i]) \in DOMAIN MappedSplitRouters(services[s].splits[1], s)
                BY <1>1, <3>3, MappedSplitKeys
            <4> QED BY <1>5, <3>1, <3>2, <4>1
        <3> QED BY <3>3 DEF HasMappedKeys
    <2> QED BY <1>8, <2>1, <2>2
<1>9. ASSUME cluster.type[s] = "tcp", cluster.acl PROVE HasMappedTargetKeys(s, map)
    <2>1. \A tt \in services[s].targets : TargetRouters(tt, s) = TCPTargetRouters(tt, s)
        BY <1>9 DEF TargetRouters
    <2>2. cluster.type[s] # "http"
        BY <1>9
    <2>3. ASSUME NEW tt \in services[s].targets, NEW j \in DOMAIN DestinationPorts(tt, s),
                 HasTCPRoute(cluster.targets[tt].rules), IsMapped(s, DestinationPorts(tt, s)[j])
          PROVE  ServiceKey(s, DestinationPorts(tt, s)[j]) \in DOMAIN map
        <3>1. ServiceKey(s, DestinationPorts(tt, s)[j]) \in DOMAIN TCPTargetRouters(tt, s)
            BY <1>1, <1>9, <2>2, <2>3, TCPTargetsListed
        <3> QED BY <1>4, <2>1, <3>1
    <2> QED BY <2>3 DEF HasMappedTargetKeys
<1>10. HasKeys(s, map)
    BY <1>6, <1>7, <1>8, <1>9 DEF HasKeys
<1> QED BY <1>10 DEF map

--------------------------------------------------------------------------------
(* The configuration as it grows.                                           *)

\* A router that sends requests on to the backends of a split of the service.
LeadsToSplit(s, router) ==
    \E ts \in ToSet(services[s].splits) : router.target.backends = trafficSplits[ts].backends

\* TCP and UDP routers of a service with a split lead to the backends of one.
LEMMA RoutersOfLead ==
    ASSUME BuildInv, step # "services", NEW s \in DOMAIN services, HasRouters(s),
           cluster.type[s] # "http", services[s].splits # << >>,
           NEW targets, NEW k \in DOMAIN RoutersOf(s, targets)
    PROVE  LeadsToSplit(s, RoutersOf(s, targets)[k])
<1>1. PICK j \in DOMAIN services[s].splits :
          /\ k \in DOMAIN MappedSplitRouters(services[s].splits[j], s)
          /\ RoutersOf(s, targets)[k] = MappedSplitRouters(services[s].splits[j], s)[k]
    BY RoutersOfSplit
<1>2. services[s].splits[j] \in ToSet(services[s].splits) /\ s \in Known
    BY OwnSplits DEF ToSet
<1>3. MappedSplitRouters(services[s].splits[j], s)[k].target.backends
        = trafficSplits[services[s].splits[j]].backends
    BY <1>1, <1>2, MappedSplitsListed
<1> QED BY <1>1, <1>2, <1>3 DEF LeadsToSplit

--------------------------------------------------------------------------------
\* Every router is one of a service that is configured, which has all of its routers.
IsOneOf(k, router) ==
    \E s \in Known :
        /\ HasRouters(s) /\ IsListed(s, k, router)
        /\ cluster.type[s] # "http" /\ services[s].splits # << >> => LeadsToSplit(s, router)

ListInv ==
    /\ \A k \in DOMAIN routers : IsOneOf(k, routers[k])
    /\ \A s \in configured : HasRouters(s) => HasKeys(s, routers)

\* What routers are depends on the topology.
LEMMA ListedStays ==
    ASSUME UNCHANGED <<cluster, services, trafficSplits, serviceTrafficTargets>>,
           NEW s, NEW k, NEW router, IsListed(s, k, router)
    PROVE  IsListed(s, k, router)'
<1>1. \A rules : HTTPMatches(rules)' = HTTPMatches(rules)
    BY SpecsStay
<1>2. \A tt : /\ DestinationPorts(tt, s)' = DestinationPorts(tt, s)
              /\ DestinationPods(tt, s)' = DestinationPods(tt, s)
    BY TargetStays, PodsStay
<1>3. \A pods, port : ToPods(pods, port)' = ToPods(pods, port)
    BY DEF ToPods, ResolvedPort
<1>4. /\ Ports(s)' = Ports(s) /\ IsBackend(s)' = IsBackend(s)
      /\ \A port : /\ IsMapped(s, port)' = IsMapped(s, port)
                   /\ MappedEntryPoint(s, port)' = MappedEntryPoint(s, port)
                   /\ ServiceKey(s, port)' = ServiceKey(s, port)
      /\ \A x, port, way : /\ TargetKey(x, s, port, way)' = TargetKey(x, s, port, way)
                           /\ SplitKey(x, s, port, way)' = SplitKey(x, s, port, way)
    BY DEF Ports, IsBackend, IsMapped, MappedEntryPoint, ServiceKey, TargetKey, SplitKey
<1>5. CASE IsOfBase(s, k, router) /\ cluster.type[s] = "http"
    <2>1. IsOfBase(s, k, router)'
        BY <1>3, <1>4, <1>5 DEF IsOfBase, IsOfBaseAt, IsAtPort
    <2> QED BY <1>5, <2>1 DEF IsListed
<1>6. CASE IsOfTarget(s, k, router) /\ cluster.type[s] = "http"
    <2>1. PICK tt \in services[s].targets, way \in {"direct", "indirect"} :
            \E i \in DOMAIN DestinationPorts(tt, s) : IsOfTargetAt(s, k, router, tt, way, i)
        BY <1>6 DEF IsOfTarget
    <2>2. PICK i \in DOMAIN DestinationPorts(tt, s) : IsOfTargetAt(s, k, router, tt, way, i)
        BY <2>1
    <2>3. IsOfTargetAt(s, k, router, tt, way, i)'
        BY <1>1, <1>2, <1>3, <1>4, <2>2 DEF IsOfTargetAt, IsAtPort
    <2>4. IsOfTarget(s, k, router)'
        BY <1>2, <2>3 DEF IsOfTarget
    <2> QED BY <1>6, <2>4 DEF IsListed
<1>7. CASE IsOfHTTPSplit(s, k, router) /\ cluster.type[s] = "http"
    <2>1. PICK ts \in ToSet(services[s].splits), way \in {"direct", "indirect"} :
            \E i \in DOMAIN Ports(s) : IsOfHTTPSplitAt(s, k, router, ts, way, i)
        BY <1>7 DEF IsOfHTTPSplit
    <2>2. PICK i \in DOMAIN Ports(s) : IsOfHTTPSplitAt(s, k, router, ts, way, i)
        BY <2>1
    <2>3. IsOfHTTPSplitAt(s, k, router, ts, way, i)'
        BY <1>1, <1>4, <2>2 DEF IsOfHTTPSplitAt, IsAtPort
    <2>4. IsOfHTTPSplit(s, k, router)'
        BY <1>4, <2>3 DEF IsOfHTTPSplit
    <2> QED BY <1>7, <2>4 DEF IsListed
<1>8. CASE cluster.type[s] # "http"
    <2>1. IsOfMapped(s, k, router)
        BY <1>8 DEF IsListed
    <2>2. IsOfMapped(s, k, router)'
        BY <1>2, <1>3, <1>4, <2>1 DEF IsOfMapped, IsOfMappedAt
    <2> QED BY <1>8, <2>2 DEF IsListed
<1> QED BY <1>5, <1>6, <1>7, <1>8 DEF IsListed

\* So it does for the keys.
LEMMA KeysStay ==
    ASSUME UNCHANGED <<cluster, services, trafficSplits, serviceTrafficTargets>>,
           NEW s, NEW map, HasKeys(s, map)
    PROVE  HasKeys(s, map)'
<1>1. \A tt : DestinationPorts(tt, s)' = DestinationPorts(tt, s)
    BY TargetStays
<1>2. /\ Ports(s)' = Ports(s) /\ IsBackend(s)' = IsBackend(s)
      /\ \A port : /\ IsMapped(s, port)' = IsMapped(s, port)
                   /\ ServiceKey(s, port)' = ServiceKey(s, port)
      /\ \A x, port, way : TargetKey(x, s, port, way)' = TargetKey(x, s, port, way)
    BY DEF Ports, IsBackend, IsMapped, ServiceKey, TargetKey
<1>3. /\ HasPortKeys(s, map) => HasPortKeys(s, map)'
      /\ HasMappedKeys(s, map) => HasMappedKeys(s, map)'
    BY <1>2 DEF HasPortKeys, HasMappedKeys
<1>4. HasTargetKeys(s, map) => HasTargetKeys(s, map)'
    BY <1>1, <1>2 DEF HasTargetKeys
<1>5. HasMappedTargetKeys(s, map) => HasMappedTargetKeys(s, map)'
    BY <1>1, <1>2 DEF HasMappedTargetKeys
<1> QED BY <1>3, <1>4, <1>5 DEF HasKeys

\* The routers of the next state, when the topology stays.
LEMMA ListedNext ==
    ASSUME UNCHANGED <<cluster, services, trafficSplits, serviceTrafficTargets>>,
           NEW map, map = routers', \A k \in DOMAIN map : IsOneOf(k, map[k]),
           \A s \in configured' : HasRouters(s) => HasKeys(s, map)
    PROVE  ListInv'
<1>1. ASSUME NEW k \in DOMAIN map PROVE IsOneOf(k, map[k])'
    <2>1. PICK router : router = map[k]
        OBVIOUS
    <2>2. PICK s \in Known :
            /\ HasRouters(s) /\ IsListed(s, k, router)
            /\ cluster.type[s] # "http" /\ services[s].splits # << >> => LeadsToSplit(s, router)
        BY <1>1, <2>1 DEF IsOneOf
    <2>3. IsListed(s, k, router)'
        BY <2>2, ListedStays
    <2>4. IsOneOf(k, router)'
        BY <2>2, <2>3 DEF IsOneOf, Known, HasRouters, LeadsToSplit
    <2>5. router = map[k]'
        BY <2>1
    <2> QED BY <2>4, <2>5 DEF IsOneOf
<1>2. \A s \in configured' : HasRouters(s)' => HasKeys(s, map)'
    BY KeysStay DEF HasRouters
<1> QED BY <1>1, <1>2 DEF ListInv

\* Steps that leave topology and configuration alone.
LEMMA ListStays ==
    ASSUME UNCHANGED <<vars, routers, configured>>, ListInv
    PROVE  ListInv'
<1>1. UNCHANGED <<cluster, services, trafficSplits, serviceTrafficTargets>>
    BY DEF vars
<1>2. PICK map : map = routers' /\ map = routers
    OBVIOUS
<1>3. /\ \A k \in DOMAIN map : IsOneOf(k, map[k])
      /\ \A s \in configured' : HasRouters(s) => HasKeys(s, map)
    BY <1>2 DEF ListInv
<1> QED BY <1>1, <1>2, <1>3, ListedNext

\* BuildConfig gives a service its routers.
LEMMA BuildConfigLists ==
    ASSUME BuildInv, ListInv, BuildConfig
    PROVE  ListInv'
<1>1. /\ UNCHANGED <<cluster, services, trafficSplits, serviceTrafficTargets>>
      /\ step # "services"
    BY DEF BuildConfig
<1>2. PICK s \in DOMAIN services \ configured :
        /\ SkipService(s) \/ AddService(s)
        /\ configured' = configured \cup {s}
    BY DEF BuildConfig
<1>3. s \in Known
    BY <1>1, OwnSplits
<1>4. CASE SkipService(s)
    <2>1. ~ HasRouters(s) /\ UNCHANGED routers
        BY <1>4 DEF SkipService
    <2>2. PICK map : map = routers' /\ map = routers
        BY <2>1
    <2>3. \A k \in DOMAIN map : IsOneOf(k, map[k])
        BY <2>2 DEF ListInv
    <2>4. \A t \in configured' : HasRouters(t) => HasKeys(t, map)
        BY <1>2, <2>1, <2>2 DEF ListInv
    <2> QED BY <1>1, <2>2, <2>3, <2>4, ListedNext
<1>5. CASE AddService(s)
    <2>1. HasRouters(s)
        BY <1>5 DEF AddService
    <2>2. PICK targets \in SetToSeqs(services[s].targets) :
            routers' = Merged(<<routers, RoutersOf(s, targets)>>)
        BY <1>5 DEF AddService
    <2>3. PICK old, new : old = routers /\ new = RoutersOf(s, targets)
        OBVIOUS
    <2> DEFINE both == <<old, new>>
    <2>4. PICK map : map = routers' /\ map = Merged(both)
        BY <2>2, <2>3
    <2>5. AllListed(s, new) /\ HasKeys(s, new)
        BY <1>1, <2>1, <2>3, RoutersOfListed, RoutersOfHave
    <2>6. \A k \in DOMAIN new : IsOneOf(k, new[k])
        <3>1. ASSUME NEW k \in DOMAIN new, cluster.type[s] # "http", services[s].splits # << >>
              PROVE  LeadsToSplit(s, new[k])
            BY <1>1, <2>1, <2>3, <3>1, RoutersOfLead
        <3> QED BY <1>3, <2>1, <2>5, <3>1 DEF AllListed, IsOneOf
    <2>7. \A k \in DOMAIN old : IsOneOf(k, old[k])
        BY <2>3 DEF ListInv
    <2>8. ASSUME NEW k \in DOMAIN map PROVE IsOneOf(k, map[k])
        <3>1. PICK i \in DOMAIN both : k \in DOMAIN both[i] /\ map[k] = both[i][k]
            <4> HIDE DEF both
            <4> QED BY <2>4, <2>8, MergedValue
        <3> QED BY <2>6, <2>7, <3>1
    <2>9. DOMAIN old \subseteq DOMAIN map /\ DOMAIN new \subseteq DOMAIN map
        BY <2>4, MergedOfTwo
    <2>10. ASSUME NEW t \in configured', HasRouters(t) PROVE HasKeys(t, map)
        <3>1. CASE t = s
            BY <2>5, <2>9, <3>1, HasMoreKeys
        <3>2. CASE t # s
            <4>1. t \in configured
                BY <1>2, <3>2
            <4>2. HasKeys(t, old)
                BY <2>3, <2>10, <4>1 DEF ListInv
            <4> QED BY <2>9, <4>2, HasMoreKeys
        <3> QED BY <3>1, <3>2
    <2> QED BY <1>1, <2>4, <2>8, <2>10, ListedNext
<1> QED BY <1>2, <1>4, <1>5

--------------------------------------------------------------------------------
(* The graph of the splits.                                                 *)

\* A service knows the splits that it is a backend of.
BackendsInv ==
    step # "services" =>
        \A ts \in DOMAIN trafficSplits : \A b \in ToSet(trafficSplits[ts].backends) :
            ts \in services[b].backendOf

\* A split whose backends have no splits of their own lists the pods that all of them allow.
FlatInv ==
    step \in {"built", "configured"} =>
        \A ts \in SplitsLeft :
            /\ trafficSplits[ts].backends # << >>
            /\ \A b \in ToSet(trafficSplits[ts].backends) : services[b].splits = << >>
            => \A p \in Pod :
                  (\A b \in ToSet(trafficSplits[ts].backends) : p \in AllowedPods(b))
                      => p \in trafficSplits[ts].incoming

\* The loops of Build tell a backend of each split that it keeps.
LEMMA BackendsKeep ==
    ASSUME TopologyInv, BackendsInv, Next
    PROVE  BackendsInv'
<1>1. CASE EvaluateServices
    <2>1. trafficSplits' = trafficSplits /\ DOMAIN trafficSplits = {}
        BY <1>1 DEF EvaluateServices, TopologyInv, SplitsInv
    <2> QED BY <2>1 DEF BackendsInv
<1>2. CASE EvaluateTrafficSplit
    <2>1. PICK ts \in Split \ DOMAIN trafficSplits : RejectTrafficSplit(ts) \/ AttachTrafficSplit(ts)
        BY <1>2 DEF EvaluateTrafficSplit
    <2>2. /\ step # "services" /\ DOMAIN services = Known
          /\ \A t \in DOMAIN trafficSplits : ToSet(trafficSplits[t].backends) \subseteq Known
        <3>1. step = "splits"
            BY <1>2 DEF EvaluateTrafficSplit
        <3>2. DOMAIN services = Known
            BY <3>1 DEF TopologyInv, ServicesInv
        <3>3. \A t \in DOMAIN trafficSplits : trafficSplits[t].backends \in Seq(Known)
            BY DEF TopologyInv, SplitsInv
        <3> QED BY <3>1, <3>2, <3>3 DEF ToSet
    <2>3. CASE RejectTrafficSplit(ts)
        <3>1. /\ DOMAIN trafficSplits' = DOMAIN trafficSplits \cup {ts}
              /\ trafficSplits'[ts].backends = << >>
              /\ \A t \in DOMAIN trafficSplits : trafficSplits'[t] = trafficSplits[t]
            BY <2>3 DEF RejectTrafficSplit, WithSplit
        <3>2. services' = services
            BY <2>3 DEF RejectTrafficSplit
        <3>3. ToSet(trafficSplits'[ts].backends) = {}
            BY <3>1 DEF ToSet
        <3> QED BY <2>2, <3>1, <3>2, <3>3 DEF BackendsInv
    <2>4. CASE AttachTrafficSplit(ts)
        <3> DEFINE root == cluster.splits[ts].service
                   backends == RetainedBackends(ts)
        <3>1. /\ trafficSplits' = WithSplit(ts, [service |-> root, backends |-> backends,
                                                 incoming |-> {}])
              /\ services' = [s \in DOMAIN services |->
                    [services[s] EXCEPT
                        !.splits = IF s = root THEN Append(@, ts) ELSE @,
                        !.backendOf = IF s \in ToSet(backends) THEN @ \cup {ts} ELSE @]]
            BY <2>4 DEF AttachTrafficSplit
        <3>2. ToSet(backends) \subseteq Known
            <4>1. backends \in Seq(Known)
                BY RetainedAreKnown DEF TopologyInv
            <4> QED BY <4>1 DEF ToSet
        <3> HIDE DEF backends
        <3>3. /\ DOMAIN trafficSplits' = DOMAIN trafficSplits \cup {ts}
              /\ trafficSplits'[ts].backends = backends
              /\ \A t \in DOMAIN trafficSplits : trafficSplits'[t] = trafficSplits[t]
            BY <3>1 DEF WithSplit
        <3>4. \A s \in Known :
                services'[s].backendOf = IF s \in ToSet(backends) THEN services[s].backendOf \cup {ts}
                                         ELSE services[s].backendOf
            <4>1. step = "splits"
                BY <1>2 DEF EvaluateTrafficSplit
            <4>2. services \in [Known -> [splits : Seq(Split), targets : SUBSET Target,
                                          backendOf : SUBSET DOMAIN trafficSplits]]
                BY <4>1 DEF TopologyInv, ServicesInv
            <4> QED BY <3>1, <4>2
        <3>5. ASSUME NEW t \in DOMAIN trafficSplits', NEW b \in ToSet(trafficSplits'[t].backends)
              PROVE  t \in services'[b].backendOf
            <4>1. CASE t = ts
                BY <3>2, <3>3, <3>4, <3>5, <4>1
            <4>2. CASE t # ts
                <5>1. t \in DOMAIN trafficSplits /\ b \in ToSet(trafficSplits[t].backends)
                    BY <3>3, <3>5, <4>2
                <5>2. t \in services[b].backendOf /\ b \in Known
                    BY <2>2, <5>1 DEF BackendsInv
                <5> QED BY <3>4, <5>2
            <4> QED BY <4>1, <4>2
        <3> QED BY <3>5 DEF BackendsInv
    <2> QED BY <2>1, <2>3, <2>4
<1>3. CASE EvaluateTrafficTargets
    <2>1. step = "targets" /\ UNCHANGED trafficSplits
        BY <1>3 DEF EvaluateTrafficTargets
    <2>2. services \in [Known -> [splits : Seq(Split), targets : SUBSET Target,
                                  backendOf : SUBSET DOMAIN trafficSplits]]
        BY <2>1 DEF TopologyInv, ServicesInv
    <2>3. \A s \in Known : services'[s].backendOf = services[s].backendOf
        BY <1>3, <2>2 DEF EvaluateTrafficTargets
    <2>4. \A t \in DOMAIN trafficSplits : trafficSplits[t].backends \in Seq(Known)
        BY DEF TopologyInv, SplitsInv
    <2>5. \A t \in DOMAIN trafficSplits : ToSet(trafficSplits[t].backends) \subseteq Known
        BY <2>4 DEF ToSet
    <2> QED BY <2>1, <2>3, <2>5 DEF BackendsInv
<1>4. CASE PopulateIncoming
    <2>1. step = "incoming"
        BY <1>4 DEF PopulateIncoming
    <2>2. services \in [Known -> [splits : Seq(Split), targets : SUBSET Target,
                                  backendOf : SUBSET DOMAIN trafficSplits]]
        BY <2>1 DEF TopologyInv, ServicesInv
    <2>3. \A s \in Known : services'[s].backendOf = services[s].backendOf
        BY <1>4, <2>2, Populated
    <2>4. /\ DOMAIN trafficSplits = Split /\ DOMAIN trafficSplits' = Split
          /\ \A t \in Split : trafficSplits[t].backends \in Seq(Known)
        BY <1>4, <2>1, Populated DEF TopologyInv, SplitsInv
    <2>5. \A t \in Split : ToSet(trafficSplits[t].backends) \subseteq Known
        BY <2>4 DEF ToSet
    <2>6. \A t \in Split : trafficSplits'[t].backends = trafficSplits[t].backends
        BY <1>4, PopulatedGraph
    <2> QED BY <2>1, <2>3, <2>4, <2>5, <2>6 DEF BackendsInv
<1> QED BY <1>1, <1>2, <1>3, <1>4 DEF Next

\* What Build finds for such a split.
LEMMA FlatWhenBuilt == BuildInv /\ Built => FlatInv
<1> SUFFICES ASSUME BuildInv, Built,
                    NEW ts \in SplitsLeft, trafficSplits[ts].backends # << >>,
                    \A b \in ToSet(trafficSplits[ts].backends) : services[b].splits = << >>,
                    NEW p \in Pod, \A b \in ToSet(trafficSplits[ts].backends) : p \in AllowedPods(b)
             PROVE  p \in trafficSplits[ts].incoming
    BY DEF FlatInv
<1> DEFINE kept == {t \in Split : Kept(t)}
           passedOn == UNION {Reach(kept, b) : b \in ToSet(trafficSplits[ts].backends)}
<1>1. ToSet(trafficSplits[ts].backends) \subseteq Known
    <2>1. trafficSplits[ts].backends \in Seq(Known)
        BY DEF Built, BuildInv, TopologyInv, SplitsInv, SplitsLeft
    <2> QED BY <2>1 DEF ToSet
<1>2. ASSUME NEW b \in ToSet(trafficSplits[ts].backends), NEW t \in kept
      PROVE  trafficSplits[t].service # b
    <2>1. t \in ToSet(services[trafficSplits[t].service].splits) /\ services[b].splits = << >>
        BY DEF Kept
    <2>2. ToSet(services[b].splits) = {}
        BY <2>1 DEF ToSet
    <2> QED BY <2>1, <2>2
<1>3. ASSUME NEW b \in ToSet(trafficSplits[ts].backends)
      PROVE  Reach(kept, b) \subseteq {b}
    <2>1. IsClosed({b}, kept)
        BY <1>2 DEF IsClosed
    <2>2. {b} \in SUBSET Known
        BY <1>1
    <2> HIDE DEF kept
    <2> QED BY <2>1, <2>2, ReachLeast
<1>4. passedOn \subseteq ToSet(trafficSplits[ts].backends)
    <2> HIDE DEF kept
    <2> QED BY <1>3
<1>5. ts \in kept
    BY DEF SplitsLeft
<1> HIDE DEF passedOn
<1>6. \A t \in {ts} \cup {u \in kept : trafficSplits[u].service \in passedOn} :
            trafficSplits[t].backends # << >>
    BY <1>2, <1>4
<1>7. \A n \in {m \in passedOn : services[m].splits = << >>} : p \in AllowedPods(n)
    BY <1>4
<1>8. p \in trafficSplits[ts].incoming <=>
        /\ \A t \in {ts} \cup {u \in kept : trafficSplits[u].service \in passedOn} :
                trafficSplits[t].backends # << >>
        /\ \A n \in {m \in passedOn : services[m].splits = << >>} : p \in AllowedPods(n)
    BY <1>5 DEF BuildInv, IncomingIsAllowedEverywhere, Built, passedOn
<1> QED BY <1>6, <1>7, <1>8

\* It stays when the topology does.
LEMMA FlatStays ==
    ASSUME FlatInv, UNCHANGED <<cluster, services, trafficSplits>>,
           step' \in {"built", "configured"} => step \in {"built", "configured"}
    PROVE  FlatInv'
<1>1. SplitsLeft' = SplitsLeft
    BY LeftStay
<1>2. \A s : AllowedPods(s)' = AllowedPods(s)
    BY AllowedPodsStay
<1> QED BY <1>1, <1>2 DEF FlatInv

\* Every step of the configuration and of requests keeps both.
LEMMA GraphKeeps == BuildInv /\ BackendsInv /\ FlatInv /\ [RoutingNext]_routingVars
                        => BackendsInv' /\ FlatInv'
<1>1. BuildInv' /\ Built' => FlatInv'
    BY FlatWhenBuilt, PTL
<1> SUFFICES ASSUME BuildInv, BackendsInv, FlatInv, [RoutingNext]_routingVars
             PROVE  BackendsInv' /\ FlatInv'
    OBVIOUS
<1>2. CASE BuildTopology
    <2>1. Next /\ BuildInv'
        BY <1>2, NextKeeps DEF BuildTopology
    <2>2. step' \notin {"built", "configured"} \/ step' = "built"
        BY <2>1 DEF Next, EvaluateServices, EvaluateTrafficSplit, EvaluateTrafficTargets, PopulateIncoming
    <2>3. FlatInv'
        BY <1>1, <2>1, <2>2 DEF FlatInv, Built
    <2> QED BY <2>1, <2>3, BackendsKeep DEF BuildInv
<1>3. CASE ~ BuildTopology
    <2>1. /\ UNCHANGED <<cluster, services, trafficSplits>>
          /\ step' = step \/ (step \in {"built", "configured"} /\ step' = "configured")
        BY <1>3 DEF RoutingNext, BuildConfig, SendRequest, FindNoEntryPoint,
           FindNoRouter, Refuse, FindNoServer, Serve, Forward, Answer, vars, routingVars
    <2>2. BackendsInv'
        BY <2>1 DEF BackendsInv
    <2> QED BY <2>1, <2>2, FlatStays
<1> QED BY <1>2, <1>3

\* The empty topology.
LEMMA GraphStarts == RoutingInit => BackendsInv /\ FlatInv
BY DEF RoutingInit, Init, BackendsInv, FlatInv

--------------------------------------------------------------------------------
(* What the code does not claim, or manages, to serve, and the router that  *)
(* is chosen.                                                               *)

\* What keeps requests that are allowed from being refused, without which the code does
\* not claim, or manages, to serve them.

\* The ports of a service, which are told by their numbers, have keys of their own.
PortsAreDistinct ==
    \A s \in Known : \A i, j \in DOMAIN Ports(s) : Ports(s)[i].number = Ports(s)[j].number => i = j

\* Without ACL the addresses of endpoints are not looked at.
PodsRunTogether ==
    ~ cluster.acl => \A s \in Known : \/ cluster.endpoints[s] \subseteq cluster.running
                                      \/ cluster.endpoints[s] \cap cluster.running = {}

\* A match without conditions adds nothing to a rule of others (rule.go).
TargetMatchesAsk ==
    cluster.acl => \A s \in Known, tt \in Target : Applies(tt, s) =>
        {} \notin ToSet(HTTPMatches(cluster.targets[tt].rules))

\* Of two targets with routers for a request, the one with the longer rule decides, or the
\* one whose turn is last: its sources and pods may not be those of the other.
Obeys(tt, s, meets) ==
    /\ Applies(tt, s)
    /\ \/ cluster.type[s] = "http" /\ Admits(cluster.targets[tt].rules, meets)
       \/ cluster.type[s] = "tcp" /\ HasTCPRoute(cluster.targets[tt].rules)

OneTargetObeys ==
    cluster.acl => \A s \in Known, tt, uu \in Target, meets \in RequestKind :
        Obeys(tt, s, meets) /\ Obeys(uu, s, meets) => tt = uu

\* The direct routers of later ports of a backend ask for the header of forwarded requests.
BackendsHaveOnePort ==
    cluster.acl => \A s \in Known :
        cluster.type[s] = "http" /\ IsBackend(s) => Len(Ports(s)) <= 1

\* A split of a backend does not list the proxy, or knows the caller before it only.
SplitsAreFlat ==
    cluster.acl => \A s \in Known : \A ts \in ToSet(services[s].splits) :
        \A b \in ToSet(trafficSplits[ts].backends) :
            /\ cluster.type[b] \in {cluster.type[s], "invalid"}
            /\ cluster.type[b] = "http" => services[b].splits = << >>

PlainTopology ==
    /\ PortsAreDistinct /\ PodsRunTogether /\ TargetMatchesAsk
    /\ OneTargetObeys /\ BackendsHaveOnePort /\ SplitsAreFlat

\* They are about the topology only.
LEMMA PlainStays ==
    ASSUME UNCHANGED <<cluster, services, trafficSplits>>
    PROVE  PlainTopology' = PlainTopology
<1>1. \A rules : HTTPMatches(rules)' = HTTPMatches(rules)
    BY SpecsStay
<1>2. \A tt, s : Applies(tt, s)' = Applies(tt, s)
    BY AppliesStays
<1>3. \A rules, meets : Admits(rules, meets)' = Admits(rules, meets)
    BY AdmitsStays
<1>4. Known' = Known /\ \A s : Ports(s)' = Ports(s) /\ IsBackend(s)' = IsBackend(s)
    BY DEF Known, Ports, IsBackend
<1>5. PortsAreDistinct' = PortsAreDistinct
    BY <1>4 DEF PortsAreDistinct
<1>6. PodsRunTogether' = PodsRunTogether
    BY <1>4 DEF PodsRunTogether
<1>7. TargetMatchesAsk' = TargetMatchesAsk
    BY <1>1, <1>2, <1>4 DEF TargetMatchesAsk
<1>8. OneTargetObeys' = OneTargetObeys
    <2>1. \A tt, s, meets : Obeys(tt, s, meets)' = Obeys(tt, s, meets)
        BY <1>2, <1>3 DEF Obeys
    <2> QED BY <1>4, <2>1 DEF OneTargetObeys
<1>9. BackendsHaveOnePort' = BackendsHaveOnePort
    BY <1>4 DEF BackendsHaveOnePort
<1>10. SplitsAreFlat' = SplitsAreFlat
    BY <1>4 DEF SplitsAreFlat
<1> QED BY <1>5, <1>6, <1>7, <1>8, <1>9, <1>10 DEF PlainTopology

--------------------------------------------------------------------------------
\* Of routers that match a request one is chosen.
LEMMA ChosenExists ==
    ASSUME ListInv, ShortRules, NEW entry, NEW k \in DOMAIN routers,
           routers[k].entry = entry, MatchesRule(request, routers[k].rule)
    PROVE  Chosen(request, entry) # {}
<1> DEFINE matching == {routers[j] : j \in {l \in DOMAIN routers :
                            routers[l].entry = entry /\ MatchesRule(request, routers[l].rule)}}
           T == {router.priority + 1 : router \in matching}
<1>1. ASSUME NEW j \in DOMAIN routers PROVE routers[j].priority \in 0 .. 4999
    <2>1. PICK s \in Known : IsListed(s, j, routers[j])
        BY DEF ListInv, IsOneOf
    <2>2. routers[j].rule.operators \in 0 .. 999
        BY DEF ShortRules
    <2>3. \/ routers[j].priority \in {0, 1}
          \/ \E c \in {1000, 2000, 3000, 4000} : routers[j].priority = c + routers[j].rule.operators
        <3>1. CASE IsOfBase(s, j, routers[j])
            BY <3>1 DEF IsOfBase, IsOfBaseAt
        <3>2. CASE IsOfTarget(s, j, routers[j])
            BY <3>2 DEF IsOfTarget, IsOfTargetAt
        <3>3. CASE IsOfHTTPSplit(s, j, routers[j])
            BY <3>3 DEF IsOfHTTPSplit, IsOfHTTPSplitAt
        <3>4. CASE IsOfMapped(s, j, routers[j])
            BY <3>4 DEF IsOfMapped, IsOfMappedAt
        <3> QED BY <2>1, <3>1, <3>2, <3>3, <3>4 DEF IsListed
    <2>4. PICK m, p : m = routers[j].rule.operators /\ p = routers[j].priority
        OBVIOUS
    <2>5. m \in 0 .. 999 /\ (p \in {0, 1} \/ \E c \in {1000, 2000, 3000, 4000} : p = c + m)
        BY <2>2, <2>3, <2>4
    <2>6. p \in 0 .. 4999
        BY <2>5
    <2> QED BY <2>4, <2>6
<1>2. routers[k] \in matching
    OBVIOUS
<1>3. \A router \in matching : router.priority \in 0 .. 4999
    BY <1>1
<1> HIDE DEF matching
<1>4. PICK n \in Nat : n = 5000
    OBVIOUS
<1>5. T \in SUBSET (1 .. n) /\ T # {}
    <2>1. ASSUME NEW router \in matching PROVE router.priority + 1 \in 1 .. n
        <3>1. PICK p : p = router.priority
            OBVIOUS
        <3>2. p \in 0 .. 4999
            BY <1>3, <3>1
        <3>3. p + 1 \in 1 .. n
            BY <1>4, <3>2
        <3> QED BY <3>1, <3>3
    <2>2. T \subseteq 1 .. n
        BY <2>1
    <2>3. routers[k].priority + 1 \in T
        BY <1>2
    <2> QED BY <2>2, <2>3
<1>6. PICK p \in T : \A q \in T : q <= p
    <2> HIDE DEF T
    <2> QED BY <1>5, LastOf
<1>7. PICK router \in matching : p = router.priority + 1
    BY <1>6
<1>8. ASSUME NEW other \in matching PROVE other.priority <= router.priority
    <2>1. other.priority + 1 \in T
        OBVIOUS
    <2>2. other.priority + 1 <= router.priority + 1
        BY <1>6, <1>7, <2>1
    <2>3. PICK x, y : x = other.priority /\ y = router.priority
        OBVIOUS
    <2>4. x \in 0 .. 4999
        BY <1>3, <2>3
    <2>5. y \in 0 .. 4999
        BY <1>3, <2>3
    <2>6. x + 1 <= y + 1
        BY <2>2, <2>3
    <2>7. x <= y
        BY <2>4, <2>5, <2>6
    <2> QED BY <2>3, <2>7
<1>9. router \in Chosen(request, entry)
    BY <1>7, <1>8 DEF Chosen, matching
<1> QED BY <1>9

\* An HTTP router that a request at the entry point of the i-th port matches is one of the
\* service that it is at, and of that port.
LEMMA HTTPCandidates ==
    ASSUME ClusterInv, ListInv, NEW s, NEW i, NEW k \in DOMAIN routers,
           routers[k].entry = <<"http", i>>, s \in routers[k].rule.services
    PROVE  /\ s \in Known
           /\ \/ IsOfBaseAt(s, k, routers[k], i)
              \/ \E tt \in services[s].targets, way \in {"direct", "indirect"} :
                    i \in DOMAIN DestinationPorts(tt, s) /\ IsOfTargetAt(s, k, routers[k], tt, way, i)
              \/ \E ts \in ToSet(services[s].splits), way \in {"direct", "indirect"} :
                    IsOfHTTPSplitAt(s, k, routers[k], ts, way, i)
<1>1. PICK t \in Known : HasRouters(t) /\ IsListed(t, k, routers[k])
    BY DEF ListInv, IsOneOf
<1>2. cluster.type[t] = "http"
    <2> SUFFICES ASSUME cluster.type[t] # "http" PROVE FALSE
        OBVIOUS
    <2>1. PICK j : routers[k].entry = MappedEntryPoint(t, Ports(t)[j])
        BY <1>1 DEF IsListed, IsOfMapped, IsOfMappedAt
    <2> DEFINE port == cluster.meshPort[<<t, Ports(t)[j].number>>]
    <2>2. <<"http", i>> = <<cluster.type[t], port>>
        BY <2>1 DEF MappedEntryPoint
    <2> HIDE DEF port
    <2> QED BY <2>2
<1>3. ASSUME NEW j, IsAtPort(t, j, routers[k]) PROVE t = s /\ j = i
    <2>1. <<"http", i>> = <<"http", j>> /\ s \in {t}
        BY <1>3 DEF IsAtPort
    <2> QED BY <2>1
<1>4. CASE IsOfBase(t, k, routers[k])
    <2>1. PICK j \in DOMAIN Ports(t) : IsOfBaseAt(t, k, routers[k], j)
        BY <1>4 DEF IsOfBase
    <2>2. t = s /\ j = i
        BY <1>3, <2>1 DEF IsOfBaseAt
    <2> QED BY <2>1, <2>2
<1>5. CASE IsOfTarget(t, k, routers[k])
    <2>1. PICK tt \in services[t].targets, way \in {"direct", "indirect"} :
            \E j \in DOMAIN DestinationPorts(tt, t) : IsOfTargetAt(t, k, routers[k], tt, way, j)
        BY <1>5 DEF IsOfTarget
    <2>2. PICK j \in DOMAIN DestinationPorts(tt, t) : IsOfTargetAt(t, k, routers[k], tt, way, j)
        BY <2>1
    <2>3. t = s /\ j = i
        BY <1>3, <2>2 DEF IsOfTargetAt
    <2> QED BY <2>2, <2>3
<1>6. CASE IsOfHTTPSplit(t, k, routers[k])
    <2>1. PICK ts \in ToSet(services[t].splits), way \in {"direct", "indirect"} :
            \E j \in DOMAIN Ports(t) : IsOfHTTPSplitAt(t, k, routers[k], ts, way, j)
        BY <1>6 DEF IsOfHTTPSplit
    <2>2. PICK j \in DOMAIN Ports(t) : IsOfHTTPSplitAt(t, k, routers[k], ts, way, j)
        BY <2>1
    <2>3. t = s /\ j = i
        BY <1>3, <2>2 DEF IsOfHTTPSplitAt
    <2> QED BY <2>2, <2>3
<1> QED BY <1>1, <1>2, <1>4, <1>5, <1>6 DEF IsListed

\* A TCP or UDP router at the entry point of a port is one of its service and of this port.
LEMMA MappedCandidates ==
    ASSUME ClusterInv, PortsAreDistinct, ListInv, NEW s \in Known, cluster.type[s] # "http",
           NEW i \in DOMAIN Ports(s), IsMapped(s, Ports(s)[i]),
           NEW k \in DOMAIN routers, routers[k].entry = MappedEntryPoint(s, Ports(s)[i])
    PROVE  /\ IsOfMappedAt(s, k, routers[k], i)
           /\ services[s].splits # << >> => LeadsToSplit(s, routers[k])
<1>1. PICK t \in Known :
        /\ HasRouters(t) /\ IsListed(t, k, routers[k])
        /\ cluster.type[t] # "http" /\ services[t].splits # << >> => LeadsToSplit(t, routers[k])
    BY DEF ListInv, IsOneOf
<1> DEFINE l == <<s, Ports(s)[i].number>>
<1>2. l \in DOMAIN cluster.meshPort /\ routers[k].entry = <<cluster.type[s], cluster.meshPort[l]>>
    BY DEF IsMapped, MappedEntryPoint
<1>3. l[1] = s /\ l[2] = Ports(s)[i].number
    OBVIOUS
<1> HIDE DEF l
<1>4. cluster.type[t] # "http"
    <2> SUFFICES ASSUME cluster.type[t] = "http" PROVE FALSE
        OBVIOUS
    <2>1. \E j : IsAtPort(t, j, routers[k])
        <3>1. CASE IsOfBase(t, k, routers[k])
            BY <3>1 DEF IsOfBase, IsOfBaseAt
        <3>2. CASE IsOfTarget(t, k, routers[k])
            BY <3>2 DEF IsOfTarget, IsOfTargetAt
        <3>3. CASE IsOfHTTPSplit(t, k, routers[k])
            BY <3>3 DEF IsOfHTTPSplit, IsOfHTTPSplitAt
        <3> QED BY <1>1, <3>1, <3>2, <3>3 DEF IsListed
    <2>2. PICK j : routers[k].entry = <<"http", j>>
        BY <2>1 DEF IsAtPort
    <2> QED BY <1>2, <2>2
<1>5. PICK j \in DOMAIN Ports(t) : IsOfMappedAt(t, k, routers[k], j)
    BY <1>1, <1>4 DEF IsListed, IsOfMapped
<1> DEFINE m == <<t, Ports(t)[j].number>>
<1>6. m \in DOMAIN cluster.meshPort /\ routers[k].entry = <<cluster.type[t], cluster.meshPort[m]>>
    BY <1>5 DEF IsOfMappedAt, IsMapped, MappedEntryPoint
<1>7. m[1] = t /\ m[2] = Ports(t)[j].number
    OBVIOUS
<1> HIDE DEF m
<1>8. m = l
    BY <1>2, <1>3, <1>6, <1>7, RoutingAssumption DEF Known, ClusterInv
<1>9. t = s /\ Ports(t)[j].number = Ports(s)[i].number
    BY <1>3, <1>7, <1>8
<1>10. j = i
    BY <1>5, <1>9 DEF PortsAreDistinct
<1> QED BY <1>1, <1>4, <1>5, <1>9, <1>10

\* A router with the key of a port of a service is one of this service.
LEMMA OwnerOfKey ==
    ASSUME ListInv, ClusterInv, OrdinaryCluster, PortsAreDistinct,
           NEW s \in Known, NEW i \in DOMAIN Ports(s),
           NEW k \in DOMAIN routers, k = ServiceKey(s, Ports(s)[i])
    PROVE  IF cluster.type[s] = "http" THEN IsOfBaseAt(s, k, routers[k], i)
           ELSE IsOfMappedAt(s, k, routers[k], i)
<1>1. PICK t \in Known : IsListed(t, k, routers[k])
    BY DEF ListInv, IsOneOf
<1>2. k = <<Joined[s], Ports(s)[i].number>>
    BY DEF ServiceKey
<1>3. ASSUME NEW j \in DOMAIN Ports(t), k = ServiceKey(t, Ports(t)[j]) PROVE t = s /\ j = i
    <2>1. <<Joined[t], Ports(t)[j].number>> = <<Joined[s], Ports(s)[i].number>>
        BY <1>2, <1>3 DEF ServiceKey
    <2>2. Joined[t] = Joined[s] /\ Ports(t)[j].number = Ports(s)[i].number
        BY <2>1
    <2>3. t = s
        BY <2>2, KeysAssumption, ClusterAssumption DEF ClusterInv, Known
    <2> QED BY <2>2, <2>3, <1>3 DEF PortsAreDistinct
<1>4. CASE IsOfBase(t, k, routers[k]) /\ cluster.type[t] = "http"
    BY <1>3, <1>4 DEF IsOfBase, IsOfBaseAt
<1>5. CASE IsOfMapped(t, k, routers[k]) /\ cluster.type[t] # "http"
    BY <1>3, <1>5 DEF IsOfMapped, IsOfMappedAt
<1>6. ~ IsOfTarget(t, k, routers[k])
    <2> SUFFICES ASSUME IsOfTarget(t, k, routers[k]) PROVE FALSE
        OBVIOUS
    <2>1. PICK a, b, c, d, e : k = <<a, b, c, d, e>>
        BY DEF IsOfTarget, IsOfTargetAt, TargetKey
    <2> QED BY <1>2, <2>1
<1>7. ~ IsOfHTTPSplit(t, k, routers[k])
    <2> SUFFICES ASSUME IsOfHTTPSplit(t, k, routers[k]) PROVE FALSE
        OBVIOUS
    <2>1. PICK a, b, c, d, e : k = <<a, b, c, d, e>>
        BY DEF IsOfHTTPSplit, IsOfHTTPSplitAt, SplitKey
    <2> QED BY <1>2, <2>1
<1> QED BY <1>1, <1>4, <1>5, <1>6, <1>7 DEF IsListed

\* A router with the key of a target, a port and a way is one of the target, the port and
\* the way.
LEMMA TargetOfKey ==
    ASSUME ListInv, OrdinaryCluster, PortsAreDistinct, cluster.acl,
           BuildInv, step = "configured",
           NEW s \in Known, cluster.type[s] = "http", NEW tt \in Target, Applies(tt, s),
           NEW i \in DOMAIN DestinationPorts(tt, s), NEW way,
           NEW k \in DOMAIN routers, k = TargetKey(tt, s, DestinationPorts(tt, s)[i], way)
    PROVE  IsOfTargetAt(s, k, routers[k], tt, way, i)
<1>1. PICK t \in Known : HasRouters(t) /\ IsListed(t, k, routers[k])
    BY DEF ListInv, IsOneOf
<1>2. k = <<Joined[s], Joined[tt], DestinationPorts(tt, s)[i].number, "target", way>>
    BY DEF TargetKey
<1>3. ~ IsOfBase(t, k, routers[k]) /\ ~ IsOfMapped(t, k, routers[k])
    <2> SUFFICES ASSUME IsOfBase(t, k, routers[k]) \/ IsOfMapped(t, k, routers[k]) PROVE FALSE
        OBVIOUS
    <2>1. PICK a, b : k = <<a, b>>
        BY DEF IsOfBase, IsOfBaseAt, IsOfMapped, IsOfMappedAt, ServiceKey
    <2> QED BY <1>2, <2>1
<1>4. ~ IsOfHTTPSplit(t, k, routers[k])
    <2> SUFFICES ASSUME IsOfHTTPSplit(t, k, routers[k]) PROVE FALSE
        OBVIOUS
    <2>1. PICK a, b, c, e : k = <<a, b, c, "split", e>>
        BY DEF IsOfHTTPSplit, IsOfHTTPSplitAt, SplitKey
    <2>2. "target" # "split"
        OBVIOUS
    <2> QED BY <1>2, <2>1, <2>2
<1>5. PICK uu \in services[t].targets, mode \in {"direct", "indirect"} :
        \E j \in DOMAIN DestinationPorts(uu, t) : IsOfTargetAt(t, k, routers[k], uu, mode, j)
    BY <1>1, <1>3, <1>4 DEF IsListed, IsOfTarget
<1>6. PICK j \in DOMAIN DestinationPorts(uu, t) : IsOfTargetAt(t, k, routers[k], uu, mode, j)
    BY <1>5
<1>7. k = <<Joined[t], Joined[uu], DestinationPorts(uu, t)[j].number, "target", mode>>
    BY <1>6 DEF IsOfTargetAt, TargetKey
<1>8. /\ Joined[t] = Joined[s] /\ Joined[uu] = Joined[tt] /\ mode = way
      /\ DestinationPorts(uu, t)[j].number = DestinationPorts(tt, s)[i].number
    BY <1>2, <1>7
<1>9. t = s
    BY <1>8, KeysAssumption, ClusterAssumption DEF ClusterInv, BuildInv, TopologyInv, Known
<1>10. uu \in Target
    BY <1>5, <1>9, TargetsAreApplied DEF TargetsApply, BuildInv, TopologyInv, ServicesInv
<1>11. uu = tt
    BY <1>8, <1>10, KeysAssumption
<1>12. j = i
    <2>1. /\ i \in DOMAIN Ports(s) /\ DestinationPorts(tt, s)[i] = Ports(s)[i]
          /\ j \in DOMAIN Ports(s) /\ DestinationPorts(tt, s)[j] = Ports(s)[j]
        BY <1>6, <1>9, <1>11 DEF OrdinaryCluster
    <2> QED BY <1>8, <1>9, <1>11, <2>1 DEF PortsAreDistinct
<1> QED BY <1>6, <1>8, <1>9, <1>11, <1>12

--------------------------------------------------------------------------------
(* A request at a proxy.                                                    *)

\* What a request knows of its way: who sent it, and that a proxy has added the address of
\* the sender when a split has led to an HTTP service in ACL mode.
WayInv ==
    request # None =>
        /\ request.meets \in RequestKind /\ request.from \in Pod
        /\ request.via = None => request.remote = request.from
        /\ request.via # None /\ cluster.acl /\ cluster.type[request.service] = "http" =>
              /\ request.via = request.from
              /\ services[request.service].splits = << >> /\ IsBackend(request.service)

\* The reasons for which a request may be refused or lost, see AllowedIsServed.
Excused(r) ==
    \/ \E s \in Reached(r) :
        \/ ~ HasRouters(s) \/ EntryPoints(s, r.asked) = {}
        \/ \E ts \in SplitsFor(r, s) : trafficSplits[ts].backends = << >>
    \/ \E s \in EndsOf(r) : ~ IsToBeServed(r, s)

\* What is known when a request without such a reason comes to a proxy.
Ready ==
    /\ IInv /\ RankInv /\ NumberInv /\ ListInv /\ WayInv /\ BackendsInv /\ FlatInv
    /\ OrdinaryCluster /\ PlainTopology /\ ShortRules
    /\ IsAtProxy /\ ~ Excused(request)

\* Whatever router is chosen lets the request through and leads to backends or to pods that
\* run.
Serves(entry) ==
    /\ Chosen(request, entry) # {}
    /\ \A router \in Chosen(request, entry) :
        /\ LetsThrough(router.access, request)
        /\ router.target.servers # {} \/ router.target.backends # << >>
        /\ \A server \in router.target.servers : server[1] \in cluster.running

LEMMA ReadyFacts ==
    ASSUME Ready
    PROVE  /\ BuildInv /\ ClusterInv /\ step = "configured" /\ request # None
           /\ cluster.acl \in BOOLEAN
           /\ configured = Known /\ DOMAIN services = Known /\ request.number = request.asked
           /\ request.service \in Reached(request) /\ request.service \in Known
           /\ HasRouters(request.service) /\ HasKeys(request.service, routers)
           /\ \A ts \in SplitsFor(request, request.service) : trafficSplits[ts].backends # << >>
           /\ request.service \in EndsOf(request) => IsToBeServed(request, request.service)
<1>1. BuildInv /\ ClusterInv /\ IsComplete /\ request # None /\ step = "configured"
    BY DEF Ready, IInv, NumberInv, IsAtProxy, BuildInv, TopologyInv, IsComplete
<1>2. DOMAIN services = Known /\ configured = Known
    BY <1>1 DEF BuildInv, TopologyInv, ServicesInv, IsComplete
<1>3. request.service \in Reached(request)
    BY <1>1 DEF Ready, IInv, NoRequestStrays
<1>4. request.service \in Known
    BY <1>3, ReachIsKnown DEF Reached
<1>5. HasRouters(request.service)
    BY <1>3 DEF Ready, Excused
<1>6. HasKeys(request.service, routers)
    BY <1>2, <1>4, <1>5 DEF Ready, ListInv
<1>7. cluster.acl \in BOOLEAN
    BY <1>1, RoutingAssumption DEF ClusterInv
<1>8. \A ts \in SplitsFor(request, request.service) : trafficSplits[ts].backends # << >>
    BY <1>3 DEF Ready, Excused
<1>9. request.service \in EndsOf(request) => IsToBeServed(request, request.service)
    BY DEF Ready, Excused
<1>10. request.number = request.asked
    BY <1>1 DEF Ready, NumberInv
<1> QED BY <1>1, <1>2, <1>3, <1>4, <1>5, <1>6, <1>7, <1>8, <1>9, <1>10

\* A router of a lower class is not chosen when one of a higher class matches.
LEMMA ChosenIsNotLower ==
    ASSUME ShortRules, NEW entry, NEW router \in Chosen(request, entry), NEW k \in DOMAIN routers,
           routers[k].entry = entry, MatchesRule(request, routers[k].rule),
           NEW c \in {2000, 3000, 4000}, routers[k].priority = c + routers[k].rule.operators,
           NEW d \in {1000, 2000, 3000}, d < c
    PROVE  router.priority # 1 /\ router.priority # d + router.rule.operators
<1>1. router.rule.operators \in 0 .. 999 /\ routers[k].rule.operators \in 0 .. 999
    BY DEF ShortRules, Chosen
<1>2. routers[k].priority <= router.priority
    BY DEF Chosen
<1>3. PICK m, n, p, q : /\ m = router.rule.operators /\ n = routers[k].rule.operators
                        /\ p = router.priority /\ q = routers[k].priority
    OBVIOUS
<1>4. m \in 0 .. 999 /\ n \in 0 .. 999 /\ q = c + n /\ q <= p
    BY <1>1, <1>2, <1>3
<1>5. p # 1 /\ p # d + m
    BY <1>4
<1> QED BY <1>3, <1>5

\* The matches of a target or a split without an empty one.
LEMMA AdmittedMatches ==
    ASSUME NEW rule, NEW rules, rule.matches = ToSet(HTTPMatches(rules)) \ {{}},
           {} \notin ToSet(HTTPMatches(rules)), Admits(rules, request.meets),
           request.service \in rule.services, rule.forwarded => request.via # None
    PROVE  MatchesRule(request, rule)
<1>1. PICK matches : matches = ToSet(HTTPMatches(rules))
    OBVIOUS
<1>2. matches \ {{}} = matches
    BY <1>1
<1>3. rule.matches = matches
    BY <1>1, <1>2
<1>4. matches = {} \/ \E m \in matches : m \subseteq request.meets
    BY <1>1 DEF Admits
<1> QED BY <1>3, <1>4 DEF MatchesRule

\* An HTTP router of a split that a request matches is of a split for the request.
LEMMA SplitRouterIsFor ==
    ASSUME NEW s, NEW k, NEW us \in ToSet(services[s].splits), NEW way, NEW i,
           IsOfHTTPSplitAt(s, k, routers[k], us, way, i), MatchesRule(request, routers[k].rule)
    PROVE  us \in SplitsFor(request, s)
<1>1. PICK rule, rules : rule = routers[k].rule /\ rules = cluster.splits[us].rules
    OBVIOUS
<1>2. rule.matches = ToSet(HTTPMatches(rules)) \ {{}} /\ MatchesRule(request, rule)
    BY <1>1 DEF IsOfHTTPSplitAt
<1>3. Admits(rules, request.meets)
    BY <1>2, RuleAdmits
<1> QED BY <1>1, <1>3 DEF SplitsFor

--------------------------------------------------------------------------------
\* Whom the splits of a service let through who may call all its backends.
LEMMA SplitLetsThrough ==
    ASSUME Ready, cluster.acl, cluster.type[request.service] = "http",
           NEW ts \in SplitsFor(request, request.service)
    PROVE  request.from \in trafficSplits[ts].incoming /\ request.remote = request.from
<1> PICK s : s = request.service
    OBVIOUS
<1>1. /\ BuildInv /\ step = "configured" /\ s \in Known /\ s \in Reached(request) /\ request # None
      /\ trafficSplits[ts].backends # << >>
    BY ReadyFacts
<1>2. ts \in ToSet(services[s].splits)
    BY DEF SplitsFor
<1>3. ts \in SplitsLeft /\ trafficSplits[ts].service = s
    BY <1>1, <1>2, LeftOf
<1>4. UNION {SplitsFor(request, t) : t \in Known} \in SUBSET Split
    <2> SUFFICES ASSUME NEW t \in Known, NEW u \in SplitsFor(request, t) PROVE u \in Split
        OBVIOUS
    <2>1. u \in ToSet(services[t].splits)
        BY DEF SplitsFor
    <2> QED BY <1>1, <2>1, LeftOf DEF SplitsLeft
<1>5. BackendsKnown
    BY <1>1 DEF BackendsKnown, BuildInv, TopologyInv, SplitsInv
<1>6. ASSUME NEW b \in ToSet(trafficSplits[ts].backends)
      PROVE  services[b].splits = << >> /\ request.from \in AllowedPods(b)
    <2>1. b \in Reached(request)
        BY <1>1, <1>3, <1>4, <1>5, ReachStep DEF Reached
    <2>2. b \in Known
        BY <2>1, ReachIsKnown DEF Reached
    <2>3. cluster.type[b] # "invalid"
        BY <2>1 DEF Ready, Excused, HasRouters
    <2>4. cluster.type[b] = "http" /\ services[b].splits = << >>
        BY <1>1, <1>2, <2>3 DEF Ready, PlainTopology, SplitsAreFlat
    <2>5. SplitsFor(request, b) = {}
        BY <2>4 DEF SplitsFor, ToSet
    <2>6. IsToBeServed(request, b)
        BY <2>1, <2>5 DEF EndsOf, Ready, Excused
    <2>7. PICK tt \in Target : Allows(tt, b, request)
        BY <2>6 DEF IsToBeServed
    <2>8. Applies(tt, b) /\ request.from \in SourcePods(tt)
        BY <2>4, <2>7 DEF Allows
    <2> QED BY <2>4, <2>8 DEF AllowedPods, SourcePods
<1>7. request.from \in Pod
    BY <1>1 DEF Ready, WayInv
<1>8. request.from \in trafficSplits[ts].incoming
    BY <1>1, <1>3, <1>6, <1>7 DEF Ready, FlatInv
<1>9. services[s].splits # << >>
    BY <1>2 DEF ToSet
<1>10. request.via = None
    BY <1>1, <1>9 DEF Ready, WayInv
<1> QED BY <1>1, <1>8, <1>10 DEF Ready, WayInv

\* The entry point of an HTTP service with a split for the request.
LEMMA SplitServes ==
    ASSUME Ready, cluster.type[request.service] = "http",
           NEW ts \in SplitsFor(request, request.service),
           NEW i \in DOMAIN Ports(request.service), i <= HTTPEntryPoints
    PROVE  Serves(<<"http", i>>)
<1> PICK s : s = request.service
    OBVIOUS
<1>1. /\ BuildInv /\ ClusterInv /\ step = "configured" /\ s \in Known /\ s \in DOMAIN services
      /\ HasRouters(s) /\ s \in configured
      /\ request # None /\ cluster.acl \in BOOLEAN
      /\ \A us \in SplitsFor(request, s) : trafficSplits[us].backends # << >>
    BY ReadyFacts
<1>2. /\ ts \in ToSet(services[s].splits) /\ ts \in Split
      /\ Admits(cluster.splits[ts].rules, request.meets)
    BY <1>1, OwnSplits DEF SplitsFor
<1>3. SpecsExist(cluster.splits[ts].rules)
    BY <1>1, <1>2 DEF BuildInv, TopologyInv, AttachedInv, SplitsAt, Attached
<1>4. PICK k : k = SplitKey(ts, s, Ports(s)[i], "direct")
    OBVIOUS
<1>5. k \in DOMAIN routers
    BY <1>1, <1>2, <1>4 DEF Ready, RankInv, SplitsHaveRouters
<1>6. IsDirect(s, ts, i, routers[k])
    BY <1>1, <1>2, <1>4, <1>5 DEF Ready, RankInv, AllKeyed
<1>7. ~ routers[k].rule.forwarded
    <2> SUFFICES ASSUME routers[k].rule.forwarded PROVE FALSE
        OBVIOUS
    <2>1. cluster.acl /\ IsBackend(s) /\ i > 1
        BY <1>6 DEF IsDirect
    <2>2. Len(Ports(s)) <= 1
        BY <1>1, <2>1 DEF Ready, PlainTopology, BackendsHaveOnePort
    <2>3. Ports(s) \in Seq(PortType)
        BY <1>1, ClusterAssumption DEF ClusterInv, Ports, Known
    <2>4. i \in 1 .. Len(Ports(s))
        BY <2>3
    <2> QED BY <2>1, <2>2, <2>3, <2>4
<1>8. MatchesRule(request, routers[k].rule)
    <2>1. {} \notin ToSet(HTTPMatches(cluster.splits[ts].rules))
        BY <1>2, <1>3 DEF Ready, OrdinaryCluster, MatchesAsk
    <2>2. PICK rule, rules : rule = routers[k].rule /\ rules = cluster.splits[ts].rules
        OBVIOUS
    <2>3. /\ rule.matches = ToSet(HTTPMatches(rules)) \ {{}} /\ request.service \in rule.services
          /\ ~ rule.forwarded
        BY <1>6, <1>7, <2>2 DEF IsDirect
    <2>4. {} \notin ToSet(HTTPMatches(rules)) /\ Admits(rules, request.meets)
        BY <1>2, <2>1, <2>2
    <2>5. MatchesRule(request, rule)
        BY <2>3, <2>4, AdmittedMatches
    <2> QED BY <2>2, <2>5
<1>9. routers[k].entry = <<"http", i>>
    BY <1>6 DEF IsDirect
<1>10. Chosen(request, <<"http", i>>) # {}
    BY <1>5, <1>8, <1>9, ChosenExists DEF Ready
<1>11. ASSUME NEW router \in Chosen(request, <<"http", i>>)
       PROVE  \E us \in SplitsFor(request, s) :
                /\ router.target.backends = trafficSplits[us].backends
                /\ router.target.servers = {}
                /\ ~ cluster.acl => router.access = Anybody
                /\ cluster.acl => /\ router.access.pods = trafficSplits[us].incoming
                                  /\ ~ router.access.forwarded
    <2>1. PICK l \in DOMAIN routers : /\ router = routers[l] /\ routers[l].entry = <<"http", i>>
                                      /\ MatchesRule(request, routers[l].rule)
        BY DEF Chosen
    <2>2. s \in routers[l].rule.services
        BY <2>1 DEF MatchesRule
    <2>3. /\ router.priority # 1 /\ router.priority # 1000 + router.rule.operators
          /\ router.priority # 2000 + router.rule.operators
          /\ router.priority # 3000 + router.rule.operators
        <3>1. routers[k].priority = 4000 + routers[k].rule.operators
            BY <1>6 DEF IsDirect
        <3> QED BY <1>5, <1>8, <1>9, <3>1, ChosenIsNotLower DEF Ready
    <2>4. ~ IsOfBaseAt(s, l, routers[l], i)
        BY <2>1, <2>3 DEF IsOfBaseAt
    <2>5. ASSUME NEW tt, NEW way \in {"direct", "indirect"}
          PROVE  ~ IsOfTargetAt(s, l, routers[l], tt, way, i)
        BY <2>1, <2>3 DEF IsOfTargetAt
    <2>6. PICK us \in ToSet(services[s].splits), way \in {"direct", "indirect"} :
            IsOfHTTPSplitAt(s, l, routers[l], us, way, i)
        BY <1>1, <2>1, <2>2, <2>4, <2>5, HTTPCandidates DEF Ready
    <2>7. way = "direct"
        BY <2>1, <2>3, <2>6 DEF IsOfHTTPSplitAt
    <2>8. us \in SplitsFor(request, s)
        BY <2>1, <2>6, SplitRouterIsFor
    <2> QED BY <2>1, <2>6, <2>7, <2>8 DEF IsOfHTTPSplitAt
<1>12. ASSUME NEW router \in Chosen(request, <<"http", i>>)
       PROVE  /\ LetsThrough(router.access, request)
              /\ router.target.servers = {} /\ router.target.backends # << >>
    <2>1. PICK us \in SplitsFor(request, s) :
                /\ router.target.backends = trafficSplits[us].backends
                /\ router.target.servers = {}
                /\ ~ cluster.acl => router.access = Anybody
                /\ cluster.acl => /\ router.access.pods = trafficSplits[us].incoming
                                  /\ ~ router.access.forwarded
        BY <1>11
    <2>2. CASE cluster.acl
        <3>1. request.remote \in router.access.pods
            BY <2>1, <2>2, SplitLetsThrough
        <3> QED BY <1>1, <2>1, <2>2, <3>1 DEF LetsThrough
    <2>3. CASE ~ cluster.acl
        BY <1>1, <2>1, <2>3 DEF LetsThrough, Anybody
    <2> QED BY <2>1, <2>2, <2>3, <1>1
<1> QED BY <1>10, <1>12 DEF Serves

\* Ports of a service with the number that was asked for are the same.
LEMMA SamePort ==
    ASSUME PortsAreDistinct, NEW s \in Known, NEW i \in DOMAIN Ports(s), NEW j \in DOMAIN Ports(s),
           Ports(s)[i].number = request.asked, Ports(s)[j].number = request.asked
    PROVE  i = j
BY DEF PortsAreDistinct

\* A pod with an IP and a port is a server that runs, and so are the others.
LEMMA PodsServe ==
    ASSUME NEW pods \in SUBSET cluster.running, NEW port, NEW p \in pods, ResolvedPort(port, p) # 0
    PROVE  /\ ToPods(pods, port).servers # {}
           /\ \A server \in ToPods(pods, port).servers : server[1] \in cluster.running
<1>1. <<p, ResolvedPort(port, p)>> \in ToPods(pods, port).servers
    BY DEF ToPods
<1>2. ASSUME NEW server \in ToPods(pods, port).servers PROVE server[1] \in cluster.running
    <2>1. PICK q \in pods : server = <<q, ResolvedPort(port, q)>>
        BY DEF ToPods
    <2> QED BY <2>1
<1> QED BY <1>1, <1>2

\* The pods of a service without ACL, when a request is to be served by one.
LEMMA EndpointsServe ==
    ASSUME Ready, ~ cluster.acl, NEW s, s = request.service, SplitsFor(request, s) = {},
           NEW i \in DOMAIN Ports(s), Ports(s)[i].number = request.number
    PROVE  /\ ToPods(cluster.endpoints[s], Ports(s)[i]).servers # {}
           /\ \A server \in ToPods(cluster.endpoints[s], Ports(s)[i]).servers :
                server[1] \in cluster.running
<1>1. /\ s \in Known /\ s \in Reached(request) /\ request.number = request.asked
      /\ s \in EndsOf(request) => IsToBeServed(request, s)
    BY ReadyFacts
<1>2. PICK j : j \in PortsAt(Ports(s), request, cluster.endpoints[s] \cap cluster.running)
    BY <1>1 DEF EndsOf, IsToBeServed
<1>3. PICK p \in cluster.endpoints[s] \cap cluster.running : ResolvedPort(Ports(s)[j], p) # 0
    BY <1>2 DEF PortsAt
<1>4. j = i
    BY <1>1, <1>2, SamePort DEF PortsAt, Ready, PlainTopology
<1>5. cluster.endpoints[s] \subseteq cluster.running
    BY <1>1, <1>3 DEF Ready, PlainTopology, PodsRunTogether
<1> QED BY <1>3, <1>4, <1>5, PodsServe

\* The entry point of an HTTP service without a split for the request, without ACL.
LEMMA ServiceServes ==
    ASSUME Ready, ~ cluster.acl, cluster.type[request.service] = "http",
           SplitsFor(request, request.service) = {},
           NEW i \in DOMAIN Ports(request.service), i <= HTTPEntryPoints,
           Ports(request.service)[i].number = request.number
    PROVE  Serves(<<"http", i>>)
<1> PICK s : s = request.service
    OBVIOUS
<1>1. ClusterInv /\ s \in Known /\ HasKeys(s, routers)
    BY ReadyFacts
<1>2. PICK k : k = ServiceKey(s, Ports(s)[i])
    OBVIOUS
<1>3. k \in DOMAIN routers
    BY <1>1, <1>2 DEF HasKeys, HasPortKeys
<1>4. IsOfBaseAt(s, k, routers[k], i)
    BY <1>1, <1>2, <1>3, OwnerOfKey DEF Ready, PlainTopology
<1>5. routers[k].entry = <<"http", i>> /\ MatchesRule(request, routers[k].rule)
    BY <1>4 DEF IsOfBaseAt, IsAtPort, MatchesRule
<1>6. Chosen(request, <<"http", i>>) # {}
    BY <1>3, <1>5, ChosenExists DEF Ready
<1>7. ASSUME NEW router \in Chosen(request, <<"http", i>>)
      PROVE  router.access = Anybody /\ router.target = ToPods(cluster.endpoints[s], Ports(s)[i])
    <2>1. PICK l \in DOMAIN routers : /\ router = routers[l] /\ routers[l].entry = <<"http", i>>
                                      /\ MatchesRule(request, routers[l].rule)
        BY DEF Chosen
    <2>2. s \in routers[l].rule.services
        BY <2>1 DEF MatchesRule
    <2>3. ASSUME NEW us \in ToSet(services[s].splits), NEW way
          PROVE  ~ IsOfHTTPSplitAt(s, l, routers[l], us, way, i)
        BY <2>1, SplitRouterIsFor
    <2>4. IsOfBaseAt(s, l, routers[l], i)
        <3>1. \A tt, way : ~ IsOfTargetAt(s, l, routers[l], tt, way, i)
            BY DEF IsOfTargetAt
        <3> QED BY <1>1, <2>1, <2>2, <2>3, <3>1, HTTPCandidates DEF Ready
    <2> QED BY <2>1, <2>4 DEF IsOfBaseAt
<1>8. Anybody.open
    BY DEF Anybody
<1> QED BY <1>6, <1>7, <1>8, EndpointsServe DEF Serves, LetsThrough

--------------------------------------------------------------------------------
\* The target that allows a request to the end of its way has a pod for it.
LEMMA TargetServes ==
    ASSUME Ready, cluster.acl, NEW s, s = request.service, SplitsFor(request, s) = {},
           NEW i \in DOMAIN Ports(s), Ports(s)[i].number = request.number
    PROVE  \E tt \in services[s].targets :
              /\ tt \in Target /\ Allows(tt, s, request) /\ Obeys(tt, s, request.meets)
              /\ \E j \in DOMAIN DestinationPorts(tt, s) :
                    /\ DestinationPorts(tt, s)[j] = Ports(s)[i]
                    /\ cluster.type[s] = "http" => j = i
              /\ ToPods(DestinationPods(tt, s), Ports(s)[i]).servers # {}
              /\ \A server \in ToPods(DestinationPods(tt, s), Ports(s)[i]).servers :
                    server[1] \in cluster.running
<1>1. /\ BuildInv /\ ClusterInv /\ step = "configured" /\ s \in Known /\ DOMAIN services = Known
      /\ s \in Reached(request) /\ request.number = request.asked
      /\ s \in EndsOf(request) => IsToBeServed(request, s)
    BY ReadyFacts
<1>2. PICK tt \in Target :
        /\ Allows(tt, s, request)
        /\ PortsAt(DestinationPorts(tt, s), request, DestinationPods(tt, s)) # {}
    BY <1>1 DEF EndsOf, IsToBeServed
<1>3. PICK j \in DOMAIN DestinationPorts(tt, s) :
        /\ DestinationPorts(tt, s)[j].number = request.asked
        /\ \E p \in DestinationPods(tt, s) : ResolvedPort(DestinationPorts(tt, s)[j], p) # 0
    BY <1>2 DEF PortsAt
<1>4. PICK p \in DestinationPods(tt, s) : ResolvedPort(DestinationPorts(tt, s)[j], p) # 0
    BY <1>3
<1>5. DestinationPorts(tt, s)[j] = Ports(s)[i] /\ (cluster.type[s] = "http" => j = i)
    <2>1. CASE cluster.type[s] = "http"
        <3>1. j \in DOMAIN Ports(s) /\ DestinationPorts(tt, s)[j] = Ports(s)[j]
            BY <1>1, <1>2, <2>1 DEF Allows, Ready, OrdinaryCluster
        <3>2. i = j
            BY <1>1, <1>3, <3>1, SamePort DEF Ready, PlainTopology
        <3> QED BY <3>1, <3>2
    <2>2. CASE cluster.type[s] # "http"
        <3>1. PICK n \in DOMAIN Ports(s) : DestinationPorts(tt, s)[j] = Ports(s)[n]
            BY <1>1, DestinationPortIsPort
        <3>2. i = n
            BY <1>1, <1>3, <3>1, SamePort DEF Ready, PlainTopology
        <3> QED BY <2>2, <3>1, <3>2
    <2> QED BY <2>1, <2>2
<1>6. tt \in services[s].targets
    BY <1>1, <1>2 DEF Allows, BuildInv, TopologyInv, TargetsInv
<1>7. Obeys(tt, s, request.meets)
    BY <1>2 DEF Allows, Obeys
<1>8. DestinationPods(tt, s) \in SUBSET cluster.running
    BY DEF DestinationPods
<1> QED BY <1>2, <1>4, <1>5, <1>6, <1>7, <1>8, PodsServe

\* A target of a service whose router matches is the one that allows the request.
LEMMA OnlyTarget ==
    ASSUME Ready, cluster.acl, NEW s, s \in Known, NEW tt \in Target, Obeys(tt, s, request.meets),
           NEW uu \in services[s].targets,
           \/ cluster.type[s] = "http" /\ Admits(cluster.targets[uu].rules, request.meets)
           \/ cluster.type[s] = "tcp" /\ HasTCPRoute(cluster.targets[uu].rules)
    PROVE  uu = tt
<1>1. BuildInv /\ step = "configured" /\ request # None /\ DOMAIN services = Known
    BY ReadyFacts
<1>2. uu \in Target /\ Applies(uu, s)
    BY <1>1 DEF BuildInv, TopologyInv, TargetsInv
<1>3. Obeys(uu, s, request.meets)
    BY <1>2 DEF Obeys
<1>4. request.meets \in RequestKind
    BY <1>1 DEF Ready, WayInv
<1> QED BY <1>2, <1>3, <1>4 DEF Ready, PlainTopology, OneTargetObeys

\* The entry point of an HTTP service without a split for the request, in ACL mode: what
\* decides is the router of the target, for forwarded requests the one that looks at the
\* header.
LEMMA TargetDecides ==
    ASSUME Ready, cluster.acl, cluster.type[request.service] = "http",
           SplitsFor(request, request.service) = {},
           NEW i \in DOMAIN Ports(request.service), i <= HTTPEntryPoints,
           Ports(request.service)[i].number = request.number
    PROVE  Serves(<<"http", i>>)
<1> PICK s : s = request.service
    OBVIOUS
<1>1. /\ BuildInv /\ ClusterInv /\ step = "configured" /\ s \in Known /\ HasKeys(s, routers)
      /\ DOMAIN services = Known /\ request # None
    BY ReadyFacts
<1>2. PICK tt \in services[s].targets :
        /\ tt \in Target /\ Allows(tt, s, request) /\ Obeys(tt, s, request.meets)
        /\ \E j \in DOMAIN DestinationPorts(tt, s) :
              /\ DestinationPorts(tt, s)[j] = Ports(s)[i]
              /\ cluster.type[s] = "http" => j = i
        /\ ToPods(DestinationPods(tt, s), Ports(s)[i]).servers # {}
        /\ \A server \in ToPods(DestinationPods(tt, s), Ports(s)[i]).servers :
              server[1] \in cluster.running
    BY TargetServes
<1>3. i \in DOMAIN DestinationPorts(tt, s) /\ DestinationPorts(tt, s)[i] = Ports(s)[i]
    BY <1>2
<1>4. /\ Applies(tt, s) /\ request.from \in SourcePods(tt)
      /\ Admits(cluster.targets[tt].rules, request.meets)
    BY <1>2 DEF Allows
<1>5. serviceTrafficTargets[<<s, tt>>] = SourcePods(tt)
    BY <1>1, <1>2, TargetsAreApplied DEF TargetsApply
<1>6. request.via # None => request.via = request.from /\ IsBackend(s)
    BY <1>1 DEF Ready, WayInv
<1>7. request.via = None => request.remote = request.from
    BY <1>1 DEF Ready, WayInv
<1>8. PICK way \in {"direct", "indirect"} : way = IF request.via = None THEN "direct" ELSE "indirect"
    OBVIOUS
<1>9. PICK k : k = TargetKey(tt, s, DestinationPorts(tt, s)[i], way)
    OBVIOUS
<1>10. k \in DOMAIN routers
    BY <1>1, <1>2, <1>3, <1>6, <1>8, <1>9 DEF HasKeys, HasTargetKeys
<1>11. IsOfTargetAt(s, k, routers[k], tt, way, i)
    BY <1>1, <1>2, <1>3, <1>4, <1>9, <1>10, TargetOfKey DEF Ready, PlainTopology
<1>12. ~ (IsBackend(s) /\ i > 1)
    <2> SUFFICES ASSUME IsBackend(s), i > 1 PROVE FALSE
        OBVIOUS
    <2>1. Len(Ports(s)) <= 1
        BY <1>1 DEF Ready, PlainTopology, BackendsHaveOnePort
    <2>2. Ports(s) \in Seq(PortType)
        BY <1>1, ClusterAssumption DEF ClusterInv, Ports, Known
    <2>3. i \in 1 .. Len(Ports(s))
        BY <2>2
    <2> QED BY <2>1, <2>2, <2>3
<1>13. routers[k].entry = <<"http", i>> /\ MatchesRule(request, routers[k].rule)
    <2>1. PICK rule, rules : rule = routers[k].rule /\ rules = cluster.targets[tt].rules
        OBVIOUS
    <2>2. rule.matches = ToSet(HTTPMatches(rules)) \ {{}} /\ request.service \in rule.services
        BY <1>11, <2>1 DEF IsOfTargetAt, IsAtPort
    <2>3. {} \notin ToSet(HTTPMatches(rules)) /\ Admits(rules, request.meets)
        BY <1>1, <1>2, <1>4, <2>1 DEF Ready, PlainTopology, TargetMatchesAsk
    <2>4. rule.forwarded => request.via # None
        BY <1>8, <1>11, <1>12, <2>1 DEF IsOfTargetAt
    <2>5. MatchesRule(request, rule)
        BY <2>2, <2>3, <2>4, AdmittedMatches
    <2> QED BY <1>11, <2>1, <2>5 DEF IsOfTargetAt, IsAtPort
<1>14. Chosen(request, <<"http", i>>) # {}
    BY <1>10, <1>13, ChosenExists DEF Ready
<1>15. ASSUME NEW router \in Chosen(request, <<"http", i>>)
       PROVE  /\ LetsThrough(router.access, request)
              /\ router.target = ToPods(DestinationPods(tt, s), Ports(s)[i])
    <2>1. PICK l \in DOMAIN routers : /\ router = routers[l] /\ routers[l].entry = <<"http", i>>
                                      /\ MatchesRule(request, routers[l].rule)
        BY DEF Chosen
    <2>2. s \in routers[l].rule.services
        BY <2>1 DEF MatchesRule
    <2>3. PICK c \in {2000, 3000, 4000} : /\ c = IF way = "direct" THEN 2000 ELSE 3000
                                          /\ routers[k].priority = c + routers[k].rule.operators
        BY <1>11 DEF IsOfTargetAt
    <2>4. ~ IsOfBaseAt(s, l, routers[l], i)
        <3>1. router.priority # 1 /\ router.priority # 1000 + router.rule.operators
            BY <1>10, <1>13, <2>3, ChosenIsNotLower DEF Ready
        <3> QED BY <2>1, <3>1 DEF IsOfBaseAt
    <2>5. ASSUME NEW us \in ToSet(services[s].splits), NEW mode
          PROVE  ~ IsOfHTTPSplitAt(s, l, routers[l], us, mode, i)
        <3>1. ASSUME IsOfHTTPSplitAt(s, l, routers[l], us, mode, i)
              PROVE  us \in SplitsFor(request, s)
            BY <2>1, <3>1, SplitRouterIsFor
        <3> QED BY <3>1
    <2>6. PICK uu \in services[s].targets, mode \in {"direct", "indirect"} :
            IsOfTargetAt(s, l, routers[l], uu, mode, i)
        BY <1>1, <2>1, <2>2, <2>4, <2>5, HTTPCandidates DEF Ready
    <2>7. Admits(cluster.targets[uu].rules, request.meets)
        <3>1. PICK rule, rules : rule = routers[l].rule /\ rules = cluster.targets[uu].rules
            OBVIOUS
        <3>2. rule.matches = ToSet(HTTPMatches(rules)) \ {{}} /\ MatchesRule(request, rule)
            BY <2>1, <2>6, <3>1 DEF IsOfTargetAt
        <3>3. Admits(rules, request.meets)
            BY <3>2, RuleAdmits
        <3> QED BY <3>1, <3>3
    <2>8. uu = tt
        BY <1>1, <1>2, <2>7, OnlyTarget
    <2>9. mode = way
        <3>1. CASE request.via = None
            <4>1. ~ routers[l].rule.forwarded
                BY <2>1, <3>1 DEF MatchesRule
            <4> QED BY <1>8, <2>6, <3>1, <4>1 DEF IsOfTargetAt
        <3>2. CASE request.via # None
            <4>1. way = "indirect" /\ "direct" # "indirect"
                BY <1>8, <3>2
            <4>2. c = 3000
                BY <2>3, <4>1
            <4>3. router.priority # 2000 + router.rule.operators
                BY <1>10, <1>13, <2>3, <4>2, ChosenIsNotLower DEF Ready
            <4> QED BY <2>1, <2>6, <4>1, <4>3 DEF IsOfTargetAt
        <3> QED BY <3>1, <3>2
    <2>10. /\ router.access.pods = SourcePods(tt)
           /\ way = "direct" => ~ router.access.forwarded
           /\ way = "indirect" => router.access.forwarded
           /\ router.target = ToPods(DestinationPods(tt, s), Ports(s)[i])
        BY <1>3, <1>5, <2>1, <2>6, <2>8, <2>9 DEF IsOfTargetAt
    <2>11. LetsThrough(router.access, request)
        BY <1>4, <1>6, <1>7, <1>8, <2>10 DEF LetsThrough
    <2> QED BY <2>10, <2>11
<1> QED BY <1>2, <1>14, <1>15 DEF Serves

--------------------------------------------------------------------------------
\* The entry point of a port of a TCP or UDP service.
LEMMA MappedServes ==
    ASSUME Ready, NEW s, s = request.service, cluster.type[s] # "http",
           NEW i \in DOMAIN Ports(s), IsMapped(s, Ports(s)[i]),
           Ports(s)[i].number = request.number
    PROVE  Serves(MappedEntryPoint(s, Ports(s)[i]))
<1>1. /\ BuildInv /\ ClusterInv /\ step = "configured" /\ s \in Known /\ HasKeys(s, routers)
      /\ DOMAIN services = Known /\ request # None /\ cluster.acl \in BOOLEAN
      /\ \A ts \in SplitsFor(request, s) : trafficSplits[ts].backends # << >>
    BY ReadyFacts
<1>2. SplitsFor(request, s) = ToSet(services[s].splits)
    BY DEF SplitsFor
<1>3. PICK entry : entry = MappedEntryPoint(s, Ports(s)[i])
    OBVIOUS
<1>4. ASSUME NEW l \in DOMAIN routers, routers[l].entry = entry
      PROVE  /\ IsOfMappedAt(s, l, routers[l], i)
             /\ services[s].splits # << >> => LeadsToSplit(s, routers[l])
    BY <1>1, <1>3, <1>4, MappedCandidates DEF Ready, PlainTopology
<1>5. ASSUME NEW k \in DOMAIN routers, k = ServiceKey(s, Ports(s)[i])
      PROVE  Chosen(request, entry) # {}
    <2>1. IsOfMappedAt(s, k, routers[k], i)
        BY <1>1, <1>5, OwnerOfKey DEF Ready, PlainTopology
    <2>2. s \in Name
        BY <1>1, ClusterAssumption DEF ClusterInv, Known
    <2>3. routers[k].entry = entry /\ MatchesRule(request, routers[k].rule)
        BY <1>3, <2>1, <2>2 DEF IsOfMappedAt, RuleOfAny, MatchesRule
    <2> QED BY <2>3, ChosenExists DEF Ready
<1>6. ASSUME NEW router \in Chosen(request, entry)
      PROVE  LetsThrough(router.access, request)
    <2>1. router.access = Anybody
        BY <1>4 DEF Chosen, IsOfMappedAt
    <2> QED BY <2>1 DEF LetsThrough, Anybody
<1>7. CASE services[s].splits # << >>
    <2>1. ServiceKey(s, Ports(s)[i]) \in DOMAIN routers
        BY <1>1, <1>7 DEF HasKeys, HasMappedKeys
    <2>2. Chosen(request, entry) # {}
        BY <1>5, <2>1
    <2>3. entry \in EntryPoints(s, request.number)
        BY <1>1, <1>3, ReadyFacts DEF EntryPoints, HasRouters
    <2>4. ASSUME NEW router \in Chosen(request, entry)
          PROVE  router.target.servers = {} /\ router.target.backends # << >>
        <3>1. router.target.servers = {}
            BY <1>1, <1>7, <2>3, ChosenPort DEF Ready, RankInv
        <3>2. LeadsToSplit(s, router)
            BY <1>4, <1>7 DEF Chosen
        <3> QED BY <1>1, <1>2, <3>1, <3>2 DEF LeadsToSplit
    <2> QED BY <1>3, <1>6, <2>2, <2>4 DEF Serves
<1>8. CASE services[s].splits = << >> /\ ~ cluster.acl
    <2>1. ServiceKey(s, Ports(s)[i]) \in DOMAIN routers
        BY <1>1, <1>8 DEF HasKeys, HasMappedKeys
    <2>2. Chosen(request, entry) # {}
        BY <1>5, <2>1
    <2>3. ToSet(services[s].splits) = {}
        BY <1>8 DEF ToSet
    <2>4. ASSUME NEW router \in Chosen(request, entry)
          PROVE  router.target = ToPods(cluster.endpoints[s], Ports(s)[i])
        <3>1. PICK l \in DOMAIN routers : router = routers[l] /\ routers[l].entry = entry
            BY DEF Chosen
        <3> QED BY <1>4, <1>8, <2>3, <3>1 DEF IsOfMappedAt
    <2> QED BY <1>2, <1>3, <1>6, <1>8, <2>2, <2>3, <2>4, EndpointsServe DEF Serves
<1>9. CASE services[s].splits = << >> /\ cluster.acl
    <2>1. ToSet(services[s].splits) = {}
        BY <1>9 DEF ToSet
    <2>2. PICK tt \in services[s].targets :
            /\ tt \in Target /\ Allows(tt, s, request) /\ Obeys(tt, s, request.meets)
            /\ \E j \in DOMAIN DestinationPorts(tt, s) : DestinationPorts(tt, s)[j] = Ports(s)[i]
            /\ ToPods(DestinationPods(tt, s), Ports(s)[i]).servers # {}
            /\ \A server \in ToPods(DestinationPods(tt, s), Ports(s)[i]).servers :
                  server[1] \in cluster.running
        BY <1>2, <1>9, <2>1, TargetServes
    <2>3. cluster.type[s] = "tcp" /\ HasTCPRoute(cluster.targets[tt].rules)
        BY <2>2 DEF Allows
    <2>4. ServiceKey(s, Ports(s)[i]) \in DOMAIN routers
        <3>1. PICK j \in DOMAIN DestinationPorts(tt, s) : DestinationPorts(tt, s)[j] = Ports(s)[i]
            BY <2>2
        <3> QED BY <1>1, <1>9, <2>3, <3>1 DEF HasKeys, HasMappedTargetKeys
    <2>5. Chosen(request, entry) # {}
        BY <1>5, <2>4
    <2>6. ASSUME NEW router \in Chosen(request, entry)
          PROVE  router.target = ToPods(DestinationPods(tt, s), Ports(s)[i])
        <3>1. PICK l \in DOMAIN routers : router = routers[l] /\ routers[l].entry = entry
            BY DEF Chosen
        <3>2. IsOfMappedAt(s, l, routers[l], i)
            BY <1>4, <3>1
        <3>3. PICK uu \in services[s].targets :
                /\ HasTCPRoute(cluster.targets[uu].rules)
                /\ routers[l].target = ToPods(DestinationPods(uu, s), Ports(s)[i])
            BY <1>9, <2>1, <3>2 DEF IsOfMappedAt
        <3>4. uu = tt
            BY <1>1, <1>9, <2>2, <2>3, <3>3, OnlyTarget
        <3> QED BY <3>1, <3>3, <3>4
    <2> QED BY <1>3, <1>6, <2>2, <2>5, <2>6 DEF Serves
<1> QED BY <1>1, <1>7, <1>8, <1>9

\* Every entry point of the service a request is at.
LEMMA ProxyServes ==
    ASSUME Ready, NEW entry \in EntryPoints(request.service, request.number)
    PROVE  Serves(entry)
<1> PICK s : s = request.service
    OBVIOUS
<1>1. cluster.acl \in BOOLEAN
    BY ReadyFacts
<1>2. CASE cluster.type[s] = "http"
    <2>1. PICK i \in DOMAIN Ports(s) :
            Ports(s)[i].number = request.number /\ i <= HTTPEntryPoints /\ entry = <<"http", i>>
        BY <1>2 DEF EntryPoints
    <2>2. CASE SplitsFor(request, s) # {}
        BY <1>2, <2>1, <2>2, SplitServes
    <2>3. CASE SplitsFor(request, s) = {} /\ cluster.acl
        BY <1>2, <2>1, <2>3, TargetDecides
    <2>4. CASE SplitsFor(request, s) = {} /\ ~ cluster.acl
        BY <1>2, <2>1, <2>4, ServiceServes
    <2> QED BY <1>1, <2>2, <2>3, <2>4
<1>3. CASE cluster.type[s] # "http"
    <2>1. PICK i \in DOMAIN Ports(s) :
            /\ Ports(s)[i].number = request.number /\ IsMapped(s, Ports(s)[i])
            /\ entry = MappedEntryPoint(s, Ports(s)[i])
        BY <1>3 DEF EntryPoints
    <2> QED BY <1>3, <2>1, MappedServes
<1> QED BY <1>2, <1>3

--------------------------------------------------------------------------------
(* Steps.                                                                   *)

\* The reasons stay while the topology does.
LEMMA ExcusedStays ==
    ASSUME BuildInv, step = "configured", UNCHANGED <<cluster, services, trafficSplits>>, NEW r,
           Excused(r)
    PROVE  Excused(r)'
<1>1. Reached(r)' = Reached(r) /\ EndsOf(r)' = EndsOf(r)
    BY ReachedStays, EndsStay
<1>2. \A s : /\ HasRouters(s)' = HasRouters(s)
             /\ EntryPoints(s, r.asked)' = EntryPoints(s, r.asked)
    BY DEF HasRouters, EntryPoints, Ports, Known, IsMapped, MappedEntryPoint
<1>3. \A s : SplitsFor(r, s)' = SplitsFor(r, s)
    BY AdmitsStays DEF SplitsFor
<1>4. \A s : IsToBeServed(r, s)' = IsToBeServed(r, s)
    <2>1. \A ports, pods : PortsAt(ports, r, pods)' = PortsAt(ports, r, pods)
        BY DEF PortsAt, ResolvedPort
    <2>2. \A tt, s : /\ DestinationPorts(tt, s)' = DestinationPorts(tt, s)
                     /\ DestinationPods(tt, s)' = DestinationPods(tt, s)
        BY TargetStays, PodsStay
    <2>3. \A tt, s : Allows(tt, s, r)' = Allows(tt, s, r)
        <3>1. \A tt, s : /\ Applies(tt, s)' = Applies(tt, s) /\ SourcePods(tt)' = SourcePods(tt)
            BY AppliesStays, TargetStays
        <3>2. \A rules : /\ Admits(rules, r.meets)' = Admits(rules, r.meets)
                         /\ HasTCPRoute(rules)' = HasTCPRoute(rules)
            BY AdmitsStays DEF HasTCPRoute
        <3> QED BY <3>1, <3>2 DEF Allows
    <2> QED BY <2>1, <2>2, <2>3 DEF IsToBeServed, Ports
<1>5. CASE \E s \in Reached(r) :
            \/ ~ HasRouters(s) \/ EntryPoints(s, r.asked) = {}
            \/ \E ts \in SplitsFor(r, s) : trafficSplits[ts].backends = << >>
    BY <1>1, <1>2, <1>3, <1>5 DEF Excused
<1>6. CASE \E s \in EndsOf(r) : ~ IsToBeServed(r, s)
    BY <1>1, <1>4, <1>6 DEF Excused
<1> QED BY <1>5, <1>6 DEF Excused

\* They depend on who sent a request, to which service and port, and on what it meets.
LEMMA SameExcuse ==
    ASSUME NEW r1, NEW r2, r1.root = r2.root, r1.meets = r2.meets, r1.from = r2.from,
           r1.asked = r2.asked, Excused(r1)
    PROVE  Excused(r2)
<1>1. Reached(r1) = Reached(r2) /\ EndsOf(r1) = EndsOf(r2)
    BY SameWays, SameEnds
<1>2. \A s : SplitsFor(r1, s) = SplitsFor(r2, s)
    BY DEF SplitsFor
<1>3. \A s : IsToBeServed(r1, s) = IsToBeServed(r2, s)
    BY DEF IsToBeServed, PortsAt, Allows
<1> QED BY <1>1, <1>2, <1>3 DEF Excused

\* What is answered without being served has a reason.
LEMMA UnservedIsExcused ==
    ASSUME IInv, RankInv, NumberInv, ListInv, WayInv, BackendsInv, FlatInv,
           OrdinaryCluster, PlainTopology, ShortRules,
           FindNoEntryPoint \/ FindNoRouter \/ Refuse \/ FindNoServer \/ Serve
    PROVE  request' = None \/ IsServed' \/ Excused(request)
<1> SUFFICES ASSUME ~ Excused(request), request' # None PROVE IsServed'
    OBVIOUS
<1>1. IsAtProxy
    BY DEF FindNoEntryPoint, FindNoRouter, Refuse, FindNoServer, Serve
<1>2. Ready
    BY <1>1 DEF Ready
<1>3. \A entry \in EntryPoints(request.service, request.number) : Serves(entry)
    BY <1>2, ProxyServes
<1>4. CASE FindNoEntryPoint
    <2>1. request.service \in Reached(request) /\ request.number = request.asked
        BY <1>2, ReadyFacts
    <2> QED BY <1>4, <2>1 DEF FindNoEntryPoint, Excused
<1>5. CASE FindNoRouter
    BY <1>3, <1>5 DEF FindNoRouter, Serves
<1>6. CASE Refuse
    BY <1>3, <1>6 DEF Refuse, Serves
<1>7. CASE FindNoServer
    BY <1>3, <1>7 DEF FindNoServer, Serves
<1>8. CASE Serve
    <2>1. PICK entry \in EntryPoints(request.service, request.number) :
            \E router \in Chosen(request, entry) : \E server \in router.target.servers :
                Answer(IF server[1] \in cluster.running THEN ServedBy(server) ELSE Unavailable)
        BY <1>8 DEF Serve
    <2>2. PICK router \in Chosen(request, entry) : \E server \in router.target.servers :
                Answer(IF server[1] \in cluster.running THEN ServedBy(server) ELSE Unavailable)
        BY <2>1
    <2>3. PICK server \in router.target.servers :
                Answer(IF server[1] \in cluster.running THEN ServedBy(server) ELSE Unavailable)
        BY <2>2
    <2>4. server[1] \in cluster.running
        BY <1>3 DEF Serves
    <2>5. request' = [request EXCEPT !.answer = ServedBy(server)]
        BY <2>3, <2>4 DEF Answer
    <2>6. request'.answer = ServedBy(server)
        BY <1>1, <2>5 DEF IInv, RequestInv, IsAtProxy
    <2> QED BY <2>6 DEF IsServed, ServedBy
<1> QED BY <1>4, <1>5, <1>6, <1>7, <1>8

\* A new request has come to no proxy yet.
LEMMA SendKnowsWay ==
    ASSUME BuildInv, SendRequest
    PROVE  WayInv'
<1>1. PICK from \in cluster.callers, s \in Known, meets \in RequestKind :
        \E i \in DOMAIN Ports(s) :
            request' = [from |-> from, root |-> s, asked |-> Ports(s)[i].number,
                        meets |-> meets, remote |-> from, via |-> None, service |-> s,
                        number |-> Ports(s)[i].number, passed |-> {},
                        answer |-> Unanswered]
    BY DEF SendRequest
<1>2. /\ request'.from = from /\ request'.meets = meets /\ request'.remote = from
      /\ request'.via = None
    BY <1>1
<1>3. from \in Pod
    BY RoutingAssumption DEF BuildInv, TopologyInv, ClusterInv
<1> QED BY <1>2, <1>3 DEF WayInv

\* An answer leaves the way of a request.
LEMMA AnswerKnowsWay ==
    ASSUME IInv, WayInv, IsAtProxy, NEW answer, Answer(answer)
    PROVE  WayInv'
<1>1. /\ request' = [request EXCEPT !.answer = answer] /\ UNCHANGED <<cluster, services>>
    BY DEF Answer, vars
<1>2. /\ request'.from = request.from /\ request'.meets = request.meets
      /\ request'.remote = request.remote /\ request'.via = request.via
      /\ request'.service = request.service
    BY <1>1 DEF IInv, RequestInv, IsAtProxy
<1>3. \A s : IsBackend(s)' = IsBackend(s)
    BY <1>1 DEF IsBackend
<1> QED BY <1>1, <1>2, <1>3 DEF WayInv, IsAtProxy

\* A proxy calls a backend: in ACL mode an HTTP service has backends without splits, so
\* that the address it adds is that of the sender.
LEMMA ForwardKnowsWay ==
    ASSUME IInv, WayInv, BackendsInv, PlainTopology, Forward
    PROVE  WayInv'
<1>1. IsAtProxy /\ UNCHANGED <<cluster, services>> /\ step = "configured" /\ BuildInv
    BY DEF Forward, vars, IInv, EarlyInv, IsAtProxy
<1>2. PICK entry \in EntryPoints(request.service, request.number) :
        \E router \in Chosen(request, entry) :
            /\ LetsThrough(router.access, request)
            /\ \E b \in ToSet(router.target.backends) :
                request' = [request EXCEPT !.via = request.remote, !.remote = Proxy,
                                           !.service = b, !.number = router.target.number,
                                           !.passed = @ \cup {request.service}]
    BY DEF Forward
<1>3. PICK router \in Chosen(request, entry) :
            /\ LetsThrough(router.access, request)
            /\ \E b \in ToSet(router.target.backends) :
                request' = [request EXCEPT !.via = request.remote, !.remote = Proxy,
                                           !.service = b, !.number = router.target.number,
                                           !.passed = @ \cup {request.service}]
    BY <1>2
<1>4. PICK b \in ToSet(router.target.backends) :
                request' = [request EXCEPT !.via = request.remote, !.remote = Proxy,
                                           !.service = b, !.number = router.target.number,
                                           !.passed = @ \cup {request.service}]
    BY <1>3
<1>5. /\ request'.from = request.from /\ request'.meets = request.meets
      /\ request'.via = request.remote /\ request'.service = b
    BY <1>1, <1>4 DEF IInv, RequestInv, IsAtProxy
<1>6. request.remote \in {Proxy, request.from} /\ request.from \in Pod /\ request.meets \in RequestKind
    BY <1>1 DEF IInv, RequestInv, WayInv, IsAtProxy
<1>7. request.remote # None
    BY <1>6, RoutingAssumption
<1>8. PICK ts \in SplitsLeft :
        /\ trafficSplits[ts].service = request.service
        /\ b \in ToSet(trafficSplits[ts].backends)
        /\ request.service \in Known /\ ts \in SplitsFor(request, request.service)
    BY <1>1, <1>3, ForwardFollowsSplit DEF IInv
<1>9. ASSUME cluster.acl, cluster.type[b] = "http"
      PROVE  request.remote = request.from /\ services[b].splits = << >> /\ IsBackend(b)
    <2>1. ts \in ToSet(services[request.service].splits)
        BY <1>8 DEF SplitsFor
    <2>2. cluster.type[b] \in {cluster.type[request.service], "invalid"} /\ services[b].splits = << >>
        BY <1>8, <1>9, <2>1 DEF PlainTopology, SplitsAreFlat
    <2>3. cluster.type[request.service] = "http"
        BY <1>9, <2>2
    <2>4. services[request.service].splits # << >>
        BY <2>1 DEF ToSet
    <2>5. request.remote = request.from
        BY <1>1, <1>9, <2>3, <2>4 DEF WayInv, IsAtProxy
    <2>6. DOMAIN trafficSplits = Split /\ ts \in Split
        BY <1>1, <1>8 DEF BuildInv, TopologyInv, SplitsInv, SplitsLeft
    <2>7. ts \in services[b].backendOf
        BY <1>1, <1>8, <2>6 DEF BackendsInv
    <2> QED BY <2>2, <2>5, <2>7 DEF IsBackend
<1>10. IsBackend(b)' = IsBackend(b)
    BY <1>1 DEF IsBackend
<1> QED BY <1>1, <1>5, <1>6, <1>7, <1>9, <1>10 DEF WayInv

--------------------------------------------------------------------------------
\* The inductive invariant of AllowedIsServed, next to those of the other properties.
ServeInv ==
    /\ BackendsInv /\ FlatInv /\ ListInv
    /\ OrdinaryCluster /\ PlainTopology => WayInv /\ (ShortRules => AllowedIsServed)

\* The first state.
LEMMA ServeStart == RoutingInit => ServeInv
<1> SUFFICES ASSUME RoutingInit PROVE ServeInv
    OBVIOUS
<1>1. configured = {} /\ routers = << >> /\ request = None
    BY DEF RoutingInit
<1>2. ListInv
    BY <1>1 DEF ListInv
<1> QED BY <1>1, <1>2, GraphStarts DEF ServeInv, WayInv, AllowedIsServed, IsAnswered

\* The lists of routers stay true.
LEMMA ListKeeps ==
    ASSUME IInv, EndsInv, ListInv, [RoutingNext]_routingVars
    PROVE  ListInv'
<1>1. CASE BuildTopology
    <2>1. UNCHANGED <<configured, routers>> /\ routers = << >> /\ configured = {}
        BY <1>1 DEF BuildTopology, Next, EvaluateServices, EvaluateTrafficSplit,
           EvaluateTrafficTargets, PopulateIncoming, IInv, EarlyInv, EndsInv
    <2> QED BY <2>1 DEF ListInv
<1>2. CASE BuildConfig
    BY <1>2, BuildConfigLists DEF IInv
<1>3. CASE ~ BuildTopology /\ ~ BuildConfig
    <2>1. UNCHANGED <<vars, routers, configured>>
        BY <1>3 DEF RoutingNext, SendRequest, FindNoEntryPoint, FindNoRouter, Refuse, FindNoServer,
           Serve, Forward, Answer, routingVars
    <2> QED BY <2>1, ListStays
<1> QED BY <1>1, <1>2, <1>3

\* An answer without a server has a reason that stays.
LEMMA AnswerIsExcused ==
    ASSUME IInv, RankInv, NumberInv, ListInv, WayInv, BackendsInv, FlatInv,
           OrdinaryCluster, PlainTopology, ShortRules,
           FindNoEntryPoint \/ FindNoRouter \/ Refuse \/ FindNoServer \/ Serve
    PROVE  AllowedIsServed'
<1> SUFFICES ASSUME IsAnswered', ~ IsServed' PROVE AllowedIsServed'
    BY DEF AllowedIsServed
<1>1. Excused(request)
    BY UnservedIsExcused DEF IsAnswered
<1>2. /\ IsAtProxy /\ UNCHANGED vars /\ \E answer : request' = [request EXCEPT !.answer = answer]
    BY DEF FindNoEntryPoint, FindNoRouter, Refuse, FindNoServer, Serve, Answer
<1>3. UNCHANGED <<cluster, services, trafficSplits>> /\ step = "configured" /\ BuildInv
    BY <1>2 DEF vars, IInv, EarlyInv, IsAtProxy
<1>4. PICK r, q : r = request' /\ q = request
    OBVIOUS
<1>5. r.root = q.root /\ r.meets = q.meets /\ r.from = q.from /\ r.asked = q.asked
    BY <1>2, <1>4 DEF IInv, RequestInv, IsAtProxy
<1>6. Excused(r)
    BY <1>1, <1>4, <1>5, SameExcuse
<1>7. Excused(r)'
    BY <1>3, <1>6, ExcusedStays
<1> QED BY <1>4, <1>7 DEF AllowedIsServed, Excused

\* Nothing is said of requests without an answer; one that stays has its reason still.
LEMMA ExcuseStays ==
    ASSUME IInv, AllowedIsServed, UNCHANGED <<cluster, services, trafficSplits>>,
           UNCHANGED request
    PROVE  AllowedIsServed'
<1> SUFFICES ASSUME IsAnswered', ~ IsServed' PROVE AllowedIsServed'
    BY DEF AllowedIsServed
<1>1. IsAnswered /\ ~ IsServed /\ step = "configured" /\ BuildInv
    BY DEF IsAnswered, IsServed, IInv, EarlyInv
<1>2. PICK r : r = request /\ r = request'
    OBVIOUS
<1>3. Excused(r)
    BY <1>1, <1>2 DEF AllowedIsServed, Excused
<1>4. Excused(r)'
    BY <1>1, <1>3, ExcusedStays
<1> QED BY <1>2, <1>4 DEF AllowedIsServed, Excused

\* Every step keeps what is said of requests that are allowed.
LEMMA ServeKeep == IInv /\ EndsInv /\ ServeInv /\ [RoutingNext]_routingVars => ServeInv'
<1> SUFFICES ASSUME IInv, EndsInv, ServeInv, [RoutingNext]_routingVars PROVE ServeInv'
    OBVIOUS
<1>1. BackendsInv' /\ FlatInv' /\ ListInv' /\ BuildInv
    BY GraphKeeps, ListKeeps DEF ServeInv, IInv
<1>2. UNCHANGED cluster
    BY DEF RoutingNext, BuildTopology, Next, EvaluateServices, EvaluateTrafficSplit,
           EvaluateTrafficTargets, PopulateIncoming, BuildConfig, SendRequest, FindNoEntryPoint,
           FindNoRouter, Refuse, FindNoServer, Serve, Forward, Answer, vars, routingVars
<1>3. OrdinaryCluster' = OrdinaryCluster
    BY <1>2, OrdinaryStays
<1>4. CASE request' = None
    BY <1>1, <1>4 DEF ServeInv, WayInv, AllowedIsServed, IsAnswered
<1>5. CASE request' # None
    <2> SUFFICES ASSUME OrdinaryCluster, PlainTopology'
                 PROVE  WayInv' /\ (ShortRules' => AllowedIsServed')
        BY <1>1, <1>3 DEF ServeInv
    <2>1. ~ BuildTopology
        BY <1>5 DEF BuildTopology, Next, EvaluateServices, EvaluateTrafficSplit,
           EvaluateTrafficTargets, PopulateIncoming, IInv, EarlyInv
    <2>2. ~ BuildConfig
        <3> SUFFICES ASSUME BuildConfig PROVE FALSE
            OBVIOUS
        <3>1. request # None /\ ~ IsComplete
            BY <1>5 DEF BuildConfig, IsComplete
        <3> QED BY <3>1 DEF EndsInv, NumberInv
    <2>3. UNCHANGED <<vars, routers>> /\ UNCHANGED <<cluster, services, trafficSplits>>
        BY <2>1, <2>2 DEF RoutingNext, SendRequest, FindNoEntryPoint, FindNoRouter, Refuse,
           FindNoServer, Serve, Forward, Answer, vars, routingVars
    <2>4. PlainTopology /\ (ShortRules' => ShortRules)
        BY <2>3, PlainStays DEF ShortRules
    <2>5. WayInv /\ (ShortRules => AllowedIsServed) /\ RankInv /\ NumberInv
        BY <2>4 DEF ServeInv, EndsInv
    <2>6. CASE SendRequest
        <3>1. ~ IsAnswered'
            BY <2>6 DEF SendRequest, IsAnswered
        <3> QED BY <1>1, <2>6, <3>1, SendKnowsWay DEF AllowedIsServed
    <2>7. CASE FindNoEntryPoint \/ FindNoRouter \/ Refuse \/ FindNoServer \/ Serve
        <3>1. IsAtProxy /\ \E answer : Answer(answer)
            BY <2>7 DEF FindNoEntryPoint, FindNoRouter, Refuse, FindNoServer, Serve
        <3>2. WayInv'
            BY <2>5, <3>1, AnswerKnowsWay
        <3>3. ShortRules' => AllowedIsServed'
            BY <2>4, <2>5, <2>7, AnswerIsExcused DEF ServeInv
        <3> QED BY <3>2, <3>3
    <2>8. CASE Forward
        <3>1. WayInv'
            BY <2>4, <2>5, <2>8, ForwardKnowsWay DEF ServeInv
        <3>2. ~ IsAnswered'
            <4>1. PICK entry \in EntryPoints(request.service, request.number) :
                    \E router \in Chosen(request, entry) : \E b \in ToSet(router.target.backends) :
                        request' = [request EXCEPT !.via = request.remote, !.remote = Proxy,
                                                   !.service = b, !.number = router.target.number,
                                                   !.passed = @ \cup {request.service}]
                BY <2>8 DEF Forward
            <4>2. PICK router \in Chosen(request, entry) : \E b \in ToSet(router.target.backends) :
                        request' = [request EXCEPT !.via = request.remote, !.remote = Proxy,
                                                   !.service = b, !.number = router.target.number,
                                                   !.passed = @ \cup {request.service}]
                BY <4>1
            <4>3. IsAtProxy
                BY <2>8 DEF Forward
            <4>4. request'.answer = Unanswered
                BY <4>2, <4>3 DEF IInv, RequestInv, IsAtProxy
            <4> QED BY <4>4 DEF IsAnswered
        <3> QED BY <3>1, <3>2 DEF AllowedIsServed
    <2>9. CASE UNCHANGED routingVars
        <3>1. UNCHANGED request
            BY <2>9 DEF routingVars
        <3>2. \A s : IsBackend(s)' = IsBackend(s)
            BY <2>3 DEF IsBackend
        <3>3. WayInv'
            BY <2>3, <2>5, <3>1, <3>2 DEF WayInv
        <3>4. ShortRules' => AllowedIsServed'
            BY <2>3, <2>4, <2>5, <3>1, ExcuseStays
        <3> QED BY <3>3, <3>4
    <2> QED BY <2>1, <2>2, <2>6, <2>7, <2>8, <2>9 DEF RoutingNext
<1> QED BY <1>4, <1>5

\* A request is refused or lost only for a reason: a service on its ways has no routers, no
\* entry point for the port, or a split without backends; or one at the end of its ways does
\* not allow it or has no pod that runs. No whitelist, rank or order of maps of BuildConfig
\* is one, in clusters as the code claims to serve them.
THEOREM AllowedRequestsAreServed ==
    RoutingSpec => [](OrdinaryCluster /\ PlainTopology /\ ShortRules => AllowedIsServed)
<1>1. IInv /\ EndsInv /\ ServeInv
        => (OrdinaryCluster /\ PlainTopology /\ ShortRules => AllowedIsServed)
    BY DEF ServeInv
<1> QED BY InitHolds, StepKeeps, EndsStart, EndsKeep, ServeStart, ServeKeep, <1>1, PTL
        DEF RoutingSpec

\* Every router of the configuration was made for a service that BuildConfig has visited, from
\* its own entry, one of its traffic targets or one of its splits, with the rule, sources,
\* priority and servers of that; and the key of every router that it should have made is there,
\* although maps are ranged over in any order and some routers share keys
\* (buildConfigForService).
THEOREM RoutersAreListed == RoutingSpec => []ListInv
<1>1. IInv /\ EndsInv /\ ServeInv => ListInv
    BY DEF ServeInv
<1> QED BY InitHolds, StepKeeps, EndsStart, EndsKeep, ServeStart, ServeKeep, <1>1, PTL
        DEF RoutingSpec
=================================================================================

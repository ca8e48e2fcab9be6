-------------------------------- MODULE MCRouting --------------------------------
(* Small clusters for Topology and RoutingConfig.  The first set is about the   *)
(* topology alone: four services, three splits that can make a chain, a diamond *)
(* or a loop, two of them on one service or not, and traffic targets that let   *)
(* one running pod call some of the services.  In the others requests are sent; *)
(* service d is not in the mesh and its pod is a caller.                        *)
EXTENDS RoutingConfig

CONSTANTS a, b, c, d, unknown, s1, s2, s3

MCSplit == {s1, s2, s3}
Mesh == {a, b, c, d}

\* Each service has a workload pod and a traffic target of its own name.
MCPod == Mesh \cup {"client", "pending"}
MCCondition == {"get", "post", "path"}
MCRequestKind == {{"get"}, {"post"}, {"get", "path"}}
MCJoined == [k \in Mesh \cup {unknown, s1, s2, s3} |-> k]

Http(name, matches) == [kind |-> "HTTPRouteGroup", name |-> name, matches |-> matches]
Get == <<Http("reads", << >>)>>
GetOfAll == <<Http("all", <<"get">>)>>
Post == <<Http("writes", << >>)>>
GetPath == <<Http("paths", << >>)>>
AnyTCP == <<[kind |-> "TCPRoute", name |-> "route", matches |-> << >>]>>
Missing == <<Http("missing", << >>)>>
MissingMatch == <<Http("all", <<"get", "head">>)>>

GetMatch == [name |-> "get", conditions |-> {"get"}]
PostMatch == [name |-> "post", conditions |-> {"post"}]
Groups == [reads |-> <<GetMatch>>, writes |-> <<PostMatch>>, all |-> <<GetMatch, PostMatch>>,
           paths |-> <<[name |-> "get", conditions |-> {"get", "path"}]>>]

Port(number, target) == [number |-> number, target |-> target]
On(s, backends, rules) == [service |-> s, backends |-> backends, rules |-> rules]
NoSplit == On(unknown, <<a>>, << >>)
For(account, sources, port, rules) ==
    [account |-> account, sources |-> sources, port |-> port, rules |-> rules]
NoTarget == For("nobody", {}, AnyPort, << >>)

Endpoints == [s \in Mesh \cup {unknown} |-> IF s \in Mesh THEN {s} ELSE {d}]
Account == [p \in MCPod |-> IF p \in Mesh THEN p ELSE "clients"]

--------------------------------------------------------------------------------
(* Clusters of which only the topology is built.                                *)

\* One backend or two different ones, of another service.
SplitsOn(s) ==
    {On(s, q, << >>) :
        q \in {q \in {<<x>> : x \in Mesh} \cup {<<x, y>> : x \in Mesh, y \in Mesh} :
                    s \notin ToSet(q) /\ IsInjective(q)}}

\* The second port of a service has a named target: no traffic target matches it.
\* Service b may expose one port less than the others.
PortsWhen(less) ==
    [s \in Mesh |-> IF less /\ s = b THEN <<Port(1, 1)>> ELSE <<Port(1, 1), Port(2, 0)>>]

TargetOf(s, open) ==
    For(s, {"clients"}, IF s \notin open THEN 2 ELSE IF s = d THEN AnyPort ELSE 1,
        IF s = a THEN GetOfAll ELSE << >>)

TopologyOf(q1, q2, q3, open, less) ==
    [ports |-> PortsWhen(less), endpoints |-> Endpoints, account |-> Account,
     running |-> MCPod \ {"pending"}, groups |-> Groups, tcpRoutes |-> {"route"},
     splits |-> s1 :> q1 @@ s2 :> q2 @@ s3 :> q3,
     targets |-> [s \in Mesh |-> TargetOf(s, open)],
     type |-> [s \in Mesh |-> "invalid"], misannotated |-> {}, acl |-> TRUE,
     containerPort |-> [p \in MCPod |-> 0], meshPort |-> << >>, callers |-> {}]

TopologyClusters ==
    {TopologyOf(q1, q2, q3, open, less) :
        q1 \in SplitsOn(a) \cup {On(a, <<unknown, b>>, << >>)},
        q2 \in SplitsOn(a) \cup SplitsOn(b),
        q3 \in SplitsOn(c) \cup {On(c, <<d>>, Missing), NoSplit},
        open \in {Mesh, {a, b, c}, {b, d}},
        less \in BOOLEAN}

\* The configuration of these clusters is not built.
BuildsConfig == cluster.callers # {} \/ configured = {}

--------------------------------------------------------------------------------
(* Clusters in which requests are sent.                                         *)

\* Pod c has no port of the name that services use.
RoutingOf(type, acl, ports, splits, targets) ==
    [ports |-> ports, endpoints |-> Endpoints, account |-> Account,
     running |-> MCPod \ {"pending"}, groups |-> Groups, tcpRoutes |-> {"route"},
     splits |-> splits, targets |-> targets,
     type |-> [s \in {a, b, c} |-> type], misannotated |-> {}, acl |-> acl,
     containerPort |-> [p \in MCPod |-> IF p \in {a, b} THEN 5 ELSE 0],
     meshPort |-> <<a, 1>> :> 1 @@ <<b, 1>> :> 2 @@ <<c, 1>> :> 3 @@ <<a, 2>> :> 4,
     callers |-> {"client", d}]

OnePort == [s \in {a, b, c} |-> <<Port(1, 1)>>]
TwoPorts == [s \in {a, b, c} |-> <<Port(1, 1), Port(2, 0)>>]
MorePorts == [TwoPorts EXCEPT ![c] = @ \o <<Port(3, 3)>>]
EqualPorts == [s \in {a, b, c} |-> <<Port(1, 1), Port(2, 2)>>]

\* Two splits on a, one of them for some requests only; splits that make a loop.
SplitChoices ==
    {s1 :> On(a, <<b>>, r1) @@ s2 :> q2 @@ s3 :> NoSplit :
        r1 \in {<< >>, Get},
        q2 \in {On(a, <<c>>, GetPath), On(a, <<c, b>>, Post), On(b, <<a>>, << >>),
                On(c, <<a>>, Missing)}}
    \cup {s1 :> On(a, <<b, c>>, << >>) @@ s2 :> NoSplit @@ s3 :> NoSplit}

Chain == s1 :> On(a, <<b, c>>, Get) @@ s2 :> On(b, <<c>>, << >>) @@ s3 :> NoSplit
NoSplits == [s \in MCSplit |-> NoSplit]

\* On service b two targets, with disjoint matches.
TargetsOf(sources, rules, port) ==
    a :> For(a, {"clients", d}, AnyPort, MissingMatch) @@
    b :> For(b, {"clients"}, port, GetOfAll) @@
    c :> For(c, {"clients", d}, AnyPort, << >>) @@
    d :> For(b, sources, AnyPort, rules)

HTTPTargets ==
    {TargetsOf({d}, Post, AnyPort), TargetsOf({"clients", d}, Post, 2),
     [TargetsOf({d}, Post, 1) EXCEPT ![a] = For(a, {d}, AnyPort, << >>), ![d] = NoTarget]}

TCPTargets ==
    [s \in Mesh |-> For(s, {"clients"}, AnyPort, IF s = c THEN << >> ELSE AnyTCP)]

RoutingClusters ==
    {RoutingOf("http", TRUE, OnePort, splits, targets) :
        splits \in SplitChoices, targets \in HTTPTargets}
    \cup {RoutingOf("http", TRUE, TwoPorts, NoSplits, TargetsOf({d}, Post, port)) :
            port \in {AnyPort, 1}}
    \cup {RoutingOf("http", FALSE, MorePorts, splits, TargetsOf({d}, Post, 1)) :
            splits \in SplitChoices \cup {Chain}}
    \cup {RoutingOf(type, acl, EqualPorts, splits, TCPTargets) :
            type \in {"tcp", "udp"}, acl \in BOOLEAN, splits \in SplitChoices \cup {Chain}}
    \cup {[RoutingOf("http", acl, OnePort, IF acl THEN NoSplits ELSE Chain,
                     TargetsOf({d}, Post, 1))
            EXCEPT !.type[c] = type, !.misannotated = bad, !.endpoints[c] = {pod}] :
            acl \in BOOLEAN, type \in {"http", "invalid"}, bad \in {{}, {b}},
            pod \in {c, "pending"}}

MCCluster == TopologyClusters \cup RoutingClusters

\* A service with two ports that is the backend of a split.
BackendPorts ==
    {RoutingOf("http", TRUE, EqualPorts,
               s1 :> On(a, <<b>>, << >>) @@ s2 :> NoSplit @@ s3 :> NoSplit,
               TargetsOf({"clients"}, Post, AnyPort))}
================================================================================

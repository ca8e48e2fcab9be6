-------------------------------- MODULE Topology --------------------------------
(***************************************************************************)
(* Builder.Build of pkg/topology/builder.go: the graph of services, traffic *)
(* targets and traffic splits from which the routing configuration is made. *)
(* Build runs in one goroutine over the indexed resources; what varies is   *)
(* the cluster and the order in which Go ranges over the map of the traffic *)
(* splits.  Namespaces and weights are left out.                            *)
(***************************************************************************)
EXTENDS Integers, Sequences, SequencesExt

CONSTANTS
    Name,           \* keys of services, known to the mesh or not
    Split,          \* keys of TrafficSplits
    Target,         \* keys of TrafficTargets
    Pod,            \* keys of pods
    Cluster,        \* the resources a build may find
    Condition,      \* what a match of an HTTPRouteGroup can ask of a request
    AnyPort         \* the destination port of a TrafficTarget that names none

(* A cluster is a record                                                    *)
(*   ports      for each known service, the sequence of its ports, with the *)
(*              number of the port and of the target port (0 if it is named);*)
(*   endpoints  for each name, the pods its endpoints list;                 *)
(*   account    the service account of each pod;                            *)
(*   running    the pods that have an IP;                                   *)
(*   groups     the HTTPRouteGroups, as sequences of named matches, each     *)
(*              with its conditions;                                        *)
(*   tcpRoutes  the names of the TCPRoutes;                                 *)
(*   splits     for each split its service, its backends in order and the   *)
(*              rules that refer to specs;                                  *)
(*   targets    for each target the account and the port of its             *)
(*              destination, the accounts of its sources, and its rules,    *)
(*              each with the names of the matches it selects (all, if none).*)
PortType == [number : Nat, target : Nat]

ASSUME FiniteSplits == IsFiniteSet(Split)

ASSUME FiniteTargets == IsFiniteSet(Target)

ASSUME ClusterAssumption ==
    \A c \in Cluster :
        /\ DOMAIN c.ports \subseteq Name
        /\ \A s \in DOMAIN c.ports : c.ports[s] \in Seq(PortType)
        /\ c.endpoints \in [Name -> SUBSET Pod]
        /\ DOMAIN c.account = Pod /\ c.running \subseteq Pod
        /\ \A g \in DOMAIN c.groups : \A i \in DOMAIN c.groups[g] :
                c.groups[g][i].conditions \subseteq Condition
        /\ \A ts \in Split :
            /\ c.splits[ts].service \in Name /\ c.splits[ts].backends \in Seq(Name)
            /\ \A i \in DOMAIN c.splits[ts].rules : c.splits[ts].rules[i].matches = << >>

VARIABLES
    cluster,                \* what the listers return
    services,               \* Topology.Services
    trafficSplits,          \* Topology.TrafficSplits
    serviceTrafficTargets,  \* Topology.ServiceTrafficTargets: their source pods
    step                    \* the loop that runs next ("configured": see RoutingConfig)

vars == <<cluster, services, trafficSplits, serviceTrafficTargets, step>>

TypeOK ==
    /\ \A s \in DOMAIN services :
        /\ s \in DOMAIN cluster.ports
        /\ services[s].splits \in Seq(DOMAIN trafficSplits) /\ IsInjective(services[s].splits)
        /\ services[s].backendOf \subseteq DOMAIN trafficSplits
        /\ \A tt \in services[s].targets : <<s, tt>> \in DOMAIN serviceTrafficTargets
    /\ DOMAIN trafficSplits \subseteq Split
    /\ \A ts \in DOMAIN trafficSplits :
        /\ ToSet(trafficSplits[ts].backends) \subseteq DOMAIN services
        /\ trafficSplits[ts].incoming \subseteq Pod
    /\ DOMAIN serviceTrafficTargets \subseteq Name \X Target
    /\ step \in {"services", "splits", "targets", "incoming", "built", "configured"}

Init ==
    /\ cluster \in Cluster
    /\ services = << >> /\ trafficSplits = << >> /\ serviceTrafficTargets = << >>
    /\ step = "services"

Known == DOMAIN cluster.ports

\* A loop over a sequence that keeps the elements of a set, in their order.
Selected(seq, S) ==
    LET f[i \in 0 .. Len(seq)] ==
            IF i = 0 THEN << >>
            ELSE IF seq[i] \in S THEN Append(f[i - 1], seq[i]) ELSE f[i - 1]
    IN  f[Len(seq)]

--------------------------------------------------------------------------------
(* The specs that splits and targets refer to.                              *)

\* buildHTTPRouteGroup finds the group and every match that is asked for by name,
\* buildTCPRoute finds the route; other kinds are errors.
IsBuilt(rule) ==
    \/ /\ rule.kind = "HTTPRouteGroup" /\ rule.name \in DOMAIN cluster.groups
       /\ \A i \in DOMAIN rule.matches : \E j \in DOMAIN cluster.groups[rule.name] :
              cluster.groups[rule.name][j].name = rule.matches[i]
    \/ rule.kind = "TCPRoute" /\ rule.name \in cluster.tcpRoutes

\* buildTrafficTargetRules and buildTrafficSplitSpecs end at the first error.
SpecsExist(rules) == \A i \in DOMAIN rules : IsBuilt(rules[i])

\* buildHTTPRouteGroupMatches takes the first match of a name.
SelectedMatches(rule) ==
    LET all == cluster.groups[rule.name]
    IN  IF rule.kind = "TCPRoute" THEN << >>
        ELSE IF rule.matches = << >> THEN [i \in DOMAIN all |-> all[i].conditions]
        ELSE [i \in DOMAIN rule.matches |->
                all[CHOOSE j \in DOMAIN all :
                        /\ all[j].name = rule.matches[i]
                        /\ \A k \in 1 .. j - 1 : all[k].name # rule.matches[i]].conditions]

\* The HTTPMatches of the TrafficSpecs, one after the other, as sets of conditions.
HTTPMatches(rules) == FlattenSeq([i \in DOMAIN rules |-> SelectedMatches(rules[i])])

HasTCPRoute(rules) == \E i \in DOMAIN rules : rules[i].kind = "TCPRoute"

--------------------------------------------------------------------------------
(* The loops of Build over services, splits and targets.                    *)

\* evaluateService for every service: the order of the loop leaves no trace.
EvaluateServices ==
    /\ step = "services"
    /\ services' = [s \in Known |-> [splits |-> << >>, targets |-> {}, backendOf |-> {}]]
    /\ step' = IF Split = {} THEN "targets" ELSE "splits"
    /\ UNCHANGED <<cluster, trafficSplits, serviceTrafficTargets>>

\* validateServiceAndBackendPorts compares the port numbers only.
ExposesPortsOf(s, b) ==
    \A i \in DOMAIN cluster.ports[s] : \E j \in DOMAIN cluster.ports[b] :
        cluster.ports[s][i].number = cluster.ports[b][j].number

\* Fault: a backend that is not a service of the mesh is kept.
RetainedUnknownBackends(ts) ==
    SelectSeq(cluster.splits[ts].backends,
              LAMBDA b : b \in Known => ExposesPortsOf(cluster.splits[ts].service, b))

RetainedBackends(ts) ==
    Selected(cluster.splits[ts].backends,
             {b \in Known : ExposesPortsOf(cluster.splits[ts].service, b)})

\* Does evaluateTrafficSplit reach its end, where the split is given to its service?
Attached(ts) ==
    SpecsExist(cluster.splits[ts].rules) /\ cluster.splits[ts].service \in Known

\* The assignment to an entry of Topology.TrafficSplits.
WithSplit(ts, split) ==
    [t \in DOMAIN trafficSplits \cup {ts} |-> IF t = ts THEN split ELSE trafficSplits[t]]

\* A split whose specs or service are missing is in the topology, with an error only.
RejectTrafficSplit(ts) ==
    /\ ~ Attached(ts)
    /\ trafficSplits' = WithSplit(ts, [service |-> cluster.splits[ts].service,
                                       backends |-> << >>, incoming |-> {}])
    /\ UNCHANGED services

AttachTrafficSplit(ts) ==
    LET root == cluster.splits[ts].service
        backends == RetainedBackends(ts)
        Evaluated(s) ==
            [services[s] EXCEPT
                !.splits = IF s = root THEN Append(@, ts) ELSE @,
                !.backendOf = IF s \in ToSet(backends) THEN @ \cup {ts} ELSE @]
    IN  /\ Attached(ts)
        /\ trafficSplits' = WithSplit(ts, [service |-> root, backends |-> backends,
                                           incoming |-> {}])
        /\ services' = [s \in DOMAIN services |-> Evaluated(s)]

\* evaluateTrafficSplit; the map of the splits is ranged over in any order.
EvaluateTrafficSplit ==
    /\ step = "splits"
    /\ \E ts \in Split \ DOMAIN trafficSplits :
        /\ RejectTrafficSplit(ts) \/ AttachTrafficSplit(ts)
        /\ step' = IF DOMAIN trafficSplits' = Split THEN "targets" ELSE "splits"
    /\ UNCHANGED <<cluster, serviceTrafficTargets>>

\* buildTrafficTargetSources: pods without an IP are skipped.
SourcePods(tt) ==
    {p \in cluster.running : cluster.account[p] \in cluster.targets[tt].sources}

\* PodsBySvcBySa: the names whose endpoints list a pod of the destination account.
Destinations(tt) ==
    {s \in Name : \E p \in cluster.endpoints[s] :
                    cluster.account[p] = cluster.targets[tt].account}

\* getTrafficTargetDestinationPorts: all ports, or the first one whose target port has
\* the number the target names; none is an error.
DestinationPorts(tt, s) ==
    LET port == cluster.targets[tt].port
        ports == cluster.ports[s]
        first == {i \in DOMAIN ports : /\ ports[i].target = port
                                       /\ \A j \in 1 .. i - 1 : ports[j].target # port}
    IN  IF port = AnyPort THEN ports ELSE SetToSeq({ports[i] : i \in first})

HasDestinationPort(tt, s) ==
    cluster.targets[tt].port = AnyPort \/ DestinationPorts(tt, s) # << >>

\* The early returns of evaluateTrafficTarget leave the target out of the service.
Applies(tt, s) ==
    /\ s \in Known \cap Destinations(tt)
    /\ SpecsExist(cluster.targets[tt].rules)
    /\ HasDestinationPort(tt, s)

\* evaluateTrafficTarget for every target: the order of the loop leaves no trace.
EvaluateTrafficTargets ==
    /\ step = "targets"
    /\ serviceTrafficTargets' =
        [st \in {st \in Name \X Target : st[1] \in Destinations(st[2])} |-> SourcePods(st[2])]
    /\ services' =
        [s \in DOMAIN services |->
            [services[s] EXCEPT !.targets = {tt \in Target : Applies(tt, s)}]]
    /\ step' = "incoming"
    /\ UNCHANGED <<cluster, trafficSplits>>

--------------------------------------------------------------------------------
(* The pods that may call a split, and the splits that lead back to         *)
(* themselves.  An outcome is what the Go functions return: an error, or a  *)
(* set of pods.                                                             *)

Circular == [err |-> TRUE, pods |-> {}]
Found(pods) == [err |-> FALSE, pods |-> pods]

\* Fault: unionPod does what its name says.
UnionOfFound(outcomes) ==
    IF \E i \in DOMAIN outcomes : outcomes[i].err THEN Circular
    ELSE Found(UNION {outcomes[i].pods : i \in DOMAIN outcomes})

\* Fault: an error does not end the loop.
InCommonOfFound(outcomes) ==
    LET fine == SelectSeq(outcomes, LAMBDA o : ~ o.err)
    IN  Found({p \in Pod : fine # << >> /\ \A i \in DOMAIN fine : p \in fine[i].pods})

\* unionPod over the outcomes, which keeps the pods they have in common (none, if
\* there is no outcome): the loop returns at the first error, and as soon as no pod
\* is left.
InCommon(outcomes) ==
    LET CommonTo(n) == {p \in Pod : n > 0 /\ \A i \in 1 .. n : p \in outcomes[i].pods}
        Returns(i) == outcomes[i].err \/ CommonTo(i) = {}
        last == {i \in DOMAIN outcomes : Returns(i) /\ \A j \in 1 .. i - 1 : ~ Returns(j)}
    IN  IF \E i \in last : outcomes[i].err THEN Circular
        ELSE IF last # {} THEN Found({})
        ELSE Found(CommonTo(Len(outcomes)))

\* getPodsForServiceWithNoTrafficSplits.
PodsOfTargets(s) ==
    UNION {serviceTrafficTargets[<<s, tt>>] : tt \in services[s].targets}

\* Fault: one mark per service instead of one per split.
IsServiceVisited(ts, visited) ==
    \E v \in visited : trafficSplits[v].service = trafficSplits[ts].service

\* The test of the visited map.
IsVisited(ts, visited) == ts \in visited

\* getIncomingPodsForTrafficSplit, with getIncomingPodsForService in it, for the splits
\* that are already visited.  Every backend gets a copy of them with the split itself;
\* the splits of a service share one copy.
IncomingPods[visited \in SUBSET Split] ==
    LET SplitsOf(s) == services[s].splits
        Before(s, i) == {SplitsOf(s)[j] : j \in 1 .. i - 1}
        ForService(s, marked) ==
            IF SplitsOf(s) = << >> THEN Found(PodsOfTargets(s))
            ELSE InCommon([i \in 1 .. Len(SplitsOf(s)) |->
                            IncomingPods[marked \cup Before(s, i)][SplitsOf(s)[i]]])
        ForSplit(ts) ==
            LET backends == trafficSplits[ts].backends
            IN  InCommon([i \in 1 .. Len(backends) |->
                            ForService(backends[i], visited \cup {ts})])
    IN  [ts \in Split |-> IF IsVisited(ts, visited) THEN Circular ELSE ForSplit(ts)]

\* Fault: the first split of a service is never removed.
KeptLoops(s, looping) ==
    [services[s] EXCEPT
        !.splits = SelectSeq(@, LAMBDA ts : ts \notin looping \/ ts = services[s].splits[1])]

\* removeLoopCausingTrafficSplits.
WithoutLoops(s, looping) ==
    [services[s] EXCEPT !.splits = Selected(@, Split \ looping)]

\* populateTrafficSplitsAuthorizedIncomingTraffic: the loop over services and their
\* splits reads nothing it writes; loops are removed at its end.
PopulateIncoming ==
    LET attached == UNION {ToSet(services[s].splits) : s \in DOMAIN services}
        outcome == [ts \in attached |-> IncomingPods[{}][ts]]
        looping == {ts \in attached : outcome[ts].err}
    IN  /\ step = "incoming"
        /\ trafficSplits' =
            [ts \in DOMAIN trafficSplits |->
                IF ts \in attached \ looping
                THEN [trafficSplits[ts] EXCEPT !.incoming = outcome[ts].pods]
                ELSE trafficSplits[ts]]
        /\ services' = [s \in DOMAIN services |-> WithoutLoops(s, looping)]
        /\ step' = "built"
        /\ UNCHANGED <<cluster, serviceTrafficTargets>>

Next ==
    \/ EvaluateServices
    \/ EvaluateTrafficSplit
    \/ EvaluateTrafficTargets
    \/ PopulateIncoming

Spec == Init /\ [][Next]_vars

--------------------------------------------------------------------------------
(* Properties of the topology that Build returns.                           *)

Built == step = "built"

Kept(ts) == Attached(ts) /\ ts \in ToSet(services[trafficSplits[ts].service].splits)

\* Whom the splits of a set can pass a request on to that is at s: the least set of
\* services with s in it that no backend of a split leaves.
IsClosed(R, splits) ==
    \A ts \in splits : trafficSplits[ts].service \in R => ToSet(trafficSplits[ts].backends) \subseteq R

Reach(splits, s) ==
    {n \in Known : \A R \in SUBSET Known : s \in R /\ IsClosed(R, splits) => n \in R}

\* Can a request that enters at s come back to a service it has passed?
LeadsToLoop(splits, s) ==
    \E ts \in splits :
        /\ trafficSplits[ts].service \in Reach(splits, s)
        /\ \E b \in ToSet(trafficSplits[ts].backends) :
                trafficSplits[ts].service \in Reach(splits, b)

\* What the traffic targets of the cluster allow to call a service.
AllowedPods(s) ==
    {p \in cluster.running :
        \E tt \in Target : Applies(tt, s) /\ cluster.account[p] \in cluster.targets[tt].sources}

\* A split from which no request can come back is never taken for a loop, in any
\* order of the maps: neither two splits of one service nor two ways to the same
\* service count as one.  populateTrafficSplitsAuthorizedIncomingTraffic copies the
\* visited splits for every backend and shares them between the splits of a service.
AcyclicSplitsAreKept ==
    Built =>
        LET attached == {ts \in Split : Attached(ts)}
        IN  \A ts \in attached :
                ~ LeadsToLoop(attached, trafficSplits[ts].service) => Kept(ts)

\* The pods that may call a split are those that the traffic targets of every service at
\* the end of its ways allow; none may, when a way ends at a split without a backend.
\* getIncomingPodsForTrafficSplit finds them by its recursion, which follows the splits
\* that are removed as loops, too.
IncomingIsAllowedEverywhere ==
    Built =>
        LET kept == {ts \in Split : Kept(ts)}
            Below(ts) == UNION {Reach(kept, b) : b \in ToSet(trafficSplits[ts].backends)}
            Ways(ts) == {ts} \cup {t \in kept : trafficSplits[t].service \in Below(ts)}
            Ends(ts) == {n \in Below(ts) : services[n].splits = << >>}
        IN  \A ts \in kept, p \in Pod :
                p \in trafficSplits[ts].incoming <=>
                    /\ \A t \in Ways(ts) : trafficSplits[t].backends # << >>
                    /\ \A n \in Ends(ts) : p \in AllowedPods(n)

\* A split that some pod may call leads to no loop: getIncomingPodsForTrafficSplit
\* returns early only when no pod is left, so it has seen every split below.
CallableSplitsHaveNoLoop ==
    Built =>
        LET kept == {ts \in Split : Kept(ts)}
        IN  \A ts \in kept :
                trafficSplits[ts].incoming # {} =>
                    \A b \in ToSet(trafficSplits[ts].backends) : ~ LeadsToLoop(kept, b)

\* No kept split leads to a loop: "To avoid runtime issues, this method detects cycles
\* in the graph" says the comment of populateTrafficSplitsAuthorizedIncomingTraffic.
KeptSplitsHaveNoLoop ==
    Built =>
        LET kept == {ts \in Split : Kept(ts)}
        IN  \A ts \in kept : ~ LeadsToLoop(kept, trafficSplits[ts].service)
================================================================================

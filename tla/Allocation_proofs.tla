---------------------------- MODULE Allocation_proofs ----------------------------
(***************************************************************************)
(* Shadow services, tables and configuration agree, for every set of        *)
(* services and ports, all port ranges and bounds, with crashes and         *)
(* restarts, when the ports of the services fit in the tables, the lister   *)
(* is current and no call fails.  From that follows that the controller     *)
(* implements PortAllocation, and that its routes lead home.                *)
(*                                                                          *)
(* The argument: a port of a shadow service loses its mapping only while    *)
(* the worker is at its service, and only if the version in process does    *)
(* not have it (Mapped).  The ports collected meanwhile are mapped          *)
(* (Collecting), so the clean-up after the call frees none of them.         *)
(***************************************************************************)
EXTENDS Sync_proofs

\* The service ports that a version of this traffic type can claim in its table.
Claims(type) ==
    {c \in Claim : \E v \in ServiceVersion :
        v.type = type /\ \E p \in WantedPorts(v) : p.port = c[2]}

\* Every port finds a mesh port, and the API server accepts every call.
PortsFit ==
    /\ ~ListerLag /\ MaxFaults = 0
    /\ \A v \in ServiceVersion : v.type # "unsupported" /\ WantedPorts(v) # {}
    /\ \A type \in {"tcp", "udp"} :
        /\ IsFiniteSet(Claims(type))
        /\ Cardinality(Claims(type)) <= Cardinality(TargetRange(type))

\* A shadow port of s leads to an HTTP port, or its protocol says to which table.
InRange(s, p) ==
    \/ p.target \in HTTPPorts
    \/ p.target \in TCPPorts /\ p.proto = "TCP" /\ <<s, p.port>> \in Claims("tcp")
    \/ p.target \in UDPPorts /\ p.proto = "UDP" /\ <<s, p.port>> \in Claims("udp")

AllInRange == \A s \in Service : \A p \in shadows[s] : InRange(s, p)

HoldsClaims(table, type) ==
    \A m \in DOMAIN table : table[m] \in Claims(type) \cup {NoClaim}

TableClaims == HoldsClaims(tcp, "tcp") /\ HoldsClaims(udp, "udp")

\* The ports of shadow services are mapped, but for those the worker has freed.
Freed(s, p) ==
    /\ s = worker.key
    /\ \/ worker.pc = "ports" /\ ~Contains(worker.version, p)
       \/ worker.pc = "delete"

Mapped == \A s \in Service : \A p \in shadows[s] : MappedTo(p, s) \/ Freed(s, p)

\* What the worker knows and has collected.
Wanted(v, i) ==
    /\ Suitable(v.type, v.ports[i])
    /\ v.type = "http" => HTTPPort(i) <= MaxHTTPPort

Collecting ==
    worker.pc = "ports" =>
        /\ worker.old = shadows[worker.key] /\ worker.fresh
        /\ \A p \in worker.ports : InRange(worker.key, p) /\ MappedTo(p, worker.key)
        /\ \A i \in 1 .. Len(worker.version.ports) :
               i < worker.next /\ Wanted(worker.version, i) => worker.ports # {}

Deleting == worker.pc = "delete" => shadows[worker.key] # NoShadow

AllocInv ==
    /\ ListerIsCurrent /\ AllInRange /\ ExclusiveTargets
    /\ Collecting /\ Deleting
    /\ up => TableClaims /\ Mapped
--------------------------------------------------------------------------------
(* Tables                                                                       *)

\* The three ranges are apart.
LEMMA RangesAreApart ==
    /\ \A m \in TCPPorts : m > MaxHTTPPort /\ m \notin HTTPPorts /\ m \notin UDPPorts
    /\ \A m \in UDPPorts : m > MaxHTTPPort /\ m \notin HTTPPorts
    /\ \A m \in HTTPPorts : ~(m > MaxHTTPPort)
BY RangeAssumption DEF HTTPPorts, TCPPorts, UDPPorts

\* A table with room for all claims has a mesh port for one that is not mapped: by the
\* pigeonhole principle the others do not fill it.
LEMMA ClaimsFit ==
    ASSUME NEW range, NEW table \in Tables(range), MappedOnce(table), NEW S \in SUBSET Claim,
           IsFiniteSet(S), IsFiniteSet(range), Cardinality(S) <= Cardinality(range),
           \A m \in range : table[m] \in S \cup {NoClaim},
           NEW claim \in S, ~IsMapped(table, claim)
    PROVE  CanAdd(table)
<1> SUFFICES ASSUME ~CanAdd(table) PROVE FALSE
  OBVIOUS
<1> DEFINE T == S \ {claim}
<1>1. table \in [range -> T]
  BY DEF CanAdd, Available, Tables, IsMapped
<1>2. IsFiniteSet(T) /\ Cardinality(T) < Cardinality(range)
  <2>1. Cardinality(S) \in Nat /\ Cardinality(range) \in Nat
    BY FS_CardinalityType
  <2>2. IsFiniteSet(T) /\ Cardinality(T) = Cardinality(S) - 1
    BY FS_RemoveElement
  <2> QED
    BY <2>1, <2>2
<1> HIDE DEF T
<1>3. PICK m, n \in range : m # n /\ table[m] = table[n]
  BY <1>1, <1>2, FS_PigeonHole
<1>4. table[m] # NoClaim
  BY <1>3 DEF CanAdd, Available, Tables
<1> QED
  BY <1>3, <1>4 DEF MappedOnce, Tables

\* What releasing the ports of one service leaves.
LEMMA ReleaseLeaves ==
    ASSUME IInv, NEW s, NEW ports, ReleasePorts(s, ports)
    PROVE  /\ TableClaims => TableClaims'
           /\ \A t \in Service : \A p :
                  /\ InRange(t, p) /\ MappedTo(p, t)
                  /\ \/ t # s
                     \/ \A q \in ports : q.target > MaxHTTPPort =>
                            q.port # p.port \/ q.proto # p.proto
                  => MappedTo(p, t)'
<1>1. /\ tcp' = Release(tcp, MappedClaims(s, ports, "TCP"))
      /\ udp' = Release(udp, MappedClaims(s, ports, "UDP"))
      /\ DOMAIN tcp = TCPPorts /\ DOMAIN udp = UDPPorts
  BY DEF ReleasePorts, IInv, TablesOK, Tables
<1>2. TableClaims => TableClaims'
  BY <1>1 DEF TableClaims, HoldsClaims, Release
<1>3. ASSUME NEW t \in Service, NEW p, InRange(t, p), MappedTo(p, t),
             \/ t # s
             \/ \A q \in ports : q.target > MaxHTTPPort =>
                    q.port # p.port \/ q.proto # p.proto
      PROVE  MappedTo(p, t)'
  <2>1. ASSUME p.target \in TCPPorts PROVE tcp'[p.target] = <<t, p.port>>
    <3>1. p.proto = "TCP"
      BY <1>3, <2>1, RangesAreApart DEF InRange
    <3>2. <<t, p.port>> \notin MappedClaims(s, ports, "TCP")
      BY <1>3, <3>1 DEF MappedClaims
    <3> QED
      BY <1>1, <1>3, <2>1, <3>2 DEF Release, MappedTo
  <2>2. ASSUME p.target \in UDPPorts PROVE udp'[p.target] = <<t, p.port>>
    <3>1. p.proto = "UDP"
      BY <1>3, <2>2, RangesAreApart DEF InRange
    <3>2. <<t, p.port>> \notin MappedClaims(s, ports, "UDP")
      BY <1>3, <3>1 DEF MappedClaims
    <3> QED
      BY <1>1, <1>3, <2>2, <3>2 DEF Release, MappedTo
  <2> QED
    BY <2>1, <2>2 DEF MappedTo
<1> QED
  BY <1>2, <1>3

--------------------------------------------------------------------------------
(* The worker's steps                                                           *)

\* Steps that leave the shadow services, the tables and the visit alone.
LEMMA OthersKeepAlloc ==
    ASSUME AllocInv, UNCHANGED <<shadows, shadowCache, shadowWatch, tcp, udp, up>>,
           \/ UNCHANGED worker
           \/ worker.pc \notin {"ports", "delete"} /\ worker'.pc \notin {"ports", "delete"}
    PROVE  AllocInv'
<1>1. Mapped => Mapped'
  BY DEF Mapped, Freed, MappedTo
<1>2. Collecting' /\ Deleting'
  BY DEF AllocInv, Collecting, Deleting, MappedTo
<1>3. TableClaims => TableClaims'
  BY DEF TableClaims, HoldsClaims
<1>4. ListerIsCurrent' /\ AllInRange' /\ ExclusiveTargets'
  BY DEF AllocInv, ListerIsCurrent, AllInRange, ExclusiveTargets
<1> QED
  BY <1>1, <1>2, <1>3, <1>4 DEF AllocInv

\* The mappings of the ports the version does not have are freed; the type is supported.
LEMMA StartCreateOrUpdateKeepsAlloc ==
    ASSUME PortsFit, IInv, AllocInv, up, StartCreateOrUpdate
    PROVE  AllocInv'
<1> DEFINE k == worker.key
           v == worker.version
           gone == {p \in shadows[k] : ~Contains(v, p)}
<1>1. /\ k \in Service /\ worker \in WorkerStates /\ worker.pc = "shadow" /\ v # Absent
      /\ worker.ports = {} /\ worker.next = 1 /\ v \in ServiceVersion
  BY DEF IInv, WorkerOK, WorkerStates, StartCreateOrUpdate
<1>2. UNCHANGED <<shadows, shadowCache, shadowWatch, up>>
  BY DEF StartCreateOrUpdate, clusterVars
<1>3. shadowCache = shadows /\ shadowWatch[k] = << >>
  BY <1>1 DEF AllocInv, ListerIsCurrent
<1>4. /\ ReleasePorts(k, gone)
      /\ worker' = [worker EXCEPT !.pc = "ports", !.old = shadows[k], !.fresh = TRUE]
  BY <1>1, <1>3 DEF StartCreateOrUpdate, PortsFit
<1>5. /\ worker'.pc = "ports" /\ worker'.key = k /\ worker'.version = v
      /\ worker'.old = shadows[k] /\ worker'.fresh /\ worker'.ports = {} /\ worker'.next = 1
  BY <1>1, <1>4 DEF WorkerStates
<1>6. TableClaims' /\ Mapped'
  <2>1. TableClaims'
    BY <1>4, ReleaseLeaves DEF AllocInv
  <2>2. ASSUME NEW s \in Service, NEW p \in shadows[s] PROVE MappedTo(p, s)' \/ Freed(s, p)'
    <3>1. MappedTo(p, s) /\ InRange(s, p)
      BY <1>1 DEF AllocInv, Mapped, Freed, AllInRange
    <3>2. CASE s = k /\ ~Contains(v, p)
      BY <1>5, <3>2 DEF Freed
    <3>3. CASE s = k /\ Contains(v, p)
      <4>1. \A q \in gone : q.port # p.port \/ q.proto # p.proto
        BY <3>3 DEF Contains
      <4> QED
        BY <1>4, <3>1, <4>1, ReleaseLeaves
    <3>4. CASE s # k
      BY <1>4, <3>1, <3>4, ReleaseLeaves
    <3> QED
      BY <3>2, <3>3, <3>4
  <2> QED
    BY <1>2, <2>1, <2>2 DEF Mapped
<1>7. Collecting' /\ Deleting'
  <2>1. Collecting'
    BY <1>2, <1>5 DEF Collecting
  <2> QED
    BY <1>5, <2>1 DEF Deleting
<1>8. ListerIsCurrent' /\ AllInRange' /\ ExclusiveTargets'
  BY <1>2 DEF AllocInv, ListerIsCurrent, AllInRange, ExclusiveTargets
<1> QED
  BY <1>6, <1>7, <1>8 DEF AllocInv

\* One iteration over the ports.  The tables only get new entries, and a port is left
\* out only if the service does not want it in the mesh.
LEMMA IterationKeepsAlloc ==
    ASSUME IInv, AllocInv, up, NEW type, MappingPorts(type), NEW k, k = worker.key,
           UNCHANGED <<shadows, shadowCache, shadowWatch, up>>,
           \A m \in TCPPorts : tcp[m] # NoClaim => tcp'[m] = tcp[m],
           \A m \in UDPPorts : udp[m] # NoClaim => udp'[m] = udp[m],
           TableClaims',
           \/ SkipPort /\ ~Wanted(worker.version, worker.next)
           \/ \E target, q :
                /\ KeepPort(NextPort, target)
                /\ q = [port |-> NextPort.port, proto |-> NextPort.proto, target |-> target]
                /\ InRange(k, q) /\ MappedTo(q, k)'
    PROVE  AllocInv'
<1> DEFINE v == worker.version
           Collected(ports) ==
               /\ worker' = [worker EXCEPT !.next = worker.next + 1, !.ports = ports]
               /\ worker.ports \subseteq ports
               /\ \A p \in ports \ worker.ports : InRange(k, p) /\ MappedTo(p, k)'
               /\ Wanted(v, worker.next) => ports # {}
<1>1. /\ k \in Service /\ worker \in WorkerStates /\ worker.pc = "ports"
      /\ v \in ServiceVersion /\ worker.next \in Nat /\ Len(v.ports) \in Nat
  BY VersionPorts DEF IInv, WorkerOK, WorkerStates, MappingPorts
<1>2. ASSUME NEW t \in Service, NEW p, p.port \in Port, MappedTo(p, t)
      PROVE  MappedTo(p, t)'
  <2>1. <<t, p.port>> # NoClaim
    BY <1>2, NoClaimAssumption, NameAssumption
  <2> QED
    BY <1>2, <2>1 DEF MappedTo
<1>3. PICK ports : Collected(ports)
  <2>1. CASE SkipPort /\ ~Wanted(v, worker.next)
    <3>1. worker' = [worker EXCEPT !.next = worker.next + 1, !.ports = worker.ports]
      BY <1>1, <2>1 DEF SkipPort, WorkerStates
    <3>2. Collected(worker.ports)
      BY <2>1, <3>1
    <3> QED
      BY <3>2
  <2>2. ASSUME NEW target, NEW q, KeepPort(NextPort, target),
               q = [port |-> NextPort.port, proto |-> NextPort.proto, target |-> target],
               InRange(k, q), MappedTo(q, k)'
        PROVE  \E ports : Collected(ports)
    <3>1. worker' = [worker EXCEPT !.next = worker.next + 1, !.ports = worker.ports \cup {q}]
      BY <1>1, <2>2 DEF KeepPort, WorkerStates
    <3>2. Collected(worker.ports \cup {q})
      BY <2>2, <3>1
    <3> QED
      BY <3>2
  <2> QED
    BY <2>1, <2>2
<1>4. /\ worker'.pc = "ports" /\ worker'.key = k /\ worker'.version = v
      /\ worker'.old = worker.old /\ worker'.fresh = worker.fresh
      /\ worker'.next = worker.next + 1 /\ worker'.ports = ports
  BY <1>1, <1>3 DEF WorkerStates
<1>5. Mapped'
  <2> SUFFICES ASSUME NEW s \in Service, NEW p \in shadows[s]
               PROVE  MappedTo(p, s)' \/ Freed(s, p)'
    BY DEF Mapped
  <2>1. p.port \in Port
    BY DEF IInv, ShadowsOK, ShadowPort
  <2>2. Freed(s, p) => Freed(s, p)'
    BY <1>1, <1>4 DEF Freed
  <2> QED
    BY <1>2, <2>1, <2>2 DEF AllocInv, Mapped
<1>6. Collecting'
  <2>1. worker.old = shadows[k] /\ worker.fresh
    BY <1>1 DEF AllocInv, Collecting
  <2>2. ASSUME NEW p \in ports PROVE InRange(k, p) /\ MappedTo(p, k)'
    <3>1. CASE p \in worker.ports
      <4>1. p.port \in Port
        BY <1>1, <3>1 DEF WorkerStates, ShadowPort
      <4>2. InRange(k, p) /\ MappedTo(p, k)
        BY <1>1, <3>1 DEF AllocInv, Collecting
      <4> QED
        BY <1>1, <1>2, <4>1, <4>2
    <3> QED
      BY <1>3, <3>1
  <2>3. ASSUME NEW i \in 1 .. Len(v.ports), i < worker.next + 1, Wanted(v, i)
        PROVE  ports # {}
    <3>1. CASE i = worker.next
      BY <1>3, <2>3, <3>1
    <3>2. CASE i < worker.next
      BY <1>1, <1>3, <2>3, <3>2 DEF AllocInv, Collecting
    <3> QED
      BY <1>1, <2>3, <3>1, <3>2
  <2> QED
    BY <1>4, <2>1, <2>2, <2>3 DEF Collecting
<1>7. Deleting' /\ ListerIsCurrent' /\ AllInRange' /\ ExclusiveTargets'
  BY <1>4 DEF AllocInv, ListerIsCurrent, AllInRange, ExclusiveTargets, Deleting
<1> QED
  BY <1>5, <1>6, <1>7 DEF AllocInv

\* A port of an HTTP service gets the entry point of its index, or is beyond the last.
LEMMA MapHTTPPortKeepsAlloc ==
    ASSUME IInv, AllocInv, up, SkipUnsuitablePort \/ MapHTTPPort
    PROVE  AllocInv'
<1> PICK k : k = worker.key
  OBVIOUS
<1>1. UNCHANGED <<shadows, shadowCache, shadowWatch, up, tcp, udp>>
  BY DEF SkipUnsuitablePort, MapHTTPPort, clusterVars
<1>2. TableClaims'
  BY <1>1 DEF AllocInv, TableClaims, HoldsClaims
<1>3. CASE SkipUnsuitablePort
  <2>1. PICK type : MappingPorts(type) /\ ~Suitable(type, NextPort)
    BY <1>3 DEF SkipUnsuitablePort
  <2>2. SkipPort /\ ~Wanted(worker.version, worker.next)
    BY <1>3, <2>1 DEF SkipUnsuitablePort, Wanted, NextPort, MappingPorts
  <2> QED
    BY <1>1, <1>2, <2>1, <2>2, IterationKeepsAlloc
<1>4. CASE MapHTTPPort
  <2>1. MappingPorts("http") /\ worker.next \in Nat \ {0}
    BY <1>4 DEF MapHTTPPort, IInv, WorkerOK, WorkerStates
  <2>2. HTTPPort(worker.next) \in Nat /\ HTTPPort(worker.next) >= MinHTTPPort
        /\ MaxHTTPPort \in Nat
    BY <2>1, RangeAssumption DEF HTTPPort
  <2>3. CASE HTTPPort(worker.next) > MaxHTTPPort
    <3>1. SkipPort /\ ~Wanted(worker.version, worker.next)
      BY <1>4, <2>1, <2>2, <2>3 DEF MapHTTPPort, Wanted, MappingPorts
    <3> QED
      BY <1>1, <1>2, <2>1, <3>1, IterationKeepsAlloc
  <2>4. CASE ~(HTTPPort(worker.next) > MaxHTTPPort)
    <3> DEFINE target == HTTPPort(worker.next)
    <3>1. PICK q : q = [port |-> NextPort.port, proto |-> NextPort.proto, target |-> target]
      OBVIOUS
    <3>2. q.target \in HTTPPorts
      BY <2>2, <2>4, <3>1, RangeAssumption DEF HTTPPorts
    <3>3. InRange(k, q) /\ MappedTo(q, k)'
      BY <3>2, RangesAreApart DEF InRange, MappedTo
    <3>4. KeepPort(NextPort, target)
      BY <1>4, <2>4 DEF MapHTTPPort
    <3> HIDE DEF target
    <3> QED
      BY <1>1, <1>2, <2>1, <3>1, <3>3, <3>4, IterationKeepsAlloc
  <2> QED
    BY <2>3, <2>4
<1> QED
  BY <1>3, <1>4

\* A TCP or UDP port gets the mesh port it has or a free one: there is one.
LEMMA TablePortFits ==
    ASSUME PortsFit, IInv, up, NEW type \in {"tcp", "udp"}, MappingPorts(type),
           Suitable(type, NextPort), NEW range, range = TargetRange(type),
           NEW table \in Tables(range), MappedOnce(table), HoldsClaims(table, type),
           NEW newTable, MapTablePort(table, newTable)
    PROVE  /\ newTable \in Tables(range)
           /\ HoldsClaims(newTable, type)
           /\ \A m \in range : table[m] # NoClaim => newTable[m] = table[m]
           /\ <<worker.key, NextPort.port>> \in Claims(type)
           /\ \E target \in range :
                KeepPort(NextPort, target) /\ newTable[target] = <<worker.key, NextPort.port>>
<1> DEFINE v == worker.version
           claim == <<worker.key, NextPort.port>>
<1>1. range \in SUBSET Nat /\ IsFiniteSet(range)
  <2>1. range = TCPPorts \/ range = UDPPorts
    BY DEF TargetRange
  <2>2. IsFiniteSet(TCPPorts) /\ IsFiniteSet(UDPPorts)
    BY FS_Interval, RangeAssumption DEF TCPPorts, UDPPorts
  <2> QED
    BY <2>1, <2>2, RangesAreNaturals
<1>2. /\ worker.key \in Service /\ v \in ServiceVersion /\ v.type = type
      /\ worker.next \in 1 .. Len(v.ports) /\ NextPort = v.ports[worker.next]
  BY VersionPorts DEF IInv, WorkerOK, WorkerStates, MappingPorts, NextPort
<1>3. claim \in Claims(type)
  <2>1. NextPort \in WantedPorts(v)
    BY <1>2 DEF WantedPorts
  <2>2. NextPort.port \in Port
    BY <1>2, VersionPorts
  <2>3. claim \in Claim
    BY <1>2, <2>2, KeysAndClaims
  <2> QED
    BY <1>2, <2>1, <2>3 DEF Claims
<1> HIDE DEF claim
<1>4. CASE IsMapped(table, claim) /\ newTable = table /\ KeepPort(NextPort, Find(table, claim))
  <2>1. Find(table, claim) \in range /\ table[Find(table, claim)] = claim
    BY <1>4, FindReturnsHolder
  <2> QED
    BY <1>3, <1>4, <2>1 DEF claim
<1>5. CASE /\ CanAdd(table) /\ newTable = Add(table, claim)
           /\ KeepPort(NextPort, FirstAvailable(table))
  <2>1. FirstAvailable(table) \in range /\ table[FirstAvailable(table)] = NoClaim
    BY <1>1, <1>5, FirstAvailableIsFree
  <2>2. newTable \in Tables(range) /\ DOMAIN table = range
    BY <1>1, <1>3, <1>5, AddKeepsMappedOnce DEF Claims, Tables
  <2>3. /\ newTable[FirstAvailable(table)] = claim
        /\ \A m \in range : m # FirstAvailable(table) => newTable[m] = table[m]
    BY <1>5, <2>1, <2>2 DEF Add, Tables
  <2>4. HoldsClaims(newTable, type)
    BY <1>3, <2>2, <2>3 DEF HoldsClaims, Tables
  <2> QED
    BY <1>3, <1>5, <2>1, <2>2, <2>3, <2>4 DEF claim
<1>6. CASE ~IsMapped(table, claim) /\ ~CanAdd(table)
  <2>1. \A m \in range : table[m] \in Claims(type) \cup {NoClaim}
    BY DEF HoldsClaims, Tables
  <2>2. Claims(type) \in SUBSET Claim
    BY DEF Claims
  <2>3. IsFiniteSet(Claims(type)) /\ Cardinality(Claims(type)) <= Cardinality(range)
    BY DEF PortsFit
  <2> QED
    BY <1>1, <1>3, <1>6, <2>1, <2>2, <2>3, ClaimsFit
<1> QED
  BY <1>4, <1>5, <1>6 DEF MapTablePort, claim

\* A TCP or UDP port is mapped.
LEMMA MapTablePortsKeepAlloc ==
    ASSUME PortsFit, IInv, AllocInv, up, MapTCPPort \/ MapUDPPort
    PROVE  AllocInv'
<1> PICK k : k = worker.key
  OBVIOUS
<1>1. UNCHANGED <<shadows, shadowCache, shadowWatch, up>>
  BY DEF MapTCPPort, MapUDPPort, clusterVars
<1>2. /\ tcp \in Tables(TCPPorts) /\ MappedOnce(tcp) /\ HoldsClaims(tcp, "tcp")
      /\ udp \in Tables(UDPPorts) /\ MappedOnce(udp) /\ HoldsClaims(udp, "udp")
      /\ TargetRange("tcp") = TCPPorts /\ TargetRange("udp") = UDPPorts
  BY DEF IInv, TablesOK, AllocInv, TableClaims, TargetRange
<1>3. CASE MapTCPPort
  <2>1. /\ MappingPorts("tcp") /\ Suitable("tcp", NextPort) /\ MapTablePort(tcp, tcp')
        /\ udp' = udp /\ NextPort.proto = "TCP"
    BY <1>3 DEF MapTCPPort, Suitable
  <2>2. /\ HoldsClaims(tcp', "tcp")
        /\ \A m \in TCPPorts : tcp[m] # NoClaim => tcp'[m] = tcp[m]
        /\ <<k, NextPort.port>> \in Claims("tcp")
        /\ \E target \in TCPPorts :
             KeepPort(NextPort, target) /\ tcp'[target] = <<k, NextPort.port>>
    BY <1>2, <2>1, TablePortFits
  <2>3. PICK target \in TCPPorts :
             KeepPort(NextPort, target) /\ tcp'[target] = <<k, NextPort.port>>
    BY <2>2
  <2>4. PICK q : q = [port |-> NextPort.port, proto |-> NextPort.proto, target |-> target]
    OBVIOUS
  <2>5. InRange(k, q) /\ MappedTo(q, k)'
    BY <2>1, <2>2, <2>3, <2>4, RangesAreApart DEF InRange, MappedTo
  <2>6. TableClaims'
    BY <1>2, <2>1, <2>2 DEF TableClaims, HoldsClaims
  <2> QED
    BY <1>1, <2>1, <2>2, <2>3, <2>4, <2>5, <2>6, IterationKeepsAlloc
<1>4. CASE MapUDPPort
  <2>1. /\ MappingPorts("udp") /\ Suitable("udp", NextPort) /\ MapTablePort(udp, udp')
        /\ tcp' = tcp /\ NextPort.proto = "UDP"
    BY <1>4 DEF MapUDPPort, Suitable
  <2>2. /\ HoldsClaims(udp', "udp")
        /\ \A m \in UDPPorts : udp[m] # NoClaim => udp'[m] = udp[m]
        /\ <<k, NextPort.port>> \in Claims("udp")
        /\ \E target \in UDPPorts :
             KeepPort(NextPort, target) /\ udp'[target] = <<k, NextPort.port>>
    BY <1>2, <2>1, TablePortFits
  <2>3. PICK target \in UDPPorts :
             KeepPort(NextPort, target) /\ udp'[target] = <<k, NextPort.port>>
    BY <2>2
  <2>4. PICK q : q = [port |-> NextPort.port, proto |-> NextPort.proto, target |-> target]
    OBVIOUS
  <2>5. InRange(k, q) /\ MappedTo(q, k)'
    BY <2>1, <2>2, <2>3, <2>4, RangesAreApart DEF InRange, MappedTo
  <2>6. TableClaims'
    BY <1>2, <2>1, <2>2 DEF TableClaims, HoldsClaims
  <2> QED
    BY <1>1, <2>1, <2>2, <2>3, <2>4, <2>5, <2>6, IterationKeepsAlloc
<1> QED
  BY <1>3, <1>4

\* A port that is collected and a port of the old shadow service with its number and
\* protocol, both in tables, are one: the version has the old port, so it is still mapped,
\* and a claim has one mesh port.
LEMMA KeptPortsKeepTargets ==
    ASSUME IInv, AllocInv, up, worker.pc = "ports", NEW k, k = worker.key,
           NEW p \in worker.ports, NEW q \in shadows[k],
           p.target \notin HTTPPorts, q.target \notin HTTPPorts,
           q.port = p.port, q.proto = p.proto
    PROVE  p = q
<1> DEFINE v == worker.version
<1>1. /\ k \in Service /\ p \in ShadowPort /\ q \in ShadowPort
      /\ InRange(k, p) /\ MappedTo(p, k)
  BY DEF IInv, WorkerOK, WorkerStates, ShadowsOK, AllocInv, Collecting
<1>2. Contains(v, q)
  <2>1. PICK i \in 1 .. Len(v.ports) : v.ports[i] = [port |-> p.port, proto |-> p.proto]
    BY DEF IInv, WorkerOK, CollectedFrom
  <2>2. v.ports[i].port = q.port /\ v.ports[i].proto = q.proto
    BY <2>1
  <2> QED
    BY <2>2 DEF Contains
<1>3. MappedTo(q, k) /\ InRange(k, q)
  BY <1>1, <1>2 DEF AllocInv, Mapped, Freed, AllInRange
<1>4. <<k, p.port>> # NoClaim
  BY <1>1, NoClaimAssumption, NameAssumption DEF ShadowPort
<1>5. p.target = q.target
  <2>1. CASE p.proto = "TCP"
    <3>1. p.target \in TCPPorts /\ q.target \in TCPPorts
      BY <1>1, <1>3, <2>1 DEF InRange
    <3>2. tcp[p.target] = <<k, p.port>> /\ tcp[q.target] = <<k, p.port>>
      BY <1>1, <1>3, <3>1 DEF MappedTo
    <3> QED
      BY <1>4, <3>1, <3>2 DEF MappedOnce, IInv, TablesOK, Tables
  <2>2. CASE p.proto # "TCP"
    <3>1. p.target \in UDPPorts /\ q.target \in UDPPorts
      BY <1>1, <1>3, <2>2 DEF InRange
    <3>2. udp[p.target] = <<k, p.port>> /\ udp[q.target] = <<k, p.port>>
      BY <1>1, <1>3, <3>1 DEF MappedTo
    <3> QED
      BY <1>4, <3>1, <3>2 DEF MappedOnce, IInv, TablesOK, Tables
  <2> QED
    BY <2>1, <2>2
<1> QED
  BY <1>1, <1>5 DEF ShadowPort

\* So the clean-up after the call frees no port that was just written.
LEMMA WrittenPortsStayMapped ==
    ASSUME IInv, AllocInv, up, worker.pc = "ports", NEW k, k = worker.key,
           ReleasePorts(k, shadows[k] \ worker.ports), NEW p \in worker.ports
    PROVE  MappedTo(p, k)'
<1>1. k \in Service /\ InRange(k, p) /\ MappedTo(p, k)
  BY DEF IInv, WorkerOK, AllocInv, Collecting
<1>2. CASE p.target \in HTTPPorts
  BY <1>2, RangesAreApart DEF MappedTo
<1>3. CASE p.target \notin HTTPPorts
  <2>1. ASSUME NEW q \in shadows[k] \ worker.ports, q.target > MaxHTTPPort
        PROVE  q.port # p.port \/ q.proto # p.proto
    <3>1. q.target \notin HTTPPorts
      BY <2>1, RangesAreApart
    <3> QED
      BY <1>3, <3>1, KeptPortsKeepTargets
  <2> QED
    BY <1>1, <2>1, ReleaseLeaves
<1> QED
  BY <1>2, <1>3

\* Every port is mapped again once the shadow service is written, so no target is shared.
LEMMA WriteShadowKeepsAlloc ==
    ASSUME PortsFit, IInv, AllocInv, up, WriteShadow
    PROVE  AllocInv'
<1> PICK k : k = worker.key
  OBVIOUS
<1> DEFINE v == worker.version
           ports == worker.ports
<1>1. /\ k \in Service /\ worker \in WorkerStates /\ worker.pc = "ports"
      /\ v \in ServiceVersion /\ worker.next \in Nat /\ worker.next > Len(v.ports)
      /\ Len(v.ports) \in Nat /\ ports \subseteq ShadowPort
  BY VersionPorts DEF IInv, WorkerOK, WorkerStates, WriteShadow
<1>2. /\ worker.old = shadows[k] /\ worker.fresh
      /\ \A p \in ports : InRange(k, p) /\ MappedTo(p, k)
  BY <1>1 DEF AllocInv, Collecting
<1>3. ports # {}
  <2>1. PICK i \in 1 .. Len(v.ports) : Wanted(v, i)
    BY <1>1 DEF PortsFit, WantedPorts, Wanted
  <2>2. i < worker.next
    BY <1>1, <2>1
  <2> QED
    BY <1>1, <2>1, <2>2 DEF AllocInv, Collecting
<1>4. WriteAccepted
  BY <1>2, <1>3 DEF WriteAccepted
<1>5. /\ ReleasePorts(k, shadows[k] \ ports) /\ ShadowWritten(k, ports) /\ Synced
      /\ up' = up
  <2>1. ~(faults < MaxFaults)
    BY DEF PortsFit, IInv, InputsOK
  <2> QED
    BY <1>2, <1>4, <2>1 DEF WriteShadow, CallFaults
<1>6. /\ worker'.pc = "build" /\ shadows' = [shadows EXCEPT ![k] = ports]
      /\ shadows \in [Service -> SUBSET ShadowPort]
  BY <1>5 DEF Synced, IdleWorker, ShadowWritten, IInv, ShadowsOK
<1>7. AllInRange'
  BY <1>1, <1>2, <1>6 DEF AllocInv, AllInRange
<1>8. ASSUME NEW s \in Service, NEW p \in shadows'[s] PROVE MappedTo(p, s)'
  <2>1. CASE s = k
    BY <1>1, <1>5, <1>6, <1>8, <2>1, WrittenPortsStayMapped
  <2>2. CASE s # k
    <3>1. p \in shadows[s]
      BY <1>1, <1>6, <1>8, <2>2
    <3>2. MappedTo(p, s) /\ InRange(s, p)
      BY <2>2, <3>1 DEF AllocInv, Mapped, Freed, AllInRange
    <3> QED
      BY <1>5, <2>2, <3>2, ReleaseLeaves
  <2> QED
    BY <2>1, <2>2
<1>9. ExclusiveTargets'
  <2> SUFFICES ASSUME NEW s \in Service, NEW t \in Service,
                      NEW p \in shadows'[s], NEW q \in shadows'[t],
                      p.target = q.target, p.target > MaxHTTPPort
               PROVE  s = t /\ p = q
    BY DEF ExclusiveTargets
  <2>1. p \in ShadowPort /\ q \in ShadowPort /\ InRange(s, p) /\ InRange(t, q)
    BY <1>1, <1>6, <1>7 DEF AllInRange
  <2>2. MappedTo(p, s)' /\ MappedTo(q, t)'
    BY <1>8
  <2>3. p.target \notin HTTPPorts
    BY RangesAreApart
  <2>4. <<s, p.port>> = <<t, q.port>> /\ p.proto = q.proto
    BY <2>1, <2>2, <2>3, RangesAreApart DEF InRange, MappedTo
  <2> QED
    BY <2>1, <2>4 DEF ShadowPort
<1>10. Mapped' /\ TableClaims'
  BY <1>5, <1>8, ReleaseLeaves DEF Mapped, AllocInv
<1>11. ListerIsCurrent'
  BY <1>1, <1>5, WriteKeepsListerCurrent DEF AllocInv, PortsFit
<1> QED
  BY <1>6, <1>7, <1>9, <1>10, <1>11 DEF AllocInv, Collecting, Deleting

\* The ports of the shadow service are freed, and its deletion follows.
LEMMA StartDeleteKeepsAlloc ==
    ASSUME PortsFit, IInv, AllocInv, up, StartDelete
    PROVE  AllocInv'
<1> PICK k : k = worker.key
  OBVIOUS
<1>1. k \in Service /\ worker \in WorkerStates /\ worker.pc = "shadow"
  BY DEF IInv, WorkerOK, StartDelete
<1>2. UNCHANGED <<shadows, shadowCache, shadowWatch, up>>
  BY DEF StartDelete, clusterVars
<1>3. ReleasePorts(k, shadows[k])
  BY DEF StartDelete, AllocInv, ListerIsCurrent
<1>4. \/ shadows[k] = NoShadow /\ worker'.pc = "build"
      \/ shadows[k] # NoShadow /\ worker'.pc = "delete" /\ worker'.key = k
  BY <1>1 DEF StartDelete, AllocInv, ListerIsCurrent, Synced, IdleWorker, WorkerStates
<1>5. ASSUME NEW s \in Service, NEW p \in shadows[s] PROVE MappedTo(p, s)' \/ Freed(s, p)'
  <2>1. CASE s = k
    BY <1>4, <1>5, <2>1 DEF Freed, NoShadow
  <2>2. CASE s # k
    <3>1. MappedTo(p, s) /\ InRange(s, p)
      BY <1>1 DEF AllocInv, Mapped, Freed, AllInRange
    <3> QED
      BY <1>3, <2>2, <3>1, ReleaseLeaves
  <2> QED
    BY <2>1, <2>2
<1>6. Mapped' /\ TableClaims'
  BY <1>2, <1>3, <1>5, ReleaseLeaves DEF Mapped, AllocInv
<1>7. ListerIsCurrent' /\ AllInRange' /\ ExclusiveTargets'
  BY <1>2 DEF AllocInv, ListerIsCurrent, AllInRange, ExclusiveTargets
<1>8. Collecting' /\ Deleting'
  BY <1>2, <1>4 DEF Collecting, Deleting
<1> QED
  BY <1>6, <1>7, <1>8 DEF AllocInv

\* The shadow service with the freed ports goes.
LEMMA DeleteShadowKeepsAlloc ==
    ASSUME PortsFit, IInv, AllocInv, up, DeleteShadow
    PROVE  AllocInv'
<1> PICK k : k = worker.key
  OBVIOUS
<1>1. /\ k \in Service /\ worker.pc = "delete" /\ shadows[k] # NoShadow
      /\ shadows \in [Service -> SUBSET ShadowPort]
  BY DEF IInv, WorkerOK, ShadowsOK, DeleteShadow, AllocInv, Deleting
<1>2. ShadowWritten(k, NoShadow) /\ Synced /\ UNCHANGED <<up, tcp, udp>>
  <2>1. ~(faults < MaxFaults)
    BY DEF PortsFit, IInv, InputsOK
  <2> QED
    BY <1>1, <2>1 DEF DeleteShadow, CallFaults
<1>3. worker'.pc = "build" /\ shadows' = [shadows EXCEPT ![k] = NoShadow]
  BY <1>2 DEF Synced, IdleWorker, ShadowWritten
<1>4. \A s \in Service : \A p \in shadows'[s] : s # k /\ p \in shadows[s]
  BY <1>1, <1>3 DEF NoShadow
<1>5. Mapped' /\ TableClaims'
  BY <1>2, <1>4 DEF AllocInv, Mapped, MappedTo, Freed, TableClaims, HoldsClaims
<1>6. AllInRange' /\ ExclusiveTargets'
  BY <1>4 DEF AllocInv, AllInRange, ExclusiveTargets
<1>7. ListerIsCurrent'
  BY <1>1, <1>2, WriteKeepsListerCurrent DEF AllocInv, PortsFit
<1> QED
  BY <1>3, <1>5, <1>6, <1>7 DEF AllocInv, Collecting, Deleting

--------------------------------------------------------------------------------
(* Start                                                                        *)

\* The tables that are loaded map every port of a shadow service in their range, for no
\* other port has its target.
LEMMA LoadedMapsShadows ==
    ASSUME AllInRange, ExclusiveTargets, NEW range, NEW type,
           \/ range = TCPPorts /\ type = "tcp"
           \/ range = UDPPorts /\ type = "udp",
           NEW table \in Loaded(range, ShadowEntries)
    PROVE  /\ HoldsClaims(table, type)
           /\ \A s \in Service : \A p \in shadows[s] :
                  p.target \in range => table[p.target] = <<s, p.port>>
<1>1. table \in Tables(range) /\ DOMAIN table = range
  BY DEF Loaded, Tables
<1>2. ASSUME NEW m \in range, NEW e \in ShadowEntries, e.target = m, table[m] = e.claim
      PROVE  \E s \in Service : \E p \in shadows[s] :
                 p.target = m /\ table[m] = <<s, p.port>>
  BY <1>2 DEF ShadowEntries
<1>3. ASSUME NEW m \in range, table[m] # NoClaim
      PROVE  \E s \in Service : \E p \in shadows[s] :
                 p.target = m /\ table[m] = <<s, p.port>>
  <2>1. \E e \in ShadowEntries : e.target = m /\ table[m] = e.claim
    BY <1>3 DEF Loaded
  <2> QED
    BY <1>2, <2>1
<1>4. HoldsClaims(table, type)
  <2> SUFFICES ASSUME NEW m \in range, table[m] # NoClaim PROVE table[m] \in Claims(type)
    BY <1>1 DEF HoldsClaims
  <2>1. PICK s \in Service :
            \E p \in shadows[s] : p.target = m /\ table[m] = <<s, p.port>>
    BY <1>3
  <2>2. PICK p \in shadows[s] : p.target = m /\ table[m] = <<s, p.port>>
    BY <2>1
  <2>3. InRange(s, p)
    BY DEF AllInRange
  <2> QED
    BY <2>2, <2>3, RangesAreApart DEF InRange
<1>5. ASSUME NEW s \in Service, NEW p \in shadows[s], p.target \in range
      PROVE  table[p.target] = <<s, p.port>>
  <2> PICK m \in range : m = p.target
    BY <1>5
  <2>1. \E e \in ShadowEntries : e.target = m
    <3> DEFINE entry == [target |-> p.target, claim |-> <<s, p.port>>]
               entries(t) == {[target |-> x.target, claim |-> <<t, x.port>>] : x \in shadows[t]}
    <3>1. entry \in entries(s) /\ entries(s) \in {entries(t) : t \in Service}
      OBVIOUS
    <3>2. ShadowEntries = UNION {entries(t) : t \in Service}
      BY DEF ShadowEntries
    <3> HIDE DEF entries
    <3>3. entry \in ShadowEntries
      BY <3>1, <3>2
    <3> QED
      BY <3>3
  <2>2. \E e \in ShadowEntries : e.target = m /\ table[m] = e.claim
    BY <2>1 DEF Loaded
  <2>3. PICK t \in Service :
            \E q \in shadows[t] : q.target = m /\ table[m] = <<t, q.port>>
    BY <1>2, <2>2
  <2>4. PICK q \in shadows[t] : q.target = m /\ table[m] = <<t, q.port>>
    BY <2>3
  <2>5. m > MaxHTTPPort
    BY RangesAreApart
  <2>6. s = t /\ p = q
    BY <2>4, <2>5 DEF ExclusiveTargets
  <2> QED
    BY <2>4, <2>6
<1> QED
  BY <1>4, <1>5

\* A process that starts reads what is stored.
LEMMA StartKeepsAlloc ==
    ASSUME SyncInv, AllocInv, Start
    PROVE  AllocInv'
<1>1. /\ UNCHANGED <<shadows, shadowCache, shadowWatch, worker>> /\ ~up
      /\ tcp' \in Loaded(TCPPorts, ShadowEntries) /\ udp' \in Loaded(UDPPorts, ShadowEntries)
  BY DEF Start, clusterVars
<1>2. worker.pc = "idle"
  BY <1>1 DEF SyncInv, StoppedIsEmpty, IdleWorker
<1>3. AllInRange /\ ExclusiveTargets
  BY DEF AllocInv
<1>4. /\ HoldsClaims(tcp', "tcp")
      /\ \A s \in Service : \A p \in shadows[s] :
             p.target \in TCPPorts => tcp'[p.target] = <<s, p.port>>
  BY <1>1, <1>3, LoadedMapsShadows
<1>5. /\ HoldsClaims(udp', "udp")
      /\ \A s \in Service : \A p \in shadows[s] :
             p.target \in UDPPorts => udp'[p.target] = <<s, p.port>>
  BY <1>1, <1>3, LoadedMapsShadows
<1>6. TableClaims' /\ Mapped'
  BY <1>1, <1>4, <1>5 DEF TableClaims, HoldsClaims, Mapped, MappedTo
<1>7. ListerIsCurrent' /\ AllInRange' /\ ExclusiveTargets'
  BY <1>1 DEF AllocInv, ListerIsCurrent, AllInRange, ExclusiveTargets
<1> QED
  BY <1>1, <1>2, <1>6, <1>7 DEF AllocInv, Collecting, Deleting

--------------------------------------------------------------------------------
(* The invariant                                                                *)

\* Every step keeps the invariant when the ports fit.
LEMMA AllocPreserved ==
    ASSUME PortsFit, IInv, SyncInv, AllocInv, [Next]_vars
    PROVE  AllocInv'
<1>1. CASE UNCHANGED vars
  BY <1>1, OthersKeepAlloc DEF vars
<1>2. ASSUME NEW s \in Service, ChangeService(s) \/ DeleteUnseen(s) PROVE AllocInv'
  BY <1>2, OthersKeepAlloc DEF ChangeService, DeleteUnseen
<1>3. ASSUME NEW s \in Service PROVE ~ListerCatchesUp(s)
  BY DEF AllocInv, ListerIsCurrent, ListerCatchesUp
<1>4. CASE HandleEvent \/ OtherResourceEvent \/ \E k \in Key : DelayExpires(k)
  BY <1>4, OthersKeepAlloc DEF HandleEvent, OtherResourceEvent, DelayExpires, clusterVars
<1>5. CASE WorkerStep
  <2>1. up
    BY <1>5, WorkerRuns DEF SyncInv
  <2>2. CASE GetKey
    <3>1. worker.pc = "idle" /\ worker'.pc \in {"build", "sync"}
      BY <2>2 DEF GetKey, IdleWorker
    <3> QED
      BY <2>2, <3>1, OthersKeepAlloc DEF GetKey, clusterVars
  <2>3. CASE ReadService
    <3>1. worker.pc = "sync" /\ worker'.pc = "shadow"
      BY <2>3 DEF ReadService, IInv, WorkerOK, WorkerStates
    <3> QED
      BY <2>3, <3>1, OthersKeepAlloc DEF ReadService, clusterVars
  <2>4. CASE BuildConfig
    <3>1. worker.pc = "build" /\ worker'.pc = "idle"
      BY <2>4 DEF BuildConfig, IdleWorker
    <3> QED
      BY <2>4, <3>1, OthersKeepAlloc DEF BuildConfig, clusterVars
  <2>5. CASE StartCreateOrUpdate
    BY <2>1, <2>5, StartCreateOrUpdateKeepsAlloc
  <2>6. CASE SkipUnsuitablePort \/ MapHTTPPort \/ MapTCPPort \/ MapUDPPort
    BY <2>1, <2>6, MapHTTPPortKeepsAlloc, MapTablePortsKeepAlloc
  <2>7. CASE WriteShadow \/ StartDelete \/ DeleteShadow
    BY <2>1, <2>7, WriteShadowKeepsAlloc, StartDeleteKeepsAlloc, DeleteShadowKeepsAlloc
  <2> QED
    BY <1>5, <2>2, <2>3, <2>4, <2>5, <2>6, <2>7 DEF WorkerStep
<1>6. CASE Crash
  <2>1. /\ ~up' /\ shadows' = shadows /\ worker'.pc = "idle" /\ shadowCache' = shadows
        /\ shadowWatch' = [s \in Service |-> << >>]
    BY <1>6 DEF Crash, IdleWorker
  <2> QED
    BY <2>1 DEF AllocInv, ListerIsCurrent, AllInRange, ExclusiveTargets, Collecting, Deleting
<1>7. CASE Start
  BY <1>7, StartKeepsAlloc
<1> QED
  BY <1>1, <1>2, <1>3, <1>4, <1>5, <1>6, <1>7 DEF Next

\* No shadow service, no work.
LEMMA AllocInitially == Init => AllocInv
BY DEF Init, AllocInv, ListerIsCurrent, AllInRange, ExclusiveTargets, Collecting, Deleting,
   IdleWorker, NoShadow

\* AllocInv is an invariant, with those of Controller_proofs and Sync_proofs.
LEMMA AllocAlways ==
    ASSUME PortsFit
    PROVE  Spec => []AllocInv
<1>1. IInv /\ SyncInv /\ AllocInv /\ [Next]_vars => AllocInv'
  BY AllocPreserved
<1> QED
  BY <1>1, AllocInitially, IInvAlways, SyncAlways, PTL DEF Spec

--------------------------------------------------------------------------------
(* The theorems                                                                 *)

\* CreateOrUpdate and Delete may take the ports of a shadow service for ports that are
\* mapped for the service: between visits all of them are.
THEOREM StoredPortsStayMapped ==
    ASSUME PortsFit
    PROVE  Spec => []ShadowPortsAreMapped
<1>1. AllocInv => ShadowPortsAreMapped
  BY DEF AllocInv, Mapped, Freed, ShadowPortsAreMapped
<1> QED
  BY <1>1, AllocAlways, PTL

\* No two shadow service ports lead to one TCP or UDP entry point, at no moment of an
\* update and after a crash in the middle of one.
THEOREM MeshPortsAreExclusive ==
    ASSUME PortsFit
    PROVE  Spec => []ExclusiveTargets
<1>1. AllocInv => ExclusiveTargets
  BY DEF AllocInv
<1> QED
  BY <1>1, AllocAlways, PTL

--------------------------------------------------------------------------------
(* Shadow services, tables and the configuration                                *)

\* An HTTP service lists no port number twice, with TCP and with UDP: the routers of both
\* would have one key.
HTTPPortsAreApart ==
    \A v \in ServiceVersion : v.type = "http" =>
        \A i, j \in 1 .. Len(v.ports) : v.ports[i].port = v.ports[j].port => i = j

\* A port in a table has the route of its entry point, for its claim is mapped once.
LEMMA TablePortIsRouted ==
    ASSUME NEW s, NEW v, NEW table, MappedOnce(table), NEW p,
           p.target \in DOMAIN table, table[p.target] = <<s, p.port>>,
           <<s, p.port>> # NoClaim, NEW i \in 1 .. Len(v.ports), v.ports[i].port = p.port
    PROVE  [svc |-> s, port |-> p.port, entry |-> p.target] \in TableRoutes(s, v, table)
<1>1. IsMapped(table, <<s, p.port>>)
  BY DEF IsMapped
<1>2. Find(table, <<s, p.port>>) = p.target
  BY <1>1 DEF IsMapped, Find, MappedOnce
<1> QED
  BY <1>1, <1>2 DEF TableRoutes

\* A port of a shadow service that is in step has a route of its service.
LEMMA PortsInStepAreRouted ==
    ASSUME PortsFit, HTTPPortsAreApart, IInv, AllocInv, up, worker.pc = "idle",
           NEW s \in Service, Watched(svcs[s]), InStep(s), NEW p \in shadows[s]
    PROVE  [svc |-> s, port |-> p.port, entry |-> p.target] \in Routes
<1> DEFINE v == svcs[s]
           route == [svc |-> s, port |-> p.port, entry |-> p.target]
<1>1. v \in ServiceVersion /\ Len(v.ports) \in Nat
  BY VersionPorts DEF IInv, InputsOK, Watched
<1>2. /\ PortOf(p) \in WantedPorts(v) /\ p.target \in TargetRange(v.type)
      /\ v.type = "http" => HasHTTPTarget(p, v)
  BY DEF InStep, Fits
<1>3. MappedTo(p, s) /\ <<s, p.port>> # NoClaim
  <2>1. p.port \in Port
    BY DEF IInv, ShadowsOK, ShadowPort
  <2> QED
    BY <2>1, NoClaimAssumption, NameAssumption DEF AllocInv, Mapped, Freed
<1>4. PICK i \in 1 .. Len(v.ports) : v.ports[i].port = p.port
  BY <1>2 DEF WantedPorts, PortOf
<1>5. v.type \in {"http", "tcp", "udp"}
  BY <1>1, VersionAssumption DEF PortsFit, Version, TrafficType
<1>6. route \in RoutesOf(s, v)
  <2>1. CASE v.type = "http"
    <3>1. PICK j \in 1 .. Len(v.ports) : v.ports[j] = PortOf(p) /\ p.target = HTTPPort(j)
      BY <1>2, <2>1 DEF HasHTTPTarget
    <3>2. HTTPPort(j) <= MaxHTTPPort /\ v.ports[j].port = p.port
      BY <1>2, <2>1, <3>1 DEF TargetRange, HTTPPorts, PortOf
    <3>3. \A k \in j + 1 .. Len(v.ports) : v.ports[k].port # v.ports[j].port
      BY <1>1, <2>1 DEF HTTPPortsAreApart
    <3>4. route \in HTTPRoutes(s, v)
      BY <3>1, <3>2, <3>3 DEF HTTPRoutes
    <3> QED
      BY <2>1, <3>4 DEF RoutesOf
  <2>2. CASE v.type = "tcp"
    <3>1. p.target \in DOMAIN tcp /\ tcp[p.target] = <<s, p.port>> /\ MappedOnce(tcp)
      BY <1>2, <1>3, <2>2 DEF TargetRange, MappedTo, IInv, TablesOK, Tables
    <3> QED
      BY <1>3, <1>4, <2>2, <3>1, TablePortIsRouted DEF RoutesOf
  <2>3. CASE v.type = "udp"
    <3>1. p.target \in DOMAIN udp /\ udp[p.target] = <<s, p.port>> /\ MappedOnce(udp)
      BY <1>2, <1>3, <2>3 DEF TargetRange, MappedTo, IInv, TablesOK, Tables
    <3> QED
      BY <1>3, <1>4, <2>3, <3>1, TablePortIsRouted DEF RoutesOf
  <2> QED
    BY <1>5, <2>1, <2>2, <2>3
<1> QED
  BY <1>6 DEF Routes

\* Once the work is done, the stored configuration is current and every port of the shadow
\* service of a watched service leads to an entry point with a route to that service.
THEOREM RoutesLeadHome ==
    ASSUME PortsFit, HTTPPortsAreApart, ~Tombstones
    PROVE  Spec => []QuietRoutesLeadHome
<1>1. IInv /\ SyncInv /\ AllocInv /\ NoConfigurationForgotten => QuietRoutesLeadHome
  <2> SUFFICES ASSUME IInv, SyncInv, AllocInv, NoConfigurationForgotten, Quiet
               PROVE  QuietRoutesLeadHome
    BY DEF QuietRoutesLeadHome
  <2>1. conf = Routes
    BY DEF Quiet, NoConfigurationForgotten, WorkIsLeft
  <2>2. ASSUME NEW s \in Service PROVE ~Pending(s)
    BY DEF Quiet, Pending, IInv, QueueOK, WorkIsQueuedOnce
  <2>3. ASSUME NEW s \in Service, Watched(svcs[s]) PROVE InStep(s)
    BY <2>2, <2>3 DEF SyncInv, OutOfStepIsPending, NeedsSync, Quiet
  <2> QED
    BY <2>1, <2>3, PortsInStepAreRouted DEF QuietRoutesLeadHome, Quiet
<1> QED
  BY <1>1, IInvAlways, SyncAlways, AllocAlways, ConfigurationIsNotForgotten, PTL

--------------------------------------------------------------------------------
(* The refinement of PortAllocation                                             *)

LeaseOf(s, p) == [mesh |-> p.target, svc |-> s, port |-> p.port, proto |-> p.proto]

\* What is leased, by the shadow services.
LEMMA LeaseElements ==
    ASSUME NEW x
    PROVE  /\ x \in Leases <=>
                \E s \in Service : \E p \in shadows[s] :
                    p.target > MaxHTTPPort /\ x = LeaseOf(s, p)
           /\ x \in Leases' <=>
                \E s \in Service : \E p \in shadows'[s] :
                    p.target > MaxHTTPPort /\ x = LeaseOf(s, p)
BY DEF Leases, LeaseOf

\* Only the calls of the worker change shadow services, each the one of its key.
LEMMA OneShadowChanges ==
    ASSUME IInv, SyncInv, [Next]_vars, shadows' # shadows
    PROVE  /\ up /\ worker.key \in Service
           /\ \A s \in Service : s # worker.key => shadows'[s] = shadows[s]
           /\ \/ worker.pc = "ports" /\ shadows'[worker.key] = worker.ports
              \/ shadows'[worker.key] = NoShadow
<1>1. WriteShadow \/ DeleteShadow
  BY DEF Next, vars, ChangeService, DeleteUnseen, ListerCatchesUp, HandleEvent,
     OtherResourceEvent, DelayExpires, WorkerStep, GetKey, ReadService,
     StartCreateOrUpdate, SkipUnsuitablePort, MapHTTPPort, MapTCPPort, MapUDPPort,
     StartDelete, BuildConfig, Crash, Start, clusterVars
<1>2. up
  BY <1>1, WorkerRuns DEF SyncInv, WorkerStep
<1>3. worker.key \in Service /\ shadows \in [Service -> SUBSET ShadowPort]
  BY <1>1 DEF WriteShadow, DeleteShadow, IInv, WorkerOK, ShadowsOK
<1>4. CASE WriteShadow
  <2>1. shadows' = [shadows EXCEPT ![worker.key] = worker.ports] /\ worker.pc = "ports"
    BY <1>4 DEF WriteShadow, CallFaults, ShadowWritten
  <2> QED
    BY <1>2, <1>3, <2>1
<1>5. CASE DeleteShadow
  <2>1. shadows' = [shadows EXCEPT ![worker.key] = NoShadow]
    BY <1>5 DEF DeleteShadow, CallFaults, ShadowWritten
  <2> QED
    BY <1>2, <1>3, <2>1
<1> QED
  BY <1>1, <1>4, <1>5

\* A call reallocates the mesh ports of one service.
LEMMA CallsReallocate ==
    ASSUME IInv, SyncInv, AllocInv, IInv', AllocInv', [Next]_vars, shadows' # shadows
    PROVE  Allocation!Reallocate(worker.key)
<1> PICK k : k = worker.key
  OBVIOUS
<1>1. /\ up /\ k \in Service /\ \A s \in Service : s # k => shadows'[s] = shadows[s]
      /\ \/ worker.pc = "ports" /\ shadows'[k] = worker.ports
         \/ shadows'[k] = NoShadow
  BY OneShadowChanges
<1>2. /\ shadows \in [Service -> SUBSET ShadowPort] /\ shadows' \in [Service -> SUBSET ShadowPort]
      /\ \A s \in Service : OnePortPerNumber(shadows[s])
      /\ \A s \in Service : \A p \in shadows[s] : InRange(s, p)
      /\ \A s \in Service : \A p \in shadows'[s] : InRange(s, p)
  BY DEF IInv, ShadowsOK, AllocInv, AllInRange
<1>3. Leases' \subseteq Allocation!Lease
  <2> SUFFICES ASSUME NEW x \in Leases' PROVE x \in Allocation!Lease
    OBVIOUS
  <2>1. PICK s \in Service :
            \E p \in shadows'[s] : p.target > MaxHTTPPort /\ x = LeaseOf(s, p)
    BY LeaseElements
  <2>2. PICK p \in shadows'[s] : p.target > MaxHTTPPort /\ x = LeaseOf(s, p)
    BY <2>1
  <2>3. p \in ShadowPort /\ InRange(s, p)
    BY <1>2
  <2>4. p.target \in TCPPorts \cup UDPPorts
    BY <2>2, <2>3, RangesAreApart DEF InRange
  <2> QED
    BY <2>2, <2>3, <2>4 DEF LeaseOf, Allocation!Lease, ShadowPort
<1>4. \A x \in (Leases \ Leases') \cup (Leases' \ Leases) : x.svc = k
  <2>1. ASSUME NEW x, NEW s \in Service, s # k
        PROVE  /\ \A p \in shadows[s] :
                      p.target > MaxHTTPPort /\ x = LeaseOf(s, p) => x \in Leases'
               /\ \A p \in shadows'[s] :
                      p.target > MaxHTTPPort /\ x = LeaseOf(s, p) => x \in Leases
    BY <1>1, <2>1, LeaseElements
  <2>2. \A x, s, p : x = LeaseOf(s, p) => x.svc = s
    BY DEF LeaseOf
  <2> QED
    BY <2>1, <2>2, LeaseElements
<1>5. ASSUME NEW x \in Leases, NEW y \in Leases', Allocation!SameServicePort(x, y)
      PROVE  x = y
  <2>1. PICK s \in Service :
            \E p \in shadows[s] : p.target > MaxHTTPPort /\ x = LeaseOf(s, p)
    BY LeaseElements
  <2>2. PICK p \in shadows[s] : p.target > MaxHTTPPort /\ x = LeaseOf(s, p)
    BY <2>1
  <2>3. PICK t \in Service :
            \E q \in shadows'[t] : q.target > MaxHTTPPort /\ y = LeaseOf(t, q)
    BY LeaseElements
  <2>4. PICK q \in shadows'[t] : q.target > MaxHTTPPort /\ y = LeaseOf(t, q)
    BY <2>3
  <2>5. s = t /\ p.port = q.port /\ p.proto = q.proto
    BY <1>5, <2>2, <2>4 DEF LeaseOf, Allocation!SameServicePort
  <2>6. CASE s # k
    <3>1. q \in shadows[s]
      BY <1>1, <2>5, <2>6
    <3>2. p = q
      BY <1>2, <2>5, <3>1 DEF OnePortPerNumber
    <3> QED
      BY <2>2, <2>4, <2>5, <3>2
  <2>7. CASE s = k
    <3>1. q \in worker.ports /\ worker.pc = "ports"
      BY <1>1, <2>5, <2>7 DEF NoShadow
    <3>2. p.target \notin HTTPPorts /\ q.target \notin HTTPPorts
      BY <2>2, <2>4, RangesAreApart
    <3>3. p = q
      BY <1>1, <2>5, <2>7, <3>1, <3>2, KeptPortsKeepTargets
    <3> QED
      BY <2>2, <2>4, <2>5, <3>3
  <2> QED
    BY <2>6, <2>7
<1>6. ASSUME NEW x \in Leases', NEW y \in Leases', x.mesh = y.mesh
      PROVE  x = y
  <2>1. PICK s \in Service :
            \E p \in shadows'[s] : p.target > MaxHTTPPort /\ x = LeaseOf(s, p)
    BY LeaseElements
  <2>2. PICK p \in shadows'[s] : p.target > MaxHTTPPort /\ x = LeaseOf(s, p)
    BY <2>1
  <2>3. PICK t \in Service :
            \E q \in shadows'[t] : q.target > MaxHTTPPort /\ y = LeaseOf(t, q)
    BY LeaseElements
  <2>4. PICK q \in shadows'[t] : q.target > MaxHTTPPort /\ y = LeaseOf(t, q)
    BY <2>3
  <2>5. p.target = q.target
    BY <1>6, <2>2, <2>4 DEF LeaseOf
  <2>6. s = t /\ p = q
    BY <2>2, <2>5 DEF AllocInv, ExclusiveTargets
  <2> QED
    BY <2>2, <2>4, <2>6
<1> QED
  BY <1>3, <1>4, <1>5, <1>6 DEF Allocation!Reallocate

\* The mesh ports are leased as PortAllocation says: each to one service port at a time,
\* and a service port that stays in the mesh keeps its mesh port, restarts included.
THEOREM ControllerImplementsAllocation ==
    ASSUME PortsFit
    PROVE  Spec => ImplementsAllocation
<1>1. Init => Allocation!Init
  BY DEF Init, Allocation!Init, Leases, NoShadow
<1>2. /\ IInv /\ SyncInv /\ AllocInv /\ [Next]_vars
      => IInv' /\ SyncInv' /\ AllocInv'
  BY IInvPreserved, SyncPreserved, AllocPreserved
<1>3. IInv /\ SyncInv /\ AllocInv /\ IInv' /\ AllocInv' /\ [Next]_vars
      => [Allocation!Next]_Leases
  <2> SUFFICES ASSUME IInv, SyncInv, AllocInv, IInv', AllocInv', [Next]_vars
               PROVE  [Allocation!Next]_Leases
    OBVIOUS
  <2>1. CASE shadows' = shadows
    BY <2>1 DEF Leases
  <2>2. CASE shadows' # shadows
    <3>1. worker.key \in Service
      BY <2>2, OneShadowChanges
    <3> QED
      BY <2>2, <3>1, CallsReallocate DEF Allocation!Next
  <2> QED
    BY <2>1, <2>2
<1> QED
  BY <1>1, <1>3, IInvAlways, SyncAlways, AllocAlways, PTL
     DEF Spec, ImplementsAllocation, Allocation!Spec
================================================================================

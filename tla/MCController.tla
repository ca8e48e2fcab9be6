------------------------------ MODULE MCController ------------------------------
(* Small instances of Controller: two services, two port numbers, and versions *)
(* chosen so that ports are added, kept, dropped and change their table.       *)
EXTENDS Controller, TLC

CONSTANTS s1, s2

MCClaim == Service \X Port
MCKey == Service \cup {RefreshKey}

TCPOn(p) == [port |-> p, proto |-> "TCP"]
UDPOn(p) == [port |-> p, proto |-> "UDP"]

V(type, ports) == [type |-> type, watched |-> TRUE, ports |-> ports]

External(ports) == [type |-> "http", watched |-> FALSE, ports |-> ports]

\* Versions whose ports all fit: TCP ports are added, kept and dropped, a port moves
\* between HTTP and the tables, and a service becomes one the mesh ignores.
FittingVersions ==
    {V("tcp", <<TCPOn(1)>>), V("tcp", <<TCPOn(2), TCPOn(1)>>), V("http", <<TCPOn(1)>>),
     V("udp", <<UDPOn(1)>>), External(<<TCPOn(1)>>)}

\* Versions with ports the mesh leaves out (another protocol, beyond the last HTTP
\* entry point), without any port left, or with an unsupported traffic type.
OddVersions ==
    {V("tcp", <<UDPOn(2), TCPOn(1)>>), V("udp", <<TCPOn(1)>>),
     V("http", <<TCPOn(2), TCPOn(1)>>), V("unsupported", <<TCPOn(1)>>)}

\* A port that comes and goes.
PlainVersions == {V("tcp", <<TCPOn(1)>>), V("tcp", <<TCPOn(2)>>)}

\* A TCP service, and the same service annotated as UDP by mistake.
MistakenVersions == {V("tcp", <<TCPOn(1)>>), V("udp", <<TCPOn(1)>>)}

\* Nothing tells the services apart.
ServiceSymmetry == Permutations(Service)
================================================================================

----------------------------- MODULE PortAllocation -----------------------------
(***************************************************************************)
(* What the shadow services promise to the clients of the mesh, without     *)
(* controller, tables, caches or crashes: mesh ports are leased to service  *)
(* ports, each to one at a time, and a service port that stays in the mesh  *)
(* keeps its mesh port.                                                     *)
(***************************************************************************)
CONSTANTS MeshPort, Service, Port, Protocol

VARIABLE leases

Lease == [mesh : MeshPort, svc : Service, port : Port, proto : Protocol]

SameServicePort(x, y) == x.svc = y.svc /\ x.port = y.port /\ x.proto = y.proto

Init == leases = {}

\* One service changes.  It gives leases up and takes mesh ports nobody holds; the
\* leases of the other services stay, and no service port moves.
Reallocate(s) ==
    /\ leases' \subseteq Lease
    /\ \A x \in (leases \ leases') \cup (leases' \ leases) : x.svc = s
    /\ \A x \in leases, y \in leases' : SameServicePort(x, y) => x = y
    /\ \A x, y \in leases' : x.mesh = y.mesh => x = y

Next == \E s \in Service : Reallocate(s)

Spec == Init /\ [][Next]_leases
================================================================================

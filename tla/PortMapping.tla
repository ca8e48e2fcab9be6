------------------------------ MODULE PortMapping ------------------------------
(***************************************************************************)
(* The port mapping tables of pkg/controller/portmapping.go.  A table maps  *)
(* every mesh port of its range [minPort, maxPort] to the service port that *)
(* claims it, or to NoClaim (no entry in the Go map).  A claim stands for   *)
(* the servicePort struct: namespace, name and port of a service.           *)
(*                                                                          *)
(* Only the worker goroutine calls Add, Remove and LoadState, so each call  *)
(* is a function from table to table here; the mutex is abstracted.         *)
(***************************************************************************)
EXTENDS Integers

CONSTANTS
    Claim,      \* the service ports that may ask for a mesh port
    NoClaim     \* a mesh port that is free

ASSUME NoClaimAssumption == NoClaim \notin Claim

Tables(range) == [range -> Claim \cup {NoClaim}]

\* NewPortMapping
EmptyTable(range) == [m \in range |-> NoClaim]

\* Find: the claim's mesh port, and whether there is one.  The code returns the
\* first entry a map iteration meets; MappedOnce makes it the only one.
IsMapped(table, claim) == \E m \in DOMAIN table : table[m] = claim

Find(table, claim) == CHOOSE m \in DOMAIN table : table[m] = claim

\* Add: the first available port of the range, or an error when none is left.
Available(table) == {m \in DOMAIN table : table[m] = NoClaim}

CanAdd(table) == Available(table) # {}

FirstAvailable(table) ==
    CHOOSE m \in Available(table) : \A n \in Available(table) : m <= n

Add(table, claim) == [table EXCEPT ![FirstAvailable(table)] = claim]

\* Remove: the entry Find returns is deleted; an unknown claim is an error the
\* callers only log.
Remove(table, claim) ==
    IF IsMapped(table, claim)
    THEN [table EXCEPT ![Find(table, claim)] = NoClaim]
    ELSE table

\* The callers' loops: Remove called for each claim of a set, in any order.
\* Controller_proofs shows that the loop computes this function.
Release(table, claims) ==
    [m \in DOMAIN table |-> IF table[m] \in claims THEN NoClaim ELSE table[m]]

\* Fault: the tables start empty.
LoadedEmpty(range, entries) == {EmptyTable(range)}

\* LoadState: every shadow service port whose target lies in the range becomes
\* an entry.  The services are listed in no particular order and a later one
\* overwrites an earlier one, so two entries with one target leave either.
\* entries is a set of records [target, claim].
Loaded(range, entries) ==
    {table \in Tables(range) :
        \A m \in range :
            LET here == {e.claim : e \in {x \in entries : x.target = m}}
            IN  IF here = {} THEN table[m] = NoClaim ELSE table[m] \in here}

\* A claim holds at most one mesh port.
MappedOnce(table) ==
    \A m, n \in DOMAIN table :
        table[m] = table[n] /\ table[m] # NoClaim => m = n
================================================================================

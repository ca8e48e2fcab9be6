------------------------------ MODULE Topology_proofs ------------------------------
(***************************************************************************)
(* The properties of the topology that Build returns, for every cluster,    *)
(* every finite set of splits and any number of services, traffic targets   *)
(* and pods.                                                                *)
(*                                                                          *)
(* IncomingPods calls itself with more splits visited, so it has a value    *)
(* because there are finitely many splits, and what it returns follows from *)
(* what it returns for more visited splits (SupersetInduction).  A pod that *)
(* the recursion finds is allowed at the ends of all ways, and no way from  *)
(* the split is a loop, because a loop would have given the error           *)
(* (FoundIsAllowed); a pod that is allowed at the ends of all ways is never *)
(* lost on the way back (AllowedIsFound); without a loop below there is no  *)
(* error.                                                                   *)
(*                                                                          *)
(* The inductive invariant adds to the properties what the steps of Build   *)
(* have put into the maps so far: after evaluateTrafficSplit a service has  *)
(* the splits that are attached to it, each once, and after                 *)
(* evaluateTrafficTarget the targets that apply to it.                      *)
(***************************************************************************)
EXTENDS Topology, FiniteSetTheorems, WellFoundedInduction, TLAPS

--------------------------------------------------------------------------------
(* Induction and recursion without operators as parameters: a predicate is   *)
(* the set of the values that have it, the body of a recursive definition a  *)
(* function from functions to functions.                                     *)

\* A set that has every element whose smaller elements it has, has all.
LEMMA MeasureInduction ==
    ASSUME NEW X, NEW m \in [X -> Nat], NEW G,
           \A x \in X : (\A y \in X : m[y] < m[x] => y \in G) => x \in G
    PROVE  X \subseteq G
<1> DEFINE T == {m[x] : x \in X \ G}
<1> SUFFICES ASSUME T # {} PROVE FALSE
    OBVIOUS
<1>1. T \subseteq Nat
    OBVIOUS
<1>2. \E k \in T : \A l \in T : ~ (<<l, k>> \in OpToRel(<, Nat))
    <2> HIDE DEF T
    <2> QED BY <1>1, NatLessThanWellFounded, WFMin
<1>3. PICK k \in T : \A l \in T : ~ (l < k)
    <2>1. \A l, k \in Nat : <<l, k>> \in OpToRel(<, Nat) <=> l < k
        BY DEF OpToRel
    <2> QED BY <1>1, <1>2, <2>1
<1>4. PICK x \in X \ G : k = m[x]
    BY <1>3
<1>5. \A y \in X : m[y] < m[x] => y \in G
    BY <1>3, <1>4
<1> QED BY <1>4, <1>5

\* The subsets of a finite set, from the larger to the smaller ones.
LEMMA SupersetInduction ==
    ASSUME NEW S, IsFiniteSet(S), NEW G,
           \A V \in SUBSET S : (\A W \in SUBSET S : V \subseteq W /\ V # W => W \in G) => V \in G
    PROVE  SUBSET S \subseteq G
<1> DEFINE m == [V \in SUBSET S |-> Cardinality(S \ V)]
<1>1. m \in [SUBSET S -> Nat]
    BY FS_Difference, FS_CardinalityType
<1>2. ASSUME NEW V \in SUBSET S, NEW W \in SUBSET S, V \subseteq W, V # W
      PROVE  m[W] < m[V]
    <2>1. IsFiniteSet(S \ V)
        BY FS_Difference
    <2>2. S \ W \in SUBSET (S \ V) /\ S \ W # S \ V
        BY <1>2
    <2>3. Cardinality(S \ W) <= Cardinality(S \ V) /\ Cardinality(S \ W) # Cardinality(S \ V)
        BY <2>1, <2>2, FS_Subset
    <2>4. m[V] = Cardinality(S \ V) /\ m[W] = Cardinality(S \ W) /\ m[V] \in Nat /\ m[W] \in Nat
        BY <1>1
    <2> QED BY <2>3, <2>4
<1>3. ASSUME NEW V \in SUBSET S, \A W \in SUBSET S : m[W] < m[V] => W \in G
      PROVE  V \in G
    <2> HIDE DEF m
    <2> QED BY <1>2, <1>3
<1>4. \A V \in SUBSET S : (\A W \in SUBSET S : m[W] < m[V] => W \in G) => V \in G
    <2> HIDE DEF m
    <2> QED BY <1>3
<1> DEFINE X == SUBSET S
<1>5. m \in [X -> Nat] /\ \A V \in X : (\A W \in X : m[W] < m[V] => W \in G) => V \in G
    BY <1>1, <1>4
<1>6. X \subseteq G
    <2> HIDE DEF X, m
    <2> QED BY <1>5, MeasureInduction
<1> QED BY <1>6

\* A recursion that calls itself for smaller values only defines a function: H is its
\* body, N a bound of the measure.
Recurses(X, Y, m, N, H) ==
    /\ Y # {} /\ m \in [X -> Nat] /\ N \in Nat /\ \A x \in X : m[x] <= N
    /\ H \in [[X -> Y] -> [X -> Y]]
    /\ \A x \in X, f, g \in [X -> Y] :
            (\A z \in X : m[z] < m[x] => f[z] = g[z]) => H[f][x] = H[g][x]

\* A recursive definition on X has a value: H[f] is the body read with f for the function
\* that is defined, and at x it reads f only where the measure m is smaller.
LEMMA RecursionIsDefined ==
    ASSUME NEW X, NEW Y, NEW m, NEW N, NEW H, Recurses(X, Y, m, N, H)
    PROVE  \E f \in [X -> Y] : H[f] = f
<1> USE DEF Recurses
<1> DEFINE Holds(f, n) == \A x \in X : m[x] < n => H[f][x] = f[x]
           G == {n \in Nat : \E f \in [X -> Y] : Holds(f, n)}
           id == [n \in Nat |-> n]
<1>1. ASSUME NEW n \in Nat, \A k \in Nat : k < n => k \in G
      PROVE  n \in G
    <2>1. CASE n = 0
        <3>1. \E f \in [X -> Y] : TRUE
            <4>1. PICK y \in Y : TRUE
                OBVIOUS
            <4>2. [x \in X |-> y] \in [X -> Y]
                OBVIOUS
            <4> QED BY <4>2
        <3>2. \A f \in [X -> Y] : Holds(f, 0)
            OBVIOUS
        <3> QED BY <2>1, <3>1, <3>2
    <2>2. CASE n # 0
        <3>1. n - 1 \in Nat /\ n - 1 < n
            BY <2>2
        <3>2. PICK f \in [X -> Y] : Holds(f, n - 1)
            BY <1>1, <3>1
        <3>3. H[f] \in [X -> Y]
            OBVIOUS
        <3>4. ASSUME NEW x \in X, m[x] < n PROVE H[H[f]][x] = H[f][x]
            <4>1. \A z \in X : m[z] < m[x] => H[f][z] = f[z]
                BY <3>2, <3>4
            <4> QED BY <3>3, <4>1
        <3> QED BY <3>3, <3>4
    <2> QED BY <2>1, <2>2
<1>2. id \in [Nat -> Nat] /\ \A n \in Nat : id[n] = n
    OBVIOUS
<1>3. Nat \subseteq G
    <2> HIDE DEF G, id
    <2>1. ASSUME NEW n \in Nat, \A k \in Nat : id[k] < id[n] => k \in G
          PROVE  n \in G
        BY <1>1, <1>2, <2>1
    <2> QED BY <1>2, <2>1, MeasureInduction
<1>4. PICK f \in [X -> Y] : Holds(f, N + 1)
    <2>1. N + 1 \in Nat
        OBVIOUS
    <2>2. N + 1 \in G
        <3> HIDE DEF G
        <3> QED BY <1>3, <2>1
    <2> QED BY <2>2
<1>5. \A x \in X : H[f][x] = f[x]
    BY <1>4
<1>6. H[f] \in [X -> Y]
    OBVIOUS
<1> QED BY <1>5, <1>6

\* A set of naturals has a first element.
LEMMA FirstOf ==
    ASSUME NEW T \in SUBSET Nat, T # {}
    PROVE  \E k \in T : \A l \in T : k <= l
<1>1. \E k \in T : \A l \in T : ~ (<<l, k>> \in OpToRel(<, Nat))
    BY NatLessThanWellFounded, WFMin
<1>2. \A l, k \in Nat : <<l, k>> \in OpToRel(<, Nat) <=> l < k
    BY DEF OpToRel
<1>3. PICK k \in T : \A l \in T : ~ (l < k)
    BY <1>1, <1>2
<1> QED BY <1>3

--------------------------------------------------------------------------------
(* Sequences.                                                                   *)

\* A sequence is one of the elements it has.
LEMMA SeqOfElements ==
    ASSUME NEW A, NEW B, NEW s \in Seq(A), ToSet(s) \subseteq B
    PROVE  s \in Seq(B)
BY DEF ToSet

\* A sequence over a set is one over every larger set.
LEMMA SeqOfMore ==
    ASSUME NEW A, NEW B, A \subseteq B, NEW s \in Seq(A)
    PROVE  s \in Seq(B)
OBVIOUS

\* The empty sequence is the one without elements.
LEMMA EmptyHasNone ==
    ASSUME NEW T, NEW s \in Seq(T)
    PROVE  s = << >> <=> ToSet(s) = {}
<1>1. Len(s) \in Nat /\ DOMAIN s = 1 .. Len(s) /\ (s = << >> <=> Len(s) = 0)
    OBVIOUS
<1>2. ToSet(s) = {s[i] : i \in 1 .. Len(s)}
    BY <1>1 DEF ToSet
<1>3. Len(s) # 0 => s[1] \in ToSet(s)
    BY <1>1, <1>2
<1>4. Len(s) = 0 => ToSet(s) = {}
    BY <1>2
<1> QED BY <1>1, <1>3, <1>4

\* A new element at the end of a sequence.
LEMMA AppendElements ==
    ASSUME NEW T, NEW s \in Seq(T), NEW x \in T
    PROVE  /\ Append(s, x) \in Seq(T)
           /\ ToSet(Append(s, x)) = ToSet(s) \cup {x}
           /\ IsInjective(s) /\ x \notin ToSet(s) => IsInjective(Append(s, x))
<1> DEFINE r == Append(s, x)
           n == Len(s)
<1>1. r \in Seq(T)
    OBVIOUS
<1>2. /\ n \in Nat /\ DOMAIN s = 1 .. n /\ DOMAIN r = 1 .. n + 1
      /\ \A k \in 1 .. n : r[k] = s[k]
      /\ r[n + 1] = x
    OBVIOUS
<1> HIDE DEF r, n
<1>3. ToSet(r) = {r[k] : k \in 1 .. n + 1} /\ ToSet(s) = {s[k] : k \in 1 .. n}
    BY <1>2 DEF ToSet
<1>4. ToSet(r) = ToSet(s) \cup {x}
    BY <1>2, <1>3
<1>5. IsInjective(s) /\ x \notin ToSet(s) => IsInjective(r)
    BY <1>2 DEF IsInjective, ToSet
<1> QED BY <1>1, <1>4, <1>5 DEF r

\* Every prefix has a value in the definition of Selected.
Selects(f, s, S) ==
    /\ f[0] = << >>
    /\ \A i \in 1 .. Len(s) : f[i] = IF s[i] \in S THEN Append(f[i - 1], s[i]) ELSE f[i - 1]

\* The recursive function in Selected has a value at every prefix.
LEMMA SelectedIsDefined ==
    ASSUME NEW T, NEW s \in Seq(T), NEW S
    PROVE  \E f \in [0 .. Len(s) -> Seq(T)] : Selected(s, S) = f[Len(s)] /\ Selects(f, s, S)
<1> DEFINE X == 0 .. Len(s)
           Y == Seq(T)
           m == [i \in X |-> i]
           body(f) == [i \in X |-> IF i = 0 THEN << >>
                                   ELSE IF s[i] \in S THEN Append(f[i - 1], s[i]) ELSE f[i - 1]]
           H == [f \in [X -> Y] |-> body(f)]
<1>1. Len(s) \in Nat /\ \A i \in 1 .. Len(s) : s[i] \in T
    OBVIOUS
<1>2. ASSUME NEW f \in [X -> Y] PROVE body(f) \in [X -> Y]
    <2>1. ASSUME NEW i \in X, i # 0 PROVE f[i - 1] \in Y /\ s[i] \in T
        BY <1>1, <2>1
    <2>2. ASSUME NEW i \in X, i # 0 PROVE Append(f[i - 1], s[i]) \in Y
        BY <2>1, <2>2
    <2>3. << >> \in Y
        OBVIOUS
    <2> HIDE DEF Y
    <2> QED BY <2>1, <2>2, <2>3
<1>3. H \in [[X -> Y] -> [X -> Y]]
    <2> HIDE DEF body
    <2> QED BY <1>2
<1>4. ASSUME NEW i \in X, NEW f \in [X -> Y], NEW g \in [X -> Y],
             \A j \in X : m[j] < m[i] => f[j] = g[j]
      PROVE  H[f][i] = H[g][i]
    <2>1. i # 0 => f[i - 1] = g[i - 1]
        BY <1>1, <1>4
    <2>2. H[f] = body(f) /\ H[g] = body(g)
        OBVIOUS
    <2> QED BY <2>1, <2>2
<1>5. \E f \in [X -> Y] : H[f] = f
    <2> DEFINE n == Len(s)
    <2>1. n \in Nat /\ m \in [X -> Nat] /\ \A i \in X : m[i] <= n
        BY <1>1
    <2>2. Y # {}
        <3>1. << >> \in Y
            OBVIOUS
        <3> QED BY <3>1
    <2>3. Recurses(X, Y, m, n, H)
        <3> HIDE DEF n, X, Y, m, H
        <3> QED BY <1>3, <1>4, <2>1, <2>2 DEF Recurses
    <2> HIDE DEF n, X, Y, m, H
    <2> QED BY <2>3, RecursionIsDefined
<1>6. \E f : f = body(f)
    <2> HIDE DEF body
    <2> QED BY <1>5
<1> DEFINE F == CHOOSE f : f = body(f)
<1>7. F = body(F)
    <2> HIDE DEF body
    <2> QED BY <1>6
<1>8. Selected(s, S) = F[Len(s)]
    BY DEF Selected
<1> HIDE DEF F
<1>9. /\ F[0] = << >> /\ DOMAIN F = X
      /\ \A i \in 1 .. Len(s) :
            F[i] = IF s[i] \in S THEN Append(F[i - 1], s[i]) ELSE F[i - 1]
    <2>1. DOMAIN F = X /\ \A i \in X : F[i] = body(F)[i]
        <3> HIDE DEF X
        <3> QED BY <1>7
    <2>2. 0 \in X /\ \A i \in 1 .. Len(s) : i \in X /\ i # 0
        BY <1>1
    <2> QED BY <2>1, <2>2
<1>10. F \in [X -> Y]
    <2> DEFINE G == {i \in X : F[i] \in Y}
    <2>1. m \in [X -> Nat] /\ \A i \in X : m[i] = i
        BY <1>1
    <2>2. ASSUME NEW i \in X, \A j \in X : m[j] < m[i] => j \in G
          PROVE  i \in G
        <3>1. CASE i = 0
            <4>1. << >> \in Y
                OBVIOUS
            <4> HIDE DEF Y
            <4> QED BY <1>9, <3>1, <4>1
        <3>2. CASE i # 0
            <4>1. i \in 1 .. Len(s) /\ F[i - 1] \in Y /\ s[i] \in T
                BY <1>1, <2>1, <2>2, <3>2
            <4>2. Append(F[i - 1], s[i]) \in Y
                BY <4>1
            <4> HIDE DEF Y
            <4> QED BY <1>9, <4>1, <4>2
        <3> QED BY <3>1, <3>2
    <2>3. X \subseteq G
        <3> HIDE DEF X, G, m
        <3> QED BY <2>1, <2>2, MeasureInduction
    <2>4. F = [i \in X |-> F[i]]
        BY <1>7
    <2> HIDE DEF Y
    <2> QED BY <2>3, <2>4
<1>11. Selects(F, s, S)
    BY <1>9 DEF Selects
<1> QED BY <1>8, <1>10, <1>11

\* Selected keeps the elements of the set, each as often as it was there.
LEMMA SelectedElements ==
    ASSUME NEW T, NEW s \in Seq(T), NEW S
    PROVE  /\ Selected(s, S) \in Seq(T \cap S)
           /\ ToSet(Selected(s, S)) = ToSet(s) \cap S
           /\ IsInjective(s) => IsInjective(Selected(s, S))
<1> DEFINE n == Len(s)
           X == 0 .. n
           m == [i \in X |-> i]
<1>1. PICK f \in [X -> Seq(T)] : Selected(s, S) = f[n] /\ Selects(f, s, S)
    BY SelectedIsDefined
<1>2. n \in Nat /\ DOMAIN s = 1 .. n /\ \A i \in 1 .. n : s[i] \in T
    OBVIOUS
<1> DEFINE Ok(i) == /\ f[i] \in Seq(T \cap S)
                    /\ ToSet(f[i]) = {s[j] : j \in 1 .. i} \cap S
                    /\ IsInjective(s) => IsInjective(f[i])
           G == {i \in X : Ok(i)}
<1>3. ASSUME NEW i \in X, \A j \in X : m[j] < m[i] => j \in G
      PROVE  i \in G
    <2>1. CASE i = 0
        BY <1>1, <2>1 DEF ToSet, IsInjective, Selects
    <2>2. CASE i # 0
        <3>1. i \in 1 .. n /\ i - 1 \in X /\ i - 1 < i /\ i - 1 \in Nat
            BY <1>2, <2>2
        <3>2. Ok(i - 1)
            BY <1>3, <3>1
        <3>3. {s[j] : j \in 1 .. i} = {s[j] : j \in 1 .. i - 1} \cup {s[i]}
            BY <3>1
        <3>4. CASE s[i] \notin S
            BY <1>1, <3>1, <3>2, <3>3, <3>4 DEF Selects
        <3>5. CASE s[i] \in S
            <4> DEFINE q == f[i - 1]
            <4>1. f[i] = Append(q, s[i])
                BY <1>1, <3>1, <3>5 DEF Selects
            <4>2. s[i] \in T \cap S /\ q \in Seq(T \cap S)
                BY <1>2, <3>1, <3>2, <3>5
            <4>3. ToSet(q) = {s[j] : j \in 1 .. i - 1} \cap S
                BY <3>2
            <4>4. IsInjective(s) => IsInjective(q) /\ s[i] \notin ToSet(q)
                BY <1>2, <3>1, <3>2, <4>3 DEF IsInjective
            <4>5. ToSet(q) \cup {s[i]} = {s[j] : j \in 1 .. i} \cap S
                BY <3>3, <3>5, <4>3
            <4> HIDE DEF q
            <4>6. /\ f[i] \in Seq(T \cap S) /\ ToSet(f[i]) = ToSet(q) \cup {s[i]}
                  /\ IsInjective(s) => IsInjective(f[i])
                <5> DEFINE Y == T \cap S
                <5> HIDE DEF Y
                <5>1. s[i] \in Y /\ q \in Seq(Y)
                    BY <4>2 DEF Y
                <5>2. f[i] \in Seq(Y) /\ ToSet(f[i]) = ToSet(q) \cup {s[i]}
                      /\ (IsInjective(q) /\ s[i] \notin ToSet(q) => IsInjective(f[i]))
                    BY <4>1, <5>1, AppendElements
                <5> QED BY <4>4, <5>2 DEF Y
            <4> QED BY <4>5, <4>6
        <3> QED BY <3>4, <3>5
    <2> QED BY <2>1, <2>2
<1>4. X \subseteq G
    <2>1. m \in [X -> Nat]
        BY <1>2
    <2> HIDE DEF X, G, m
    <2> QED BY <1>3, <2>1, MeasureInduction
<1>5. Ok(n)
    BY <1>2, <1>4
<1>6. {s[j] : j \in 1 .. n} = ToSet(s)
    BY <1>2 DEF ToSet
<1> QED BY <1>1, <1>5, <1>6

--------------------------------------------------------------------------------
(* Whom splits lead to: the facts about Reach that the other proofs are made of.  *)

\* The backends of every split are services of the mesh.
BackendsKnown == \A ts \in Split : trafficSplits[ts].backends \in Seq(Known)

\* The backends of a split of the topology are services of the topology.
LEMMA BackendIsKnown ==
    ASSUME BackendsKnown, NEW ts \in Split
    PROVE  ToSet(trafficSplits[ts].backends) \subseteq Known
BY DEF BackendsKnown, ToSet

\* Only services are reached.
LEMMA ReachIsKnown ==
    ASSUME NEW X, NEW s
    PROVE  Reach(X, s) \subseteq Known
BY DEF Reach

\* A service reaches itself.
LEMMA ReachStart ==
    ASSUME NEW X, NEW s \in Known
    PROVE  s \in Reach(X, s)
BY DEF Reach

\* Reach is closed and it is the least closed set.
LEMMA ReachStep ==
    ASSUME BackendsKnown, NEW X \in SUBSET Split, NEW s,
           NEW ts \in X, trafficSplits[ts].service \in Reach(X, s),
           NEW b \in ToSet(trafficSplits[ts].backends)
    PROVE  b \in Reach(X, s)
<1>1. b \in Known
    BY BackendIsKnown
<1>2. ASSUME NEW R \in SUBSET Known, s \in R, IsClosed(R, X) PROVE b \in R
    <2>1. trafficSplits[ts].service \in R
        BY <1>2 DEF Reach
    <2> QED BY <1>2, <2>1 DEF IsClosed
<1> QED BY <1>1, <1>2 DEF Reach

\* What is reached is in every closed set with the start.
LEMMA ReachLeast ==
    ASSUME NEW X, NEW s, NEW R \in SUBSET Known, s \in R, IsClosed(R, X)
    PROVE  Reach(X, s) \subseteq R
BY DEF Reach

\* What is reached from a service that is reached is reached.
LEMMA ReachOnward ==
    ASSUME BackendsKnown, NEW X \in SUBSET Split, NEW s, NEW m \in Reach(X, s)
    PROVE  Reach(X, m) \subseteq Reach(X, s)
<1>1. IsClosed(Reach(X, s), X)
    BY ReachStep DEF IsClosed
<1> QED BY <1>1, ReachIsKnown, ReachLeast

\* More splits reach more services.
LEMMA ReachGrows ==
    ASSUME NEW X, NEW Y, X \subseteq Y, NEW s
    PROVE  Reach(X, s) \subseteq Reach(Y, s)
<1>1. \A R : IsClosed(R, Y) => IsClosed(R, X)
    BY DEF IsClosed
<1> QED BY <1>1 DEF Reach

\* A way that leaves s starts with a backend of a split of s.
LEMMA ReachFirst ==
    ASSUME BackendsKnown, NEW X \in SUBSET Split, NEW s \in Known, NEW n \in Reach(X, s), n # s
    PROVE  \E ts \in X : /\ trafficSplits[ts].service = s
                         /\ \E b \in ToSet(trafficSplits[ts].backends) : n \in Reach(X, b)
<1> DEFINE first == {ts \in X : trafficSplits[ts].service = s}
           after == {k \in Known : \E ts \in first :
                        \E b \in ToSet(trafficSplits[ts].backends) : k \in Reach(X, b)}
           R == {s} \cup after
<1>1. R \in SUBSET Known
    BY ReachIsKnown
<1>2. ASSUME NEW t \in X, trafficSplits[t].service \in R, NEW c \in ToSet(trafficSplits[t].backends)
      PROVE  c \in R
    <2>1. CASE trafficSplits[t].service = s
        <3>1. c \in Reach(X, c)
            BY BackendIsKnown, ReachStart
        <3> QED BY <1>2, <2>1, <3>1, ReachIsKnown
    <2>2. CASE trafficSplits[t].service \in after
        <3>1. PICK ts \in first :
                \E b \in ToSet(trafficSplits[ts].backends) : trafficSplits[t].service \in Reach(X, b)
            BY <2>2
        <3>2. PICK b \in ToSet(trafficSplits[ts].backends) : trafficSplits[t].service \in Reach(X, b)
            BY <3>1
        <3>3. c \in Reach(X, b)
            BY <1>2, <3>2, ReachStep
        <3> QED BY <3>2, <3>3, ReachIsKnown
    <2> QED BY <1>2, <2>1, <2>2
<1>3. IsClosed(R, X)
    <2> HIDE DEF R
    <2> QED BY <1>2 DEF IsClosed
<1>4. Reach(X, s) \subseteq R
    <2>1. s \in R
        OBVIOUS
    <2> HIDE DEF R
    <2> QED BY <1>1, <1>3, <2>1, ReachLeast
<1>5. n \in after
    BY <1>4
<1> QED BY <1>5

\* A loop that a request at m gets into is one that it gets into from s on.
LEMMA LoopAhead ==
    ASSUME BackendsKnown, NEW X \in SUBSET Split, NEW s, NEW m \in Reach(X, s), LeadsToLoop(X, m)
    PROVE  LeadsToLoop(X, s)
BY ReachOnward DEF LeadsToLoop

\* A service whose splits pass requests on to services that lead to no loop leads to none.
LEMMA NoLoopAhead ==
    ASSUME BackendsKnown, NEW X \in SUBSET Split, NEW s \in Known,
           \A ts \in X : trafficSplits[ts].service = s =>
                \A b \in ToSet(trafficSplits[ts].backends) : ~ LeadsToLoop(X, b)
    PROVE  ~ LeadsToLoop(X, s)
<1> SUFFICES ASSUME NEW t \in X, trafficSplits[t].service \in Reach(X, s),
                    NEW b \in ToSet(trafficSplits[t].backends),
                    trafficSplits[t].service \in Reach(X, b)
             PROVE  FALSE
    BY DEF LeadsToLoop
<1>1. b \in Known
    BY BackendIsKnown
<1>2. LeadsToLoop(X, b)
    BY DEF LeadsToLoop
<1>3. trafficSplits[t].service # s
    BY <1>2
<1>4. PICK ts \in X : /\ trafficSplits[ts].service = s
                      /\ \E c \in ToSet(trafficSplits[ts].backends) :
                            trafficSplits[t].service \in Reach(X, c)
    BY <1>3, ReachFirst
<1>5. PICK c \in ToSet(trafficSplits[ts].backends) : trafficSplits[t].service \in Reach(X, c)
    BY <1>4
<1>6. LeadsToLoop(X, c)
    BY <1>5 DEF LeadsToLoop
<1> QED BY <1>4, <1>6

\* Fewer splits make fewer loops.
LEMMA LoopStays ==
    ASSUME NEW X, NEW Y, X \subseteq Y, NEW s, LeadsToLoop(X, s)
    PROVE  LeadsToLoop(Y, s)
BY ReachGrows DEF LeadsToLoop

--------------------------------------------------------------------------------
(* What unionPod leaves of a sequence of outcomes.                              *)

Outcomes == {o \in [err : BOOLEAN, pods : SUBSET Pod] : o.err => o.pods = {}}

\* The parts of the definition of InCommon.
CommonTo(o, n) == {p \in Pod : n > 0 /\ \A i \in 1 .. n : p \in o[i].pods}
Returns(o, i) == o[i].err \/ CommonTo(o, i) = {}
LastRead(o) == {i \in DOMAIN o : Returns(o, i) /\ \A j \in 1 .. i - 1 : ~ Returns(o, j)}

\* unionPod returns at the last outcome it reads: with its error, or because no pod is left.
\* When it reads all, it returns what they have in common.
LEMMA InCommonIs ==
    ASSUME NEW o
    PROVE  InCommon(o) = IF \E i \in LastRead(o) : o[i].err THEN Circular
                         ELSE IF LastRead(o) # {} THEN Found({}) ELSE Found(CommonTo(o, Len(o)))
BY DEF InCommon, CommonTo, Returns, LastRead

\* Pods found are an outcome without an error.
LEMMA FoundIsOutcome ==
    ASSUME NEW pods \in SUBSET Pod
    PROVE  Found(pods) \in Outcomes /\ ~ Found(pods).err /\ Found(pods).pods = pods
BY DEF Found, Outcomes

\* The error is an outcome without pods.
LEMMA CircularIsOutcome == Circular \in Outcomes /\ Circular.err /\ Circular.pods = {}
BY DEF Circular, Outcomes

\* unionPod returns an outcome.
LEMMA InCommonIsOutcome ==
    ASSUME NEW o
    PROVE  InCommon(o) \in Outcomes
<1>1. CommonTo(o, Len(o)) \in SUBSET Pod /\ {} \in SUBSET Pod
    BY DEF CommonTo
<1> QED BY <1>1, InCommonIs, FoundIsOutcome, CircularIsOutcome

\* A pod is left if there are outcomes and each of them has it.
LEMMA InCommonHas ==
    ASSUME NEW o \in Seq(Outcomes), NEW p \in Pod
    PROVE  p \in InCommon(o).pods <=> o # << >> /\ \A i \in DOMAIN o : p \in o[i].pods
<1>1. /\ Len(o) \in Nat /\ DOMAIN o = 1 .. Len(o)
      /\ \A i \in DOMAIN o : o[i] \in Outcomes
      /\ o # << >> <=> Len(o) > 0
    OBVIOUS
<1>2. CommonTo(o, Len(o)) \in SUBSET Pod /\ {} \in SUBSET Pod
    BY DEF CommonTo
<1>3. ASSUME p \in InCommon(o).pods
      PROVE  o # << >> /\ \A i \in DOMAIN o : p \in o[i].pods
    <2>1. InCommon(o) = Found(CommonTo(o, Len(o)))
        BY <1>2, <1>3, InCommonIs, CircularIsOutcome, FoundIsOutcome
    <2>2. p \in CommonTo(o, Len(o))
        BY <1>2, <1>3, <2>1, FoundIsOutcome
    <2> QED BY <1>1, <2>2 DEF CommonTo
<1>4. ASSUME o # << >>, \A i \in DOMAIN o : p \in o[i].pods
      PROVE  p \in InCommon(o).pods
    <2>1. ASSUME NEW i \in DOMAIN o PROVE ~ Returns(o, i)
        <3>1. ~ o[i].err
            BY <1>1, <1>4 DEF Outcomes
        <3>2. p \in CommonTo(o, i)
            BY <1>1, <1>4 DEF CommonTo
        <3> QED BY <3>1, <3>2 DEF Returns
    <2>2. LastRead(o) = {}
        BY <2>1 DEF LastRead
    <2>3. p \in CommonTo(o, Len(o))
        BY <1>1, <1>4 DEF CommonTo
    <2> QED BY <1>2, <2>2, <2>3, InCommonIs, FoundIsOutcome
<1> QED BY <1>3, <1>4

\* Only an error makes an error.
LEMMA InCommonFails ==
    ASSUME NEW o \in Seq(Outcomes), InCommon(o).err
    PROVE  \E i \in DOMAIN o : o[i].err
<1>1. CommonTo(o, Len(o)) \in SUBSET Pod /\ {} \in SUBSET Pod
    BY DEF CommonTo
<1>2. \E i \in LastRead(o) : o[i].err
    BY <1>1, InCommonIs, FoundIsOutcome
<1> QED BY <1>2 DEF LastRead

\* Without an error, what comes after the first return is not looked at.
LEMMA InCommonSame ==
    ASSUME NEW o \in Seq(Outcomes), NEW q \in Seq(Outcomes), Len(o) = Len(q),
           \A i \in DOMAIN q : ~ q[i].err => o[i] = q[i], ~ InCommon(q).err
    PROVE  InCommon(o) = InCommon(q)
<1>1. /\ Len(q) \in Nat /\ DOMAIN q = 1 .. Len(q) /\ DOMAIN o = DOMAIN q
      /\ \A i \in DOMAIN q : o[i] \in Outcomes /\ q[i] \in Outcomes
    OBVIOUS
<1>2. \A i \in LastRead(q) : ~ q[i].err
    BY InCommonIs, CircularIsOutcome
<1>3. CASE LastRead(q) # {}
    <2>1. PICK k \in LastRead(q) : ~ q[k].err
        BY <1>2, <1>3
    <2>2. k \in 1 .. Len(q) /\ Returns(q, k) /\ \A j \in 1 .. k - 1 : ~ Returns(q, j)
        BY <1>1, <2>1 DEF LastRead
    <2>3. ASSUME NEW j \in 1 .. k PROVE o[j] = q[j] /\ ~ q[j].err
        <3>1. j = k \/ j \in 1 .. k - 1
            BY <2>2
        <3>2. ~ q[j].err
            BY <2>1, <2>2, <3>1 DEF Returns
        <3> QED BY <1>1, <2>2, <3>2
    <2>4. ASSUME NEW j \in 1 .. k PROVE CommonTo(o, j) = CommonTo(q, j)
        <3>1. \A i \in 1 .. j : o[i] = q[i]
            BY <2>2, <2>3
        <3> QED BY <3>1 DEF CommonTo
    <2>5. ASSUME NEW j \in 1 .. k PROVE Returns(o, j) <=> Returns(q, j)
        BY <2>3, <2>4 DEF Returns
    <2>6. LastRead(o) = {k}
        <3>1. k \in LastRead(o)
            BY <1>1, <2>2, <2>5 DEF LastRead
        <3>2. ASSUME NEW i \in LastRead(o) PROVE i = k
            <4>1. i \in 1 .. Len(q) /\ Returns(o, i) /\ \A j \in 1 .. i - 1 : ~ Returns(o, j)
                BY <1>1 DEF LastRead
            <4> QED BY <2>2, <2>5, <4>1
        <3> QED BY <3>1, <3>2
    <2>7. ~ o[k].err
        BY <2>2, <2>3
    <2> QED BY <1>2, <1>3, <2>6, <2>7, InCommonIs
<1>4. CASE LastRead(q) = {}
    <2> DEFINE T == {i \in DOMAIN q : Returns(q, i)}
    <2>1. T = {}
        <3> SUFFICES ASSUME T # {} PROVE FALSE
            OBVIOUS
        <3>1. T \in SUBSET Nat
            BY <1>1
        <3>2. PICK k \in T : \A l \in T : k <= l
            <4> HIDE DEF T
            <4> QED BY <3>1, FirstOf
        <3>3. k \in LastRead(q)
            BY <1>1, <3>2 DEF LastRead
        <3> QED BY <1>4, <3>3
    <2>2. \A i \in DOMAIN q : o[i] = q[i]
        BY <2>1 DEF Returns
    <2>3. o = q
        BY <1>1, <2>2
    <2> QED BY <2>3
<1> QED BY <1>3, <1>4

\* Without an error, a pod that every outcome has that is not an error is left.
LEMMA InCommonAll ==
    ASSUME NEW o \in Seq(Outcomes), NEW p \in Pod, o # << >>, ~ InCommon(o).err,
           \A i \in DOMAIN o : ~ o[i].err => p \in o[i].pods
    PROVE  p \in InCommon(o).pods
<1>1. Len(o) \in Nat /\ DOMAIN o = 1 .. Len(o)
    OBVIOUS
<1>2. \A i \in LastRead(o) : ~ o[i].err
    BY InCommonIs, CircularIsOutcome
<1> DEFINE T == {i \in DOMAIN o : o[i].err}
<1>3. T = {}
    <2> SUFFICES ASSUME T # {} PROVE FALSE
        OBVIOUS
    <2>1. T \in SUBSET Nat
        BY <1>1
    <2>2. PICK k \in T : \A l \in T : k <= l
        <3> HIDE DEF T
        <3> QED BY <2>1, FirstOf
    <2>3. ASSUME NEW j \in 1 .. k - 1 PROVE ~ Returns(o, j)
        <3>1. \A i \in 1 .. j : i \in DOMAIN o /\ ~ o[i].err
            BY <1>1, <2>2
        <3>2. p \in CommonTo(o, j)
            BY <1>1, <3>1 DEF CommonTo
        <3>3. ~ o[j].err
            BY <1>1, <2>2, <3>1
        <3> QED BY <3>2, <3>3 DEF Returns
    <2>4. k \in LastRead(o)
        BY <2>2, <2>3 DEF LastRead, Returns
    <2> QED BY <1>2, <2>2, <2>4
<1> QED BY <1>3, InCommonHas

--------------------------------------------------------------------------------
(* IncomingPods satisfies the equation that defines it: every call of           *)
(* getIncomingPodsForTrafficSplit inside another one has visited more splits.   *)

\* What the recursion reads.
GraphInv ==
    /\ BackendsKnown
    /\ \A s \in Known : services[s].splits \in Seq(Split) /\ PodsOfTargets(s) \in SUBSET Pod

\* The parts of the definition of IncomingPods.
Marked(marked, s, i) == marked \cup {services[s].splits[j] : j \in 1 .. i - 1}

SplitOutcomes(F, s, marked) ==
    [i \in 1 .. Len(services[s].splits) |-> F[Marked(marked, s, i)][services[s].splits[i]]]

OfService(F, s, marked) ==
    IF services[s].splits = << >> THEN Found(PodsOfTargets(s))
    ELSE InCommon(SplitOutcomes(F, s, marked))

ServiceOutcomes(F, ts, marked) ==
    [i \in 1 .. Len(trafficSplits[ts].backends) |->
        OfService(F, trafficSplits[ts].backends[i], marked)]

Body(F, visited) ==
    [ts \in Split |-> IF IsVisited(ts, visited) THEN Circular
                      ELSE InCommon(ServiceOutcomes(F, ts, visited \cup {ts}))]

\* IncomingPods with its body as an operator.
LEMMA IncomingPodsIs == IncomingPods = CHOOSE F : F = [visited \in SUBSET Split |-> Body(F, visited)]
BY DEF IncomingPods, Body, ServiceOutcomes, OfService, SplitOutcomes, Marked

\* The calls for the splits of a service have visited more splits.
LEMMA CallsVisitMore ==
    ASSUME GraphInv, NEW marked \in SUBSET Split, NEW s \in Known,
           NEW i \in 1 .. Len(services[s].splits)
    PROVE  /\ Marked(marked, s, i) \in SUBSET Split
           /\ marked \subseteq Marked(marked, s, i)
           /\ services[s].splits[i] \in Split
<1>1. services[s].splits \in Seq(Split)
    BY DEF GraphInv
<1>2. /\ Len(services[s].splits) \in Nat
      /\ \A j \in 1 .. Len(services[s].splits) : services[s].splits[j] \in Split
    BY <1>1
<1> QED BY <1>2 DEF Marked

\* The body reads the function where more splits are visited only, so the recursion ends.
LEMMA BodyReadsMoreVisited ==
    ASSUME GraphInv, NEW V \in SUBSET Split, NEW F, NEW G,
           \A W \in SUBSET Split : V \subseteq W /\ V # W => F[W] = G[W]
    PROVE  Body(F, V) = Body(G, V)
<1>1. ASSUME NEW ts \in Split, ts \notin V, NEW s \in Known
      PROVE  OfService(F, s, V \cup {ts}) = OfService(G, s, V \cup {ts})
    <2> DEFINE M == V \cup {ts}
    <2>1. M \in SUBSET Split /\ V \subseteq M /\ V # M
        BY <1>1
    <2> HIDE DEF M
    <2>2. ASSUME NEW i \in 1 .. Len(services[s].splits)
          PROVE  F[Marked(M, s, i)] = G[Marked(M, s, i)]
        <3>1. Marked(M, s, i) \in SUBSET Split /\ M \subseteq Marked(M, s, i)
            BY <2>1, CallsVisitMore
        <3> QED BY <2>1, <3>1
    <2>3. SplitOutcomes(F, s, M) = SplitOutcomes(G, s, M)
        BY <2>2 DEF SplitOutcomes
    <2>4. OfService(F, s, M) = OfService(G, s, M)
        BY <2>3 DEF OfService
    <2> QED BY <2>4 DEF M
<1>2. ASSUME NEW ts \in Split, ts \notin V
      PROVE  ServiceOutcomes(F, ts, V \cup {ts}) = ServiceOutcomes(G, ts, V \cup {ts})
    <2>1. \A i \in 1 .. Len(trafficSplits[ts].backends) : trafficSplits[ts].backends[i] \in Known
        BY DEF GraphInv, BackendsKnown
    <2> QED BY <1>1, <1>2, <2>1 DEF ServiceOutcomes
<1> QED BY <1>2 DEF Body, IsVisited

\* Every call of getIncomingPodsForTrafficSplit returns an outcome.
LEMMA BodyIsOutcome ==
    ASSUME NEW F, NEW V
    PROVE  Body(F, V) \in [Split -> Outcomes]
BY InCommonIsOutcome, CircularIsOutcome DEF Body

\* IncomingPods satisfies its definition: CHOOSE has something to choose.
LEMMA IncomingPodsIsDefined ==
    ASSUME GraphInv
    PROVE  /\ IncomingPods \in [SUBSET Split -> [Split -> Outcomes]]
           /\ \A V \in SUBSET Split : IncomingPods[V] = Body(IncomingPods, V)
<1> DEFINE X == SUBSET Split
           Y == [Split -> Outcomes]
           m == [V \in X |-> Cardinality(Split \ V)]
           n == Cardinality(Split)
           H == [F \in [X -> Y] |-> [V \in X |-> Body(F, V)]]
<1>1. m \in [X -> Nat] /\ n \in Nat /\ \A V \in X : m[V] <= n
    <2>1. n \in Nat
        BY FiniteSplits, FS_CardinalityType
    <2>2. ASSUME NEW V \in X PROVE Cardinality(Split \ V) \in Nat /\ Cardinality(Split \ V) <= n
        <3>1. Split \ V \in SUBSET Split
            OBVIOUS
        <3> QED BY <3>1, FiniteSplits, FS_Subset, FS_CardinalityType
    <2> QED BY <2>1, <2>2
<1>2. ASSUME NEW V \in X, NEW W \in X, V \subseteq W, V # W PROVE m[W] < m[V]
    <2>1. IsFiniteSet(Split \ V) /\ Split \ W \in SUBSET (Split \ V) /\ Split \ W # Split \ V
        BY <1>2, FiniteSplits, FS_Difference
    <2>2. Cardinality(Split \ W) <= Cardinality(Split \ V)
          /\ Cardinality(Split \ W) # Cardinality(Split \ V)
        BY <2>1, FS_Subset
    <2>3. m[V] = Cardinality(Split \ V) /\ m[W] = Cardinality(Split \ W) /\ m[V] \in Nat /\ m[W] \in Nat
        BY <1>1
    <2> QED BY <2>2, <2>3
<1>3. Y # {}
    <2>1. [ts \in Split |-> Circular] \in Y
        BY CircularIsOutcome
    <2> QED BY <2>1
<1>4. H \in [[X -> Y] -> [X -> Y]]
    BY BodyIsOutcome
<1>5. ASSUME NEW V \in X, NEW F \in [X -> Y], NEW G \in [X -> Y],
             \A W \in X : m[W] < m[V] => F[W] = G[W]
      PROVE  H[F][V] = H[G][V]
    <2>1. \A W \in SUBSET Split : V \subseteq W /\ V # W => F[W] = G[W]
        <3> HIDE DEF m
        <3> QED BY <1>2, <1>5
    <2>2. Body(F, V) = Body(G, V)
        BY <2>1, BodyReadsMoreVisited
    <2>3. H[F][V] = Body(F, V) /\ H[G][V] = Body(G, V)
        OBVIOUS
    <2> QED BY <2>2, <2>3
<1>6. Recurses(X, Y, m, n, H)
    <2> HIDE DEF X, Y, m, n, H
    <2> QED BY <1>1, <1>3, <1>4, <1>5 DEF Recurses
<1>7. \E F \in [X -> Y] : H[F] = F
    <2> HIDE DEF X, Y, m, n, H
    <2> QED BY <1>6, RecursionIsDefined
<1>8. \E F : F = [V \in SUBSET Split |-> Body(F, V)]
    BY <1>7
<1>9. IncomingPods = [V \in SUBSET Split |-> Body(IncomingPods, V)]
    BY <1>8, IncomingPodsIs
<1> QED BY <1>9, BodyIsOutcome

\* getIncomingPodsForService returns an outcome.
LEMMA OfServiceIsOutcome ==
    ASSUME GraphInv, NEW F, NEW s \in Known, NEW marked
    PROVE  OfService(F, s, marked) \in Outcomes
BY InCommonIsOutcome, FoundIsOutcome DEF OfService, GraphInv

\* The loop over the backends of a split calls getIncomingPodsForService for each of them.
LEMMA ServiceOutcomesAre ==
    ASSUME GraphInv, NEW F, NEW ts \in Split, NEW marked
    PROVE  /\ ServiceOutcomes(F, ts, marked) \in Seq(Outcomes)
           /\ DOMAIN ServiceOutcomes(F, ts, marked) = DOMAIN trafficSplits[ts].backends
           /\ ServiceOutcomes(F, ts, marked) = << >> <=> trafficSplits[ts].backends = << >>
           /\ \A i \in DOMAIN trafficSplits[ts].backends :
                ServiceOutcomes(F, ts, marked)[i] = OfService(F, trafficSplits[ts].backends[i], marked)
<1> DEFINE q == trafficSplits[ts].backends
<1>1. q \in Seq(Known)
    BY DEF GraphInv, BackendsKnown
<1>2. Len(q) \in Nat /\ DOMAIN q = 1 .. Len(q) /\ \A i \in 1 .. Len(q) : q[i] \in Known
    BY <1>1
<1>3. q = << >> <=> Len(q) = 0
    BY <1>1
<1> DEFINE o == ServiceOutcomes(F, ts, marked)
<1>4. o = [i \in 1 .. Len(q) |-> OfService(F, q[i], marked)]
    BY DEF ServiceOutcomes
<1>5. \A i \in 1 .. Len(q) : OfService(F, q[i], marked) \in Outcomes
    BY <1>2, OfServiceIsOutcome
<1> HIDE DEF q, o
<1>6. o \in Seq(Outcomes) /\ Len(o) = Len(q)
    BY <1>2, <1>4, <1>5
<1>7. o = << >> <=> Len(o) = 0
    BY <1>6
<1> QED BY <1>2, <1>3, <1>4, <1>6, <1>7 DEF o, q

\* The loop over the splits of a service calls getIncomingPodsForTrafficSplit for each of
\* them, with the ones before it visited.
LEMMA SplitOutcomesAre ==
    ASSUME GraphInv, NEW marked \in SUBSET Split, NEW s \in Known
    PROVE  /\ SplitOutcomes(IncomingPods, s, marked) \in Seq(Outcomes)
           /\ DOMAIN SplitOutcomes(IncomingPods, s, marked) = DOMAIN services[s].splits
           /\ SplitOutcomes(IncomingPods, s, marked) = << >> <=> services[s].splits = << >>
           /\ \A i \in DOMAIN services[s].splits :
                SplitOutcomes(IncomingPods, s, marked)[i] =
                    IncomingPods[Marked(marked, s, i)][services[s].splits[i]]
<1> DEFINE q == services[s].splits
           o == SplitOutcomes(IncomingPods, s, marked)
<1>1. q \in Seq(Split)
    BY DEF GraphInv
<1>2. Len(q) \in Nat /\ DOMAIN q = 1 .. Len(q)
    BY <1>1
<1>3. q = << >> <=> Len(q) = 0
    BY <1>1
<1>4. o = [i \in 1 .. Len(q) |-> IncomingPods[Marked(marked, s, i)][q[i]]]
    BY DEF SplitOutcomes
<1>5. \A i \in 1 .. Len(q) : IncomingPods[Marked(marked, s, i)][q[i]] \in Outcomes
    BY CallsVisitMore, IncomingPodsIsDefined
<1> HIDE DEF q, o
<1>6. o \in Seq(Outcomes) /\ Len(o) = Len(q)
    BY <1>2, <1>4, <1>5
<1>7. o = << >> <=> Len(o) = 0
    BY <1>6
<1> QED BY <1>2, <1>3, <1>4, <1>6, <1>7 DEF o, q

\* The outcome of a split that is not visited yet.
LEMMA SplitOutcome ==
    ASSUME GraphInv, NEW ts \in Split, NEW V \in SUBSET Split
    PROVE  /\ IncomingPods[V][ts] \in Outcomes
           /\ ts \in V => IncomingPods[V][ts] = Circular
           /\ ts \notin V =>
                IncomingPods[V][ts] = InCommon(ServiceOutcomes(IncomingPods, ts, V \cup {ts}))
BY IncomingPodsIsDefined DEF Body, IsVisited

\* The pods that may call a split may call every backend.
LEMMA PodsOfSplit ==
    ASSUME GraphInv, NEW ts \in Split, NEW V \in SUBSET Split, NEW p \in Pod
    PROVE  p \in IncomingPods[V][ts].pods <=>
                /\ ts \notin V
                /\ trafficSplits[ts].backends # << >>
                /\ \A b \in ToSet(trafficSplits[ts].backends) :
                        p \in OfService(IncomingPods, b, V \cup {ts}).pods
<1>1. CASE ts \in V
    BY <1>1, SplitOutcome, CircularIsOutcome
<1>2. CASE ts \notin V
    <2> DEFINE M == V \cup {ts}
               o == ServiceOutcomes(IncomingPods, ts, M)
    <2>1. IncomingPods[V][ts] = InCommon(o)
        BY <1>2, SplitOutcome
    <2> HIDE DEF M
    <2>2. /\ o \in Seq(Outcomes)
          /\ DOMAIN o = DOMAIN trafficSplits[ts].backends
          /\ o = << >> <=> trafficSplits[ts].backends = << >>
          /\ \A i \in DOMAIN trafficSplits[ts].backends :
                o[i] = OfService(IncomingPods, trafficSplits[ts].backends[i], M)
        BY ServiceOutcomesAre
    <2> HIDE DEF o
    <2>3. p \in InCommon(o).pods <=> o # << >> /\ \A i \in DOMAIN o : p \in o[i].pods
        BY <2>2, InCommonHas
    <2>4. (\A i \in DOMAIN o : p \in o[i].pods) <=>
            \A b \in ToSet(trafficSplits[ts].backends) : p \in OfService(IncomingPods, b, M).pods
        BY <2>2 DEF ToSet
    <2> QED BY <1>2, <2>1, <2>2, <2>3, <2>4 DEF M
<1> QED BY <1>1, <1>2

\* Whom getIncomingPodsForService finds: the sources of the targets of a service without
\* splits, otherwise what all its splits have in common.
LEMMA PodsOfService ==
    ASSUME GraphInv, NEW marked \in SUBSET Split, NEW s \in Known, NEW p \in Pod
    PROVE  p \in OfService(IncomingPods, s, marked).pods <=>
                IF services[s].splits = << >> THEN p \in PodsOfTargets(s)
                ELSE \A i \in DOMAIN services[s].splits :
                        p \in IncomingPods[Marked(marked, s, i)][services[s].splits[i]].pods
<1>1. CASE services[s].splits = << >>
    BY <1>1, FoundIsOutcome DEF OfService, GraphInv
<1>2. CASE services[s].splits # << >>
    <2> DEFINE o == SplitOutcomes(IncomingPods, s, marked)
    <2>1. OfService(IncomingPods, s, marked) = InCommon(o)
        BY <1>2 DEF OfService
    <2>2. /\ o \in Seq(Outcomes) /\ DOMAIN o = DOMAIN services[s].splits /\ o # << >>
          /\ \A i \in DOMAIN services[s].splits :
                o[i] = IncomingPods[Marked(marked, s, i)][services[s].splits[i]]
        BY <1>2, SplitOutcomesAre
    <2> HIDE DEF o
    <2>3. p \in InCommon(o).pods <=> o # << >> /\ \A i \in DOMAIN o : p \in o[i].pods
        BY <2>2, InCommonHas
    <2> QED BY <1>2, <2>1, <2>2, <2>3
<1> QED BY <1>1, <1>2

\* An error comes from a visited split.
LEMMA ErrorOfSplit ==
    ASSUME GraphInv, NEW ts \in Split, NEW V \in SUBSET Split, IncomingPods[V][ts].err, ts \notin V
    PROVE  \E b \in ToSet(trafficSplits[ts].backends) : \E i \in DOMAIN services[b].splits :
                IncomingPods[Marked(V \cup {ts}, b, i)][services[b].splits[i]].err
<1> DEFINE M == V \cup {ts}
           o == ServiceOutcomes(IncomingPods, ts, M)
<1>1. InCommon(o).err /\ M \in SUBSET Split
    BY SplitOutcome
<1> HIDE DEF M
<1>2. /\ o \in Seq(Outcomes)
      /\ DOMAIN o = DOMAIN trafficSplits[ts].backends
      /\ \A i \in DOMAIN trafficSplits[ts].backends :
            o[i] = OfService(IncomingPods, trafficSplits[ts].backends[i], M)
    BY ServiceOutcomesAre
<1> HIDE DEF o
<1>3. PICK k \in DOMAIN o : o[k].err
    BY <1>1, <1>2, InCommonFails
<1> DEFINE b == trafficSplits[ts].backends[k]
<1>4. b \in ToSet(trafficSplits[ts].backends) /\ OfService(IncomingPods, b, M).err
    BY <1>2, <1>3 DEF ToSet
<1>5. b \in Known
    BY <1>4, BackendIsKnown DEF GraphInv
<1> HIDE DEF b
<1> DEFINE q == SplitOutcomes(IncomingPods, b, M)
<1>6. InCommon(q).err
    BY <1>4, <1>5, FoundIsOutcome DEF OfService, GraphInv
<1>7. /\ q \in Seq(Outcomes) /\ DOMAIN q = DOMAIN services[b].splits
      /\ \A i \in DOMAIN services[b].splits :
            q[i] = IncomingPods[Marked(M, b, i)][services[b].splits[i]]
    BY <1>1, <1>5, SplitOutcomesAre
<1> HIDE DEF q
<1>8. PICK i \in DOMAIN q : q[i].err
    BY <1>6, <1>7, InCommonFails
<1> QED BY <1>4, <1>7, <1>8 DEF M

--------------------------------------------------------------------------------
(* What the recursion finds, in terms of the graph of the attached splits.      *)

AttachedSplits == {ts \in Split : Attached(ts)}

\* The splits of a service are the attached ones, each once.
SplitsAreAttached ==
    \A s \in Known :
        /\ ToSet(services[s].splits) = {ts \in AttachedSplits : trafficSplits[ts].service = s}
        /\ IsInjective(services[s].splits)

\* The splits of a service are attached to it.
LEMMA SplitOfService ==
    ASSUME SplitsAreAttached, NEW s \in Known, NEW i \in DOMAIN services[s].splits
    PROVE  services[s].splits[i] \in AttachedSplits
           /\ trafficSplits[services[s].splits[i]].service = s
BY DEF SplitsAreAttached, ToSet

\* Every attached split is one of those of its service.
LEMMA ServiceOfSplit ==
    ASSUME SplitsAreAttached, NEW s \in Known, NEW ts \in AttachedSplits, trafficSplits[ts].service = s
    PROVE  \E i \in DOMAIN services[s].splits : services[s].splits[i] = ts
BY DEF SplitsAreAttached, ToSet

\* A split that some pod may call leads to no loop, because the recursion has ended for
\* every split below it.
LEMMA CallableLeadsToNoLoop ==
    ASSUME GraphInv, SplitsAreAttached, NEW p \in Pod, NEW V \in SUBSET Split, NEW ts \in Split,
           p \in IncomingPods[V][ts].pods,
           NEW b \in ToSet(trafficSplits[ts].backends)
    PROVE  ~ LeadsToLoop(AttachedSplits, b)
<1> DEFINE Ends(t) == \A c \in ToSet(trafficSplits[t].backends) : ~ LeadsToLoop(AttachedSplits, c)
           G == {W \in SUBSET Split : \A t \in Split : p \in IncomingPods[W][t].pods => Ends(t)}
<1>1. ASSUME NEW W \in SUBSET Split, \A U \in SUBSET Split : W \subseteq U /\ W # U => U \in G,
             NEW t \in Split, p \in IncomingPods[W][t].pods,
             NEW c \in ToSet(trafficSplits[t].backends)
      PROVE  ~ LeadsToLoop(AttachedSplits, c)
    <2> DEFINE M == W \cup {t}
    <2>1. t \notin W /\ p \in OfService(IncomingPods, c, M).pods
        BY <1>1, PodsOfSplit
    <2>2. M \in SUBSET Split /\ W \subseteq M /\ W # M
        BY <2>1
    <2>3. c \in Known
        BY BackendIsKnown DEF GraphInv
    <2> HIDE DEF M
    <2>4. ASSUME NEW u \in AttachedSplits, trafficSplits[u].service = c
          PROVE  Ends(u)
        <3>1. PICK i \in DOMAIN services[c].splits : services[c].splits[i] = u
            BY <2>3, <2>4, ServiceOfSplit
        <3>2. i \in 1 .. Len(services[c].splits) /\ services[c].splits # << >>
            BY <2>3, <3>1 DEF GraphInv
        <3>3. p \in IncomingPods[Marked(M, c, i)][u].pods
            BY <2>1, <2>2, <2>3, <3>1, <3>2, PodsOfService
        <3>4. Marked(M, c, i) \in SUBSET Split /\ M \subseteq Marked(M, c, i)
            BY <2>2, <2>3, <3>2, CallsVisitMore
        <3>5. Marked(M, c, i) \in G
            BY <1>1, <2>2, <3>4
        <3> QED BY <3>3, <3>5 DEF AttachedSplits
    <2>5. AttachedSplits \in SUBSET Split
        BY DEF AttachedSplits
    <2> QED BY <2>3, <2>4, <2>5, NoLoopAhead DEF GraphInv
<1>2. ASSUME NEW W \in SUBSET Split, \A U \in SUBSET Split : W \subseteq U /\ W # U => U \in G
      PROVE  W \in G
    BY <1>1, <1>2
<1>3. SUBSET Split \subseteq G
    <2> HIDE DEF G
    <2> QED BY <1>2, FiniteSplits, SupersetInduction
<1> QED BY <1>3

\* The splits that a request can come to after a split.
SplitsBelow(ts) ==
    {t \in AttachedSplits : \E b \in ToSet(trafficSplits[ts].backends) :
                                trafficSplits[t].service \in Reach(AttachedSplits, b)}

\* A split that leads to no loop makes an error only if it, or a split below it, is
\* visited at the start.
LEMMA AcyclicNeverFails ==
    ASSUME GraphInv, SplitsAreAttached, NEW V \in SUBSET Split, NEW ts \in AttachedSplits,
           trafficSplits[ts].service \in Known,
           ~ LeadsToLoop(AttachedSplits, trafficSplits[ts].service),
           ts \notin V, V \cap SplitsBelow(ts) = {}
    PROVE  ~ IncomingPods[V][ts].err
<1> DEFINE Free(W, t) == /\ trafficSplits[t].service \in Known
                         /\ ~ LeadsToLoop(AttachedSplits, trafficSplits[t].service)
                         /\ t \notin W /\ W \cap SplitsBelow(t) = {}
           G == {W \in SUBSET Split :
                    \A t \in AttachedSplits : Free(W, t) => ~ IncomingPods[W][t].err}
           A == AttachedSplits
<1>0. A \in SUBSET Split /\ BackendsKnown
    BY DEF AttachedSplits, GraphInv
<1>1. ASSUME NEW W \in SUBSET Split, \A U \in SUBSET Split : W \subseteq U /\ W # U => U \in G,
             NEW t \in A, Free(W, t), IncomingPods[W][t].err
      PROVE  FALSE
    <2> DEFINE M == W \cup {t}
               s == trafficSplits[t].service
    <2>1. t \in Split
        BY <1>0
    <2>2. PICK b \in ToSet(trafficSplits[t].backends) : \E i \in DOMAIN services[b].splits :
                IncomingPods[Marked(M, b, i)][services[b].splits[i]].err
        BY <1>1, <2>1, ErrorOfSplit
    <2>3. PICK i \in DOMAIN services[b].splits :
                IncomingPods[Marked(M, b, i)][services[b].splits[i]].err
        BY <2>2
    <2> DEFINE u == services[b].splits[i]
    <2>4. b \in Known
        BY <1>0, <2>1, BackendIsKnown
    <2>5. u \in A /\ trafficSplits[u].service = b
        BY <2>4, SplitOfService
    <2>6. b \in Reach(A, b) /\ s \in Reach(A, s)
        BY <1>1, <2>4, ReachStart
    <2>7. b \in Reach(A, s)
        BY <1>0, <1>1, <2>1, <2>6, ReachStep
    <2>8. ~ LeadsToLoop(A, b)
        BY <1>0, <1>1, <2>7, LoopAhead
    <2>9. \A n \in ToSet(trafficSplits[u].backends) : Reach(A, n) \subseteq Reach(A, b)
        BY <1>0, <2>5, <2>6, ReachStep, ReachOnward
    <2>10. u \in SplitsBelow(t) /\ SplitsBelow(u) \subseteq SplitsBelow(t)
        BY <2>5, <2>6, <2>9 DEF SplitsBelow
    <2>11. s \notin Reach(A, b)
        BY <1>1, <2>6 DEF LeadsToLoop
    <2>12. t # u /\ t \notin SplitsBelow(u)
        <3>1. t # u
            BY <2>5, <2>6, <2>11
        <3>2. t \notin SplitsBelow(u)
            BY <2>9, <2>11 DEF SplitsBelow
        <3> QED BY <3>1, <3>2
    <2>13. /\ services[b].splits \in Seq(Split)
           /\ DOMAIN services[b].splits = 1 .. Len(services[b].splits)
           /\ Len(services[b].splits) \in Nat
        BY <2>4 DEF GraphInv
    <2>14. ASSUME NEW j \in 1 .. i - 1
           PROVE  services[b].splits[j] # u /\ services[b].splits[j] \notin SplitsBelow(u)
        <3> DEFINE v == services[b].splits[j]
        <3>1. j \in DOMAIN services[b].splits /\ j # i
            BY <2>3, <2>13
        <3>2. v # u
            BY <2>3, <2>4, <3>1 DEF SplitsAreAttached, IsInjective
        <3>3. trafficSplits[v].service = b
            BY <2>4, <3>1, SplitOfService
        <3>4. ASSUME NEW n \in ToSet(trafficSplits[u].backends), b \in Reach(A, n) PROVE FALSE
            BY <2>5, <2>6, <2>8, <3>4 DEF LeadsToLoop
        <3> QED BY <3>2, <3>3, <3>4 DEF SplitsBelow
    <2>15. u \notin Marked(M, b, i) /\ Marked(M, b, i) \cap SplitsBelow(u) = {}
        BY <1>1, <2>10, <2>12, <2>14 DEF Marked
    <2>16. Free(Marked(M, b, i), u)
        BY <2>4, <2>5, <2>8, <2>15
    <2>17. Marked(M, b, i) \in SUBSET Split /\ M \subseteq Marked(M, b, i)
        BY <2>1, <2>3, <2>4, <2>13, CallsVisitMore
    <2>18. Marked(M, b, i) \in G
        BY <1>1, <2>17
    <2> QED BY <2>3, <2>5, <2>16, <2>18
<1>2. ASSUME NEW W \in SUBSET Split, \A U \in SUBSET Split : W \subseteq U /\ W # U => U \in G
      PROVE  W \in G
    BY <1>1, <1>2
<1>3. SUBSET Split \subseteq G
    <2> HIDE DEF G
    <2> QED BY <1>2, FiniteSplits, SupersetInduction
<1> QED BY <1>3

\* Without an error, the visited splits make no difference.
LEMMA FewerVisited ==
    ASSUME GraphInv, NEW W \in SUBSET Split, NEW V \in SUBSET W, NEW ts \in Split,
           ~ IncomingPods[W][ts].err
    PROVE  IncomingPods[V][ts] = IncomingPods[W][ts]
<1> DEFINE Same(U, t) == \A V1 \in SUBSET U : IncomingPods[V1][t] = IncomingPods[U][t]
           G == {U \in SUBSET Split : \A t \in Split : ~ IncomingPods[U][t].err => Same(U, t)}
<1>1. ASSUME NEW U \in SUBSET Split, \A U1 \in SUBSET Split : U \subseteq U1 /\ U # U1 => U1 \in G,
             NEW t \in Split, ~ IncomingPods[U][t].err, NEW V1 \in SUBSET U
      PROVE  IncomingPods[V1][t] = IncomingPods[U][t]
    <2> DEFINE M == U \cup {t}
               M1 == V1 \cup {t}
               o == ServiceOutcomes(IncomingPods, t, M1)
               q == ServiceOutcomes(IncomingPods, t, M)
               bs == trafficSplits[t].backends
    <2>1. t \notin U /\ t \notin V1 /\ V1 \in SUBSET Split
        BY <1>1, SplitOutcome, CircularIsOutcome
    <2>2. InCommon(q) = IncomingPods[U][t] /\ InCommon(o) = IncomingPods[V1][t]
        BY <2>1, SplitOutcome
    <2>3. /\ M \in SUBSET Split /\ M1 \in SUBSET M /\ M1 \in SUBSET Split
          /\ U \subseteq M /\ U # M
        BY <2>1
    <2> HIDE DEF M, M1
    <2>4. /\ o \in Seq(Outcomes) /\ q \in Seq(Outcomes)
          /\ DOMAIN o = DOMAIN bs /\ DOMAIN q = DOMAIN bs
          /\ \A i \in DOMAIN bs : /\ o[i] = OfService(IncomingPods, bs[i], M1)
                                   /\ q[i] = OfService(IncomingPods, bs[i], M)
        BY ServiceOutcomesAre
    <2>5. \A i \in DOMAIN bs : bs[i] \in Known
        BY DEF GraphInv, BackendsKnown
    <2>6. ASSUME NEW s \in Known, ~ OfService(IncomingPods, s, M).err
          PROVE  OfService(IncomingPods, s, M1) = OfService(IncomingPods, s, M)
        <3>1. CASE services[s].splits = << >>
            BY <3>1 DEF OfService
        <3>2. CASE services[s].splits # << >>
            <4> DEFINE o1 == SplitOutcomes(IncomingPods, s, M1)
                       q1 == SplitOutcomes(IncomingPods, s, M)
                       sp == services[s].splits
            <4>1. OfService(IncomingPods, s, M1) = InCommon(o1) /\ OfService(IncomingPods, s, M) = InCommon(q1)
                BY <3>2 DEF OfService
            <4>2. /\ o1 \in Seq(Outcomes) /\ q1 \in Seq(Outcomes)
                  /\ DOMAIN o1 = DOMAIN sp /\ DOMAIN q1 = DOMAIN sp
                  /\ \A i \in DOMAIN sp : /\ o1[i] = IncomingPods[Marked(M1, s, i)][sp[i]]
                                           /\ q1[i] = IncomingPods[Marked(M, s, i)][sp[i]]
                BY <2>3, SplitOutcomesAre
            <4>3. sp \in Seq(Split)
                BY DEF GraphInv
            <4>4. DOMAIN sp = 1 .. Len(sp)
                BY <4>3
            <4> HIDE DEF o1, q1
            <4>5. ASSUME NEW i \in DOMAIN sp, ~ q1[i].err PROVE o1[i] = q1[i]
                <5> DEFINE N == Marked(M, s, i)
                           N1 == Marked(M1, s, i)
                <5>1. N1 \in SUBSET N
                    BY <2>3 DEF Marked
                <5>2. N \in SUBSET Split /\ M \subseteq N /\ sp[i] \in Split
                    BY <2>3, <4>4, CallsVisitMore
                <5> HIDE DEF N, N1
                <5>3. N \in G
                    BY <1>1, <2>3, <5>2
                <5>4. ~ IncomingPods[N][sp[i]].err
                    BY <4>2, <4>5 DEF N
                <5>5. Same(N, sp[i])
                    BY <5>2, <5>3, <5>4
                <5>6. IncomingPods[N1][sp[i]] = IncomingPods[N][sp[i]]
                    BY <5>1, <5>5
                <5> QED BY <4>2, <5>6 DEF N, N1
            <4>6. Len(o1) = Len(q1)
                BY <4>2
            <4>7. ~ InCommon(q1).err
                BY <2>6, <4>1
            <4>8. InCommon(o1) = InCommon(q1)
                BY <4>2, <4>5, <4>6, <4>7, InCommonSame
            <4> QED BY <4>1, <4>8
        <3> QED BY <3>1, <3>2
    <2> HIDE DEF o, q
    <2>7. ASSUME NEW i \in DOMAIN q, ~ q[i].err PROVE o[i] = q[i]
        BY <2>4, <2>5, <2>6, <2>7
    <2>8. Len(o) = Len(q)
        BY <2>4
    <2>9. ~ InCommon(q).err
        BY <1>1, <2>2
    <2>10. InCommon(o) = InCommon(q)
        BY <2>4, <2>7, <2>8, <2>9, InCommonSame
    <2> QED BY <2>2, <2>10
<1>2. ASSUME NEW U \in SUBSET Split, \A U1 \in SUBSET Split : U \subseteq U1 /\ U # U1 => U1 \in G
      PROVE  U \in G
    BY <1>1, <1>2
<1>3. SUBSET Split \subseteq G
    <2> HIDE DEF G
    <2> QED BY <1>2, FiniteSplits, SupersetInduction
<1> QED BY <1>3

\* The attached splits that are no loop: those that a service keeps.
KeptSplits == {ts \in AttachedSplits : ~ IncomingPods[{}][ts].err}

\* The services at which p may be: each split there may be called by p, and where there
\* is none, the traffic targets allow it.
OpenServices(p) ==
    {n \in Known : /\ \A t \in AttachedSplits :
                        trafficSplits[t].service = n => p \in IncomingPods[{}][t].pods
                   /\ p \in PodsOfTargets(n) \/ \E t \in AttachedSplits : trafficSplits[t].service = n}

\* A pod that may call a split may be at each of its backends.
LEMMA BackendIsOpen ==
    ASSUME GraphInv, SplitsAreAttached, NEW p \in Pod, NEW ts \in Split,
           p \in IncomingPods[{}][ts].pods, NEW b \in ToSet(trafficSplits[ts].backends)
    PROVE  b \in OpenServices(p)
<1> DEFINE M == {ts}
<1>0. {} \in SUBSET Split /\ {} \cup {ts} = M /\ M \in SUBSET Split
    OBVIOUS
<1>1. p \in OfService(IncomingPods, b, M).pods
    BY <1>0, PodsOfSplit
<1>2. b \in Known
    BY BackendIsKnown DEF GraphInv
<1> HIDE DEF M
<1>3. ASSUME NEW t \in AttachedSplits, trafficSplits[t].service = b
      PROVE  p \in IncomingPods[{}][t].pods
    <2>1. PICK i \in DOMAIN services[b].splits : services[b].splits[i] = t
        BY <1>2, <1>3, ServiceOfSplit
    <2>2. i \in 1 .. Len(services[b].splits) /\ services[b].splits # << >>
        BY <1>2, <2>1 DEF GraphInv
    <2> DEFINE N == Marked(M, b, i)
    <2>3. p \in IncomingPods[N][t].pods
        BY <1>0, <1>1, <1>2, <2>1, <2>2, PodsOfService
    <2>4. N \in SUBSET Split
        BY <1>0, <1>2, <2>2, CallsVisitMore
    <2>5. t \in Split /\ {} \in SUBSET N
        BY DEF AttachedSplits
    <2> HIDE DEF N
    <2>6. ~ IncomingPods[N][t].err
        BY <2>3, <2>4, <2>5, SplitOutcome DEF Outcomes
    <2>7. IncomingPods[{}][t] = IncomingPods[N][t]
        BY <2>4, <2>5, <2>6, FewerVisited
    <2> QED BY <2>3, <2>7
<1>4. p \in PodsOfTargets(b) \/ \E t \in AttachedSplits : trafficSplits[t].service = b
    <2>1. CASE services[b].splits = << >>
        BY <1>0, <1>1, <1>2, <2>1, PodsOfService
    <2>2. CASE services[b].splits # << >>
        <3>1. services[b].splits \in Seq(Split)
            BY <1>2 DEF GraphInv
        <3>2. 1 \in DOMAIN services[b].splits
            BY <2>2, <3>1
        <3> QED BY <1>2, <3>2, SplitOfService
    <2> QED BY <2>1, <2>2
<1> QED BY <1>2, <1>3, <1>4 DEF OpenServices

\* The ways from a backend of such a split stay among these services.
LEMMA ReachIsOpen ==
    ASSUME GraphInv, SplitsAreAttached, NEW p \in Pod, NEW ts \in Split,
           p \in IncomingPods[{}][ts].pods, NEW b \in ToSet(trafficSplits[ts].backends)
    PROVE  Reach(AttachedSplits, b) \subseteq OpenServices(p)
<1>1. AttachedSplits \in SUBSET Split
    BY DEF AttachedSplits
<1>2. ASSUME NEW t \in AttachedSplits, trafficSplits[t].service \in OpenServices(p)
      PROVE  ToSet(trafficSplits[t].backends) \subseteq OpenServices(p)
    <2>1. p \in IncomingPods[{}][t].pods
        BY <1>2 DEF OpenServices
    <2> QED BY <1>1, <2>1, BackendIsOpen
<1>3. IsClosed(OpenServices(p), AttachedSplits)
    BY <1>2 DEF IsClosed
<1>4. OpenServices(p) \in SUBSET Known
    BY DEF OpenServices
<1> QED BY <1>3, <1>4, BackendIsOpen, ReachLeast

\* What the kept splits say of the pods that may call a split.
Below(X, ts) == UNION {Reach(X, b) : b \in ToSet(trafficSplits[ts].backends)}

AllowsCall(X, ts, p) ==
    /\ trafficSplits[ts].backends # << >>
    /\ \A t \in X : trafficSplits[t].service \in Below(X, ts) => trafficSplits[t].backends # << >>
    /\ \A n \in Below(X, ts) :
            p \in PodsOfTargets(n) \/ \E t \in X : trafficSplits[t].service = n

\* A pod that the recursion finds for a split is allowed at the ends of all ways from it.
LEMMA FoundIsAllowed ==
    ASSUME GraphInv, SplitsAreAttached, NEW p \in Pod, NEW ts \in Split,
           p \in IncomingPods[{}][ts].pods
    PROVE  AllowsCall(KeptSplits, ts, p)
<1>1. KeptSplits \subseteq AttachedSplits /\ AttachedSplits \subseteq Split /\ {} \in SUBSET Split
    BY DEF KeptSplits, AttachedSplits
<1>2. Below(KeptSplits, ts) \subseteq OpenServices(p)
    BY <1>1, ReachGrows, ReachIsOpen DEF Below
<1>3. trafficSplits[ts].backends # << >>
    BY <1>1, PodsOfSplit
<1>4. ASSUME NEW t \in AttachedSplits, trafficSplits[t].service \in OpenServices(p)
      PROVE  t \in KeptSplits /\ trafficSplits[t].backends # << >>
    <2>1. p \in IncomingPods[{}][t].pods
        BY <1>4 DEF OpenServices
    <2>2. IncomingPods[{}][t] \in Outcomes
        BY <1>1, SplitOutcome
    <2> QED BY <1>1, <2>1, <2>2, PodsOfSplit DEF Outcomes, KeptSplits
<1>5. ASSUME NEW n \in Below(KeptSplits, ts)
      PROVE  p \in PodsOfTargets(n) \/ \E t \in KeptSplits : trafficSplits[t].service = n
    BY <1>2, <1>4 DEF OpenServices
<1> QED BY <1>1, <1>2, <1>3, <1>4, <1>5 DEF AllowsCall

\* A split below a split that p may call asks nothing more of p.
LEMMA AllowsBelow ==
    ASSUME BackendsKnown, NEW X \in SUBSET Split, NEW ts, NEW p, AllowsCall(X, ts, p),
           NEW t \in X, trafficSplits[t].service \in Below(X, ts)
    PROVE  AllowsCall(X, t, p)
<1>1. PICK b \in ToSet(trafficSplits[ts].backends) : trafficSplits[t].service \in Reach(X, b)
    BY DEF Below
<1>2. ASSUME NEW c \in ToSet(trafficSplits[t].backends) PROVE Reach(X, c) \subseteq Reach(X, b)
    BY <1>1, ReachStep, ReachOnward
<1>3. Below(X, t) \subseteq Below(X, ts)
    BY <1>2 DEF Below
<1> QED BY <1>3 DEF AllowsCall

\* A pod that is allowed at the ends of all ways from a split is found, unless the recursion
\* stops at a loop.
LEMMA AllowedIsFound ==
    ASSUME GraphInv, SplitsAreAttached, NEW p \in Pod, NEW V \in SUBSET Split, NEW ts \in Split,
           ~ IncomingPods[V][ts].err, AllowsCall(KeptSplits, ts, p)
    PROVE  p \in IncomingPods[V][ts].pods
<1> DEFINE K == KeptSplits
           G == {W \in SUBSET Split : \A t \in Split :
                    ~ IncomingPods[W][t].err /\ AllowsCall(KeptSplits, t, p) => p \in IncomingPods[W][t].pods}
<1>0. BackendsKnown /\ K \in SUBSET Split /\ AttachedSplits \in SUBSET Split /\ K \subseteq AttachedSplits
    BY DEF GraphInv, KeptSplits, AttachedSplits
<1>1. ASSUME NEW W \in SUBSET Split, \A U \in SUBSET Split : W \subseteq U /\ W # U => U \in G,
             NEW t \in Split, ~ IncomingPods[W][t].err, AllowsCall(K, t, p)
      PROVE  p \in IncomingPods[W][t].pods
    <2> DEFINE M == W \cup {t}
               o == ServiceOutcomes(IncomingPods, t, M)
               bs == trafficSplits[t].backends
    <2>1. t \notin W /\ InCommon(o) = IncomingPods[W][t]
        BY <1>1, SplitOutcome, CircularIsOutcome
    <2>2. M \in SUBSET Split /\ W \subseteq M /\ W # M
        BY <2>1
    <2> HIDE DEF M, K
    <2>3. /\ o \in Seq(Outcomes) /\ DOMAIN o = DOMAIN bs /\ (o = << >> <=> bs = << >>)
          /\ \A i \in DOMAIN bs : o[i] = OfService(IncomingPods, bs[i], M)
        BY ServiceOutcomesAre
    <2>4. ASSUME NEW b \in ToSet(bs), ~ OfService(IncomingPods, b, M).err
          PROVE  p \in OfService(IncomingPods, b, M).pods
        <3>1. b \in Known
            BY <1>0, BackendIsKnown
        <3>2. b \in Below(K, t) /\ b \in Reach(K, b)
            BY <3>1, ReachStart DEF Below
        <3>3. CASE services[b].splits = << >>
            <4>1. \A u \in K : trafficSplits[u].service # b
                BY <1>0, <3>1, <3>3, ServiceOfSplit
            <4>2. p \in PodsOfTargets(b)
                BY <1>1, <3>2, <4>1 DEF AllowsCall
            <4> QED BY <2>2, <3>1, <3>3, <4>2, PodsOfService
        <3>4. CASE services[b].splits # << >>
            <4> DEFINE q == SplitOutcomes(IncomingPods, b, M)
                       sp == services[b].splits
            <4>1. OfService(IncomingPods, b, M) = InCommon(q)
                BY <3>4 DEF OfService
            <4>2. /\ q \in Seq(Outcomes) /\ DOMAIN q = DOMAIN sp /\ q # << >>
                  /\ \A i \in DOMAIN sp : q[i] = IncomingPods[Marked(M, b, i)][sp[i]]
                BY <2>2, <3>1, <3>4, SplitOutcomesAre
            <4>3. DOMAIN sp = 1 .. Len(sp)
                BY <3>1 DEF GraphInv
            <4> HIDE DEF q
            <4>4. ASSUME NEW i \in DOMAIN sp, ~ q[i].err PROVE p \in q[i].pods
                <5> DEFINE N == Marked(M, b, i)
                           u == sp[i]
                <5>1. N \in SUBSET Split /\ M \subseteq N /\ u \in Split
                    BY <2>2, <3>1, <4>3, CallsVisitMore
                <5>2. u \in AttachedSplits /\ trafficSplits[u].service = b
                    BY <3>1, SplitOfService
                <5>3. q[i] = IncomingPods[N][u]
                    BY <4>2
                <5> HIDE DEF N, u
                <5>4. {} \in SUBSET N
                    OBVIOUS
                <5>5. IncomingPods[{}][u] = IncomingPods[N][u]
                    BY <4>4, <5>1, <5>3, <5>4, FewerVisited
                <5>6. u \in K
                    BY <4>4, <5>2, <5>3, <5>5 DEF K, KeptSplits
                <5>7. AllowsCall(K, u, p)
                    BY <1>0, <1>1, <3>2, <5>2, <5>6, AllowsBelow
                <5>8. N \in G
                    BY <1>1, <2>2, <5>1
                <5> QED BY <4>4, <5>1, <5>3, <5>7, <5>8 DEF K
            <4>5. ~ InCommon(q).err
                BY <2>4, <4>1
            <4>6. p \in InCommon(q).pods
                BY <4>2, <4>4, <4>5, InCommonAll
            <4> QED BY <4>1, <4>6
        <3> QED BY <3>3, <3>4
    <2> HIDE DEF o
    <2>5. ASSUME NEW i \in DOMAIN o, ~ o[i].err PROVE p \in o[i].pods
        <3>1. bs[i] \in ToSet(bs)
            BY <2>3 DEF ToSet
        <3> QED BY <2>3, <2>4, <2>5, <3>1
    <2>6. o # << >> /\ ~ InCommon(o).err
        BY <1>1, <2>1, <2>3 DEF AllowsCall
    <2>7. p \in InCommon(o).pods
        BY <2>3, <2>5, <2>6, InCommonAll
    <2> QED BY <2>1, <2>7
<1>2. ASSUME NEW W \in SUBSET Split, \A U \in SUBSET Split : W \subseteq U /\ W # U => U \in G
      PROVE  W \in G
    BY <1>1, <1>2
<1>3. SUBSET Split \subseteq G
    <2> HIDE DEF G
    <2> QED BY <1>2, FiniteSplits, SupersetInduction
<1> QED BY <1>3

--------------------------------------------------------------------------------
(* The topology while it is built.                                              *)

ClusterInv == cluster \in Cluster

StepInv == step \in {"services", "splits", "targets", "incoming", "built", "configured"}

ServicesInv ==
    IF step = "services" THEN services = << >>
    ELSE services \in [Known -> [splits : Seq(Split), targets : SUBSET Target,
                                 backendOf : SUBSET DOMAIN trafficSplits]]

SplitsInv ==
    /\ DOMAIN trafficSplits \subseteq Split
    /\ step = "services" => DOMAIN trafficSplits = {}
    /\ step \notin {"services", "splits"} => DOMAIN trafficSplits = Split
    /\ \A ts \in DOMAIN trafficSplits :
        /\ trafficSplits[ts] \in [service : Name, backends : Seq(Known), incoming : SUBSET Pod]
        /\ trafficSplits[ts].service = cluster.splits[ts].service

\* A service has the splits that evaluateTrafficSplit has given it, each once, until
\* those that cause loops are removed.
SplitsAt(s) == {ts \in DOMAIN trafficSplits : Attached(ts) /\ cluster.splits[ts].service = s}

AttachedInv ==
    step # "services" =>
        \A s \in Known :
            /\ ToSet(services[s].splits) \subseteq SplitsAt(s)
            /\ step \in {"splits", "targets", "incoming"} => SplitsAt(s) \subseteq ToSet(services[s].splits)
            /\ IsInjective(services[s].splits)

\* What evaluateTrafficTarget leaves.
TargetsInv ==
    IF step \in {"services", "splits", "targets"}
    THEN serviceTrafficTargets = << >> /\ \A s \in DOMAIN services : services[s].targets = {}
    ELSE /\ serviceTrafficTargets =
                [st \in {st \in Name \X Target : st[1] \in Destinations(st[2])} |-> SourcePods(st[2])]
         /\ \A s \in DOMAIN services : services[s].targets = {tt \in Target : Applies(tt, s)}

TopologyInv == ClusterInv /\ StepInv /\ ServicesInv /\ SplitsInv /\ AttachedInv /\ TargetsInv

\* What depends on the cluster alone stays as long as the cluster does.
LEMMA SpecsStay ==
    ASSUME UNCHANGED cluster, NEW rules
    PROVE  /\ SpecsExist(rules)' = SpecsExist(rules)
           /\ HTTPMatches(rules)' = HTTPMatches(rules)
BY DEF SpecsExist, IsBuilt, HTTPMatches, SelectedMatches

\* The parts of a traffic target depend on the cluster only.
LEMMA TargetStays ==
    ASSUME UNCHANGED cluster, NEW tt, NEW s
    PROVE  /\ SourcePods(tt)' = SourcePods(tt)
           /\ Destinations(tt)' = Destinations(tt)
           /\ DestinationPorts(tt, s)' = DestinationPorts(tt, s)
           /\ Known' = Known
BY DEF SourcePods, Destinations, DestinationPorts, Known

\* Whether a traffic target is one of a service depends on the cluster only.
LEMMA AppliesStays ==
    ASSUME UNCHANGED cluster, NEW tt, NEW s
    PROVE  Applies(tt, s)' = Applies(tt, s)
<1>1. SpecsExist(cluster.targets[tt].rules)' = SpecsExist(cluster.targets[tt].rules)
    BY SpecsStay
<1>2. HasDestinationPort(tt, s)' = HasDestinationPort(tt, s)
    BY TargetStays DEF HasDestinationPort
<1> QED BY <1>1, <1>2, TargetStays DEF Applies

\* Whether a split is attached depends on the cluster only.
LEMMA AttachedStays ==
    ASSUME UNCHANGED cluster, NEW ts
    PROVE  Attached(ts)' = Attached(ts)
<1>1. SpecsExist(cluster.splits[ts].rules)' = SpecsExist(cluster.splits[ts].rules)
    BY SpecsStay
<1> QED BY <1>1 DEF Attached, Known

\* A part of the topology that a step does not write keeps its invariant.
LEMMA TargetsStay ==
    ASSUME TargetsInv, UNCHANGED <<cluster, serviceTrafficTargets>>, DOMAIN services' \subseteq DOMAIN services,
           \A s \in DOMAIN services' : services'[s].targets = services[s].targets,
           step \in {"services", "splits", "targets"} <=> step' \in {"services", "splits", "targets"}
    PROVE  TargetsInv'
<1>1. CASE step \in {"services", "splits", "targets"}
    BY <1>1 DEF TargetsInv
<1>2. CASE step \notin {"services", "splits", "targets"}
    <2>1. [st \in {st \in Name \X Target : st[1] \in Destinations(st[2])} |-> SourcePods(st[2])]'
            = [st \in {st \in Name \X Target : st[1] \in Destinations(st[2])} |-> SourcePods(st[2])]
        BY TargetStays
    <2>2. \A s : {tt \in Target : Applies(tt, s)}' = {tt \in Target : Applies(tt, s)}
        BY AppliesStays
    <2> QED BY <1>2, <2>1, <2>2 DEF TargetsInv
<1> QED BY <1>1, <1>2

\* Steps that leave the splits alone.
LEMMA SplitsStay ==
    ASSUME SplitsInv, UNCHANGED <<cluster, trafficSplits>>, step' # "services",
           step' \notin {"services", "splits"} => DOMAIN trafficSplits = Split
    PROVE  SplitsInv'
BY DEF SplitsInv, Known

\* The splits that a service should have, before and after a step that adds none.
LEMMA SplitsAtStay ==
    ASSUME UNCHANGED cluster, DOMAIN trafficSplits' = DOMAIN trafficSplits, NEW s
    PROVE  SplitsAt(s)' = SplitsAt(s)
BY AttachedStays DEF SplitsAt

\* The topology is empty when Build is called.
LEMMA TopologyStarts == Init => TopologyInv
BY DEF Init, TopologyInv, ClusterInv, StepInv, ServicesInv, SplitsInv, AttachedInv, TargetsInv

\* evaluateService for every service.
LEMMA EvaluateServicesKeeps ==
    ASSUME TopologyInv, EvaluateServices
    PROVE  TopologyInv'
<1> USE DEF EvaluateServices, TopologyInv
<1>1. ClusterInv' /\ StepInv'
    BY DEF ClusterInv, StepInv
<1>2. services' = [s \in Known |-> [splits |-> << >>, targets |-> {}, backendOf |-> {}]] /\ Known' = Known
    BY DEF Known
<1>3. ServicesInv'
    BY <1>2 DEF ServicesInv
<1>4. DOMAIN trafficSplits = {} /\ (step' = "targets" => Split = {})
    BY DEF SplitsInv
<1>5. SplitsInv'
    BY <1>4 DEF SplitsInv
<1>6. AttachedInv'
    BY <1>2, <1>4 DEF AttachedInv, SplitsAt, ToSet, IsInjective
<1>7. TargetsInv'
    BY <1>2 DEF TargetsInv
<1> QED BY <1>1, <1>3, <1>5, <1>6, <1>7

\* What evaluateTrafficSplit does to the map of the splits keeps their invariant.
LEMMA OneMoreSplit ==
    ASSUME ClusterInv, SplitsInv, step = "splits", UNCHANGED cluster, NEW ts \in Split \ DOMAIN trafficSplits,
           NEW backends \in Seq(Known),
           trafficSplits' = WithSplit(ts, [service |-> cluster.splits[ts].service,
                                           backends |-> backends, incoming |-> {}]),
           step' = IF DOMAIN trafficSplits' = Split THEN "targets" ELSE "splits"
    PROVE  SplitsInv' /\ DOMAIN trafficSplits' = DOMAIN trafficSplits \cup {ts}
<1> DEFINE g == trafficSplits'
           r == [service |-> cluster.splits[ts].service, backends |-> backends, incoming |-> {}]
<1>1. g = WithSplit(ts, r)
    OBVIOUS
<1> HIDE DEF r
<1>2. /\ DOMAIN g = DOMAIN trafficSplits \cup {ts} /\ g[ts] = r
      /\ \A x \in DOMAIN trafficSplits \ {ts} : g[x] = trafficSplits[x]
    BY <1>1 DEF WithSplit
<1>3. /\ r \in [service : Name, backends : Seq(Known), incoming : SUBSET Pod]
      /\ r.service = cluster.splits[ts].service
    BY ClusterAssumption DEF r, ClusterInv
<1> QED BY <1>2, <1>3 DEF SplitsInv, Known

\* evaluateTrafficSplit when it returns without a split for the service.
LEMMA RejectKeeps ==
    ASSUME TopologyInv, step = "splits", UNCHANGED <<cluster, serviceTrafficTargets>>,
           NEW ts \in Split \ DOMAIN trafficSplits, RejectTrafficSplit(ts),
           step' = IF DOMAIN trafficSplits' = Split THEN "targets" ELSE "splits"
    PROVE  TopologyInv'
<1> USE DEF TopologyInv, RejectTrafficSplit
<1>1. ClusterInv' /\ StepInv'
    BY DEF ClusterInv, StepInv
<1>2. SplitsInv' /\ DOMAIN trafficSplits' = DOMAIN trafficSplits \cup {ts}
    <2>1. << >> \in Seq(Known)
        OBVIOUS
    <2> QED BY <2>1, OneMoreSplit
<1>3. step' \in {"splits", "targets"} /\ Known' = Known
    BY DEF Known
<1>4. ServicesInv'
    BY <1>2, <1>3 DEF ServicesInv
<1>5. \A s : SplitsAt(s)' = SplitsAt(s)
    BY <1>2, AttachedStays DEF SplitsAt
<1>6. AttachedInv'
    BY <1>3, <1>5 DEF AttachedInv
<1>7. TargetsInv'
    BY <1>3, TargetsStay
<1> QED BY <1>1, <1>2, <1>4, <1>6, <1>7

\* The retained backends are services of the mesh.
LEMMA RetainedAreKnown ==
    ASSUME ClusterInv, NEW ts \in Split
    PROVE  RetainedBackends(ts) \in Seq(Known)
<1> DEFINE S == {b \in Known : ExposesPortsOf(cluster.splits[ts].service, b)}
           s == cluster.splits[ts].backends
<1>1. s \in Seq(Name) /\ RetainedBackends(ts) = Selected(s, S) /\ Name \cap S \subseteq Known
    BY ClusterAssumption DEF RetainedBackends, ClusterInv
<1> HIDE DEF S, s
<1>2. RetainedBackends(ts) \in Seq(Name \cap S)
    BY <1>1, SelectedElements
<1> QED BY <1>1, <1>2, SeqOfMore

\* evaluateTrafficSplit when the split becomes one of its service.
LEMMA AttachKeeps ==
    ASSUME TopologyInv, step = "splits", UNCHANGED <<cluster, serviceTrafficTargets>>,
           NEW ts \in Split \ DOMAIN trafficSplits, AttachTrafficSplit(ts),
           step' = IF DOMAIN trafficSplits' = Split THEN "targets" ELSE "splits"
    PROVE  TopologyInv'
<1> USE DEF TopologyInv
<1> DEFINE root == cluster.splits[ts].service
           backends == RetainedBackends(ts)
<1>0. /\ Attached(ts)
      /\ trafficSplits' = WithSplit(ts, [service |-> root, backends |-> backends,
                                         incoming |-> {}])
      /\ services' = [s \in DOMAIN services |->
            [services[s] EXCEPT
                !.splits = IF s = root THEN Append(@, ts) ELSE @,
                !.backendOf = IF s \in ToSet(backends) THEN @ \cup {ts} ELSE @]]
    BY DEF AttachTrafficSplit
<1>1. ClusterInv' /\ StepInv'
    BY DEF ClusterInv, StepInv
<1>2. SplitsInv' /\ DOMAIN trafficSplits' = DOMAIN trafficSplits \cup {ts}
    BY <1>0, RetainedAreKnown, OneMoreSplit
<1> HIDE DEF backends
<1>3. step' \in {"splits", "targets"} /\ Known' = Known
    BY DEF Known
<1>4. services \in [Known -> [splits : Seq(Split), targets : SUBSET Target,
                              backendOf : SUBSET DOMAIN trafficSplits]]
    BY DEF ServicesInv
<1>5. /\ DOMAIN services' = Known
      /\ \A s \in Known :
            /\ DOMAIN services'[s] = {"splits", "targets", "backendOf"}
            /\ services'[s].targets = services[s].targets
            /\ services'[s].splits = IF s = root THEN Append(services[s].splits, ts) ELSE services[s].splits
            /\ services'[s].backendOf = IF s \in ToSet(backends) THEN services[s].backendOf \cup {ts}
                                        ELSE services[s].backendOf
    BY <1>0, <1>4
<1>6. \A s \in Known : Append(services[s].splits, ts) \in Seq(Split)
    BY <1>4
<1>7. ServicesInv'
    <2>1. ASSUME NEW s \in Known
          PROVE  services'[s] \in [splits : Seq(Split), targets : SUBSET Target,
                                   backendOf : SUBSET DOMAIN trafficSplits']
        <3> DEFINE Q == Seq(Split)
                   D == DOMAIN trafficSplits
                   N == DOMAIN trafficSplits'
        <3>1. services[s].splits \in Q /\ services[s].targets \in SUBSET Target
              /\ services[s].backendOf \in SUBSET D
            BY <1>4
        <3>2. Append(services[s].splits, ts) \in Q
            BY <1>6
        <3>3. N = D \cup {ts}
            BY <1>2
        <3> HIDE DEF Q, D, N
        <3>4. services'[s].splits \in Q /\ services'[s].targets \in SUBSET Target
              /\ services'[s].backendOf \in SUBSET N
            BY <1>5, <3>1, <3>2, <3>3
        <3>5. services'[s] = [splits |-> services'[s].splits, targets |-> services'[s].targets,
                              backendOf |-> services'[s].backendOf]
            BY <1>0, <1>4
        <3> QED BY <3>4, <3>5 DEF Q, N
    <2>2. services' = [s \in Known |-> services'[s]]
        BY <1>0, <1>4
    <2> QED BY <1>3, <2>1, <2>2 DEF ServicesInv
<1>8. ASSUME NEW s \in Known
      PROVE  SplitsAt(s)' = IF s = root THEN SplitsAt(s) \cup {ts} ELSE SplitsAt(s)
    BY <1>0, <1>2, AttachedStays DEF SplitsAt
<1>9. AttachedInv'
    <2>1. ASSUME NEW s \in Known
          PROVE  /\ ToSet(services'[s].splits) = SplitsAt(s)'
                 /\ IsInjective(services'[s].splits)
        <3>1. ToSet(services[s].splits) = SplitsAt(s) /\ IsInjective(services[s].splits)
            BY DEF AttachedInv
        <3>2. CASE s # root
            BY <1>5, <1>8, <3>1, <3>2
        <3>3. CASE s = root
            <4>1. ts \notin SplitsAt(s)
                BY DEF SplitsAt
            <4>2. services'[s].splits = Append(services[s].splits, ts) /\ services[s].splits \in Seq(Split)
                BY <1>4, <1>5, <3>3
            <4> DEFINE q == services[s].splits
            <4> HIDE DEF q
            <4>3. /\ ToSet(Append(q, ts)) = ToSet(q) \cup {ts}
                  /\ IsInjective(q) /\ ts \notin ToSet(q) => IsInjective(Append(q, ts))
                BY <4>2, AppendElements DEF q
            <4> QED BY <1>8, <3>1, <3>3, <4>1, <4>2, <4>3 DEF q
        <3> QED BY <3>2, <3>3
    <2> QED BY <1>3, <2>1 DEF AttachedInv
<1>10. TargetsInv'
    BY <1>3, <1>4, <1>5, TargetsStay
<1> QED BY <1>1, <1>2, <1>7, <1>9, <1>10

\* evaluateTrafficSplit, for the next split of the map.
LEMMA EvaluateTrafficSplitKeeps ==
    ASSUME TopologyInv, EvaluateTrafficSplit
    PROVE  TopologyInv'
BY RejectKeeps, AttachKeeps DEF EvaluateTrafficSplit

\* evaluateTrafficTarget for every traffic target.
LEMMA EvaluateTrafficTargetsKeeps ==
    ASSUME TopologyInv, EvaluateTrafficTargets
    PROVE  TopologyInv'
<1> USE DEF EvaluateTrafficTargets, TopologyInv
<1>0. UNCHANGED cluster
    OBVIOUS
<1>1. ClusterInv' /\ StepInv'
    BY DEF ClusterInv, StepInv
<1>2. services \in [Known -> [splits : Seq(Split), targets : SUBSET Target,
                              backendOf : SUBSET DOMAIN trafficSplits]]
    BY DEF ServicesInv
<1>3. /\ Known' = Known /\ DOMAIN services' = Known
      /\ \A s \in Known : services'[s] = [services[s] EXCEPT !.targets = {tt \in Target : Applies(tt, s)}]
    BY <1>2 DEF Known
<1>4. ASSUME NEW s \in Known
      PROVE  /\ services'[s].splits = services[s].splits
             /\ services'[s].targets = {tt \in Target : Applies(tt, s)}
             /\ services'[s] \in [splits : Seq(Split), targets : SUBSET Target,
                                  backendOf : SUBSET DOMAIN trafficSplits]
    <2> DEFINE Q == Seq(Split)
               D == DOMAIN trafficSplits
               T == {tt \in Target : Applies(tt, s)}
    <2>1. services[s] \in [splits : Q, targets : SUBSET Target, backendOf : SUBSET D]
        BY <1>2
    <2>2. T \in SUBSET Target /\ services'[s] = [services[s] EXCEPT !.targets = T]
        BY <1>3
    <2> HIDE DEF Q, D, T
    <2>3. /\ services'[s].splits = services[s].splits /\ services'[s].targets = T
          /\ services'[s] \in [splits : Q, targets : SUBSET Target, backendOf : SUBSET D]
        BY <2>1, <2>2
    <2> QED BY <2>3 DEF Q, D, T
<1>5. ServicesInv'
    BY <1>2, <1>3, <1>4 DEF ServicesInv
<1>6. SplitsInv'
    BY SplitsStay DEF SplitsInv
<1>7. AttachedInv'
    BY <1>3, <1>4, SplitsAtStay DEF AttachedInv
<1>8. TargetsInv'
    <2>1. \A s : {tt \in Target : Applies(tt, s)}' = {tt \in Target : Applies(tt, s)}
        BY AppliesStays
    <2>2. [st \in {st \in Name \X Target : st[1] \in Destinations(st[2])} |-> SourcePods(st[2])]'
            = [st \in {st \in Name \X Target : st[1] \in Destinations(st[2])} |-> SourcePods(st[2])]
        <3> HIDE DEF EvaluateTrafficTargets, TopologyInv
        <3> QED BY <1>0, TargetStays
    <2> QED BY <1>3, <1>4, <2>1, <2>2 DEF TargetsInv
<1> QED BY <1>1, <1>5, <1>6, <1>7, <1>8

\* Who may call a service without splits is what the traffic targets say.
LEMMA TargetsAllow ==
    ASSUME TopologyInv, step \in {"incoming", "built", "configured"}, NEW s \in Known
    PROVE  PodsOfTargets(s) = AllowedPods(s) /\ AllowedPods(s) \subseteq Pod
<1>1. services[s].targets = {tt \in Target : Applies(tt, s)}
    BY DEF TopologyInv, TargetsInv, ServicesInv
<1>2. ASSUME NEW tt \in services[s].targets
      PROVE  serviceTrafficTargets[<<s, tt>>] = SourcePods(tt)
    <2>1. tt \in Target /\ s \in Destinations(tt) /\ s \in Name
        BY <1>1, ClusterAssumption DEF Applies, TopologyInv, ClusterInv, Known
    <2> QED BY <2>1 DEF TopologyInv, TargetsInv
<1>3. PodsOfTargets(s) = UNION {SourcePods(tt) : tt \in {tt \in Target : Applies(tt, s)}}
    BY <1>1, <1>2 DEF PodsOfTargets
<1>4. cluster.running \subseteq Pod
    BY ClusterAssumption DEF TopologyInv, ClusterInv
<1> QED BY <1>3, <1>4 DEF AllowedPods, SourcePods

\* The recursion starts from a topology that its equation holds for.
LEMMA IncomingReads ==
    ASSUME TopologyInv, step = "incoming"
    PROVE  GraphInv /\ SplitsAreAttached
<1> USE DEF TopologyInv
<1>1. DOMAIN trafficSplits = Split /\ DOMAIN services = Known
    BY DEF SplitsInv, ServicesInv
<1>2. BackendsKnown
    BY <1>1 DEF BackendsKnown, SplitsInv
<1>3. \A s \in Known : services[s].splits \in Seq(Split)
    BY DEF ServicesInv
<1>4. \A s \in Known : PodsOfTargets(s) \in SUBSET Pod
    BY TargetsAllow
<1>5. \A s : SplitsAt(s) = {ts \in AttachedSplits : trafficSplits[ts].service = s}
    BY <1>1 DEF SplitsAt, AttachedSplits, SplitsInv
<1>6. SplitsAreAttached
    BY <1>5 DEF SplitsAreAttached, AttachedInv
<1> QED BY <1>2, <1>3, <1>4, <1>6 DEF GraphInv

\* What populateTrafficSplitsAuthorizedIncomingTraffic writes.
LEMMA Populated ==
    ASSUME TopologyInv, PopulateIncoming
    PROVE  /\ DOMAIN trafficSplits' = Split
           /\ \A ts \in Split :
                trafficSplits'[ts] = IF ts \in KeptSplits
                                     THEN [trafficSplits[ts] EXCEPT !.incoming = IncomingPods[{}][ts].pods]
                                     ELSE trafficSplits[ts]
           /\ DOMAIN services' = Known
           /\ \A s \in Known :
                services'[s] = [services[s] EXCEPT
                                    !.splits = Selected(@, Split \ (AttachedSplits \ KeptSplits))]
<1> DEFINE attached == UNION {ToSet(services[s].splits) : s \in DOMAIN services}
           outcome == [ts \in attached |-> IncomingPods[{}][ts]]
           looping == {ts \in attached : outcome[ts].err}
<1>1. step = "incoming" /\ SplitsAreAttached /\ DOMAIN services = Known /\ DOMAIN trafficSplits = Split
    BY IncomingReads DEF PopulateIncoming, TopologyInv, ServicesInv, SplitsInv
<1>2. attached = AttachedSplits
    <2>1. \A s \in Known : ToSet(services[s].splits) \subseteq AttachedSplits
        BY <1>1 DEF SplitsAreAttached
    <2>2. ASSUME NEW ts \in AttachedSplits
          PROVE  \E s \in Known : ts \in ToSet(services[s].splits)
        <3>1. trafficSplits[ts].service \in Known
            BY <1>1 DEF AttachedSplits, Attached, TopologyInv, SplitsInv
        <3> QED BY <1>1, <3>1 DEF SplitsAreAttached
    <2> QED BY <1>1, <2>1, <2>2
<1>3. \A ts \in AttachedSplits : outcome[ts] = IncomingPods[{}][ts]
    BY <1>2
<1>4. looping = AttachedSplits \ KeptSplits /\ attached \ looping = KeptSplits
    <2> HIDE DEF outcome, attached
    <2> QED BY <1>2, <1>3 DEF KeptSplits
<1>5. /\ trafficSplits' =
            [ts \in DOMAIN trafficSplits |->
                IF ts \in attached \ looping
                THEN [trafficSplits[ts] EXCEPT !.incoming = outcome[ts].pods]
                ELSE trafficSplits[ts]]
      /\ services' = [s \in DOMAIN services |-> WithoutLoops(s, looping)]
    BY DEF PopulateIncoming
<1>6. \A ts \in KeptSplits : ts \in AttachedSplits
    BY DEF KeptSplits
<1> HIDE DEF attached, outcome, looping
<1> QED BY <1>1, <1>3, <1>4, <1>5, <1>6 DEF WithoutLoops

\* The topology is the one the recursion has read, without the splits that make loops.
LEMMA PopulatedGraph ==
    ASSUME TopologyInv, PopulateIncoming
    PROVE  /\ \A ts \in Split :
                /\ trafficSplits'[ts] \in [service : Name, backends : Seq(Known), incoming : SUBSET Pod]
                /\ trafficSplits'[ts].service = trafficSplits[ts].service
                /\ trafficSplits'[ts].backends = trafficSplits[ts].backends
                /\ ts \in KeptSplits => trafficSplits'[ts].incoming = IncomingPods[{}][ts].pods
           /\ \A s \in Known :
                /\ services'[s] \in [splits : Seq(Split), targets : SUBSET Target, backendOf : SUBSET Split]
                /\ services'[s].targets = services[s].targets
                /\ ToSet(services'[s].splits) = {ts \in KeptSplits : trafficSplits[ts].service = s}
                /\ IsInjective(services'[s].splits)
<1>0. step = "incoming" /\ GraphInv /\ SplitsAreAttached /\ DOMAIN trafficSplits = Split
    BY IncomingReads DEF PopulateIncoming, TopologyInv, SplitsInv
<1>1. ASSUME NEW ts \in Split
      PROVE  /\ trafficSplits'[ts] \in [service : Name, backends : Seq(Known), incoming : SUBSET Pod]
             /\ trafficSplits'[ts].service = trafficSplits[ts].service
             /\ trafficSplits'[ts].backends = trafficSplits[ts].backends
             /\ ts \in KeptSplits => trafficSplits'[ts].incoming = IncomingPods[{}][ts].pods
    <2> DEFINE pods == IncomingPods[{}][ts].pods
               Q == Seq(Known)
    <2>1. pods \in SUBSET Pod
        <3>1. {} \in SUBSET Split
            OBVIOUS
        <3>2. IncomingPods[{}][ts] \in Outcomes
            BY <1>0, <3>1, SplitOutcome
        <3> QED BY <3>2 DEF Outcomes
    <2>2. trafficSplits[ts] \in [service : Name, backends : Q, incoming : SUBSET Pod]
        BY <1>0 DEF TopologyInv, SplitsInv
    <2>3. trafficSplits'[ts] = IF ts \in KeptSplits THEN [trafficSplits[ts] EXCEPT !.incoming = pods]
                               ELSE trafficSplits[ts]
        BY Populated
    <2> HIDE DEF pods, Q
    <2>4. /\ trafficSplits'[ts] \in [service : Name, backends : Q, incoming : SUBSET Pod]
          /\ trafficSplits'[ts].service = trafficSplits[ts].service
          /\ trafficSplits'[ts].backends = trafficSplits[ts].backends
          /\ ts \in KeptSplits => trafficSplits'[ts].incoming = pods
        BY <2>1, <2>2, <2>3
    <2> QED BY <2>4 DEF pods, Q
<1>2. ASSUME NEW s \in Known
      PROVE  /\ services'[s] \in [splits : Seq(Split), targets : SUBSET Target, backendOf : SUBSET Split]
             /\ services'[s].targets = services[s].targets
             /\ ToSet(services'[s].splits) = {ts \in KeptSplits : trafficSplits[ts].service = s}
             /\ IsInjective(services'[s].splits)
    <2> DEFINE S == Split \ (AttachedSplits \ KeptSplits)
               q == services[s].splits
               r == Selected(q, S)
               Q == Seq(Split)
    <2>1. services[s] \in [splits : Seq(Split), targets : SUBSET Target, backendOf : SUBSET Split]
        BY <1>0 DEF TopologyInv, ServicesInv
    <2>2. q \in Seq(Split)
        BY <2>1
    <2>3. services'[s] = [services[s] EXCEPT !.splits = r]
        BY Populated
    <2>4. ToSet(q) \cap S = {ts \in KeptSplits : trafficSplits[ts].service = s} /\ IsInjective(q)
        BY <1>0 DEF SplitsAreAttached, KeptSplits, AttachedSplits
    <2> HIDE DEF S, q
    <2>5. r \in Seq(Split \cap S) /\ ToSet(r) = ToSet(q) \cap S /\ IsInjective(r)
        BY <2>2, <2>4, SelectedElements
    <2>6. r \in Q
        BY <2>5, SeqOfMore
    <2> HIDE DEF r, Q
    <2>7. services'[s] \in [splits : Q, targets : SUBSET Target, backendOf : SUBSET Split]
          /\ services'[s].targets = services[s].targets /\ services'[s].splits = r
        BY <2>1, <2>3, <2>6 DEF Q
    <2> QED BY <2>4, <2>5, <2>7 DEF Q
<1> QED BY <1>1, <1>2

\* populateTrafficSplitsAuthorizedIncomingTraffic: splits are only taken away.
LEMMA PopulateIncomingKeeps ==
    ASSUME TopologyInv, PopulateIncoming
    PROVE  TopologyInv'
<1> USE DEF TopologyInv
<1>0. /\ step = "incoming" /\ step' = "built"
      /\ UNCHANGED <<cluster, serviceTrafficTargets>> /\ Known' = Known
    BY DEF PopulateIncoming, Known
<1>1. ClusterInv' /\ StepInv'
    BY <1>0 DEF ClusterInv, StepInv
<1>2. DOMAIN trafficSplits' = Split /\ DOMAIN services' = Known /\ DOMAIN services = Known
      /\ DOMAIN trafficSplits = Split
    BY <1>0, Populated DEF ServicesInv, SplitsInv
<1>3. ServicesInv'
    <2>1. services' = [s \in Known |-> services'[s]]
        BY DEF PopulateIncoming, ServicesInv
    <2>2. \A s \in Known : services'[s] \in [splits : Seq(Split), targets : SUBSET Target,
                                             backendOf : SUBSET Split]
        BY PopulatedGraph
    <2> HIDE DEF TopologyInv
    <2> QED BY <1>0, <1>2, <2>1, <2>2 DEF ServicesInv
<1>4. SplitsInv'
    <2>1. \A ts \in Split :
            /\ trafficSplits'[ts] \in [service : Name, backends : Seq(Known), incoming : SUBSET Pod]
            /\ trafficSplits'[ts].service = cluster.splits[ts].service
        BY <1>2, PopulatedGraph DEF SplitsInv
    <2> QED BY <1>0, <1>2, <2>1 DEF SplitsInv
<1>5. AttachedInv'
    <2>1. ASSUME NEW s \in Known PROVE SplitsAt(s)' = {ts \in AttachedSplits : trafficSplits[ts].service = s}
        BY <1>0, <1>2, AttachedStays DEF SplitsAt, AttachedSplits, SplitsInv
    <2>2. \A s \in Known : ToSet(services'[s].splits) = {ts \in KeptSplits : trafficSplits[ts].service = s}
                           /\ IsInjective(services'[s].splits)
        BY PopulatedGraph
    <2> QED BY <1>0, <2>1, <2>2 DEF AttachedInv, KeptSplits
<1>6. TargetsInv'
    BY <1>0, <1>2, PopulatedGraph, TargetsStay
<1> QED BY <1>1, <1>3, <1>4, <1>5, <1>6

--------------------------------------------------------------------------------
(* The properties of the topology that Build returns.                           *)

\* The graph of the splits is that of the services and backends they have.
SameSplits ==
    /\ UNCHANGED cluster
    /\ \A ts \in Split : /\ trafficSplits'[ts].service = trafficSplits[ts].service
                         /\ trafficSplits'[ts].backends = trafficSplits[ts].backends

\* Closed sets depend on the services and backends of the splits only.
LEMMA ClosedStays ==
    ASSUME SameSplits, NEW X \in SUBSET Split, NEW R
    PROVE  IsClosed(R, X)' <=> IsClosed(R, X)
BY DEF SameSplits, IsClosed

\* So does what they reach,
LEMMA ReachStays ==
    ASSUME SameSplits, NEW X \in SUBSET Split, NEW s
    PROVE  Reach(X, s)' = Reach(X, s)
BY ClosedStays DEF SameSplits, Reach, Known

\* and whether they lead to a loop.
LEMMA LoopsStay ==
    ASSUME SameSplits, NEW X \in SUBSET Split, NEW s
    PROVE  LeadsToLoop(X, s)' <=> LeadsToLoop(X, s)
BY ReachStays DEF SameSplits, LeadsToLoop

\* The pods that the targets of a service allow depend on the cluster only.
LEMMA AllowedPodsStay ==
    ASSUME UNCHANGED cluster, NEW s
    PROVE  AllowedPods(s)' = AllowedPods(s)
BY AppliesStays DEF AllowedPods

\* A service keeps the splits whose outcome is no error.
LEMMA KeptAre ==
    ASSUME TopologyInv, PopulateIncoming, NEW ts \in Split
    PROVE  Kept(ts)' <=> ts \in KeptSplits
<1>1. /\ UNCHANGED cluster /\ trafficSplits'[ts].service = trafficSplits[ts].service
      /\ trafficSplits[ts].service = cluster.splits[ts].service
    BY PopulatedGraph, Populated DEF PopulateIncoming, TopologyInv, SplitsInv
<1>2. Attached(ts)' <=> Attached(ts)
    BY <1>1, AttachedStays
<1>3. CASE Attached(ts)
    <2>1. trafficSplits[ts].service \in Known
        BY <1>1, <1>3 DEF Attached
    <2>2. ToSet(services'[trafficSplits[ts].service].splits) =
            {t \in KeptSplits : trafficSplits[t].service = trafficSplits[ts].service}
        BY <2>1, PopulatedGraph
    <2> QED BY <1>1, <1>2, <1>3, <2>2 DEF Kept
<1>4. CASE ~ Attached(ts)
    BY <1>2, <1>4 DEF Kept, KeptSplits, AttachedSplits
<1> QED BY <1>3, <1>4

\* The last step of Build reads the graph that the steps before it have made, and leaves the
\* one without the splits it takes away.
LEMMA GraphOfTheBuilt ==
    ASSUME TopologyInv, PopulateIncoming
    PROVE  /\ SameSplits /\ GraphInv /\ SplitsAreAttached /\ step = "incoming"
           /\ KeptSplits \subseteq AttachedSplits /\ AttachedSplits \subseteq Split
           /\ {ts \in Split : Kept(ts)}' = KeptSplits
           /\ {ts \in Split : Attached(ts)}' = AttachedSplits
<1>1. SameSplits
    BY PopulatedGraph DEF SameSplits, PopulateIncoming
<1>2. GraphInv /\ SplitsAreAttached /\ step = "incoming"
    BY IncomingReads DEF PopulateIncoming
<1>3. KeptSplits \subseteq AttachedSplits /\ AttachedSplits \subseteq Split
    BY DEF KeptSplits, AttachedSplits
<1>4. {ts \in Split : Kept(ts)}' = KeptSplits
    BY <1>3, KeptAre
<1>5. {ts \in Split : Attached(ts)}' = AttachedSplits
    BY <1>1, AttachedStays DEF SameSplits, AttachedSplits
<1> QED BY <1>1, <1>2, <1>3, <1>4, <1>5

\* The last step of Build takes away no split without a loop.
LEMMA BuildKeepsAcyclicSplits ==
    ASSUME TopologyInv, PopulateIncoming
    PROVE  AcyclicSplitsAreKept'
<1> DEFINE attached == {ts \in Split : Attached(ts)}
<1>1. /\ SameSplits /\ GraphInv /\ SplitsAreAttached
      /\ AttachedSplits \subseteq Split /\ attached' = AttachedSplits
    BY GraphOfTheBuilt
<1> HIDE DEF attached
<1>2. ASSUME NEW ts \in AttachedSplits,
             ~ LeadsToLoop(AttachedSplits, trafficSplits[ts].service)
      PROVE  Kept(ts)'
    <2>1. trafficSplits[ts].service \in Known /\ ts \in Split
        BY GraphOfTheBuilt DEF AttachedSplits, Attached, TopologyInv, SplitsInv
    <2>2. {} \in SUBSET Split /\ ts \notin {} /\ {} \cap SplitsBelow(ts) = {}
        OBVIOUS
    <2>3. ~ IncomingPods[{}][ts].err
        BY <1>1, <1>2, <2>1, <2>2, AcyclicNeverFails
    <2> QED BY <2>1, <2>3, KeptAre DEF KeptSplits
<1>3. \A X \in SUBSET Split : \A s : LeadsToLoop(X, s)' <=> LeadsToLoop(X, s)
    BY <1>1, LoopsStay
<1>4. ASSUME NEW ts \in attached', ~ LeadsToLoop(attached, trafficSplits[ts].service)'
      PROVE  Kept(ts)'
    <2>1. ~ LeadsToLoop(AttachedSplits, trafficSplits[ts].service)
        BY <1>1, <1>3, <1>4 DEF SameSplits
    <2> QED BY <1>1, <1>2, <1>4, <2>1
<1> QED BY <1>4 DEF AcyclicSplitsAreKept, attached

\* CallableSplitsHaveNoLoop, from the end of Build on.
NoCallableLoop ==
    LET kept == {ts \in Split : Kept(ts)}
    IN  \A ts \in kept :
            trafficSplits[ts].incoming # {} =>
                \A b \in ToSet(trafficSplits[ts].backends) : ~ LeadsToLoop(kept, b)

\* The last step of Build leaves no loop to a pod that may call a split.
LEMMA BuildFindsNoCallableLoop ==
    ASSUME TopologyInv, PopulateIncoming
    PROVE  NoCallableLoop'
<1> DEFINE kept == {ts \in Split : Kept(ts)}
<1>1. /\ SameSplits /\ GraphInv /\ SplitsAreAttached
      /\ KeptSplits \subseteq AttachedSplits /\ AttachedSplits \subseteq Split
      /\ kept' = KeptSplits
    BY GraphOfTheBuilt
<1> HIDE DEF kept
<1>2. ASSUME NEW ts \in KeptSplits, trafficSplits'[ts].incoming # {},
             NEW b \in ToSet(trafficSplits[ts].backends)
      PROVE  ~ LeadsToLoop(KeptSplits, b)
    <2>1. ts \in Split /\ {} \in SUBSET Split
        BY <1>1
    <2>2. IncomingPods[{}][ts] \in Outcomes /\ trafficSplits'[ts].incoming = IncomingPods[{}][ts].pods
        BY <1>1, <2>1, SplitOutcome, PopulatedGraph
    <2>3. PICK p \in Pod : p \in IncomingPods[{}][ts].pods
        BY <1>2, <2>2 DEF Outcomes
    <2>4. ~ LeadsToLoop(AttachedSplits, b)
        BY <1>1, <1>2, <2>1, <2>3, CallableLeadsToNoLoop
    <2> QED BY <1>1, <2>4, LoopStays
<1>3. \A X \in SUBSET Split : \A s : LeadsToLoop(X, s)' <=> LeadsToLoop(X, s)
    BY <1>1, LoopsStay
<1>4. ASSUME NEW ts \in kept', trafficSplits'[ts].incoming # {},
             NEW b \in ToSet(trafficSplits[ts].backends)'
      PROVE  ~ LeadsToLoop(kept, b)'
    <2>1. b \in ToSet(trafficSplits[ts].backends)
        BY <1>1, <1>4 DEF SameSplits
    <2>2. ~ LeadsToLoop(KeptSplits, b)
        BY <1>1, <1>2, <1>4, <2>1
    <2> QED BY <1>1, <1>3, <2>2
<1> QED BY <1>4 DEF NoCallableLoop, kept

\* The last step of Build gives a split exactly the pods that all ends of its ways allow.
LEMMA BuildFindsAllowedPods ==
    ASSUME TopologyInv, PopulateIncoming
    PROVE  IncomingIsAllowedEverywhere'
<1> DEFINE K == KeptSplits
           kept == {ts \in Split : Kept(ts)}
           Beyond(ts) == UNION {Reach(kept, b) : b \in ToSet(trafficSplits[ts].backends)}
           Ways(ts) == {ts} \cup {t \in kept : trafficSplits[t].service \in Beyond(ts)}
           Ends(ts) == {n \in Beyond(ts) : services[n].splits = << >>}
<1>1. /\ SameSplits /\ GraphInv /\ SplitsAreAttached /\ step = "incoming"
      /\ K \subseteq AttachedSplits /\ AttachedSplits \subseteq Split
      /\ kept' = K
    BY GraphOfTheBuilt
<1> HIDE DEF kept, K
<1>2. \A ts \in K : Beyond(ts)' = Below(K, ts)
    BY <1>1, ReachStays DEF SameSplits, Below
<1>3. ASSUME NEW n \in Known
      PROVE  services'[n].splits = << >> <=> \A t \in K : trafficSplits[t].service # n
    <2>1. /\ ToSet(services'[n].splits) = {ts \in K : trafficSplits[ts].service = n}
          /\ services'[n].splits \in Seq(Split)
        BY PopulatedGraph DEF K
    <2> DEFINE q == services'[n].splits
    <2>2. q = << >> <=> ToSet(q) = {}
        <3>1. q \in Seq(Split)
            BY <2>1
        <3> HIDE DEF q
        <3> QED BY <3>1, EmptyHasNone
    <2> QED BY <2>1, <2>2
<1>4. \A ts \in K : Below(K, ts) \subseteq Known
    BY ReachIsKnown DEF Below
<1> HIDE DEF Beyond
<1>5. \A ts \in K : /\ Ways(ts)' = {ts} \cup {t \in K : trafficSplits[t].service \in Below(K, ts)}
                    /\ Ends(ts)' = {n \in Below(K, ts) : \A t \in K : trafficSplits[t].service # n}
    BY <1>1, <1>2, <1>3, <1>4 DEF SameSplits
<1>6. \A n \in Known : PodsOfTargets(n) = AllowedPods(n)' 
    BY <1>1, TargetsAllow, AllowedPodsStay DEF SameSplits
<1>7. ASSUME NEW ts \in K, NEW p \in Pod
      PROVE  p \in IncomingPods[{}][ts].pods <=> AllowsCall(K, ts, p)
    <2>1. ts \in Split /\ {} \in SUBSET Split /\ ~ IncomingPods[{}][ts].err
        BY <1>1 DEF K, KeptSplits
    <2> QED BY <1>1, <2>1, FoundIsAllowed, AllowedIsFound DEF K
<1> HIDE DEF Ways, Ends
<1>8. ASSUME NEW ts \in kept', NEW p \in Pod
      PROVE  p \in trafficSplits'[ts].incoming <=>
                /\ \A t \in Ways(ts)' : trafficSplits'[t].backends # << >>
                /\ \A n \in Ends(ts)' : p \in AllowedPods(n)'
    <2>1. ts \in K /\ trafficSplits'[ts].incoming = IncomingPods[{}][ts].pods
        BY <1>1, PopulatedGraph DEF K
    <2>2. (\A t \in Ways(ts)' : trafficSplits'[t].backends # << >>) <=>
            /\ trafficSplits[ts].backends # << >>
            /\ \A t \in K : trafficSplits[t].service \in Below(K, ts) => trafficSplits[t].backends # << >>
        BY <1>1, <1>5, <2>1 DEF SameSplits
    <2>3. (\A n \in Ends(ts)' : p \in AllowedPods(n)') <=>
            \A n \in Below(K, ts) :
                p \in PodsOfTargets(n) \/ \E t \in K : trafficSplits[t].service = n
        BY <1>4, <1>5, <1>6, <2>1
    <2> QED BY <1>7, <2>1, <2>2, <2>3 DEF AllowsCall
<1> QED BY <1>8 DEF IncomingIsAllowedEverywhere, Ways, Ends, Beyond, kept

--------------------------------------------------------------------------------
(* The invariant of Build, and of BuildConfig, which only reads the topology.   *)

BuildInv ==
    /\ TopologyInv
    /\ AcyclicSplitsAreKept /\ IncomingIsAllowedEverywhere
    /\ step \in {"built", "configured"} => NoCallableLoop

Configures ==
    /\ step \in {"built", "configured"} /\ step' = "configured"
    /\ UNCHANGED <<cluster, services, trafficSplits, serviceTrafficTargets>>

\* Before its last step Build promises nothing.
LEMMA NothingBuilt ==
    ASSUME step' \notin {"built", "configured"}
    PROVE  /\ AcyclicSplitsAreKept' /\ IncomingIsAllowedEverywhere'
           /\ (step \in {"built", "configured"} => NoCallableLoop)'
BY DEF AcyclicSplitsAreKept, IncomingIsAllowedEverywhere, Built

\* After it the topology stays as it is.
LEMMA NoCallableLoopStays ==
    ASSUME TopologyInv, step \in {"built", "configured"}, NoCallableLoop,
           UNCHANGED <<cluster, services, trafficSplits>>
    PROVE  NoCallableLoop'
<1> DEFINE kept == {ts \in Split : Kept(ts)}
<1>1. SameSplits
    BY DEF SameSplits
<1>2. \A ts \in Split : Kept(ts)' <=> Kept(ts)
    BY AttachedStays DEF Kept
<1>3. kept' = kept /\ kept \in SUBSET Split
    BY <1>2
<1> HIDE DEF kept
<1>4. \A X \in SUBSET Split : \A s : LeadsToLoop(X, s)' <=> LeadsToLoop(X, s)
    BY <1>1, LoopsStay
<1>5. \A b : LeadsToLoop(kept, b)' <=> LeadsToLoop(kept, b)
    BY <1>3, <1>4
<1>6. \A ts \in kept : trafficSplits[ts].incoming # {} =>
            \A b \in ToSet(trafficSplits[ts].backends) : ~ LeadsToLoop(kept, b)
    BY DEF NoCallableLoop, kept
<1>7. \A ts \in kept' : trafficSplits'[ts].incoming # {} =>
            \A b \in ToSet(trafficSplits'[ts].backends) : ~ LeadsToLoop(kept, b)'
    BY <1>3, <1>5, <1>6
<1> QED BY <1>7 DEF NoCallableLoop, kept

\* BuildConfig leaves the topology as Build has made it.
LEMMA ConfiguresKeeps ==
    ASSUME BuildInv, Configures
    PROVE  BuildInv'
<1> USE DEF Configures
<1>1. TopologyInv /\ UNCHANGED cluster
    BY DEF BuildInv
<1>2. ClusterInv' /\ StepInv'
    BY <1>1 DEF TopologyInv, ClusterInv, StepInv
<1>3. ServicesInv' /\ SplitsInv'
    BY <1>1 DEF TopologyInv, ServicesInv, SplitsInv, Known
<1>4. AttachedInv'
    BY <1>1, SplitsAtStay DEF TopologyInv, AttachedInv, Known
<1>5. TargetsInv'
    BY <1>1, TargetsStay DEF TopologyInv
<1>6. AcyclicSplitsAreKept' /\ IncomingIsAllowedEverywhere'
    BY DEF AcyclicSplitsAreKept, IncomingIsAllowedEverywhere, Built
<1>7. NoCallableLoop'
    BY <1>1, NoCallableLoopStays DEF BuildInv
<1> QED BY <1>2, <1>3, <1>4, <1>5, <1>6, <1>7 DEF BuildInv, TopologyInv

\* The first state.
LEMMA BuildStarts == Init => BuildInv
<1> SUFFICES ASSUME Init PROVE BuildInv
    OBVIOUS
<1>1. step = "services"
    BY DEF Init
<1> QED BY <1>1, TopologyStarts DEF BuildInv, AcyclicSplitsAreKept, IncomingIsAllowedEverywhere, Built

\* Every step of Build keeps its invariant.
LEMMA NextKeeps ==
    ASSUME BuildInv, Next
    PROVE  BuildInv'
<1>0. TopologyInv
    BY DEF BuildInv
<1>1. CASE EvaluateServices
    <2>1. step' \notin {"built", "configured"}
        BY <1>1 DEF EvaluateServices
    <2> QED BY <1>0, <1>1, <2>1, EvaluateServicesKeeps, NothingBuilt DEF BuildInv
<1>2. CASE EvaluateTrafficSplit
    <2>1. step' \notin {"built", "configured"}
        BY <1>2 DEF EvaluateTrafficSplit
    <2> QED BY <1>0, <1>2, <2>1, EvaluateTrafficSplitKeeps, NothingBuilt DEF BuildInv
<1>3. CASE EvaluateTrafficTargets
    <2>1. step' \notin {"built", "configured"}
        BY <1>3 DEF EvaluateTrafficTargets
    <2> QED BY <1>0, <1>3, <2>1, EvaluateTrafficTargetsKeeps, NothingBuilt DEF BuildInv
<1>4. CASE PopulateIncoming
    BY <1>0, <1>4, PopulateIncomingKeeps, BuildKeepsAcyclicSplits, BuildFindsAllowedPods,
       BuildFindsNoCallableLoop DEF BuildInv
<1> QED BY <1>1, <1>2, <1>3, <1>4 DEF Next

\* So does every step that leaves the topology alone.
LEMMA BuildStutters ==
    ASSUME BuildInv, UNCHANGED vars
    PROVE  BuildInv'
<1> USE DEF BuildInv, vars
<1>1. TopologyInv'
    <2>1. ClusterInv' /\ StepInv' /\ ServicesInv' /\ SplitsInv'
        BY DEF TopologyInv, ClusterInv, StepInv, ServicesInv, SplitsInv, Known
    <2>2. AttachedInv'
        BY SplitsAtStay DEF TopologyInv, AttachedInv, Known
    <2>3. TargetsInv'
        BY TargetsStay DEF TopologyInv
    <2> QED BY <2>1, <2>2, <2>3 DEF TopologyInv
<1> DEFINE kept == {ts \in Split : Kept(ts)}
           attached == {ts \in Split : Attached(ts)}
           Beyond(ts) == UNION {Reach(kept, b) : b \in ToSet(trafficSplits[ts].backends)}
           Ways(ts) == {ts} \cup {t \in kept : trafficSplits[t].service \in Beyond(ts)}
           Ends(ts) == {n \in Beyond(ts) : services[n].splits = << >>}
<1>2. SameSplits /\ \A ts \in Split : (Kept(ts)' <=> Kept(ts)) /\ (Attached(ts)' <=> Attached(ts))
    BY AttachedStays DEF SameSplits, Kept
<1>3. /\ kept' = kept /\ kept \in SUBSET Split
      /\ attached' = attached /\ attached \in SUBSET Split
    BY <1>2
<1> HIDE DEF kept, attached
<1>4. AcyclicSplitsAreKept'
    <2>1. \A X \in SUBSET Split : \A s : LeadsToLoop(X, s)' <=> LeadsToLoop(X, s)
        BY <1>2, LoopsStay
    <2>2. \A s : LeadsToLoop(attached, s)' <=> LeadsToLoop(attached, s)
        BY <1>3, <2>1
    <2>3. Built => \A ts \in attached : ~ LeadsToLoop(attached, trafficSplits[ts].service) => Kept(ts)
        BY DEF AcyclicSplitsAreKept, attached
    <2>4. Built' => \A ts \in attached' : ~ LeadsToLoop(attached, trafficSplits[ts].service)' => Kept(ts)'
        BY <1>2, <1>3, <2>2, <2>3 DEF Built
    <2> QED BY <2>4 DEF AcyclicSplitsAreKept, attached
<1>5. IncomingIsAllowedEverywhere'
    <2>1. \A X \in SUBSET Split : \A s : Reach(X, s)' = Reach(X, s)
        BY <1>2, ReachStays
    <2>2. \A ts : Beyond(ts)' = Beyond(ts)
        BY <1>3, <2>1
    <2> HIDE DEF Beyond
    <2>3. \A ts : Ways(ts)' = Ways(ts) /\ Ends(ts)' = Ends(ts)
        BY <1>3, <2>2
    <2> HIDE DEF Ways, Ends
    <2>4. \A n : AllowedPods(n)' = AllowedPods(n)
        BY AllowedPodsStay
    <2>5. Built => \A ts \in kept, p \in Pod :
                p \in trafficSplits[ts].incoming <=>
                    /\ \A t \in Ways(ts) : trafficSplits[t].backends # << >>
                    /\ \A n \in Ends(ts) : p \in AllowedPods(n)
        BY DEF IncomingIsAllowedEverywhere, kept, Beyond, Ways, Ends
    <2>6. Built' => \A ts \in kept', p \in Pod :
                p \in trafficSplits'[ts].incoming <=>
                    /\ \A t \in Ways(ts)' : trafficSplits'[t].backends # << >>
                    /\ \A n \in Ends(ts)' : p \in AllowedPods(n)'
        BY <1>3, <2>3, <2>4, <2>5 DEF Built
    <2> QED BY <2>6 DEF IncomingIsAllowedEverywhere, kept, Beyond, Ways, Ends
<1>6. (step \in {"built", "configured"} => NoCallableLoop)'
    BY NoCallableLoopStays
<1> QED BY <1>1, <1>4, <1>5, <1>6

\* The types of the topology, from its invariant.
LEMMA BuildIsTyped == BuildInv => TypeOK
<1> SUFFICES ASSUME BuildInv PROVE TypeOK
    OBVIOUS
<1> USE DEF BuildInv, TopologyInv
<1>1. step = "services" => services = << >> /\ DOMAIN trafficSplits = {}
    BY DEF ServicesInv, SplitsInv
<1>2. ASSUME NEW s \in DOMAIN services
      PROVE  /\ s \in DOMAIN cluster.ports
             /\ services[s].splits \in Seq(DOMAIN trafficSplits) /\ IsInjective(services[s].splits)
             /\ services[s].backendOf \subseteq DOMAIN trafficSplits
             /\ \A tt \in services[s].targets : <<s, tt>> \in DOMAIN serviceTrafficTargets
    <2>1. step # "services"
        BY <1>1
    <2>2. s \in Known /\ services[s].splits \in Seq(Split) /\ services[s].backendOf \subseteq DOMAIN trafficSplits
        BY <2>1 DEF ServicesInv
    <2>3. ToSet(services[s].splits) \subseteq DOMAIN trafficSplits /\ IsInjective(services[s].splits)
        BY <2>1, <2>2 DEF AttachedInv, SplitsAt
    <2>4. services[s].splits \in Seq(DOMAIN trafficSplits)
        BY <2>2, <2>3, SeqOfElements
    <2>5. ASSUME NEW tt \in services[s].targets PROVE <<s, tt>> \in DOMAIN serviceTrafficTargets
        <3>1. step \notin {"services", "splits", "targets"}
            BY DEF TargetsInv
        <3>2. Applies(tt, s) /\ tt \in Target
            BY <3>1 DEF TargetsInv
        <3>3. s \in Destinations(tt) /\ s \in Name
            BY <3>2, ClusterAssumption DEF Applies, ClusterInv, Known
        <3> QED BY <3>1, <3>2, <3>3 DEF TargetsInv
    <2> QED BY <2>2, <2>3, <2>4, <2>5 DEF Known
<1>3. ASSUME NEW ts \in DOMAIN trafficSplits
      PROVE  ToSet(trafficSplits[ts].backends) \subseteq DOMAIN services /\ trafficSplits[ts].incoming \subseteq Pod
    <2>1. trafficSplits[ts] \in [service : Name, backends : Seq(Known), incoming : SUBSET Pod]
        BY DEF SplitsInv
    <2>2. trafficSplits[ts].backends \in Seq(Known) /\ trafficSplits[ts].incoming \subseteq Pod
        BY <2>1
    <2>3. DOMAIN services = Known
        BY <1>1 DEF ServicesInv
    <2> QED BY <2>2, <2>3 DEF ToSet
<1>4. DOMAIN serviceTrafficTargets \subseteq Name \X Target
    BY DEF TargetsInv
<1>5. DOMAIN trafficSplits \subseteq Split
    BY DEF SplitsInv
<1> QED BY <1>2, <1>3, <1>4, <1>5 DEF TypeOK, StepInv

\* The induction step.
LEMMA BuildSteps == BuildInv /\ [Next]_vars => BuildInv'
BY NextKeeps, BuildStutters

\* What the invariant of Build promises.
LEMMA BuildIsSound ==
    BuildInv => /\ TypeOK /\ AcyclicSplitsAreKept /\ IncomingIsAllowedEverywhere
                /\ CallableSplitsHaveNoLoop
BY BuildIsTyped DEF BuildInv, CallableSplitsHaveNoLoop, NoCallableLoop, Built

\* The maps of the topology refer to entries that they have (Topology of topology.go).
THEOREM TopologyIsTyped == Spec => []TypeOK
<1> QED BY BuildStarts, BuildSteps, BuildIsSound, PTL DEF Spec

\* No split is taken for a loop that is none, however the maps are ranged over
\* (populateTrafficSplitsAuthorizedIncomingTraffic).
THEOREM AcyclicSplitsStay == Spec => []AcyclicSplitsAreKept
<1> QED BY BuildStarts, BuildSteps, BuildIsSound, PTL DEF Spec

\* What the recursion of getIncomingPodsForTrafficSplit finds is what the traffic targets
\* at the ends of all ways allow, whatever the splits.
THEOREM IncomingPodsAreAllowed == Spec => []IncomingIsAllowedEverywhere
<1> QED BY BuildStarts, BuildSteps, BuildIsSound, PTL DEF Spec

\* The early returns of the recursion hide no loop from a pod that may call a split.
THEOREM CallableSplitsAreLoopFree == Spec => []CallableSplitsHaveNoLoop
<1> QED BY BuildStarts, BuildSteps, BuildIsSound, PTL DEF Spec
================================================================================

-------------------------- MODULE MCBridgeTerminal --------------------------
(***************************************************************************)
(* Two to five terminals around two bridges and a plain node: every choice *)
(* of the lines that give a terminal a second way into the tree.           *)
(***************************************************************************)
EXTENDS BridgeManifest

CONSTANTS X, Y, Plain, A, B, C, D, E

Lines(S) == S \cup {Opposite(l) : l \in S}

MCNodeOrder == <<X, C, Y, Plain, A, B, D, E>>
MCBridges == {X, Y}
MCVlans == 1..3

Base == {<<A, X>>, <<X, Plain>>, <<Plain, Y>>, <<Y, B>>, <<C, X>>, <<D, Y>>, <<Plain, E>>}
Optional == {<<X, Y>>, <<C, Plain>>, <<D, Plain>>}
MCGraphs == {Lines(Base \cup S) : S \in SUBSET Optional} \cup {Lines(Base \ {<<D, Y>>})}

(* What ComputeKSP finds in these topologies for floor(sqrt(8) + 1) paths: *)
(* loop-free ones, the shortest first.  A destination that is the first    *)
(* neighbour of the source is never found.                                 *)
K == 3
SimplePaths(g, s) ==
    LET extend(P) == UNION {{Append(p, l) : l \in {l \in g :
                                /\ l[1] = (IF p = <<>> THEN s ELSE Last(p)[2])
                                /\ l[2] # s /\ \A i \in DOMAIN p : p[i][2] # l[2]}} : p \in P}
        upTo[i \in 0..Cardinality(Nodes)] ==
            IF i = 0 THEN {<<>>} ELSE LET P == upTo[i - 1] IN P \cup extend(P)
    IN upTo[Cardinality(Nodes)] \ {<<>>}
Position(n) == CHOOSE i \in DOMAIN NodeOrder : NodeOrder[i] = n
Before(p, q) ==
    \/ Len(p) < Len(q)
    \/ /\ Len(p) = Len(q)
       /\ \E i \in DOMAIN p : /\ Position(p[i][2]) < Position(q[i][2])
                              /\ \A j \in 1..i - 1 : p[j] = q[j]
FirstNeighbour(g, s) ==
    CHOOSE n \in Nodes : /\ <<s, n>> \in g
                         /\ \A m \in Nodes : <<s, m>> \in g => Position(n) <= Position(m)
ShortestPaths(g, s, t) ==
    LET found == {p \in SimplePaths(g, s) : Last(p)[2] = t}
        nth(i) == CHOOSE p \in found : Cardinality({q \in found : Before(q, p)}) = i - 1
    IN IF found = {} \/ FirstNeighbour(g, s) = t THEN <<>>
       ELSE [i \in 1..Min({K, Cardinality(found)}) |-> nth(i)]
MCRoutes ==
    [g \in MCGraphs |-> [e \in Nodes \X (Nodes \ Bridges) |-> ShortestPaths(g, e[1], e[2])]]

Vlan(S, vs, T) ==
    [vlans |-> [l \in AllLinks |-> IF l \in Lines(S) THEN vs ELSE MCVlans], translate |-> T]
MCCapabilities ==
    {Vlan({}, {}, {}), Vlan({<<D, Y>>}, {1}, {}), Vlan({<<Plain, Y>>, <<X, Y>>}, {2, 3}, {<<X, Plain>>}),
     Vlan({<<Plain, E>>}, {}, {}), Vlan({<<X, Plain>>, <<Y, D>>}, {1}, {<<X, Plain>>, <<Plain, X>>, <<Y, D>>})}

Some == {{1, 2}, {2, 3}, {ANY}}
Asking(T, S) == {r \in [T -> Some] : r[B] = {2, 3} /\ \A t \in S : r[t] # {2, 3}}
MCRequests == Asking({A, B, C, D, E}, {A, C}) \cup Asking({C, D, E, B}, {C})
                  \cup Asking({A, B, E}, {}) \cup Asking({A, B}, {})
=============================================================================
